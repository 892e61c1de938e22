----------------------------- MODULE ScanProofs -----------------------------
(***************************************************************************)
(* The database properties of Scan for any number of scanners, packages    *)
(* and scores.                                                             *)
(***************************************************************************)
EXTENDS Scan, TLAPS, WellFoundedInduction

\* Zenon proves the leaves that do not name SMT.
USE ZenonT(60)

\* A transaction belongs to the scanner that is between its BEGIN and its
\* COMMIT, and holds that scanner's row; the row is baseline exactly if no
\* committed row has its name, and has its events once they were inserted.
Transaction ==
    /\ \A s \in Scanner : pc[s] \in {"events", "commit"} <=> lock = s
    /\ lock # Free =>
          /\ pending.name = package[lock].name
          /\ pending.version = package[lock].version
          /\ pending.baseline <=> \A i \in DOMAIN rows : rows[i].name # pending.name
          /\ pending.events <=> pc[lock] = "commit"

\* A previous version that a scanner has found is in the database, and so is
\* its own when it compares.
Has(name, version) == \E i \in DOMAIN rows : rows[i].name = name /\ rows[i].version = version

Found ==
    \A s \in Scanner :
        /\ pc[s] \in {"insert", "events", "commit", "compare"} /\ previous[s] # "" =>
              Has(package[s].name, previous[s])
        /\ pc[s] = "compare" => previous[s] # "" /\ Has(package[s].name, package[s].version)

\* Until the delta the action of a result is the one its score calls for.
ByScore ==
    \A s \in Scanner : pc[s] \in Storing \ {"artifacts"} =>
        result[s].action = (IF result[s].score >= 50 THEN "reject"
                            ELSE IF result[s].score >= 25 THEN "audit" ELSE "allow")

IInv == TypeOK /\ OneBaseline /\ StoredWhole /\ Transaction /\ Found

-----------------------------------------------------------------------------
(***************************************************************************)
(* Types.                                                                  *)
(***************************************************************************)
Result == [ok : BOOLEAN, score : 0 .. 100, level : Level, action : Action,
           baseline : BOOLEAN, delta : BOOLEAN]

\* The engine gives a score up to 100, a level and an action (Engine::assess).
LEMMA AssessType ==
    ASSUME NEW sum \in Nat, NEW direct \in BOOLEAN
    PROVE  assess(sum, direct) \in [score : 0 .. 100, level : Level, action : Action]
<1>1. Capped(sum) \in 0 .. 100
    BY SMTT(60) DEF Capped
<1> QED
    BY <1>1 DEF assess, Level, Action

\* So does the correction of scan().
LEMMA DeltaType ==
    ASSUME NEW score \in 0 .. 100
    PROVE  delta(score) \in [score : 0 .. 100, level : Level, action : Action]
BY SMTT(60) DEF delta, Capped, Level, Action

\* An assessment goes into a result of its type.
LEMMA AssessedType ==
    ASSUME NEW r \in Result, NEW a \in [score : 0 .. 100, level : Level, action : Action]
    PROVE  Assessed(r, a) \in Result
BY DEF Assessed, Result

\* The result before the assessment has its type.
LEMMA NoResultType == NoResult \in Result
BY SMTT(60) DEF NoResult, Result, Level, Action

\* TypeOK with its set of results named.
LEMMA TypeUnfolded ==
    TypeOK <=>
        /\ schema \in 0 .. 2
        /\ rows \in Seq(Row)
        /\ lock \in Scanner \cup {Free}
        /\ pending \in Row
        /\ pc \in [Scanner -> Storing \cup {"inspect", "returned", "killed"}]
        /\ package \in [Scanner -> [name : Names, version : Versions]]
        /\ previous \in [Scanner -> Versions \cup {""}]
        /\ result \in [Scanner -> Result]
BY DEF TypeOK, Result

\* A row added to rows gives rows.
LEMMA AppendType ==
    ASSUME NEW S, NEW q \in Seq(S), NEW e \in S
    PROVE  Append(q, e) \in Seq(S)
BY SMTT(60)

\* A set of positions has a last one.
LEMMA LastExists ==
    ASSUME NEW n \in Nat, NEW S, S \subseteq 1 .. n, S # {}
    PROVE  \E i \in S : \A j \in S : j <= i
<1> DEFINE R == OpToRel(<, Nat)
           T == {n - i : i \in S}
<1> HIDE DEF R
<1>1. \A i \in S : n - i \in Nat
    BY SMTT(60)
<1>2. T \subseteq Nat /\ T # {}
    BY <1>1
<1>3. \E x \in T : \A y \in T : <<y, x>> \notin R
    <2> HIDE DEF T
    <2> QED
        BY <1>2, WFMin, NatLessThanWellFounded DEF R
<1>4. \A x, y \in Nat : <<y, x>> \notin R => x <= y
    BY SMTT(60) DEF R, OpToRel
<1>5. PICK k \in S : \A y \in T : <<y, n - k>> \notin R
    BY <1>3
<1>6. \A j \in S : n - k <= n - j
    BY <1>2, <1>4, <1>5
<1> QED
    BY SMTT(60), <1>6

\* What previous_version returns is a version of that package in the database,
\* or nothing.
LEMMA PreviousFound ==
    ASSUME rows \in Seq(Row), NEW name, NEW version
    PROVE  LET p == previous_version(name, version) IN
           p \in Versions \cup {""} /\ (p # "" => Has(name, p))
<1> DEFINE others == {i \in Named(name) : rows[i].version # version}
<1>1. CASE others = {}
    BY <1>1 DEF previous_version
<1>2. CASE others # {}
    <2>1. others \subseteq 1 .. Len(rows) /\ Len(rows) \in Nat
        BY SMTT(60) DEF Named
    <2>2. \E i \in others : \A j \in others : j <= i
        <3> HIDE DEF others
        <3> QED
            BY <1>2, <2>1, LastExists
    <2>3. PICK i \in others : previous_version(name, version) = rows[i].version
        BY <1>2, <2>2 DEF previous_version
    <2>4. i \in DOMAIN rows /\ rows[i] \in Row /\ rows[i].name = name
        BY SMTT(60) DEF Named
    <2>5. rows[i].version \in Versions \cup {""}
        BY <2>4 DEF Row
    <2> QED
        BY <2>3, <2>4, <2>5 DEF Has
<1> QED
    BY <1>1, <1>2

\* Every step keeps the types.
LEMMA TypeStep ==
    ASSUME TypeOK, Next
    PROVE  TypeOK'
<1> USE PackageAssumption
<1> SUFFICES ASSUME NEW s \in Scanner, Scanning(s) \/ Killed(s)
             PROVE  TypeOK'
    BY DEF Next
<1>t. /\ schema \in 0 .. 2
      /\ rows \in Seq(Row)
      /\ lock \in Scanner \cup {Free}
      /\ pending \in Row
      /\ pc \in [Scanner -> Storing \cup {"inspect", "returned", "killed"}]
      /\ package \in [Scanner -> [name : Names, version : Versions]]
      /\ previous \in [Scanner -> Versions \cup {""}]
      /\ result \in [Scanner -> Result]
    BY TypeUnfolded
<1>p. ASSUME NEW from, NEW to \in Storing \cup {"inspect", "returned", "killed"}, At(s, from, to)
      PROVE  /\ pc' \in [Scanner -> Storing \cup {"inspect", "returned", "killed"}]
             /\ package' \in [Scanner -> [name : Names, version : Versions]]
    BY <1>t, <1>p DEF At
<1>r. ASSUME NEW r \in Result, Becomes(s, r)
      PROVE  result' \in [Scanner -> Result]
    BY <1>t, <1>r DEF Becomes
<1>n. NoRow \in Row
    BY DEF NoRow, Row
<1>d. \A direct \in BOOLEAN : \A sum \in Nat :
         Assessed(NoResult, assess(sum, direct)) \in Result /\ Assessed(result[s], assess(sum, direct)) \in Result
    BY <1>t, AssessType, AssessedType, NoResultType
<1>1. CASE Refuse(s)
    <2>1. Becomes(s, Assessed(NoResult, assess(0, TRUE)))
        BY <1>1 DEF Refuse
    <2>2. result' \in [Scanner -> Result]
        BY <2>1, <1>d, <1>r
    <2> QED
        BY <1>1, <1>t, <1>p, <2>2, TypeUnfolded DEF Refuse, storage, Storing, TypeOK, Result
<1>2. CASE PrepareFails(s)
    BY <1>2, <1>t, <1>p DEF PrepareFails, storage, SameResult, Storing, TypeOK, Result
<1>3. CASE NotIsolated(s)
    <2>1. [score |-> 0, level |-> "critical", action |-> "reject"]
             \in [score : 0 .. 100, level : Level, action : Action]
        BY SMTT(60) DEF Level, Action
    <2>2. result' \in [Scanner -> Result]
        BY <1>3, <1>r, <2>1, AssessedType, NoResultType DEF NotIsolated
    <2> QED
        BY <1>3, <1>t, <1>p, <2>2 DEF NotIsolated, storage, Storing, TypeOK, Result
<1>4. ASSUME NEW sum \in Scores, Assess(s, sum)
      PROVE  TypeOK'
    <2>1. sum \in Nat
        OBVIOUS
    <2>2. Assessed(result[s], assess(sum, FALSE)) \in Result
        BY <1>d, <2>1
    <2>3. [Assessed(result[s], assess(sum, FALSE)) EXCEPT !.ok = assess(sum, FALSE).action # "reject"] \in Result
        BY <2>2 DEF Result
    <2>4. result' \in [Scanner -> Result]
        BY <1>4, <2>3, <1>r DEF Assess
    <2> QED
        BY <1>4, <1>t, <1>p, <2>4 DEF Assess, storage, Storing, TypeOK, Result
<1>5. CASE OpenDatabase(s)
    <2>o. schema' = 1 /\ rows' = rows /\ lock' = lock /\ pending' = pending
        BY <1>5 DEF OpenDatabase, open
    <2>i. 1 \in 0 .. 2
        BY SMTT(60)
    <2>1. /\ schema' \in 0 .. 2 /\ rows' \in Seq(Row)
          /\ lock' \in Scanner \cup {Free} /\ pending' \in Row
        BY <2>o, <2>i, <1>t
    <2>2. At(s, "open", "previous") /\ previous' = previous /\ result' = result
        BY <1>5 DEF OpenDatabase, SameResult
    <2> QED
        BY <1>t, <1>p, <2>1, <2>2 DEF Storing, TypeOK, Result
<1>6. CASE PreviousVersion(s)
    <2>1. previous' \in [Scanner -> Versions \cup {""}]
        BY <1>6, <1>t, PreviousFound DEF PreviousVersion
    <2> QED
        BY <1>6, <1>t, <1>p, <2>1 DEF PreviousVersion, storage, Storing, TypeOK, Result
<1>7. CASE StoreRow(s)
    <2>1. pending' \in Row
        BY <1>7, <1>t DEF StoreRow, insert, Row
    <2> QED
        BY <1>7, <1>t, <1>p, <2>1 DEF StoreRow, insert, SameResult, Storing, TypeOK, Result
<1>8. CASE StoreEvents(s)
    <2>1. pending' \in Row
        BY <1>8, <1>t DEF StoreEvents, insert_events, Row
    <2> QED
        BY <1>8, <1>t, <1>p, <2>1 DEF StoreEvents, insert_events, SameResult, Storing, TypeOK, Result
<1>c. ASSUME commit(s)
      PROVE  schema' \in 0 .. 2 /\ rows' \in Seq(Row) /\ lock' \in Scanner \cup {Free} /\ pending' \in Row
    <2>1. rows' \in Seq(Row)
        BY <1>c, <1>t, AppendType DEF commit
    <2> QED
        BY <1>c, <1>t, <1>n, <2>1 DEF commit
<1>9. CASE Commit(s)
    <2>1. [result[s] EXCEPT !.baseline = pending.baseline] \in Result
        <3>1. pending.baseline \in BOOLEAN
            BY <1>t DEF Row
        <3>2. result[s] \in Result
            BY <1>t
        <3> HIDE <1>t
        <3> QED
            BY <3>1, <3>2 DEF Result
    <2>2. result' \in [Scanner -> Result]
        BY <1>9, <2>1, <1>r DEF Commit
    <2> QED
        BY <1>9, <1>t, <1>p, <1>c, <2>2 DEF Commit, Storing, TypeOK, Result
<1>10. CASE CommitUnread(s)
    BY <1>10, <1>t, <1>p, <1>c DEF CommitUnread, SameResult, Storing, TypeOK, Result
<1>11. ASSUME NEW changed \in BOOLEAN, Compare(s, changed)
       PROVE  TypeOK'
    <2>1. result[s] \in Result /\ result[s].score \in 0 .. 100
        BY <1>t DEF Result
    <2>2. Assessed(result[s], delta(result[s].score)) \in Result
        BY <2>1, DeltaType, AssessedType
    <2>3. [Assessed(result[s], delta(result[s].score)) EXCEPT !.delta = TRUE] \in Result
        BY <2>2 DEF Result
    <2>4. result' \in [Scanner -> Result]
        BY <1>11, <2>1, <2>3, <1>r DEF Compare
    <2> QED
        BY <1>11, <1>t, <1>p, <2>4 DEF Compare, storage, Storing, TypeOK, Result
<1>b. ASSUME rollback(s)
      PROVE  schema' \in 0 .. 2 /\ rows' \in Seq(Row) /\ lock' \in Scanner \cup {Free} /\ pending' \in Row
    BY <1>b, <1>t, <1>n DEF rollback
<1>12. CASE StorageFails(s)
    BY <1>12, <1>t, <1>p, <1>b DEF StorageFails, SameResult, Storing, TypeOK, Result
<1>13. CASE WriteArtifacts(s)
    BY <1>13, <1>t, <1>p DEF WriteArtifacts, storage, SameResult, Storing, TypeOK, Result
<1>14. CASE Killed(s)
    <2>1. result' \in [Scanner -> Result]
        BY <1>14, <1>r, NoResultType DEF Killed
    <2>2. previous' \in [Scanner -> Versions \cup {""}]
        BY <1>14, <1>t DEF Killed
    <2> QED
        BY <1>14, <1>t, <1>p, <1>b, <2>1, <2>2 DEF Killed, TypeOK, Result
<1> QED
    BY <1>1, <1>2, <1>3, <1>4, <1>5, <1>6, <1>7, <1>8, <1>9, <1>10, <1>11, <1>12, <1>13, <1>14 DEF Scanning

-----------------------------------------------------------------------------
(***************************************************************************)
(* The database.                                                           *)
(***************************************************************************)
\* What a commit does to the positions of the rows.
LEMMA Appended ==
    ASSUME rows \in Seq(Row), pending \in Row, rows' = Append(rows, pending)
    PROVE  /\ Len(rows) \in Nat
           /\ DOMAIN rows = 1 .. Len(rows)
           /\ DOMAIN rows' = 1 .. Len(rows) + 1
           /\ \A i \in 1 .. Len(rows) : rows'[i] = rows[i]
           /\ rows'[Len(rows) + 1] = pending
BY SMTT(60)

\* A scanner in its transaction commits, or the rows stay as they are.
LEMMA RowsStep ==
    ASSUME NEW s \in Scanner, Scanning(s) \/ Killed(s)
    PROVE  rows' = rows \/ (pc[s] = "commit" /\ commit(s))
<1>1. CASE \E sum \in Scores : Assess(s, sum)
    BY <1>1 DEF Assess, storage
<1>2. CASE \E changed \in BOOLEAN : Compare(s, changed)
    BY <1>2 DEF Compare, storage
<1>3. CASE Commit(s) \/ CommitUnread(s)
    BY <1>3 DEF Commit, CommitUnread, At
<1>4. CASE Refuse(s) \/ PrepareFails(s) \/ NotIsolated(s) \/ PreviousVersion(s) \/ WriteArtifacts(s)
    BY <1>4 DEF Refuse, PrepareFails, NotIsolated, PreviousVersion, WriteArtifacts, storage
<1>5. CASE OpenDatabase(s) \/ StoreRow(s) \/ StoreEvents(s)
    BY <1>5 DEF OpenDatabase, StoreRow, StoreEvents, open, insert, insert_events
<1>6. CASE StorageFails(s) \/ Killed(s)
    BY <1>6 DEF StorageFails, Killed, rollback
<1> QED
    BY <1>1, <1>2, <1>3, <1>4, <1>5, <1>6 DEF Scanning

\* A committed row keeps one baseline per name, the first row, and is whole.
LEMMA CommitKeepsRows ==
    ASSUME TypeOK, OneBaseline, StoredWhole, Transaction,
           NEW s \in Scanner, pc[s] = "commit", commit(s)
    PROVE  OneBaseline' /\ StoredWhole'
<1> USE PackageAssumption
<1> DEFINE n == Len(rows)
           Later(name) == {j \in DOMAIN rows' : rows'[j].name = name}
<1>t. rows \in Seq(Row) /\ pending \in Row
    BY DEF TypeOK
<1>p. /\ pending.baseline <=> \A i \in DOMAIN rows : rows[i].name # pending.name
      /\ pending.events
    BY DEF commit, Transaction
<1>a. /\ n \in Nat
      /\ DOMAIN rows = 1 .. n
      /\ DOMAIN rows' = 1 .. n + 1
      /\ \A i \in 1 .. n : rows'[i] = rows[i]
      /\ rows'[n + 1] = pending
    BY <1>t, Appended DEF commit
<1>d. \A i \in DOMAIN rows' : i \in 1 .. n \/ i = n + 1
    BY SMTT(60), <1>a
<1>1. ASSUME NEW i \in 1 .. n
      PROVE  rows'[i].baseline <=> \A j \in Later(rows'[i].name) : i <= j
    <2>1. rows'[i] = rows[i] /\ i \in DOMAIN rows
        BY <1>a
    <2>2. rows[i].baseline <=> \A j \in Named(rows[i].name) : i <= j
        BY <2>1 DEF OneBaseline
    <2>3. \A j \in Named(rows[i].name) : j \in Later(rows[i].name)
        BY SMTT(60), <1>a DEF Named
    <2>4. \A j \in Later(rows[i].name) : j \in Named(rows[i].name) \/ i <= j
        BY SMTT(60), <1>a, <1>d DEF Named
    <2> QED
        BY <2>1, <2>2, <2>3, <2>4
<1>2. rows'[n + 1].baseline <=> \A j \in Later(rows'[n + 1].name) : n + 1 <= j
    <2>1. n + 1 \in DOMAIN rows' /\ \A i \in DOMAIN rows : ~(n + 1 <= i) /\ i \in DOMAIN rows'
        BY SMTT(60), <1>a
    <2>2. \A i \in DOMAIN rows : rows[i].name = pending.name => i \in Later(pending.name)
        BY <1>a, <2>1 DEF Named
    <2>3. \A j \in Later(pending.name) :
             n + 1 <= j \/ (j \in DOMAIN rows /\ rows[j].name = pending.name)
        BY SMTT(60), <1>a, <1>d DEF Named
    <2> QED
        BY <1>a, <1>p, <2>1, <2>2, <2>3
<1>3. \A i \in DOMAIN rows' : rows'[i].baseline <=> \A j \in Later(rows'[i].name) : i <= j
    BY SMTT(60), <1>d, <1>1, <1>2
<1>4. \A i \in DOMAIN rows' : rows'[i].events
    BY <1>a, <1>d, <1>p DEF StoredWhole
<1> QED
    BY <1>3, <1>4 DEF OneBaseline, StoredWhole, Named

\* What was found in the database stays there: rows are only added.
LEMMA HasGrows ==
    ASSUME TypeOK, NEW s \in Scanner, Scanning(s) \/ Killed(s), NEW name, NEW version, Has(name, version)
    PROVE  Has(name, version)'
<1>1. CASE rows' = rows
    BY <1>1 DEF Has
<1>2. CASE commit(s)
    <2>1. rows \in Seq(Row) /\ pending \in Row /\ rows' = Append(rows, pending)
        BY <1>2 DEF commit, TypeOK
    <2>2. /\ DOMAIN rows \subseteq DOMAIN rows'
          /\ \A i \in DOMAIN rows : rows'[i] = rows[i]
        BY SMTT(60), <2>1, Appended
    <2> QED
        BY <2>2 DEF Has
<1> QED
    BY <1>1, <1>2, RowsStep

\* A step outside the transactions leaves them alone.
LEMMA Quiet ==
    ASSUME TypeOK, Transaction, NEW s \in Scanner, NEW from, NEW to,
           At(s, from, to), from \notin {"events", "commit"}, to \notin {"events", "commit"},
           rows' = rows, lock' = lock, pending' = pending
    PROVE  Transaction'
<1> USE PackageAssumption
<1>t. /\ pc \in [Scanner -> Storing \cup {"inspect", "returned", "killed"}]
      /\ lock \in Scanner \cup {Free}
    BY DEF TypeOK
<1>1. /\ \A t \in Scanner : pc'[t] = IF t = s THEN to ELSE pc[t]
      /\ pc[s] = from /\ package' = package
    BY <1>t DEF At
<1>2. lock # s
    BY <1>1 DEF Transaction
<1>3. \A t \in Scanner : pc'[t] \in {"events", "commit"} <=> lock = t
    BY <1>1, <1>2 DEF Transaction
<1>4. lock # Free => pc'[lock] = pc[lock]
    BY <1>t, <1>1, <1>2
<1>5. lock # Free =>
        /\ pending.name = package'[lock].name
        /\ pending.version = package'[lock].version
        /\ pending.baseline <=> \A i \in DOMAIN rows : rows[i].name # pending.name
        /\ pending.events <=> pc'[lock] = "commit"
    BY <1>1, <1>4 DEF Transaction
<1> QED
    BY <1>3, <1>5 DEF Transaction

\* Every step keeps the transaction with its scanner.
LEMMA TransactionStep ==
    ASSUME TypeOK, Transaction, NEW s \in Scanner, Scanning(s) \/ Killed(s)
    PROVE  Transaction'
<1> USE PackageAssumption
<1>t. /\ pc \in [Scanner -> Storing \cup {"inspect", "returned", "killed"}]
      /\ lock \in Scanner \cup {Free}
      /\ pending \in Row
    BY DEF TypeOK
<1>p. ASSUME NEW from, NEW to, At(s, from, to)
      PROVE  /\ \A t \in Scanner : pc'[t] = IF t = s THEN to ELSE pc[t]
             /\ pc[s] = from /\ package' = package
    BY <1>t, <1>p DEF At
<1>1. CASE Refuse(s) \/ PrepareFails(s) \/ NotIsolated(s)
    BY <1>1, Quiet DEF Refuse, PrepareFails, NotIsolated, storage
<1>2. CASE \E sum \in Scores : Assess(s, sum)
    BY <1>2, Quiet DEF Assess, storage
<1>3. CASE OpenDatabase(s)
    BY <1>3, Quiet DEF OpenDatabase, open
<1>4. CASE PreviousVersion(s) \/ WriteArtifacts(s)
    BY <1>4, Quiet DEF PreviousVersion, WriteArtifacts, storage
<1>5. CASE StoreRow(s)
    <2>1. At(s, "insert", "events") /\ insert(s, package[s].name, package[s].version, previous[s])
        BY <1>5 DEF StoreRow
    <2>2. /\ \A t \in Scanner : pc'[t] = IF t = s THEN "events" ELSE pc[t]
          /\ package' = package
        BY <2>1, <1>p
    <2>3. /\ lock = Free /\ lock' = s /\ rows' = rows
          /\ pending'.name = package[s].name
          /\ pending'.version = package[s].version
          /\ pending'.baseline <=> Named(package[s].name) = {}
          /\ ~pending'.events
        BY <2>1 DEF insert
    <2>4. \A t \in Scanner : pc'[t] \in {"events", "commit"} <=> t = s
        BY <2>2, <2>3 DEF Transaction
    <2>5. pc'[s] # "commit"
        BY <2>2
    <2>6. pending'.baseline <=> \A i \in DOMAIN rows : rows[i].name # pending'.name
        BY <2>3 DEF Named
    <2> QED
        BY <2>2, <2>3, <2>4, <2>5, <2>6 DEF Transaction
<1>6. CASE StoreEvents(s)
    <2>1. /\ \A t \in Scanner : pc'[t] = IF t = s THEN "commit" ELSE pc[t]
          /\ package' = package
        BY <1>6, <1>p DEF StoreEvents
    <2>2. lock = s /\ lock' = s /\ rows' = rows /\ pending' = [pending EXCEPT !.events = TRUE]
        BY <1>6 DEF StoreEvents, insert_events
    <2>3. /\ pending'.name = pending.name /\ pending'.version = pending.version
          /\ pending'.baseline = pending.baseline /\ pending'.events
        BY <2>2, <1>t DEF Row
    <2>4. \A t \in Scanner : pc'[t] \in {"events", "commit"} <=> t = s
        BY <2>1, <2>2 DEF Transaction
    <2>5. pc'[s] = "commit"
        BY <2>1
    <2>6. /\ pending.name = package[s].name /\ pending.version = package[s].version
          /\ pending.baseline <=> \A i \in DOMAIN rows : rows[i].name # pending.name
        BY <2>2 DEF Transaction
    <2> QED
        BY SMTT(60), <2>1, <2>2, <2>3, <2>4, <2>5, <2>6 DEF Transaction
<1>7. ASSUME NEW to \in {"artifacts", "compare", "killed"}, NEW from, At(s, from, to),
             lock = s, lock' = Free
      PROVE  Transaction'
    <2>1. \A t \in Scanner : pc'[t] = IF t = s THEN to ELSE pc[t]
        BY <1>7, <1>p
    <2>2. \A t \in Scanner : pc'[t] \notin {"events", "commit"}
        BY <1>7, <2>1 DEF Transaction
    <2> QED
        BY <1>7, <2>2 DEF Transaction
<1>8. CASE Commit(s) \/ CommitUnread(s)
    BY <1>7, <1>8 DEF Commit, CommitUnread, commit
<1>9. CASE \E changed \in BOOLEAN : Compare(s, changed)
    BY <1>9, Quiet DEF Compare, storage
<1>10. ASSUME NEW to \in {"artifacts", "killed"}, NEW from, At(s, from, to), rollback(s)
       PROVE  Transaction'
    <2>1. CASE lock = s
        BY <2>1, <1>7, <1>10 DEF rollback
    <2>2. CASE lock # s
        <3>1. pc[s] = from /\ from \notin {"events", "commit"}
            BY <2>2, <1>10 DEF Transaction, At
        <3>2. rows' = rows /\ lock' = lock /\ pending' = pending
            BY <2>2, <1>10 DEF rollback
        <3> QED
            BY <3>1, <3>2, <1>10, Quiet
    <2> QED
        BY <2>1, <2>2
<1>11. CASE StorageFails(s)
    BY <1>10, <1>11 DEF StorageFails
<1>12. CASE Killed(s)
    BY <1>10, <1>12 DEF Killed
<1> QED
    BY <1>1, <1>2, <1>3, <1>4, <1>5, <1>6, <1>8, <1>9, <1>11, <1>12 DEF Scanning

\* Every step keeps what the scanners have found in the database.
LEMMA FoundStep ==
    ASSUME TypeOK, Transaction, Found, NEW s \in Scanner, Scanning(s) \/ Killed(s)
    PROVE  Found'
<1> USE PackageAssumption
<1> DEFINE Now(name, version) ==
               \E i \in DOMAIN rows' : rows'[i].name = name /\ rows'[i].version = version
           Kept(t) ==
               /\ pc'[t] \in {"insert", "events", "commit", "compare"} /\ previous'[t] # "" =>
                     Now(package[t].name, previous'[t])
               /\ pc'[t] = "compare" => previous'[t] # "" /\ Now(package[t].name, package[t].version)
<1>t. /\ pc \in [Scanner -> Storing \cup {"inspect", "returned", "killed"}]
      /\ previous \in [Scanner -> Versions \cup {""}]
      /\ rows \in Seq(Row) /\ pending \in Row
    BY DEF TypeOK
<1>g. \A name, version : Has(name, version) => Now(name, version)
    BY HasGrows DEF Has
<1>f. /\ pc[s] \in {"insert", "events", "commit", "compare"} /\ previous[s] # "" =>
            Has(package[s].name, previous[s])
      /\ pc[s] = "compare" => previous[s] # "" /\ Has(package[s].name, package[s].version)
    BY DEF Found
<1>p. /\ \A t \in Scanner \ {s} : pc'[t] = pc[t] /\ previous'[t] = previous[t]
      /\ package' = package
    <2>1. ASSUME NEW from, NEW to, At(s, from, to)
          PROVE  (\A t \in Scanner \ {s} : pc'[t] = pc[t]) /\ package' = package
        BY <1>t, <2>1 DEF At
    <2>2. \E from, to : At(s, from, to)
        BY DEF Scanning, Refuse, PrepareFails, NotIsolated, Assess, OpenDatabase, PreviousVersion,
                     StoreRow, StoreEvents, Commit, CommitUnread, Compare, StorageFails, WriteArtifacts, Killed
    <2>3. previous' = previous \/ \E v : previous' = [previous EXCEPT ![s] = v]
        BY DEF Scanning, Refuse, PrepareFails, NotIsolated, Assess, OpenDatabase, PreviousVersion,
                     StoreRow, StoreEvents, Commit, CommitUnread, Compare, StorageFails, WriteArtifacts, Killed,
                     SameResult
    <2>4. \A t \in Scanner \ {s} : previous'[t] = previous[t]
        BY <2>3, <1>t
    <2> QED
        BY <2>1, <2>2, <2>4
<1>a. ASSUME NEW from, NEW to, At(s, from, to)
      PROVE  pc[s] = from /\ pc'[s] = to
    BY <1>t, <1>a DEF At
<1>c. ASSUME Commit(s), previous[s] # ""
      PROVE  Now(package[s].name, package[s].version)
    <2>2. lock = s /\ rows' = Append(rows, pending)
        BY <1>c DEF Commit, commit
    <2>3. pending.name = package[s].name /\ pending.version = package[s].version
        BY <2>2 DEF Transaction
    <2>4. Len(rows) + 1 \in DOMAIN rows' /\ rows'[Len(rows) + 1] = pending
        <3>1. /\ Len(rows) \in Nat
              /\ DOMAIN rows' = 1 .. Len(rows) + 1
              /\ rows'[Len(rows) + 1] = pending
            BY <2>2, <1>t, Appended
        <3> QED
            BY SMTT(60), <3>1
    <2> QED
        BY <2>3, <2>4
<1> HIDE DEF Now
<1>o. ASSUME NEW t \in Scanner \ {s}
      PROVE  Kept(t)
    <2>1. pc'[t] = pc[t] /\ previous'[t] = previous[t]
        BY <1>p
    <2>2. /\ pc[t] \in {"insert", "events", "commit", "compare"} /\ previous[t] # "" =>
                Has(package[t].name, previous[t])
          /\ pc[t] = "compare" => previous[t] # "" /\ Has(package[t].name, package[t].version)
        BY DEF Found
    <2>3. /\ Has(package[t].name, previous[t]) => Now(package[t].name, previous[t])
          /\ Has(package[t].name, package[t].version) => Now(package[t].name, package[t].version)
        BY <1>g
    <2> QED
        BY <2>1, <2>2, <2>3
<1>1. ASSUME pc'[s] \notin {"insert", "events", "commit", "compare"}
      PROVE  Kept(s)
    BY <1>1
<1>2. ASSUME PreviousVersion(s)
      PROVE  Kept(s)
    <2>1. pc'[s] = "insert"
        BY <1>2, <1>a DEF PreviousVersion
    <2>2. previous'[s] = previous_version(package[s].name, package[s].version)
        BY <1>2, <1>t DEF PreviousVersion
    <2>3. previous'[s] # "" => Has(package[s].name, previous'[s])
        BY <2>2, <1>t, PreviousFound
    <2>4. previous'[s] # "" => Now(package[s].name, previous'[s])
        BY <2>3, <1>g
    <2>5. pc'[s] # "compare"
        BY <2>1
    <2> QED
        BY <2>4, <2>5
<1>3. ASSUME StoreRow(s) \/ StoreEvents(s)
      PROVE  Kept(s)
    <2>1. /\ pc[s] \in {"insert", "events"} /\ pc'[s] # "compare"
          /\ previous' = previous
        BY SMTT(60), <1>3, <1>a DEF StoreRow, StoreEvents, SameResult
    <2>2. previous'[s] # "" => Now(package[s].name, previous'[s])
        BY <2>1, <1>f, <1>g
    <2> QED
        BY <2>1, <2>2
<1>4. ASSUME Commit(s)
      PROVE  Kept(s)
    <2>1. pc[s] = "commit" /\ previous' = previous
        BY <1>4, <1>a DEF Commit
    <2>2. pc'[s] = "compare" => previous[s] # ""
        <3>1. pc'[s] = IF previous[s] = "" THEN "artifacts" ELSE "compare"
            BY <1>4, <1>a DEF Commit
        <3> QED
            BY <3>1
    <2>3. previous'[s] # "" => Now(package[s].name, previous'[s])
        BY <2>1, <1>f, <1>g
    <2> QED
        BY <1>4, <1>c, <2>1, <2>2, <2>3
<1>5. PreviousVersion(s) \/ StoreRow(s) \/ StoreEvents(s) \/ Commit(s)
         \/ pc'[s] \notin {"insert", "events", "commit", "compare"}
    <2>1. ASSUME NEW from, NEW to \in {"open", "previous", "artifacts", "returned", "killed"}, At(s, from, to)
          PROVE  pc'[s] \notin {"insert", "events", "commit", "compare"}
        BY <2>1, <1>a
    <2>2. ASSUME \/ Refuse(s) \/ PrepareFails(s) \/ NotIsolated(s) \/ OpenDatabase(s)
                 \/ \E sum \in Scores : Assess(s, sum)
                 \/ \E changed \in BOOLEAN : Compare(s, changed)
                 \/ CommitUnread(s) \/ WriteArtifacts(s) \/ StorageFails(s) \/ Killed(s)
          PROVE  pc'[s] \notin {"insert", "events", "commit", "compare"}
        <3>1. \E from : \E to \in {"open", "previous", "artifacts", "returned", "killed"} : At(s, from, to)
            BY <2>2 DEF Refuse, PrepareFails, NotIsolated, OpenDatabase, Assess, Compare,
                               CommitUnread, WriteArtifacts, StorageFails, Killed
        <3> QED
            BY <2>1, <3>1
    <2> QED
        BY <2>2 DEF Scanning
<1>6. Kept(s)
    BY <1>1, <1>2, <1>3, <1>4, <1>5
<1>7. \A t \in Scanner : Kept(t)
    <2> HIDE DEF Kept
    <2> QED
        BY <1>6, <1>o
<1> QED
    BY <1>7, <1>p DEF Found, Has, Now

-----------------------------------------------------------------------------
(***************************************************************************)
(* The invariant.                                                          *)
(***************************************************************************)
\* A new database, or one with an observation of one package, is as required.
LEMMA InitIInv == Init => IInv
<1> USE PackageAssumption
<1> SUFFICES ASSUME Init
             PROVE  IInv
    OBVIOUS
<1>1. \/ rows = <<>> /\ schema \in {0, 2}
      \/ \E n \in Names, v \in Versions :
            rows = <<[name |-> n, version |-> v, baseline |-> TRUE, events |-> TRUE]>> /\ schema = 1
    BY DEF Init
<1>2. rows = <<>> \/ \E n \in Names, v \in Versions :
          rows = <<[name |-> n, version |-> v, baseline |-> TRUE, events |-> TRUE]>>
    BY <1>1
<1>3. schema \in 0 .. 2
    <2>1. schema \in {0, 1, 2}
        BY <1>1
    <2> QED
        BY SMTT(60), <2>1
<1>4. rows \in Seq(Row) /\ OneBaseline /\ StoredWhole
    <2>1. CASE rows = <<>>
        BY SMTT(60), <2>1 DEF OneBaseline, StoredWhole
    <2>2. ASSUME NEW n \in Names, NEW v \in Versions,
                 rows = <<[name |-> n, version |-> v, baseline |-> TRUE, events |-> TRUE]>>
          PROVE  rows \in Seq(Row) /\ OneBaseline /\ StoredWhole
        <3> DEFINE r == [name |-> n, version |-> v, baseline |-> TRUE, events |-> TRUE]
        <3>a. r.baseline /\ r.events
            OBVIOUS
        <3>b. r \in Row
            BY DEF Row
        <3>1. r \in Row /\ r.baseline /\ r.events
            BY <3>a, <3>b
        <3>2. rows = <<r>>
            BY <2>2
        <3> HIDE DEF r
        <3>3. rows \in Seq(Row) /\ DOMAIN rows = {1} /\ rows[1] = r
            BY SMTT(60), <3>1, <3>2
        <3> QED
            BY SMTT(60), <3>1, <3>3 DEF OneBaseline, StoredWhole, Named
    <2> QED
        BY <1>2, <2>1, <2>2
<1>5. NoRow \in Row
    BY DEF NoRow, Row
<1>6. TypeOK
    <2>1. lock \in Scanner \cup {Free} /\ pending \in Row
        BY <1>5 DEF Init
    <2>2. /\ pc \in [Scanner -> Storing \cup {"inspect", "returned", "killed"}]
          /\ package \in [Scanner -> [name : Names, version : Versions]]
          /\ previous \in [Scanner -> Versions \cup {""}]
        BY DEF Init
    <2>3. result \in [Scanner -> Result]
        BY NoResultType DEF Init
    <2> QED
        BY <1>3, <1>4, <2>1, <2>2, <2>3, TypeUnfolded
<1>7. Transaction /\ Found
    <2>1. lock = Free /\ \A s \in Scanner : pc[s] = "inspect" /\ s # Free
        BY DEF Init
    <2> QED
        BY <2>1 DEF Transaction, Found
<1> QED
    BY <1>4, <1>6, <1>7 DEF IInv

\* Every step keeps the invariant.
LEMMA StepIInv == IInv /\ [Next]_vars => IInv'
<1>1. ASSUME IInv, Next
      PROVE  IInv'
    <2>1. PICK s \in Scanner : Scanning(s) \/ Killed(s)
        BY <1>1 DEF Next
    <2>2. TypeOK /\ OneBaseline /\ StoredWhole /\ Transaction /\ Found
        BY <1>1 DEF IInv
    <2>3. TypeOK'
        BY <1>1, <2>2, TypeStep
    <2>4. Transaction' /\ Found'
        BY <2>1, <2>2, TransactionStep, FoundStep
    <2>5. OneBaseline' /\ StoredWhole'
        <3>1. CASE rows' = rows
            BY <2>2, <3>1 DEF OneBaseline, StoredWhole, Named
        <3>2. CASE pc[s] = "commit" /\ commit(s)
            BY <2>2, <3>2, CommitKeepsRows
        <3> QED
            BY <2>1, <3>1, <3>2, RowsStep
    <2> QED
        BY <2>3, <2>4, <2>5 DEF IInv
<1>2. ASSUME IInv, UNCHANGED vars
      PROVE  IInv'
    <2>1. /\ schema' = schema /\ rows' = rows /\ lock' = lock /\ pending' = pending
          /\ pc' = pc /\ package' = package /\ previous' = previous /\ result' = result
        BY <1>2 DEF vars, storage
    <2>2. TypeOK /\ OneBaseline /\ StoredWhole /\ Transaction /\ Found
        BY <1>2 DEF IInv
    <2>3. TypeOK'
        BY <2>1, <2>2 DEF TypeOK
    <2>4. OneBaseline' /\ StoredWhole'
        BY <2>1, <2>2 DEF OneBaseline, StoredWhole, Named
    <2>5. Transaction'
        BY <2>1, <2>2 DEF Transaction
    <2>6. Found'
        BY <2>1, <2>2 DEF Found, Has
    <2> QED
        BY <2>3, <2>4, <2>5, <2>6 DEF IInv
<1> QED
    BY <1>1, <1>2

\* The types of Scan hold in every state, whatever the interleaving.
THEOREM TypesHold == Spec => []TypeOK
<1>1. IInv => TypeOK
    BY DEF IInv
<1> QED
    BY <1>1, InitIInv, StepIInv, PTL DEF Spec

\* Each package has exactly one baseline row, its first, however many scanners
\* store observations of it at once (the INSERT of Database::store decides
\* inside its transaction).
THEOREM BaselineHolds == Spec => []OneBaseline
<1>1. IInv => OneBaseline
    BY DEF IInv
<1> QED
    BY <1>1, InitIInv, StepIInv, PTL DEF Spec

\* No crash leaves an observation without its events (Database::store commits
\* both together).
THEOREM WholeHolds == Spec => []StoredWhole
<1>1. IInv => StoredWhole
    BY DEF IInv
<1> QED
    BY <1>1, InitIInv, StepIInv, PTL DEF Spec

\* The comparison of scan() finds both versions, although the previous one was
\* looked up before the transaction.
THEOREM ComparisonHolds == Spec => []ComparisonFindsBoth
<1>1. IInv => ComparisonFindsBoth
    BY DEF IInv, Found, Has, ComparisonFindsBoth, compared, Named
<1> QED
    BY <1>1, InitIInv, StepIInv, PTL DEF Spec

-----------------------------------------------------------------------------
(***************************************************************************)
(* The verdict.                                                            *)
(***************************************************************************)
\* In each step the scanner's result is assessed anew, raised by the delta,
\* forgotten by the crash, or keeps its score, its action and its ok.
LEMMA ResultStep ==
    ASSUME TypeOK, NEW s \in Scanner, Scanning(s) \/ Killed(s)
    PROVE  /\ \A t \in Scanner \ {s} : pc'[t] = pc[t] /\ result'[t] = result[t]
           /\ \/ pc[s] = "inspect" /\ pc'[s] = "returned"
              \/ /\ pc[s] = "inspect"
                 /\ \E sum \in Scores :
                       /\ result'[s].score = Capped(sum)
                       /\ result'[s].action = assess(sum, FALSE).action
              \/ pc'[s] = "killed"
              \/ /\ pc[s] = "compare" /\ pc'[s] = "artifacts"
                 /\ result'[s].action = delta(result[s].score).action
                 /\ result'[s].ok = result[s].ok
              \/ /\ pc[s] # "inspect"
                 /\ pc[s] = "artifacts" => pc'[s] = "returned"
                 /\ result'[s].score = result[s].score
                 /\ result'[s].action = result[s].action
                 /\ result'[s].ok = result[s].ok
<1> USE PackageAssumption
<1>t. /\ pc \in [Scanner -> Storing \cup {"inspect", "returned", "killed"}]
      /\ result \in [Scanner -> Result]
    BY TypeUnfolded
<1>p. ASSUME NEW from, NEW to, At(s, from, to)
      PROVE  /\ \A t \in Scanner \ {s} : pc'[t] = pc[t]
             /\ pc[s] = from /\ pc'[s] = to
    BY <1>t, <1>p DEF At
<1>b. ASSUME NEW r, Becomes(s, r)
      PROVE  /\ \A t \in Scanner \ {s} : result'[t] = result[t]
             /\ result'[s] = r
    BY <1>t, <1>b DEF Becomes
<1>r. result[s] \in Result
    BY <1>t
<1>q. result' = result => \A t \in Scanner : result'[t] = result[t]
    OBVIOUS
<1>1. CASE Refuse(s) \/ NotIsolated(s)
    BY <1>1, <1>p, <1>b DEF Refuse, NotIsolated
<1>2. CASE PrepareFails(s)
    BY <1>2, <1>p, <1>q DEF PrepareFails, SameResult
<1>3. ASSUME NEW sum \in Scores, Assess(s, sum)
      PROVE  /\ \A t \in Scanner \ {s} : pc'[t] = pc[t] /\ result'[t] = result[t]
             /\ pc[s] = "inspect"
             /\ result'[s].score = Capped(sum)
             /\ result'[s].action = assess(sum, FALSE).action
    <2> DEFINE a == assess(sum, FALSE)
               r == [Assessed(result[s], a) EXCEPT !.ok = a.action # "reject"]
    <2>1. At(s, "inspect", "open") /\ Becomes(s, r)
        BY <1>3 DEF Assess
    <2>2. r.score = a.score /\ r.action = a.action
        <3> HIDE DEF a
        <3> QED
            BY <1>r DEF Assessed, Result
    <2>3. a.score = Capped(sum)
        BY DEF assess
    <2> HIDE DEF r, a
    <2>4. /\ \A t \in Scanner \ {s} : pc'[t] = pc[t] /\ result'[t] = result[t]
          /\ pc[s] = "inspect" /\ result'[s] = r
        BY <2>1, <1>p, <1>b
    <2> QED
        BY <2>2, <2>3, <2>4 DEF a
<1>4. CASE \/ OpenDatabase(s) \/ StoreRow(s) \/ StoreEvents(s) \/ CommitUnread(s)
           \/ StorageFails(s) \/ WriteArtifacts(s) \/ PreviousVersion(s)
    <2>1. result' = result
        BY <1>4 DEF OpenDatabase, StoreRow, StoreEvents, CommitUnread, StorageFails,
                           WriteArtifacts, PreviousVersion, SameResult
    <2>2. \/ At(s, "artifacts", "returned")
          \/ \E from \in {"open", "previous", "insert", "events", "commit", "compare"} : \E to : At(s, from, to)
        BY <1>4 DEF OpenDatabase, StoreRow, StoreEvents, CommitUnread, StorageFails,
                           WriteArtifacts, PreviousVersion
    <2>3. /\ \A t \in Scanner \ {s} : pc'[t] = pc[t]
          /\ \/ pc[s] = "artifacts" /\ pc'[s] = "returned"
             \/ pc[s] \in {"open", "previous", "insert", "events", "commit", "compare"}
        BY <2>2, <1>p
    <2>4. pc[s] # "inspect" /\ (pc[s] = "artifacts" => pc'[s] = "returned")
        BY <2>3
    <2> QED
        BY <2>1, <2>3, <2>4, <1>q
<1>5. CASE Commit(s)
    <2> DEFINE r == [result[s] EXCEPT !.baseline = pending.baseline]
    <2>1. Becomes(s, r) /\ \E to : At(s, "commit", to)
        BY <1>5 DEF Commit
    <2>2. r.score = result[s].score /\ r.action = result[s].action /\ r.ok = result[s].ok
        BY <1>r DEF Result
    <2> HIDE DEF r
    <2>3. pc[s] = "commit" /\ result'[s] = r
          /\ \A t \in Scanner \ {s} : pc'[t] = pc[t] /\ result'[t] = result[t]
        BY <2>1, <1>p, <1>b
    <2>4. pc[s] # "inspect" /\ pc[s] # "artifacts"
        BY <2>3
    <2> QED
        BY <2>2, <2>3, <2>4
<1>6. ASSUME NEW changed \in BOOLEAN, Compare(s, changed)
      PROVE  /\ \A t \in Scanner \ {s} : pc'[t] = pc[t] /\ result'[t] = result[t]
             /\ pc[s] = "compare" /\ pc'[s] = "artifacts"
             /\ result'[s].ok = result[s].ok
             /\ \/ result'[s].action = delta(result[s].score).action
                \/ result'[s] = result[s]
    <2> DEFINE d == delta(result[s].score)
               r == [Assessed(result[s], d) EXCEPT !.delta = TRUE]
    <2>1. At(s, "compare", "artifacts") /\ (Becomes(s, r) \/ Becomes(s, result[s]))
        BY <1>6 DEF Compare
    <2>2. r.action = d.action /\ r.ok = result[s].ok
        <3> HIDE DEF d
        <3> QED
            BY <1>r DEF Assessed, Result
    <2> HIDE DEF r, d
    <2>3. /\ \A t \in Scanner \ {s} : pc'[t] = pc[t] /\ result'[t] = result[t]
          /\ pc[s] = "compare" /\ pc'[s] = "artifacts"
          /\ result'[s] = r \/ result'[s] = result[s]
        BY <2>1, <1>p, <1>b
    <2> QED
        BY <2>2, <2>3 DEF d
<1>7. CASE Killed(s)
    BY <1>7, <1>p, <1>b DEF Killed
<1>8. "compare" # "inspect" /\ "compare" # "artifacts"
    OBVIOUS
<1>9. CASE \E sum \in Scores : Assess(s, sum)
    BY <1>3, <1>9
<1>10. CASE \E changed \in BOOLEAN : Compare(s, changed)
    BY <1>6, <1>8, <1>10
<1> QED
    BY <1>1, <1>2, <1>4, <1>5, <1>7, <1>9, <1>10 DEF Scanning

\* The action of Engine::assess without a direct rejection is by the capped score.
LEMMA AssessAction ==
    ASSUME NEW sum \in Nat
    PROVE  assess(sum, FALSE).action = (IF Capped(sum) >= 50 THEN "reject"
                                        ELSE IF Capped(sum) >= 25 THEN "audit" ELSE "allow")
BY DEF assess

\* The delta of scan() never makes the action of a score milder.
LEMMA DeltaSeverity ==
    ASSUME NEW score \in 0 .. 100, NEW action,
           action = (IF score >= 50 THEN "reject" ELSE IF score >= 25 THEN "audit" ELSE "allow")
    PROVE  Severity(delta(score).action) >= Severity(action)
<1>1. delta(score).action = IF score >= 35 THEN "reject" ELSE "audit"
    BY SMTT(60) DEF delta, Capped
<1>2. Severity("allow") = 0 /\ Severity("audit") = 1 /\ Severity("reject") = 2
    BY DEF Severity
<1>3. CASE score >= 50
    <2>1. action = "reject" /\ delta(score).action = "reject"
        BY SMTT(60), <1>1, <1>3
    <2> QED
        BY SMTT(60), <2>1, <1>2
<1>4. CASE ~(score >= 50)
    <2>1. action \in {"audit", "allow"} /\ delta(score).action \in {"reject", "audit"}
        BY <1>1, <1>4
    <2>2. Severity(action) \in {0, 1} /\ Severity(delta(score).action) \in {1, 2}
        BY <2>1, <1>2
    <2> QED
        BY SMTT(60), <2>2
<1> QED
    BY <1>3, <1>4

\* An action is as severe as itself: Severity is defined for it.
LEMMA SeverityOrder ==
    ASSUME NEW action \in Action
    PROVE  Severity(action) >= Severity(action)
<1>1. Severity("allow") = 0 /\ Severity("audit") = 1 /\ Severity("reject") = 2
    BY DEF Severity
<1>2. Severity(action) \in {0, 1, 2}
    BY <1>1 DEF Action
<1> QED
    BY SMTT(60), <1>2

\* Every step keeps ByScore.
LEMMA StepByScore == TypeOK /\ ByScore /\ [Next]_vars => ByScore'
<1> USE PackageAssumption
<1> DEFINE Called(score) == IF score >= 50 THEN "reject" ELSE IF score >= 25 THEN "audit" ELSE "allow"
           Before == Storing \ {"artifacts"}
<1>1. ASSUME TypeOK, ByScore, Next
      PROVE  ByScore'
    <2>1. PICK s \in Scanner : Scanning(s) \/ Killed(s)
        BY <1>1 DEF Next
    <2>2. \A t \in Scanner : pc[t] \in Before => result[t].action = Called(result[t].score)
        BY <1>1 DEF ByScore
    <2>3. "returned" \notin Before /\ "killed" \notin Before /\ "artifacts" \notin Before
        BY DEF Storing
    <2>4. ASSUME NEW sum \in Scores
          PROVE  assess(sum, FALSE).action = Called(Capped(sum))
        <3>1. sum \in Nat
            OBVIOUS
        <3> QED
            BY <3>1, AssessAction
    <2>5. pc[s] # "inspect" /\ pc[s] \notin Before => pc[s] \in {"artifacts", "returned", "killed"}
        BY <1>1 DEF TypeOK, Storing
    <2>r. pc[s] \notin {"returned", "killed"}
        BY <2>1 DEF Scanning, Refuse, PrepareFails, NotIsolated, Assess, OpenDatabase, PreviousVersion,
                    StoreRow, StoreEvents, Commit, CommitUnread, Compare, StorageFails, WriteArtifacts, Killed, At
    <2> HIDE DEF Called, Before
    <2>6. pc'[s] \in Before => result'[s].action = Called(result'[s].score)
        <3>1. \/ pc'[s] \in {"returned", "killed", "artifacts"}
              \/ \E sum \in Scores : /\ result'[s].score = Capped(sum)
                                     /\ result'[s].action = assess(sum, FALSE).action
              \/ /\ pc[s] # "inspect" /\ (pc[s] = "artifacts" => pc'[s] = "returned")
                 /\ result'[s].score = result[s].score
                 /\ result'[s].action = result[s].action
            BY <1>1, <2>1, ResultStep
        <3>2. CASE pc'[s] \in {"returned", "killed", "artifacts"}
            BY <2>3, <3>2
        <3>3. CASE \E sum \in Scores : /\ result'[s].score = Capped(sum)
                                       /\ result'[s].action = assess(sum, FALSE).action
            BY <2>4, <3>3
        <3>4. CASE /\ pc[s] # "inspect" /\ (pc[s] = "artifacts" => pc'[s] = "returned")
                   /\ result'[s].score = result[s].score
                   /\ result'[s].action = result[s].action
            BY <2>2, <2>3, <2>5, <2>r, <3>4
        <3> QED
            BY <3>1, <3>2, <3>3, <3>4
    <2>7. \A t \in Scanner \ {s} : pc'[t] = pc[t] /\ result'[t] = result[t]
        BY <1>1, <2>1, ResultStep
    <2>8. \A t \in Scanner : pc'[t] \in Before => result'[t].action = Called(result'[t].score)
        BY <2>2, <2>6, <2>7
    <2> QED
        BY <2>8 DEF ByScore, Called, Before
<1>2. ASSUME ByScore, UNCHANGED vars
      PROVE  ByScore'
    <2>1. pc' = pc /\ result' = result
        BY <1>2 DEF vars
    <2> QED
        BY <1>2, <2>1 DEF ByScore
<1> QED
    BY <1>1, <1>2

\* No step after the assessment makes the action milder or turns ok on.
LEMMA StepNotSofter ==
    ASSUME TypeOK, ByScore, Next
    PROVE  \A s \in Scanner : pc[s] \in Storing /\ pc'[s] # "killed" =>
               /\ Severity(result'[s].action) >= Severity(result[s].action)
               /\ result'[s].ok => result[s].ok
<1>1. PICK s \in Scanner : Scanning(s) \/ Killed(s)
    BY DEF Next
<1>2. ASSUME NEW t \in Scanner
      PROVE  Severity(result[t].action) >= Severity(result[t].action)
    <2>1. result[t] \in Result
        BY TypeUnfolded
    <2>2. result[t].action \in Action
        BY <2>1 DEF Result
    <2> QED
        BY <2>2, SeverityOrder
<1>3. \A t \in Scanner \ {s} : result'[t] = result[t]
    BY <1>1, ResultStep
<1>4. ASSUME pc[s] = "compare", result'[s].action = delta(result[s].score).action
      PROVE  Severity(result'[s].action) >= Severity(result[s].action)
    <2>1. result[s] \in Result
        BY TypeUnfolded
    <2>2. result[s].score \in 0 .. 100
        BY <2>1 DEF Result
    <2>3. "compare" \in Storing \ {"artifacts"}
        BY DEF Storing
    <2>4. result[s].action = (IF result[s].score >= 50 THEN "reject"
                              ELSE IF result[s].score >= 25 THEN "audit" ELSE "allow")
        BY <1>4, <2>3 DEF ByScore
    <2>5. Severity(delta(result[s].score).action) >= Severity(result[s].action)
        BY <2>2, <2>4, DeltaSeverity
    <2> QED
        BY <1>4, <2>5
<1>5. "inspect" \notin Storing
    BY DEF Storing
<1>6. pc[s] \in Storing /\ pc'[s] # "killed" =>
          /\ Severity(result'[s].action) >= Severity(result[s].action)
          /\ result'[s].ok = result[s].ok
    <2>1. \/ pc[s] = "inspect"
          \/ pc'[s] = "killed"
          \/ /\ pc[s] = "compare"
             /\ result'[s].action = delta(result[s].score).action
             /\ result'[s].ok = result[s].ok
          \/ /\ result'[s].action = result[s].action
             /\ result'[s].ok = result[s].ok
        BY <1>1, ResultStep
    <2> QED
        BY <2>1, <1>2, <1>4, <1>5
<1> QED
    BY <1>2, <1>3, <1>6

\* Nothing that scan() does after the assessment (store, delta, an error of the
\* database) makes the action milder or turns ok on.
THEOREM VerdictHolds == Spec => NeverSoftened
<1>1. Init => ByScore
    <2>1. Init => \A s \in Scanner : pc[s] = "inspect"
        BY DEF Init
    <2>2. "inspect" \notin Storing
        BY DEF Storing
    <2> QED
        BY <2>1, <2>2 DEF ByScore
<1>2. IInv => TypeOK
    BY SMTT(60) DEF IInv
<1>3. TypeOK /\ ByScore /\ [Next]_vars =>
        [\A s \in Scanner : pc[s] \in Storing /\ pc'[s] # "killed" =>
            /\ Severity(result'[s].action) >= Severity(result[s].action)
            /\ result'[s].ok => result[s].ok]_vars
    BY StepNotSofter
<1> QED
    BY <1>1, <1>2, <1>3, InitIInv, StepIInv, StepByScore, PTL DEF Spec, NeverSoftened
=============================================================================
