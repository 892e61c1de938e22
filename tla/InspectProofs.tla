---------------------------- MODULE InspectProofs ----------------------------
(***************************************************************************)
(* Properties of Inspect for every archive and every limit.                *)
(***************************************************************************)
EXTENDS Inspect, FiniteSetTheorems, TLAPS

\* Zenon proves the leaves that do not name SMT.
USE ZenonT(60)

EntryOf == {entry_of(raw) : raw \in Raw}

Types ==
    /\ archive \in Seq(Raw)
    /\ position \in 0 .. Len(archive)
    /\ left \in Nat /\ unpacked \in Nat /\ consumed \in Nat
    /\ listing \in Seq(EntryOf)
    /\ DOMAIN metadata = {"info", "scripts", "hooks"}

\* read has found the first entry of the wanted name, a regular one within the
\* bound, with the bytes its header declares.
FirstWanted(info) ==
    /\ info \in 1 .. Len(archive)
    /\ entry_of(archive[info]).path = Wanted
    /\ entry_of(archive[info]).kind = "regular"
    /\ archive[info].bytes >= entry_of(archive[info]).size
    /\ \A i \in 1 .. Len(archive) : i < info => entry_of(archive[i]).path # Wanted

Accepted == pc = "returned" /\ error = ""

\* Where the two passes are, and what list has put together.
Passes ==
    /\ pc \in {"read", "discard"} => \A i \in 1 .. position : entry_of(archive[i]).path # Wanted
    /\ pc \in {"parse", "identity", "list", "skip", "verify"} \/ Accepted => FirstWanted(metadata.info)
    /\ pc \in {"identity", "list", "skip", "verify"} \/ Accepted => entry_of(archive[metadata.info]).size > 0
    /\ pc \in {"start", "read", "discard", "parse", "identity"} => Len(listing) = 0
    /\ pc \in {"list", "skip"} => Len(listing) = position
    /\ pc = "verify" \/ Accepted => Len(listing) = Len(archive)
    /\ \A i \in 1 .. Len(listing) : i <= Len(archive) /\ listing[i] = entry_of(archive[i])

\* What list has counted covers what it has read.
Effort ==
    /\ pc \in {"list", "skip"} => consumed <= unpacked /\ unpacked <= MaxUnpacked
    /\ error = "limit" => pc = "returned" /\ consumed <= MaxUnpacked + Buffer

Complete == pc = "verify" \/ Accepted

\* The running count of the bytes in the first n entries, up to `top`.
Totals(n, top) ==
    {sum \in [0 .. n -> 0 .. top] :
        sum[0] = 0 /\ \A i \in 1 .. n : sum[i] = sum[i - 1] + archive[i].bytes}

\* What list has let through, entry by entry: what it has read and what is left
\* of the current entry are all the bytes so far.
Listed ==
    /\ Complete => intact
    /\ Len(listing) <= MaxEntries
    /\ \A i \in 1 .. Len(listing) : entry_of(archive[i]) # NoEntry
    /\ pc = "list" => left = 0 /\ \A i \in 1 .. position : ~archive[i].corrupt
    /\ pc = "skip" => position > 0 /\ \A i \in 1 .. position - 1 : ~archive[i].corrupt
    /\ pc \in {"list", "skip"} =>
          \E sum \in Totals(position, consumed + left) : sum[position] = consumed + left
    /\ Complete => \A i \in 1 .. Len(archive) : ~archive[i].corrupt
    /\ Complete => WithinLimit
    /\ Complete => \A i \in 1 .. Len(listing) :
                      isHook(listing[i].path) => listing[i].path \in metadata.hooks

IInv == Types /\ Passes /\ Effort /\ Listed

-----------------------------------------------------------------------------
(***************************************************************************)
(* The operators.                                                          *)
(***************************************************************************)
\* The smaller of two numbers.
LEMMA MinOfTwo ==
    ASSUME NEW a \in Int, NEW b \in Int
    PROVE  Min({a, b}) = IF a <= b THEN a ELSE b
<1>1. \E x \in {a, b} : \A y \in {a, b} : x <= y
    BY SMTT(60)
<1>2. Min({a, b}) \in {a, b} /\ \A y \in {a, b} : Min({a, b}) <= y
    BY <1>1 DEF Min
<1> QED
    BY SMTT(60), <1>2

\* An entry of the listing has a size; one that is regular and not empty comes
\* from a file, with the size its header declares (entry_of).
LEMMA EntrySize ==
    ASSUME NEW raw \in Raw
    PROVE  /\ entry_of(raw).size \in Nat
           /\ entry_of(raw).kind = "regular" /\ entry_of(raw).size > 0 =>
                 raw.type = "file" /\ entry_of(raw).size = raw.size
<1> DEFINE path == safe_path(raw.path)
           linked == safe_link(target(raw))
           size == IF raw.size < 0 THEN 0 ELSE raw.size
           entry(kind, link, bytes) == [path |-> path, kind |-> kind, link |-> link, size |-> bytes]
<1>s. size \in Nat /\ (size > 0 => size = raw.size)
    BY SMTT(60), RawAssumption
<1>1. \/ entry_of(raw) = NoEntry
      \/ branch(raw) \in {"symlink", "hardlink"} /\ entry_of(raw) = entry(branch(raw), linked, size)
      \/ branch(raw) = "file" /\ entry_of(raw) = entry("regular", None, size)
      \/ entry_of(raw) = entry("regular", None, 0)
    <2> HIDE DEF path, linked, size
    <2>1. CASE path = None \/ raw.setid
        BY <2>1 DEF entry_of, path
    <2>2. CASE ~(path = None \/ raw.setid)
        <3>1. entry_of(raw) =
                CASE branch(raw) \in {"symlink", "hardlink"} ->
                        IF linked = None THEN NoEntry ELSE entry(branch(raw), linked, size)
                  [] branch(raw) = "file" -> entry("regular", None, size)
                  [] branch(raw) = "directory" -> entry("regular", None, 0)
                  [] OTHER -> NoEntry
            BY <2>2 DEF entry_of, path, linked, size
        <3> QED
            BY <3>1
    <2> QED
        BY <2>1, <2>2
<1> HIDE DEF path, linked, size
<1>2. CASE entry_of(raw) = NoEntry
    BY SMTT(60), <1>2 DEF NoEntry
<1>3. CASE branch(raw) \in {"symlink", "hardlink"} /\ entry_of(raw) = entry(branch(raw), linked, size)
    BY SMTT(60), <1>s, <1>3
<1>4. CASE branch(raw) = "file" /\ entry_of(raw) = entry("regular", None, size)
    <2>1. raw.type = "file"
        BY <1>4 DEF branch
    <2> QED
        BY SMTT(60), <1>s, <1>4, <2>1
<1>5. CASE entry_of(raw) = entry("regular", None, 0)
    BY SMTT(60), <1>5
<1> QED
    BY <1>1, <1>2, <1>3, <1>4, <1>5

\* A set of positions has a first one.
LEMMA Least ==
    ASSUME NEW n \in Nat, NEW T \in SUBSET (1 .. n), T # {}
    PROVE  \E m \in T : \A j \in 1 .. m - 1 : j \notin T
<1> DEFINE S == {i \in 1 .. n : \A j \in 1 .. i : j \notin T}
           k == Cardinality(S)
<1>1. IsFiniteSet(1 .. n)
  BY SMTT(60), FS_Interval
<1>2. IsFiniteSet(S) /\ k \in Nat
  BY <1>1, FS_Subset, FS_CardinalityType
<1>3. \A i \in S : \A j \in 1 .. i : j \in S
  BY SMTT(60)
<1>4. \A i \in S : i <= k
  <2> SUFFICES ASSUME NEW i \in S
               PROVE  i <= k
    OBVIOUS
  <2>1. (1 .. i) \in SUBSET S
    BY <1>3
  <2>2. Cardinality(1 .. i) <= k
    BY <1>2, <2>1, FS_Subset
  <2>3. i \in 1 .. n
    OBVIOUS
  <2>4. Cardinality(1 .. i) = i
    BY SMTT(60), <2>3, FS_Interval
  <2> QED BY <2>2, <2>4
<1>5. 1 .. k \subseteq S
  <2>1. CASE k = 0
    BY SMTT(60), <2>1
  <2>2. CASE k > 0
    <3>1. \E i \in S : i >= k
      <4>1. SUFFICES ASSUME \A i \in S : i < k
                     PROVE  FALSE
        BY SMTT(60), <1>2
      <4>2. S \in SUBSET (1 .. k - 1)
        <5>1. \A i \in S : i \in Int /\ 1 <= i
          BY SMTT(60)
        <5> HIDE DEF S
        <5>2. \A i \in S : i < k
          BY <4>1
        <5>3. \A i \in S : i \in 1 .. k - 1
          <6> HIDE DEF k
          <6> QED BY SMTT(60), <1>2, <5>1, <5>2
        <5> QED BY <5>3
      <4>3. IsFiniteSet(1 .. k - 1) /\ Cardinality(1 .. k - 1) = k - 1
        <5> HIDE DEF k
        <5>1. k - 1 \in Int /\ (1 > k - 1 => k - 1 = 0) /\ (k - 1) - 1 + 1 = k - 1
          BY SMTT(60), <1>2, <2>2
        <5> DEFINE h == k - 1
        <5>2. h \in Int /\ 1 \in Int
          BY SMTT(60), <5>1
        <5>3. IsFiniteSet(1 .. h) /\ Cardinality(1 .. h) = IF 1 > h THEN 0 ELSE h - 1 + 1
          <6> HIDE DEF h
          <6> QED BY <5>2, FS_Interval
        <5> QED BY <5>1, <5>3
      <4>4. k <= k - 1
        BY <4>2, <4>3, FS_Subset
      <4> QED BY SMTT(60), <1>2, <4>4
    <3> QED BY SMTT(60), <1>2, <1>3, <3>1
  <2> QED BY SMTT(60), <1>2, <2>1, <2>2
<1>6. k < n
  <2>1. PICK m \in T : TRUE
    OBVIOUS
  <2>2. m \in 1 .. n /\ m \notin S
    BY SMTT(60)
  <2> HIDE DEF S
  <2>3. ~(n <= k)
    BY SMTT(60), <1>2, <1>5, <2>2
  <2> HIDE DEF k
  <2> QED BY SMTT(60), <1>2, <2>3
<1>7. k + 1 \in 1 .. n /\ k + 1 \notin S
  <2> HIDE DEF S
  <2>1. k + 1 \notin S
    BY SMTT(60), <1>2, <1>4
  <2> HIDE DEF k
  <2> QED BY SMTT(60), <1>2, <1>6, <2>1
<1>8. \A j \in 1 .. k : j \notin T
  BY SMTT(60), <1>2, <1>5
<1>9. k + 1 \in T
  <2>1. PICK j \in 1 .. k + 1 : j \in T
    BY <1>7
  <2> HIDE DEF S
  <2> HIDE DEF k
  <2>2. j = k + 1
    BY SMTT(60), <1>2, <1>8, <2>1
  <2> QED BY <2>1, <2>2
<1> HIDE DEF k
<1>10. \A j \in 1 .. (k + 1) - 1 : j \notin T
  BY SMTT(60), <1>2, <1>8
<1> QED BY <1>9, <1>10

\* Stripping "./" ends at the last part at the latest.
LEMMA StrippedFrom ==
    ASSUME NEW raw \in Seq(STRING), raw # None
    PROVE  \E first \in 1 .. Len(raw) :
              /\ \A j \in 1 .. first - 1 : raw[j] = "."
              /\ Stripped(raw) = SubSeq(raw, first, Len(raw))
<1> DEFINE n == Len(raw)
           T == {i \in 1 .. n : raw[i] # "." \/ i = n}
           Q(i) == (raw[i] # "." \/ i = n) /\ \A j \in 1 .. i - 1 : raw[j] = "."
<1>1. n \in Nat /\ n \in 1 .. n
    BY SMTT(60) DEF None
<1> HIDE DEF n
<1>2. T \in SUBSET (1 .. n) /\ T # {}
    BY <1>1
<1>3. PICK m \in T : \A j \in 1 .. m - 1 : j \notin T
    <2> HIDE DEF T
    <2> QED
        BY <1>1, <1>2, Least
<1>4. m \in 1 .. n /\ Q(m)
    <2>1. \A j \in 1 .. m - 1 : j \in 1 .. n
        BY SMTT(60), <1>1, <1>3
    <2> QED
        BY <1>3, <2>1
<1> DEFINE first == CHOOSE i \in 1 .. n : Q(i)
<1>5. first \in 1 .. n /\ Q(first)
    <2> HIDE DEF Q
    <2> QED
        BY <1>4
<1>6. Stripped(raw) = SubSeq(raw, first, n)
    BY DEF Stripped, n
<1> HIDE DEF first
<1> QED
    BY <1>5, <1>6 DEF n

\* A path without ".." that does not begin with a slash stays below where it
\* begins.
Descending(path) == path[1] # "" /\ \A k \in 1 .. Len(path) : path[k] # ".."

LEMMA StaysBeneath ==
    ASSUME NEW path \in Seq(STRING), NEW depth \in Nat, Descending(path)
    PROVE  Beneath(path, depth)
<1>0. DOMAIN path = 1 .. Len(path) /\ Len(path) \in Nat
    BY SMTT(60)
<1>1. ASSUME NEW i \in 1 .. Len(path)
      PROVE  depth + Cardinality({j \in 1 .. i : path[j] \notin {"", ".", ".."}})
                >= Cardinality({j \in 1 .. i : path[j] = ".."})
    <2> DEFINE A == {j \in 1 .. i : path[j] \notin {"", ".", ".."}}
               B == {j \in 1 .. i : path[j] = ".."}
               a == Cardinality(A)
    <2>1. i \in Int /\ \A j \in 1 .. i : j \in 1 .. Len(path)
        BY SMTT(60), <1>0
    <2>2. B = {}
        BY <2>1 DEF Descending
    <2>3. A \in SUBSET (1 .. i)
        OBVIOUS
    <2>4. IsFiniteSet(1 .. i)
        BY SMTT(60), <2>1, FS_Interval
    <2> HIDE DEF A, B
    <2>5. a \in Nat
        BY <2>3, <2>4, FS_Subset, FS_CardinalityType
    <2>6. Cardinality(B) = 0
        BY <2>2, FS_EmptySet
    <2> HIDE DEF a
    <2>7. depth + a >= 0
        BY SMTT(60), <2>5
    <2> QED
        BY <2>6, <2>7 DEF a, A, B
<1> QED
    BY <1>0, <1>1 DEF Beneath, Descending

\* What safe_path lets through is the stored path without its leading "./", with
\* no part that is empty, "." or "..".
LEMMA SafePath ==
    ASSUME NEW raw \in Seq(STRING), safe_path(raw) # None
    PROVE  /\ Names(safe_path(raw), raw)
           /\ \A j \in DOMAIN safe_path(raw) : safe_path(raw)[j] \notin {"", ".", ".."}
           /\ Len(safe_path(raw)) \in Nat \ {0}
           /\ Beneath(raw, 0)
<1>1. raw # None
    BY DEF safe_path
<1>2. PICK first \in 1 .. Len(raw) :
              /\ \A j \in 1 .. first - 1 : raw[j] = "."
              /\ Stripped(raw) = SubSeq(raw, first, Len(raw))
    BY <1>1, StrippedFrom
<1> DEFINE path == Stripped(raw)
<1>3. safe_path(raw) = path /\ \A j \in DOMAIN path : path[j] \notin {"", ".", ".."}
    BY <1>1 DEF safe_path
<1>4. Len(raw) \in Nat /\ first \in Nat
    BY SMTT(60), <1>2
<1>5. Len(path) = Len(raw) - first + 1 /\ DOMAIN path = 1 .. Len(raw) - first + 1
    BY SMTT(60), <1>2, <1>4
<1>6. \A j \in 1 .. Len(raw) - first + 1 : path[j] = raw[first + j - 1]
    BY SMTT(60), <1>2, <1>4
<1>7. \A i \in first .. Len(raw) : raw[i] \notin {"", ".", ".."}
    <2> SUFFICES ASSUME NEW i \in first .. Len(raw)
                 PROVE  raw[i] \notin {"", ".", ".."}
        OBVIOUS
    <2> HIDE DEF path
    <2>1. i - first + 1 \in 1 .. Len(raw) - first + 1 /\ first + (i - first + 1) - 1 = i
        BY SMTT(60), <1>2, <1>4
    <2> QED
        BY <1>3, <1>5, <1>6, <2>1
<1>8. Names(path, raw)
    <2>1. first - 1 \in 0 .. Len(raw) - 1 /\ (first - 1) + 1 = first
        BY SMTT(60), <1>2, <1>4
    <2> QED
        BY <1>2, <2>1 DEF Names
<1>9. \A i \in DOMAIN raw : raw[i] # ".." /\ raw[i] # ""
    <2> HIDE DEF path
    <2>1. \A i \in 1 .. Len(raw) : i \in 1 .. first - 1 \/ i \in first .. Len(raw)
        BY SMTT(60), <1>2, <1>4
    <2>2. DOMAIN raw = 1 .. Len(raw)
        BY SMTT(60)
    <2>3. "." # ".." /\ "." # ""
        OBVIOUS
    <2> QED
        BY <1>2, <1>7, <2>1, <2>2, <2>3
<1>10. Beneath(raw, 0)
    <2>1. 1 \in DOMAIN raw /\ DOMAIN raw = 1 .. Len(raw) /\ 0 \in Nat
        BY SMTT(60), <1>2, <1>4
    <2>2. Descending(raw)
        BY <1>9, <2>1 DEF Descending
    <2> QED
        BY <2>1, <2>2, StaysBeneath
<1>11. Len(path) \in Nat \ {0}
    <2> HIDE DEF path
    <2> QED
        BY SMTT(60), <1>2, <1>4, <1>5
<1> QED
    BY <1>3, <1>8, <1>10, <1>11

\* What entry_of lets through.
LEMMA SafeEntry ==
    ASSUME NEW raw \in Raw, entry_of(raw) # NoEntry
    PROVE  /\ safe_path(raw.path) # None /\ entry_of(raw).path = safe_path(raw.path)
           /\ ~raw.setid /\ (raw.type = "device" => entry_of(raw).kind = "hardlink")
           /\ raw.type = "symlink" => safe_link(raw.symlink) # None
           /\ raw.type # "symlink" /\ raw.hardlink # None => safe_link(raw.hardlink) # None
<1> DEFINE path == safe_path(raw.path)
           linked == safe_link(target(raw))
           size == IF raw.size < 0 THEN 0 ELSE raw.size
           entry(kind, link, bytes) == [path |-> path, kind |-> kind, link |-> link, size |-> bytes]
<1> SUFFICES /\ path # None /\ entry_of(raw).path = path
             /\ ~raw.setid /\ (branch(raw) = "hardlink" => entry_of(raw).kind = "hardlink")
             /\ branch(raw) \in {"symlink", "hardlink", "file", "directory"}
             /\ branch(raw) \in {"symlink", "hardlink"} => linked # None
    BY DEF branch, target
<1> HIDE DEF path, linked, size
<1>1. ~(path = None \/ raw.setid)
    BY DEF entry_of, path
<1>2. entry_of(raw) =
        CASE branch(raw) \in {"symlink", "hardlink"} ->
                IF linked = None THEN NoEntry ELSE entry(branch(raw), linked, size)
          [] branch(raw) = "file" -> entry("regular", None, size)
          [] branch(raw) = "directory" -> entry("regular", None, 0)
          [] OTHER -> NoEntry
    BY <1>1 DEF entry_of, path, linked, size
<1>3. CASE branch(raw) \in {"symlink", "hardlink"}
    <2>1. linked # None /\ entry_of(raw) = entry(branch(raw), linked, size)
        BY <1>2, <1>3
    <2> QED
        BY SMTT(60), <1>1, <1>3, <2>1
<1>4. CASE branch(raw) = "file"
    BY SMTT(60), <1>1, <1>2, <1>4
<1>5. CASE branch(raw) = "directory"
    BY SMTT(60), <1>1, <1>2, <1>5
<1>6. CASE branch(raw) \notin {"symlink", "hardlink", "file", "directory"}
    BY <1>2, <1>6
<1> QED
    BY <1>3, <1>4, <1>5, <1>6

-----------------------------------------------------------------------------
(***************************************************************************)
(* The steps.                                                              *)
(***************************************************************************)
\* The header that is read next belongs to an entry of the archive.
LEMMA NextHeader ==
    ASSUME Types, More
    PROVE  position + 1 \in 1 .. Len(archive) /\ Header = archive[position + 1] /\ Header \in Raw
<1>1. position \in 0 .. Len(archive) /\ Len(archive) \in Nat /\ archive \in Seq(Raw)
    BY SMTT(60) DEF Types
<1>2. position + 1 \in 1 .. Len(archive)
    BY SMTT(60), <1>1 DEF More
<1> QED
    BY SMTT(60), <1>1, <1>2 DEF Header

\* What discard_entry takes from the entry, and what it counts.
LEMMA Discarded ==
    ASSUME Types, NEW after, discard_entry(after)
    PROVE  \E count \in 1 .. Buffer :
              /\ left' \in Nat /\ consumed' = consumed + count /\ consumed' + left' = consumed + left
              /\ \/ /\ pc' = "returned" /\ error' = after /\ unpacked' = unpacked
                 \/ /\ pc' = pc /\ error' = error /\ unpacked' = unpacked + count
                    /\ unpacked <= MaxUnpacked => unpacked' <= MaxUnpacked
<1>t. left \in Nat /\ unpacked \in Nat /\ consumed \in Nat
    BY DEF Types
<1>l. MaxUnpacked \in Nat /\ Buffer \in Nat \ {0}
    BY LimitAssumption, BufferAssumption
<1>1. PICK count \in 1 .. Min({left, Buffer}) :
          /\ left' = left - count
          /\ consumed' = consumed + count
          /\ IF count > MaxUnpacked - Min({unpacked, MaxUnpacked})
             THEN Returns(after) /\ UNCHANGED unpacked
             ELSE unpacked' = unpacked + count /\ UNCHANGED <<pc, error>>
    BY DEF discard_entry
<1>2. Min({left, Buffer}) = IF left <= Buffer THEN left ELSE Buffer
    BY SMTT(60), <1>t, <1>l, MinOfTwo
<1>3. Min({unpacked, MaxUnpacked}) = IF unpacked <= MaxUnpacked THEN unpacked ELSE MaxUnpacked
    BY SMTT(60), <1>t, <1>l, MinOfTwo
<1>4. count \in 1 .. Buffer /\ left' \in Nat /\ consumed' + left' = consumed + left
    BY SMTT(60), <1>1, <1>2, <1>t, <1>l
<1>5. CASE count > MaxUnpacked - Min({unpacked, MaxUnpacked})
    BY <1>1, <1>4, <1>5 DEF Returns
<1>6. CASE ~(count > MaxUnpacked - Min({unpacked, MaxUnpacked}))
    <2>1. unpacked' = unpacked + count /\ pc' = pc /\ error' = error
        BY <1>1, <1>6
    <2>2. unpacked <= MaxUnpacked => unpacked' <= MaxUnpacked
        BY SMTT(60), <1>3, <1>4, <1>6, <1>t, <1>l, <2>1
    <2> QED
        BY <1>1, <1>4, <2>1, <2>2
<1> QED
    BY <1>5, <1>6

\* A sequence of entries with one more is a sequence of entries.
LEMMA Appended ==
    ASSUME NEW S, NEW list \in Seq(S), NEW e \in S
    PROVE  Append(list, e) \in Seq(S)
BY SMTT(60)

\* Every step keeps the types.
LEMMA TypesStep ==
    ASSUME Types, Next
    PROVE  Types'
<1>t. /\ archive \in Seq(Raw) /\ Len(archive) \in Nat
      /\ position \in 0 .. Len(archive)
      /\ left \in Nat /\ unpacked \in Nat /\ consumed \in Nat
      /\ listing \in Seq(EntryOf)
      /\ DOMAIN metadata = {"info", "scripts", "hooks"}
    BY SMTT(60) DEF Types
<1>1. CASE Unreadable \/ DiscardEnds \/ ReadEnds \/ Parse \/ Verify
    BY <1>1, <1>t DEF Unreadable, DiscardEnds, ReadEnds, Parse, Verify, Types
<1>2. CASE open
    BY SMTT(60), <1>2, <1>t DEF open, Opened, Types
<1>3. CASE Discard
    <2>1. PICK after : discard_entry(after)
        BY <1>3 DEF Discard
    <2>2. left' \in Nat /\ consumed' \in Nat /\ unpacked' \in Nat
        BY SMTT(60), <1>t, <2>1, BufferAssumption, Discarded
    <2> QED
        BY <1>3, <1>t, <2>2 DEF Discard, Types
<1>4. CASE ReadHeader
    <2>1. Header.bytes \in Nat /\ position + 1 \in 0 .. Len(archive)
        BY SMTT(60), <1>4, <1>t, NextHeader, RawAssumption DEF ReadHeader
    <2>2. \/ position' = position /\ left' = left /\ unpacked' = unpacked
          \/ position' = position + 1 /\ left' = Header.bytes /\ unpacked' = 0
        BY <1>4 DEF ReadHeader
    <2>3. archive' = archive /\ listing' = listing /\ metadata' = metadata /\ consumed' = consumed
        BY <1>4 DEF ReadHeader
    <2>4. position' \in 0 .. Len(archive) /\ left' \in Nat /\ unpacked' \in Nat
        BY SMTT(60), <1>t, <2>1, <2>2
    <2> QED
        BY <1>t, <2>3, <2>4 DEF Types
<1>5. CASE ReadWanted
    <2>1. entry_of(Header).size \in Nat
        BY <1>5, NextHeader, EntrySize DEF ReadWanted
    <2>2. /\ archive' = archive /\ listing' = listing /\ position' = position
          /\ left' = left /\ unpacked' = unpacked
        BY <1>5 DEF ReadWanted
    <2>3. \/ metadata' = metadata /\ consumed' = consumed
          \/ /\ metadata' = [metadata EXCEPT !.info = position + 1]
             /\ consumed' = consumed + entry_of(Header).size
        BY <1>5 DEF ReadWanted
    <2>4. DOMAIN metadata' = {"info", "scripts", "hooks"}
        BY <1>t, <2>3
    <2>5. consumed' \in Nat
        BY SMTT(60), <1>t, <2>1, <2>3
    <2> QED
        BY <1>t, <2>2, <2>4, <2>5 DEF Types
<1>6. CASE ListHeader
    <2>1. /\ Header.bytes \in Nat /\ entry_of(Header).size \in Nat /\ entry_of(Header) \in EntryOf
          /\ position + 1 \in 0 .. Len(archive)
        BY SMTT(60), <1>6, <1>t, NextHeader, RawAssumption, EntrySize DEF ListHeader, EntryOf
    <2>2. archive' = archive /\ metadata' = metadata /\ consumed' = consumed
        BY <1>6 DEF ListHeader
    <2>3. \/ position' = position /\ left' = left /\ unpacked' = unpacked /\ listing' = listing
          \/ /\ position' = position + 1 /\ left' = Header.bytes
             /\ unpacked' = unpacked + entry_of(Header).size
             /\ listing' = Append(listing, entry_of(Header))
        BY <1>6 DEF ListHeader
    <2>4. listing' \in Seq(EntryOf)
        <3> HIDE DEF EntryOf
        <3>1. Append(listing, entry_of(Header)) \in Seq(EntryOf)
            BY <1>t, <2>1, Appended
        <3> QED
            BY <1>t, <2>3, <3>1
    <2>5. position' \in 0 .. Len(archive) /\ left' \in Nat /\ unpacked' \in Nat
        BY SMTT(60), <1>t, <2>1, <2>3
    <2> QED
        BY <1>t, <2>2, <2>4, <2>5 DEF Types
<1>7. CASE ListEnds
    <2>1. /\ archive' = archive /\ position' = position /\ left' = left /\ unpacked' = unpacked
          /\ listing' = listing /\ consumed' = consumed
        BY <1>7 DEF ListEnds
    <2>2. \/ metadata' = metadata
          \/ \E a, b : metadata' = [metadata EXCEPT !.scripts = a, !.hooks = b]
        BY <1>7 DEF ListEnds
    <2>3. DOMAIN metadata' = {"info", "scripts", "hooks"}
        BY <1>t, <2>2
    <2> QED
        BY <1>t, <2>1, <2>3 DEF Types
<1> QED
    BY <1>1, <1>2, <1>3, <1>4, <1>5, <1>6, <1>7 DEF Next

\* Every step keeps the count of list above what it has read.
LEMMA EffortStep ==
    ASSUME Types, Effort, Next
    PROVE  Effort'
<1>t. /\ left \in Nat /\ unpacked \in Nat /\ consumed \in Nat
      /\ MaxUnpacked \in Nat /\ Buffer \in Nat \ {0}
    BY LimitAssumption, BufferAssumption DEF Types
<1>e. /\ pc \in {"list", "skip"} => consumed <= unpacked /\ unpacked <= MaxUnpacked
      /\ error = "limit" => pc = "returned"
    BY DEF Effort
<1>1. CASE Unreadable \/ ReadEnds \/ Parse \/ Verify
    <2>1. pc' \notin {"list", "skip"} /\ pc # "returned" /\ (error' = error \/ error' # "limit")
        BY <1>1 DEF Unreadable, ReadEnds, Parse, Verify, Returns
    <2> QED
        BY <1>e, <2>1 DEF Effort
<1>2. CASE open
    <2>1. pc # "returned" /\ error' = error /\ consumed' = 0 /\ unpacked' = 0
        BY <1>2 DEF open, Opened, Go
    <2> QED
        BY SMTT(60), <1>t, <1>e, <2>1 DEF Effort
<1>3. CASE Discard
    <2> DEFINE after == IF pc = "discard" THEN "read" ELSE "limit"
    <2>1. pc \in {"discard", "skip"} /\ discard_entry(after)
        BY <1>3 DEF Discard
    <2>a. after = "limit" => pc = "skip"
        BY <2>1
    <2>2. PICK count \in 1 .. Buffer :
             /\ consumed' = consumed + count
             /\ \/ pc' = "returned" /\ error' = after /\ unpacked' = unpacked
                \/ /\ pc' = pc /\ error' = error /\ unpacked' = unpacked + count
                   /\ unpacked <= MaxUnpacked => unpacked' <= MaxUnpacked
        <3> HIDE DEF after
        <3> QED
            BY <2>1, Discarded
    <2> HIDE DEF after
    <2>3. CASE pc' = "returned" /\ error' = after
        BY SMTT(60), <1>t, <1>e, <2>a, <2>2, <2>3 DEF Effort
    <2>4. CASE /\ pc' = pc /\ error' = error /\ unpacked' = unpacked + count
               /\ unpacked <= MaxUnpacked => unpacked' <= MaxUnpacked
        BY SMTT(60), <1>t, <1>e, <2>1, <2>2, <2>4 DEF Effort
    <2> QED
        BY <2>2, <2>3, <2>4
<1>4. CASE DiscardEnds
    <2>1. consumed' = consumed /\ unpacked' = unpacked
        BY <1>4 DEF DiscardEnds
    <2>2. \/ pc = "discard" /\ pc' = "returned" /\ error' = "read"
          \/ pc = "skip" /\ pc' = "returned" /\ error' = "limit"
          \/ pc = "discard" /\ pc' = "read" /\ error' = error
          \/ pc = "skip" /\ pc' = "list" /\ error' = error
        BY <1>4 DEF DiscardEnds, Returns, Go
    <2> QED
        BY SMTT(60), <1>t, <1>e, <2>1, <2>2 DEF Effort
<1>5. CASE ReadHeader \/ ReadWanted
    <2>1. pc = "read" /\ pc' \notin {"list", "skip"} /\ (error' = error \/ error' # "limit")
        BY <1>5 DEF ReadHeader, ReadWanted, Returns
    <2> QED
        BY <1>e, <2>1 DEF Effort
<1>6. CASE ListHeader
    <2> DEFINE size == entry_of(Header).size
    <2>1. size \in Nat
        BY <1>6, NextHeader, EntrySize DEF ListHeader
    <2>2. Min({unpacked, MaxUnpacked}) = IF unpacked <= MaxUnpacked THEN unpacked ELSE MaxUnpacked
        BY SMTT(60), <1>t, MinOfTwo
    <2>3. /\ pc = "list" /\ consumed' = consumed
          /\ \/ pc' = "returned" /\ unpacked' = unpacked
             \/ /\ pc' = "skip" /\ error' = error /\ unpacked' = unpacked + size
                /\ ~(size > MaxUnpacked - Min({unpacked, MaxUnpacked}))
        BY <1>6 DEF ListHeader, Returns
    <2> HIDE DEF size
    <2>4. CASE pc' = "returned" /\ unpacked' = unpacked
        BY SMTT(60), <1>t, <1>e, <2>3, <2>4 DEF Effort
    <2>5. CASE /\ pc' = "skip" /\ error' = error /\ unpacked' = unpacked + size
               /\ ~(size > MaxUnpacked - Min({unpacked, MaxUnpacked}))
        BY SMTT(60), <1>t, <1>e, <2>1, <2>2, <2>3, <2>5 DEF Effort
    <2> QED
        BY <2>3, <2>4, <2>5
<1>7. CASE ListEnds
    <2>1. pc = "list" /\ pc' \in {"verify", "returned"} /\ (error' = error \/ error' # "limit")
        BY <1>7 DEF ListEnds, Returns
    <2> QED
        BY <1>e, <2>1 DEF Effort
<1> QED
    BY <1>1, <1>2, <1>3, <1>4, <1>5, <1>6, <1>7 DEF Next

\* What the passes have found stays, whatever the control point, as long as the
\* archive, the listing and the entry that was read stay.
LEMMA FoundStays ==
    ASSUME Types, Passes, archive' = archive, metadata'.info = metadata.info, listing' = listing
    PROVE  /\ FirstWanted(metadata.info) => FirstWanted(metadata.info)'
           /\ entry_of(archive'[metadata'.info]) = entry_of(archive[metadata.info])
           /\ Len(listing') = Len(listing) /\ Len(archive') = Len(archive)
           /\ \A i \in 1 .. Len(listing') : i <= Len(archive') /\ listing'[i] = entry_of(archive'[i])
BY DEF Passes, FirstWanted

\* Every step keeps what the passes have found.
LEMMA PassesStep ==
    ASSUME Types, Passes, Next
    PROVE  Passes'
<1>t. /\ archive \in Seq(Raw) /\ Len(archive) \in Nat
      /\ position \in 0 .. Len(archive)
      /\ listing \in Seq(EntryOf) /\ Len(listing) \in Nat
      /\ DOMAIN metadata = {"info", "scripts", "hooks"}
    BY SMTT(60) DEF Types
<1>p. /\ pc \in {"read", "discard"} => \A i \in 1 .. position : entry_of(archive[i]).path # Wanted
      /\ pc \in {"parse", "identity", "list", "skip", "verify"} => FirstWanted(metadata.info)
      /\ pc \in {"identity", "list", "skip", "verify"} => entry_of(archive[metadata.info]).size > 0
      /\ pc \in {"start", "read", "discard", "parse", "identity"} => Len(listing) = 0
      /\ pc \in {"list", "skip"} => Len(listing) = position
      /\ pc = "verify" => Len(listing) = Len(archive)
      /\ \A i \in 1 .. Len(listing) : i <= Len(archive) /\ listing[i] = entry_of(archive[i])
    BY DEF Passes
<1> DEFINE Same == archive' = archive /\ metadata'.info = metadata.info /\ listing' = listing
<1>s. ASSUME Same
      PROVE  /\ FirstWanted(metadata.info) => FirstWanted(metadata.info)'
             /\ entry_of(archive'[metadata'.info]) = entry_of(archive[metadata.info])
             /\ Len(listing') = Len(listing) /\ Len(archive') = Len(archive)
             /\ \A i \in 1 .. Len(listing') : i <= Len(archive') /\ listing'[i] = entry_of(archive'[i])
    BY <1>s, FoundStays
<1>r. ASSUME Same, pc' = "returned", error' # ""
      PROVE  Passes'
    BY <1>r, <1>s DEF Passes, Accepted
<1>1. CASE Unreadable \/ ReadEnds
    <2>1. Same /\ pc' = "returned" /\ error' # ""
        BY <1>1 DEF Unreadable, ReadEnds, Returns
    <2> QED
        BY <1>r, <2>1
<1>2. CASE open
    <2>1. Same /\ position' = 0
        BY <1>2 DEF open, Opened
    <2>2. (pc = "start" /\ pc' = "read") \/ (pc = "identity" /\ pc' = "list")
        BY <1>2 DEF open, Go
    <2>3. CASE pc = "start" /\ pc' = "read"
        BY SMTT(60), <1>p, <1>s, <2>1, <2>3 DEF Passes, Accepted
    <2>4. CASE pc = "identity" /\ pc' = "list"
        BY <1>p, <1>s, <2>1, <2>4 DEF Passes, Accepted
    <2> QED
        BY <2>2, <2>3, <2>4
<1>3. CASE Discard
    <2>1. Same /\ position' = position /\ pc \in {"discard", "skip"}
        BY <1>3 DEF Discard
    <2>2. \/ pc' = "returned" /\ error' # ""
          \/ pc' = pc /\ error' = error
        <3>1. PICK after \in {"read", "limit"} : discard_entry(after)
            BY <1>3 DEF Discard
        <3> QED
            BY <3>1, Discarded
    <2>3. CASE pc' = pc /\ error' = error
        <3>1. CASE pc = "discard"
            BY <1>p, <1>s, <2>1, <2>3, <3>1 DEF Passes, Accepted
        <3>2. CASE pc = "skip"
            BY <1>p, <1>s, <2>1, <2>3, <3>2 DEF Passes, Accepted
        <3> QED
            BY <2>1, <3>1, <3>2
    <2> QED
        BY <1>r, <2>1, <2>2, <2>3
<1>4. CASE DiscardEnds
    <2>1. Same /\ position' = position
        BY <1>4 DEF DiscardEnds
    <2>2. \/ pc' = "returned" /\ error' # ""
          \/ pc = "discard" /\ pc' = "read"
          \/ pc = "skip" /\ pc' = "list"
        BY <1>4 DEF DiscardEnds, Returns, Go
    <2>3. CASE pc = "discard" /\ pc' = "read"
        BY <1>p, <1>s, <2>1, <2>3 DEF Passes, Accepted
    <2>4. CASE pc = "skip" /\ pc' = "list"
        BY <1>p, <1>s, <2>1, <2>4 DEF Passes, Accepted
    <2> QED
        BY <1>r, <2>1, <2>2, <2>3, <2>4
<1>5. CASE ReadHeader
    <2>1. Same /\ pc = "read" /\ More /\ entry_of(Header).path # Wanted
        BY <1>5 DEF ReadHeader
    <2>2. \/ pc' = "returned" /\ error' # ""
          \/ pc' = "discard" /\ position' = position + 1
        BY <1>5 DEF ReadHeader, Returns
    <2>3. CASE pc' = "discard" /\ position' = position + 1
        <3>1. Header = archive[position + 1]
            BY DEF Header
        <3>2. \A i \in 1 .. position + 1 : i \in 1 .. position \/ i = position + 1
            BY SMTT(60), <1>t
        <3>3. \A i \in 1 .. position + 1 : entry_of(archive[i]).path # Wanted
            BY <1>p, <2>1, <3>1, <3>2
        <3> QED
            BY <1>p, <1>s, <2>1, <2>3, <3>3 DEF Passes, Accepted
    <2> QED
        BY <1>r, <2>1, <2>2, <2>3
<1>6. CASE ReadWanted
    <2>1. /\ archive' = archive /\ listing' = listing /\ position' = position /\ pc = "read" /\ More
          /\ entry_of(Header).path = Wanted
        BY <1>6 DEF ReadWanted
    <2>2. \/ pc' = "returned" /\ error' # "" /\ metadata' = metadata
          \/ /\ pc' = "parse" /\ metadata' = [metadata EXCEPT !.info = position + 1]
             /\ bounded(entry_of(Header)) /\ Header.bytes >= entry_of(Header).size
        BY <1>6 DEF ReadWanted, Returns
    <2>3. CASE /\ pc' = "parse" /\ metadata' = [metadata EXCEPT !.info = position + 1]
               /\ bounded(entry_of(Header)) /\ Header.bytes >= entry_of(Header).size
        <3>1. position + 1 \in 1 .. Len(archive) /\ Header = archive[position + 1]
            BY <2>1, NextHeader
        <3>2. metadata'.info = position + 1
            BY <1>t, <2>3
        <3>3. \A i \in 1 .. Len(archive) : i < position + 1 => entry_of(archive[i]).path # Wanted
            BY SMTT(60), <1>p, <1>t, <2>1
        <3>4. entry_of(Header).kind = "regular"
            BY <2>3 DEF bounded
        <3>5. FirstWanted(metadata.info)'
            BY <2>1, <2>3, <3>1, <3>2, <3>3, <3>4 DEF FirstWanted
        <3> QED
            BY <1>p, <2>1, <2>3, <3>5 DEF Passes, Accepted
    <2> QED
        BY <1>r, <2>1, <2>2, <2>3
<1>7. CASE Parse
    <2>1. Same /\ pc = "parse"
        BY <1>7 DEF Parse
    <2>2. \/ pc' = "returned" /\ error' # ""
          \/ pc' = "identity" /\ entry_of(archive[metadata.info]).size > 0
        BY <1>7 DEF Parse, Returns
    <2>3. CASE pc' = "identity" /\ entry_of(archive[metadata.info]).size > 0
        BY <1>p, <1>s, <2>1, <2>3 DEF Passes, Accepted
    <2> QED
        BY <1>r, <2>1, <2>2, <2>3
<1>8. CASE ListHeader
    <2>1. archive' = archive /\ metadata' = metadata /\ pc = "list" /\ More
        BY <1>8 DEF ListHeader
    <2>2. \/ pc' = "returned" /\ error' # "" /\ listing' = listing
          \/ /\ pc' = "skip" /\ position' = position + 1
             /\ listing' = Append(listing, entry_of(Header))
        BY <1>8 DEF ListHeader, Returns
    <2>3. CASE pc' = "skip" /\ position' = position + 1 /\ listing' = Append(listing, entry_of(Header))
        <3>1. position + 1 \in 1 .. Len(archive) /\ Header = archive[position + 1] /\ entry_of(Header) \in EntryOf
            BY <2>1, NextHeader DEF EntryOf
        <3>2. /\ Len(listing') = Len(listing) + 1
              /\ \A i \in 1 .. Len(listing) : listing'[i] = listing[i]
              /\ listing'[Len(listing) + 1] = entry_of(Header)
            <4> HIDE DEF EntryOf
            <4> QED
                BY SMTT(60), <1>t, <2>3, <3>1
        <3>3. Len(listing) = position
            BY <1>p, <2>1
        <3>4. \A i \in 1 .. Len(listing') : i <= Len(archive) /\ (i \in 1 .. Len(listing) \/ i = position + 1)
            BY SMTT(60), <1>t, <3>1, <3>2, <3>3
        <3>5. \A i \in 1 .. Len(listing') : i <= Len(archive) /\ listing'[i] = entry_of(archive[i])
            BY <1>p, <3>1, <3>2, <3>3, <3>4
        <3>6. FirstWanted(metadata.info)' /\ entry_of(archive[metadata.info]).size > 0
            BY <1>p, <2>1 DEF FirstWanted
        <3>7. Len(listing') = position'
            BY <2>3, <3>2, <3>3
        <3> QED
            BY <2>1, <2>3, <3>5, <3>6, <3>7 DEF Passes, Accepted
    <2> QED
        BY <1>r, <2>1, <2>2, <2>3
<1>9. CASE ListEnds
    <2>1. archive' = archive /\ listing' = listing /\ pc = "list" /\ ~More
        BY <1>9 DEF ListEnds
    <2>2. \/ pc' = "returned" /\ error' # "" /\ metadata' = metadata
          \/ pc' = "verify" /\ \E a, b : metadata' = [metadata EXCEPT !.scripts = a, !.hooks = b]
        <3>1. \/ Returns("iteration") /\ metadata' = metadata
              \/ pc' = "verify" /\ \E a, b : metadata' = [metadata EXCEPT !.scripts = a, !.hooks = b]
            BY <1>9 DEF ListEnds
        <3>2. "iteration" # ""
            OBVIOUS
        <3> QED
            BY <3>1, <3>2 DEF Returns
    <2>3. CASE pc' = "verify" /\ \E a, b : metadata' = [metadata EXCEPT !.scripts = a, !.hooks = b]
        <3>1. metadata'.info = metadata.info
            BY <1>t, <2>3
        <3>2. Len(listing) = Len(archive)
            BY SMTT(60), <1>p, <1>t, <2>1 DEF More
        <3> QED
            BY <1>p, <1>s, <2>1, <2>3, <3>1, <3>2 DEF Passes, Accepted
    <2> QED
        BY <1>r, <2>1, <2>2, <2>3
<1>10. CASE Verify
    <2>1. Same /\ pc = "verify" /\ pc' = "returned"
        BY <1>10 DEF Verify, Returns
    <2> QED
        BY <1>p, <1>s, <2>1 DEF Passes, Accepted
<1> QED
    BY <1>1, <1>2, <1>3, <1>4, <1>5, <1>6, <1>7, <1>8, <1>9, <1>10 DEF Next

\* The count goes on with the bytes of the next entry.
LEMMA TotalsGrow ==
    ASSUME NEW n \in Nat, NEW top \in Nat, NEW sum \in Totals(n, top), sum[n] = top,
           archive[n + 1].bytes \in Nat
    PROVE  LET next == top + archive[n + 1].bytes
           IN \E grown \in Totals(n + 1, next) : grown[n + 1] = next
<1> DEFINE bytes == archive[n + 1].bytes
           next == top + bytes
           grown == [i \in 0 .. n + 1 |-> IF i <= n THEN sum[i] ELSE next]
<1>1. /\ sum \in [0 .. n -> 0 .. top] /\ sum[0] = 0
      /\ \A i \in 1 .. n : sum[i] = sum[i - 1] + archive[i].bytes
    BY DEF Totals
<1>2. bytes \in Nat
    OBVIOUS
<1> HIDE DEF bytes
<1>3. next \in Nat /\ top <= next
    BY SMTT(60), <1>2
<1>4. \A i \in 0 .. n + 1 : grown[i] \in 0 .. next
    <2> HIDE DEF next
    <2>1. \A i \in 0 .. n + 1 : i <= n => i \in 0 .. n
        BY SMTT(60)
    <2>2. \A i \in 0 .. n : sum[i] \in 0 .. next
        BY SMTT(60), <1>1, <1>3
    <2> QED
        BY SMTT(60), <1>3, <2>1, <2>2
<1>5. grown \in [0 .. n + 1 -> 0 .. next]
    BY <1>4
<1>6. grown[0] = 0 /\ grown[n + 1] = next
    BY SMTT(60), <1>1
<1>7. ASSUME NEW i \in 1 .. n + 1
      PROVE  grown[i] = grown[i - 1] + archive[i].bytes
    <2>1. CASE i = n + 1
        <3>1. grown[i] = next /\ grown[i - 1] = sum[n] /\ archive[i].bytes = bytes
            BY SMTT(60), <2>1 DEF bytes
        <3> QED
            BY <3>1
    <2>2. CASE i # n + 1
        <3>1. i \in 1 .. n /\ i - 1 \in 0 .. n /\ i <= n /\ i - 1 <= n
            BY SMTT(60), <2>2
        <3>2. grown[i] = sum[i] /\ grown[i - 1] = sum[i - 1]
            <4> HIDE DEF next
            <4> QED
                BY SMTT(60), <3>1
        <3> HIDE DEF grown
        <3> QED
            BY <1>1, <3>1, <3>2
    <2> QED
        BY <2>1, <2>2
<1> HIDE DEF grown
<1>8. grown \in Totals(n + 1, next)
    BY <1>5, <1>6, <1>7 DEF Totals
<1> QED
    BY <1>6, <1>8 DEF next, bytes

\* Every step keeps what list has let through.
LEMMA ListedStep ==
    ASSUME Types, Passes, Effort, Listed, Next
    PROVE  Listed'
<1>t. /\ archive \in Seq(Raw) /\ Len(archive) \in Nat
      /\ position \in 0 .. Len(archive)
      /\ left \in Nat /\ unpacked \in Nat /\ consumed \in Nat
      /\ listing \in Seq(EntryOf) /\ Len(listing) \in Nat
    BY SMTT(60) DEF Types
<1>a. \A i \in 1 .. Len(archive) : archive[i] \in Raw
    BY SMTT(60), <1>t
<1>p. /\ Len(listing) <= MaxEntries
      /\ \A i \in 1 .. Len(listing) : entry_of(archive[i]) # NoEntry
    BY DEF Listed
<1> DEFINE Same == archive' = archive /\ listing' = listing
<1>s. ASSUME Same
      PROVE  /\ Len(listing') <= MaxEntries
             /\ \A i \in 1 .. Len(listing') : entry_of(archive'[i]) # NoEntry
    BY <1>p, <1>s
<1> HIDE DEF EntryOf
\* Away from list there is nothing more to show.
<1>r. ASSUME Same, pc' \notin {"list", "skip", "verify"}, ~Accepted'
      PROVE  Listed'
    BY <1>r, <1>s DEF Listed, Complete
<1>1. CASE Unreadable \/ ReadEnds
    <2>1. Same /\ pc' = "returned" /\ error' # ""
        BY <1>1 DEF Unreadable, ReadEnds, Returns
    <2> QED
        BY <1>r, <2>1 DEF Accepted
<1>2. CASE open
    <2>1. Same /\ position' = 0 /\ left' = 0 /\ consumed' = 0
        BY <1>2 DEF open, Opened
    <2>2. (pc = "start" /\ pc' = "read") \/ (pc = "identity" /\ pc' = "list")
        BY <1>2 DEF open, Go
    <2>3. CASE pc' = "read"
        BY <1>r, <2>1, <2>3 DEF Accepted
    <2>4. CASE pc' = "list"
        <3>1. [i \in 0 .. 0 |-> 0] \in Totals(0, 0)'
            BY SMTT(60) DEF Totals
        <3>2. position' = 0 /\ consumed' + left' = 0
            BY SMTT(60), <2>1
        <3>3. \E sum \in Totals(position, consumed + left)' : sum[position'] = consumed' + left'
            BY SMTT(60), <3>1, <3>2
        <3>4. left' = 0 /\ \A i \in 1 .. position' : FALSE
            BY SMTT(60), <2>1
        <3>5. ~Complete' /\ pc' # "skip"
            BY <2>4 DEF Complete, Accepted
        <3> QED
            BY <1>s, <2>1, <3>3, <3>4, <3>5 DEF Listed
    <2> QED
        BY <2>2, <2>3, <2>4
<1>3. CASE Discard
    <2>1. Same /\ position' = position /\ pc \in {"discard", "skip"}
        BY <1>3 DEF Discard
    <2>2. /\ consumed' + left' = consumed + left
          /\ \/ pc' = "returned" /\ error' # ""
             \/ pc' = pc /\ error' = error
        <3>1. PICK after \in {"read", "limit"} : discard_entry(after)
            BY <1>3 DEF Discard
        <3> QED
            BY <3>1, Discarded
    <2>3. CASE pc' = "returned" /\ error' # ""
        BY <1>r, <2>1, <2>3 DEF Accepted
    <2>4. CASE pc' = pc /\ pc = "discard"
        BY <1>r, <2>1, <2>4 DEF Accepted
    <2>5. CASE pc' = pc /\ pc = "skip"
        <3>1. /\ position > 0 /\ \A i \in 1 .. position - 1 : ~archive[i].corrupt
              /\ \E sum \in Totals(position, consumed + left) : sum[position] = consumed + left
            BY <2>5 DEF Listed
        <3>2. Totals(position, consumed + left)' = Totals(position, consumed + left)
            BY <2>1, <2>2 DEF Totals
        <3>3. ~Complete' /\ pc' # "list"
            BY <2>5 DEF Complete, Accepted
        <3> QED
            BY <1>s, <2>1, <2>2, <3>1, <3>2, <3>3 DEF Listed
    <2> QED
        BY <2>1, <2>2, <2>3, <2>4, <2>5
<1>4. CASE DiscardEnds
    <2>1. Same /\ position' = position /\ consumed' = consumed /\ left' = left /\ left = 0
        BY <1>4 DEF DiscardEnds
    <2>2. \/ pc' = "returned" /\ error' # ""
          \/ pc = "discard" /\ pc' = "read"
          \/ pc = "skip" /\ pc' = "list" /\ ~Corrupt
        BY <1>4 DEF DiscardEnds, Returns, Go
    <2>3. CASE (pc' = "returned" /\ error' # "") \/ pc' = "read"
        BY <1>r, <2>1, <2>3 DEF Accepted
    <2>4. CASE pc = "skip" /\ pc' = "list" /\ ~Corrupt
        <3>1. /\ position > 0 /\ \A i \in 1 .. position - 1 : ~archive[i].corrupt
              /\ \E sum \in Totals(position, consumed + left) : sum[position] = consumed + left
            BY <2>4 DEF Listed
        <3>2. ~archive[position].corrupt
            BY <2>1, <2>4, <3>1 DEF Corrupt
        <3>3. \A i \in 1 .. position : i \in 1 .. position - 1 \/ i = position
            BY SMTT(60), <1>t
        <3>4. \A i \in 1 .. position : ~archive[i].corrupt
            BY <3>1, <3>2, <3>3
        <3>5. Totals(position, consumed + left)' = Totals(position, consumed + left)
            BY <2>1 DEF Totals
        <3>6. ~Complete' /\ pc' # "skip"
            BY <2>4 DEF Complete, Accepted
        <3> QED
            BY <1>s, <2>1, <3>1, <3>4, <3>5, <3>6 DEF Listed
    <2> QED
        BY <2>2, <2>3, <2>4
<1>5. CASE ReadHeader \/ ReadWanted \/ Parse
    <2>1. Same
        BY <1>5 DEF ReadHeader, ReadWanted, Parse
    <2>2. pc' \in {"discard", "parse", "identity"} \/ (pc' = "returned" /\ error' # "")
        BY <1>5 DEF ReadHeader, ReadWanted, Parse, Returns
    <2> QED
        BY <1>r, <2>1, <2>2 DEF Accepted
<1>6. CASE ListHeader
    <2>1. archive' = archive /\ consumed' = consumed /\ pc = "list" /\ More
        BY <1>6 DEF ListHeader
    <2>2. \/ pc' = "returned" /\ error' # "" /\ listing' = listing
          \/ /\ pc' = "skip" /\ position' = position + 1 /\ left' = Header.bytes
             /\ listing' = Append(listing, entry_of(Header))
             /\ entry_of(Header) # NoEntry /\ ~(Len(listing) >= MaxEntries)
        BY <1>6 DEF ListHeader, Returns
    <2>3. CASE pc' = "returned" /\ error' # "" /\ listing' = listing
        BY <1>r, <2>1, <2>3 DEF Accepted
    <2>4. CASE /\ pc' = "skip" /\ position' = position + 1 /\ left' = Header.bytes
               /\ listing' = Append(listing, entry_of(Header))
               /\ entry_of(Header) # NoEntry /\ ~(Len(listing) >= MaxEntries)
        <3>1. /\ position + 1 \in 1 .. Len(archive) /\ Header = archive[position + 1] /\ Header \in Raw
              /\ Header.bytes \in Nat
            BY <2>1, NextHeader, RawAssumption
        <3>2. entry_of(Header) \in EntryOf
            BY <3>1 DEF EntryOf
        <3>3. Len(listing') = Len(listing) + 1
            BY SMTT(60), <1>t, <2>4, <3>2
        <3>4. Len(listing') <= MaxEntries
            BY SMTT(60), <1>t, <2>4, <3>3, LimitAssumption
        <3>5. Len(listing) = position
            BY <2>1 DEF Passes
        <3>6. \A i \in 1 .. Len(listing') : i \in 1 .. Len(listing) \/ i = position + 1
            BY SMTT(60), <1>t, <3>3, <3>5
        <3>7. \A i \in 1 .. Len(listing') : entry_of(archive'[i]) # NoEntry
            BY <1>p, <2>1, <2>4, <3>1, <3>6
        <3>8. /\ left = 0 /\ \A i \in 1 .. position : ~archive[i].corrupt
              /\ \E sum \in Totals(position, consumed + left) : sum[position] = consumed + left
            BY <2>1 DEF Listed
        <3>9. position' > 0 /\ position' - 1 = position
            BY SMTT(60), <1>t, <2>4
        <3>10. \A i \in 1 .. position' - 1 : ~archive'[i].corrupt
            BY <2>1, <3>8, <3>9
        <3>11. consumed + left = consumed /\ position \in Nat
            BY SMTT(60), <1>t, <3>8
        <3>12. PICK sum \in Totals(position, consumed) : sum[position] = consumed
            BY <3>8, <3>11
        <3>13. archive[position + 1].bytes \in Nat
            BY <3>1
        <3>14. \E grown \in Totals(position + 1, consumed + Header.bytes) :
                  grown[position + 1] = consumed + Header.bytes
            BY <1>t, <3>1, <3>11, <3>12, <3>13, TotalsGrow
        <3>15. Totals(position, consumed + left)' = Totals(position + 1, consumed + Header.bytes)
            BY <2>1, <2>4 DEF Totals
        <3>16. \E grown \in Totals(position, consumed + left)' : grown[position'] = consumed' + left'
            BY <2>1, <2>4, <3>14, <3>15
        <3>17. ~Complete' /\ pc' # "list"
            BY <2>4 DEF Complete, Accepted
        <3> QED
            BY <3>4, <3>7, <3>9, <3>10, <3>16, <3>17 DEF Listed
    <2> QED
        BY <2>2, <2>3, <2>4
<1>7. CASE ListEnds
    <2>1. Same /\ intact' = intact /\ pc = "list" /\ ~More
        BY <1>7 DEF ListEnds
    <2> DEFINE paths == {listing[i].path : i \in DOMAIN listing}
    <2>2. \/ pc' = "returned" /\ error' # ""
          \/ /\ intact /\ pc' = "verify"
             /\ metadata' = [metadata EXCEPT !.scripts = {path \in paths : isScript(path)},
                                             !.hooks = {path \in paths : isHook(path)}]
        <3>1. "iteration" # ""
            OBVIOUS
        <3> QED
            BY <1>7, <3>1 DEF ListEnds, Returns
    <2>3. CASE pc' = "returned" /\ error' # ""
        BY <1>r, <2>1, <2>3 DEF Accepted
    <2>4. CASE /\ intact /\ pc' = "verify"
               /\ metadata' = [metadata EXCEPT !.scripts = {path \in paths : isScript(path)},
                                               !.hooks = {path \in paths : isHook(path)}]
        <3>1. position = Len(archive)
            BY SMTT(60), <1>t, <2>1 DEF More
        <3>2. /\ left = 0 /\ \A i \in 1 .. position : ~archive[i].corrupt
              /\ \E sum \in Totals(position, consumed + left) : sum[position] = consumed + left
            BY <2>1 DEF Listed
        <3>3. \A i \in 1 .. Len(archive') : ~archive'[i].corrupt
            BY <2>1, <3>1, <3>2
        <3>4. WithinLimit'
            <4>1. PICK sum \in Totals(position, consumed + left) : TRUE
                BY <3>2
            <4>2. consumed + left <= MaxUnpacked
                BY SMTT(60), <1>t, <2>1, <3>2, LimitAssumption DEF Effort
            <4>3. /\ sum \in [0 .. Len(archive) -> 0 .. consumed + left] /\ sum[0] = 0
                  /\ \A i \in 1 .. Len(archive) : sum[i] = sum[i - 1] + archive[i].bytes
                BY <3>1, <4>1 DEF Totals
            <4>4. sum \in [0 .. Len(archive) -> 0 .. MaxUnpacked]
                BY SMTT(60), <1>t, <4>2, <4>3, LimitAssumption
            <4>5. DOMAIN archive = 1 .. Len(archive)
                BY SMTT(60), <1>t
            <4> QED
                BY <2>1, <4>3, <4>4, <4>5 DEF WithinLimit
        <3>5. metadata'.hooks = {path \in paths : isHook(path)}
            <4>1. "hooks" \in DOMAIN metadata
                BY DEF Types
            <4> HIDE DEF paths
            <4> QED
                BY <2>4, <4>1
        <3>6. DOMAIN listing = 1 .. Len(listing)
            BY SMTT(60), <1>t
        <3>7. \A i \in 1 .. Len(listing') : isHook(listing'[i].path) => listing'[i].path \in metadata'.hooks
            BY <2>1, <3>5, <3>6
        <3>8. pc' # "list" /\ pc' # "skip" /\ pc' \notin {"list", "skip"}
            BY <2>4
        <3> QED
            BY <1>s, <2>1, <2>4, <3>3, <3>4, <3>7, <3>8 DEF Listed
    <2> QED
        BY <2>2, <2>3, <2>4
<1>8. CASE Verify
    <2>1. Same /\ metadata' = metadata /\ intact' = intact /\ pc = "verify" /\ pc' = "returned"
        BY <1>8 DEF Verify, Returns
    <2>2. /\ intact /\ WithinLimit
          /\ \A i \in 1 .. Len(archive) : ~archive[i].corrupt
          /\ \A i \in 1 .. Len(listing) : isHook(listing[i].path) => listing[i].path \in metadata.hooks
        BY <2>1 DEF Listed, Complete
    <2>3. WithinLimit'
        BY <2>1, <2>2 DEF WithinLimit
    <2>4. pc' # "list" /\ pc' # "skip" /\ pc' \notin {"list", "skip"}
        BY <2>1
    <2> QED
        BY <1>s, <2>1, <2>2, <2>3, <2>4 DEF Listed
<1> QED
    BY <1>1, <1>2, <1>3, <1>4, <1>5, <1>6, <1>7, <1>8 DEF Next

-----------------------------------------------------------------------------
(***************************************************************************)
(* The theorems.                                                           *)
(***************************************************************************)
\* inspect begins before its first pass.
LEMMA InitIInv == Init => IInv
<1> SUFFICES ASSUME Init
             PROVE  IInv
    OBVIOUS
<1>1. archive \in Seq(Raw) /\ Len(archive) \in Nat
    <2>1. PICK count \in 0 .. Length : archive \in [1 .. count -> Raw]
        BY DEF Init
    <2> QED
        BY SMTT(60), <2>1, BufferAssumption
<1>i. /\ pc = "start" /\ position = 0 /\ left = 0 /\ unpacked = 0 /\ consumed = 0
      /\ listing = <<>> /\ metadata = [info |-> 0, scripts |-> {}, hooks |-> {}]
    BY DEF Init
<1>2. Types
    <2>1. listing \in Seq(EntryOf)
        <3> HIDE DEF EntryOf
        <3> QED
            BY SMTT(60), <1>i
    <2>2. DOMAIN metadata = {"info", "scripts", "hooks"}
        BY <1>i
    <2>3. position \in 0 .. Len(archive) /\ left \in Nat /\ unpacked \in Nat /\ consumed \in Nat
        BY SMTT(60), <1>1, <1>i
    <2> QED
        BY <1>1, <2>1, <2>2, <2>3 DEF Types
<1>3. Passes
    <2>1. Len(listing) = 0 /\ \A i \in 1 .. Len(listing) : FALSE
        BY SMTT(60), <1>i
    <2>2. pc = "start"
        BY <1>i
    <2> QED
        BY <2>1, <2>2 DEF Passes, Accepted
<1>4. Effort
    BY DEF Init, Effort
<1>5. Listed
    <2>1. Len(listing) = 0 /\ Len(listing) <= MaxEntries /\ \A i \in 1 .. Len(listing) : FALSE
        BY SMTT(60), <1>i, LimitAssumption
    <2>2. pc \notin {"list", "skip", "verify", "returned"}
        BY <1>i
    <2> QED
        BY <2>1, <2>2 DEF Listed, Complete, Accepted
<1> QED
    BY <1>2, <1>3, <1>4, <1>5 DEF IInv

\* Every step keeps the invariant.
LEMMA StepIInv == IInv /\ [Next]_vars => IInv'
<1>1. ASSUME IInv, Next
      PROVE  IInv'
    BY <1>1, TypesStep, PassesStep, EffortStep, ListedStep DEF IInv
<1>2. ASSUME IInv, UNCHANGED vars
      PROVE  IInv'
    <2>1. /\ archive' = archive /\ intact' = intact /\ pc' = pc /\ position' = position /\ left' = left
          /\ unpacked' = unpacked /\ listing' = listing /\ metadata' = metadata
          /\ error' = error /\ consumed' = consumed
        BY <1>2 DEF vars
    <2>2. Types'
        BY <1>2, <2>1 DEF IInv, Types
    <2>3. Effort'
        BY <1>2, <2>1 DEF IInv, Effort
    <2>4. Passes'
        BY <1>2, <2>1 DEF IInv, Passes, Accepted, FirstWanted
    <2>5. Listed'
        BY <1>2, <2>1 DEF IInv, Listed, Complete, Accepted, Totals, WithinLimit
    <2> QED
        BY <2>2, <2>3, <2>4, <2>5 DEF IInv
<1> QED
    BY <1>1, <1>2

\* No pass of list() reads more than its limit and one buffer, whatever the
\* headers of the archive declare.
THEOREM EffortBounded == Spec => []BoundedEffort
<1>1. IInv => BoundedEffort
    BY SMTT(60), LimitAssumption, BufferAssumption DEF IInv, Types, Effort, BoundedEffort
<1> QED
    BY <1>1, InitIInv, StepIInv, PTL DEF Spec

\* The identity of an accepted package comes from the first entry that its
\* listing has under the name .PKGINFO, a file whose declared bytes are there.
THEOREM IdentityHolds == Spec => []IdentityOfListing
<1>1. ASSUME IInv, pc = "returned", error = ""
      PROVE  LET named == {i \in DOMAIN listing : listing[i].path = Wanted} IN
             /\ metadata.info \in named /\ \A i \in named : metadata.info <= i
             /\ archive[metadata.info].type = "file"
             /\ archive[metadata.info].bytes >= archive[metadata.info].size
    <2> DEFINE info == metadata.info
    <2>1. /\ archive \in Seq(Raw) /\ listing \in Seq(EntryOf) /\ Len(archive) \in Nat
          /\ Len(listing) = Len(archive) /\ DOMAIN listing = 1 .. Len(archive)
          /\ \A i \in 1 .. Len(archive) : listing[i] = entry_of(archive[i])
        <3>1. archive \in Seq(Raw) /\ listing \in Seq(EntryOf)
            BY <1>1 DEF IInv, Types
        <3>2. /\ Len(listing) = Len(archive)
              /\ \A i \in 1 .. Len(listing) : listing[i] = entry_of(archive[i])
            BY <1>1 DEF IInv, Passes, Accepted
        <3> HIDE DEF EntryOf
        <3>3. DOMAIN listing = 1 .. Len(listing) /\ Len(archive) \in Nat
            BY SMTT(60), <3>1
        <3> QED
            BY <3>1, <3>2, <3>3
    <2>2. FirstWanted(info) /\ entry_of(archive[info]).size > 0
        BY <1>1 DEF IInv, Passes, Accepted
    <2>3. info \in 1 .. Len(archive) /\ archive[info] \in Raw
        BY SMTT(60), <2>1, <2>2 DEF FirstWanted
    <2>4. archive[info].type = "file" /\ archive[info].bytes >= archive[info].size
        BY <2>2, <2>3, EntrySize DEF FirstWanted
    <2>5. listing[info].path = Wanted
        BY <2>1, <2>2, <2>3 DEF FirstWanted
    <2>6. \A i \in DOMAIN listing : listing[i].path = Wanted => info <= i
        BY SMTT(60), <2>1, <2>2, <2>3 DEF FirstWanted
    <2> QED
        BY <2>1, <2>3, <2>4, <2>5, <2>6
<1>2. IInv => IdentityOfListing
    BY <1>1 DEF IdentityOfListing
<1> QED
    BY <1>2, InitIInv, StepIInv, PTL DEF Spec

\* inspect accepts only an archive that is whole, that its listing describes
\* entry by entry under paths and links that stay below the root of the package,
\* without setuid or setgid and with a device only as a hard link, and whose entries
\* and bytes are within the limits, for every archive and every limit.
THEOREM AcceptedHolds == Spec => []AcceptedIsSafe
<1>1. ASSUME IInv, pc = "returned", error = ""
      PROVE  /\ intact
             /\ Len(listing) = Len(archive) /\ Len(archive) <= MaxEntries
             /\ WithinLimit
    <2>1. Accepted /\ Complete
        BY <1>1 DEF Accepted, Complete
    <2>2. Len(listing) = Len(archive)
        BY <1>1, <2>1 DEF IInv, Passes
    <2> QED
        BY <1>1, <2>1, <2>2 DEF IInv, Listed
<1>2. ASSUME IInv, pc = "returned", error = "", NEW i \in DOMAIN archive
      PROVE  LET raw == archive[i] IN
             /\ Names(listing[i].path, raw.path)
             /\ \A j \in DOMAIN listing[i].path : listing[i].path[j] \notin {"", ".", ".."}
             /\ Beneath(raw.path, 0)
             /\ raw.type = "symlink" => Beneath(raw.symlink, Len(listing[i].path) - 1)
             /\ raw.type # "symlink" /\ raw.hardlink # None => Beneath(raw.hardlink, 0)
             /\ raw.type = "device" => listing[i].kind = "hardlink"
             /\ ~raw.setid /\ ~raw.corrupt
             /\ isHook(listing[i].path) => listing[i].path \in metadata.hooks
    <2> DEFINE raw == archive[i]
               path == safe_path(raw.path)
    <2>1. Accepted /\ Complete
        BY <1>2 DEF Accepted, Complete
    <2>2. Len(listing) = Len(archive)
        BY <1>2, <2>1 DEF IInv, Passes
    <2>3. i \in 1 .. Len(archive) /\ raw \in Raw
        <3>1. archive \in Seq(Raw)
            BY <1>2 DEF IInv, Types
        <3>2. DOMAIN archive = 1 .. Len(archive) /\ \A k \in DOMAIN archive : archive[k] \in Raw
            BY SMTT(60), <3>1
        <3> QED
            BY <1>2, <3>2
    <2>4. listing[i] = entry_of(raw) /\ entry_of(raw) # NoEntry
        BY <1>2, <2>2, <2>3 DEF IInv, Passes, Listed
    <2>5. ~raw.corrupt /\ (isHook(listing[i].path) => listing[i].path \in metadata.hooks)
        BY <1>2, <2>1, <2>2, <2>3 DEF IInv, Listed
    <2>6. /\ raw.path \in Seq(STRING)
          /\ raw.symlink \in Seq(STRING) /\ raw.hardlink \in Seq(STRING)
        BY <2>3, RawAssumption
    <2> HIDE DEF raw
    <2>7. /\ path # None /\ listing[i].path = path
          /\ ~raw.setid /\ (raw.type = "device" => listing[i].kind = "hardlink")
          /\ raw.type = "symlink" => safe_link(raw.symlink) # None
          /\ raw.type # "symlink" /\ raw.hardlink # None => safe_link(raw.hardlink) # None
        BY <2>3, <2>4, SafeEntry
    <2>8. /\ Names(path, raw.path)
          /\ \A j \in DOMAIN path : path[j] \notin {"", ".", ".."}
          /\ Len(path) \in Nat \ {0}
          /\ Beneath(raw.path, 0)
        BY <2>6, <2>7, SafePath
    <2> HIDE DEF path
    <2>9. ASSUME NEW link \in Seq(STRING), safe_link(link) # None, NEW depth \in Nat
          PROVE  Beneath(link, depth)
        <3>1. link[1] # "" /\ \A k \in DOMAIN link : link[k] # ".."
            BY <2>9 DEF safe_link
        <3>2. DOMAIN link = 1 .. Len(link)
            BY SMTT(60)
        <3>3. Descending(link)
            BY <3>1, <3>2 DEF Descending
        <3> QED
            BY <3>3, StaysBeneath
    <2>10. Len(path) - 1 \in Nat /\ 0 \in Nat
        <3>1. Len(path) \in Nat \ {0}
            BY <2>8
        <3> QED
            BY SMTT(60), <3>1
    <2>11. /\ raw.type = "symlink" => Beneath(raw.symlink, Len(listing[i].path) - 1)
           /\ raw.type # "symlink" /\ raw.hardlink # None => Beneath(raw.hardlink, 0)
        BY <2>6, <2>7, <2>9, <2>10
    <2> QED
        BY <2>5, <2>7, <2>8, <2>11 DEF raw
<1>3. IInv => AcceptedIsSafe
    BY <1>1, <1>2 DEF AcceptedIsSafe
<1> QED
    BY <1>3, InitIInv, StepIInv, PTL DEF Spec
=============================================================================
