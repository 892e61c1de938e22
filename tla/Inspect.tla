------------------------------- MODULE Inspect -------------------------------
(***************************************************************************)
(* package::inspect (src/src/package/package.cpp): archive_adapter::read   *)
(* of .PKGINFO, archive_adapter::list, and the verification of the         *)
(* detached signature.  read and list go through the archive from its      *)
(* start, one header and one buffer at a time.  The package file does not  *)
(* change meanwhile.                                                       *)
(***************************************************************************)
EXTENDS Archive, FiniteSets, FiniteSetsExt

CONSTANTS
    Raw,       \* the entries an archive is made of
    Length,    \* bound: how many entries it has at most
    Buffer,    \* bytes that archive_read_data returns at most
    MaxInfo    \* the bytes of .PKGINFO that inspect asks for

ASSUME BufferAssumption == Buffer \in Nat \ {0} /\ Length \in Nat /\ MaxInfo \in Nat
ASSUME RawAssumption ==
    \A raw \in Raw :
        /\ raw.bytes \in Nat /\ raw.size \in Int
        /\ raw.path \in Seq(STRING) /\ raw.type \in {"file", "directory", "symlink", "device"}
        /\ raw.symlink \in Seq(STRING) /\ raw.hardlink \in Seq(STRING)
        /\ raw.corrupt \in BOOLEAN /\ raw.setid \in BOOLEAN

VARIABLES
    archive,   \* the entries of the package
    intact,    \* the headers end with the end of the file, not with an error
    pc,
    position,  \* headers read in this pass
    left,      \* bytes of the current entry that are still to be read
    unpacked,  \* unpacked of list, discarded of read
    listing,   \* the result of list
    metadata,  \* Result::metadata: the entry it was read from, and the paths that are
               \* scripts and hooks
    error,     \* what inspect returns with: "" is success
    consumed   \* history: the bytes read from the archive in this pass

vars == <<archive, intact, pc, position, left, unpacked, listing, metadata, error, consumed>>

Init ==
    /\ \E count \in 0 .. Length : archive \in [1 .. count -> Raw]
    /\ intact \in BOOLEAN
    /\ pc = "start"
    /\ position = 0 /\ left = 0 /\ unpacked = 0 /\ consumed = 0
    /\ listing = <<>>
    /\ metadata = [info |-> 0, scripts |-> {}, hooks |-> {}]
    /\ error = ""

Go(from, to) == pc = from /\ pc' = to
Returns(e) == pc' = "returned" /\ error' = e

\* open, for a new pass.
Opened == position' = 0 /\ left' = 0 /\ unpacked' = 0 /\ consumed' = 0

\* The name of the file, its type, or open of archive_adapter.
Unreadable ==
    /\ pc \in {"start", "identity"}
    /\ Returns("package")
    /\ UNCHANGED <<archive, intact, position, left, unpacked, listing, metadata, consumed>>

open ==
    /\ Go("start", "read") \/ Go("identity", "list")
    /\ Opened
    /\ UNCHANGED <<archive, intact, listing, metadata, error>>

-----------------------------------------------------------------------------
\* archive_read_next_header
More == position < Len(archive)
Header == archive[position + 1]

\* Mutant: what is read is not held against the limit.
discard_entry_unlimited(after) ==
    /\ left > 0
    /\ \E count \in 1 .. Min({left, Buffer}) :
          left' = left - count /\ consumed' = consumed + count /\ unpacked' = unpacked + count
    /\ UNCHANGED <<pc, error>>

\* discard_entry, one archive_read_data.  `after` is the error of its caller.
discard_entry(after) ==
    /\ left > 0
    /\ \E count \in 1 .. Min({left, Buffer}) :
          /\ left' = left - count
          /\ consumed' = consumed + count
          /\ IF count > MaxUnpacked - Min({unpacked, MaxUnpacked})
             THEN Returns(after) /\ UNCHANGED unpacked
             ELSE unpacked' = unpacked + count /\ UNCHANGED <<pc, error>>

\* archive_read_data returns an error at the end of what can be read.
Corrupt == position > 0 /\ archive[position].corrupt /\ left = 0

Discard ==
    /\ pc \in {"discard", "skip"}
    /\ discard_entry(IF pc = "discard" THEN "read" ELSE "limit")
    /\ UNCHANGED <<archive, intact, position, listing, metadata>>

DiscardEnds ==
    /\ left = 0
    /\ \/ Corrupt /\ pc \in {"discard", "skip"}
          /\ Returns(IF pc = "discard" THEN "read" ELSE "limit")
       \/ ~Corrupt /\ (Go("discard", "read") \/ Go("skip", "list")) /\ UNCHANGED error
    /\ UNCHANGED <<archive, intact, position, left, unpacked, listing, metadata, consumed>>

-----------------------------------------------------------------------------
Wanted == <<".PKGINFO">>

\* read: an entry that is not the wanted one is discarded, with a count of its
\* own.
ReadHeader ==
    /\ pc = "read" /\ More
    /\ LET entry == entry_of(Header) IN
       /\ entry.path # Wanted
       /\ IF entry = NoEntry THEN Returns("unsafe") /\ UNCHANGED <<position, left, unpacked>>
          ELSE /\ position' = position + 1 /\ left' = Header.bytes /\ unpacked' = 0
               /\ pc' = "discard" /\ UNCHANGED error
    /\ UNCHANGED <<archive, intact, listing, metadata, consumed>>

\* Mutant: any kind of entry will do.
bounded_any(entry) == entry.size <= MaxInfo

bounded(entry) == entry.kind = "regular" /\ entry.size <= MaxInfo

\* read: as many bytes as the header declares, or an error.
ReadWanted ==
    /\ pc = "read" /\ More
    /\ LET entry == entry_of(Header) IN
       /\ entry.path = Wanted
       /\ IF bounded(entry) /\ Header.bytes >= entry.size
          THEN /\ pc' = "parse" /\ UNCHANGED error
               /\ metadata' = [metadata EXCEPT !.info = position + 1]
               /\ consumed' = consumed + entry.size
          ELSE Returns("read") /\ UNCHANGED <<metadata, consumed>>
    /\ UNCHANGED <<archive, intact, position, left, unpacked, listing>>

ReadEnds ==
    /\ pc = "read" /\ ~More
    /\ Returns("not found")
    /\ UNCHANGED <<archive, intact, position, left, unpacked, listing, metadata, consumed>>

\* pkgname, pkgver and arch are there, for this machine; nothing is there in an
\* empty text.
Parse ==
    /\ pc = "parse"
    /\ \/ Returns("identity")
       \/ Returns("architecture")
       \/ entry_of(archive[metadata.info]).size > 0 /\ pc' = "identity" /\ UNCHANGED error
    /\ UNCHANGED <<archive, intact, position, left, unpacked, listing, metadata, consumed>>

-----------------------------------------------------------------------------
\* list: both the declared size and what is read are counted.
ListHeader ==
    /\ pc = "list" /\ More
    /\ LET entry == entry_of(Header) IN
       IF Len(listing) >= MaxEntries
       THEN Returns("limit") /\ UNCHANGED <<position, left, unpacked, listing>>
       ELSE IF entry = NoEntry
       THEN Returns("unsafe") /\ UNCHANGED <<position, left, unpacked, listing>>
       ELSE IF entry.size > MaxUnpacked - Min({unpacked, MaxUnpacked})
       THEN Returns("limit") /\ UNCHANGED <<position, left, unpacked, listing>>
       ELSE /\ position' = position + 1
            /\ left' = Header.bytes
            /\ unpacked' = unpacked + entry.size
            /\ listing' = Append(listing, entry)
            /\ pc' = "skip" /\ UNCHANGED error
    /\ UNCHANGED <<archive, intact, metadata, consumed>>

isScript(path) == path[Len(path)] = ".INSTALL"
isHook(path) == path[Len(path)] = "a.hook" \/ \E i \in 2 .. Len(path) - 1 : path[i] = "hooks"

\* archive_errno, and the scripts and hooks of a complete listing.
ListEnds ==
    /\ pc = "list" /\ ~More
    /\ IF intact
       THEN LET paths == {listing[i].path : i \in DOMAIN listing} IN
            /\ pc' = "verify" /\ UNCHANGED error
            /\ metadata' = [metadata EXCEPT !.scripts = {path \in paths : isScript(path)},
                                            !.hooks = {path \in paths : isHook(path)}]
       ELSE Returns("iteration") /\ UNCHANGED metadata
    /\ UNCHANGED <<archive, intact, position, left, unpacked, listing, consumed>>

\* The detached signature, gpgv, the keyring and the verdict of gpgv in the sandbox.
Verify ==
    /\ pc = "verify"
    /\ Returns("") \/ Returns("signature")
    /\ UNCHANGED <<archive, intact, position, left, unpacked, listing, metadata, consumed>>

Next ==
    \/ Unreadable \/ open \/ Discard \/ DiscardEnds \/ ReadHeader \/ ReadWanted \/ ReadEnds
    \/ Parse \/ ListHeader \/ ListEnds \/ Verify

Spec == Init /\ [][Next]_vars

-----------------------------------------------------------------------------
(***************************************************************************)
(* Properties.                                                             *)
(***************************************************************************)
\* Where a path leads, part by part, from `depth` directories below the root of
\* the package: never above that root, and nowhere else than below it.
Beneath(path, depth) ==
    /\ path[1] # ""
    /\ \A i \in DOMAIN path :
          depth + Cardinality({j \in 1 .. i : path[j] \notin {"", ".", ".."}})
             >= Cardinality({j \in 1 .. i : path[j] = ".."})

\* A stored path without the "./" it begins with.
Names(path, raw) ==
    \E dots \in 0 .. Len(raw) - 1 :
        /\ \A i \in 1 .. dots : raw[i] = "."
        /\ path = SubSeq(raw, dots + 1, Len(raw))

\* The bytes that are there, counted from entry to entry, stay within the limit.
WithinLimit ==
    \E sum \in [0 .. Len(archive) -> 0 .. MaxUnpacked] :
        sum[0] = 0 /\ \A i \in DOMAIN archive : sum[i] = sum[i - 1] + archive[i].bytes

\* What inspect accepts is an archive that ends where it should, with each entry
\* listed once, in order, under a name that leads where the stored one does, below
\* the root of the package, as do the links; without setuid or setgid, and a device
\* only as one more name of another entry; within the limits on entries and on
\* bytes really there (list and entry_of).
AcceptedIsSafe ==
    (pc = "returned" /\ error = "") =>
        /\ intact
        /\ Len(listing) = Len(archive) /\ Len(archive) <= MaxEntries
        /\ WithinLimit
        /\ \A i \in DOMAIN archive :
              LET raw == archive[i] IN
              /\ Names(listing[i].path, raw.path)
              /\ \A j \in DOMAIN listing[i].path : listing[i].path[j] \notin {"", ".", ".."}
              /\ Beneath(raw.path, 0)
              /\ raw.type = "symlink" => Beneath(raw.symlink, Len(listing[i].path) - 1)
              /\ raw.type # "symlink" /\ raw.hardlink # None => Beneath(raw.hardlink, 0)
              /\ raw.type = "device" => listing[i].kind = "hardlink"
              /\ ~raw.setid /\ ~raw.corrupt
        /\ \A i \in DOMAIN archive :
              isHook(listing[i].path) => listing[i].path \in metadata.hooks

\* read and list, two passes over the archive with loops of their own, are about
\* the same entry: the identity of an accepted package is the content of the first
\* entry that the listing has under the name .PKGINFO, which is a file, and all of
\* what its header declares.
IdentityOfListing ==
    (pc = "returned" /\ error = "") =>
        LET named == {i \in DOMAIN listing : listing[i].path = Wanted} IN
        /\ metadata.info \in named /\ \A i \in named : metadata.info <= i
        /\ archive[metadata.info].type = "file"
        /\ archive[metadata.info].bytes >= archive[metadata.info].size

\* No pass of list() reads more than its limit and one buffer from the archive,
\* whatever the headers declare.  (A pass of read() has that limit for each
\* entry.)
BoundedEffort ==
    (pc \in {"list", "skip"} \/ error = "limit") => consumed <= MaxUnpacked + Buffer
=============================================================================
