------------------------------ MODULE Reconcile ------------------------------
(***************************************************************************)
(* One directory kept in step with its `.crumb` manifest:                  *)
(* ReconcileDirectory::execute, the DirectoryManifest it edits, the        *)
(* FileIdentityMatcher it asks about renamed files, and the directory      *)
(* listing it reads, running against a file system that keeps changing and *)
(* a user who edits the manifest by hand.                                  *)
(*                                                                         *)
(* File names are numbers, because the manifest is ordered by name.  A     *)
(* version stands for the triple (size, modified_ns, fingerprint), which   *)
(* the code only ever compares as a whole; two files share a version when  *)
(* one is a time-preserving copy of the other.  `observed' is the code's   *)
(* vector<bool>: positions, not entries.                                   *)
(***************************************************************************)
EXTENDS Integers, Sequences, FiniteSets, Functions

CONSTANTS
    Names,        \* the file names that can occur in the directory
    Inodes,       \* the inode numbers its file system hands out (and reuses)
    NoFile,       \* not a file
    Extractions,  \* the outcomes of a text extraction: TRUE when it yields terms
    InitialFiles, \* the sets of names the directory can start with
    ChangePhases, \* bound: the phases of the scan in which users make changes
    MaxOps,       \* bound: changes made to the directory and the manifest
    MaxScans      \* bound: scans started

ASSUME NamesAssumption == Names \subseteq Nat
ASSUME ExtractionsAssumption == Extractions \subseteq BOOLEAN
ASSUME NoFileAssumption == NoFile \notin [ino : Inodes, ver : Nat]

VARIABLES
    disk,      \* the directory: what each name is linked to
    now,       \* the next version a write produces
    ops,       \* changes made so far
    stored,    \* the entries of the `.crumb` file, <<>> when there is none
    nextId,    \* the next file id: IdGenerator never repeats one
    scans,     \* scans started so far
    pc,        \* where the scan stands
    loaded,    \* execute's `loaded'
    work,      \* manifest.files()
    observed,  \* execute's `observed'
    seen,      \* the snapshots, by name
    listing,   \* names the directory stream still has to yield
    todo,      \* names of the snapshots the loop has not reached
    cursor,    \* the sweep's index
    result,    \* ReconcileResult
    hist       \* history: which hard cases this scan has met

env   == <<disk, now, ops>>
local == <<loaded, work, observed, seen, listing, todo, cursor, result, hist>>
vars  == <<env, stored, nextId, scans, pc, local>>

File  == [ino : Inodes, ver : Nat]
Entry == [id : Nat, name : Names, ino : Inodes, ver : Nat,
          terms : BOOLEAN, custom : BOOLEAN]

NoResult == [scanned |-> 0, added |-> 0, updated |-> 0, removed |-> 0]
NoHist   == [renamed |-> FALSE, stolen |-> FALSE, shifted |-> FALSE]

EnvType ==
    disk \in [Names -> File \cup {NoFile}] /\ now \in Nat /\ ops \in Nat

StoreType == stored \in Seq(Entry) /\ nextId \in Nat /\ scans \in Nat

ManifestType ==
    /\ loaded \in Seq(Entry) /\ work \in Seq(Entry) /\ observed \in Seq(BOOLEAN)
    /\ cursor \in Nat /\ (pc = "sweep" => cursor <= Len(work))

ScanType ==
    /\ pc \in {"idle", "list", "loop", "sweep", "save"}
    /\ DOMAIN seen \subseteq Names /\ \A n \in DOMAIN seen : seen[n] \in File
    /\ listing \subseteq Names /\ todo \subseteq DOMAIN seen
    /\ result \in [scanned : Nat, added : Nat, updated : Nat, removed : Nat]
    /\ hist \in [renamed : BOOLEAN, stolen : BOOLEAN, shifted : BOOLEAN]

TypeOK == EnvType /\ StoreType /\ ManifestType /\ ScanType

-----------------------------------------------------------------------------
(***************************************************************************)
(* The manifest and the matcher.                                           *)
(***************************************************************************)
ByName(files) == \A i, j \in DOMAIN files : i < j => files[i].name <= files[j].name

\* sort_files: what sorting can make of the vector (one value: names are unique).
Sorted(files) ==
    {t \in {[i \in 1 .. Len(files) |-> files[p[i]]] :
               p \in Injection(1 .. Len(files), 1 .. Len(files))} : ByName(t)}

Sole(S) == {i \in S : S = {i}}

SameInode(snapshot, files)   == {i \in DOMAIN files : files[i].ino = snapshot.ino}
SameContent(snapshot, files) == {i \in DOMAIN files : files[i].ver = snapshot.ver}

\* FileIdentityMatcher::match: the only candidate of the first tier that has one.
\* No snapshot carries a content hash, so that tier never answers.
Match(snapshot, files) ==
    IF Sole(SameInode(snapshot, files)) # {}
    THEN Sole(SameInode(snapshot, files))
    ELSE Sole(SameContent(snapshot, files))

Named(name, files) == {i \in DOMAIN files : files[i].name = name}

\* Variant: the matcher is asked before the name.
LocatedByIdentity(name, snapshot, files) ==
    IF Match(snapshot, files) # {} THEN Match(snapshot, files) ELSE Named(name, files)

\* Where the entry of a snapshot is: under its name, else where the matcher says.
Located(name, snapshot, files) ==
    IF Named(name, files) # {} THEN Named(name, files) ELSE Match(snapshot, files)

\* Variant: the iterator-range erase, which drops the tail too.
EraseTail(files, i) == SubSeq(files, 1, i - 1)

\* vector::erase at position i.
Erase(files, i) ==
    [j \in 1 .. Len(files) - 1 |-> IF j < i THEN files[j] ELSE files[j + 1]]

\* Variants: the user's fields are not carried over; the old version is kept.
RefreshedBare(entry, name, snapshot, terms) ==
    [id |-> entry.id, name |-> name, ino |-> snapshot.ino, ver |-> snapshot.ver,
     terms |-> terms, custom |-> FALSE]

RefreshedStale(entry, name, snapshot, terms) ==
    [entry EXCEPT !.name = name, !.ino = snapshot.ino, !.terms = terms]

\* What a scan writes for a file it had to extract again: preserve_custom_metadata
\* keeps the user's fields, the id stays, everything else is new.
Refreshed(entry, name, snapshot, terms) ==
    [id |-> entry.id, name |-> name, ino |-> snapshot.ino, ver |-> snapshot.ver,
     terms |-> terms, custom |-> entry.custom]

NewEntry(id, name, snapshot, terms) ==
    [id |-> id, name |-> name, ino |-> snapshot.ino, ver |-> snapshot.ver,
     terms |-> terms, custom |-> FALSE]

\* The condition under which execute leaves an entry as it is.
Current(entry, snapshot) == entry.ver = snapshot.ver /\ entry.terms

-----------------------------------------------------------------------------
(***************************************************************************)
(* The directory's users.                                                  *)
(***************************************************************************)
Linked(i) == \E n \in Names : disk[n] # NoFile /\ disk[n].ino = i

Change ==
    /\ ops < MaxOps /\ pc \in ChangePhases
    /\ ops' = ops + 1
    /\ UNCHANGED <<nextId, scans, pc, local>>

Create(n, i) ==
    /\ Change
    /\ disk[n] = NoFile /\ ~Linked(i)
    /\ disk' = [disk EXCEPT ![n] = [ino |-> i, ver |-> now]]
    /\ now' = now + 1 /\ UNCHANGED stored

Write(n) ==
    /\ Change
    /\ disk[n] # NoFile
    /\ disk' = [m \in Names |-> IF disk[m] # NoFile /\ disk[m].ino = disk[n].ino
                                THEN [ino |-> disk[n].ino, ver |-> now] ELSE disk[m]]
    /\ now' = now + 1 /\ UNCHANGED stored

Move(n, m) ==
    /\ Change
    /\ n # m /\ disk[n] # NoFile
    /\ disk' = [disk EXCEPT ![m] = disk[n], ![n] = NoFile]
    /\ UNCHANGED <<now, stored>>

Delete(n) ==
    /\ Change
    /\ disk[n] # NoFile
    /\ disk' = [disk EXCEPT ![n] = NoFile]
    /\ UNCHANGED <<now, stored>>

Link(n, m) ==
    /\ Change
    /\ disk[n] # NoFile /\ disk[m] = NoFile
    /\ disk' = [disk EXCEPT ![m] = disk[n]]
    /\ UNCHANGED <<now, stored>>

\* `cp -p': the same bytes and the same modification time in another inode.
Copy(n, m, i) ==
    /\ Change
    /\ disk[n] # NoFile /\ disk[m] = NoFile /\ ~Linked(i)
    /\ disk' = [disk EXCEPT ![m] = [ino |-> i, ver |-> disk[n].ver]]
    /\ UNCHANGED <<now, stored>>

\* The user adds a field of their own to a file's record in `.crumb'.
Annotate(k) ==
    /\ Change
    /\ ~stored[k].custom
    /\ stored' = [stored EXCEPT ![k].custom = TRUE]
    /\ UNCHANGED <<disk, now>>

Users ==
    \/ \E n \in Names : Write(n) \/ Delete(n)
    \/ \E n \in Names, i \in Inodes : Create(n, i)
    \/ \E n, m \in Names : Move(n, m) \/ Link(n, m)
    \/ \E n, m \in Names, i \in Inodes : Copy(n, m, i)
    \/ \E k \in DOMAIN stored : Annotate(k)

-----------------------------------------------------------------------------
(***************************************************************************)
(* ReconcileDirectory::execute.                                            *)
(***************************************************************************)
Init ==
    /\ disk \in [Names -> [ino : Inodes, ver : Names] \cup {NoFile}]
    /\ {n \in Names : disk[n] # NoFile} \in InitialFiles
    /\ \A n \in Names : disk[n] # NoFile => disk[n].ver = n
    /\ \A n, m \in Names :
          disk[n] # NoFile /\ disk[m] # NoFile /\ disk[n].ino = disk[m].ino => n = m
    /\ now \in {n + 1 : n \in Names} /\ \A n \in Names : n < now
    /\ ops = 0 /\ stored = <<>> /\ nextId = 1 /\ scans = 0 /\ pc = "idle"
    /\ loaded = <<>> /\ work = <<>> /\ observed = <<>> /\ seen = <<>>
    /\ listing = {} /\ todo = {} /\ cursor = 0 /\ result = NoResult /\ hist = NoHist

\* The manifest is loaded and the directory stream opened.  Names that appear
\* later may still be listed; names that go away are skipped when reached.
Load ==
    /\ pc = "idle" /\ scans < MaxScans
    /\ \E files \in Sorted(stored) :
          /\ loaded' = files /\ work' = files
          /\ observed' = [i \in 1 .. Len(files) |-> FALSE]
    /\ listing' = {n \in Names : disk[n] # NoFile}
    /\ scans' = scans + 1 /\ pc' = "list"
    /\ UNCHANGED <<env, stored, nextId, seen, todo, cursor, result, hist>>

\* list_regular_files: one name becomes a snapshot.
Snapshot(n) ==
    /\ pc = "list" /\ disk[n] # NoFile /\ n \notin DOMAIN seen
    /\ seen' = [m \in DOMAIN seen \cup {n} |-> IF m = n THEN disk[n] ELSE seen[m]]
    /\ listing' = listing \ {n}
    /\ UNCHANGED <<env, stored, nextId, scans, pc, loaded, work, observed, todo,
                   cursor, result, hist>>

Skip(n) ==
    /\ pc = "list" /\ n \in listing /\ disk[n] = NoFile
    /\ listing' = listing \ {n}
    /\ UNCHANGED <<env, stored, nextId, scans, pc, loaded, work, observed, seen, todo,
                   cursor, result, hist>>

\* The stream has ended; the snapshots are visited in the order of their names.
Listed ==
    /\ pc = "list" /\ listing = {}
    /\ todo' = DOMAIN seen /\ pc' = "loop"
    /\ UNCHANGED <<env, stored, nextId, scans, loaded, work, observed, seen, listing,
                   cursor, result, hist>>

Counted(scanned, added, updated, removed) ==
    [scanned |-> result.scanned + scanned, added |-> result.added + added,
     updated |-> result.updated + updated, removed |-> result.removed + removed]

Turn(n) == pc = "loop" /\ n \in todo /\ \A m \in todo : n <= m

\* Variant: the position is not marked.
FoundUnmarked(n, i) ==
    /\ Turn(n) /\ i \in Located(n, seen[n], work)
    /\ todo' = todo \ {n}
    /\ UNCHANGED <<env, stored, nextId, scans, pc, loaded, observed, seen, listing,
                   cursor, hist>>

\* What every way of finding an entry does: mark its position, count the snapshot.
Found(n, i) ==
    /\ Turn(n) /\ i \in Located(n, seen[n], work)
    /\ observed' = [observed EXCEPT ![i] = TRUE]
    /\ hist' = [renamed |-> hist.renamed \/ work[i].name # n,
                stolen  |-> hist.stolen \/ (work[i].name # n /\ observed[i]),
                shifted |-> hist.shifted]
    /\ todo' = todo \ {n}
    /\ UNCHANGED <<env, stored, nextId, scans, pc, loaded, seen, listing, cursor>>

\* A renamed entry takes the new name in place: line 60 does not sort again.
Keep(n, i) ==
    /\ Found(n, i)
    /\ Current(work[i], seen[n])
    /\ work' = [work EXCEPT ![i].name = n]
    /\ result' = Counted(1, 0, 0, 0)

Refresh(n, i, terms) ==
    /\ Found(n, i)
    /\ ~Current(work[i], seen[n])
    /\ work' = [work EXCEPT ![i] = Refreshed(work[i], n, seen[n], terms)]
    /\ result' = Counted(1, 0, 1, 0)

\* DirectoryManifest::add sorts; observed.push_back marks the last position.
Add(n, terms) ==
    /\ Turn(n) /\ Located(n, seen[n], work) = {}
    /\ LET grown == Append(work, NewEntry(nextId, n, seen[n], terms))
       IN  \E files \in Sorted(grown) :
              /\ work' = files
              /\ hist' = [renamed |-> hist.renamed, stolen |-> hist.stolen,
                          shifted |-> hist.shifted \/ files # grown]
    /\ observed' = Append(observed, TRUE)
    /\ nextId' = nextId + 1 /\ todo' = todo \ {n}
    /\ result' = Counted(1, 1, 0, 0)
    /\ UNCHANGED <<env, stored, scans, pc, loaded, seen, listing, cursor>>

\* Variant: the sweep starts one position short.
LoopedOneShort ==
    /\ pc = "loop" /\ todo = {}
    /\ cursor' = IF work = <<>> THEN 0 ELSE Len(work) - 1
    /\ pc' = "sweep"
    /\ UNCHANGED <<env, stored, nextId, scans, loaded, work, observed, seen, listing,
                   todo, result, hist>>

Looped ==
    /\ pc = "loop" /\ todo = {}
    /\ cursor' = Len(work) /\ pc' = "sweep"
    /\ UNCHANGED <<env, stored, nextId, scans, loaded, work, observed, seen, listing,
                   todo, result, hist>>

\* Variant: the bound test on `observed' is off by one.
SweepOffByOne ==
    /\ pc = "sweep" /\ cursor > 0
    /\ cursor' = cursor - 1
    /\ IF cursor >= Len(observed) \/ ~observed[cursor]
       THEN /\ work' = Erase(work, cursor)
            /\ result' = Counted(0, 0, 0, 1)
       ELSE UNCHANGED <<work, result>>
    /\ UNCHANGED <<env, stored, nextId, scans, pc, loaded, observed, seen, listing,
                   todo, hist>>

\* The sweep goes down, so an erasure leaves the positions still to test alone.
Sweep ==
    /\ pc = "sweep" /\ cursor > 0
    /\ cursor' = cursor - 1
    /\ IF cursor > Len(observed) \/ ~observed[cursor]
       THEN /\ work' = Erase(work, cursor)
            /\ result' = Counted(0, 0, 0, 1)
       ELSE UNCHANGED <<work, result>>
    /\ UNCHANGED <<env, stored, nextId, scans, pc, loaded, observed, seen, listing,
                   todo, hist>>

Swept ==
    /\ pc = "sweep" /\ cursor = 0
    /\ pc' = "save"
    /\ UNCHANGED <<env, stored, nextId, scans, local>>

Return ==
    /\ pc' = "idle"
    /\ loaded' = <<>> /\ work' = <<>> /\ observed' = <<>> /\ seen' = <<>>
    /\ listing' = {} /\ todo' = {} /\ cursor' = 0
    /\ result' = NoResult /\ hist' = NoHist
    /\ UNCHANGED <<env, nextId, scans>>

Save ==
    /\ pc = "save"
    /\ stored' = work
    /\ Return

\* Any error return before the new manifest is in place, or the process dying.
Fail ==
    /\ pc # "idle"
    /\ UNCHANGED stored
    /\ Return

Scan ==
    \/ Load \/ Listed \/ Looped \/ Sweep \/ Swept \/ Save
    \/ \E n \in Names : Snapshot(n) \/ Skip(n)
    \/ \E n \in Names, i \in DOMAIN work :
          Keep(n, i) \/ \E terms \in Extractions : Refresh(n, i, terms)
    \/ \E n \in Names, terms \in Extractions : Add(n, terms)

Next == Scan \/ Users \/ Fail

\* A scan is a sequential call that nothing blocks: once it runs it goes on.
Spec == Init /\ [][Next]_vars /\ WF_vars(Scan /\ pc # "idle")

-----------------------------------------------------------------------------
(***************************************************************************)
(* Properties.                                                             *)
(***************************************************************************)
NamesOf(files) == {files[i].name : i \in DOMAIN files}

Distinct(files) ==
    \A i, j \in DOMAIN files :
       files[i].id = files[j].id \/ files[i].name = files[j].name => i = j

\* Two records of a manifest never share a file id, nor a name, at any point of
\* a scan: neither the renaming on line 60, which bypasses ensure_unique, nor the
\* replacement on line 83 can duplicate one, and `add' never throws.
IdentitiesDistinct == Distinct(stored) /\ Distinct(work)

\* User fields travel with the file id through renames, refreshes and erasures of
\* other entries: an entry that kept its id has exactly the fields it was loaded
\* with, and a new id never starts with somebody's fields (lines 28-37, 77-84).
MetadataFollowsIdentity ==
    pc # "idle" =>
        \A j \in DOMAIN work :
            \/ \E i \in DOMAIN loaded : /\ loaded[i].id = work[j].id
                                        /\ loaded[i].custom = work[j].custom
            \/ /\ \A i \in DOMAIN loaded : loaded[i].id # work[j].id
               /\ ~work[j].custom

\* A scan that adds nothing in front of an existing entry, and renames no entry a
\* snapshot had already claimed, saves exactly the files it saw, each with the
\* version it saw.  These are the only two ways the loop can lose a file.
ExactUnlessShiftedOrStolen ==
    pc = "save" /\ ~hist.shifted /\ ~hist.stolen =>
        /\ NamesOf(work) = DOMAIN seen
        /\ \A j \in DOMAIN work : work[j].ver = seen[work[j].name].ver

\* Even when additions shift the positions `observed' refers to, a scan without
\* renames never drops the record of a file that is still there, nor its id.
PresentFilesKept ==
    pc = "save" /\ ~hist.renamed =>
        \A i \in DOMAIN loaded : loaded[i].name \in DOMAIN seen =>
            \E j \in DOMAIN work : /\ work[j].name = loaded[i].name
                                  /\ work[j].id = loaded[i].id
                                  /\ work[j].ver = seen[work[j].name].ver

\* However positions and entries come apart, no scan saves more records than it
\* saw files.
NoMoreRecordsThanFiles == pc = "save" => Len(work) <= Cardinality(DOMAIN seen)

\* A scan of a directory that its manifest already describes changes nothing: no
\* counter but `scanned' moves and the entries are saved as they were.
RescanIsNoOp ==
    /\ pc = "save"
    /\ NamesOf(loaded) = DOMAIN seen
    /\ \A i \in DOMAIN loaded : Current(loaded[i], seen[loaded[i].name])
    => /\ work = loaded
       /\ result = [NoResult EXCEPT !.scanned = Cardinality(DOMAIN seen)]

\* The counters `crumb scan' prints account for the size of the saved manifest
\* and for every snapshot.
CountersBalance ==
    pc = "save" => /\ Len(work) = Len(loaded) + result.added - result.removed
                   /\ result.scanned = Cardinality(DOMAIN seen)
                   /\ result.added + result.updated <= result.scanned

-----------------------------------------------------------------------------
(***************************************************************************)
(* What the repository says of a scan, and the code does not do.           *)
(***************************************************************************)

\* reconcile_directory.cpp:31-32: user metadata `must survive a filesystem
\* reindex'.  Here: the user's fields on a file the scan saw unchanged, under its
\* old name or one the manifest did not have, with no second name or entry that
\* could be taken for it.
UserMetadataSurvives ==
    pc = "save" =>
        \A i \in DOMAIN loaded : \A n \in DOMAIN seen :
            /\ loaded[i].custom
            /\ n = loaded[i].name \/ n \notin NamesOf(loaded)
            /\ {m \in DOMAIN seen : \/ seen[m].ino = loaded[i].ino
                                   \/ seen[m].ver = loaded[i].ver
                                   \/ m = loaded[i].name} = {n}
            /\ SameInode(seen[n], loaded) = {i} /\ SameContent(seen[n], loaded) = {i}
            => \E j \in DOMAIN work : work[j].id = loaded[i].id /\ work[j].custom

\* README.md:96: user metadata stored in the manifest `is preserved during
\* reindexing', also what the user stores while the reindexing runs.
EditsDuringScanKept ==
    [][\A i \in DOMAIN stored, j \in DOMAIN stored' :
          stored[i].id = stored'[j].id /\ stored[i].custom => stored'[j].custom]_vars

=============================================================================
