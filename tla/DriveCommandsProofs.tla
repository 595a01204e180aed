------------------------- MODULE DriveCommandsProofs -------------------------
(***************************************************************************)
(* Where the commands of DriveCommands write, and what their manifests and *)
(* indexes hold, and what the parser makes of a command line, proved for   *)
(* all trees, command lines and configurations.                            *)
(***************************************************************************)
EXTENDS DriveCommands, FiniteSetTheorems, WellFoundedInduction, TLAPS

\* A command that goes through directories is one that may write.
WritersOnly ==
    pc \in {"list", "open", "save", "rebuild", "gather", "publish"} => command.name \in {"scan", "index"}

IInv == RootsAgree /\ WritersOnly

\* Only `index' and `search' are routed to the plugin.
LEMMA DriveIsIndexOrSearch ==
    ASSUME Routed.source = "drive"
    PROVE  Routed.name \in {"index", "search"}
<1> DEFINE aliases == LoadConfig(config).aliases
           name == IF arguments = <<>> THEN "scan" ELSE Head(arguments)
           directory == ResolveDirectory(aliases, IF Len(arguments) > 1 THEN arguments[2] ELSE ".")
           index == RouteIndex(arguments)
           search == RouteSearch(aliases, arguments)
           size == Command("index_size", "native", directory, Absent)
           scan == Command("scan", "native", directory, Absent)
<1>1. Routed \in {index, search, size, scan, Refused}
  BY DEF Routed, Route
<1>2. index.source = "drive" => index.name = "index"
  BY DEF RouteIndex, Command, Refused
<1>3. search.source = "drive" => search.name = "search"
  BY DEF RouteSearch, Command, Refused
<1>4. size.source = "native" /\ scan.source = "native" /\ Refused.source = "native"
  BY DEF Command, Refused
<1> QED BY <1>1, <1>2, <1>3, <1>4

LEMMA InitIInv == Init => IInv
BY DEF Init, IInv, RootsAgree, WritersOnly

\* The steps between the beginning of a command and its end.
LEMMA WorkIInv ==
    ASSUME IInv, UNCHANGED <<typed, plugin>>, pc \notin {"shell", "route"},
           pc' \in {"list", "open", "save", "rebuild", "gather", "publish"} =>
               pc \in {"list", "open", "save", "rebuild", "gather", "publish"}
    PROVE  IInv'
BY DEF IInv, RootsAgree, WritersOnly, typed, plugin, Root

LEMMA StopIInv == ASSUME pc' \in {"shell", "route"} PROVE IInv'
BY DEF IInv, RootsAgree, WritersOnly

LEMMA SameIInv == ASSUME IInv, UNCHANGED <<pc, typed, plugin>> PROVE IInv'
BY DEF IInv, RootsAgree, WritersOnly, typed, plugin, Root

LEMMA BeginIInv ==
    ASSUME BeginDrive \/ BeginNative
    PROVE  IInv'
<1>1. CASE BeginDrive
  <2>1. PICK path : Begin(path, IF Routed.name = "search" THEN "query" ELSE "list")
                      /\ sourceRoot' = path /\ cacheRoot' = path
    BY <1>1 DEF BeginDrive
  <2>2. command'.path = path /\ command'.name = Routed.name
    BY <2>1 DEF Begin, Command
  <2>3. RootsAgree'
    BY <2>1, <2>2 DEF RootsAgree, Root
  <2>4. Routed.name \in {"index", "search"}
    BY <1>1, DriveIsIndexOrSearch DEF BeginDrive
  <2>5. WritersOnly'
    BY <2>1, <2>2, <2>4 DEF WritersOnly, Begin
  <2> QED BY <2>3, <2>5 DEF IInv
<1>2. CASE BeginNative
  <2>1. command'.source = "native" /\ command'.name = Routed.name
    BY <1>2 DEF BeginNative, Begin, Command
  <2>2. pc' = CASE Routed.name = "search" -> "query" [] Routed.name = "scan" -> "list" [] OTHER -> "size"
    BY <1>2 DEF BeginNative, Begin
  <2>3. RootsAgree'
    BY <2>1 DEF RootsAgree
  <2>4. WritersOnly'
    BY <2>1, <2>2 DEF WritersOnly
  <2> QED BY <2>3, <2>4 DEF IInv
<1> QED BY <1>1, <1>2

LEMMA NextIInv == IInv /\ [Next]_vars => IInv'
<1> SUFFICES ASSUME IInv, [Next]_vars PROVE IInv'
  OBVIOUS
<1>1. ASSUME NEW f \in Files, Change(f) PROVE IInv'
  BY <1>1, SameIInv DEF Change, Changed, typed
<1>2. ASSUME NEW mount, MountOrUnmount(mount) PROVE IInv'
  BY <1>2, SameIInv DEF MountOrUnmount, Changed, typed
<1>3. ASSUME NEW extracts \in BOOLEAN, Start(extracts) PROVE IInv'
  BY <1>3, StopIInv DEF Start
<1>4. CASE Kill \/ BadConfig \/ Usage \/ EmptyPath \/ DriveFails \/ IndexSize \/ Fail \/ SaveIndex
             \/ EmptyQuery \/ SearchIndex \/ SearchManifests
  <2>1. pc' = "shell"
    BY <1>4 DEF Kill, BadConfig, Usage, EmptyPath, DriveFails, IndexSize, Fail, SaveIndex, EmptyQuery,
                SearchIndex, SearchManifests, Answer, Stop, End
  <2> QED BY <2>1, StopIInv
<1>5. CASE BeginDrive \/ BeginNative
  BY <1>5, BeginIInv
<1>6. CASE List \/ Open \/ SaveManifest \/ Rebuild \/ Gather \/ MissIndex
  <2>1. UNCHANGED <<typed, plugin>>
    BY <1>6 DEF List, Open, SaveManifest, Rebuild, Gather, MissIndex
  <2>2. /\ pc \in {"list", "open", "save", "rebuild", "gather", "query"}
        /\ pc = "query" => pc' = "fallback"
    BY <1>6 DEF List, Open, SaveManifest, Rebuild, Gather, MissIndex, Working
  <2> QED BY <2>1, <2>2, WorkIInv
<1>7. ASSUME NEW f \in Files, Keep(f) \/ Extract(f) PROVE IInv'
  BY <1>7, SameIInv DEF Keep, Extract
<1>8. CASE UNCHANGED vars
  BY <1>8, SameIInv DEF vars, typed, plugin
<1> QED BY <1>1, <1>2, <1>3, <1>4, <1>5, <1>6, <1>7, <1>8 DEF Next, Users, Process

\* A function that is overridden at one place differs from the old one at most there.
LEMMA RewrittenOnce ==
    ASSUME NEW old, NEW place, NEW value
    PROVE  Rewritten(old, Put(old, place, value)) \subseteq {place}
BY DEF Rewritten, Put

LEMMA NotRewritten ==
    ASSUME UNCHANGED storage
    PROVE  Places = {}
BY DEF storage, Places, Rewritten

LEMMA ManifestOwner ==
    ASSUME NEW rel, RootsAgree, pc = "save"
    PROVE  ManifestPlace(rel).owner = IF command.source = "drive" THEN <<Cached, Root>>
                                      ELSE <<"directory">>
<1>1. CASE command.source = "drive"
  <2>1. ManifestPlace(rel).owner = <<Cached, sourceRoot>>
    BY <1>1 DEF ManifestPlace, CachePath
  <2> QED BY <1>1, <2>1 DEF RootsAgree
<1>2. CASE command.source # "drive"
  BY <1>2 DEF ManifestPlace, InPlace
<1> QED BY <1>1, <1>2

LEMMA IndexOwner ==
    ASSUME RootsAgree, pc = "publish"
    PROVE  IndexPlace.owner = IF command.source = "drive" THEN <<Cached, Root>>
                              ELSE <<"directory">>
<1>1. CASE command.source = "drive"
  <2>1. IndexPlace.owner = <<Cached, cacheRoot>>
    BY <1>1 DEF IndexPlace
  <2> QED BY <1>1, <2>1 DEF RootsAgree
<1>2. CASE command.source # "drive"
  BY <1>2 DEF IndexPlace, InPlace
<1> QED BY <1>1, <1>2

WritesApart ==
    /\ Places # {} => command.name \in {"scan", "index"}
    /\ Places \subseteq OwnPlaces

LEMMA SaveManifestApart ==
    ASSUME IInv, SaveManifest
    PROVE  WritesApart
<1> DEFINE place == ManifestPlace(Current)
<1>1. \E value : manifests' = Put(manifests, place, value)
  BY DEF SaveManifest
<1>2. Rewritten(manifests, manifests') \subseteq {place}
  BY <1>1, RewrittenOnce
<1>3. Rewritten(indexes, indexes') = {}
  BY DEF SaveManifest, Rewritten
<1>4. Places \subseteq {place}
  BY <1>2, <1>3 DEF Places
<1>5. pc = "save" /\ command.name \in {"scan", "index"}
  BY DEF SaveManifest, IInv, WritersOnly
<1>6. place.owner = IF command.source = "drive" THEN <<Cached, Root>> ELSE <<"directory">>
  BY <1>5, ManifestOwner DEF IInv
<1> HIDE DEF place
<1> QED BY <1>4, <1>5, <1>6 DEF WritesApart, OwnPlaces

LEMMA SaveIndexApart ==
    ASSUME IInv, SaveIndex
    PROVE  WritesApart
<1> DEFINE place == IndexPlace
<1>1. indexes' = Put(indexes, place, documents)
  BY DEF SaveIndex
<1>2. Rewritten(indexes, indexes') \subseteq {place}
  BY <1>1, RewrittenOnce
<1>3. Rewritten(manifests, manifests') = {}
  BY DEF SaveIndex, Rewritten
<1>4. Places \subseteq {place}
  BY <1>2, <1>3 DEF Places
<1>5. pc = "publish" /\ command.name \in {"scan", "index"}
  BY DEF SaveIndex, IInv, WritersOnly
<1>6. place.owner = IF command.source = "drive" THEN <<Cached, Root>> ELSE <<"directory">>
  BY <1>5, IndexOwner DEF IInv
<1> HIDE DEF place
<1> QED BY <1>4, <1>5, <1>6 DEF WritesApart, OwnPlaces

LEMMA NextApart == IInv /\ [Next]_vars => WritesApart
<1> SUFFICES ASSUME IInv, [Next]_vars PROVE WritesApart
  OBVIOUS
<1>1. CASE SaveManifest
  BY <1>1, SaveManifestApart
<1>2. CASE SaveIndex
  BY <1>2, SaveIndexApart
<1>3. CASE UNCHANGED storage
  BY <1>3, NotRewritten DEF WritesApart
<1>4. ASSUME NEW f \in Files, Change(f) PROVE UNCHANGED storage
  BY <1>4 DEF Change, Changed
<1>5. ASSUME NEW mount, MountOrUnmount(mount) PROVE UNCHANGED storage
  BY <1>5 DEF MountOrUnmount, Changed
<1>6. ASSUME NEW extracts \in BOOLEAN, Start(extracts) PROVE UNCHANGED storage
  BY <1>6 DEF Start
<1>7. CASE Kill \/ BadConfig \/ Usage \/ EmptyPath \/ DriveFails \/ IndexSize \/ Fail
             \/ EmptyQuery \/ SearchIndex \/ SearchManifests
  <2>1. UNCHANGED storage
    BY <1>7 DEF Kill, BadConfig, Usage, EmptyPath, DriveFails, IndexSize, Fail, EmptyQuery,
                SearchIndex, SearchManifests, Answer, Stop
  <2> QED BY <2>1, <1>3
<1>8. CASE BeginDrive \/ BeginNative
  <2>1. UNCHANGED storage
    BY <1>8 DEF BeginDrive, BeginNative, Begin
  <2> QED BY <2>1, <1>3
<1>9. CASE List \/ Open \/ Rebuild \/ Gather \/ MissIndex
  <2>1. UNCHANGED storage
    BY <1>9 DEF List, Open, Rebuild, Gather, MissIndex
  <2> QED BY <2>1, <1>3
<1>10. ASSUME NEW f \in Files, Keep(f) \/ Extract(f) PROVE UNCHANGED storage
  BY <1>10 DEF Keep, Extract
<1>11. CASE UNCHANGED vars
  BY <1>11, <1>3 DEF vars, storage
<1> QED BY <1>1, <1>2, <1>3, <1>4, <1>5, <1>6, <1>7, <1>8, <1>9, <1>10, <1>11 DEF Next, Users, Process

\* Both repositories of the plugin are set to the root of the command before either is
\* used (GoogleDrivePlugin::index and search), for every tree and every command line.
THEOREM RootsAreSet == Spec => []RootsAgree
<1>1. Init => IInv
  BY InitIInv
<1>2. IInv /\ [Next]_vars => IInv'
  BY NextIInv
<1>3. IInv => RootsAgree
  BY DEF IInv
<1> QED BY <1>1, <1>2, <1>3, PTL DEF Spec

LEMMA IInvAlways == Spec => []IInv
<1>1. Init => IInv
  BY InitIInv
<1>2. IInv /\ [Next]_vars => IInv'
  BY NextIInv
<1> QED BY <1>1, <1>2, PTL DEF Spec

\* Searching, sizing and refused commands write nothing, a Drive command writes to the
\* cache of its root only and a native scan to its directories only, for every tree and
\* every command line, even if they die half-way.
THEOREM MountsStayUntouched == Spec => StorageApart
<1>1. IInv /\ [Next]_vars =>
        [/\ Places # {} => command.name \in {"scan", "index"}
         /\ Places \subseteq OwnPlaces]_vars
  BY NextApart DEF WritesApart
<1> QED BY <1>1, IInvAlways, PTL DEF Spec, StorageApart

(***************************************************************************)
(* What the manifests and the index hold while a command runs.             *)
(***************************************************************************)

\* The directories a command on a root visits, where its index lies, and its files.
IgnoredFor(source) ==
    IF source = "native" THEN IgnoredNatively
    ELSE IgnoredNatively \cup {".Trash", ".tmp", ".shortcut-targets-by-id"}

DirectoriesBelow(source, dir) ==
    {rel \in {SubSeq(d, Len(dir) + 1, Len(d)) : d \in Tree} :
        dir \o rel \in Tree /\ Range(rel) \cap IgnoredFor(source) = {}}

IndexOf(source, root) ==
    IF source = "drive" THEN [owner |-> <<Cached, root>>, path |-> Nothing]
    ELSE [owner |-> <<"directory">>, path |-> Spelled[root] \o Nothing]

Shown(d) == [dir |-> d.dir, name |-> d.name, version |-> d.version]

ShownIn(dir) == {[dir |-> f.dir, name |-> f.name, version |-> files[f]] : f \in FilesIn(dir)}

FilesBelow(source, dir) == UNION {ShownIn(dir \o rel) : rel \in DirectoriesBelow(source, dir)}

\* The phases of a command that goes through directories, after it has listed them.
Going == {"open", "save", "rebuild", "gather", "publish"}

\* The directories whose manifests this command has saved.
Done == IF pc \in {"open", "save"} THEN ListDirectories \ dirs ELSE ListDirectories

Stored(rel) == manifests[ManifestPlace(rel)]
HasStored(rel) == ManifestPlace(rel) \in DOMAIN manifests

WorkInv ==
    /\ command.source \in {"native", "drive"}
    /\ pc \in Going => dirs \subseteq ListDirectories
    /\ pc \notin Going => dirs = {}
    /\ pc = "save" => dirs # {}
    /\ pc \in {"rebuild", "publish"} => dirs = {}
    /\ pc \notin {"gather", "publish"} => documents = {}
    /\ failed \subseteq Files

Asked(dir, name) == \E f \in failed : f.dir = dir /\ f.name = name

\* The directories done hold no entry whose text was not asked for, and the entries
\* gone over in the current one are no worse than the stored ones.
AskedInv ==
    /\ pc \in Going =>
        \A rel \in Done : HasStored(rel) =>
            \A name \in DOMAIN Stored(rel) :
                Stored(rel)[name].terms = NoTerms => Asked(Physical(rel), name)
    /\ pc = "save" =>
        \A name \in DOMAIN entries :
            entries[name].seen /\ entries[name].terms = NoTerms => Asked(Physical(Current), name)

\* What was not gone over is as it is stored.
EntriesInv ==
    pc = "save" =>
        /\ \A f \in DOMAIN snapshots :
              /\ f.dir = Physical(Current)
              /\ f.name \in DOMAIN entries => ~entries[f.name].seen
        /\ HasStored(Current) =>
              \A name \in DOMAIN Stored(Current) :
                  /\ name \in DOMAIN entries
                  /\ ~entries[name].seen => entries[name] = Stored(Current)[name]
                  /\ Stored(Current)[name].version = entries[name].version
                     /\ Stored(Current)[name].terms # NoTerms => entries[name].terms # NoTerms

\* A saved manifest lists the files of its directory.
Exact(rel) ==
    /\ HasStored(rel)
    /\ DOMAIN Stored(rel) = {f.name : f \in FilesIn(Physical(rel))}
    /\ \A f \in FilesIn(Physical(rel)) : Stored(rel)[f.name].version = files[f]

\* The entries gone over are those of the files whose snapshots are gone.
HalfExact ==
    /\ DOMAIN snapshots \subseteq FilesIn(Physical(Current))
    /\ \A f \in DOMAIN snapshots : snapshots[f] = files[f]
    /\ \A f \in FilesIn(Physical(Current)) \ DOMAIN snapshots :
          f.name \in DOMAIN entries /\ entries[f.name].seen /\ entries[f.name].version = files[f]
    /\ \A name \in DOMAIN entries :
          entries[name].seen => \E f \in FilesIn(Physical(Current)) \ DOMAIN snapshots : f.name = name

\* As long as nothing changes, the manifests done and the documents gathered are right.
QuietInv ==
    /\ pc \in Going /\ quiet =>
        /\ IsDirectory(Root)
        /\ \A rel \in Done : Exact(rel)
        /\ pc = "save" => HalfExact
        /\ pc \in {"gather", "publish"} =>
              {Shown(d) : d \in documents} = UNION {ShownIn(Physical(rel)) : rel \in ListDirectories \ dirs}
    /\ pc \in Going /\ ~quiet => recorded = {}
    /\ pc \notin Going => ~quiet

\* The index of a root that is recorded shows its files.
RecordedInv ==
    /\ \A key \in recorded :
          /\ key = <<key[1], key[2]>> /\ key[1] \in {"native", "drive"} /\ IsDirectory(key[2])
          /\ IndexOf(key[1], key[2]) \in DOMAIN indexes
          /\ {Shown(d) : d \in indexes[IndexOf(key[1], key[2])]} = FilesBelow(key[1], Spelled[key[2]])
    /\ pc = "fallback" => Key \notin recorded

DataInv == TypeOK /\ WorkInv /\ AskedInv /\ EntriesInv

ViewInv == QuietInv /\ RecordedInv

\* The directories of a command and the places of their manifests follow from its
\* command line and from the root of the plugin.
LEMMA SameSpot ==
    ASSUME UNCHANGED <<command, plugin>>
    PROVE  /\ ListDirectories' = ListDirectories
           /\ \A rel : Physical(rel)' = Physical(rel)
           /\ \A rel : ManifestPlace(rel)' = ManifestPlace(rel)
<1>1. UNCHANGED <<command, sourceRoot>>
  BY DEF plugin
<1>2. \A rel : Physical(rel)' = Physical(rel)
  BY <1>1 DEF Physical, Root
<1>3. ListDirectories' = ListDirectories
  BY <1>1 DEF ListDirectories, Physical, Root, Ignored
<1>4. \A rel : ManifestPlace(rel)' = ManifestPlace(rel)
  BY <1>1 DEF ManifestPlace, CachePath, InPlace, Physical, Root
<1> QED BY <1>2, <1>3, <1>4

LEMMA SameCurrent == ASSUME UNCHANGED dirs PROVE Current' = Current
BY DEF Current

LEMMA CurrentIsOne == dirs # {} => Current \in dirs
BY DEF Current

\* What a directory's manifest may hold, whether it is there and can be reached or not.
LEMMA LoadIsStored ==
    ASSUME NEW rel, TypeOK
    PROVE  /\ \A name \in DOMAIN Load(rel) :
                 /\ HasStored(rel) /\ name \in DOMAIN Stored(rel) /\ Load(rel)[name] = Stored(rel)[name]
                 /\ Load(rel)[name] \in Entry /\ ~Load(rel)[name].seen
           /\ Reachable /\ HasStored(rel) => Load(rel) = Stored(rel)
<1>1. DOMAIN Nothing = {}
  BY DEF Nothing
<1>2. CASE Reachable /\ HasStored(rel)
  <2>1. Load(rel) = Stored(rel)
    BY <1>2 DEF Load, HasStored, Stored
  <2> QED BY <1>2, <2>1 DEF TypeOK, HasStored, Stored
<1>3. CASE ~(Reachable /\ HasStored(rel))
  <2>1. Load(rel) = Nothing
    BY <1>3 DEF Load, HasStored
  <2> QED BY <1>1, <1>3, <2>1
<1> QED BY <1>2, <1>3

\* The documents made of what is stored for a directory of the root are documents.
LEMMA DocumentsAre ==
    ASSUME NEW rel \in ListDirectories, TypeOK
    PROVE  \A d \in Documents(rel, Load(rel)) : IsDocument(d)
<1> SUFFICES ASSUME NEW name \in DOMAIN Load(rel)
             PROVE  IsDocument(Document(rel, name, Load(rel)[name]))
  BY DEF Documents
<1>1. Load(rel)[name] \in Entry
  BY LoadIsStored
<1>2. Physical(rel) \in Tree
  BY DEF ListDirectories
<1> QED BY <1>1, <1>2 DEF Document, IsDocument, Entry

\* A command is native or for the Drive.
LEMMA TwoSources == Routed.source \in {"native", "drive"}
<1> DEFINE aliases == LoadConfig(config).aliases
           directory == ResolveDirectory(aliases, IF Len(arguments) > 1 THEN arguments[2] ELSE ".")
           index == RouteIndex(arguments)
           search == RouteSearch(aliases, arguments)
           size == Command("index_size", "native", directory, Absent)
           scan == Command("scan", "native", directory, Absent)
<1>1. Routed \in {index, search, size, scan, Refused}
  BY DEF Routed, Route
<1>2. index.source \in {"native", "drive"}
  BY DEF RouteIndex, Command, Refused
<1>3. search.source \in {"native", "drive"}
  BY DEF RouteSearch, Command, Refused
<1>4. size.source = "native" /\ scan.source = "native" /\ Refused.source = "native"
  BY DEF Command, Refused
<1> QED BY <1>1, <1>2, <1>3, <1>4

LEMMA InitData == Init => DataInv
<1> SUFFICES ASSUME Init PROVE DataInv
  OBVIOUS
<1>1. /\ pc = "shell" /\ dirs = {} /\ documents = {} /\ failed = {} /\ entries = <<>> /\ snapshots = <<>>
      /\ manifests = <<>> /\ indexes = <<>> /\ command.source = "native" /\ changes = 0
      /\ files \in [Files -> {1}] /\ mounts \subseteq Tree
  BY DEF Init, Refused, Nothing
<1>2. DOMAIN snapshots = {} /\ DOMAIN entries = {} /\ DOMAIN manifests = {} /\ DOMAIN indexes = {}
  BY <1>1
<1>3. files \in [Files -> 0 .. MaxChanges + 1] /\ changes \in 0 .. MaxChanges
  BY <1>1, BoundsAssumption
<1>4. TypeOK
  BY <1>1, <1>2, <1>3 DEF TypeOK
<1> QED BY <1>1, <1>4 DEF DataInv, WorkInv, AskedInv, EntriesInv, Going

\* Every step keeps the types.
LEMMA SameTypes ==
    ASSUME TypeOK, UNCHANGED <<files, mounts, manifests, indexes, snapshots, documents, entries, changes>>
    PROVE  TypeOK'
BY DEF TypeOK

LEMMA EndTypes ==
    ASSUME TypeOK, End, UNCHANGED manifests,
           \A p \in DOMAIN indexes' : \A d \in indexes'[p] : IsDocument(d)
    PROVE  TypeOK'
<1>1. /\ snapshots' = <<>> /\ entries' = <<>> /\ documents' = {}
      /\ UNCHANGED <<files, mounts, changes, manifests>>
  BY DEF End, Nothing, world
<1>2. DOMAIN snapshots' = {} /\ DOMAIN entries' = {}
  BY <1>1
<1> QED BY <1>1, <1>2 DEF TypeOK

LEMMA ChangedTypes ==
    ASSUME TypeOK, Changed, mounts' \subseteq Tree, files' \in [Files -> 0 .. MaxChanges + 1]
    PROVE  TypeOK'
<1>1. /\ UNCHANGED <<manifests, indexes, snapshots, documents, entries>>
      /\ changes < MaxChanges /\ changes' = changes + 1
  BY DEF Changed, storage
<1>2. changes' \in 0 .. MaxChanges
  BY <1>1, BoundsAssumption DEF TypeOK
<1> QED BY <1>1, <1>2 DEF TypeOK

LEMMA ExtractTypes ==
    ASSUME TypeOK, NEW f \in Files, Extract(f)
    PROVE  TypeOK'
<1>1. /\ f \in DOMAIN snapshots /\ snapshots[f] \in Nat \ {0}
      /\ snapshots' = Restrict(snapshots, DOMAIN snapshots \ {f})
      /\ UNCHANGED <<files, mounts, manifests, indexes, documents, changes>>
  BY DEF Extract, world, storage, TypeOK
<1>2. PICK terms \in {NoTerms} \cup (IF MayExtract(f) THEN {"terms"} ELSE {}) :
         entries' = Put(entries, f.name, [version |-> snapshots[f], terms |-> terms, seen |-> TRUE])
  BY DEF Extract
<1>3. [version |-> snapshots[f], terms |-> terms, seen |-> TRUE] \in Entry
  BY <1>1, <1>2 DEF Entry
<1>4. \A n \in DOMAIN entries' : entries'[n] \in Entry
  <2> DEFINE new == [version |-> snapshots[f], terms |-> terms, seen |-> TRUE]
  <2>1. new \in Entry /\ entries' = Put(entries, f.name, new)
    BY <1>2, <1>3
  <2> HIDE DEF new
  <2>2. /\ DOMAIN entries' = DOMAIN entries \cup {f.name} /\ entries'[f.name] = new
        /\ \A n \in DOMAIN entries : n # f.name => entries'[n] = entries[n]
    BY <2>1 DEF Put
  <2> QED BY <2>1, <2>2 DEF TypeOK
<1>5. /\ DOMAIN snapshots' = DOMAIN snapshots \ {f}
      /\ \A g \in DOMAIN snapshots' : snapshots'[g] = snapshots[g]
  BY <1>1 DEF Restrict
<1> QED BY <1>1, <1>4, <1>5 DEF TypeOK

LEMMA KeepTypes ==
    ASSUME TypeOK, NEW f \in Files, Keep(f)
    PROVE  TypeOK'
<1>1. /\ f \in DOMAIN snapshots /\ f.name \in DOMAIN entries /\ entries[f.name] \in Entry
      /\ snapshots' = Restrict(snapshots, DOMAIN snapshots \ {f})
      /\ entries' = [entries EXCEPT ![f.name].seen = TRUE]
      /\ UNCHANGED <<files, mounts, manifests, indexes, documents, changes>>
  BY DEF Keep, Keeps, world, storage, TypeOK
<1>2. [entries[f.name] EXCEPT !.seen = TRUE] \in Entry
  BY <1>1 DEF Entry
<1>3. /\ DOMAIN entries' = DOMAIN entries
      /\ entries'[f.name] = [entries[f.name] EXCEPT !.seen = TRUE]
      /\ \A n \in DOMAIN entries : n # f.name => entries'[n] = entries[n]
  BY <1>1
<1>4. \A n \in DOMAIN entries' : entries'[n] \in Entry
  BY <1>2, <1>3 DEF TypeOK
<1>5. /\ DOMAIN snapshots' = DOMAIN snapshots \ {f}
      /\ \A g \in DOMAIN snapshots' : snapshots'[g] = snapshots[g]
  BY <1>1 DEF Restrict
<1> QED BY <1>1, <1>4, <1>5 DEF TypeOK

\* What is saved of the current directory: the entries seen.
LEMMA SavedShape ==
    ASSUME TypeOK, SaveManifest
    PROVE  /\ DOMAIN manifests' = DOMAIN manifests \cup {ManifestPlace(Current)}
           /\ \A p \in DOMAIN manifests : p # ManifestPlace(Current) => manifests'[p] = manifests[p]
           /\ DOMAIN manifests'[ManifestPlace(Current)] = {n \in DOMAIN entries : entries[n].seen}
           /\ \A n \in DOMAIN entries : entries[n].seen =>
                 /\ manifests'[ManifestPlace(Current)][n] \in Entry
                 /\ ~manifests'[ManifestPlace(Current)][n].seen
                 /\ manifests'[ManifestPlace(Current)][n].version = entries[n].version
                 /\ manifests'[ManifestPlace(Current)][n].terms = entries[n].terms
<1> DEFINE place == ManifestPlace(Current)
           value == [n \in {m \in DOMAIN entries : entries[m].seen} |-> [entries[n] EXCEPT !.seen = FALSE]]
<1>1. manifests' = Put(manifests, place, value)
  BY DEF SaveManifest
<1>2. \A n \in DOMAIN entries :
         LET e == [entries[n] EXCEPT !.seen = FALSE]
         IN  e \in Entry /\ ~e.seen /\ e.version = entries[n].version /\ e.terms = entries[n].terms
  <2> SUFFICES ASSUME NEW n \in DOMAIN entries
               PROVE  LET e == [entries[n] EXCEPT !.seen = FALSE]
                      IN  e \in Entry /\ ~e.seen /\ e.version = entries[n].version
                          /\ e.terms = entries[n].terms
    OBVIOUS
  <2>1. entries[n] \in Entry
    BY DEF TypeOK
  <2> QED BY <2>1 DEF Entry
<1>3. /\ DOMAIN value = {m \in DOMAIN entries : entries[m].seen}
      /\ \A n \in DOMAIN value : value[n] = [entries[n] EXCEPT !.seen = FALSE]
  OBVIOUS
<1> HIDE DEF place, value
<1>4. /\ DOMAIN manifests' = DOMAIN manifests \cup {place} /\ manifests'[place] = value
      /\ \A p \in DOMAIN manifests : p # place => manifests'[p] = manifests[p]
  BY <1>1 DEF Put
<1>5. \A n \in DOMAIN entries : entries[n].seen =>
         /\ value[n] \in Entry /\ ~value[n].seen
         /\ value[n].version = entries[n].version /\ value[n].terms = entries[n].terms
  BY <1>2, <1>3
<1> QED BY <1>3, <1>4, <1>5 DEF place

LEMMA SaveManifestTypes == ASSUME TypeOK, SaveManifest PROVE TypeOK'
<1> DEFINE place == ManifestPlace(Current)
<1>1. /\ entries' = <<>> /\ UNCHANGED <<files, mounts, indexes, snapshots, documents, changes>>
  BY DEF SaveManifest, Nothing, world
<1>2. DOMAIN entries' = {}
  BY <1>1
<1>3. \A p \in DOMAIN manifests' : \A n \in DOMAIN manifests'[p] :
         manifests'[p][n] \in Entry /\ ~manifests'[p][n].seen
  <2>1. /\ DOMAIN manifests' = DOMAIN manifests \cup {place}
        /\ \A p \in DOMAIN manifests : p # place => manifests'[p] = manifests[p]
        /\ DOMAIN manifests'[place] = {n \in DOMAIN entries : entries[n].seen}
        /\ \A n \in DOMAIN entries : entries[n].seen =>
              manifests'[place][n] \in Entry /\ ~manifests'[place][n].seen
    BY SavedShape
  <2> HIDE DEF place
  <2> QED BY <2>1 DEF TypeOK
<1> QED BY <1>1, <1>2, <1>3 DEF TypeOK

LEMMA OpenTypes == ASSUME TypeOK, Open PROVE TypeOK'
<1>1. /\ entries' = Load(Current) /\ snapshots' = [f \in FilesIn(Physical(Current)) |-> files[f]]
      /\ UNCHANGED <<files, mounts, manifests, indexes, documents, changes>>
  BY DEF Open, world, storage
<1>2. \A n \in DOMAIN entries' : entries'[n] \in Entry
  BY <1>1, LoadIsStored
<1>3. \A f \in FilesIn(Physical(Current)) : f \in Files /\ files[f] \in Nat \ {0}
  <2> SUFFICES ASSUME NEW f \in FilesIn(Physical(Current)) PROVE f \in Files /\ files[f] \in Nat \ {0}
    OBVIOUS
  <2>1. f \in Files /\ files[f] # 0
    BY DEF FilesIn
  <2>2. files[f] \in 0 .. MaxChanges + 1
    BY <2>1 DEF TypeOK
  <2> QED BY <2>1, <2>2, BoundsAssumption
<1>4. DOMAIN snapshots' \subseteq Files /\ \A f \in DOMAIN snapshots' : snapshots'[f] \in Nat \ {0}
  BY <1>1, <1>3
<1> QED BY <1>1, <1>2, <1>4 DEF TypeOK

\* A command that ends without saving an index leaves the files as they are.
LEMMA EndingSteps ==
    ASSUME Kill \/ BadConfig \/ Usage \/ EmptyPath \/ DriveFails \/ IndexSize \/ Fail
             \/ EmptyQuery \/ SearchIndex \/ SearchManifests
    PROVE  End /\ UNCHANGED <<storage, recorded>>
<1>1. Stop => End /\ UNCHANGED <<storage, recorded>>
  BY DEF Stop
<1>2. ASSUME NEW docs, Answer(docs) PROVE End /\ UNCHANGED <<storage, recorded>>
  BY <1>2 DEF Answer
<1>3. Kill \/ BadConfig \/ Usage \/ DriveFails \/ IndexSize \/ Fail \/ EmptyQuery => Stop
  BY DEF Kill, BadConfig, Usage, DriveFails, IndexSize, Fail, EmptyQuery
<1>4. EmptyPath => Stop
  BY Zenon DEF EmptyPath
<1>5. SearchIndex => \E docs : Answer(docs)
  BY DEF SearchIndex
<1>6. SearchManifests => \E docs : Answer(docs)
  BY Zenon DEF SearchManifests
<1> QED BY <1>1, <1>2, <1>3, <1>4, <1>5, <1>6

\* A command that begins keeps everything but what it was told.
LEMMA BeginSteps ==
    ASSUME BeginDrive \/ BeginNative
    PROVE  /\ pc = "route" /\ pc' \in {"query", "list", "size"}
           /\ command'.source \in {"native", "drive"}
           /\ UNCHANGED <<world, storage, work, config, content, answer, commands, recorded>>
<1>1. ASSUME NEW path, NEW at \in {"query", "list", "size"}, Begin(path, at)
      PROVE  /\ pc' \in {"query", "list", "size"}
             /\ command'.source \in {"native", "drive"}
             /\ UNCHANGED <<world, storage, work, config, content, answer, commands, recorded>>
  BY <1>1, TwoSources DEF Begin, Command
<1>2. CASE BeginDrive
  <2>1. PICK path : Begin(path, IF Routed.name = "search" THEN "query" ELSE "list")
    BY <1>2 DEF BeginDrive
  <2>2. (IF Routed.name = "search" THEN "query" ELSE "list") \in {"query", "list", "size"}
    OBVIOUS
  <2>3. pc = "route"
    BY <1>2 DEF BeginDrive, Routing
  <2> QED BY <1>1, <2>1, <2>2, <2>3
<1>3. CASE BeginNative
  <2> DEFINE at == CASE Routed.name = "search" -> "query" [] Routed.name = "scan" -> "list" [] OTHER -> "size"
  <2>1. Routing /\ Begin(Routed.path, at)
    BY <1>3, Zenon DEF BeginNative
  <2>2. at \in {"query", "list", "size"}
    OBVIOUS
  <2>3. pc = "route"
    BY <2>1 DEF Routing
  <2> HIDE DEF at
  <2> QED BY <1>1, <2>1, <2>2, <2>3
<1> QED BY <1>2, <1>3

LEMMA NextTypes == DataInv /\ [Next]_vars => TypeOK'
<1> SUFFICES ASSUME DataInv, [Next]_vars PROVE TypeOK'
  OBVIOUS
<1>0. TypeOK
  BY DEF DataInv
<1>1. ASSUME NEW f \in Files, Change(f) PROVE TypeOK'
  <2>1. PICK version \in {0, changes + 2} : files' = [files EXCEPT ![f] = version]
    BY <1>1 DEF Change
  <2>2. version \in 0 .. MaxChanges + 1
    <3>1. changes < MaxChanges /\ changes \in Nat
      BY <1>0, <1>1 DEF Change, Changed, TypeOK
    <3> QED BY <2>1, <3>1, BoundsAssumption
  <2>3. files' \in [Files -> 0 .. MaxChanges + 1]
    BY <1>0, <2>1, <2>2 DEF TypeOK
  <2>4. mounts' \subseteq Tree
    BY <1>0, <1>1 DEF Change, TypeOK
  <2> QED BY <1>0, <1>1, <2>3, <2>4, ChangedTypes DEF Change
<1>2. ASSUME NEW mount \in {d \in Tree : Len(d) = 1}, MountOrUnmount(mount) PROVE TypeOK'
  <2>1. mounts' \subseteq Tree /\ files' \in [Files -> 0 .. MaxChanges + 1]
    BY <1>0, <1>2 DEF MountOrUnmount, TypeOK
  <2> QED BY <1>0, <1>2, <2>1, ChangedTypes DEF MountOrUnmount
<1>3. ASSUME NEW extracts \in BOOLEAN, Start(extracts) PROVE TypeOK'
  BY <1>0, <1>3, SameTypes DEF Start, world, storage, work
<1>4. CASE Kill \/ BadConfig \/ Usage \/ EmptyPath \/ DriveFails \/ IndexSize \/ Fail
             \/ EmptyQuery \/ SearchIndex \/ SearchManifests
  <2>1. End /\ UNCHANGED storage
    BY <1>4, EndingSteps
  <2>2. UNCHANGED <<manifests, indexes>>
    BY <2>1 DEF storage
  <2>3. \A p \in DOMAIN indexes' : \A d \in indexes'[p] : IsDocument(d)
    BY <1>0, <2>2 DEF TypeOK
  <2> QED BY <1>0, <2>1, <2>2, <2>3, EndTypes
<1>5. CASE SaveIndex
  <2>1. End /\ UNCHANGED manifests /\ indexes' = Put(indexes, IndexPlace, documents)
    BY <1>5 DEF SaveIndex
  <2>2. \A p \in DOMAIN indexes' : \A d \in indexes'[p] : IsDocument(d)
    <3>1. /\ DOMAIN indexes' = DOMAIN indexes \cup {IndexPlace} /\ indexes'[IndexPlace] = documents
          /\ \A p \in DOMAIN indexes : p # IndexPlace => indexes'[p] = indexes[p]
      BY <2>1 DEF Put
    <3> QED BY <1>0, <3>1 DEF TypeOK
  <2> QED BY <1>0, <2>1, <2>2, EndTypes
<1>6. CASE BeginDrive \/ BeginNative
  BY <1>0, <1>6, BeginSteps, SameTypes DEF world, storage, work
<1>7. CASE List \/ Rebuild \/ MissIndex
  BY <1>0, <1>7, SameTypes DEF List, Rebuild, MissIndex, world, storage, work
<1>8. CASE Gather
  <2>1. /\ documents' = documents \cup Documents(Current, Load(Current)) /\ dirs # {} /\ pc = "gather"
        /\ UNCHANGED <<files, mounts, manifests, indexes, snapshots, entries, changes>>
    BY <1>8 DEF Gather, world, storage
  <2>2. Current \in ListDirectories
    BY <2>1, CurrentIsOne DEF DataInv, WorkInv, Going
  <2>3. \A d \in documents' : IsDocument(d)
    BY <1>0, <2>1, <2>2, DocumentsAre DEF TypeOK
  <2> QED BY <1>0, <2>1, <2>3 DEF TypeOK
<1>9. CASE UNCHANGED vars
  BY <1>0, <1>9, SameTypes DEF vars
<1>10. ASSUME NEW f \in Files, Keep(f) \/ Extract(f) PROVE TypeOK'
  BY <1>0, <1>10, KeepTypes, ExtractTypes
<1>11. CASE Open
  BY <1>0, <1>11, OpenTypes
<1>12. CASE SaveManifest
  BY <1>0, <1>12, SaveManifestTypes
<1> QED BY <1>1, <1>2, <1>3, <1>4, <1>5, <1>6, <1>7, <1>8, <1>9, <1>10, <1>11, <1>12 DEF Next, Users, Process

\* The rest of what the manifests satisfy, step by step.
LEMMA SameData ==
    ASSUME DataInv, TypeOK',
           UNCHANGED <<manifests, pc, command, plugin, dirs, snapshots, entries, documents, failed>>
    PROVE  DataInv'
<1>1. /\ ListDirectories' = ListDirectories /\ Current' = Current
      /\ \A rel : Physical(rel)' = Physical(rel) /\ ManifestPlace(rel)' = ManifestPlace(rel)
  BY SameSpot, SameCurrent
<1>2. Done' = Done
  BY <1>1 DEF Done
<1>3. \A rel : (HasStored(rel)' <=> HasStored(rel)) /\ Stored(rel)' = Stored(rel)
  BY <1>1 DEF HasStored, Stored
<1>4. \A dir, name : Asked(dir, name)' <=> Asked(dir, name)
  BY DEF Asked
<1>5. WorkInv'
  BY <1>1 DEF DataInv, WorkInv
<1>6. AskedInv'
  BY <1>1, <1>2, <1>3, <1>4 DEF DataInv, AskedInv
<1>7. EntriesInv'
  BY <1>1, <1>3 DEF DataInv, EntriesInv
<1> QED BY <1>5, <1>6, <1>7 DEF DataInv

LEMMA EndData == ASSUME TypeOK', End PROVE DataInv'
<1>1. pc' = "shell" /\ dirs' = {} /\ documents' = {} /\ failed' = {} /\ command'.source = "native"
  BY DEF End, Refused
<1> QED BY <1>1 DEF DataInv, WorkInv, AskedInv, EntriesInv, Going

\* Steps outside the phases that go through directories.
LEMMA IdleData ==
    ASSUME DataInv, TypeOK', pc \notin Going, pc' \notin Going, UNCHANGED work,
           command'.source \in {"native", "drive"}
    PROVE  DataInv'
<1>1. UNCHANGED <<dirs, documents, failed>>
  BY DEF work
<1> QED BY <1>1 DEF DataInv, WorkInv, AskedInv, EntriesInv, Going

LEMMA ListData == ASSUME DataInv, TypeOK', List PROVE DataInv'
<1>1. /\ pc = "list" /\ pc' = "open" /\ dirs' = ListDirectories
      /\ UNCHANGED <<command, plugin, documents, failed>>
  BY DEF List, Working, typed
<1>2. ListDirectories' = ListDirectories
  BY <1>1, SameSpot
<1>3. Done' = {}
  BY <1>1, <1>2 DEF Done
<1>4. WorkInv'
  BY <1>1, <1>2 DEF DataInv, WorkInv, Going
<1>5. AskedInv'
  BY <1>1, <1>3 DEF AskedInv
<1>6. EntriesInv'
  BY <1>1 DEF EntriesInv
<1> QED BY <1>4, <1>5, <1>6 DEF DataInv

LEMMA OpenData == ASSUME DataInv, TypeOK', Open PROVE DataInv'
<1>0. TypeOK
  BY DEF DataInv
<1>1. /\ pc = "open" /\ pc' = "save" /\ dirs # {} /\ IsDirectory(Root)
      /\ entries' = Load(Current)
      /\ snapshots' = [f \in FilesIn(Physical(Current)) |-> files[f]]
      /\ UNCHANGED <<command, plugin, manifests, dirs, documents, failed>>
  BY DEF Open, Working, typed, storage
<1>2. /\ ListDirectories' = ListDirectories /\ Current' = Current
      /\ \A rel : Physical(rel)' = Physical(rel) /\ ManifestPlace(rel)' = ManifestPlace(rel)
  BY <1>1, SameSpot, SameCurrent
<1>3. Done' = Done
  BY <1>1, <1>2 DEF Done
<1>4. \A rel : (HasStored(rel)' <=> HasStored(rel)) /\ Stored(rel)' = Stored(rel)
  BY <1>1, <1>2 DEF HasStored, Stored
<1>5. \A dir, name : Asked(dir, name)' <=> Asked(dir, name)
  BY <1>1 DEF Asked
<1>6. WorkInv'
  BY <1>1, <1>2 DEF DataInv, WorkInv, Going
<1>7. \A name \in DOMAIN entries' : ~entries'[name].seen
  BY <1>0, <1>1, LoadIsStored
<1>8. AskedInv'
  BY <1>1, <1>2, <1>3, <1>4, <1>5, <1>7 DEF DataInv, AskedInv, Going
<1>9. EntriesInv'
  <2>1. \A f \in DOMAIN snapshots' : f.dir = Physical(Current)
    BY <1>1 DEF FilesIn
  <2>2. HasStored(Current) => entries' = Stored(Current)
    BY <1>0, <1>1, LoadIsStored DEF Reachable
  <2> QED BY <1>1, <1>2, <1>4, <1>7, <2>1, <2>2 DEF EntriesInv
<1> QED BY <1>6, <1>8, <1>9 DEF DataInv

\* A file is gone over: its entry is kept as it is, or made again.
LEMMA GoneOverEntries ==
    ASSUME TypeOK, NEW f \in Files, Keep(f) \/ Extract(f)
    PROVE  /\ DOMAIN entries' = DOMAIN entries \cup {f.name} /\ entries'[f.name].seen
           /\ \A name \in DOMAIN entries : name # f.name => entries'[name] = entries[name]
           /\ \/ /\ Keep(f) /\ f.name \in DOMAIN entries /\ entries[f.name].terms # NoTerms
                 /\ entries'[f.name].version = entries[f.name].version
                 /\ entries'[f.name].terms = entries[f.name].terms
                 /\ failed' = failed
              \/ /\ Extract(f) /\ ~Keeps(f) /\ entries'[f.name].version = snapshots[f]
                 /\ entries'[f.name].terms = NoTerms => f \in failed'
                 /\ failed' \in {failed, failed \cup {f}}
           /\ entries'[f.name].version = snapshots[f]
<1>1. CASE Keep(f)
  <2>1. /\ f.name \in DOMAIN entries /\ entries[f.name].terms # NoTerms /\ entries[f.name] \in Entry
        /\ entries[f.name].version = snapshots[f]
        /\ entries' = [entries EXCEPT ![f.name].seen = TRUE] /\ failed' = failed
    BY <1>1 DEF Keep, Keeps, TypeOK
  <2>2. LET e == [entries[f.name] EXCEPT !.seen = TRUE]
        IN  e.seen /\ e.version = entries[f.name].version /\ e.terms = entries[f.name].terms
    BY <2>1 DEF Entry
  <2>3. /\ DOMAIN entries' = DOMAIN entries
        /\ entries'[f.name] = [entries[f.name] EXCEPT !.seen = TRUE]
        /\ \A n \in DOMAIN entries : n # f.name => entries'[n] = entries[n]
    BY <2>1
  <2> QED BY <1>1, <2>1, <2>2, <2>3
<1>2. CASE Extract(f)
  <2>1. PICK terms \in {NoTerms} \cup (IF MayExtract(f) THEN {"terms"} ELSE {}) :
           /\ entries' = Put(entries, f.name, [version |-> snapshots[f], terms |-> terms, seen |-> TRUE])
           /\ failed' = IF terms = NoTerms THEN failed \cup {f} ELSE failed
    BY <1>2 DEF Extract
  <2>2. ~Keeps(f)
    BY <1>2 DEF Extract
  <2> DEFINE new == [version |-> snapshots[f], terms |-> terms, seen |-> TRUE]
  <2>3. new.version = snapshots[f] /\ new.terms = terms /\ new.seen
    OBVIOUS
  <2>4. entries' = Put(entries, f.name, new)
    BY <2>1
  <2> HIDE DEF new
  <2>5. /\ DOMAIN entries' = DOMAIN entries \cup {f.name} /\ entries'[f.name] = new
        /\ \A n \in DOMAIN entries : n # f.name => entries'[n] = entries[n]
    BY <2>4 DEF Put
  <2> QED BY <1>2, <2>1, <2>2, <2>3, <2>5
<1> QED BY <1>1, <1>2

LEMMA GoneOverData ==
    ASSUME DataInv, TypeOK', NEW f \in Files, Keep(f) \/ Extract(f)
    PROVE  DataInv'
<1>0. TypeOK
  BY DEF DataInv
<1>1. /\ pc = "save" /\ pc' = "save" /\ f \in DOMAIN snapshots
      /\ UNCHANGED <<command, plugin, manifests, dirs, documents>>
      /\ snapshots' = Restrict(snapshots, DOMAIN snapshots \ {f})
  BY DEF Keep, Extract, typed, storage
<1>2. /\ ListDirectories' = ListDirectories /\ Current' = Current
      /\ \A rel : Physical(rel)' = Physical(rel) /\ ManifestPlace(rel)' = ManifestPlace(rel)
  BY <1>1, SameSpot, SameCurrent
<1>3. Done' = Done
  BY <1>1, <1>2 DEF Done
<1>4. \A rel : (HasStored(rel)' <=> HasStored(rel)) /\ Stored(rel)' = Stored(rel)
  BY <1>1, <1>2 DEF HasStored, Stored
<1>5. /\ DOMAIN entries' = DOMAIN entries \cup {f.name} /\ entries'[f.name].seen
      /\ \A name \in DOMAIN entries : name # f.name => entries'[name] = entries[name]
      /\ \/ /\ Keep(f) /\ f.name \in DOMAIN entries /\ entries[f.name].terms # NoTerms
            /\ entries'[f.name].version = entries[f.name].version
            /\ entries'[f.name].terms = entries[f.name].terms
            /\ failed' = failed
         \/ /\ Extract(f) /\ ~Keeps(f) /\ entries'[f.name].version = snapshots[f]
            /\ entries'[f.name].terms = NoTerms => f \in failed'
            /\ failed' \in {failed, failed \cup {f}}
  BY <1>0, GoneOverEntries
<1>6. failed \subseteq failed' /\ failed' \subseteq Files
  BY <1>5 DEF DataInv, WorkInv
<1>7. \A dir, name : Asked(dir, name) => Asked(dir, name)'
  BY <1>6 DEF Asked
<1>8. WorkInv'
  BY <1>1, <1>2, <1>6 DEF DataInv, WorkInv, Going
<1>9. f.dir = Physical(Current) /\ (f.name \in DOMAIN entries => ~entries[f.name].seen)
  BY <1>1 DEF DataInv, EntriesInv
<1>10. AskedInv'
  <2>1. \A rel \in Done' : HasStored(rel)' =>
           \A name \in DOMAIN Stored(rel)' :
              Stored(rel)'[name].terms = NoTerms => Asked(Physical(rel), name)'
    BY <1>1, <1>2, <1>3, <1>4, <1>7 DEF DataInv, AskedInv, Going
  <2>2. \A name \in DOMAIN entries' :
           entries'[name].seen /\ entries'[name].terms = NoTerms => Asked(Physical(Current), name)'
    <3> SUFFICES ASSUME NEW name \in DOMAIN entries', entries'[name].seen, entries'[name].terms = NoTerms
                 PROVE  Asked(Physical(Current), name)'
      OBVIOUS
    <3>1. CASE name = f.name
      <4>1. f \in failed'
        BY <1>5, <3>1
      <4> QED BY <1>2, <1>9, <3>1, <4>1 DEF Asked
    <3>2. CASE name # f.name
      <4>1. name \in DOMAIN entries /\ entries'[name] = entries[name]
        BY <1>5, <3>2
      <4>2. Asked(Physical(Current), name)
        BY <1>1, <4>1 DEF DataInv, AskedInv
      <4> QED BY <1>2, <1>6, <4>2 DEF Asked
    <3> QED BY <3>1, <3>2
  <2> QED BY <1>2, <2>1, <2>2 DEF AskedInv
<1>11. EntriesInv'
  <2>1. \A g \in DOMAIN snapshots' :
           /\ g.dir = Physical(Current)'
           /\ g.name \in DOMAIN entries' => ~entries'[g.name].seen
    <3> SUFFICES ASSUME NEW g \in DOMAIN snapshots'
                 PROVE  g.dir = Physical(Current)' /\ (g.name \in DOMAIN entries' => ~entries'[g.name].seen)
      OBVIOUS
    <3>1. g \in DOMAIN snapshots /\ g # f
      BY <1>1 DEF Restrict
    <3>2. g \in Files /\ g.dir = Physical(Current) /\ (g.name \in DOMAIN entries => ~entries[g.name].seen)
      BY <1>0, <1>1, <3>1 DEF DataInv, EntriesInv, TypeOK
    <3>3. g.name # f.name
      BY <1>9, <3>1, <3>2, FilesAssumption
    <3> QED BY <1>2, <1>5, <3>2, <3>3
  <2>2. ASSUME HasStored(Current), NEW name \in DOMAIN Stored(Current)
        PROVE  /\ name \in DOMAIN entries'
               /\ ~entries'[name].seen => entries'[name] = Stored(Current)[name]
               /\ Stored(Current)[name].version = entries'[name].version
                  /\ Stored(Current)[name].terms # NoTerms => entries'[name].terms # NoTerms
    <3>1. /\ name \in DOMAIN entries
          /\ ~entries[name].seen => entries[name] = Stored(Current)[name]
          /\ Stored(Current)[name].version = entries[name].version
             /\ Stored(Current)[name].terms # NoTerms => entries[name].terms # NoTerms
      BY <1>1, <2>2 DEF DataInv, EntriesInv
    <3>2. CASE name # f.name
      BY <1>5, <3>1, <3>2
    <3>3. CASE name = f.name /\ Keep(f) /\ entries'[f.name].terms = entries[f.name].terms
                 /\ entries[f.name].terms # NoTerms
      BY <1>5, <3>1, <3>3
    <3>4. CASE name = f.name /\ ~Keeps(f) /\ entries'[f.name].version = snapshots[f]
      <4>1. entries[f.name] = Stored(Current)[name]
        BY <1>9, <3>1, <3>4
      <4>2. entries[f.name].version = snapshots[f] => entries[f.name].terms = NoTerms
        BY <3>1, <3>4 DEF Keeps
      <4> QED BY <1>5, <3>1, <3>4, <4>1, <4>2
    <3> QED BY <1>5, <3>2, <3>3, <3>4
  <2> QED BY <1>2, <1>4, <2>1, <2>2 DEF EntriesInv
<1> QED BY <1>8, <1>10, <1>11 DEF DataInv

\* Two directories below a root with manifests at one place are one directory.
LEMMA SamePlace ==
    ASSUME NEW rel, NEW other, ManifestPlace(rel) = ManifestPlace(other)
    PROVE  Physical(rel) = Physical(other)
<1>1. CASE command.source = "drive"
  <2>1. CachePath(rel).path = CachePath(other).path
    BY <1>1 DEF ManifestPlace
  <2> QED BY <2>1 DEF CachePath, Physical
<1>2. CASE command.source # "drive"
  <2>1. InPlace(rel).path = InPlace(other).path
    BY <1>2 DEF ManifestPlace
  <2> QED BY <2>1 DEF InPlace
<1> QED BY <1>1, <1>2

LEMMA SaveManifestData == ASSUME DataInv, TypeOK', SaveManifest PROVE DataInv'
<1>0. TypeOK
  BY DEF DataInv
<1> DEFINE place == ManifestPlace(Current)
<1>1. /\ pc = "save" /\ dirs' = dirs \ {Current} /\ UNCHANGED <<command, plugin, documents, failed>>
      /\ pc' = IF dirs' = {} THEN "rebuild" ELSE "open"
  BY DEF SaveManifest, typed
<1>2. /\ ListDirectories' = ListDirectories
      /\ \A rel : Physical(rel)' = Physical(rel) /\ ManifestPlace(rel)' = ManifestPlace(rel)
  BY <1>1, SameSpot
<1>3. Done' = Done \cup {Current} /\ Current \in ListDirectories
  <2>1. Current \in dirs /\ dirs \subseteq ListDirectories
    BY <1>1, CurrentIsOne DEF DataInv, WorkInv, Going
  <2>2. Done = ListDirectories \ dirs
    BY <1>1 DEF Done
  <2>3. Done' = ListDirectories \ dirs'
    BY <1>1, <1>2 DEF Done
  <2> QED BY <1>1, <2>1, <2>2, <2>3
<1>4. WorkInv'
  BY <1>1, <1>2 DEF DataInv, WorkInv, Going
<1>5. ASSUME NEW rel \in Done', HasStored(rel)', NEW name \in DOMAIN Stored(rel)',
             Stored(rel)'[name].terms = NoTerms
      PROVE  Asked(Physical(rel), name)'
  <2>1. ManifestPlace(rel) \in DOMAIN manifests' /\ Stored(rel)' = manifests'[ManifestPlace(rel)]
    BY <1>2, <1>5 DEF HasStored, Stored
  <2>2. CASE ManifestPlace(rel) = place
    <3>1. name \in DOMAIN entries /\ entries[name].seen /\ entries[name].terms = NoTerms
      BY <1>0, <1>5, <2>1, <2>2, SavedShape
    <3>2. Asked(Physical(Current), name)
      BY <1>1, <3>1 DEF DataInv, AskedInv
    <3>3. Physical(rel) = Physical(Current)
      BY <2>2, SamePlace
    <3> QED BY <1>1, <1>2, <3>2, <3>3 DEF Asked
  <2>3. CASE ManifestPlace(rel) # place
    <3>1. rel \in Done
      BY <1>3, <1>5, <2>3
    <3>2. HasStored(rel) /\ Stored(rel)' = Stored(rel)
      BY <1>0, <2>1, <2>3, SavedShape DEF HasStored, Stored
    <3>3. Asked(Physical(rel), name)
      BY <1>1, <1>5, <3>1, <3>2 DEF DataInv, AskedInv, Going
    <3> QED BY <1>1, <1>2, <3>3 DEF Asked
  <2> QED BY <2>2, <2>3
<1>6. pc' \in {"rebuild", "open"}
  BY <1>1
<1>7. AskedInv' /\ EntriesInv'
  BY <1>5, <1>6 DEF AskedInv, EntriesInv
<1> QED BY <1>4, <1>7 DEF DataInv

LEMMA RebuildData == ASSUME DataInv, TypeOK', Rebuild \/ Gather PROVE DataInv'
<1>1. /\ pc \in {"rebuild", "gather"} /\ pc' \in {"gather", "publish"}
      /\ UNCHANGED <<command, plugin, manifests, failed>>
  BY DEF Rebuild, Gather, Working, typed, storage
<1>2. /\ ListDirectories' = ListDirectories
      /\ \A rel : Physical(rel)' = Physical(rel) /\ ManifestPlace(rel)' = ManifestPlace(rel)
  BY <1>1, SameSpot
<1>3. dirs' \subseteq ListDirectories /\ (pc' = "publish" => dirs' = {})
  BY DEF Rebuild, Gather, DataInv, WorkInv, Going
<1>4. WorkInv'
  BY <1>1, <1>2, <1>3 DEF DataInv, WorkInv, Going
<1>5. Done' = Done
  BY <1>1, <1>2 DEF Done
<1>6. \A rel : (HasStored(rel)' <=> HasStored(rel)) /\ Stored(rel)' = Stored(rel)
  BY <1>1, <1>2 DEF HasStored, Stored
<1>7. \A dir, name : Asked(dir, name)' <=> Asked(dir, name)
  BY <1>1 DEF Asked
<1>8. AskedInv' /\ EntriesInv'
  BY <1>1, <1>2, <1>5, <1>6, <1>7 DEF DataInv, AskedInv, EntriesInv, Going
<1> QED BY <1>4, <1>8 DEF DataInv

LEMMA NextData == DataInv /\ [Next]_vars => DataInv'
<1> SUFFICES ASSUME DataInv, [Next]_vars PROVE DataInv'
  OBVIOUS
<1>0. TypeOK'
  BY NextTypes
<1>1. ASSUME NEW f \in Files, Change(f) PROVE DataInv'
  BY <1>0, <1>1, SameData DEF Change, Changed, storage, typed
<1>2. ASSUME NEW mount, MountOrUnmount(mount) PROVE DataInv'
  BY <1>0, <1>2, SameData DEF MountOrUnmount, Changed, storage, typed
<1>3. ASSUME NEW extracts \in BOOLEAN, Start(extracts) PROVE DataInv'
  <2>1. pc = "shell" /\ pc' = "route" /\ UNCHANGED <<work, command>>
    BY <1>3 DEF Start
  <2> QED BY <1>0, <2>1, IdleData DEF Going, DataInv, WorkInv
<1>4. CASE Kill \/ BadConfig \/ Usage \/ EmptyPath \/ DriveFails \/ IndexSize \/ Fail
             \/ EmptyQuery \/ SearchIndex \/ SearchManifests
  BY <1>0, <1>4, EndingSteps, EndData
<1>5. CASE SaveIndex
  BY <1>0, <1>5, EndData DEF SaveIndex
<1>6. CASE BeginDrive \/ BeginNative
  <2>1. pc \notin Going /\ pc' \notin Going /\ UNCHANGED work /\ command'.source \in {"native", "drive"}
    BY <1>6, BeginSteps DEF Going
  <2> QED BY <1>0, <2>1, IdleData
<1>7. CASE MissIndex
  <2>1. pc = "query" /\ pc' = "fallback" /\ UNCHANGED <<work, command>>
    BY <1>7 DEF MissIndex, typed
  <2> QED BY <1>0, <2>1, IdleData DEF Going, DataInv, WorkInv
<1>8. CASE List
  BY <1>0, <1>8, ListData
<1>9. CASE UNCHANGED vars
  BY <1>0, <1>9, SameData DEF vars, plugin
<1>10. ASSUME NEW f \in Files, Keep(f) \/ Extract(f) PROVE DataInv'
  BY <1>0, <1>10, GoneOverData
<1>11. CASE Open
  BY <1>0, <1>11, OpenData
<1>12. CASE SaveManifest
  BY <1>0, <1>12, SaveManifestData
<1>13. CASE Rebuild \/ Gather
  BY <1>0, <1>13, RebuildData
<1> QED BY <1>1, <1>2, <1>3, <1>4, <1>5, <1>6, <1>7, <1>8, <1>9, <1>10, <1>11, <1>12, <1>13
        DEF Next, Users, Process

\* The files, the manifests and the index hold what they should, and the work of a
\* command too, for every tree, every command line and every change of the world.
THEOREM DriveTypeCorrect == Spec => []TypeOK
<1>1. DataInv => TypeOK
  BY DEF DataInv
<1> QED BY <1>1, InitData, NextData, PTL DEF Spec

LEMMA DataAlways == Spec => []DataInv
BY InitData, NextData, PTL DEF Spec

\* Text that could not be had is asked for again by every command that goes through
\* the directory (the `terms' condition of ReconcileDirectory::execute).
THEOREM MissingTextAskedFor == Spec => []TextAskedForAgain
<1>1. DataInv => TextAskedForAgain
  <2> SUFFICES ASSUME DataInv, pc \in {"rebuild", "gather", "publish"},
                      NEW rel \in ListDirectories, NEW name \in DOMAIN Load(rel),
                      Load(rel)[name].terms = NoTerms
               PROVE  \E f \in failed : f.dir = Physical(rel) /\ f.name = name
    BY DEF TextAskedForAgain
  <2>1. HasStored(rel) /\ name \in DOMAIN Stored(rel) /\ Load(rel)[name] = Stored(rel)[name]
    BY LoadIsStored DEF DataInv
  <2>2. rel \in Done
    BY DEF Done
  <2>3. Asked(Physical(rel), name)
    BY <2>1, <2>2 DEF DataInv, AskedInv, Going
  <2> QED BY <2>3 DEF Asked
<1> QED BY <1>1, DataAlways, PTL

\* The text of an unchanged file stays in its manifest: the only step that writes one
\* replaces entries gone over, and none of these is worse than what was stored.
THEOREM TextIsKept == Spec => TextKept
<1> DEFINE Keeping ==
      \A place \in DOMAIN manifests \cap DOMAIN manifests' :
         \A name \in DOMAIN manifests[place] \cap DOMAIN manifests'[place] :
            LET old == manifests[place][name]
                new == manifests'[place][name]
            IN  old.version = new.version /\ old.terms # NoTerms => new.terms # NoTerms
<1>1. ASSUME DataInv, SaveManifest PROVE Keeping
  <2> SUFFICES ASSUME NEW place \in DOMAIN manifests,
                      NEW name \in DOMAIN manifests[place] \cap DOMAIN manifests'[place],
                      manifests[place][name].version = manifests'[place][name].version,
                      manifests[place][name].terms # NoTerms
               PROVE  manifests'[place][name].terms # NoTerms
    OBVIOUS
  <2>1. TypeOK /\ pc = "save"
    BY <1>1 DEF DataInv, SaveManifest
  <2>2. CASE place = ManifestPlace(Current)
    <3>1. HasStored(Current) /\ Stored(Current) = manifests[place]
      BY <2>2 DEF HasStored, Stored
    <3>2. /\ name \in DOMAIN entries /\ entries[name].seen
          /\ manifests'[place][name].version = entries[name].version
          /\ manifests'[place][name].terms = entries[name].terms
      BY <1>1, <2>1, <2>2, SavedShape
    <3> QED BY <1>1, <2>1, <3>1, <3>2 DEF DataInv, EntriesInv
  <2>3. CASE place # ManifestPlace(Current)
    BY <1>1, <2>1, <2>3, SavedShape
  <2> QED BY <2>2, <2>3
<1>2. ASSUME UNCHANGED manifests PROVE Keeping
  BY <1>2
<1> HIDE DEF Keeping
<1>3. DataInv /\ [Next]_vars => Keeping
  <2> SUFFICES ASSUME DataInv, [Next]_vars PROVE Keeping
    OBVIOUS
  <2>1. ASSUME NEW f \in Files, Change(f) PROVE UNCHANGED manifests
    BY <2>1 DEF Change, Changed, storage
  <2>2. ASSUME NEW mount, MountOrUnmount(mount) PROVE UNCHANGED manifests
    BY <2>2 DEF MountOrUnmount, Changed, storage
  <2>3. ASSUME NEW extracts \in BOOLEAN, Start(extracts) PROVE UNCHANGED manifests
    BY <2>3 DEF Start, storage
  <2>4. ASSUME Kill \/ BadConfig \/ Usage \/ EmptyPath \/ DriveFails \/ IndexSize \/ Fail
                 \/ EmptyQuery \/ SearchIndex \/ SearchManifests
        PROVE  UNCHANGED manifests
    BY <2>4, EndingSteps DEF storage
  <2>5. ASSUME BeginDrive \/ BeginNative PROVE UNCHANGED manifests
    BY <2>5, BeginSteps DEF storage
  <2>6. ASSUME List \/ Open \/ Rebuild \/ Gather \/ MissIndex \/ SaveIndex PROVE UNCHANGED manifests
    BY <2>6 DEF List, Open, Rebuild, Gather, MissIndex, SaveIndex, storage
  <2>7. ASSUME NEW f \in Files, Keep(f) \/ Extract(f) PROVE UNCHANGED manifests
    BY <2>7 DEF Keep, Extract, storage
  <2>8. ASSUME UNCHANGED vars PROVE UNCHANGED manifests
    BY <2>8 DEF vars
  <2> QED BY <1>1, <1>2, <2>1, <2>2, <2>3, <2>4, <2>5, <2>6, <2>7, <2>8 DEF Next, Users, Process
<1>4. DataInv /\ [Next]_vars => [Keeping]_vars
  BY <1>3
<1> USE DEF Keeping
<1> QED BY <1>4, DataAlways, PTL DEF Spec, TextKept

\* Without changes of the world, what a directory shows stays as it is.
LEMMA SameFiles ==
    ASSUME UNCHANGED files
    PROVE  /\ \A dir : FilesIn(dir)' = FilesIn(dir) /\ ShownIn(dir)' = ShownIn(dir)
           /\ \A source, dir : FilesBelow(source, dir)' = FilesBelow(source, dir)
<1>1. \A dir : FilesIn(dir)' = FilesIn(dir)
  BY DEF FilesIn
<1>2. \A dir : ShownIn(dir)' = ShownIn(dir)
  BY <1>1 DEF ShownIn
<1>3. \A source, dir : FilesBelow(source, dir)' = FilesBelow(source, dir)
  BY <1>2 DEF FilesBelow, DirectoriesBelow, IgnoredFor
<1> QED BY <1>1, <1>2, <1>3

LEMMA SameExact ==
    ASSUME UNCHANGED <<files, command, plugin>>, NEW rel,
           HasStored(rel) => HasStored(rel)' /\ Stored(rel)' = Stored(rel), Exact(rel)
    PROVE  Exact(rel)'
<1>1. Physical(rel)' = Physical(rel) /\ FilesIn(Physical(rel))' = FilesIn(Physical(rel))
  BY SameSpot, SameFiles
<1> QED BY <1>1 DEF Exact

\* The files below the root are those a command on it would show.
LEMMA RootShows ==
    ASSUME command.source \in {"native", "drive"}
    PROVE  /\ ListDirectories = DirectoriesBelow(command.source, Spelled[Root])
           /\ UNION {ShownIn(Physical(rel)) : rel \in ListDirectories}
              = FilesBelow(command.source, Spelled[Root])
           /\ FilesBelowRoot = FilesBelow(command.source, Spelled[Root])
<1>1. Ignored = IgnoredFor(command.source)
  BY DEF Ignored, IgnoredFor
<1>2. ListDirectories = DirectoriesBelow(command.source, Spelled[Root])
  BY <1>1 DEF ListDirectories, DirectoriesBelow, Physical
<1>3. \A rel : ShownIn(Physical(rel)) = ShownIn(Spelled[Root] \o rel)
  BY DEF Physical
<1>4. UNION {ShownIn(Physical(rel)) : rel \in ListDirectories} = FilesBelow(command.source, Spelled[Root])
  BY <1>2, <1>3 DEF FilesBelow
<1>5. FilesBelowRoot = UNION {ShownIn(Physical(rel)) : rel \in ListDirectories}
  BY DEF FilesBelowRoot, ShownIn
<1> QED BY <1>2, <1>4, <1>5

LEMMA RecordedSame ==
    ASSUME RecordedInv, UNCHANGED <<files, mounts, indexes, recorded>>, pc' # "fallback"
    PROVE  RecordedInv'
<1>1. \A path : IsDirectory(path)' <=> IsDirectory(path)
  BY DEF IsDirectory
<1>2. \A source, dir : FilesBelow(source, dir)' = FilesBelow(source, dir)
  BY SameFiles
<1> QED BY <1>1, <1>2 DEF RecordedInv

LEMMA ChangedView == ASSUME ViewInv, Changed PROVE ViewInv'
<1>1. quiet' = FALSE /\ recorded' = {} /\ pc' = pc
  BY DEF Changed
<1> QED BY <1>1 DEF ViewInv, QuietInv, RecordedInv

\* Steps outside the phases that go through directories.
LEMMA IdleView ==
    ASSUME ViewInv, pc' \notin Going \cup {"fallback"}, ~quiet',
           UNCHANGED <<files, mounts, indexes, recorded>>
    PROVE  ViewInv'
<1>1. RecordedInv'
  BY RecordedSame DEF ViewInv
<1> QED BY <1>1 DEF ViewInv, QuietInv

\* A search that finds no index is one of a root that is not recorded.
LEMMA RecordedIsFound ==
    ASSUME RootsAgree, RecordedInv, command.source \in {"native", "drive"}, pc = "query", Key \in recorded
    PROVE  /\ HasIndex
           /\ {Shown(d) : d \in indexes[IndexPlace]} = FilesBelow(command.source, Spelled[Root])
<1>1. Key[1] = command.source /\ Key[2] = Root
  BY DEF Key
<1>2. /\ IsDirectory(Root) /\ IndexOf(command.source, Root) \in DOMAIN indexes
      /\ {Shown(d) : d \in indexes[IndexOf(command.source, Root)]} = FilesBelow(command.source, Spelled[Root])
  BY <1>1 DEF RecordedInv
<1>3. Root # NoRoot
  BY <1>2, UnsetAssumption DEF IsDirectory, NoRoot
<1>4. command.source = "drive" => cacheRoot = Root
  BY DEF RootsAgree
<1>5. IndexPlace = IndexOf(command.source, Root)
  <2>1. CASE command.source = "drive"
    BY <1>4, <2>1 DEF IndexPlace, IndexOf
  <2>2. CASE command.source = "native"
    BY <2>2 DEF IndexPlace, IndexOf, InPlace, Physical
  <2> QED BY <2>1, <2>2
<1>6. HasIndex
  BY <1>2, <1>3, <1>4, <1>5 DEF HasIndex, Reachable
<1> QED BY <1>2, <1>5, <1>6

LEMMA MissIndexView ==
    ASSUME RootsAgree, DataInv, ViewInv, MissIndex
    PROVE  ViewInv'
<1>1. /\ pc = "query" /\ pc' = "fallback" /\ ~HasIndex
      /\ UNCHANGED <<files, mounts, indexes, recorded, command, quiet>>
  BY DEF MissIndex, world, storage, work, typed
<1>2. Key \notin recorded
  BY <1>1, RecordedIsFound DEF ViewInv, DataInv, WorkInv
<1>3. Key' \notin recorded'
  BY <1>1, <1>2 DEF Key, Root
<1>4. \A path : IsDirectory(path)' <=> IsDirectory(path)
  BY <1>1 DEF IsDirectory
<1>5. \A source, dir : FilesBelow(source, dir)' = FilesBelow(source, dir)
  BY <1>1, SameFiles
<1>6. RecordedInv'
  BY <1>1, <1>3, <1>4, <1>5 DEF ViewInv, RecordedInv
<1>7. QuietInv'
  BY <1>1 DEF ViewInv, QuietInv, Going
<1> QED BY <1>6, <1>7 DEF ViewInv

\* Steps between two phases that go through directories, as long as all is quiet.
LEMMA GoingView ==
    ASSUME ViewInv, pc \in Going, pc' \in Going,
           UNCHANGED <<files, mounts, indexes, command, quiet, recorded>>,
           quiet => /\ \A rel \in Done' : Exact(rel)'
                    /\ pc' = "save" => HalfExact'
                    /\ pc' \in {"gather", "publish"} =>
                          {Shown(d) : d \in documents}'
                          = (UNION {ShownIn(Physical(rel)) : rel \in ListDirectories \ dirs})'
    PROVE  ViewInv'
<1>1. pc' # "fallback"
  BY DEF Going
<1>2. RecordedInv'
  BY <1>1, RecordedSame DEF ViewInv
<1>3. IsDirectory(Root)' <=> IsDirectory(Root)
  BY DEF IsDirectory, Root
<1>4. QuietInv'
  BY <1>3 DEF ViewInv, QuietInv
<1> QED BY <1>2, <1>4 DEF ViewInv

LEMMA ListView == ASSUME ViewInv, List PROVE ViewInv'
<1>1. /\ pc' = "open" /\ dirs' = ListDirectories /\ quiet' = TRUE /\ IsDirectory(Root)
      /\ UNCHANGED <<files, mounts, indexes, recorded, command, plugin>>
  BY DEF List, Working, world, storage, typed
<1>2. Done' = {}
  BY <1>1, SameSpot DEF Done
<1>3. RecordedInv'
  BY <1>1, RecordedSame DEF ViewInv
<1>4. IsDirectory(Root)'
  BY <1>1 DEF IsDirectory, Root
<1>5. QuietInv'
  BY <1>1, <1>2, <1>4 DEF QuietInv, Going
<1> QED BY <1>3, <1>5 DEF ViewInv

LEMMA OpenView == ASSUME DataInv, ViewInv, Open PROVE ViewInv'
<1>0. TypeOK
  BY DEF DataInv
<1>1. /\ pc = "open" /\ pc' = "save"
      /\ entries' = Load(Current)
      /\ snapshots' = [f \in FilesIn(Physical(Current)) |-> files[f]]
      /\ UNCHANGED <<files, mounts, indexes, recorded, quiet, command, plugin, manifests, dirs>>
  BY DEF Open, Working, typed, storage, world
<1>2. /\ ListDirectories' = ListDirectories /\ Current' = Current
      /\ \A rel : Physical(rel)' = Physical(rel) /\ ManifestPlace(rel)' = ManifestPlace(rel)
  BY <1>1, SameSpot, SameCurrent
<1>3. Done' = Done
  BY <1>1, <1>2 DEF Done
<1>4. \A rel : (HasStored(rel)' <=> HasStored(rel)) /\ Stored(rel)' = Stored(rel)
  BY <1>1, <1>2 DEF HasStored, Stored
<1>5. quiet => \A rel \in Done' : Exact(rel)'
  BY <1>1, <1>3, <1>4, SameExact DEF ViewInv, QuietInv, Going
<1>6. \A name \in DOMAIN entries' : ~entries'[name].seen
  BY <1>0, <1>1, LoadIsStored
<1>7. FilesIn(Physical(Current))' = FilesIn(Physical(Current))
  BY <1>1, <1>2, SameFiles
<1>8. HalfExact'
  BY <1>1, <1>2, <1>6, <1>7 DEF HalfExact
<1> QED BY <1>1, <1>5, <1>8, GoingView DEF Going

LEMMA GoneOverView ==
    ASSUME DataInv, ViewInv, NEW f \in Files, Keep(f) \/ Extract(f)
    PROVE  ViewInv'
<1>0. TypeOK
  BY DEF DataInv
<1>1. /\ pc = "save" /\ pc' = "save" /\ f \in DOMAIN snapshots
      /\ UNCHANGED <<files, mounts, indexes, recorded, quiet, command, plugin, manifests, dirs>>
      /\ snapshots' = Restrict(snapshots, DOMAIN snapshots \ {f})
  BY DEF Keep, Extract, typed, storage, world
<1>2. /\ ListDirectories' = ListDirectories /\ Current' = Current
      /\ \A rel : Physical(rel)' = Physical(rel) /\ ManifestPlace(rel)' = ManifestPlace(rel)
  BY <1>1, SameSpot, SameCurrent
<1>3. Done' = Done
  BY <1>1, <1>2 DEF Done
<1>4. \A rel : (HasStored(rel)' <=> HasStored(rel)) /\ Stored(rel)' = Stored(rel)
  BY <1>1, <1>2 DEF HasStored, Stored
<1>5. quiet => \A rel \in Done' : Exact(rel)'
  BY <1>1, <1>3, <1>4, SameExact DEF ViewInv, QuietInv, Going
<1>6. /\ DOMAIN entries' = DOMAIN entries \cup {f.name} /\ entries'[f.name].seen
      /\ \A name \in DOMAIN entries : name # f.name => entries'[name] = entries[name]
      /\ entries'[f.name].version = snapshots[f]
  BY <1>0, GoneOverEntries
<1>7. DOMAIN snapshots' = DOMAIN snapshots \ {f} /\ \A g \in DOMAIN snapshots' : snapshots'[g] = snapshots[g]
  BY <1>1 DEF Restrict
<1>8. FilesIn(Physical(Current))' = FilesIn(Physical(Current))
  BY <1>1, <1>2, SameFiles
<1>9. ASSUME HalfExact PROVE HalfExact'
  <2> DEFINE here == FilesIn(Physical(Current))
  <2>1. /\ DOMAIN snapshots \subseteq here /\ \A g \in DOMAIN snapshots : snapshots[g] = files[g]
        /\ \A g \in here \ DOMAIN snapshots :
              g.name \in DOMAIN entries /\ entries[g.name].seen /\ entries[g.name].version = files[g]
        /\ \A name \in DOMAIN entries : entries[name].seen => \E g \in here \ DOMAIN snapshots : g.name = name
    BY <1>9 DEF HalfExact
  <2>2. \A g \in here : g \in Files /\ g.dir = Physical(Current)
    BY DEF FilesIn
  <2>3. \A g \in here : g.name = f.name => g = f
    BY <1>1, <2>1, <2>2, FilesAssumption
  <2>4. here' = here
    BY <1>8
  <2> HIDE DEF here
  <2>5. DOMAIN snapshots' \subseteq here /\ \A g \in DOMAIN snapshots' : snapshots'[g] = files[g]
    BY <1>7, <2>1
  <2>6. ASSUME NEW g \in here \ DOMAIN snapshots'
        PROVE  g.name \in DOMAIN entries' /\ entries'[g.name].seen /\ entries'[g.name].version = files[g]
    <3>1. CASE g = f
      BY <1>1, <1>6, <2>1, <3>1
    <3>2. CASE g # f
      <4>1. g.name # f.name /\ g \in here \ DOMAIN snapshots
        BY <1>7, <2>3, <2>6, <3>2
      <4> QED BY <1>6, <2>1, <4>1
    <3> QED BY <3>1, <3>2
  <2>7. ASSUME NEW name \in DOMAIN entries', entries'[name].seen
        PROVE  \E g \in here \ DOMAIN snapshots' : g.name = name
    <3>1. CASE name = f.name
      BY <1>1, <1>7, <2>1, <3>1
    <3>2. CASE name # f.name
      BY <1>6, <1>7, <2>1, <2>7, <3>2
    <3> QED BY <3>1, <3>2
  <2>8. UNCHANGED files
    BY <1>1
  <2> QED BY <2>4, <2>5, <2>6, <2>7, <2>8 DEF HalfExact, here
<1>10. quiet => HalfExact'
  BY <1>1, <1>9 DEF ViewInv, QuietInv, Going
<1> QED BY <1>1, <1>5, <1>10, GoingView DEF Going

LEMMA SaveManifestView == ASSUME DataInv, ViewInv, SaveManifest PROVE ViewInv'
<1>0. TypeOK
  BY DEF DataInv
<1> DEFINE place == ManifestPlace(Current)
<1>1. /\ pc = "save" /\ dirs' = dirs \ {Current} /\ DOMAIN snapshots = {}
      /\ UNCHANGED <<files, mounts, indexes, recorded, quiet, command, plugin>>
      /\ pc' \in {"rebuild", "open"} /\ pc' = IF dirs' = {} THEN "rebuild" ELSE "open"
  BY DEF SaveManifest, typed, world
<1>2. /\ ListDirectories' = ListDirectories
      /\ \A rel : Physical(rel)' = Physical(rel) /\ ManifestPlace(rel)' = ManifestPlace(rel)
  BY <1>1, SameSpot
<1>3. Done' = Done \cup {Current}
  <2>1. Current \in dirs /\ dirs \subseteq ListDirectories
    BY <1>1, CurrentIsOne DEF DataInv, WorkInv, Going
  <2>2. Done = ListDirectories \ dirs /\ Done' = ListDirectories \ dirs'
    BY <1>1, <1>2 DEF Done
  <2> QED BY <1>1, <2>1, <2>2
<1>4. ASSUME quiet, NEW rel \in Done' PROVE Exact(rel)'
  <2>1. CASE ManifestPlace(rel) = place
    <3>1. Physical(rel) = Physical(Current) /\ FilesIn(Physical(rel))' = FilesIn(Physical(Current))
      <4>1. Physical(rel) = Physical(Current) /\ Physical(rel)' = Physical(rel)
        BY <1>2, <2>1, SamePlace
      <4> QED BY <1>1, <4>1, SameFiles
    <3>2. HasStored(rel)' /\ Stored(rel)' = manifests'[place]
      BY <1>0, <1>2, <2>1, SavedShape DEF HasStored, Stored
    <3>3. HalfExact
      BY <1>1, <1>4 DEF ViewInv, QuietInv, Going
    <3>4. /\ DOMAIN manifests'[place] = {n \in DOMAIN entries : entries[n].seen}
          /\ \A n \in DOMAIN entries : entries[n].seen => manifests'[place][n].version = entries[n].version
      BY <1>0, SavedShape
    <3>5. DOMAIN manifests'[place] = {f.name : f \in FilesIn(Physical(Current))}
      BY <1>1, <3>3, <3>4 DEF HalfExact
    <3>6. \A f \in FilesIn(Physical(Current)) : manifests'[place][f.name].version = files[f]
      BY <1>1, <3>3, <3>4 DEF HalfExact
    <3> HIDE DEF place
    <3> QED BY <1>1, <3>1, <3>2, <3>5, <3>6 DEF Exact
  <2>2. CASE ManifestPlace(rel) # place
    <3>1. rel \in Done
      BY <1>3, <1>4, <2>2
    <3>2. HasStored(rel) => HasStored(rel)' /\ Stored(rel)' = Stored(rel)
      BY <1>0, <1>2, <2>2, SavedShape DEF HasStored, Stored
    <3>3. Exact(rel)
      BY <1>1, <1>4, <3>1 DEF ViewInv, QuietInv, Going
    <3> QED BY <1>1, <3>2, <3>3, SameExact
  <2> QED BY <2>1, <2>2
<1> QED BY <1>1, <1>4, GoingView DEF Going

LEMMA RebuildView == ASSUME DataInv, ViewInv, Rebuild PROVE ViewInv'
<1>1. /\ pc = "rebuild" /\ pc' = "gather" /\ dirs' = ListDirectories /\ documents' = documents
      /\ UNCHANGED <<files, mounts, indexes, recorded, quiet, command, plugin, manifests>>
  BY DEF Rebuild, Working, typed, storage, world
<1>2. /\ ListDirectories' = ListDirectories
      /\ \A rel : Physical(rel)' = Physical(rel) /\ ManifestPlace(rel)' = ManifestPlace(rel)
  BY <1>1, SameSpot
<1>3. Done' = Done
  BY <1>1, <1>2 DEF Done
<1>4. \A rel : (HasStored(rel)' <=> HasStored(rel)) /\ Stored(rel)' = Stored(rel)
  BY <1>1, <1>2 DEF HasStored, Stored
<1>5. quiet => \A rel \in Done' : Exact(rel)'
  BY <1>1, <1>3, <1>4, SameExact DEF ViewInv, QuietInv, Going
<1>6. documents' = {} /\ ListDirectories' \ dirs' = {}
  BY <1>1, <1>2 DEF DataInv, WorkInv
<1>7. {Shown(d) : d \in documents}' = {}
  BY <1>6
<1>8. (UNION {ShownIn(Physical(rel)) : rel \in ListDirectories \ dirs})' = {}
  BY <1>6
<1> QED BY <1>1, <1>5, <1>7, <1>8, GoingView DEF Going

\* The documents of a directory with an exact manifest are its files.
LEMMA ExactShows ==
    ASSUME TypeOK, NEW rel, Exact(rel), Reachable
    PROVE  {Shown(d) : d \in Documents(rel, Load(rel))} = ShownIn(Physical(rel))
<1>1. Load(rel) = Stored(rel)
  BY LoadIsStored DEF Exact
<1>2. /\ DOMAIN Load(rel) = {f.name : f \in FilesIn(Physical(rel))}
      /\ \A f \in FilesIn(Physical(rel)) : Load(rel)[f.name].version = files[f] /\ f.dir = Physical(rel)
  BY <1>1 DEF Exact, FilesIn
<1> DEFINE shown(name) == [dir |-> Physical(rel), name |-> name, version |-> Load(rel)[name].version]
<1>3. \A name : Shown(Document(rel, name, Load(rel)[name])) = shown(name)
  BY DEF Shown, Document
<1>4. {Shown(d) : d \in Documents(rel, Load(rel))} = {shown(name) : name \in DOMAIN Load(rel)}
  <2>1. {Shown(d) : d \in Documents(rel, Load(rel))}
        = {Shown(Document(rel, name, Load(rel)[name])) : name \in DOMAIN Load(rel)}
    BY DEF Documents
  <2> QED BY <1>3, <2>1
<1>5. \A f \in FilesIn(Physical(rel)) :
         shown(f.name) = [dir |-> f.dir, name |-> f.name, version |-> files[f]]
  BY <1>2
<1> HIDE DEF shown
<1>6. {shown(name) : name \in DOMAIN Load(rel)} = {shown(f.name) : f \in FilesIn(Physical(rel))}
  BY <1>2
<1>7. {shown(f.name) : f \in FilesIn(Physical(rel))} = ShownIn(Physical(rel))
  BY <1>5 DEF ShownIn
<1> QED BY <1>4, <1>6, <1>7

LEMMA GatherView == ASSUME DataInv, ViewInv, Gather PROVE ViewInv'
<1>0. TypeOK
  BY DEF DataInv
<1>1. /\ pc = "gather" /\ pc' \in {"gather", "publish"} /\ dirs # {} /\ dirs' = dirs \ {Current}
      /\ documents' = documents \cup Documents(Current, Load(Current))
      /\ UNCHANGED <<files, mounts, indexes, recorded, quiet, command, plugin, manifests>>
  BY DEF Gather, typed, storage, world
<1>2. /\ ListDirectories' = ListDirectories
      /\ \A rel : Physical(rel)' = Physical(rel) /\ ManifestPlace(rel)' = ManifestPlace(rel)
  BY <1>1, SameSpot
<1>3. Done' = Done /\ Done = ListDirectories
  BY <1>1, <1>2 DEF Done
<1>4. \A rel : (HasStored(rel)' <=> HasStored(rel)) /\ Stored(rel)' = Stored(rel)
  BY <1>1, <1>2 DEF HasStored, Stored
<1>5. quiet => \A rel \in Done' : Exact(rel)'
  BY <1>1, <1>3, <1>4, SameExact DEF ViewInv, QuietInv, Going
<1>6. Current \in dirs /\ Current \in ListDirectories
  BY <1>1, CurrentIsOne DEF DataInv, WorkInv, Going
<1>7. \A rel : ShownIn(Physical(rel))' = ShownIn(Physical(rel))
  BY <1>1, <1>2, SameFiles
<1>8. ASSUME quiet
      PROVE  {Shown(d) : d \in documents}' = (UNION {ShownIn(Physical(rel)) : rel \in ListDirectories \ dirs})'
  <2>1. Exact(Current) /\ Reachable
    BY <1>1, <1>3, <1>6, <1>8 DEF ViewInv, QuietInv, Going, Reachable
  <2>2. {Shown(d) : d \in Documents(Current, Load(Current))} = ShownIn(Physical(Current))
    BY <1>0, <2>1, ExactShows
  <2>3. {Shown(d) : d \in documents} = UNION {ShownIn(Physical(rel)) : rel \in ListDirectories \ dirs}
    BY <1>1, <1>8 DEF ViewInv, QuietInv, Going
  <2>4. {Shown(d) : d \in documents}' = {Shown(d) : d \in documents'}
    BY DEF Shown
  <2>5. {Shown(d) : d \in documents'} = {Shown(d) : d \in documents} \cup ShownIn(Physical(Current))
    BY <1>1, <2>2
  <2>6. ListDirectories' \ dirs' = (ListDirectories \ dirs) \cup {Current}
    BY <1>1, <1>2, <1>6
  <2>7. (UNION {ShownIn(Physical(rel)) : rel \in ListDirectories \ dirs})'
        = UNION {ShownIn(Physical(rel)) : rel \in (ListDirectories \ dirs) \cup {Current}}
    BY <1>7, <2>6
  <2> QED BY <2>3, <2>4, <2>5, <2>7
<1> QED BY <1>1, <1>5, <1>8, GoingView DEF Going

\* Two recorded roots whose index lies at one place show the same files.
LEMMA SameIndex ==
    ASSUME NEW s \in {"native", "drive"}, NEW r, NEW t \in {"native", "drive"}, NEW q,
           r \in DOMAIN Spelled, q \in DOMAIN Spelled, IndexOf(s, r) = IndexOf(t, q)
    PROVE  FilesBelow(s, Spelled[r]) = FilesBelow(t, Spelled[q])
<1>1. CASE s = "drive" /\ t = "drive"
  <2>1. IndexOf(s, r).owner = <<Cached, r>> /\ IndexOf(t, q).owner = <<Cached, q>>
    BY <1>1 DEF IndexOf
  <2>2. <<Cached, r>> = <<Cached, q>>
    BY <2>1
  <2>3. r = q
    BY <2>2
  <2> QED BY <1>1, <2>3
<1>2. CASE s = "native" /\ t = "native"
  <2>1. IndexOf(s, r).path = Spelled[r] \o <<>> /\ IndexOf(t, q).path = Spelled[q] \o <<>>
    BY <1>2 DEF IndexOf, Nothing
  <2>2. Spelled[r] \in Seq(STRING) /\ Spelled[q] \in Seq(STRING)
    BY TreeAssumption
  <2>3. Spelled[r] \o <<>> = Spelled[r] /\ Spelled[q] \o <<>> = Spelled[q]
    BY <2>2
  <2> QED BY <1>2, <2>1, <2>3
<1>3. CASE s # t
  <2>1. IndexOf(s, r).owner # IndexOf(t, q).owner
    <3>1. <<Cached, r>> # <<"directory">> /\ <<Cached, q>> # <<"directory">>
      OBVIOUS
    <3>2. CASE s = "drive" /\ t = "native"
      <4>1. IndexOf(s, r).owner = <<Cached, r>> /\ IndexOf(t, q).owner = <<"directory">>
        BY <3>2 DEF IndexOf
      <4> QED BY <3>1, <4>1
    <3>3. CASE s = "native" /\ t = "drive"
      <4>1. IndexOf(s, r).owner = <<"directory">> /\ IndexOf(t, q).owner = <<Cached, q>>
        BY <3>3 DEF IndexOf
      <4> QED BY <3>1, <4>1
    <3> QED BY <1>3, <3>2, <3>3
  <2> QED BY <2>1
<1> QED BY <1>1, <1>2, <1>3

LEMMA SaveIndexView ==
    ASSUME RootsAgree, DataInv, ViewInv, SaveIndex
    PROVE  ViewInv'
<1>1. /\ pc = "publish" /\ pc' = "shell" /\ quiet' = FALSE
      /\ UNCHANGED <<files, mounts>>
      /\ indexes' = Put(indexes, IndexPlace, documents)
      /\ recorded' = IF quiet THEN recorded \cup {Key} ELSE recorded \ {Key}
  BY DEF SaveIndex, End, world
<1>2. QuietInv'
  BY <1>1 DEF QuietInv, Going
<1>3. CASE ~quiet
  <2>1. recorded' = {}
    BY <1>1, <1>3 DEF ViewInv, QuietInv, Going
  <2> QED BY <1>1, <1>2, <2>1 DEF ViewInv, RecordedInv
<1>4. CASE quiet
  <2>1. /\ IsDirectory(Root) /\ command.source \in {"native", "drive"} /\ dirs = {}
        /\ {Shown(d) : d \in documents} = UNION {ShownIn(Physical(rel)) : rel \in ListDirectories \ dirs}
    BY <1>1, <1>4 DEF ViewInv, QuietInv, Going, DataInv, WorkInv
  <2>2. {Shown(d) : d \in documents} = FilesBelow(command.source, Spelled[Root])
    <3>1. ListDirectories \ dirs = ListDirectories
      BY <2>1
    <3> QED BY <2>1, <3>1, RootShows
  <2>3. IndexPlace = IndexOf(command.source, Root)
    <3>1. CASE command.source = "drive"
      <4>1. cacheRoot = Root
        BY <1>1, <3>1 DEF RootsAgree
      <4> QED BY <3>1, <4>1 DEF IndexPlace, IndexOf
    <3>2. CASE command.source = "native"
      BY <3>2 DEF IndexPlace, IndexOf, InPlace, Physical
    <3> QED BY <2>1, <3>1, <3>2
  <2>4. /\ DOMAIN indexes' = DOMAIN indexes \cup {IndexPlace} /\ indexes'[IndexPlace] = documents
        /\ \A p \in DOMAIN indexes : p # IndexPlace => indexes'[p] = indexes[p]
    BY <1>1 DEF Put
  <2>5. \A path : IsDirectory(path)' <=> IsDirectory(path)
    BY <1>1 DEF IsDirectory
  <2>6. \A source, dir : FilesBelow(source, dir)' = FilesBelow(source, dir)
    BY <1>1, SameFiles
  <2>7. Key = <<Key[1], Key[2]>> /\ Key[1] = command.source /\ Key[2] = Root
    BY DEF Key
  <2>8. ASSUME NEW key \in recorded'
        PROVE  /\ key = <<key[1], key[2]>> /\ key[1] \in {"native", "drive"} /\ IsDirectory(key[2])
               /\ IndexOf(key[1], key[2]) \in DOMAIN indexes'
               /\ {Shown(d) : d \in indexes'[IndexOf(key[1], key[2])]} = FilesBelow(key[1], Spelled[key[2]])
    <3>1. CASE key = Key
      BY <2>1, <2>2, <2>3, <2>4, <2>7, <3>1
    <3>2. CASE key # Key
      <4>1. /\ key = <<key[1], key[2]>> /\ key[1] \in {"native", "drive"} /\ IsDirectory(key[2])
            /\ IndexOf(key[1], key[2]) \in DOMAIN indexes
            /\ {Shown(d) : d \in indexes[IndexOf(key[1], key[2])]} = FilesBelow(key[1], Spelled[key[2]])
        <5>1. key \in recorded
          BY <1>1, <1>4, <2>8, <3>2
        <5> QED BY <5>1 DEF ViewInv, RecordedInv
      <4>2. CASE IndexOf(key[1], key[2]) = IndexPlace
        <5>1. FilesBelow(key[1], Spelled[key[2]]) = FilesBelow(command.source, Spelled[Root])
          <6>1. key[2] \in DOMAIN Spelled /\ Root \in DOMAIN Spelled
            BY <2>1, <4>1 DEF IsDirectory
          <6> QED BY <2>1, <2>3, <4>1, <4>2, <6>1, SameIndex
        <5> QED BY <2>2, <2>4, <4>1, <4>2, <5>1
      <4>3. CASE IndexOf(key[1], key[2]) # IndexPlace
        BY <2>4, <4>1, <4>3
      <4> QED BY <4>2, <4>3
    <3> QED BY <3>1, <3>2
  <2>9. RecordedInv'
    BY <1>1, <2>5, <2>6, <2>8 DEF RecordedInv
  <2> QED BY <1>2, <2>9 DEF ViewInv
<1> QED BY <1>3, <1>4

LEMMA NextView == IInv /\ DataInv /\ ViewInv /\ [Next]_vars => ViewInv'
<1> SUFFICES ASSUME IInv, DataInv, ViewInv, [Next]_vars PROVE ViewInv'
  OBVIOUS
<1>0. RootsAgree
  BY DEF IInv
<1>1. ASSUME NEW f \in Files, Change(f) PROVE ViewInv'
  BY <1>1, ChangedView DEF Change
<1>2. ASSUME NEW mount, MountOrUnmount(mount) PROVE ViewInv'
  BY <1>2, ChangedView DEF MountOrUnmount
<1>3. ASSUME NEW extracts \in BOOLEAN, Start(extracts) PROVE ViewInv'
  <2>1. pc = "shell" /\ pc' = "route" /\ UNCHANGED <<files, mounts, indexes, recorded, quiet>>
    BY <1>3 DEF Start, world, storage, work
  <2> QED BY <2>1, IdleView DEF Going, ViewInv, QuietInv
<1>4. CASE Kill \/ BadConfig \/ Usage \/ EmptyPath \/ DriveFails \/ IndexSize \/ Fail
             \/ EmptyQuery \/ SearchIndex \/ SearchManifests
  <2>1. pc' = "shell" /\ quiet' = FALSE /\ UNCHANGED <<files, mounts, indexes, recorded>>
    BY <1>4, EndingSteps DEF End, world, storage
  <2> QED BY <2>1, IdleView DEF Going
<1>5. CASE SaveIndex
  BY <1>0, <1>5, SaveIndexView
<1>6. CASE BeginDrive \/ BeginNative
  <2>1. /\ pc = "route" /\ pc' \in {"query", "list", "size"}
        /\ UNCHANGED <<files, mounts, indexes, recorded, quiet>>
    BY <1>6, BeginSteps DEF world, storage, work
  <2> QED BY <2>1, IdleView DEF Going, ViewInv, QuietInv
<1>7. CASE MissIndex
  BY <1>0, <1>7, MissIndexView
<1>8. CASE List
  BY <1>8, ListView
<1>9. CASE UNCHANGED vars
  <2>1. UNCHANGED <<files, mounts, indexes, recorded, quiet, pc, command, plugin, manifests, dirs,
                    snapshots, entries, documents>>
    BY <1>9 DEF vars, plugin
  <2>2. CASE pc \in Going
    <3>1. /\ ListDirectories' = ListDirectories /\ Current' = Current
          /\ \A rel : Physical(rel)' = Physical(rel) /\ ManifestPlace(rel)' = ManifestPlace(rel)
      BY <2>1, SameSpot, SameCurrent
    <3>2. Done' = Done
      BY <2>1, <3>1 DEF Done
    <3>3. \A rel : (HasStored(rel)' <=> HasStored(rel)) /\ Stored(rel)' = Stored(rel)
      BY <2>1, <3>1 DEF HasStored, Stored
    <3>4. quiet => \A rel \in Done' : Exact(rel)'
      BY <2>1, <2>2, <3>2, <3>3, SameExact DEF ViewInv, QuietInv
    <3>5. \A rel : ShownIn(Physical(rel))' = ShownIn(Physical(rel))
                   /\ FilesIn(Physical(rel))' = FilesIn(Physical(rel))
      BY <2>1, <3>1, SameFiles
    <3>6. HalfExact => HalfExact'
      BY <2>1, <3>1, <3>5 DEF HalfExact
    <3>7. /\ {Shown(d) : d \in documents}' = {Shown(d) : d \in documents}
          /\ (UNION {ShownIn(Physical(rel)) : rel \in ListDirectories \ dirs})'
             = UNION {ShownIn(Physical(rel)) : rel \in ListDirectories \ dirs}
      BY <2>1, <3>1, <3>5 DEF Shown
    <3>8. quiet => /\ pc' = "save" => HalfExact'
                   /\ pc' \in {"gather", "publish"} =>
                         {Shown(d) : d \in documents}'
                         = (UNION {ShownIn(Physical(rel)) : rel \in ListDirectories \ dirs})'
      BY <2>1, <2>2, <3>6, <3>7 DEF ViewInv, QuietInv
    <3> QED BY <2>1, <2>2, <3>4, <3>8, GoingView
  <2>3. CASE pc \notin Going
    <3>1. Key' = Key
      BY <2>1 DEF Key, Root
    <3>2. QuietInv'
      BY <2>1, <2>3 DEF ViewInv, QuietInv
    <3>3. \A path : IsDirectory(path)' <=> IsDirectory(path)
      BY <2>1 DEF IsDirectory
    <3>4. \A source, dir : FilesBelow(source, dir)' = FilesBelow(source, dir)
      BY <2>1, SameFiles
    <3>5. RecordedInv'
      BY <2>1, <3>1, <3>3, <3>4 DEF ViewInv, RecordedInv
    <3> QED BY <3>2, <3>5 DEF ViewInv
  <2> QED BY <2>2, <2>3
<1>10. ASSUME NEW f \in Files, Keep(f) \/ Extract(f) PROVE ViewInv'
  BY <1>10, GoneOverView
<1>11. CASE Open
  BY <1>11, OpenView
<1>12. CASE SaveManifest
  BY <1>12, SaveManifestView
<1>13. CASE Rebuild
  BY <1>13, RebuildView
<1>14. CASE Gather
  BY <1>14, GatherView
<1> QED BY <1>1, <1>2, <1>3, <1>4, <1>5, <1>6, <1>7, <1>8, <1>9, <1>10, <1>11, <1>12, <1>13, <1>14
        DEF Next, Users, Process

LEMMA InitView == Init => ViewInv
BY DEF Init, ViewInv, QuietInv, RecordedInv, Going

LEMMA ViewAlways == Spec => [](IInv /\ DataInv /\ ViewInv)
<1>1. Init => IInv /\ DataInv /\ ViewInv
  BY InitIInv, InitData, InitView
<1>2. (IInv /\ DataInv /\ ViewInv) /\ [Next]_vars => (IInv /\ DataInv /\ ViewInv)'
  BY NextIInv, NextData, NextView
<1> QED BY <1>1, <1>2, PTL DEF Spec

\* A search of a root that was indexed, and below which nothing has changed since, reads
\* the index and looks at exactly the files there, for every tree, every sequence of
\* commands, native and for the Drive, and every death of a command half-way.
THEOREM IndexedFilesFound == Spec => IndexedIsFound
<1> DEFINE Finding ==
      answer' # answer /\ answer' # NoAnswer /\ Key \in recorded =>
         {[dir |-> d.dir, name |-> d.name, version |-> d.version] : d \in answer'} = FilesBelowRoot
<1>1. ASSUME answer' \in {answer, NoAnswer} PROVE Finding
  BY <1>1
<1>2. ASSUME IInv, DataInv, ViewInv, SearchIndex PROVE Finding
  <2> SUFFICES ASSUME Key \in recorded
               PROVE  {[dir |-> d.dir, name |-> d.name, version |-> d.version] : d \in answer'} = FilesBelowRoot
    OBVIOUS
  <2>1. pc = "query" /\ answer' = indexes[IndexPlace]
    BY <1>2 DEF SearchIndex, Answer
  <2>2. command.source \in {"native", "drive"} /\ RootsAgree /\ RecordedInv
    BY <1>2 DEF DataInv, WorkInv, IInv, ViewInv
  <2>3. {Shown(d) : d \in answer'} = FilesBelowRoot
    BY <2>1, <2>2, RecordedIsFound, RootShows
  <2> QED BY <2>3 DEF Shown
<1>3. ASSUME ViewInv, SearchManifests PROVE Finding
  <2>1. Key \notin recorded
    BY <1>3 DEF SearchManifests, Working, ViewInv, RecordedInv
  <2> QED BY <2>1
<1> HIDE DEF Finding
<1>4. IInv /\ DataInv /\ ViewInv /\ [Next]_vars => Finding
  <2> SUFFICES ASSUME IInv, DataInv, ViewInv, [Next]_vars PROVE Finding
    OBVIOUS
  <2>1. ASSUME NEW f \in Files, Change(f) PROVE answer' = answer
    BY <2>1 DEF Change, Changed
  <2>2. ASSUME NEW mount, MountOrUnmount(mount) PROVE answer' = answer
    BY <2>2 DEF MountOrUnmount, Changed
  <2>3. ASSUME NEW extracts \in BOOLEAN, Start(extracts) PROVE answer' = NoAnswer
    BY <2>3 DEF Start
  <2>4. ASSUME Kill \/ BadConfig \/ Usage \/ EmptyPath \/ DriveFails \/ IndexSize \/ Fail \/ EmptyQuery
        PROVE  answer' = answer
    <3>1. Kill \/ BadConfig \/ Usage \/ DriveFails \/ IndexSize \/ Fail \/ EmptyQuery => Stop
      BY DEF Kill, BadConfig, Usage, DriveFails, IndexSize, Fail, EmptyQuery
    <3>2. EmptyPath => Stop
      BY Zenon DEF EmptyPath
    <3>3. Stop
      BY <2>4, <3>1, <3>2
    <3> QED BY <3>3 DEF Stop
  <2>5. ASSUME BeginDrive \/ BeginNative PROVE answer' = answer
    BY <2>5, BeginSteps
  <2>6. ASSUME List \/ Open \/ Rebuild \/ Gather \/ MissIndex \/ SaveIndex \/ SaveManifest PROVE answer' = answer
    BY <2>6 DEF List, Open, Rebuild, Gather, MissIndex, SaveIndex, SaveManifest
  <2>7. ASSUME NEW f \in Files, Keep(f) \/ Extract(f) PROVE answer' = answer
    BY <2>7 DEF Keep, Extract
  <2>8. ASSUME UNCHANGED vars PROVE answer' = answer
    BY <2>8 DEF vars
  <2> QED BY <1>1, <1>2, <1>3, <2>1, <2>2, <2>3, <2>4, <2>5, <2>6, <2>7, <2>8 DEF Next, Users, Process
<1>5. IInv /\ DataInv /\ ViewInv /\ [Next]_vars => [Finding]_vars
  BY <1>4
<1> USE DEF Finding
<1> QED BY <1>5, ViewAlways, PTL DEF IndexedIsFound, Spec

-----------------------------------------------------------------------------
\* What the options of a command line stand for. The parser folds one argument after another
\* into the options (options.cpp); the property says what a whole line means.

-----------------------------------------------------------------------------
(* What the parser of the search options makes of a whole command line.    *)

Below == {p \in Nat \X Nat : p[1] < p[2]}

LEMMA BelowWellFounded == IsWellFoundedOn(Below, Nat)
BY NatLessThanWellFounded DEF OpToRel, Below

LEMMA Least ==
    ASSUME NEW T, T \subseteq Nat, T # {}
    PROVE  \E x \in T : \A y \in T : x <= y
<1>1. PICK x \in T : \A y \in T : <<y, x>> \notin Below
  BY BelowWellFounded, WFMin
<1>2. \A y \in T : ~(y < x)
  BY <1>1 DEF Below
<1> QED BY <1>1, <1>2

LEMMA Induction ==
    ASSUME NEW T, 0 \in T, \A n \in Nat : n \in T => n + 1 \in T
    PROVE  Nat \subseteq T
<1> SUFFICES ASSUME Nat \ T # {} PROVE FALSE
  OBVIOUS
<1>1. PICK x \in Nat \ T : \A y \in Nat \ T : x <= y
  BY Least
<1>2. x # 0 /\ x - 1 \in Nat
  BY <1>1
<1>3. x - 1 \in T
  BY <1>1, <1>2
<1>4. (x - 1) + 1 \in T
  BY <1>2, <1>3
<1> QED BY <1>1, <1>4

\* The greatest of some places.
LEMMA Greatest ==
    ASSUME NEW m \in Nat, NEW s, s \subseteq 1 .. m, s # {}
    PROVE  Max(s) \in s /\ \A y \in s : y <= Max(s)
<1> DEFINE T == {m - y : y \in s}
<1>1. T \subseteq Nat /\ T # {}
  <2>1. \A y \in s : m - y \in Nat
    OBVIOUS
  <2>2. \E y : y \in s
    OBVIOUS
  <2> QED BY <2>1, <2>2
<1>2. PICK z \in T : \A y \in T : z <= y
  BY <1>1, Least
<1>3. PICK x \in s : z = m - x
  OBVIOUS
<1>4. \A y \in s : m - y \in T
  OBVIOUS
<1> HIDE DEF T
<1>5. \A y \in s : x >= y
  BY <1>2, <1>3, <1>4
<1>6. Max(s) \in s /\ \A y \in s : Max(s) >= y
  BY <1>5 DEF Max
<1> QED BY <1>6

\* The function that FoldLeft chooses for the arguments t.
IsFold(f, t, S) ==
    f = [s \in SUBSET S |->
            IF s = {} THEN DefaultOptions ELSE ParseNext(f[s \ {Max(s)}], t[Max(s)])]

LEMMA SmallerPlaces ==
    ASSUME NEW m \in Nat, NEW s \in SUBSET (1 .. m), s # {}
    PROVE  /\ s \ {Max(s)} \in SUBSET (1 .. m) /\ Cardinality(s) \in Nat
           /\ Cardinality(s \ {Max(s)}) = Cardinality(s) - 1
<1>1. IsFiniteSet(1 .. m)
  BY FS_Interval
<1>2. IsFiniteSet(s)
  BY <1>1, FS_Subset
<1>3. Max(s) \in s
  BY Greatest
<1> QED BY <1>2, <1>3, FS_CardinalityType, FS_RemoveElement

LEMMA FoldExists ==
    ASSUME NEW m \in Nat, NEW t
    PROVE  \E f : IsFold(f, t, 1 .. m)
<1> DEFINE S == 1 .. m
           Body(f, s) == IF s = {} THEN DefaultOptions ELSE ParseNext(f[s \ {Max(s)}], t[Max(s)])
           Folds(f, n) == /\ f = [s \in SUBSET S |-> f[s]]
                          /\ \A s \in SUBSET S : Cardinality(s) <= n => f[s] = Body(f, s)
           T == {n \in Nat : \E f : Folds(f, n)}
<1>0. IsFiniteSet(S)
  BY FS_Interval
<1>1. 0 \in T
  <2> DEFINE f == [s \in SUBSET S |-> DefaultOptions]
  <2>1. ASSUME NEW s \in SUBSET S, Cardinality(s) <= 0 PROVE s = {}
    <3>1. IsFiniteSet(s) /\ Cardinality(s) \in Nat
      BY <1>0, FS_Subset, FS_CardinalityType
    <3> QED BY <2>1, <3>1, FS_EmptySet
  <2>2. Folds(f, 0)
    BY <2>1
  <2> QED BY <2>2
<1>2. ASSUME NEW n \in Nat, n \in T PROVE n + 1 \in T
  <2>1. PICK f : Folds(f, n)
    BY <1>2
  <2> DEFINE h == [s \in SUBSET S |-> IF Cardinality(s) = n + 1 THEN Body(f, s) ELSE f[s]]
  <2>2. ASSUME NEW s \in SUBSET S, Cardinality(s) <= n + 1 PROVE h[s] = Body(h, s)
    <3>1. CASE s = {}
      <4>1. Cardinality(s) = 0
        BY <3>1, FS_EmptySet
      <4>2. Cardinality(s) # n + 1 /\ Cardinality(s) <= n
        BY <4>1
      <4>3. h[s] = f[s] /\ f[s] = DefaultOptions
        BY <2>1, <3>1, <4>2
      <4> QED BY <3>1, <4>3
    <3>2. CASE s # {}
      <4> DEFINE r == s \ {Max(s)}
      <4>1. r \in SUBSET S /\ Cardinality(s) \in Nat /\ Cardinality(r) = Cardinality(s) - 1
        BY <3>2, SmallerPlaces
      <4> HIDE DEF r
      <4>2. Cardinality(r) # n + 1 /\ (Cardinality(s) # n + 1 => Cardinality(s) <= n)
        BY <2>2, <4>1
      <4>3. h[r] = f[r]
        BY <4>1, <4>2
      <4>4. h[s] = Body(f, s)
        BY <2>1, <4>2
      <4>5. Body(h, s) = Body(f, s)
        BY <4>3, Zenon DEF r
      <4> HIDE DEF h, Body
      <4> QED BY <4>4, <4>5
    <3> QED BY <3>1, <3>2
  <2>3. Folds(h, n + 1)
    BY <2>2
  <2> HIDE DEF h, Folds
  <2> QED BY <2>3
<1>3. Cardinality(S) \in T
  <2>1. Cardinality(S) \in Nat
    BY <1>0, FS_CardinalityType
  <2> HIDE DEF T
  <2> QED BY <1>1, <1>2, <2>1, Induction
<1>4. PICK f : Folds(f, Cardinality(S))
  BY <1>3
<1>5. \A s \in SUBSET S : f[s] = Body(f, s)
  <2>1. \A s \in SUBSET S : Cardinality(s) <= Cardinality(S)
    BY <1>0, FS_Subset
  <2> QED BY <1>4, <2>1
<1>6. f = [s \in SUBSET S |-> Body(f, s)]
  <2>1. f = [s \in SUBSET S |-> f[s]]
    BY <1>4
  <2> HIDE DEF Body, Folds
  <2> QED BY <1>5, <2>1
<1> QED BY <1>6 DEF IsFold

\* The options after each argument.
IsReading(o, t, m) ==
    /\ o[0] = DefaultOptions
    /\ \A k \in 1 .. m : o[k] = ParseNext(o[k - 1], t[k])
    /\ FoldLeft(ParseNext, DefaultOptions, t) = o[m]

LEMMA FoldReads ==
    ASSUME NEW t, NEW m \in Nat, DOMAIN t = 1 .. m
    PROVE  \E o : IsReading(o, t, m)
<1> DEFINE fold == CHOOSE f : IsFold(f, t, 1 .. m)
           o == [k \in 0 .. m |-> fold[1 .. k]]
<1>1. IsFold(fold, t, 1 .. m)
  BY FoldExists
<1>2. FoldLeft(ParseNext, DefaultOptions, t) = fold[1 .. m]
  BY Zenon DEF FoldLeft, MapThenFoldSet, IsFold
<1> HIDE DEF fold
<1>3. \A s \in SUBSET (1 .. m) :
        fold[s] = IF s = {} THEN DefaultOptions ELSE ParseNext(fold[s \ {Max(s)}], t[Max(s)])
  BY <1>1 DEF IsFold
<1>4. o[0] = DefaultOptions
  <2>1. 1 .. 0 = {} /\ {} \in SUBSET (1 .. m) /\ 0 \in 0 .. m
    OBVIOUS
  <2>2. fold[{}] = DefaultOptions
    BY <1>3, <2>1, Zenon
  <2> QED BY <2>1, <2>2
<1>5. ASSUME NEW k \in 1 .. m PROVE o[k] = ParseNext(o[k - 1], t[k])
  <2> HIDE DEF o
  <2>1. 1 .. k \in SUBSET (1 .. m) /\ 1 .. k # {} /\ k \in 1 .. k
    <3>1. \A y \in 1 .. k : y \in 1 .. m
      OBVIOUS
    <3>2. k \in 1 .. k
      OBVIOUS
    <3> QED BY <3>1, <3>2
  <2>2. Max(1 .. k) = k
    <3>1. Max(1 .. k) \in 1 .. k /\ \A y \in 1 .. k : y <= Max(1 .. k)
      BY <2>1, Greatest
    <3> QED BY <2>1, <3>1
  <2>3. (1 .. k) \ {k} = 1 .. k - 1
    OBVIOUS
  <2>4. fold[1 .. k] = ParseNext(fold[1 .. k - 1], t[k])
    BY <1>3, <2>1, <2>2, <2>3, Zenon
  <2>5. o[k] = fold[1 .. k] /\ o[k - 1] = fold[1 .. k - 1]
    BY DEF o
  <2> QED BY <2>4, <2>5
<1>6. o[m] = fold[1 .. m]
  OBVIOUS
<1> QED BY <1>2, <1>4, <1>5, <1>6 DEF IsReading

-----------------------------------------------------------------------------
(* The arguments that are values.                                          *)

IsValueAt(a, W, i) ==
    i > 2 /\ i - 1 \notin W /\ (a[i - 1] = "--limit" \/ (a[i - 1] = "--tap" /\ a[i] = "html"))

LEMMA PlacesExist ==
    ASSUME NEW a
    PROVE  \A n \in Nat : \E W \in SUBSET (1 .. n) : \A i \in 1 .. n : i \in W <=> IsValueAt(a, W, i)
<1> DEFINE Marks(W, n) == W \in SUBSET (1 .. n) /\ \A i \in 1 .. n : i \in W <=> IsValueAt(a, W, i)
           T == {n \in Nat : \E W : Marks(W, n)}
<1>1. 0 \in T
  <2>1. Marks({}, 0)
    OBVIOUS
  <2> HIDE DEF Marks
  <2> QED BY <2>1
<1>2. ASSUME NEW n \in Nat, n \in T PROVE n + 1 \in T
  <2>1. PICK W : Marks(W, n)
    BY <1>2
  <2> DEFINE X == IF IsValueAt(a, W, n + 1) THEN W \cup {n + 1} ELSE W
  <2>2. X \in SUBSET (1 .. n + 1) /\ (n + 1 \in X <=> IsValueAt(a, W, n + 1))
        /\ \A i \in 1 .. n : i \in X <=> i \in W
    BY <2>1
  <2> HIDE DEF X
  <2>3. ASSUME NEW i \in 1 .. n + 1 PROVE i \in X <=> IsValueAt(a, X, i)
    <3>1. i > 2 => i - 1 \in 1 .. n /\ (i - 1 \in X <=> i - 1 \in W)
      BY <2>2
    <3>2. IsValueAt(a, X, i) <=> IsValueAt(a, W, i)
      BY <3>1 DEF IsValueAt
    <3>3. CASE i = n + 1
      BY <2>2, <3>2, <3>3
    <3>4. CASE i # n + 1
      <4>1. i \in 1 .. n
        BY <3>4
      <4> QED BY <2>1, <2>2, <3>2, <4>1
    <3> QED BY <3>3, <3>4
  <2>4. Marks(X, n + 1)
    BY <2>2, <2>3
  <2> HIDE DEF Marks
  <2> QED BY <2>4
<1> HIDE DEF T
<1>3. Nat \subseteq T
  BY <1>1, <1>2, Induction
<1> QED BY <1>3 DEF T

ValueBody(a, v, i) ==
    /\ i > 2 /\ ~v[i - 1]
    /\ a[i - 1] = "--limit" \/ (a[i - 1] = "--tap" /\ a[i] = "html")

LEMMA OneTruth ==
    ASSUME NEW a, NEW W, NEW v, NEW i, i \in W <=> ValueBody(a, v, i)
    PROVE  (i \in W) = ValueBody(a, v, i)
<1>1. (i \in W) \in BOOLEAN
  OBVIOUS
<1>2. ValueBody(a, v, i) \in BOOLEAN
  BY Zenon DEF ValueBody
<1> QED BY <1>1, <1>2

LEMMA ValuesAre ==
    ASSUME NEW a, Len(a) \in Nat
    PROVE  /\ Values(a) \subseteq 1 .. Len(a)
           /\ \A i \in 1 .. Len(a) : i \in Values(a) <=> IsValueAt(a, Values(a), i)
<1> DEFINE n == Len(a)
           IsIt(v) == v = [i \in 1 .. n |-> ValueBody(a, v, i)]
           value == CHOOSE v : IsIt(v)
<1>1. PICK W \in SUBSET (1 .. n) : \A i \in 1 .. n : i \in W <=> IsValueAt(a, W, i)
  BY PlacesExist
<1>2. \E v : IsIt(v)
  <2> DEFINE v == [i \in 1 .. n |-> i \in W]
  <2>1. ASSUME NEW i \in 1 .. n PROVE i \in W <=> ValueBody(a, v, i)
    <3>1. CASE i > 2
      <4>1. i - 1 \in 1 .. n
        BY <3>1
      <4>2. v[i - 1] = (i - 1 \in W)
        BY <4>1
      <4>3. ValueBody(a, v, i) <=> IsValueAt(a, W, i)
        BY <4>2, Zenon DEF IsValueAt, ValueBody
      <4> HIDE DEF v
      <4> QED BY <1>1, <4>3, Zenon
    <3>2. CASE ~(i > 2)
      <4>1. i \notin W
        BY <1>1, <3>2 DEF IsValueAt
      <4> HIDE DEF v
      <4> QED BY <3>2, <4>1, Zenon DEF ValueBody
    <3> QED BY <3>1, <3>2
  <2>2. v = [i \in 1 .. n |-> i \in W]
    OBVIOUS
  <2> HIDE DEF v
  <2>3. \A i \in 1 .. n : (i \in W) = ValueBody(a, v, i)
    BY <2>1, OneTruth
  <2>4. IsIt(v)
    BY <2>2, <2>3
  <2> QED BY <2>4
<1>3. IsIt(value)
  BY <1>2
<1>4. Values(a) = {i \in 1 .. n : value[i]}
  BY Zenon DEF Values, ValueBody
<1> HIDE DEF value
<1>5. \A i \in 1 .. n : value[i] = ValueBody(a, value, i)
  <2> QED BY <1>3, Zenon
<1>6. \A i \in 1 .. n : i \in Values(a) <=> ValueBody(a, value, i)
  BY <1>4, <1>5, Zenon
<1>7. Values(a) \subseteq 1 .. n
  BY <1>4, Zenon
<1>8. ASSUME NEW i \in 1 .. n PROVE i \in Values(a) <=> IsValueAt(a, Values(a), i)
  <2>1. CASE i > 2
    <3>1. i - 1 \in 1 .. n
      BY <2>1
    <3>2. i - 1 \in Values(a) <=> value[i - 1]
      BY <1>4, <3>1, Zenon
    <3> QED BY <1>6, <3>2, Zenon DEF IsValueAt, ValueBody
  <2>2. CASE ~(i > 2)
    BY <1>6, <2>2, Zenon DEF IsValueAt, ValueBody
  <2> QED BY <2>1, <2>2
<1> QED BY <1>7, <1>8

-----------------------------------------------------------------------------
(* One argument, of which v says that it is the value of the argument p.   *)

Fields == {"full", "tap", "html", "limit", "positionals", "wants", "bad"}

BadArgument(x, v, p) ==
    \/ v /\ p = "--limit" /\ x \notin Numbers
    \/ ~v /\ x \in TapArguments
    \/ ~v /\ x \in DOMAIN LimitArguments /\ LimitArguments[x] \notin Numbers

\* The option whose value may come after x.
WantedAfter(x, v) ==
    IF v THEN "nothing"
    ELSE IF x = "--limit" THEN "limit" ELSE IF x = "--tap" THEN "format" ELSE "nothing"

Expects(o, x, v, p) ==
    /\ DOMAIN o = Fields /\ o.bad = FALSE
    /\ o.wants = "limit" <=> v /\ p = "--limit"
    /\ o.wants = "format" /\ x = "html" <=> v /\ p # "--limit"

Refuses(q) == DOMAIN q = Fields /\ q.bad = TRUE

After(o, q, x, v, p) ==
    /\ DOMAIN q = Fields /\ q.bad = FALSE
    /\ q.wants = WantedAfter(x, v)
    /\ q.full = (IF ~v /\ x \in DisplayOptions THEN x # "--table" ELSE o.full)
    /\ q.tap = (IF ~v /\ x \in {"--tap", "--tap=html", "--tap=text"} THEN TRUE ELSE o.tap)
    /\ q.html = (IF (v /\ p # "--limit") \/ (~v /\ x = "--tap=html") THEN TRUE
                 ELSE IF ~v /\ x = "--tap=text" THEN FALSE ELSE o.html)
    /\ q.limit = (IF v /\ p = "--limit" THEN x
                  ELSE IF ~v /\ x \in DOMAIN LimitArguments THEN LimitArguments[x] ELSE o.limit)
    /\ q.positionals = (IF ~v /\ x \notin Options THEN Append(o.positionals, x) ELSE o.positionals)

\* What an option or positional argument does, whatever was read before.
LEMMA FreeArgument ==
    ASSUME NEW o, DOMAIN o = Fields, o.wants = "nothing", o.bad = FALSE, NEW x, NEW p
    PROVE  IF BadArgument(x, FALSE, p) THEN Refuses(ParseArgument(o, x))
           ELSE After(o, ParseArgument(o, x), x, FALSE, p)
<1>1. /\ x \in TapArguments => x \notin DisplayOptions \cup {"--tap", "--tap=html", "--tap=text", "--limit"}
      /\ x \in DOMAIN LimitArguments =>
            x \notin DisplayOptions \cup {"--tap", "--tap=html", "--tap=text", "--limit"} \cup TapArguments
      /\ DisplayOptions = {"--full", "--details", "--table"}
  BY ArgumentsAssumption DEF DisplayOptions
<1>2. CASE x \in DisplayOptions
  <2>1. x # "--tap" /\ x # "--tap=html" /\ x # "--tap=text" /\ x # "--limit" /\ x \in Options
    BY <1>1, <1>2 DEF Options
  <2>2. ParseArgument(o, x) = [o EXCEPT !.full = x # "--table"]
    BY <1>1, <1>2, <2>1 DEF ParseArgument
  <2> QED BY <1>1, <1>2, <2>1, <2>2 DEF BadArgument, After, WantedAfter, Fields
<1>3. CASE x = "--tap"
  <2>1. ParseArgument(o, x) = [o EXCEPT !.tap = TRUE, !.wants = "format"]
    BY <1>1, <1>3 DEF ParseArgument
  <2>2. x \in Options /\ x \notin DisplayOptions /\ x # "--limit" /\ x # "--tap=html" /\ x # "--tap=text"
    BY <1>1, <1>3 DEF Options
  <2> QED BY <1>1, <1>3, <2>1, <2>2 DEF BadArgument, After, WantedAfter, Fields
<1>4. CASE x = "--tap=html"
  <2>1. ParseArgument(o, x) = [o EXCEPT !.tap = TRUE, !.html = TRUE]
    BY <1>1, <1>4 DEF ParseArgument
  <2>2. x \in Options /\ x \notin DisplayOptions /\ x # "--limit" /\ x # "--tap" /\ x # "--tap=text"
    BY <1>1, <1>4 DEF Options
  <2> QED BY <1>1, <1>4, <2>1, <2>2 DEF BadArgument, After, WantedAfter, Fields
<1>5. CASE x = "--tap=text"
  <2>1. ParseArgument(o, x) = [o EXCEPT !.tap = TRUE, !.html = FALSE]
    BY <1>1, <1>5 DEF ParseArgument
  <2>2. x \in Options /\ x \notin DisplayOptions /\ x # "--limit" /\ x # "--tap" /\ x # "--tap=html"
    BY <1>1, <1>5 DEF Options
  <2> QED BY <1>1, <1>5, <2>1, <2>2 DEF BadArgument, After, WantedAfter, Fields
<1>6. CASE x \in TapArguments
  <2>1. ParseArgument(o, x) = [o EXCEPT !.bad = TRUE]
    BY <1>1, <1>6 DEF ParseArgument
  <2> QED BY <1>6, <2>1 DEF BadArgument, Refuses, Fields
<1>7. CASE x = "--limit"
  <2>1. ParseArgument(o, x) = [o EXCEPT !.wants = "limit"]
    BY <1>1, <1>7 DEF ParseArgument
  <2>2. x \in Options /\ x \notin DisplayOptions /\ x # "--tap" /\ x # "--tap=html" /\ x # "--tap=text"
    BY <1>1, <1>7 DEF Options
  <2> QED BY <1>1, <1>7, <2>1, <2>2 DEF BadArgument, After, WantedAfter, Fields
<1>8. CASE x \in DOMAIN LimitArguments
  <2>1. ParseArgument(o, x) = ParseLimit(o, LimitArguments[x])
    BY <1>1, <1>8 DEF ParseArgument
  <2>2. /\ x \in Options /\ x \notin DisplayOptions /\ x # "--limit" /\ x # "--tap" /\ x # "--tap=html"
        /\ x # "--tap=text" /\ x \notin TapArguments
    BY <1>1, <1>8 DEF Options
  <2> QED BY <1>1, <1>8, <2>1, <2>2 DEF ParseLimit, Refuses, BadArgument, After, WantedAfter, Fields
<1>9. CASE x \notin Options
  <2>1. /\ x \notin DisplayOptions /\ x # "--limit" /\ x # "--tap" /\ x # "--tap=html"
        /\ x # "--tap=text" /\ x \notin TapArguments /\ x \notin DOMAIN LimitArguments
    BY <1>9 DEF Options
  <2>2. ParseArgument(o, x) = [o EXCEPT !.positionals = Append(@, x)]
    BY <2>1 DEF ParseArgument
  <2> QED BY <1>9, <2>1, <2>2 DEF BadArgument, After, WantedAfter, Fields
<1> QED BY <1>2, <1>3, <1>4, <1>5, <1>6, <1>7, <1>8, <1>9 DEF Options

LEMMA OneArgument ==
    ASSUME NEW o, NEW x, NEW v \in BOOLEAN, NEW p, Expects(o, x, v, p)
    PROVE  IF BadArgument(x, v, p) THEN Refuses(ParseNext(o, x))
           ELSE After(o, ParseNext(o, x), x, v, p)
<1>1. DOMAIN o = Fields /\ o.bad = FALSE
  BY DEF Expects
<1>2. CASE v /\ p = "--limit"
  <2>1. ParseNext(o, x) = ParseLimit(o, x)
    BY <1>2 DEF Expects, ParseNext
  <2> QED BY <1>1, <1>2, <2>1 DEF ParseLimit, Refuses, BadArgument, After, WantedAfter, Fields
<1>3. CASE v /\ p # "--limit"
  <2>1. o.wants = "format" /\ x = "html"
    BY <1>3 DEF Expects
  <2>2. ParseNext(o, x) = [o EXCEPT !.html = TRUE, !.wants = "nothing"]
    BY <1>1, <2>1 DEF ParseNext
  <2> QED BY <1>1, <1>3, <2>2 DEF BadArgument, After, WantedAfter, Fields
<1>4. CASE ~v
  <2> DEFINE r == [o EXCEPT !.wants = "nothing"]
  <2>1. ParseNext(o, x) = ParseArgument(r, x)
    BY <1>1, <1>4 DEF Expects, ParseNext
  <2>2. /\ DOMAIN r = Fields /\ r.wants = "nothing" /\ r.bad = FALSE /\ r.full = o.full /\ r.tap = o.tap
        /\ r.html = o.html /\ r.limit = o.limit /\ r.positionals = o.positionals
    BY <1>1 DEF Fields
  <2> HIDE DEF r
  <2>3. IF BadArgument(x, FALSE, p) THEN Refuses(ParseArgument(r, x))
        ELSE After(r, ParseArgument(r, x), x, FALSE, p)
    BY <2>2, FreeArgument
  <2>4. v = FALSE
    BY <1>4
  <2> QED BY <2>1, <2>2, <2>3, <2>4 DEF After
<1> QED BY <1>2, <1>3, <1>4

-----------------------------------------------------------------------------
(* The whole command line, as far as place k.                              *)

Free(a, k)     == (2 .. k) \ Values(a)
Displays(a, k) == {i \in Free(a, k) : a[i] \in DisplayOptions}
Taps(a, k)     == {i \in Free(a, k) : a[i] \in {"--tap", "--tap=html", "--tap=text"}}
Limits(a, k)   ==
    {i \in Values(a) : i <= k /\ a[i - 1] = "--limit"} \cup {i \in Free(a, k) : a[i] \in DOMAIN LimitArguments}
Formats(a, k)  ==
    {i \in Values(a) : i <= k /\ a[i - 1] # "--limit"}
      \cup {i \in Free(a, k) : a[i] \in {"--tap=html", "--tap=text"}}
Rest(a, k)     == {i \in Free(a, k) : a[i] \notin Options}

\* The places P up to k become Q with the next one, which belongs to them or not.
Grows(P, Q, k, belongs) == Q = (IF belongs THEN P \cup {k + 1} ELSE P)

LEMMA FreeGrow ==
    ASSUME NEW a, NEW k \in Nat, k >= 1
    PROVE  /\ Free(a, k + 1) = (IF k + 1 \in Values(a) THEN Free(a, k) ELSE Free(a, k) \cup {k + 1})
           /\ Free(a, k) \subseteq 1 .. k
BY DEF Free

\* Those places among the free ones that hold something of D.
LEMMA SomeGrow ==
    ASSUME NEW a, NEW F, NEW G, NEW j, NEW free \in BOOLEAN, G = (IF free THEN F \cup {j} ELSE F), NEW D
    PROVE  {i \in G : a[i] \in D}
              = (IF free /\ a[j] \in D THEN {i \in F : a[i] \in D} \cup {j} ELSE {i \in F : a[i] \in D})
OBVIOUS

LEMMA OthersGrow ==
    ASSUME NEW a, NEW F, NEW G, NEW j, NEW free \in BOOLEAN, G = (IF free THEN F \cup {j} ELSE F), NEW D
    PROVE  {i \in G : a[i] \notin D}
              = (IF free /\ a[j] \notin D THEN {i \in F : a[i] \notin D} \cup {j}
                 ELSE {i \in F : a[i] \notin D})
OBVIOUS

\* The values of an option, or of all others.
LEMMA ValuesGrow ==
    ASSUME NEW a, NEW k \in Nat, NEW V, V \subseteq Nat
    PROVE  /\ {i \in V : i <= k + 1 /\ a[i - 1] = "--limit"}
                = (IF k + 1 \in V /\ a[k] = "--limit" THEN {i \in V : i <= k /\ a[i - 1] = "--limit"} \cup {k + 1}
                   ELSE {i \in V : i <= k /\ a[i - 1] = "--limit"})
           /\ {i \in V : i <= k + 1 /\ a[i - 1] # "--limit"}
                = (IF k + 1 \in V /\ a[k] # "--limit" THEN {i \in V : i <= k /\ a[i - 1] # "--limit"} \cup {k + 1}
                   ELSE {i \in V : i <= k /\ a[i - 1] # "--limit"})
<1>1. (k + 1) - 1 = k /\ \A i \in V : i \in Nat /\ (i <= k + 1 <=> (i <= k \/ i = k + 1))
  OBVIOUS
<1> QED BY <1>1

LEMMA PlacesGrow ==
    ASSUME NEW a, Len(a) \in Nat, NEW k \in 1 .. Len(a) - 1
    PROVE  LET v == k + 1 \in Values(a)
               x == a[k + 1]
           IN  /\ Grows(Displays(a, k), Displays(a, k + 1), k, ~v /\ x \in DisplayOptions)
               /\ Grows(Taps(a, k), Taps(a, k + 1), k, ~v /\ x \in {"--tap", "--tap=html", "--tap=text"})
               /\ Grows(Limits(a, k), Limits(a, k + 1), k,
                        (v /\ a[k] = "--limit") \/ (~v /\ x \in DOMAIN LimitArguments))
               /\ Grows(Formats(a, k), Formats(a, k + 1), k,
                        (v /\ a[k] # "--limit") \/ (~v /\ x \in {"--tap=html", "--tap=text"}))
               /\ Grows(Rest(a, k), Rest(a, k + 1), k, ~v /\ x \notin Options)
<1> DEFINE v == k + 1 \in Values(a)
           x == a[k + 1]
<1>1. Values(a) \subseteq Nat
  BY ValuesAre
<1>2. k \in Nat /\ k >= 1
  OBVIOUS
<1>3. Free(a, k + 1) = (IF ~v THEN Free(a, k) \cup {k + 1} ELSE Free(a, k)) /\ (~v) \in BOOLEAN
  BY <1>2, FreeGrow
<1>4. \A D : {i \in Free(a, k + 1) : a[i] \in D}
               = (IF ~v /\ x \in D THEN {i \in Free(a, k) : a[i] \in D} \cup {k + 1}
                  ELSE {i \in Free(a, k) : a[i] \in D})
  BY <1>3, SomeGrow
<1>5. \A D : {i \in Free(a, k + 1) : a[i] \notin D}
               = (IF ~v /\ x \notin D THEN {i \in Free(a, k) : a[i] \notin D} \cup {k + 1}
                  ELSE {i \in Free(a, k) : a[i] \notin D})
  BY <1>3, OthersGrow
<1> HIDE DEF x
<1>6. Grows(Displays(a, k), Displays(a, k + 1), k, ~v /\ x \in DisplayOptions)
  BY <1>4, Zenon DEF Grows, Displays
<1>7. Grows(Taps(a, k), Taps(a, k + 1), k, ~v /\ x \in {"--tap", "--tap=html", "--tap=text"})
  BY <1>4, Zenon DEF Grows, Taps
<1>8. Grows(Rest(a, k), Rest(a, k + 1), k, ~v /\ x \notin Options)
  BY <1>5, Zenon DEF Grows, Rest
<1>9. Grows(Limits(a, k), Limits(a, k + 1), k,
            (v /\ a[k] = "--limit") \/ (~v /\ x \in DOMAIN LimitArguments))
  <2> DEFINE A(j) == {i \in Values(a) : i <= j /\ a[i - 1] = "--limit"}
             B(j) == {i \in Free(a, j) : a[i] \in DOMAIN LimitArguments}
  <2>1. A(k + 1) = (IF v /\ a[k] = "--limit" THEN A(k) \cup {k + 1} ELSE A(k))
    BY <1>1, <1>2, ValuesGrow
  <2>2. B(k + 1) = (IF ~v /\ x \in DOMAIN LimitArguments THEN B(k) \cup {k + 1} ELSE B(k))
    BY <1>4
  <2>3. Limits(a, k) = A(k) \cup B(k) /\ Limits(a, k + 1) = A(k + 1) \cup B(k + 1)
    BY Zenon DEF Limits
  <2> HIDE DEF A, B
  <2> QED BY <2>1, <2>2, <2>3 DEF Grows
<1>10. Grows(Formats(a, k), Formats(a, k + 1), k,
             (v /\ a[k] # "--limit") \/ (~v /\ x \in {"--tap=html", "--tap=text"}))
  <2> DEFINE A(j) == {i \in Values(a) : i <= j /\ a[i - 1] # "--limit"}
             B(j) == {i \in Free(a, j) : a[i] \in {"--tap=html", "--tap=text"}}
  <2>1. A(k + 1) = (IF v /\ a[k] # "--limit" THEN A(k) \cup {k + 1} ELSE A(k))
    BY <1>1, <1>2, ValuesGrow
  <2>2. B(k + 1) = (IF ~v /\ x \in {"--tap=html", "--tap=text"} THEN B(k) \cup {k + 1} ELSE B(k))
    BY <1>4, Zenon
  <2>3. Formats(a, k) = A(k) \cup B(k) /\ Formats(a, k + 1) = A(k + 1) \cup B(k + 1)
    BY Zenon DEF Formats
  <2> HIDE DEF A, B
  <2> QED BY <2>1, <2>2, <2>3 DEF Grows
<1> QED BY <1>6, <1>7, <1>8, <1>9, <1>10, Zenon DEF x

\* The last of some places up to k and of the next one is the next one.
LEMMA LastOfMore ==
    ASSUME NEW a, NEW k \in Nat, NEW P, P \subseteq 1 .. k, NEW else
    PROVE  LastOf(a, P \cup {k + 1}, else) = a[k + 1]
<1> DEFINE Q == P \cup {k + 1}
<1>1. Q \subseteq 1 .. k + 1 /\ k + 1 \in Q /\ Q # {}
  <2>1. 1 .. k \subseteq 1 .. k + 1 /\ k + 1 \in 1 .. k + 1
    OBVIOUS
  <2> QED BY <2>1
<1> HIDE DEF Q
<1>2. Max(Q) \in Q /\ \A y \in Q : y <= Max(Q)
  <2>1. k + 1 \in Nat
    OBVIOUS
  <2> QED BY <1>1, <2>1, Greatest
<1>3. Max(Q) = k + 1
  <2>1. Max(Q) \in 1 .. k + 1 /\ k + 1 <= Max(Q)
    BY <1>1, <1>2
  <2> QED BY <2>1
<1>4. LastOf(a, Q, else) = a[k + 1]
  BY <1>1, <1>3 DEF LastOf
<1> QED BY <1>4 DEF Q
-----------------------------------------------------------------------------
(* The positional arguments, in their order.                               *)

Rank(R, i) == Cardinality({j \in R : j <= i})

\* The arguments at the places R.
Lists(s, a, R) ==
    /\ s \in Seq({a[i] : i \in 1 .. Len(a)}) /\ Len(s) = Cardinality(R)
    /\ \A i \in R : Rank(R, i) \in 1 .. Len(s) /\ s[Rank(R, i)] = a[i]
    /\ \A m \in 1 .. Len(s) : \E i \in R : Rank(R, i) = m

LEMMA ListGrows ==
    ASSUME NEW a, Len(a) \in Nat, NEW k \in Nat, k < Len(a), NEW R, R \subseteq 1 .. k,
           NEW Q, NEW belongs \in BOOLEAN, Grows(R, Q, k, belongs), NEW s, Lists(s, a, R)
    PROVE  Lists(IF belongs THEN Append(s, a[k + 1]) ELSE s, a, Q)
<1>1. CASE ~belongs
  BY <1>1 DEF Grows
<1>2. CASE belongs
  <2> DEFINE A == {a[i] : i \in 1 .. Len(a)}
             t == Append(s, a[k + 1])
  <2>1. IsFiniteSet(R) /\ k + 1 \notin R /\ Q = R \cup {k + 1}
    <3>1. IsFiniteSet(1 .. k)
      BY FS_Interval
    <3>2. IsFiniteSet(R)
      BY <3>1, FS_Subset
    <3>3. k + 1 \notin 1 .. k
      OBVIOUS
    <3>4. k + 1 \notin R
      BY <3>3
    <3> QED BY <1>2, <3>2, <3>4 DEF Grows
  <2>2. Cardinality(R) \in Nat /\ Cardinality(Q) = Cardinality(R) + 1
    BY <2>1, FS_CardinalityType, FS_AddElement
  <2>3. a[k + 1] \in A /\ s \in Seq(A) /\ Len(s) = Cardinality(R)
    <3>1. k + 1 \in 1 .. Len(a)
      OBVIOUS
    <3> QED BY <3>1 DEF Lists
  <2> HIDE DEF A
  <2>4. /\ t \in Seq(A) /\ Len(t) = Len(s) + 1 /\ t[Len(s) + 1] = a[k + 1]
        /\ \A m \in 1 .. Len(s) : t[m] = s[m]
    BY <2>3
  <2> HIDE DEF t
  <2>5. ASSUME NEW i \in R PROVE Rank(Q, i) = Rank(R, i)
    <3>1. {j \in Q : j <= i} = {j \in R : j <= i}
      BY <2>1
    <3> QED BY <3>1 DEF Rank
  <2>6. Rank(Q, k + 1) = Cardinality(R) + 1
    <3>1. \A j \in 1 .. k : j <= k + 1
      OBVIOUS
    <3>2. \A j \in Q : j <= k + 1
      BY <2>1, <3>1
    <3>3. {j \in Q : j <= k + 1} = Q
      BY <3>2
    <3> QED BY <2>2, <3>3 DEF Rank
  <2>7. ASSUME NEW i \in Q PROVE Rank(Q, i) \in 1 .. Len(t) /\ t[Rank(Q, i)] = a[i]
    <3>1. CASE i \in R
      <4>1. Rank(R, i) \in 1 .. Len(s) /\ s[Rank(R, i)] = a[i]
        BY <3>1 DEF Lists
      <4> QED BY <2>2, <2>3, <2>4, <2>5, <3>1, <4>1
    <3>2. CASE i = k + 1
      BY <2>2, <2>3, <2>4, <2>6, <3>2
    <3> QED BY <2>1, <3>1, <3>2
  <2>8. ASSUME NEW m \in 1 .. Len(t) PROVE \E i \in Q : Rank(Q, i) = m
    <3>1. CASE m = Len(s) + 1
      BY <2>1, <2>3, <2>6, <3>1
    <3>2. CASE m # Len(s) + 1
      <4>1. m \in 1 .. Len(s)
        BY <2>2, <2>3, <2>4, <3>2
      <4>2. PICK i \in R : Rank(R, i) = m
        BY <4>1 DEF Lists
      <4> QED BY <2>1, <2>5, <4>2
    <3> QED BY <3>1, <3>2
  <2>9. Lists(t, a, Q)
    <3>1. Len(t) = Cardinality(Q)
      BY <2>2, <2>3, <2>4
    <3> QED BY <2>4, <2>7, <2>8, <3>1 DEF Lists, A
  <2> QED BY <1>2, <2>9 DEF t
<1> QED BY <1>1, <1>2

-----------------------------------------------------------------------------
(* What has been read of the command line so far.                          *)

LimitIn(x) == IF x \in DOMAIN LimitArguments THEN LimitArguments[x] ELSE x

Upto(o, a, k) ==
    /\ DOMAIN o = Fields /\ o.bad = FALSE
    /\ o.wants = (IF k = 1 THEN "nothing" ELSE WantedAfter(a[k], k \in Values(a)))
    /\ o.full = (LastOf(a, Displays(a, k), "--full") # "--table")
    /\ o.tap = (Taps(a, k) # {})
    /\ o.html = (LastOf(a, Formats(a, k), "--tap=text") \in {"html", "--tap=html"})
    /\ o.limit = LimitIn(LastOf(a, Limits(a, k), Absent))
    /\ Lists(o.positionals, a, Rest(a, k))

LEMMA PlacesBelow ==
    ASSUME NEW a, Len(a) \in Nat, NEW k \in 1 .. Len(a)
    PROVE  /\ Displays(a, k) \subseteq 1 .. k /\ Taps(a, k) \subseteq 1 .. k /\ Limits(a, k) \subseteq 1 .. k
           /\ Formats(a, k) \subseteq 1 .. k /\ Rest(a, k) \subseteq 1 .. k
<1>1. Values(a) \subseteq 1 .. Len(a)
  BY ValuesAre
<1>2. Free(a, k) \subseteq 1 .. k
  <2>1. k \in Nat /\ k >= 1
    OBVIOUS
  <2> QED BY <2>1, FreeGrow
<1>3. \A i \in Values(a) : i <= k => i \in 1 .. k
  BY <1>1
<1> QED BY <1>2, <1>3 DEF Displays, Taps, Limits, Formats, Rest

LEMMA NoMember == ASSUME NEW e, NEW S, e \notin S PROVE (e \in S) = FALSE
OBVIOUS

\* What the argument at place k + 1 meets.
LEMMA ArgumentExpected ==
    ASSUME NEW a, Len(a) \in Nat, NEW k \in 1 .. Len(a) - 1, NEW o, Upto(o, a, k)
    PROVE  Expects(o, a[k + 1], k + 1 \in Values(a), a[k])
<1> DEFINE x == a[k + 1]
           v == k + 1 \in Values(a)
<1>1. v <=> k > 1 /\ k \notin Values(a) /\ (a[k] = "--limit" \/ (a[k] = "--tap" /\ x = "html"))
  <2>1. k + 1 \in 1 .. Len(a) /\ (k + 1) - 1 = k /\ (k + 1 > 2 <=> k > 1)
    OBVIOUS
  <2>2. v <=> IsValueAt(a, Values(a), k + 1)
    BY <2>1, ValuesAre
  <2> QED BY <2>1, <2>2, Zenon DEF IsValueAt
<1>2. o.wants = (IF k = 1 THEN "nothing" ELSE WantedAfter(a[k], k \in Values(a)))
  BY DEF Upto
<1>3. k > 1 <=> k # 1
  OBVIOUS
<1> HIDE DEF x, v
<1>4. o.wants = "limit" <=> k # 1 /\ k \notin Values(a) /\ a[k] = "--limit"
  BY <1>2 DEF WantedAfter
<1>5. o.wants = "format" <=> k # 1 /\ k \notin Values(a) /\ a[k] = "--tap"
  BY <1>2 DEF WantedAfter
<1>6. "--tap" # "--limit"
  OBVIOUS
<1>7. o.wants = "limit" <=> v /\ a[k] = "--limit"
  BY <1>1, <1>3, <1>4, Zenon
<1>8. o.wants = "format" /\ x = "html" <=> v /\ a[k] # "--limit"
  BY <1>1, <1>3, <1>5, <1>6, Zenon
<1>9. DOMAIN o = Fields /\ o.bad = FALSE
  BY DEF Upto
<1> QED BY <1>7, <1>8, <1>9, Zenon DEF Expects, x, v

LEMMA UptoStep ==
    ASSUME NEW a, Len(a) \in Nat, NEW k \in 1 .. Len(a) - 1, NEW o, Upto(o, a, k),
           ~BadArgument(a[k + 1], k + 1 \in Values(a), a[k])
    PROVE  Upto(ParseNext(o, a[k + 1]), a, k + 1)
<1> DEFINE x == a[k + 1]
           p == a[k]
           v == k + 1 \in Values(a)
           q == ParseNext(o, x)
           isDisplay == ~v /\ x \in DisplayOptions
           isTap == ~v /\ x \in {"--tap", "--tap=html", "--tap=text"}
           isLimit == (v /\ p = "--limit") \/ (~v /\ x \in DOMAIN LimitArguments)
           isFormat == (v /\ p # "--limit") \/ (~v /\ x \in {"--tap=html", "--tap=text"})
           isOther == ~v /\ x \notin Options
<1>1. After(o, q, x, v, p)
  <2>1. Expects(o, x, v, p) /\ v \in BOOLEAN
    BY ArgumentExpected
  <2> QED BY <2>1, OneArgument
<1>2. /\ Grows(Displays(a, k), Displays(a, k + 1), k, isDisplay)
      /\ Grows(Taps(a, k), Taps(a, k + 1), k, isTap)
      /\ Grows(Limits(a, k), Limits(a, k + 1), k, isLimit)
      /\ Grows(Formats(a, k), Formats(a, k + 1), k, isFormat)
      /\ Grows(Rest(a, k), Rest(a, k + 1), k, isOther)
  BY PlacesGrow, Zenon
<1>3. /\ isDisplay \in BOOLEAN /\ isTap \in BOOLEAN /\ isLimit \in BOOLEAN /\ isFormat \in BOOLEAN
      /\ isOther \in BOOLEAN
  BY Zenon
<1>4. k \in Nat /\ k < Len(a) /\ k \in 1 .. Len(a) /\ k + 1 # 1
  OBVIOUS
<1>5. /\ Displays(a, k) \subseteq 1 .. k /\ Taps(a, k) \subseteq 1 .. k /\ Limits(a, k) \subseteq 1 .. k
      /\ Formats(a, k) \subseteq 1 .. k /\ Rest(a, k) \subseteq 1 .. k
  BY <1>4, PlacesBelow
<1>6. \A else :
        /\ LastOf(a, Displays(a, k + 1), else) = (IF isDisplay THEN x ELSE LastOf(a, Displays(a, k), else))
        /\ LastOf(a, Limits(a, k + 1), else) = (IF isLimit THEN x ELSE LastOf(a, Limits(a, k), else))
        /\ LastOf(a, Formats(a, k + 1), else) = (IF isFormat THEN x ELSE LastOf(a, Formats(a, k), else))
  <2> HIDE DEF x, isDisplay, isLimit, isFormat
  <2>1. ASSUME NEW else
        PROVE  LastOf(a, Displays(a, k + 1), else) = (IF isDisplay THEN x ELSE LastOf(a, Displays(a, k), else))
    <3>1. Grows(Displays(a, k), Displays(a, k + 1), k, isDisplay)
      BY <1>2, <1>3
    <3>2. Displays(a, k) \subseteq 1 .. k
      BY <1>5
    <3>3. CASE isDisplay
      <4>1. Displays(a, k + 1) = Displays(a, k) \cup {k + 1}
        BY <3>1, <3>3 DEF Grows
      <4>2. LastOf(a, Displays(a, k + 1), else) = x
        BY <1>4, <3>2, <4>1, LastOfMore DEF x
      <4> QED BY <3>3, <4>2
    <3>4. CASE ~isDisplay
      BY <3>1, <3>4 DEF Grows
    <3> QED BY <3>3, <3>4
  <2>2. ASSUME NEW else
        PROVE  LastOf(a, Limits(a, k + 1), else) = (IF isLimit THEN x ELSE LastOf(a, Limits(a, k), else))
    <3>1. Grows(Limits(a, k), Limits(a, k + 1), k, isLimit)
      BY <1>2, <1>3
    <3>2. Limits(a, k) \subseteq 1 .. k
      BY <1>5
    <3>3. CASE isLimit
      <4>1. Limits(a, k + 1) = Limits(a, k) \cup {k + 1}
        BY <3>1, <3>3 DEF Grows
      <4>2. LastOf(a, Limits(a, k + 1), else) = x
        BY <1>4, <3>2, <4>1, LastOfMore DEF x
      <4> QED BY <3>3, <4>2
    <3>4. CASE ~isLimit
      BY <3>1, <3>4 DEF Grows
    <3> QED BY <3>3, <3>4
  <2>3. ASSUME NEW else
        PROVE  LastOf(a, Formats(a, k + 1), else) = (IF isFormat THEN x ELSE LastOf(a, Formats(a, k), else))
    <3>1. Grows(Formats(a, k), Formats(a, k + 1), k, isFormat)
      BY <1>2, <1>3
    <3>2. Formats(a, k) \subseteq 1 .. k
      BY <1>5
    <3>3. CASE isFormat
      <4>1. Formats(a, k + 1) = Formats(a, k) \cup {k + 1}
        BY <3>1, <3>3 DEF Grows
      <4>2. LastOf(a, Formats(a, k + 1), else) = x
        BY <1>4, <3>2, <4>1, LastOfMore DEF x
      <4> QED BY <3>3, <4>2
    <3>4. CASE ~isFormat
      BY <3>1, <3>4 DEF Grows
    <3> QED BY <3>3, <3>4
  <2> QED BY <2>1, <2>2, <2>3
<1> HIDE DEF x, v, q, p
<1>7. q.wants = (IF k + 1 = 1 THEN "nothing" ELSE WantedAfter(x, v)) /\ DOMAIN q = Fields /\ q.bad = FALSE
  BY <1>1, <1>4 DEF After
<1>8. q.full = (LastOf(a, Displays(a, k + 1), "--full") # "--table")
  <2>1. o.full = (LastOf(a, Displays(a, k), "--full") # "--table")
    BY DEF Upto
  <2>2. q.full = (IF isDisplay THEN x # "--table" ELSE o.full)
    BY <1>1 DEF After
  <2> HIDE DEF isDisplay
  <2>3. CASE isDisplay
    BY <1>6, <2>2, <2>3
  <2>4. CASE ~isDisplay
    BY <1>6, <2>1, <2>2, <2>4
  <2> QED BY <2>3, <2>4
<1>9. q.tap = (Taps(a, k + 1) # {})
  <2>1. o.tap = (Taps(a, k) # {})
    BY DEF Upto
  <2>2. q.tap = (IF isTap THEN TRUE ELSE o.tap)
    BY <1>1 DEF After
  <2> HIDE DEF isTap
  <2>3. CASE isTap
    <3>1. Taps(a, k + 1) # {}
      BY <1>2, <2>3 DEF Grows
    <3> QED BY <2>2, <2>3, <3>1
  <2>4. CASE ~isTap
    BY <1>2, <2>1, <2>2, <2>4 DEF Grows
  <2> QED BY <2>3, <2>4
<1>10. q.html = (LastOf(a, Formats(a, k + 1), "--tap=text") \in {"html", "--tap=html"})
  <2>1. o.html = (LastOf(a, Formats(a, k), "--tap=text") \in {"html", "--tap=html"})
    BY DEF Upto
  <2>2. q.html = (IF (v /\ p # "--limit") \/ (~v /\ x = "--tap=html") THEN TRUE
                  ELSE IF ~v /\ x = "--tap=text" THEN FALSE ELSE o.html)
    BY <1>1 DEF After
  <2>3. v /\ p # "--limit" => x = "html"
    BY ArgumentExpected DEF Expects, x, v, p
  <2>4. CASE isFormat
    <3>1. LastOf(a, Formats(a, k + 1), "--tap=text") = x
      BY <1>6, <2>4
    <3>2. CASE x = "--tap=text"
      <4>1. ~v
        BY <2>3, <2>4, <3>2
      <4>2. q.html = FALSE
        BY <2>2, <3>2, <4>1
      <4>3. x \notin {"html", "--tap=html"}
        BY <3>2
      <4>4. (x \in {"html", "--tap=html"}) = FALSE
        BY <4>3, NoMember
      <4> QED BY <3>1, <4>2, <4>4, Zenon
    <3>3. CASE x # "--tap=text"
      <4>1. q.html = TRUE
        BY <2>2, <2>4, <3>3
      <4>2. x \in {"html", "--tap=html"}
        BY <2>3, <2>4, <3>3
      <4> DEFINE html == LastOf(a, Formats(a, k + 1), "--tap=text") \in {"html", "--tap=html"}
      <4>3. html /\ html \in BOOLEAN
        BY <3>1, <4>2, Zenon
      <4> HIDE DEF html
      <4>4. q.html = html
        BY <4>1, <4>3
      <4> QED BY <4>4 DEF html
    <3> QED BY <3>2, <3>3
  <2>5. CASE ~isFormat
    <3>1. LastOf(a, Formats(a, k + 1), "--tap=text") = LastOf(a, Formats(a, k), "--tap=text")
      BY <1>6, <2>5
    <3>2. q.html = o.html
      BY <2>2, <2>5
    <3> QED BY <2>1, <3>1, <3>2
  <2> QED BY <2>4, <2>5
<1>11. q.limit = LimitIn(LastOf(a, Limits(a, k + 1), Absent))
  <2>1. o.limit = LimitIn(LastOf(a, Limits(a, k), Absent))
    BY DEF Upto
  <2>2. q.limit = (IF v /\ p = "--limit" THEN x
                   ELSE IF ~v /\ x \in DOMAIN LimitArguments THEN LimitArguments[x] ELSE o.limit)
    BY <1>1 DEF After
  <2>3. CASE v /\ p = "--limit"
    <3>1. x \in Numbers
      BY <2>3 DEF BadArgument, x, v, p
    <3>2. x \notin DOMAIN LimitArguments
      BY <3>1, ArgumentsAssumption
    <3>3. LastOf(a, Limits(a, k + 1), Absent) = x
      BY <1>6, <2>3
    <3> QED BY <2>2, <2>3, <3>2, <3>3 DEF LimitIn
  <2>4. CASE ~v /\ x \in DOMAIN LimitArguments
    <3>1. LastOf(a, Limits(a, k + 1), Absent) = x
      BY <1>6, <2>4
    <3> QED BY <2>2, <2>4, <3>1 DEF LimitIn
  <2>5. CASE ~isLimit
    <3>1. LastOf(a, Limits(a, k + 1), Absent) = LastOf(a, Limits(a, k), Absent)
      BY <1>6, <2>5
    <3> QED BY <2>1, <2>2, <2>5, <3>1
  <2> QED BY <2>3, <2>4, <2>5
<1>12. Lists(q.positionals, a, Rest(a, k + 1))
  <2>1. Lists(o.positionals, a, Rest(a, k))
    BY DEF Upto
  <2>2. q.positionals = (IF isOther THEN Append(o.positionals, x) ELSE o.positionals)
    BY <1>1 DEF After
  <2> HIDE DEF isOther
  <2>3. Lists(IF isOther THEN Append(o.positionals, a[k + 1]) ELSE o.positionals, a, Rest(a, k + 1))
    BY <1>2, <1>3, <1>4, <1>5, <2>1, ListGrows
  <2> QED BY <2>2, <2>3 DEF x
<1> QED BY <1>7, <1>8, <1>9, <1>10, <1>11, <1>12, Zenon DEF Upto, x, v, q

LEMMA UptoStart ==
    ASSUME NEW a, Len(a) \in Nat, Len(a) >= 1
    PROVE  Upto(DefaultOptions, a, 1)
<1>1. /\ Displays(a, 1) = {} /\ Taps(a, 1) = {} /\ Limits(a, 1) = {} /\ Formats(a, 1) = {} /\ Rest(a, 1) = {}
  <2>1. Free(a, 1) = {}
    BY DEF Free
  <2>2. \A i \in Values(a) : ~(i <= 1)
    <3>1. Values(a) \subseteq 1 .. Len(a) /\ \A i \in 1 .. Len(a) : i \in Values(a) => i > 2
      BY ValuesAre DEF IsValueAt
    <3> QED BY <3>1
  <2> QED BY <2>1, <2>2 DEF Displays, Taps, Limits, Formats, Rest
<1>2. \A else : LastOf(a, {}, else) = else
  BY DEF LastOf
<1>3. LimitIn(Absent) = Absent
  BY ArgumentsAssumption DEF LimitIn
<1>4. Lists(<<>>, a, {})
  <2>1. Cardinality({}) = 0
    BY FS_EmptySet
  <2>2. <<>> \in Seq({a[i] : i \in 1 .. Len(a)}) /\ Len(<<>>) = 0
    OBVIOUS
  <2>3. \A m \in 1 .. 0 : FALSE
    OBVIOUS
  <2> QED BY <2>1, <2>2, <2>3 DEF Lists
<1> DEFINE o == DefaultOptions
<1>5. /\ DOMAIN o = Fields /\ o.bad = FALSE /\ o.wants = "nothing" /\ o.full = TRUE /\ o.tap = FALSE
      /\ o.html = FALSE /\ o.limit = Absent /\ o.positionals = <<>>
  BY DEF DefaultOptions, Fields
<1> HIDE DEF o
<1>6. o.full = (LastOf(a, Displays(a, 1), "--full") # "--table")
  BY <1>1, <1>2, <1>5
<1>7. o.tap = (Taps(a, 1) # {})
  BY <1>1, <1>5
<1>8. o.html = (LastOf(a, Formats(a, 1), "--tap=text") \in {"html", "--tap=html"})
  <2>1. "--tap=text" \notin {"html", "--tap=html"}
    OBVIOUS
  <2>2. ("--tap=text" \in {"html", "--tap=html"}) = FALSE
    BY <2>1, NoMember
  <2>3. LastOf(a, Formats(a, 1), "--tap=text") = "--tap=text"
    BY <1>1, <1>2
  <2> QED BY <1>5, <2>2, <2>3, Zenon
<1>9. o.limit = LimitIn(LastOf(a, Limits(a, 1), Absent))
  BY <1>1, <1>2, <1>3, <1>5, Zenon
<1>10. Lists(o.positionals, a, Rest(a, 1))
  BY <1>1, <1>4, <1>5, Zenon
<1>11. o.wants = (IF 1 = 1 THEN "nothing" ELSE WantedAfter(a[1], 1 \in Values(a)))
  BY <1>5, Zenon
<1> QED BY <1>5, <1>6, <1>7, <1>8, <1>9, <1>10, <1>11, Zenon DEF Upto, o

BadUpto(a, k) == \E i \in 2 .. k : BadArgument(a[i], i \in Values(a), a[i - 1])

\* The options after k arguments are what they mean, or one of them was bad.
LEMMA OptionsUpto ==
    ASSUME NEW A, NEW a \in Seq(A), a # <<>>
    PROVE  \E o : /\ FoldLeft(ParseNext, DefaultOptions, Tail(a)) = o
                  /\ IF BadUpto(a, Len(a)) THEN Refuses(o) ELSE Upto(o, a, Len(a))
<1> DEFINE n == Len(a)
           t == Tail(a)
<1>1. n \in Nat /\ n >= 1
  OBVIOUS
<1>2. DOMAIN t = 1 .. n - 1 /\ \A k \in 1 .. n - 1 : t[k] = a[k + 1]
  OBVIOUS
<1> HIDE DEF n, t
<1>3. PICK o : IsReading(o, t, n - 1)
  <2>1. n - 1 \in Nat
    BY <1>1
  <2> QED BY <1>2, <2>1, FoldReads
<1> DEFINE C(k) == IF BadUpto(a, k) THEN Refuses(o[k - 1]) ELSE Upto(o[k - 1], a, k)
           T == {m \in Nat : m + 1 <= n => C(m + 1)}
<1>4. 0 \in T
  <2>1. ~BadUpto(a, 1)
    BY DEF BadUpto
  <2>2. Upto(DefaultOptions, a, 1)
    BY <1>1, UptoStart DEF n
  <2>3. o[0] = DefaultOptions
    BY <1>3 DEF IsReading
  <2>4. C(0 + 1)
    BY <2>1, <2>2, <2>3
  <2> HIDE DEF C
  <2> QED BY <2>4
<1>5. ASSUME NEW m \in Nat, m \in T PROVE m + 1 \in T
  <2> SUFFICES ASSUME (m + 1) + 1 <= n PROVE C((m + 1) + 1)
    <3> HIDE DEF C
    <3> QED OBVIOUS
  <2> DEFINE k == m + 1
             x == a[k + 1]
             v == k + 1 \in Values(a)
  <2>1. k \in 1 .. n - 1 /\ k - 1 = m /\ (k + 1) - 1 = k /\ k \in Nat /\ k >= 1 /\ k <= n
    BY <1>1
  <2>2. C(k)
    <3> HIDE DEF C
    <3> QED BY <1>5, <2>1
  <2> HIDE DEF k
  <2>3. o[k] = ParseNext(o[k - 1], x)
    <3>1. o[k] = ParseNext(o[k - 1], t[k])
      BY <1>3, <2>1 DEF IsReading
    <3> QED BY <1>2, <2>1, <3>1
  <2>4. BadUpto(a, k + 1) <=> BadUpto(a, k) \/ BadArgument(x, v, a[k])
    <3>1. 2 .. k + 1 = 2 .. k \cup {k + 1}
      BY <2>1
    <3> QED BY <2>1, <3>1, Zenon DEF BadUpto
  <2>5. C(k + 1)
    <3>1. CASE BadUpto(a, k)
      <4>1. Refuses(o[k - 1])
        BY <2>2, <3>1
      <4>2. o[k] = o[k - 1]
        BY <2>3, <4>1 DEF ParseNext, Refuses
      <4> QED BY <2>1, <2>4, <3>1, <4>1, <4>2
    <3>2. CASE ~BadUpto(a, k)
      <4>1. Upto(o[k - 1], a, k)
        BY <2>2, <3>2
      <4>2. CASE BadArgument(x, v, a[k])
        <5>1. Expects(o[k - 1], x, v, a[k]) /\ v \in BOOLEAN
          BY <1>1, <2>1, <4>1, ArgumentExpected DEF n
        <5>2. Refuses(ParseNext(o[k - 1], x))
          BY <4>2, <5>1, OneArgument
        <5> QED BY <2>1, <2>3, <2>4, <4>2, <5>2
      <4>3. CASE ~BadArgument(x, v, a[k])
        <5>1. Upto(ParseNext(o[k - 1], x), a, k + 1)
          BY <1>1, <2>1, <4>1, <4>3, UptoStep DEF n
        <5> QED BY <2>1, <2>3, <2>4, <3>2, <4>3, <5>1
      <4> QED BY <4>2, <4>3
    <3> QED BY <3>1, <3>2
  <2> QED BY <2>5 DEF k
<1>6. C(n)
  <2> HIDE DEF C
  <2>1. \A m \in Nat : m \in T => m + 1 \in T
    BY <1>5
  <2>2. Nat \subseteq T
    <3> HIDE DEF T
    <3> QED BY <1>4, <2>1, Induction
  <2>3. n - 1 \in T /\ (n - 1) + 1 = n
    BY <1>1, <2>2
  <2> QED BY <1>1, <2>3
<1>7. FoldLeft(ParseNext, DefaultOptions, t) = o[n - 1]
  BY <1>3 DEF IsReading
<1> QED BY <1>6, <1>7, Zenon DEF n, t

-----------------------------------------------------------------------------
(* The meaning of the whole command line.                                  *)

Listed(a, R) == [m \in 1 .. Cardinality(R) |-> a[CHOOSE i \in R : Rank(R, i) = m]]

LEMMA ListIs ==
    ASSUME NEW a, NEW R, NEW s, Lists(s, a, R)
    PROVE  s = Listed(a, R) /\ Len(s) = Len(Listed(a, R))
<1> DEFINE p(m) == CHOOSE i \in R : Rank(R, i) = m
<1>1. /\ s \in Seq({a[i] : i \in 1 .. Len(a)}) /\ Len(s) = Cardinality(R)
      /\ \A i \in R : s[Rank(R, i)] = a[i]
      /\ \A m \in 1 .. Len(s) : \E i \in R : Rank(R, i) = m
  BY DEF Lists
<1>2. ASSUME NEW m \in 1 .. Len(s) PROVE s[m] = a[p(m)]
  <2>1. p(m) \in R /\ Rank(R, p(m)) = m
    BY <1>1
  <2> HIDE DEF p
  <2> QED BY <1>1, <2>1
<1>3. s = [m \in 1 .. Len(s) |-> s[m]]
  BY <1>1
<1>4. s = [m \in 1 .. Len(s) |-> a[p(m)]]
  <2> HIDE DEF p
  <2> QED BY <1>2, <1>3
<1>5. s = Listed(a, R)
  BY <1>1, <1>4, Zenon DEF Listed
<1> QED BY <1>5, Zenon

\* The definition of what is meant, with the names of these proofs.
LEMMA MeantIs ==
    ASSUME NEW a, Len(a) \in Nat
    PROVE  MeantOptions(a) =
              [full   |-> LastOf(a, Displays(a, Len(a)), "--full") # "--table",
               tap    |-> Taps(a, Len(a)) # {},
               html   |-> LastOf(a, Formats(a, Len(a)), "--tap=text") \in {"html", "--tap=html"},
               limit  |-> LimitIn(LastOf(a, Limits(a, Len(a)), Absent)),
               positionals |-> Listed(a, Rest(a, Len(a)))]
<1> DEFINE n == Len(a)
           values == Values(a)
           free == 2 .. n \ values
           limits == {i \in values : a[i - 1] = "--limit"} \cup {i \in free : a[i] \in DOMAIN LimitArguments}
           limit == LastOf(a, limits, Absent)
           formats == (values \ limits) \cup {i \in free : a[i] \in {"--tap=html", "--tap=text"}}
           rest == {i \in free : a[i] \notin Options}
<1>1. MeantOptions(a) =
        [full   |-> LastOf(a, {i \in free : a[i] \in DisplayOptions}, "--full") # "--table",
         tap    |-> \E i \in free : a[i] \in {"--tap", "--tap=html", "--tap=text"},
         html   |-> LastOf(a, formats, "--tap=text") \in {"html", "--tap=html"},
         limit  |-> LimitIn(limit),
         positionals |-> Listed(a, rest)]
  BY Zenon DEF MeantOptions, LimitIn, Listed, Rank
<1>2. values \subseteq 1 .. n
  BY ValuesAre
<1>3. free = Free(a, n)
  BY Zenon DEF Free
<1>4. \A i \in values : i <= n /\ i \notin free
  BY <1>2
<1> HIDE DEF free, values
<1>5. limits = Limits(a, n)
  BY <1>3, <1>4 DEF Limits, values
<1>6. formats = Formats(a, n)
  <2>1. \A i \in values : i \in limits <=> a[i - 1] = "--limit"
    BY <1>4
  <2> HIDE DEF limits
  <2>2. values \ limits = {i \in values : i <= n /\ a[i - 1] # "--limit"}
    BY <1>4, <2>1
  <2> QED BY <1>3, <2>2, Zenon DEF Formats, values
<1>7. {i \in free : a[i] \in DisplayOptions} = Displays(a, n)
  BY <1>3, Zenon DEF Displays
<1>8. rest = Rest(a, n)
  BY <1>3, Zenon DEF Rest
<1>9. (\E i \in free : a[i] \in {"--tap", "--tap=html", "--tap=text"}) = (Taps(a, n) # {})
  <2>1. Taps(a, n) = {i \in free : a[i] \in {"--tap", "--tap=html", "--tap=text"}}
    BY <1>3, Zenon DEF Taps
  <2> QED BY <2>1
<1> HIDE DEF limits, formats, rest
<1> QED BY <1>1, <1>5, <1>6, <1>7, <1>8, <1>9, Zenon

LEMMA OptionsRead ==
    ASSUME NEW A, NEW a \in Seq(A), a # <<>>
    PROVE  LET options == ParseSearchOptions(a)
               meant   == MeantOptions(a)
           IN  /\ options.bad <=> ~Understandable(a)
               /\ ~options.bad => \A field \in DOMAIN meant : options[field] = meant[field]
<1> DEFINE n == Len(a)
           options == ParseSearchOptions(a)
           meant == MeantOptions(a)
           ends == n > 1 /\ Last(a) = "--limit" /\ n \notin Values(a)
<1>1. n \in Nat /\ n >= 1 /\ Last(a) = a[n]
  BY DEF Last
<1>2. PICK o : /\ FoldLeft(ParseNext, DefaultOptions, Tail(a)) = o
               /\ IF BadUpto(a, n) THEN Refuses(o) ELSE Upto(o, a, n)
  BY OptionsUpto, Zenon
<1>3. options = [o EXCEPT !.bad = @ \/ o.wants = "limit" \/ Len(o.positionals) \notin 1 .. 2]
  BY <1>2, Zenon DEF ParseSearchOptions
<1>4. BadUpto(a, n) <=> \E i \in 2 .. n :
          \/ i \in Values(a) /\ a[i - 1] = "--limit" /\ a[i] \notin Numbers
          \/ i \notin Values(a) /\ a[i] \in TapArguments
          \/ i \notin Values(a) /\ a[i] \in DOMAIN LimitArguments /\ LimitArguments[a[i]] \notin Numbers
  BY Zenon DEF BadUpto, BadArgument
<1>5. Understandable(a) <=> n > 1 /\ ~ends /\ Len(meant.positionals) \in 1 .. 2 /\ ~BadUpto(a, n)
  BY <1>4, Zenon DEF Understandable
<1> HIDE DEF ends, options, meant, n
<1>6. CASE BadUpto(a, n)
  <2>1. "bad" \in DOMAIN o /\ o.bad = TRUE
    BY <1>2, <1>6 DEF Refuses, Fields
  <2>2. options.bad
    BY <1>3, <2>1, Zenon
  <2>3. ~Understandable(a)
    BY <1>5, <1>6, Zenon
  <2> QED BY <2>2, <2>3, Zenon DEF options, meant
<1>7. CASE ~BadUpto(a, n)
  <2>1. Upto(o, a, n)
    BY <1>2, <1>7
  <2>2. DOMAIN o = Fields /\ o.bad = FALSE
    BY <2>1 DEF Upto
  <2>3. meant = [full |-> o.full, tap |-> o.tap, html |-> o.html, limit |-> o.limit,
                 positionals |-> o.positionals]
    <3>1. o.positionals = Listed(a, Rest(a, n))
      BY <2>1, ListIs DEF Upto
    <3>2. meant = [full   |-> LastOf(a, Displays(a, n), "--full") # "--table",
                   tap    |-> Taps(a, n) # {},
                   html   |-> LastOf(a, Formats(a, n), "--tap=text") \in {"html", "--tap=html"},
                   limit  |-> LimitIn(LastOf(a, Limits(a, n), Absent)),
                   positionals |-> Listed(a, Rest(a, n))]
      BY <1>1, MeantIs, Zenon DEF meant, n
    <3>3. /\ o.full = (LastOf(a, Displays(a, n), "--full") # "--table")
          /\ o.tap = (Taps(a, n) # {})
          /\ o.html = (LastOf(a, Formats(a, n), "--tap=text") \in {"html", "--tap=html"})
          /\ o.limit = LimitIn(LastOf(a, Limits(a, n), Absent))
      BY <2>1, Zenon DEF Upto
    <3> QED BY <3>1, <3>2, <3>3, Zenon
  <2>4. options.bad <=> o.wants = "limit" \/ Len(o.positionals) \notin 1 .. 2
    <3>1. "bad" \in DOMAIN o
      BY <2>2 DEF Fields
    <3>2. options.bad = (o.bad \/ o.wants = "limit" \/ Len(o.positionals) \notin 1 .. 2)
      BY <1>3, <3>1, Zenon
    <3> QED BY <2>2, <3>2, Zenon
  <2>5. o.wants = "limit" <=> ends
    <3>1. o.wants = (IF n = 1 THEN "nothing" ELSE WantedAfter(a[n], n \in Values(a)))
      BY <2>1 DEF Upto
    <3>2. n = 1 <=> ~(n > 1)
      BY <1>1
    <3>3. ends <=> n > 1 /\ a[n] = "--limit" /\ n \notin Values(a)
      BY <1>1, Zenon DEF ends
    <3> QED BY <3>1, <3>2, <3>3 DEF WantedAfter
  <2>6. n = 1 => Len(o.positionals) \notin 1 .. 2
    <3>1. ASSUME n = 1 PROVE Rest(a, n) = {}
      BY <3>1 DEF Rest, Free
    <3>2. Len(o.positionals) = Cardinality(Rest(a, n))
      BY <2>1 DEF Upto, Lists
    <3>3. Cardinality({}) = 0 /\ 0 \notin 1 .. 2
      BY FS_EmptySet
    <3> QED BY <3>1, <3>2, <3>3, Zenon
  <2>7. meant.positionals = o.positionals
    BY <2>3
  <2>8. options.bad <=> ~Understandable(a)
    <3>1. n = 1 <=> ~(n > 1)
      BY <1>1
    <3> QED BY <1>5, <1>7, <2>4, <2>5, <2>6, <2>7, <3>1, Zenon
  <2>9. \A field \in DOMAIN meant : options[field] = meant[field]
    <3>1. \A field \in DOMAIN meant : field \in Fields /\ field # "bad" /\ meant[field] = o[field]
      BY <2>3 DEF Fields
    <3>2. \A field \in Fields : field # "bad" => options[field] = o[field]
      BY <1>3, <2>2
    <3> QED BY <3>1, <3>2, Zenon
  <2> QED BY <2>8, <2>9, Zenon DEF options, meant
<1> QED BY <1>6, <1>7

-----------------------------------------------------------------------------
\* Where the command line comes from.
LineInv ==
    /\ commands \in Nat
    /\ arguments = <<>> \/ \E i \in 1 .. Len(CommandLines) : arguments \in CommandLines[i]

LEMMA NextLine == LineInv /\ [Next]_vars => LineInv'
<1> SUFFICES ASSUME LineInv, [Next]_vars PROVE LineInv'
  OBVIOUS
<1>1. ASSUME UNCHANGED <<commands, arguments>> PROVE LineInv'
  BY <1>1 DEF LineInv
<1>2. ASSUME commands' = commands, arguments' = <<>> PROVE LineInv'
  BY <1>2 DEF LineInv
<1>3. ASSUME End PROVE LineInv'
  BY <1>2, <1>3 DEF End
<1>4. ASSUME NEW f \in Files, Change(f) PROVE LineInv'
  BY <1>1, <1>4 DEF Change, Changed, typed
<1>5. ASSUME NEW mount, MountOrUnmount(mount) PROVE LineInv'
  BY <1>1, <1>5 DEF MountOrUnmount, Changed, typed
<1>6. ASSUME NEW extracts \in BOOLEAN, Start(extracts) PROVE LineInv'
  <2>1. commands < Len(CommandLines) /\ commands' = commands + 1 /\ arguments' \in CommandLines[commands']
    BY <1>6 DEF Start
  <2>2. Len(CommandLines) \in Nat
    BY BoundsAssumption
  <2>3. commands' \in Nat /\ commands' \in 1 .. Len(CommandLines)
    BY <2>1, <2>2 DEF LineInv
  <2> QED BY <2>1, <2>3 DEF LineInv
<1>7. CASE Kill \/ BadConfig \/ Usage \/ EmptyPath \/ DriveFails \/ IndexSize \/ Fail
             \/ EmptyQuery \/ SearchIndex \/ SearchManifests
  BY <1>3, <1>7, EndingSteps
<1>8. CASE SaveIndex
  BY <1>3, <1>8 DEF SaveIndex
<1>9. ASSUME NEW path, NEW at, Begin(path, at) PROVE LineInv'
  BY <1>2, <1>9 DEF Begin
<1>10. CASE BeginDrive
  BY <1>9, <1>10 DEF BeginDrive
<1>11. CASE BeginNative
  BY <1>9, <1>11, Zenon DEF BeginNative
<1>12. CASE List \/ Rebuild \/ MissIndex \/ Gather \/ Open \/ SaveManifest
  BY <1>1, <1>12 DEF List, Rebuild, MissIndex, Gather, Open, SaveManifest, typed
<1>13. ASSUME NEW f \in Files, Keep(f) \/ Extract(f) PROVE LineInv'
  BY <1>1, <1>13 DEF Keep, Extract, typed
<1>14. CASE UNCHANGED vars
  BY <1>1, <1>14 DEF vars
<1> QED BY <1>4, <1>5, <1>6, <1>7, <1>8, <1>10, <1>11, <1>12, <1>13, <1>14 DEF Next, Users, Process

\* However long the command line is and whatever stands where: the parser, which goes
\* through it once and remembers one option, refuses exactly the lines that cannot be
\* understood, and of any other takes each option with its own value, the last of a
\* kind, and what is left as directory and query (parse_search_options).
THEOREM OptionsAreAsMeant == Spec => []OptionsAsMeant
<1>1. Init => LineInv
  BY DEF Init, LineInv
<1>2. LineInv => OptionsAsMeant
  <2> SUFFICES ASSUME LineInv, arguments # <<>> PROVE OptionsAsMeant
    BY DEF OptionsAsMeant
  <2>1. PICK i \in 1 .. Len(CommandLines) : arguments \in CommandLines[i]
    BY DEF LineInv
  <2>2. arguments \in Seq(STRING)
    <3>1. CommandLines[i] \in SUBSET Seq(STRING)
      BY <2>1, BoundsAssumption
    <3> QED BY <2>1, <3>1
  <2> QED BY <2>2, OptionsRead, Zenon DEF OptionsAsMeant
<1> QED BY <1>1, <1>2, NextLine, PTL DEF Spec

=============================================================================
