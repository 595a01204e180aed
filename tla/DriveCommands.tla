--------------------------- MODULE DriveCommands ---------------------------
(***************************************************************************)
(* The commands of crumb on directories that may be Google Drive mounts:   *)
(* `crumb scan', `search' and `index_size' keep their files in the         *)
(* directories themselves, `crumb index drive' and `crumb search drive' in *)
(* a cache per root.  Both use the same ReconcileDirectory,                *)
(* RebuildSearchIndex and SearchManifest, with different repositories.     *)
(*                                                                         *)
(* One command runs at a time and may be killed between any two steps;     *)
(* files change and mounts come and go meanwhile.  Interleaved scans,      *)
(* renamed files and the saving of single files are the subject of         *)
(* ScanSystem, Reconcile and AtomicSave.                                   *)
(***************************************************************************)
EXTENDS CommandLine

CONSTANTS
    Tree,          \* the directories, as sequences of names; those of length 1 are mounts
    Spelled,       \* the strings that name directories, with the directories
    MountNames,    \* the strings discover_mount returns, by mount
    Files,         \* the files: [dir |-> .., name |-> .., kind |-> "text" or "office"]
    Configs,       \* contents of ~/.crumb.conf
    Queries,       \* the queries that have a word
    CommandLines,  \* a sequence, bounding the commands: what users type first, second, ..
    MaxChanges     \* bound: files that change and mounts that come or go

ASSUME TreeAssumption == Tree \subseteq Seq(STRING) /\ \A path \in DOMAIN Spelled : Spelled[path] \in Seq(STRING)
\* No directory has two files of one name.
ASSUME FilesAssumption == \A f, g \in Files : f.dir = g.dir /\ f.name = g.name => f = g
ASSUME BoundsAssumption == CommandLines \in Seq(SUBSET Seq(STRING)) /\ MaxChanges \in Nat
ASSUME UnsetAssumption  == "unset" \notin DOMAIN Spelled

VARIABLES
    files,       \* per file its version, 0 if there is none
    mounts,      \* the mounts that are there
    manifests,   \* `.crumb' files: per place the entries by name
    indexes,     \* `.crumb.index' files: per place the documents
    pc,          \* where the command stands
    config,      \* the lines of ~/.crumb.conf
    arguments,   \* its command line
    content,     \* whether CRUMB_DRIVE_CONTENT is 1
    command,     \* what it means
    sourceRoot,  \* `source_root_' of DriveManifestRepository
    cacheRoot,   \* `cache_root_' of DriveSearchIndexRepository
    dirs,        \* the directories still to be visited, relative to the root
    snapshots,   \* the files of the current one that were listed, with versions
    entries,     \* its manifest
    documents,   \* what the index builder holds
    answer,      \* the documents the last search looked at
    commands,    \* commands that were started
    changes,     \* changes that users made
    recorded,    \* history: the roots that were indexed and have not changed since
    quiet,       \* history: nothing has changed since this command listed the directories
    failed       \* history: files whose text this command could not get

vars == <<files, mounts, manifests, indexes, pc, config, arguments, content, command, sourceRoot,
          cacheRoot, dirs, snapshots, entries, documents, answer, commands, changes,
          recorded, quiet, failed>>

world   == <<files, mounts, changes>>
storage == <<manifests, indexes>>
plugin  == <<sourceRoot, cacheRoot>>
work    == <<dirs, snapshots, entries, documents, failed, quiet>>
typed   == <<config, arguments, content, command>>

Nothing == <<>>               \* a manifest without entries, a directory relative to itself
NoRoot  == "unset"            \* a std::optional without a value
NoTerms == "unread"
NoAnswer == {[dir |-> <<>>, name |-> "", version |-> 0, terms |-> NoTerms]}
Cached  == "cache"

\* A file system with one more file, or another one in its place.
Put(fs, place, value) ==
    [p \in DOMAIN fs \cup {place} |-> IF p = place THEN value ELSE fs[p]]

Root     == command.path
Physical(rel) == Spelled[Root] \o rel
IsDirectory(path) == path \in DOMAIN Spelled /\ SubSeq(Spelled[path], 1, 1) \in mounts
Key      == <<command.source, Root>>

\* The directories that are not entered, natively and by DriveFileSystem.
IgnoredNatively == {".git", ".obsidian", ".claude"}
Ignored ==
    IF command.source = "native" THEN IgnoredNatively
    ELSE IgnoredNatively \cup {".Trash", ".tmp", ".shortcut-targets-by-id"}

\* Below a root, relative to it; an ignored root is entered.
ListDirectories ==
    {rel \in {SubSeq(d, Len(Spelled[Root]) + 1, Len(d)) : d \in Tree} :
        Physical(rel) \in Tree /\ Range(rel) \cap Ignored = {}}

\* Variant: one directory of the cache holds the manifests of all directories.
CachePathFlat(rel) == [owner |-> <<Cached, sourceRoot>>, path |-> Nothing]

\* Variant: the manifest is saved at its own path instead.
CachePathOfSource(rel) == [owner |-> <<"directory">>, path |-> Physical(rel)]

\* DriveManifestRepository::cache_path keeps the place of a directory below the root.
CachePath(rel) == [owner |-> <<Cached, sourceRoot>>, path |-> rel]
InPlace(rel)   == [owner |-> <<"directory">>, path |-> Physical(rel)]

ManifestPlace(rel) == IF command.source = "drive" THEN CachePath(rel) ELSE InPlace(rel)
IndexPlace ==
    IF command.source = "drive" THEN [owner |-> <<Cached, cacheRoot>>, path |-> Nothing]
    ELSE InPlace(Nothing)

\* What lies in a directory is out of reach without its mount, the cache is not.
Reachable == command.source = "drive" \/ IsDirectory(Root)
Load(rel) ==
    IF Reachable /\ ManifestPlace(rel) \in DOMAIN manifests THEN manifests[ManifestPlace(rel)] ELSE Nothing

Document(rel, name, entry) ==
    [dir |-> Physical(rel), name |-> name, version |-> entry.version, terms |-> entry.terms]
Documents(rel, es) == {Document(rel, name, es[name]) : name \in DOMAIN es}

\* Variant: files that are gone are listed.
FilesEverIn(dir) == {f \in Files : f.dir = dir}

FilesIn(dir) == {f \in Files : f.dir = dir /\ files[f] # 0}
-----------------------------------------------------------------------------
(* Users.                                                                  *)

Init ==
    /\ files \in [Files -> {1}] /\ mounts \in SUBSET {d \in Tree : Len(d) = 1}
    /\ manifests = <<>> /\ indexes = <<>>
    /\ pc = "shell" /\ config \in Configs /\ arguments = <<>> /\ content = FALSE
    /\ command = Refused /\ sourceRoot = NoRoot /\ cacheRoot = NoRoot
    /\ dirs = {} /\ snapshots = <<>> /\ entries = Nothing /\ documents = {}
    /\ answer = NoAnswer /\ commands = 0 /\ changes = 0
    /\ recorded = {} /\ quiet = FALSE /\ failed = {}

Changed ==
    /\ changes < MaxChanges
    /\ changes' = changes + 1 /\ recorded' = {} /\ quiet' = FALSE
    /\ UNCHANGED <<storage, plugin, dirs, snapshots, entries, documents, failed, typed, pc, answer,
                   commands>>

Change(f) ==
    /\ Changed /\ SubSeq(f.dir, 1, 1) \in mounts
    /\ \E version \in {0, changes + 2} : files[f] # version /\ files' = [files EXCEPT ![f] = version]
    /\ UNCHANGED mounts

MountOrUnmount(mount) ==
    /\ Changed
    /\ mounts' = (mounts \ {mount}) \cup ({mount} \ mounts)
    /\ UNCHANGED files

\* A new process has its own plugin, whose roots are not configured.
Start(extracts) ==
    /\ pc = "shell" /\ commands < Len(CommandLines)
    /\ commands' = commands + 1
    /\ pc' = "route" /\ arguments' \in CommandLines[commands'] /\ content' = extracts
    /\ answer' = NoAnswer
    /\ UNCHANGED <<world, storage, plugin, work, config, command, recorded>>

\* What a process held is gone when it ends, in whatever way.
End ==
    /\ pc' = "shell"
    /\ arguments' = <<>> /\ content' = FALSE /\ command' = Refused
    /\ sourceRoot' = NoRoot /\ cacheRoot' = NoRoot
    /\ dirs' = {} /\ snapshots' = <<>> /\ entries' = Nothing /\ documents' = {} /\ failed' = {}
    /\ quiet' = FALSE
    /\ UNCHANGED <<world, config, commands>>
Stop == End /\ UNCHANGED <<storage, answer, recorded>>

Kill == pc # "shell" /\ Stop
-----------------------------------------------------------------------------
(* main, CommandRouter::run and the beginning of each command.             *)

BadConfig == pc = "route" /\ LoadConfig(config).bad /\ Stop

Routed == Route(LoadConfig(config).aliases, arguments)
Routing == pc = "route" /\ ~LoadConfig(config).bad

Usage == Routing /\ Routed = Refused /\ Stop

\* DirectoryPath::create throws at an empty path, and nothing catches it.
EmptyPath == Routing /\ Routed # Refused /\ Routed.source = "native" /\ Routed.path = "" /\ Stop

\* GoogleDrivePlugin::resolve and discover_mount: one mount, or a directory that was given.
Resolves(path) ==
    IF Routed.path # Absent THEN path = Routed.path /\ IsDirectory(path)
    ELSE mounts # {} /\ \A mount \in mounts : path = MountNames[mount]

Begin(path, at) ==
    /\ command' = Command(Routed.name, Routed.source, path, Routed.query)
    /\ pc' = at /\ arguments' = <<>>
    /\ UNCHANGED <<world, storage, work, config, content, answer, commands, recorded>>

DriveFails == Routing /\ Routed.source = "drive" /\ (~\E p \in DOMAIN Spelled : Resolves(p)) /\ Stop

\* Variant: only the manifests are told the root.
BeginDriveWithoutIndex ==
    /\ Routing /\ Routed.source = "drive"
    /\ \E path \in DOMAIN Spelled :
          /\ Resolves(path)
          /\ Begin(path, IF Routed.name = "search" THEN "query" ELSE "list")
          /\ sourceRoot' = path /\ UNCHANGED cacheRoot

\* index and search set the roots of both repositories.
BeginDrive ==
    /\ Routing /\ Routed.source = "drive"
    /\ \E path \in DOMAIN Spelled :
          /\ Resolves(path)
          /\ Begin(path, IF Routed.name = "search" THEN "query" ELSE "list")
          /\ sourceRoot' = path /\ cacheRoot' = path

BeginNative ==
    /\ Routing /\ Routed # Refused /\ Routed.source = "native" /\ Routed.path # ""
    /\ Begin(Routed.path,
             CASE Routed.name = "search" -> "query" [] Routed.name = "scan" -> "list" [] OTHER -> "size")
    /\ UNCHANGED plugin

\* It looks at the native index only, and changes nothing.
IndexSize == pc = "size" /\ Stop
-----------------------------------------------------------------------------
(* crumb scan and crumb index drive.                                       *)

Working(at) == pc = at /\ IsDirectory(Root)

\* A directory that cannot be listed, a file that cannot be read or written.
Fail == pc \in {"list", "open", "save", "rebuild", "gather", "publish", "fallback"} /\ Stop

List ==
    /\ Working("list")
    /\ pc' = "open" /\ dirs' = ListDirectories
    /\ quiet' = TRUE
    /\ UNCHANGED <<world, storage, plugin, typed, snapshots, entries, documents, failed, answer,
                   commands, recorded>>

\* A directory at a time, in a fixed order.
Current == CHOOSE rel \in dirs : TRUE

\* The manifest and the files are read; entries whose file is gone are dropped at the end.
Open ==
    /\ Working("open") /\ dirs # {}
    /\ entries' = Load(Current)
    /\ snapshots' = [f \in FilesIn(Physical(Current)) |-> files[f]]
    /\ pc' = "save"
    /\ UNCHANGED <<world, storage, plugin, typed, dirs, documents, failed, quiet, answer, commands,
                   recorded>>

\* Plain text is read, Office files only on request and only for the Drive.
MayExtract(f) ==
    /\ IsDirectory(Root) /\ files[f] # 0
    /\ f.kind = "text" \/ (command.source = "drive" /\ content)

\* Variant: the terms of an Office file are only kept while such files are read.
KeepsWhatIsRead(f) ==
    /\ f.name \in DOMAIN entries /\ entries[f.name].version = snapshots[f]
    /\ entries[f.name].terms # NoTerms /\ MayExtract(f)

\* Variant: an entry without terms is kept as well.
KeepsWithoutTerms(f) == f.name \in DOMAIN entries /\ entries[f.name].version = snapshots[f]

\* An entry that agrees with the file and has terms is kept.
Keeps(f) ==
    /\ f.name \in DOMAIN entries /\ entries[f.name].version = snapshots[f]
    /\ entries[f.name].terms # NoTerms

Keep(f) ==
    /\ pc = "save" /\ f \in DOMAIN snapshots /\ Keeps(f)
    /\ snapshots' = Restrict(snapshots, DOMAIN snapshots \ {f})
    /\ entries' = [entries EXCEPT ![f.name].seen = TRUE]
    /\ UNCHANGED <<world, storage, plugin, typed, pc, dirs, documents, failed, quiet, answer, commands,
                   recorded>>

\* The text is that of the file as it is now; reading it may fail or time out.
Extract(f) ==
    /\ pc = "save" /\ f \in DOMAIN snapshots /\ ~Keeps(f)
    /\ \E terms \in {NoTerms} \cup (IF MayExtract(f) THEN {"terms"} ELSE {}) :
          /\ entries' = Put(entries, f.name, [version |-> snapshots[f], terms |-> terms, seen |-> TRUE])
          /\ failed' = IF terms = NoTerms THEN failed \cup {f} ELSE failed
    /\ snapshots' = Restrict(snapshots, DOMAIN snapshots \ {f})
    /\ UNCHANGED <<world, storage, plugin, typed, pc, dirs, documents, quiet, answer, commands, recorded>>

SaveManifest ==
    /\ pc = "save" /\ Reachable /\ DOMAIN snapshots = {}
    /\ manifests' = Put(manifests, ManifestPlace(Current),
                        [name \in {n \in DOMAIN entries : entries[n].seen} |->
                            [entries[name] EXCEPT !.seen = FALSE]])
    /\ dirs' = dirs \ {Current} /\ entries' = Nothing
    /\ pc' = IF dirs' = {} THEN "rebuild" ELSE "open"
    /\ UNCHANGED <<world, indexes, plugin, typed, snapshots, documents, failed, quiet, answer, commands,
                   recorded>>

Rebuild ==
    /\ Working("rebuild")
    /\ pc' = "gather" /\ dirs' = ListDirectories
    /\ UNCHANGED <<world, storage, plugin, typed, snapshots, entries, documents, failed, quiet, answer,
                   commands, recorded>>

Gather ==
    /\ pc = "gather" /\ dirs # {}
    /\ documents' = documents \cup Documents(Current, Load(Current))
    /\ dirs' = dirs \ {Current}
    /\ pc' = IF dirs' = {} THEN "publish" ELSE "gather"
    /\ UNCHANGED <<world, storage, plugin, typed, snapshots, entries, failed, quiet, answer, commands,
                   recorded>>

SaveIndex ==
    /\ pc = "publish" /\ Reachable
    /\ indexes' = Put(indexes, IndexPlace, documents)
    /\ recorded' = IF quiet THEN recorded \cup {Key} ELSE recorded \ {Key}
    /\ End
    /\ UNCHANGED <<manifests, answer>>
-----------------------------------------------------------------------------
(* crumb search.                                                           *)

EmptyQuery == pc = "query" /\ command.query \notin Queries /\ Stop

\* Natively the index lies in the directory and can only be read if that is there.
HasIndex ==
    /\ Reachable
    /\ command.source = "native" \/ cacheRoot # NoRoot
    /\ IndexPlace \in DOMAIN indexes

Answer(docs) == answer' = docs /\ End /\ UNCHANGED <<storage, recorded>>

SearchIndex == pc = "query" /\ command.query \in Queries /\ HasIndex /\ Answer(indexes[IndexPlace])

MissIndex ==
    /\ pc = "query" /\ command.query \in Queries /\ ~HasIndex
    /\ pc' = "fallback"
    /\ UNCHANGED <<world, storage, plugin, typed, work, answer, commands, recorded>>

SearchManifests ==
    /\ Working("fallback")
    /\ Answer(UNION {Documents(rel, Load(rel)) : rel \in ListDirectories})
-----------------------------------------------------------------------------
Users ==
    \/ \E f \in Files : Change(f)
    \/ \E mount \in {d \in Tree : Len(d) = 1} : MountOrUnmount(mount)
    \/ \E extracts \in BOOLEAN : Start(extracts)
    \/ Kill

Process ==
    \/ BadConfig \/ Usage \/ EmptyPath \/ DriveFails \/ BeginDrive \/ BeginNative
    \/ IndexSize \/ Fail
    \/ List \/ Open \/ (\E f \in Files : Keep(f) \/ Extract(f)) \/ SaveManifest
    \/ Rebuild \/ Gather \/ SaveIndex
    \/ EmptyQuery \/ SearchIndex \/ MissIndex \/ SearchManifests

Next == Users \/ Process

Spec == Init /\ [][Next]_vars
-----------------------------------------------------------------------------
(* Properties.                                                             *)

Entry == [version : Nat \ {0}, terms : {NoTerms, "terms"}, seen : BOOLEAN]
IsDocument(d) == d.dir \in Tree /\ d.version \in Nat \ {0} /\ d.terms \in {NoTerms, "terms"}

TypeOK ==
    /\ files \in [Files -> 0 .. MaxChanges + 1] /\ mounts \subseteq Tree
    /\ \A p \in DOMAIN manifests : \A n \in DOMAIN manifests[p] :
          manifests[p][n] \in Entry /\ ~manifests[p][n].seen
    /\ \A p \in DOMAIN indexes : \A d \in indexes[p] : IsDocument(d)
    /\ DOMAIN snapshots \subseteq Files /\ \A f \in DOMAIN snapshots : snapshots[f] \in Nat \ {0}
    /\ \A d \in documents : IsDocument(d)
    /\ \A n \in DOMAIN entries : entries[n] \in Entry
    /\ changes \in 0..MaxChanges

\* Search options are read as the whole command line says: each option with its own
\* value, the last one of a kind, and what is left as directory and query.
OptionsAsMeant ==
    pc = "route" /\ arguments # <<>> /\ Head(arguments) = "search" =>
        LET options == ParseSearchOptions(arguments)
            meant   == MeantOptions(arguments)
        IN  /\ options.bad <=> ~Understandable(arguments)
            /\ ~options.bad => \A field \in DOMAIN meant : options[field] = meant[field]

\* A Drive command works with both of its repositories at the root it was started on,
\* never at none, which a search would take for a missing index.
RootsAgree ==
    pc \notin {"shell", "route"} /\ command.source = "drive" => sourceRoot = Root /\ cacheRoot = Root

\* When a scan or index command has gone through its directories, every entry without
\* text is one whose text this very command asked for in vain: a text that timed out
\* once is asked for again.
TextAskedForAgain ==
    pc \in {"rebuild", "gather", "publish"} =>
        \A rel \in ListDirectories : \A name \in DOMAIN Load(rel) :
            Load(rel)[name].terms = NoTerms => \E f \in failed : f.dir = Physical(rel) /\ f.name = name

\* The text of a file that has not changed is never lost from its manifest, whether
\* later commands can read the file or not.
TextKept ==
    [][\A place \in DOMAIN manifests \cap DOMAIN manifests' :
         \A name \in DOMAIN manifests[place] \cap DOMAIN manifests'[place] :
            LET old == manifests[place][name]
                new == manifests'[place][name]
            IN  old.version = new.version /\ old.terms # NoTerms => new.terms # NoTerms]_vars

Rewritten(old, new) == {place \in DOMAIN new : place \notin DOMAIN old \/ new[place] # old[place]}

Places == Rewritten(manifests, manifests') \cup Rewritten(indexes, indexes')
OwnPlaces == {place \in Places :
                place.owner = IF command.source = "drive" THEN <<Cached, Root>> ELSE <<"directory">>}

\* Only scan and index write, and Drive commands write to the cache of their root alone:
\* nothing appears in a mount, and nothing of another root or of a native scan is touched.
StorageApart ==
    [][/\ Places # {} => command.name \in {"scan", "index"}
       /\ Places \subseteq OwnPlaces]_vars

FilesBelowRoot ==
    UNION {{[dir |-> f.dir, name |-> f.name, version |-> files[f]] : f \in FilesIn(Physical(rel))} :
             rel \in ListDirectories}

\* Once a root has been indexed and nothing has changed since, every search of it looks at
\* exactly the files below it, whatever commands ran or died in between, on this root or
\* on others, natively or for the Drive.
IndexedIsFound ==
    [][answer' # answer /\ answer' # NoAnswer /\ Key \in recorded =>
         {[dir |-> d.dir, name |-> d.name, version |-> d.version] : d \in answer'} = FilesBelowRoot]_vars
=============================================================================
