------------------------------ MODULE ScanSystem ------------------------------
(***************************************************************************)
(* `crumb scan' and `crumb search' on a tree of directories.  A scan       *)
(* reconciles the manifest of every directory and then rebuilds the index  *)
(* at its root; a search answers from that index, or from the manifests    *)
(* when it cannot be loaded.  Commands are processes of their own; they    *)
(* overlap with each other and with users changing the tree.               *)
(*                                                                         *)
(* The reconciliation of one directory is taken from Reconcile: it saves   *)
(* the files it saw, and may do worse only when one of them is new to the  *)
(* manifest and is not the only one.                                       *)
(***************************************************************************)
EXTENDS Integers, FiniteSets, FiniteSetsExt

CONSTANTS
    Dirs,        \* directories, numbered in the order of their paths
    Under,       \* Under[d]: d and the directories below it
    Names,       \* file names
    Leftover,    \* the name `.crumb.index.tmp'
    Scanners,    \* processes that run `crumb scan'
    Searchers,   \* processes that run `crumb search'
    Nothing,     \* no index that can be read
    MaxChanges   \* bound: changes made by users, and index files abandoned

ASSUME DirsAssumption == Dirs \subseteq Nat /\ Dirs # {} /\ IsFiniteSet(Dirs)
ASSUME UnderAssumption ==
    /\ Under \in [Dirs -> SUBSET Dirs]
    /\ \A d \in Dirs : d \in Under[d]
    /\ \A d, e \in Dirs : e \in Under[d] => d <= e
    /\ \A d, e \in Dirs : Under[e] \subseteq Under[d] \/ Under[d] \subseteq Under[e]
                            \/ Under[d] \cap Under[e] = {}
ASSUME ChangesAssumption == MaxChanges \in Nat
ASSUME NamesAssumption == Leftover \notin Names
ASSUME ProcessesAssumption == Scanners \cap Searchers = {}

VARIABLES
    present,   \* the directories that are there
    files,     \* per directory: the version of each file, 0 when there is none
    leftover,  \* the directories holding an abandoned `.crumb.index.tmp'
    changes,   \* changes made so far; the last one numbers the newest version
    manifest,  \* per directory: the records in `.crumb', none when it is missing
    index,     \* per directory: the documents in `.crumb.index'
    pc, root,  \* per process: where it stands, the directory it was given
    todo,      \* per process: the directories still to visit
    seen,      \* per process: the listing being reconciled
    built,     \* per process: the documents gathered, or answered
    quiet,     \* history: since this process began nobody has changed the tree, nor
               \* saved a manifest that does not fit it
    exact,     \* history: no reconciliation of this process has lost a record
    fresh      \* history: the tree is as an exact, quiet scan of this root left it

tree    == <<present, files, changes>>
stored  == <<leftover, manifest, index>>
process == <<pc, root, todo, seen, built>>
hist    == <<quiet, exact, fresh>>
vars    == <<tree, stored, process, hist>>

Processes == Scanners \cup Searchers
Record    == [name : Names \cup {Leftover}, ver : Nat]
Document  == [dir : Dirs, name : Names \cup {Leftover}, ver : Nat]

TreeType ==
    /\ present \subseteq Dirs /\ changes \in 0 .. MaxChanges
    /\ files \in [Dirs -> [Names -> 0 .. changes + 1]]

StoreType ==
    /\ leftover \subseteq Dirs
    /\ manifest \in [Dirs -> SUBSET Record]
    /\ index \in [Dirs -> {Nothing} \cup SUBSET Document]

ProcessType ==
    /\ pc \in [Processes -> {"idle", "reconcile", "store", "rebuild",
                             "fallback", "load", "answered"}]
    /\ root \in [Processes -> Dirs] /\ todo \in [Processes -> SUBSET Dirs]
    /\ \A p \in Processes : (pc[p] = "idle" => todo[p] = {}) /\ (pc[p] = "store" => todo[p] # {})
    /\ seen \in [Processes -> SUBSET Record] /\ built \in [Processes -> SUBSET Document]

HistType ==
    /\ quiet \in [Processes -> BOOLEAN] /\ exact \in [Processes -> BOOLEAN]
    /\ fresh \in [Dirs -> BOOLEAN]

TypeOK == TreeType /\ StoreType /\ ProcessType /\ HistType

-----------------------------------------------------------------------------
Listing(d) ==
    {[name |-> n, ver |-> files[d][n]] : n \in {m \in Names : files[d][m] > 0}}
    \cup {[name |-> Leftover, ver |-> 0] : e \in leftover \cap {d}}

DocumentsOf(d, records) ==
    {[dir |-> d, name |-> r.name, ver |-> r.ver] : r \in records}

\* What a manifest contributes, none when its directory is gone.
Contribution(d) == IF d \in present THEN DocumentsOf(d, manifest[d]) ELSE {}

OnDisk(r) == UNION {DocumentsOf(d, Listing(d)) : d \in Under[r] \cap present}
UserFiles(docs) == {doc \in docs : doc.name # Leftover}

\* list_directories_recursive.
Tree(r) == Under[r] \cap present

NamesIn(records) == {r.name : r \in records}

\* ReconcileDirectory::execute on one directory, by what it can save.  When a file is
\* new to the manifest, the position of another record may shift or its place be
\* stolen: one record is lost, an old one kept.
MayLose(old, listed) ==
    ~(NamesIn(listed) \subseteq NamesIn(old)) /\ Cardinality(listed \cup old) > 1

Lossy(old, listed) ==
    {records \in SUBSET (listed \cup old) :
        /\ Cardinality(records) <= Cardinality(listed)
        /\ \A r, s \in records : r.name = s.name => r = s}

Reconciled(old, listed) ==
    {listed} \cup (IF MayLose(old, listed) THEN Lossy(old, listed) ELSE {})

Init ==
    /\ present = Dirs /\ leftover = {} /\ changes = 0
    /\ files = [d \in Dirs |-> [n \in Names |-> 1]]
    /\ manifest = [d \in Dirs |-> {}] /\ index = [d \in Dirs |-> Nothing]
    /\ pc = [p \in Processes |-> "idle"]
    /\ root \in [Processes -> {Min(Dirs)}]
    /\ todo = [p \in Processes |-> {}] /\ seen = [p \in Processes |-> {}]
    /\ built = [p \in Processes |-> {}]
    /\ quiet = [p \in Processes |-> FALSE] /\ exact = [p \in Processes |-> FALSE]
    /\ fresh = [d \in Dirs |-> FALSE]

-----------------------------------------------------------------------------
(***************************************************************************)
(* Users.                                                                  *)
(***************************************************************************)
Disturbed(except) == [p \in Processes |-> quiet[p] /\ p \in except]

Change(d) ==
    /\ changes < MaxChanges /\ changes' = changes + 1
    /\ quiet' = Disturbed({})
    /\ fresh' = [r \in Dirs |-> fresh[r] /\ d \notin Under[r]]
    /\ UNCHANGED <<stored, process, exact>>

Write(d, n) ==
    /\ d \in present /\ Change(d)
    /\ files' = [files EXCEPT ![d][n] = changes + 2]
    /\ UNCHANGED present

Delete(d, n) ==
    /\ d \in present /\ files[d][n] > 0 /\ Change(d)
    /\ files' = [files EXCEPT ![d][n] = 0]
    /\ UNCHANGED present

\* A directory is moved out of the tree, or back with the files it holds.
Detach(d) ==
    /\ d \in present /\ d # Min(Dirs) /\ Change(d)
    /\ present' = present \ Under[d]
    /\ UNCHANGED files

Attach(d) ==
    /\ d \notin present /\ \A a \in Dirs \ {d} : d \in Under[a] => a \in present
    /\ Change(d)
    /\ present' = present \cup {d}
    /\ UNCHANGED files

\* The index is deleted or damaged: load reports an error either way.
LoseIndex(r) ==
    /\ changes < MaxChanges /\ changes' = changes + 1
    /\ index[r] # Nothing
    /\ index' = [index EXCEPT ![r] = Nothing]
    /\ UNCHANGED <<present, files, leftover, manifest, process, hist>>

Users ==
    \/ \E d \in Dirs, n \in Names : Write(d, n) \/ Delete(d, n)
    \/ \E d \in Dirs : Detach(d) \/ Attach(d) \/ LoseIndex(d)

-----------------------------------------------------------------------------
(***************************************************************************)
(* crumb scan.                                                             *)
(***************************************************************************)
At(p, phase) == pc[p] = phase
Goto(p, phase) == pc' = [pc EXCEPT ![p] = phase]
NextDir(p) == Min(todo[p])
Visited(p, d) == todo' = [todo EXCEPT ![p] = @ \ {d}]

\* The command ends; a process keeps nothing.
End(p) ==
    /\ Goto(p, "idle")
    /\ todo' = [todo EXCEPT ![p] = {}] /\ seen' = [seen EXCEPT ![p] = {}]
    /\ built' = [built EXCEPT ![p] = {}] /\ root' = [root EXCEPT ![p] = Min(Dirs)]
    /\ exact' = [exact EXCEPT ![p] = FALSE]

EndQuietly(p) == End(p) /\ quiet' = [quiet EXCEPT ![p] = FALSE] /\ UNCHANGED fresh

Begin(p, r) ==
    /\ At(p, "idle") /\ r \in present
    /\ root' = [root EXCEPT ![p] = r]
    /\ quiet' = [quiet EXCEPT ![p] = TRUE] /\ exact' = [exact EXCEPT ![p] = TRUE]

StartScan(p, r) ==
    /\ Begin(p, r)
    /\ Goto(p, "reconcile")
    /\ todo' = [todo EXCEPT ![p] = Tree(r)]
    /\ UNCHANGED <<tree, stored, seen, built, fresh>>

\* Variant: a directory that is gone is waited for.
ObserveWaiting(p) ==
    /\ At(p, "reconcile") /\ todo[p] # {} /\ NextDir(p) \in present
    /\ seen' = [seen EXCEPT ![p] = Listing(NextDir(p))]
    /\ Goto(p, "store")
    /\ UNCHANGED <<tree, stored, root, todo, built, hist>>

\* The next directory is listed; if it has gone away the whole scan fails.
Observe(p) ==
    /\ At(p, "reconcile") /\ todo[p] # {}
    /\ IF NextDir(p) \in present
       THEN /\ seen' = [seen EXCEPT ![p] = Listing(NextDir(p))]
            /\ Goto(p, "store")
            /\ UNCHANGED <<root, todo, built, hist>>
       ELSE EndQuietly(p)
    /\ UNCHANGED <<tree, stored>>

\* Its manifest is saved.
Store(p) ==
    /\ At(p, "store") /\ NextDir(p) \in present
    /\ LET d == NextDir(p)
       IN  \E records \in Reconciled(manifest[d], seen[p]) :
              /\ manifest' = [manifest EXCEPT ![d] = records]
              /\ exact' = [exact EXCEPT ![p] = @ /\ records = seen[p]]
              /\ quiet' = Disturbed(IF records = Listing(d) THEN Processes ELSE {p})
              /\ fresh' = [r \in Dirs |-> fresh[r] /\ (d \in Under[r] => records = Listing(d))]
              /\ Visited(p, d)
    /\ seen' = [seen EXCEPT ![p] = {}]
    /\ Goto(p, "reconcile")
    /\ UNCHANGED <<tree, leftover, index, root, built>>

\* Every directory is done; RebuildSearchIndex lists the tree again.
Relist(p) ==
    /\ At(p, "reconcile") /\ todo[p] = {} /\ root[p] \in present
    /\ todo' = [todo EXCEPT ![p] = Tree(root[p])]
    /\ Goto(p, "rebuild")
    /\ UNCHANGED <<tree, stored, root, seen, built, hist>>

\* Variant: the first manifest that is missing ends the loop.
GatherShort(p) ==
    /\ At(p, "rebuild") /\ todo[p] # {}
    /\ built' = [built EXCEPT ![p] = @ \cup Contribution(NextDir(p))]
    /\ todo' = [todo EXCEPT ![p] = IF Contribution(NextDir(p)) = {} THEN {} ELSE @ \ {NextDir(p)}]
    /\ UNCHANGED <<tree, stored, pc, root, seen, hist>>

Gather(p) ==
    /\ At(p, "rebuild") /\ todo[p] # {}
    /\ built' = [built EXCEPT ![p] = @ \cup Contribution(NextDir(p))]
    /\ Visited(p, NextDir(p))
    /\ UNCHANGED <<tree, stored, pc, root, seen, hist>>

\* The temporary file becomes the index, so none is left behind.
SaveIndex(p) ==
    /\ At(p, "rebuild") /\ todo[p] = {} /\ root[p] \in present
    /\ index' = [index EXCEPT ![root[p]] = built[p]]
    /\ leftover' = leftover \ {root[p]}
    /\ fresh' = [fresh EXCEPT ![root[p]] = quiet[p] /\ exact[p]]
    /\ quiet' = Disturbed(IF root[p] \in leftover THEN {} ELSE Scanners \ {p})
    /\ End(p)
    /\ UNCHANGED <<tree, manifest>>

\* An error, or the process dying: what was saved stays saved.
Fail(p) ==
    /\ pc[p] \in {"reconcile", "store", "rebuild"}
    /\ EndQuietly(p)
    /\ UNCHANGED <<tree, stored>>

\* The index cannot be flushed, or the process dies before the rename.
FailLeaving(p) ==
    /\ At(p, "rebuild") /\ todo[p] = {} /\ root[p] \in present
    /\ changes < MaxChanges /\ changes' = changes + 1
    /\ leftover' = leftover \cup {root[p]}
    /\ quiet' = Disturbed({})
    /\ End(p)
    /\ UNCHANGED <<present, files, manifest, index, fresh>>

\* The root has gone away: listing it, or writing into it, fails.
RootGone(p) ==
    /\ \/ At(p, "store") /\ NextDir(p) \notin present
       \/ pc[p] \in {"reconcile", "rebuild"} /\ todo[p] = {} /\ root[p] \notin present
    /\ EndQuietly(p)
    /\ UNCHANGED <<tree, stored>>

ScanStep(p) ==
    Observe(p) \/ Store(p) \/ Relist(p) \/ Gather(p) \/ SaveIndex(p) \/ RootGone(p)

-----------------------------------------------------------------------------
(***************************************************************************)
(* crumb search.                                                           *)
(***************************************************************************)

\* The index is loaded: the search answers from it.
SearchIndex(p, r) ==
    /\ Begin(p, r) /\ index[r] # Nothing
    /\ built' = [built EXCEPT ![p] = index[r]]
    /\ Goto(p, "answered")
    /\ UNCHANGED <<tree, stored, todo, seen, fresh>>

\* It cannot be loaded.
MissIndex(p, r) ==
    /\ Begin(p, r) /\ index[r] = Nothing
    /\ Goto(p, "fallback")
    /\ UNCHANGED <<tree, stored, todo, seen, built, fresh>>

\* Variant: only the directory itself is asked.
ListTreeFlat(p) ==
    /\ At(p, "fallback")
    /\ todo' = [todo EXCEPT ![p] = {root[p]}] /\ Goto(p, "load")
    /\ UNCHANGED <<tree, stored, root, seen, built, hist>>

ListTree(p) ==
    /\ At(p, "fallback")
    /\ IF root[p] \in present
       THEN /\ todo' = [todo EXCEPT ![p] = Tree(root[p])] /\ Goto(p, "load")
            /\ UNCHANGED <<root, seen, built, hist>>
       ELSE EndQuietly(p)
    /\ UNCHANGED <<tree, stored>>

\* load_many: the workers load the manifests in any order.
LoadOne(p, d) ==
    /\ At(p, "load") /\ d \in todo[p]
    /\ built' = [built EXCEPT ![p] = @ \cup Contribution(d)]
    /\ Visited(p, d)
    /\ UNCHANGED <<tree, stored, pc, root, seen, hist>>

AnswerFallback(p) ==
    /\ At(p, "load") /\ todo[p] = {}
    /\ Goto(p, "answered")
    /\ UNCHANGED <<tree, stored, root, todo, seen, built, hist>>

Return(p) ==
    /\ At(p, "answered")
    /\ EndQuietly(p)
    /\ UNCHANGED <<tree, stored>>

SearchStep(p) ==
    ListTree(p) \/ (\E d \in Dirs : LoadOne(p, d)) \/ AnswerFallback(p) \/ Return(p)

-----------------------------------------------------------------------------
Next ==
    \/ Users
    \/ \E p \in Scanners :
          ScanStep(p) \/ Fail(p) \/ FailLeaving(p) \/ \E r \in Dirs : StartScan(p, r)
    \/ \E p \in Searchers :
          SearchStep(p) \/ \E r \in Dirs : SearchIndex(p, r) \/ MissIndex(p, r)

\* A command that runs goes on by itself; nothing makes anybody start or fail one.
Spec ==
    /\ Init /\ [][Next]_vars
    /\ \A p \in Scanners : WF_vars(ScanStep(p))
    /\ \A p \in Searchers : WF_vars(SearchStep(p))

-----------------------------------------------------------------------------
(***************************************************************************)
(* Properties.                                                             *)
(***************************************************************************)

\* A scan during which nobody changes the tree and that loses no record writes an index
\* of exactly what is on disk, whatever failed, nested or stale scans have left in
\* manifests and indexes, and whatever exact scans run beside it; the only thing too
\* much is an index file that another scan has abandoned.
ScanExact ==
    [][\A p \in Scanners : SaveIndex(p) /\ quiet[p] /\ exact[p] =>
          index'[root[p]] = OnDisk(root[p])]_vars

\* After such a scan, and until the tree changes, a search finds exactly the files
\* that are there, and the fast path and the fallback agree on it.
AnswerExact ==
    \A p \in Searchers :
        At(p, "answered") /\ quiet[p] /\ fresh[root[p]] =>
            UserFiles(built[p]) = UserFiles(OnDisk(root[p]))

\* Every command ends.
CommandsEnd == \A p \in Processes : pc[p] # "idle" ~> pc[p] = "idle"

=============================================================================
