--------------------------- MODULE ScanSystemProofs ---------------------------
(***************************************************************************)
(* Theorems about ScanSystem, for every tree, any number of files, scans,  *)
(* searches and changes.                                                   *)
(***************************************************************************)
EXTENDS ScanSystem, WellFoundedInduction, TLAPS

-----------------------------------------------------------------------------
(***************************************************************************)
(* The inductive invariant.                                                *)
(***************************************************************************)

\* The phases of scans and of searches, and where nothing has been gathered yet.
Roles ==
    /\ \A p \in Scanners : pc[p] \in {"idle", "reconcile", "store", "rebuild"}
    /\ \A q \in Searchers : pc[q] \in {"idle", "fallback", "load", "answered"}
    /\ \A p \in Processes :
          pc[p] \in {"idle", "reconcile", "store", "fallback"} => built[p] = {}

\* Documents and records of the users' files only.
UserRecords(records) == {r \in records : r.name # Leftover}
UserListing(d) == {[name |-> n, ver |-> files[d][n]] : n \in {m \in Names : files[d][m] > 0}}
Listed(dirs)   == UNION {DocumentsOf(d, Listing(d)) : d \in dirs}
UsersHave(dirs) == UNION {DocumentsOf(d, UserListing(d)) : d \in dirs}

\* What an undisturbed scan that has lost nothing has done so far: the manifests behind
\* it are right, and so is what it has gathered of them.
ScanWork(p) ==
    /\ root[p] \in present /\ todo[p] \subseteq Tree(root[p])
    /\ \A d \in Tree(root[p]) :
          d \notin todo[p] \/ pc[p] = "rebuild" => manifest[d] = Listing(d)
    /\ pc[p] = "store" => seen[p] = Listing(NextDir(p))
    /\ pc[p] = "rebuild" => built[p] = Listed(Tree(root[p]) \ todo[p])

ScanInv == \A p \in Scanners : pc[p] # "idle" /\ quiet[p] /\ exact[p] => ScanWork(p)

\* A fresh tree is described by its manifests and by its index, if that is there.
Described(r) ==
    /\ \A d \in Tree(r) : UserRecords(manifest[d]) = UserListing(d)
    /\ index[r] = Nothing \/ UserFiles(index[r]) = UsersHave(Tree(r))

FreshInv == \A r \in Dirs : fresh[r] /\ r \in present => Described(r)

\* What an undisturbed search on a fresh tree has gathered.
SearchWork(q) ==
    /\ root[q] \in present
    /\ pc[q] = "load" => /\ todo[q] \subseteq Tree(root[q])
                         /\ UserFiles(built[q]) = UsersHave(Tree(root[q]) \ todo[q])
    /\ pc[q] = "answered" => UserFiles(built[q]) = UsersHave(Tree(root[q]))

SearchInv == \A q \in Searchers : pc[q] # "idle" /\ quiet[q] /\ fresh[root[q]] => SearchWork(q)

TypeInv == TypeOK /\ Roles
IInv == TypeInv /\ ScanInv /\ FreshInv /\ SearchInv

-----------------------------------------------------------------------------
(***************************************************************************)
(* Directories, listings and documents.                                    *)
(***************************************************************************)

\* The next directory is one of those still to visit.
LEMMA MinIn == ASSUME NEW S, S \subseteq Nat, S # {} PROVE Min(S) \in S
<1>1. PICK x \in S : \A y \in S : ~(<<y, x>> \in OpToRel(<, Nat))
  BY NatLessThanWellFounded, WFMin
<1>2. \A y \in S : ~(y < x)
  BY <1>1 DEF OpToRel
<1>3. \A y \in S : x =< y
  BY <1>2
<1> QED BY <1>3 DEF Min

LEMMA NextDirIn ==
    ASSUME TypeOK, NEW p \in Processes, todo[p] # {}
    PROVE  NextDir(p) \in todo[p] /\ NextDir(p) \in Dirs
<1>1. todo[p] \subseteq Dirs
  BY DEF TypeOK, ProcessType
<1> QED BY <1>1, MinIn, DirsAssumption DEF NextDir

LEMMA RootIn == Min(Dirs) \in Dirs
BY MinIn, DirsAssumption

\* A directory is at the top of the tree below it.
LEMMA TreeShape ==
    ASSUME NEW r \in Dirs
    PROVE  /\ Tree(r) \subseteq Dirs /\ Tree(r) \subseteq present
           /\ Under[r] \subseteq Dirs /\ r \in Under[r]
           /\ r \in present => r \in Tree(r)
BY UnderAssumption DEF Tree

\* The leftover index file is in no user's part of anything.
LEMMA UserPart ==
    ASSUME TypeOK, NEW d \in Dirs
    PROVE  /\ UserRecords(Listing(d)) = UserListing(d)
           /\ \A records \in SUBSET Record :
                 UserFiles(DocumentsOf(d, records)) = DocumentsOf(d, UserRecords(records))
<1>1. \A n \in Names : n # Leftover
  BY NamesAssumption
<1>2. UserRecords(Listing(d)) = UserListing(d)
  BY <1>1 DEF UserRecords, Listing, UserListing
<1>3. ASSUME NEW records \in SUBSET Record
      PROVE  UserFiles(DocumentsOf(d, records)) = DocumentsOf(d, UserRecords(records))
  BY DEF UserFiles, DocumentsOf, UserRecords, Record
<1> QED BY <1>2, <1>3

LEMMA ListingType == ASSUME TypeOK, NEW d \in Dirs PROVE Listing(d) \in SUBSET Record
BY DEF TypeOK, TreeType, Listing, Record

LEMMA DocumentsType ==
    ASSUME NEW d \in Dirs, NEW records \in SUBSET Record
    PROVE  DocumentsOf(d, records) \in SUBSET Document
BY DEF DocumentsOf, Record, Document

\* The users' part of what is listed is what the users have.
LEMMA UserListed ==
    ASSUME TypeOK, NEW dirs \in SUBSET Dirs
    PROVE  UserFiles(Listed(dirs)) = UsersHave(dirs)
<1>1. \A d \in dirs : UserFiles(DocumentsOf(d, Listing(d))) = DocumentsOf(d, UserListing(d))
  BY UserPart, ListingType
<1>2. UserFiles(Listed(dirs)) = UNION {UserFiles(DocumentsOf(d, Listing(d))) : d \in dirs}
  BY DEF UserFiles, Listed
<1> QED BY <1>1, <1>2 DEF UsersHave

\* One more directory is gathered.
LEMMA GatherOne ==
    ASSUME NEW dirs, NEW d
    PROVE  /\ Listed(dirs) \cup DocumentsOf(d, Listing(d)) = Listed(dirs \cup {d})
           /\ UsersHave(dirs) \cup DocumentsOf(d, UserListing(d)) = UsersHave(dirs \cup {d})
           /\ Listed({}) = {} /\ UsersHave({}) = {}
BY DEF Listed, UsersHave

-----------------------------------------------------------------------------
(***************************************************************************)
(* Types and roles.                                                        *)
(***************************************************************************)
LEMMA InitTypeInv == Init => TypeInv
<1> SUFFICES ASSUME Init PROVE TypeInv
  OBVIOUS
<1>1. TreeType
  BY ChangesAssumption DEF Init, TreeType
<1>2. StoreType
  BY DEF Init, StoreType
<1>3. ProcessType
  BY RootIn DEF Init, ProcessType
<1>4. HistType
  BY DEF Init, HistType
<1>5. Roles
  BY DEF Init, Roles, Processes
<1> QED BY <1>1, <1>2, <1>3, <1>4, <1>5 DEF TypeInv, TypeOK

LEMMA UsersKeepType == ASSUME TypeInv, Users PROVE TypeInv'
<1>0. TreeType /\ StoreType /\ ProcessType /\ HistType /\ Roles
  BY DEF TypeInv, TypeOK
<1>1. ASSUME NEW d \in Dirs, Change(d)
      PROVE  /\ changes' \in 0 .. MaxChanges /\ changes' = changes + 1
             /\ StoreType' /\ ProcessType' /\ HistType' /\ Roles'
  <2>1. changes' \in 0 .. MaxChanges /\ changes' = changes + 1
    BY <1>0, <1>1, ChangesAssumption DEF TreeType, Change
  <2>2. UNCHANGED <<leftover, manifest, index, pc, root, todo, seen, built, exact>>
    BY <1>1 DEF Change, stored, process
  <2>3. HistType'
    BY <1>0, <1>1, <2>2 DEF HistType, Change, Disturbed
  <2> QED BY <1>0, <2>1, <2>2, <2>3 DEF StoreType, ProcessType, Roles
<1>2. ASSUME NEW d \in Dirs, NEW n \in Names, Write(d, n) PROVE TypeInv'
  <2>1. Change(d) /\ files' = [files EXCEPT ![d][n] = changes + 2] /\ present' = present
    BY <1>2 DEF Write
  <2>2. TreeType'
    BY <1>0, <1>1, <2>1 DEF TreeType
  <2> QED BY <1>1, <2>1, <2>2 DEF TypeInv, TypeOK
<1>3. ASSUME NEW d \in Dirs, NEW n \in Names, Delete(d, n) PROVE TypeInv'
  <2>1. Change(d) /\ files' = [files EXCEPT ![d][n] = 0] /\ present' = present
    BY <1>3 DEF Delete
  <2>2. TreeType'
    BY <1>0, <1>1, <2>1 DEF TreeType
  <2> QED BY <1>1, <2>1, <2>2 DEF TypeInv, TypeOK
<1>4. ASSUME NEW d \in Dirs, Detach(d) \/ Attach(d) PROVE TypeInv'
  <2>1. Change(d) /\ files' = files /\ present' \subseteq Dirs
    BY <1>0, <1>4 DEF Detach, Attach, TreeType
  <2>2. TreeType'
    BY <1>0, <1>1, <2>1 DEF TreeType
  <2> QED BY <1>1, <2>1, <2>2 DEF TypeInv, TypeOK
<1>5. ASSUME NEW d \in Dirs, LoseIndex(d) PROVE TypeInv'
  <2>1. /\ changes < MaxChanges /\ changes' = changes + 1
        /\ index' = [index EXCEPT ![d] = Nothing]
        /\ UNCHANGED <<present, files, leftover, manifest, pc, root, todo, seen, built, quiet,
                       exact, fresh>>
    BY <1>5 DEF LoseIndex, process, hist
  <2>2. TreeType' /\ StoreType'
    BY <1>0, <2>1, ChangesAssumption DEF TreeType, StoreType
  <2> QED BY <1>0, <2>1, <2>2 DEF ProcessType, HistType, Roles, TypeInv, TypeOK
<1> QED BY <1>2, <1>3, <1>4, <1>5 DEF Users

\* The end of a command.
LEMMA EndKeepsType ==
    ASSUME TypeInv, NEW p \in Processes, End(p)
    PROVE  ProcessType' /\ Roles' /\ exact' \in [Processes -> BOOLEAN]
<1>0. ProcessType /\ HistType /\ Roles
  BY DEF TypeInv, TypeOK
<1>1. /\ pc' = [pc EXCEPT ![p] = "idle"] /\ root' = [root EXCEPT ![p] = Min(Dirs)]
      /\ todo' = [todo EXCEPT ![p] = {}] /\ seen' = [seen EXCEPT ![p] = {}]
      /\ built' = [built EXCEPT ![p] = {}] /\ exact' = [exact EXCEPT ![p] = FALSE]
  BY DEF End, Goto
<1>2. ProcessType'
  BY <1>0, <1>1, RootIn DEF ProcessType
<1>3. Roles'
  BY <1>0, <1>1 DEF ProcessType, Roles, Processes
<1> QED BY <1>0, <1>1, <1>2, <1>3 DEF HistType

LEMMA ScanKeepsType ==
    ASSUME TypeInv, NEW p \in Scanners,
           ScanStep(p) \/ Fail(p) \/ FailLeaving(p) \/ \E r \in Dirs : StartScan(p, r)
    PROVE  TypeInv'
<1>0. TreeType /\ StoreType /\ ProcessType /\ HistType /\ Roles /\ TypeOK /\ p \in Processes
  BY DEF TypeInv, TypeOK, Processes
<1>1. ASSUME EndQuietly(p), UNCHANGED <<tree, stored>> PROVE TypeInv'
  <2>1. /\ UNCHANGED <<present, files, changes, leftover, manifest, index, fresh>>
        /\ quiet' = [quiet EXCEPT ![p] = FALSE] /\ End(p)
    BY <1>1 DEF EndQuietly, tree, stored
  <2>2. TreeType' /\ StoreType' /\ HistType'
    BY <1>0, <2>1, EndKeepsType DEF TreeType, StoreType, HistType
  <2> QED BY <2>1, <2>2, EndKeepsType, <1>0 DEF TypeInv, TypeOK
<1>2. ASSUME NEW r \in Dirs, StartScan(p, r) PROVE TypeInv'
  <2>1. /\ pc[p] = "idle"
        /\ pc' = [pc EXCEPT ![p] = "reconcile"] /\ root' = [root EXCEPT ![p] = r]
        /\ todo' = [todo EXCEPT ![p] = Tree(r)] /\ quiet' = [quiet EXCEPT ![p] = TRUE]
        /\ exact' = [exact EXCEPT ![p] = TRUE]
        /\ UNCHANGED <<present, files, changes, leftover, manifest, index, seen, built, fresh>>
    BY <1>2 DEF StartScan, Begin, At, Goto, tree, stored
  <2>2. Tree(r) \in SUBSET Dirs
    BY TreeShape
  <2>3. TreeType' /\ StoreType' /\ HistType'
    BY <1>0, <2>1 DEF TreeType, StoreType, HistType
  <2>4. ProcessType'
    BY <1>0, <2>1, <2>2 DEF ProcessType
  <2>5. Roles'
    BY <1>0, <2>1, ProcessesAssumption DEF ProcessType, Roles, Processes
  <2> QED BY <2>3, <2>4, <2>5 DEF TypeInv, TypeOK
<1>3. ASSUME Observe(p), NextDir(p) \in present PROVE TypeInv'
  <2>1. /\ pc[p] = "reconcile" /\ todo[p] # {} /\ pc' = [pc EXCEPT ![p] = "store"]
        /\ seen' = [seen EXCEPT ![p] = Listing(NextDir(p))]
        /\ UNCHANGED <<present, files, changes, leftover, manifest, index, root, todo, built,
                       quiet, exact, fresh>>
    BY <1>3 DEF Observe, At, Goto, tree, stored, hist
  <2>2. Listing(NextDir(p)) \in SUBSET Record
    BY <1>0, <2>1, NextDirIn, ListingType
  <2>3. TreeType' /\ StoreType' /\ HistType'
    BY <1>0, <2>1 DEF TreeType, StoreType, HistType
  <2>4. ProcessType'
    BY <1>0, <2>1, <2>2 DEF ProcessType
  <2>5. Roles'
    BY <1>0, <2>1 DEF ProcessType, Roles, Processes
  <2> QED BY <2>3, <2>4, <2>5 DEF TypeInv, TypeOK
<1>4. ASSUME Store(p) PROVE TypeInv'
  <2> DEFINE d == NextDir(p)
  <2>1. PICK records \in Reconciled(manifest[d], seen[p]) :
             /\ manifest' = [manifest EXCEPT ![d] = records]
             /\ exact' = [exact EXCEPT ![p] = exact[p] /\ records = seen[p]]
             /\ quiet' = Disturbed(IF records = Listing(d) THEN Processes ELSE {p})
             /\ fresh' = [r \in Dirs |-> fresh[r] /\ (d \in Under[r] => records = Listing(d))]
             /\ todo' = [todo EXCEPT ![p] = todo[p] \ {d}]
    BY <1>4 DEF Store, Visited
  <2>2. /\ pc[p] = "store" /\ pc' = [pc EXCEPT ![p] = "reconcile"]
        /\ seen' = [seen EXCEPT ![p] = {}]
        /\ UNCHANGED <<present, files, changes, leftover, index, root, built>>
    BY <1>4 DEF Store, At, Goto, tree
  <2>3. d \in Dirs
    BY <1>0, <2>2, NextDirIn DEF ProcessType
  <2>4. records \in SUBSET Record
    BY <1>0, <2>3 DEF Reconciled, Lossy, StoreType, ProcessType
  <2>5. TreeType' /\ StoreType'
    BY <1>0, <2>1, <2>2, <2>4 DEF TreeType, StoreType
  <2>6. HistType'
    BY <1>0, <2>1 DEF HistType, Disturbed
  <2>7. ProcessType'
    BY <1>0, <2>1, <2>2 DEF ProcessType
  <2>8. Roles'
    BY <1>0, <2>2 DEF ProcessType, Roles, Processes
  <2> QED BY <2>5, <2>6, <2>7, <2>8 DEF TypeInv, TypeOK
<1>5. ASSUME Relist(p) PROVE TypeInv'
  <2>1. /\ pc[p] = "reconcile" /\ pc' = [pc EXCEPT ![p] = "rebuild"]
        /\ todo' = [todo EXCEPT ![p] = Tree(root[p])]
        /\ UNCHANGED <<present, files, changes, leftover, manifest, index, root, seen, built,
                       quiet, exact, fresh>>
    BY <1>5 DEF Relist, At, Goto, tree, stored, hist
  <2>2. Tree(root[p]) \in SUBSET Dirs
    BY <1>0, TreeShape DEF ProcessType
  <2>3. TreeType' /\ StoreType' /\ HistType'
    BY <1>0, <2>1 DEF TreeType, StoreType, HistType
  <2>4. ProcessType'
    BY <1>0, <2>1, <2>2 DEF ProcessType
  <2>5. Roles'
    BY <1>0, <2>1 DEF ProcessType, Roles, Processes
  <2> QED BY <2>3, <2>4, <2>5 DEF TypeInv, TypeOK
<1>6. ASSUME Gather(p) PROVE TypeInv'
  <2>1. /\ pc[p] = "rebuild" /\ todo[p] # {}
        /\ built' = [built EXCEPT ![p] = built[p] \cup Contribution(NextDir(p))]
        /\ todo' = [todo EXCEPT ![p] = todo[p] \ {NextDir(p)}]
        /\ UNCHANGED <<present, files, changes, leftover, manifest, index, pc, root, seen,
                       quiet, exact, fresh>>
    BY <1>6 DEF Gather, At, Visited, tree, stored, hist
  <2>2. Contribution(NextDir(p)) \in SUBSET Document
    BY <1>0, <2>1, NextDirIn, DocumentsType DEF Contribution, StoreType
  <2>3. TreeType' /\ StoreType' /\ HistType'
    BY <1>0, <2>1 DEF TreeType, StoreType, HistType
  <2>4. ProcessType'
    BY <1>0, <2>1, <2>2 DEF ProcessType
  <2>5. Roles'
    BY <1>0, <2>1 DEF ProcessType, Roles, Processes
  <2> QED BY <2>3, <2>4, <2>5 DEF TypeInv, TypeOK
<1>7. ASSUME SaveIndex(p) PROVE TypeInv'
  <2>1. /\ End(p) /\ index' = [index EXCEPT ![root[p]] = built[p]]
        /\ leftover' = leftover \ {root[p]}
        /\ fresh' = [fresh EXCEPT ![root[p]] = quiet[p] /\ exact[p]]
        /\ quiet' = Disturbed(IF root[p] \in leftover THEN {} ELSE Scanners \ {p})
        /\ UNCHANGED <<present, files, changes, manifest>>
    BY <1>7 DEF SaveIndex, tree
  <2>2. TreeType' /\ StoreType'
    BY <1>0, <2>1 DEF TreeType, StoreType, ProcessType
  <2>3. HistType'
    BY <1>0, <2>1, EndKeepsType DEF HistType, Disturbed
  <2> QED BY <1>0, <2>1, <2>2, <2>3, EndKeepsType DEF TypeInv, TypeOK
<1>8. ASSUME FailLeaving(p) PROVE TypeInv'
  <2>1. /\ End(p) /\ changes < MaxChanges /\ changes' = changes + 1
        /\ leftover' = leftover \cup {root[p]} /\ quiet' = Disturbed({})
        /\ UNCHANGED <<present, files, manifest, index, fresh>>
    BY <1>8 DEF FailLeaving
  <2>2. TreeType' /\ StoreType'
    BY <1>0, <2>1, ChangesAssumption DEF TreeType, StoreType, ProcessType
  <2>3. HistType'
    BY <1>0, <2>1, EndKeepsType DEF HistType, Disturbed
  <2> QED BY <1>0, <2>1, <2>2, <2>3, EndKeepsType DEF TypeInv, TypeOK
<1>9. CASE EndQuietly(p) /\ UNCHANGED <<tree, stored>>
  BY <1>1, <1>9
<1> QED BY <1>2, <1>3, <1>4, <1>5, <1>6, <1>7, <1>8, <1>9
        DEF ScanStep, Observe, RootGone, Fail

LEMMA SearchKeepsType ==
    ASSUME TypeInv, NEW p \in Searchers,
           SearchStep(p) \/ \E r \in Dirs : SearchIndex(p, r) \/ MissIndex(p, r)
    PROVE  TypeInv'
<1>0. TreeType /\ StoreType /\ ProcessType /\ HistType /\ Roles /\ TypeOK /\ p \in Processes
  BY DEF TypeInv, TypeOK, Processes
<1>1. ASSUME EndQuietly(p), UNCHANGED <<tree, stored>> PROVE TypeInv'
  <2>1. /\ UNCHANGED <<present, files, changes, leftover, manifest, index, fresh>>
        /\ quiet' = [quiet EXCEPT ![p] = FALSE] /\ End(p)
    BY <1>1 DEF EndQuietly, tree, stored
  <2>2. TreeType' /\ StoreType' /\ HistType'
    BY <1>0, <2>1, EndKeepsType DEF TreeType, StoreType, HistType
  <2> QED BY <2>1, <2>2, EndKeepsType, <1>0 DEF TypeInv, TypeOK
<1>2. ASSUME NEW r \in Dirs, SearchIndex(p, r) PROVE TypeInv'
  <2>1. /\ pc[p] = "idle" /\ index[r] # Nothing
        /\ pc' = [pc EXCEPT ![p] = "answered"] /\ root' = [root EXCEPT ![p] = r]
        /\ built' = [built EXCEPT ![p] = index[r]] /\ quiet' = [quiet EXCEPT ![p] = TRUE]
        /\ exact' = [exact EXCEPT ![p] = TRUE]
        /\ UNCHANGED <<present, files, changes, leftover, manifest, index, todo, seen, fresh>>
    BY <1>2 DEF SearchIndex, Begin, At, Goto, tree, stored
  <2>2. index[r] \in SUBSET Document
    BY <1>0, <2>1 DEF StoreType
  <2>3. TreeType' /\ StoreType' /\ HistType'
    BY <1>0, <2>1 DEF TreeType, StoreType, HistType
  <2>4. ProcessType'
    BY <1>0, <2>1, <2>2 DEF ProcessType
  <2>5. Roles'
    BY <1>0, <2>1, ProcessesAssumption DEF ProcessType, Roles, Processes
  <2> QED BY <2>3, <2>4, <2>5 DEF TypeInv, TypeOK
<1>3. ASSUME NEW r \in Dirs, MissIndex(p, r) PROVE TypeInv'
  <2>1. /\ pc[p] = "idle"
        /\ pc' = [pc EXCEPT ![p] = "fallback"] /\ root' = [root EXCEPT ![p] = r]
        /\ quiet' = [quiet EXCEPT ![p] = TRUE] /\ exact' = [exact EXCEPT ![p] = TRUE]
        /\ UNCHANGED <<present, files, changes, leftover, manifest, index, todo, seen, built,
                       fresh>>
    BY <1>3 DEF MissIndex, Begin, At, Goto, tree, stored
  <2>3. TreeType' /\ StoreType' /\ HistType'
    BY <1>0, <2>1 DEF TreeType, StoreType, HistType
  <2>4. ProcessType'
    BY <1>0, <2>1 DEF ProcessType
  <2>5. Roles'
    BY <1>0, <2>1, ProcessesAssumption DEF ProcessType, Roles, Processes
  <2> QED BY <2>3, <2>4, <2>5 DEF TypeInv, TypeOK
<1>4. ASSUME ListTree(p), root[p] \in present PROVE TypeInv'
  <2>1. /\ pc[p] = "fallback" /\ pc' = [pc EXCEPT ![p] = "load"]
        /\ todo' = [todo EXCEPT ![p] = Tree(root[p])]
        /\ UNCHANGED <<present, files, changes, leftover, manifest, index, root, seen, built,
                       quiet, exact, fresh>>
    BY <1>4 DEF ListTree, At, Goto, tree, stored, hist
  <2>2. Tree(root[p]) \in SUBSET Dirs
    BY <1>0, TreeShape DEF ProcessType
  <2>3. TreeType' /\ StoreType' /\ HistType'
    BY <1>0, <2>1 DEF TreeType, StoreType, HistType
  <2>4. ProcessType'
    BY <1>0, <2>1, <2>2 DEF ProcessType
  <2>5. Roles'
    BY <1>0, <2>1 DEF ProcessType, Roles, Processes
  <2> QED BY <2>3, <2>4, <2>5 DEF TypeInv, TypeOK
<1>5. ASSUME NEW d \in Dirs, LoadOne(p, d) PROVE TypeInv'
  <2>1. /\ pc[p] = "load"
        /\ built' = [built EXCEPT ![p] = built[p] \cup Contribution(d)]
        /\ todo' = [todo EXCEPT ![p] = todo[p] \ {d}]
        /\ UNCHANGED <<present, files, changes, leftover, manifest, index, pc, root, seen,
                       quiet, exact, fresh>>
    BY <1>5 DEF LoadOne, At, Visited, tree, stored, hist
  <2>2. Contribution(d) \in SUBSET Document
    BY <1>0, <2>1, DocumentsType DEF Contribution, StoreType
  <2>3. TreeType' /\ StoreType' /\ HistType'
    BY <1>0, <2>1 DEF TreeType, StoreType, HistType
  <2>4. ProcessType'
    BY <1>0, <2>1, <2>2 DEF ProcessType
  <2>5. Roles'
    BY <1>0, <2>1 DEF ProcessType, Roles, Processes
  <2> QED BY <2>3, <2>4, <2>5 DEF TypeInv, TypeOK
<1>6. ASSUME AnswerFallback(p) PROVE TypeInv'
  <2>1. /\ pc[p] = "load" /\ pc' = [pc EXCEPT ![p] = "answered"]
        /\ UNCHANGED <<present, files, changes, leftover, manifest, index, root, todo, seen,
                       built, quiet, exact, fresh>>
    BY <1>6 DEF AnswerFallback, At, Goto, tree, stored, hist
  <2>3. TreeType' /\ StoreType' /\ HistType'
    BY <1>0, <2>1 DEF TreeType, StoreType, HistType
  <2>4. ProcessType'
    BY <1>0, <2>1 DEF ProcessType
  <2>5. Roles'
    BY <1>0, <2>1 DEF ProcessType, Roles, Processes
  <2> QED BY <2>3, <2>4, <2>5 DEF TypeInv, TypeOK
<1>7. CASE EndQuietly(p) /\ UNCHANGED <<tree, stored>>
  BY <1>1, <1>7
<1> QED BY <1>2, <1>3, <1>4, <1>5, <1>6, <1>7 DEF SearchStep, ListTree, Return

LEMMA NextKeepsType == TypeInv /\ [Next]_vars => TypeInv'
<1> SUFFICES ASSUME TypeInv, [Next]_vars PROVE TypeInv'
  OBVIOUS
<1>1. CASE Next
  BY <1>1, UsersKeepType, ScanKeepsType, SearchKeepsType DEF Next
<1>2. CASE UNCHANGED vars
  <2>1. UNCHANGED <<present, files, changes, leftover, manifest, index, pc, root, todo, seen,
                    built, quiet, exact, fresh>>
    BY <1>2 DEF vars, tree, stored, process, hist
  <2> QED BY <2>1 DEF TypeInv, TypeOK, TreeType, StoreType, ProcessType, HistType, Roles
<1> QED BY <1>1, <1>2

\* Every variable keeps its type: a running scan or search has a directory of the tree,
\* a saved manifest holds records, an index documents or nothing that can be read.
THEOREM TypeCorrect == Spec => []TypeOK
<1>1. Init => TypeInv
  BY InitTypeInv
<1>2. TypeInv /\ [Next]_vars => TypeInv'
  BY NextKeepsType
<1>3. TypeInv => TypeOK
  BY DEF TypeInv
<1> QED BY <1>1, <1>2, <1>3, PTL DEF Spec

-----------------------------------------------------------------------------
(***************************************************************************)
(* What a step of one process, or of a user, leaves to the others.         *)
(***************************************************************************)
\* A listing changes with the files and the leftovers, the users' part with the files.
LEMMA SameListings ==
    ASSUME files' = files
    PROVE  /\ \A d \in Dirs : UserListing(d)' = UserListing(d)
           /\ \A dirs \in SUBSET Dirs : UsersHave(dirs)' = UsersHave(dirs)
           /\ leftover' = leftover =>
                 /\ \A d \in Dirs : Listing(d)' = Listing(d)
                 /\ \A dirs \in SUBSET Dirs : Listed(dirs)' = Listed(dirs)
<1>1. \A d \in Dirs : UserListing(d)' = UserListing(d)
  BY DEF UserListing
<1>2. \A dirs \in SUBSET Dirs : UsersHave(dirs)' = UsersHave(dirs)
  BY DEF UsersHave, UserListing, DocumentsOf
<1>3. ASSUME leftover' = leftover
      PROVE  /\ \A d \in Dirs : Listing(d)' = Listing(d)
             /\ \A dirs \in SUBSET Dirs : Listed(dirs)' = Listed(dirs)
  BY <1>3 DEF Listed, Listing, DocumentsOf
<1> QED BY <1>1, <1>2, <1>3

\* Process o takes no part in the step.
Still(o) ==
    /\ pc'[o] = pc[o] /\ root'[o] = root[o] /\ todo'[o] = todo[o]
    /\ seen'[o] = seen[o] /\ built'[o] = built[o]
    /\ exact'[o] = exact[o] /\ (quiet'[o] => quiet[o])

\* A scan does not mind a manifest saved as the directory is.
LEMMA ScanFrame ==
    ASSUME TypeInv, NEW o \in Scanners, ScanWork(o), Still(o),
           UNCHANGED <<present, files, leftover>>,
           \A d \in Tree(root[o]) : manifest'[d] = manifest[d] \/ manifest'[d] = Listing(d)
    PROVE  ScanWork(o)'
<1>1. root[o] \in Dirs /\ Tree(root[o]) \subseteq Dirs
  BY TreeShape DEF TypeInv, TypeOK, ProcessType, Processes
<1>2. Tree(root[o])' = Tree(root[o]) /\ NextDir(o)' = NextDir(o)
  BY DEF Tree, Still, NextDir
<1>3. \A d \in Dirs : Listing(d)' = Listing(d)
  BY SameListings
<1>4. \A dirs \in SUBSET Dirs : Listed(dirs)' = Listed(dirs)
  BY SameListings
<1>5. root'[o] \in present' /\ todo'[o] \subseteq Tree(root[o])'
  BY <1>2 DEF ScanWork, Still
<1>6. ASSUME NEW d \in Tree(root[o])', d \notin todo'[o] \/ pc'[o] = "rebuild"
      PROVE  manifest'[d] = Listing(d)'
  <2>1. d \in Tree(root[o]) /\ d \in Dirs
    BY <1>1, <1>2, <1>6
  <2>2. manifest[d] = Listing(d)
    BY <1>6, <2>1 DEF ScanWork, Still
  <2> QED BY <1>3, <2>1, <2>2
<1>7. pc'[o] = "store" => seen'[o] = Listing(NextDir(o))'
  <2>1. Listing(NextDir(o))' = Listing(NextDir(o))
    BY <1>2 DEF Listing
  <2> QED BY <2>1 DEF ScanWork, Still
<1>8. pc'[o] = "rebuild" => built'[o] = Listed(Tree(root[o]) \ todo[o])'
  <2>1. todo'[o] = todo[o] /\ Tree(root[o]) \ todo[o] \in SUBSET Dirs
    BY <1>1 DEF Still
  <2>2. Listed(Tree(root[o]) \ todo[o])' = Listed(Tree(root[o]) \ todo[o])
    BY <1>2, <1>4, <2>1 DEF Listed, Listing, DocumentsOf, Tree
  <2> QED BY <2>2 DEF ScanWork, Still
<1> QED BY <1>5, <1>6, <1>7, <1>8 DEF ScanWork

LEMMA SearchFrame ==
    ASSUME TypeInv, NEW o \in Searchers, SearchWork(o), Still(o), UNCHANGED <<present, files>>
    PROVE  SearchWork(o)'
<1>1. root[o] \in Dirs /\ Tree(root[o]) \subseteq Dirs
  BY TreeShape DEF TypeInv, TypeOK, ProcessType, Processes
<1>2. Tree(root[o])' = Tree(root[o])
  BY DEF Tree, Still
<1>3. UsersHave(Tree(root[o]))' = UsersHave(Tree(root[o]))
  BY <1>2 DEF UsersHave, UserListing, DocumentsOf
<1>4. UsersHave(Tree(root[o]) \ todo[o])' = UsersHave(Tree(root[o]) \ todo[o])
  BY <1>2 DEF UsersHave, UserListing, DocumentsOf, Still
<1>5. UserFiles(built[o])' = UserFiles(built[o])
  BY DEF UserFiles, Still
<1> QED BY <1>2, <1>3, <1>4, <1>5 DEF SearchWork, Still

LEMMA DescribedFrame ==
    ASSUME NEW r \in Dirs, Described(r), Tree(r)' = Tree(r),
           \A d \in Tree(r) : files'[d] = files[d] /\ manifest'[d] = manifest[d],
           index'[r] = index[r] \/ index'[r] = Nothing
    PROVE  Described(r)'
<1>1. \A d \in Tree(r) : UserListing(d)' = UserListing(d)
  BY DEF UserListing
<1>2. UsersHave(Tree(r))' = UsersHave(Tree(r))
  BY <1>1 DEF UsersHave, DocumentsOf
<1>3. \A d \in Tree(r) : UserRecords(manifest[d])' = UserRecords(manifest[d])
  BY DEF UserRecords
<1>4. UserFiles(index[r])' = UserFiles(index'[r])
  BY DEF UserFiles
<1> QED BY <1>1, <1>2, <1>3, <1>4 DEF Described

\* The step of p with everything others look at as it was.
LEMMA OthersKeepWork ==
    ASSUME IInv, NEW p \in Processes, \A o \in Processes \ {p} : Still(o),
           UNCHANGED <<present, files, leftover, manifest>>,
           \A r \in Dirs : fresh'[r] => fresh[r]
    PROVE  /\ \A o \in Scanners \ {p} :
                 pc'[o] # "idle" /\ quiet'[o] /\ exact'[o] => ScanWork(o)'
           /\ \A o \in Searchers \ {p} :
                 pc'[o] # "idle" /\ quiet'[o] /\ fresh'[root'[o]] => SearchWork(o)'
<1>1. ASSUME NEW o \in Scanners \ {p}, pc'[o] # "idle", quiet'[o], exact'[o]
      PROVE  ScanWork(o)'
  <2>1. Still(o)
    BY DEF Processes
  <2>2. ScanWork(o)
    BY <1>1, <2>1 DEF IInv, ScanInv, Still
  <2> QED BY <2>1, <2>2, ScanFrame DEF IInv
<1>2. ASSUME NEW o \in Searchers \ {p}, pc'[o] # "idle", quiet'[o], fresh'[root'[o]]
      PROVE  SearchWork(o)'
  <2>1. Still(o)
    BY DEF Processes
  <2>2. root[o] \in Dirs
    BY DEF IInv, TypeInv, TypeOK, ProcessType, Processes
  <2>3. SearchWork(o)
    BY <1>2, <2>1, <2>2 DEF IInv, SearchInv, Still
  <2> QED BY <2>1, <2>3, SearchFrame DEF IInv
<1> QED BY <1>1, <1>2

\* A fresh tree stays described while nothing in it changes.
LEMMA SameDescriptions ==
    ASSUME FreshInv, UNCHANGED <<present, files, manifest>>, \A r \in Dirs : fresh'[r] => fresh[r],
           \A r \in Dirs : index'[r] = index[r] \/ index'[r] = Nothing
    PROVE  FreshInv'
<1> SUFFICES ASSUME NEW r \in Dirs, fresh'[r], r \in present' PROVE Described(r)'
  BY DEF FreshInv
<1>1. Described(r)
  BY DEF FreshInv
<1>2. Tree(r)' = Tree(r)
  BY DEF Tree
<1> QED BY <1>1, <1>2, DescribedFrame

-----------------------------------------------------------------------------
(***************************************************************************)
(* Each step keeps what scans, searches and fresh trees rely on.           *)
(***************************************************************************)
LEMMA UsersKeepWork == ASSUME IInv, Users PROVE ScanInv' /\ FreshInv' /\ SearchInv'
<1>1. ASSUME NEW d \in Dirs, Change(d)
      PROVE  /\ ScanInv' /\ SearchInv' /\ UNCHANGED <<manifest, index>>
             /\ \A r \in Dirs : fresh'[r] => fresh[r] /\ d \notin Under[r]
  <2>1. \A p \in Processes : ~quiet'[p]
    BY <1>1 DEF Change, Disturbed
  <2>2. UNCHANGED <<manifest, index>> /\ \A r \in Dirs : fresh'[r] => fresh[r] /\ d \notin Under[r]
    BY <1>1 DEF Change, stored
  <2> QED BY <2>1, <2>2 DEF ScanInv, SearchInv, Processes
<1>2. ASSUME NEW d \in Dirs, NEW n \in Names, Write(d, n) \/ Delete(d, n)
      PROVE  ScanInv' /\ FreshInv' /\ SearchInv'
  <2>1. /\ Change(d) /\ present' = present
        /\ \E v \in Nat : files' = [files EXCEPT ![d][n] = v]
    BY <1>2 DEF Write, Delete, IInv, TypeInv, TypeOK, TreeType
  <2>2. \A e \in Dirs \ {d} : files'[e] = files[e]
    BY <2>1 DEF IInv, TypeInv, TypeOK, TreeType
  <2>3. ASSUME NEW r \in Dirs, fresh'[r], r \in present' PROVE Described(r)'
    <3>1. fresh[r] /\ d \notin Under[r] /\ UNCHANGED <<manifest, index>>
      BY <1>1, <2>1, <2>3
    <3>2. Described(r) /\ Tree(r)' = Tree(r)
      BY <2>1, <2>3, <3>1 DEF IInv, FreshInv, Tree
    <3>3. \A e \in Tree(r) : files'[e] = files[e] /\ manifest'[e] = manifest[e]
      BY <2>2, <3>1, TreeShape DEF Tree
    <3> QED BY <3>1, <3>2, <3>3, DescribedFrame
  <2> QED BY <1>1, <2>1, <2>3 DEF FreshInv
<1>3. ASSUME NEW d \in Dirs, Detach(d) \/ Attach(d)
      PROVE  ScanInv' /\ FreshInv' /\ SearchInv'
  <2>1. Change(d) /\ files' = files
    BY <1>3 DEF Detach, Attach
  <2>2. ASSUME NEW r \in Dirs, fresh'[r], r \in present' PROVE Described(r)'
    <3>1. fresh[r] /\ d \notin Under[r] /\ UNCHANGED <<manifest, index>>
      BY <1>1, <2>1, <2>2
    <3>2. d \in Under[d] /\ r \in Under[r]
      BY UnderAssumption
    <3>3. r \in present /\ Tree(r)' = Tree(r)
      <4>1. CASE Detach(d)
        <5>1. present' = present \ Under[d]
          BY <4>1 DEF Detach
        <5>2. Under[r] \cap Under[d] = {}
          BY <2>2, <3>1, <3>2, <5>1, UnderAssumption
        <5> QED BY <2>2, <5>1, <5>2 DEF Tree
      <4>2. CASE Attach(d)
        BY <2>2, <3>1, <3>2, <4>2 DEF Attach, Tree
      <4> QED BY <1>3, <4>1, <4>2
    <3> QED BY <2>1, <2>2, <3>1, <3>3, DescribedFrame DEF IInv, FreshInv
  <2> QED BY <1>1, <2>1, <2>2 DEF FreshInv
<1>4. ASSUME NEW d \in Dirs, LoseIndex(d) PROVE ScanInv' /\ FreshInv' /\ SearchInv'
  <2>1. /\ UNCHANGED <<present, files, leftover, manifest, pc, root, todo, seen, built, quiet,
                       exact, fresh>>
        /\ index' = [index EXCEPT ![d] = Nothing]
    BY <1>4 DEF LoseIndex, process, hist
  <2>2. \A o \in Processes : Still(o)
    BY <2>1 DEF Still
  <2>3. \A r \in Dirs : index'[r] = index[r] \/ index'[r] = Nothing
    BY <2>1 DEF IInv, TypeInv, TypeOK, StoreType
  <2>4. FreshInv'
    BY <2>1, <2>3, SameDescriptions DEF IInv
  <2>5. ASSUME NEW o \in Scanners, pc'[o] # "idle", quiet'[o], exact'[o] PROVE ScanWork(o)'
    BY <2>1, <2>2, <2>5, ScanFrame DEF IInv, ScanInv, Processes
  <2>6. ASSUME NEW o \in Searchers, pc'[o] # "idle", quiet'[o], fresh'[root'[o]]
        PROVE  SearchWork(o)'
    BY <2>1, <2>2, <2>6, SearchFrame DEF IInv, SearchInv, Processes
  <2> QED BY <2>4, <2>5, <2>6 DEF ScanInv, SearchInv
<1> QED BY <1>2, <1>3, <1>4 DEF Users

\* A command that ends leaves the others where they were.
LEMMA EndIsStill ==
    ASSUME TypeInv, NEW p \in Processes, End(p), \A o \in Processes : quiet'[o] => quiet[o]
    PROVE  pc'[p] = "idle" /\ \A o \in Processes \ {p} : Still(o)
<1>1. /\ pc' = [pc EXCEPT ![p] = "idle"] /\ root' = [root EXCEPT ![p] = Min(Dirs)]
      /\ todo' = [todo EXCEPT ![p] = {}] /\ seen' = [seen EXCEPT ![p] = {}]
      /\ built' = [built EXCEPT ![p] = {}] /\ exact' = [exact EXCEPT ![p] = FALSE]
  BY DEF End, Goto
<1> QED BY <1>1 DEF Still, TypeInv, TypeOK, ProcessType, HistType

LEMMA EndQuietlyKeepsWork ==
    ASSUME IInv, NEW p \in Processes, EndQuietly(p), UNCHANGED <<tree, stored>>
    PROVE  ScanInv' /\ FreshInv' /\ SearchInv'
<1>1. /\ UNCHANGED <<present, files, leftover, manifest, index, fresh>>
      /\ quiet' = [quiet EXCEPT ![p] = FALSE] /\ End(p)
  BY DEF EndQuietly, tree, stored
<1>2. pc'[p] = "idle" /\ \A o \in Processes \ {p} : Still(o)
  <2>1. \A o \in Processes : quiet'[o] => quiet[o]
    BY <1>1 DEF IInv, TypeInv, TypeOK, HistType
  <2> QED BY <1>1, <2>1, EndIsStill DEF IInv
<1>3. FreshInv'
  BY <1>1, SameDescriptions DEF IInv
<1>4. /\ \A o \in Scanners \ {p} : pc'[o] # "idle" /\ quiet'[o] /\ exact'[o] => ScanWork(o)'
      /\ \A o \in Searchers \ {p} :
            pc'[o] # "idle" /\ quiet'[o] /\ fresh'[root'[o]] => SearchWork(o)'
  BY <1>1, <1>2, OthersKeepWork
<1> QED BY <1>2, <1>3, <1>4 DEF ScanInv, SearchInv

\* A step of p that changes nothing others look at keeps the invariant when p's own work
\* is as it should be.
LEMMA OwnStep ==
    ASSUME IInv, NEW p \in Processes, \A o \in Processes \ {p} : Still(o),
           UNCHANGED <<present, files, leftover, manifest, index, fresh>>,
           p \in Scanners /\ pc'[p] # "idle" /\ quiet'[p] /\ exact'[p] => ScanWork(p)',
           p \in Searchers /\ pc'[p] # "idle" /\ quiet'[p] /\ fresh'[root'[p]] => SearchWork(p)'
    PROVE  ScanInv' /\ FreshInv' /\ SearchInv'
<1>1. FreshInv'
  BY SameDescriptions DEF IInv
<1>2. /\ \A o \in Scanners \ {p} : pc'[o] # "idle" /\ quiet'[o] /\ exact'[o] => ScanWork(o)'
      /\ \A o \in Searchers \ {p} :
            pc'[o] # "idle" /\ quiet'[o] /\ fresh'[root'[o]] => SearchWork(o)'
  BY OthersKeepWork
<1> QED BY <1>1, <1>2 DEF ScanInv, SearchInv

LEMMA StartScanKeepsWork ==
    ASSUME IInv, NEW p \in Scanners, NEW r \in Dirs, StartScan(p, r)
    PROVE  ScanInv' /\ FreshInv' /\ SearchInv'
<1>0. TypeOK /\ ProcessType /\ HistType /\ p \in Processes /\ p \notin Searchers
  BY ProcessesAssumption DEF IInv, TypeInv, TypeOK, Processes
<1>1. /\ pc[p] = "idle" /\ r \in present
      /\ pc' = [pc EXCEPT ![p] = "reconcile"] /\ root' = [root EXCEPT ![p] = r]
      /\ todo' = [todo EXCEPT ![p] = Tree(r)] /\ quiet' = [quiet EXCEPT ![p] = TRUE]
      /\ exact' = [exact EXCEPT ![p] = TRUE]
      /\ UNCHANGED <<present, files, leftover, manifest, index, seen, built, fresh>>
  BY DEF StartScan, Begin, At, Goto, tree, stored
<1>2. \A o \in Processes \ {p} : Still(o)
  BY <1>0, <1>1 DEF Still, ProcessType, HistType
<1>3. pc'[p] = "reconcile" /\ root'[p] = r /\ todo'[p] = Tree(r) /\ Tree(r)' = Tree(r)
  BY <1>0, <1>1 DEF ProcessType, Tree
<1>4. ScanWork(p)'
  BY <1>1, <1>3 DEF ScanWork
<1> QED BY <1>0, <1>1, <1>2, <1>4, OwnStep

LEMMA ObserveKeepsWork ==
    ASSUME IInv, NEW p \in Scanners, Observe(p)
    PROVE  ScanInv' /\ FreshInv' /\ SearchInv'
<1>0. TypeOK /\ ProcessType /\ HistType /\ p \in Processes /\ p \notin Searchers
  BY ProcessesAssumption DEF IInv, TypeInv, TypeOK, Processes
<1>1. CASE NextDir(p) \in present
  <2>1. /\ pc[p] = "reconcile" /\ todo[p] # {} /\ pc' = [pc EXCEPT ![p] = "store"]
        /\ seen' = [seen EXCEPT ![p] = Listing(NextDir(p))]
        /\ UNCHANGED <<present, files, leftover, manifest, index, root, todo, built, quiet,
                       exact, fresh>>
    BY <1>1 DEF Observe, At, Goto, tree, stored, hist
  <2>2. \A o \in Processes \ {p} : Still(o)
    BY <1>0, <2>1 DEF Still, ProcessType
  <2>3. pc'[p] = "store" /\ seen'[p] = Listing(NextDir(p)) /\ NextDir(p)' = NextDir(p)
    BY <1>0, <2>1 DEF ProcessType, NextDir
  <2>4. Tree(root[p])' = Tree(root[p]) /\ Tree(root[p]) \subseteq Dirs
    BY <1>0, <2>1, TreeShape DEF Tree, ProcessType
  <2>5. Listing(NextDir(p))' = Listing(NextDir(p)) /\ \A d \in Dirs : Listing(d)' = Listing(d)
    BY <2>1, <2>3, SameListings DEF Listing
  <2>6. ASSUME ScanWork(p) PROVE ScanWork(p)'
    <3>1. root'[p] \in present' /\ todo'[p] \subseteq Tree(root[p])'
      BY <2>1, <2>4, <2>6 DEF ScanWork
    <3>2. ASSUME NEW d \in Tree(root[p])', d \notin todo'[p] PROVE manifest'[d] = Listing(d)'
      BY <2>1, <2>4, <2>5, <2>6, <3>2 DEF ScanWork
    <3> QED BY <2>3, <2>5, <3>1, <3>2 DEF ScanWork
  <2>7. quiet'[p] /\ exact'[p] => ScanWork(p)'
    BY <2>1, <2>6 DEF IInv, ScanInv
  <2> QED BY <1>0, <2>1, <2>2, <2>7, OwnStep
<1>2. CASE NextDir(p) \notin present
  BY <1>0, <1>2, EndQuietlyKeepsWork DEF Observe
<1> QED BY <1>1, <1>2

LEMMA RelistKeepsWork ==
    ASSUME IInv, NEW p \in Scanners, Relist(p)
    PROVE  ScanInv' /\ FreshInv' /\ SearchInv'
<1>0. TypeOK /\ ProcessType /\ Roles /\ p \in Processes /\ p \notin Searchers
  BY ProcessesAssumption DEF IInv, TypeInv, TypeOK, Processes
<1>1. /\ pc[p] = "reconcile" /\ todo[p] = {} /\ pc' = [pc EXCEPT ![p] = "rebuild"]
      /\ todo' = [todo EXCEPT ![p] = Tree(root[p])]
      /\ UNCHANGED <<present, files, leftover, manifest, index, root, seen, built, quiet,
                     exact, fresh>>
  BY DEF Relist, At, Goto, tree, stored, hist
<1>2. \A o \in Processes \ {p} : Still(o)
  BY <1>0, <1>1 DEF Still, ProcessType
<1>3. /\ pc'[p] = "rebuild" /\ todo'[p] = Tree(root[p])
      /\ Tree(root[p])' = Tree(root[p]) /\ Tree(root[p]) \subseteq Dirs
  BY <1>0, <1>1, TreeShape DEF ProcessType, Tree
<1>4. ASSUME ScanWork(p) PROVE ScanWork(p)'
  <2>1. root'[p] \in present' /\ todo'[p] \subseteq Tree(root[p])'
    BY <1>1, <1>3, <1>4 DEF ScanWork
  <2>2. \A d \in Tree(root[p])' : manifest'[d] = Listing(d)'
    <3>1. \A d \in Tree(root[p]) : manifest[d] = Listing(d)
      BY <1>1, <1>4 DEF ScanWork
    <3>2. \A d \in Dirs : Listing(d)' = Listing(d)
      BY <1>1, SameListings
    <3> QED BY <1>1, <1>3, <3>1, <3>2
  <2>3. built'[p] = Listed(Tree(root[p]) \ todo[p])'
    <3>1. built'[p] = {}
      BY <1>0, <1>1 DEF Roles
    <3>2. (Tree(root[p]) \ todo[p])' = {}
      BY <1>3
    <3> QED BY <3>1, <3>2 DEF Listed
  <2> QED BY <1>3, <2>1, <2>2, <2>3 DEF ScanWork
<1>5. quiet'[p] /\ exact'[p] => ScanWork(p)'
  BY <1>1, <1>4 DEF IInv, ScanInv
<1> QED BY <1>0, <1>1, <1>2, <1>5, OwnStep

LEMMA GatherKeepsWork ==
    ASSUME IInv, NEW p \in Scanners, Gather(p)
    PROVE  ScanInv' /\ FreshInv' /\ SearchInv'
<1> DEFINE d == NextDir(p)
<1>0. TypeOK /\ ProcessType /\ p \in Processes /\ p \notin Searchers
  BY ProcessesAssumption DEF IInv, TypeInv, TypeOK, Processes
<1>1. /\ pc[p] = "rebuild" /\ todo[p] # {}
      /\ built' = [built EXCEPT ![p] = built[p] \cup Contribution(d)]
      /\ todo' = [todo EXCEPT ![p] = todo[p] \ {d}]
      /\ UNCHANGED <<present, files, leftover, manifest, index, pc, root, seen, quiet, exact,
                     fresh>>
  BY DEF Gather, At, Visited, tree, stored, hist
<1>2. \A o \in Processes \ {p} : Still(o)
  BY <1>0, <1>1 DEF Still, ProcessType
<1>3. /\ todo'[p] = todo[p] \ {d} /\ built'[p] = built[p] \cup Contribution(d)
      /\ Tree(root[p])' = Tree(root[p]) /\ Tree(root[p]) \subseteq Dirs
      /\ d \in todo[p] /\ d \in Dirs
  BY <1>0, <1>1, TreeShape, NextDirIn DEF ProcessType, Tree
<1> HIDE DEF d
<1>4. ASSUME ScanWork(p) PROVE ScanWork(p)'
  <2>1. root'[p] \in present' /\ todo'[p] \subseteq Tree(root[p])'
    BY <1>1, <1>3, <1>4 DEF ScanWork
  <2>2. \A e \in Tree(root[p]) : manifest[e] = Listing(e)
    BY <1>1, <1>4 DEF ScanWork
  <2>3. \A e \in Dirs : Listing(e)' = Listing(e)
    BY <1>1, SameListings
  <2>4. \A e \in Tree(root[p])' : manifest'[e] = Listing(e)'
    BY <1>1, <1>3, <2>2, <2>3
  <2>5. d \in Tree(root[p]) /\ d \in present
    BY <1>3, <1>4 DEF ScanWork, Tree
  <2>6. built'[p] = Listed(Tree(root[p]) \ todo[p]) \cup DocumentsOf(d, Listing(d))
    BY <1>1, <1>3, <1>4, <2>2, <2>5 DEF ScanWork, Contribution
  <2>7. (Tree(root[p]) \ todo[p]) \cup {d} = Tree(root[p]) \ (todo[p] \ {d})
    BY <1>3, <2>5
  <2>8. built'[p] = Listed(Tree(root[p]) \ (todo[p] \ {d}))
    <3>1. Listed(Tree(root[p]) \ todo[p]) \cup DocumentsOf(d, Listing(d))
             = Listed((Tree(root[p]) \ todo[p]) \cup {d})
      BY GatherOne
    <3> QED BY <2>6, <2>7, <3>1
  <2>9. Listed(Tree(root[p]) \ todo[p])' = Listed(Tree(root[p]) \ (todo[p] \ {d}))
    <3>1. (Tree(root[p]) \ todo[p])' = Tree(root[p]) \ (todo[p] \ {d})
      BY <1>3
    <3> QED BY <1>1, <3>1 DEF Listed, Listing, DocumentsOf
  <2> QED BY <1>1, <2>1, <2>4, <2>8, <2>9 DEF ScanWork
<1>5. quiet'[p] /\ exact'[p] => ScanWork(p)'
  BY <1>1, <1>4 DEF IInv, ScanInv
<1> QED BY <1>0, <1>1, <1>2, <1>5, OwnStep

LEMMA StoreKeepsWork ==
    ASSUME IInv, NEW p \in Scanners, Store(p)
    PROVE  ScanInv' /\ FreshInv' /\ SearchInv'
<1> DEFINE d == NextDir(p)
<1>0. TypeOK /\ ProcessType /\ StoreType /\ HistType /\ p \in Processes /\ p \notin Searchers
  BY ProcessesAssumption DEF IInv, TypeInv, TypeOK, Processes
<1>1. PICK records \in Reconciled(manifest[d], seen[p]) :
           /\ manifest' = [manifest EXCEPT ![d] = records]
           /\ exact' = [exact EXCEPT ![p] = exact[p] /\ records = seen[p]]
           /\ quiet' = Disturbed(IF records = Listing(d) THEN Processes ELSE {p})
           /\ fresh' = [r \in Dirs |-> fresh[r] /\ (d \in Under[r] => records = Listing(d))]
           /\ todo' = [todo EXCEPT ![p] = todo[p] \ {d}]
  BY DEF Store, Visited
<1>2. /\ pc[p] = "store" /\ pc' = [pc EXCEPT ![p] = "reconcile"]
      /\ seen' = [seen EXCEPT ![p] = {}]
      /\ UNCHANGED <<present, files, changes, leftover, index, root, built>>
  BY DEF Store, At, Goto, tree
<1>3. d \in todo[p] /\ d \in Dirs
  BY <1>0, <1>2, NextDirIn DEF ProcessType
<1>4. manifest'[d] = records /\ \A e \in Dirs \ {d} : manifest'[e] = manifest[e]
  BY <1>0, <1>1, <1>3 DEF StoreType
<1>5. \A o \in Processes :
         (quiet'[o] => quiet[o]) /\ (quiet'[o] /\ o # p => records = Listing(d))
  BY <1>1 DEF Disturbed
<1>6. \A o \in Processes \ {p} : Still(o)
  BY <1>0, <1>1, <1>2, <1>5 DEF Still, ProcessType, HistType
<1>7. \A r \in Dirs : fresh'[r] => fresh[r] /\ (d \in Under[r] => records = Listing(d))
  BY <1>1
<1>8. /\ pc'[p] = "reconcile" /\ todo'[p] = todo[p] \ {d}
      /\ exact'[p] => exact[p] /\ records = seen[p]
  BY <1>0, <1>1, <1>2 DEF ProcessType, HistType
<1>9. \A e \in Dirs : Listing(e)' = Listing(e) /\ UserListing(e)' = UserListing(e)
  BY <1>2, SameListings
<1> HIDE DEF d
<1>10. ASSUME NEW o \in Scanners \ {p}, pc'[o] # "idle", quiet'[o], exact'[o] PROVE ScanWork(o)'
  <2>1. o \in Processes /\ Still(o) /\ records = Listing(d)
    BY <1>5, <1>6, <1>10 DEF Processes
  <2>2. ScanWork(o)
    BY <1>10, <2>1 DEF IInv, ScanInv, Still
  <2>3. Tree(root[o]) \subseteq Dirs
    BY <1>0, <2>1, TreeShape DEF ProcessType
  <2>4. \A e \in Tree(root[o]) : manifest'[e] = manifest[e] \/ manifest'[e] = Listing(e)
    BY <1>4, <2>1, <2>3
  <2> QED BY <1>2, <2>1, <2>2, <2>4, ScanFrame DEF IInv
<1>11. ASSUME quiet'[p], exact'[p] PROVE ScanWork(p)'
  <2>1. ScanWork(p) /\ records = seen[p]
    BY <1>0, <1>2, <1>5, <1>8, <1>11 DEF IInv, ScanInv
  <2>2. Tree(root[p])' = Tree(root[p]) /\ Tree(root[p]) \subseteq Dirs
    BY <1>0, <1>2, TreeShape DEF Tree, ProcessType
  <2>3. root'[p] \in present' /\ todo'[p] \subseteq Tree(root[p])'
    BY <1>2, <1>8, <2>1, <2>2 DEF ScanWork
  <2>4. seen[p] = Listing(d)
    BY <1>2, <2>1 DEF ScanWork, d
  <2>5. ASSUME NEW e \in Tree(root[p])', e \notin todo'[p] PROVE manifest'[e] = Listing(e)'
    <3>1. e \in Tree(root[p]) /\ e \in Dirs
      BY <2>2
    <3>2. CASE e = d
      BY <1>4, <1>9, <2>1, <2>4, <3>1, <3>2
    <3>3. CASE e # d
      <4>1. manifest[e] = Listing(e)
        BY <1>8, <2>1, <2>5, <3>1, <3>3 DEF ScanWork
      <4> QED BY <1>4, <1>9, <3>1, <3>3, <4>1
    <3> QED BY <3>2, <3>3
  <2> QED BY <1>8, <2>3, <2>5 DEF ScanWork
<1>12. ASSUME NEW o \in Searchers, pc'[o] # "idle", quiet'[o], fresh'[root'[o]]
       PROVE  SearchWork(o)'
  <2>1. o \in Processes \ {p} /\ Still(o)
    BY <1>0, <1>6 DEF Processes
  <2>2. root[o] \in Dirs
    BY <1>0, <2>1 DEF ProcessType
  <2>3. SearchWork(o)
    BY <1>7, <1>12, <2>1, <2>2 DEF IInv, SearchInv, Still
  <2> QED BY <1>2, <2>1, <2>3, SearchFrame DEF IInv
<1>13. ASSUME NEW r \in Dirs, fresh'[r], r \in present' PROVE Described(r)'
  <2>1. Described(r)
    BY <1>2, <1>7, <1>13 DEF IInv, FreshInv
  <2>2. Tree(r)' = Tree(r) /\ Tree(r) \subseteq Dirs /\ Tree(r) \subseteq Under[r]
    BY <1>2, TreeShape DEF Tree
  <2>3. ASSUME NEW e \in Tree(r) PROVE UserRecords(manifest[e])' = UserListing(e)'
    <3>1. e \in Dirs /\ e \in Under[r]
      BY <2>2
    <3>2. CASE e = d
      <4>1. manifest'[e] = Listing(e)
        BY <1>4, <1>7, <1>13, <3>1, <3>2
      <4>2. UserRecords(manifest[e])' = UserRecords(Listing(e))
        BY <4>1 DEF UserRecords
      <4> QED BY <1>0, <1>9, <3>1, <4>2, UserPart
    <3>3. CASE e # d
      <4>1. UserRecords(manifest[e])' = UserRecords(manifest[e])
        BY <1>4, <3>1, <3>3 DEF UserRecords
      <4> QED BY <1>9, <2>1, <3>1, <4>1 DEF Described
    <3> QED BY <3>2, <3>3
  <2>4. UsersHave(Tree(r))' = UsersHave(Tree(r))
    BY <1>2, <2>2 DEF UsersHave, UserListing, DocumentsOf
  <2>5. UserFiles(index[r])' = UserFiles(index[r])
    BY <1>2 DEF UserFiles
  <2> QED BY <1>2, <2>1, <2>2, <2>3, <2>4, <2>5 DEF Described
<1> QED BY <1>10, <1>11, <1>12, <1>13 DEF ScanInv, FreshInv, SearchInv

LEMMA SaveIndexKeepsWork ==
    ASSUME IInv, NEW p \in Scanners, SaveIndex(p)
    PROVE  ScanInv' /\ FreshInv' /\ SearchInv'
<1>0. /\ TypeOK /\ ProcessType /\ StoreType /\ HistType /\ p \in Processes
      /\ root[p] \in Dirs /\ Tree(root[p]) \subseteq Dirs
  BY TreeShape DEF IInv, TypeInv, TypeOK, Processes, ProcessType
<1>1. /\ pc[p] = "rebuild" /\ todo[p] = {} /\ root[p] \in present /\ End(p)
      /\ index' = [index EXCEPT ![root[p]] = built[p]]
      /\ leftover' = leftover \ {root[p]}
      /\ fresh' = [fresh EXCEPT ![root[p]] = quiet[p] /\ exact[p]]
      /\ quiet' = Disturbed(IF root[p] \in leftover THEN {} ELSE Scanners \ {p})
      /\ UNCHANGED <<present, files, manifest>>
  BY DEF SaveIndex, At, tree
<1>2. \A o \in Processes :
         quiet'[o] => quiet[o] /\ o \in Scanners \ {p} /\ leftover' = leftover
  BY <1>1 DEF Disturbed
<1>3. pc'[p] = "idle" /\ \A o \in Processes \ {p} : Still(o)
  BY <1>0, <1>1, <1>2, EndIsStill DEF IInv
<1>4. ASSUME NEW o \in Scanners, pc'[o] # "idle", quiet'[o], exact'[o] PROVE ScanWork(o)'
  <2>1. o \in Processes \ {p} /\ Still(o) /\ leftover' = leftover
    BY <1>2, <1>3, <1>4 DEF Processes
  <2>2. ScanWork(o)
    BY <1>4, <2>1 DEF IInv, ScanInv, Still
  <2> QED BY <1>1, <2>1, <2>2, ScanFrame DEF IInv
<1>5. SearchInv'
  BY <1>2, ProcessesAssumption DEF SearchInv, Processes
<1>6. ASSUME NEW r \in Dirs, fresh'[r], r \in present' PROVE Described(r)'
  <2>1. Tree(r)' = Tree(r)
    BY <1>1 DEF Tree
  <2>2. CASE r # root[p]
    <3>1. fresh[r] /\ index'[r] = index[r]
      BY <1>0, <1>1, <1>6, <2>2 DEF HistType, StoreType
    <3>2. Described(r)
      BY <1>1, <1>6, <3>1 DEF IInv, FreshInv
    <3> QED BY <1>1, <2>1, <3>1, <3>2, DescribedFrame
  <2>3. CASE r = root[p]
    <3>1. quiet[p] /\ exact[p] /\ index'[r] = built[p]
      BY <1>0, <1>1, <1>6, <2>3 DEF HistType, StoreType
    <3>2. ScanWork(p)
      BY <1>1, <3>1 DEF IInv, ScanInv
    <3>3. /\ \A d \in Tree(r) : manifest[d] = Listing(d)
          /\ built[p] = Listed(Tree(r) \ todo[p])
      BY <1>1, <2>3, <3>2 DEF ScanWork
    <3>4. ASSUME NEW d \in Tree(r) PROVE UserRecords(manifest[d])' = UserListing(d)'
      <4>1. UserRecords(manifest[d])' = UserRecords(Listing(d))
        BY <1>1, <3>3 DEF UserRecords
      <4>2. UserListing(d)' = UserListing(d)
        BY <1>1 DEF UserListing
      <4> QED BY <1>0, <2>3, <4>1, <4>2, UserPart
    <3>5. Tree(r) \ todo[p] = Tree(r)
      BY <1>1
    <3>6. UserFiles(built[p]) = UsersHave(Tree(r))
      BY <1>0, <2>3, <3>3, <3>5, UserListed
    <3>7. UserFiles(index[r])' = UserFiles(built[p])
      BY <3>1 DEF UserFiles
    <3>8. UsersHave(Tree(r))' = UsersHave(Tree(r))
      BY <1>1, <2>1 DEF UsersHave, UserListing, DocumentsOf
    <3> QED BY <2>1, <3>4, <3>6, <3>7, <3>8 DEF Described
  <2> QED BY <2>2, <2>3
<1> QED BY <1>4, <1>5, <1>6 DEF ScanInv, FreshInv

LEMMA FailLeavingKeepsWork ==
    ASSUME IInv, NEW p \in Scanners, FailLeaving(p)
    PROVE  ScanInv' /\ FreshInv' /\ SearchInv'
<1>1. UNCHANGED <<present, files, manifest, index, fresh>> /\ quiet' = Disturbed({})
  BY DEF FailLeaving
<1>2. \A o \in Processes : ~quiet'[o]
  BY <1>1 DEF Disturbed
<1>3. FreshInv'
  BY <1>1, SameDescriptions DEF IInv
<1> QED BY <1>2, <1>3 DEF ScanInv, SearchInv, Processes

LEMMA ScanKeepsWork ==
    ASSUME IInv, NEW p \in Scanners,
           ScanStep(p) \/ Fail(p) \/ FailLeaving(p) \/ \E r \in Dirs : StartScan(p, r)
    PROVE  ScanInv' /\ FreshInv' /\ SearchInv'
<1>1. p \in Processes
  BY DEF Processes
<1>2. CASE EndQuietly(p) /\ UNCHANGED <<tree, stored>>
  BY <1>1, <1>2, EndQuietlyKeepsWork
<1> QED BY <1>2, StartScanKeepsWork, ObserveKeepsWork, StoreKeepsWork, RelistKeepsWork,
           GatherKeepsWork, SaveIndexKeepsWork, FailLeavingKeepsWork
        DEF ScanStep, RootGone, Fail

LEMMA SearchKeepsWork ==
    ASSUME IInv, NEW p \in Searchers,
           SearchStep(p) \/ \E r \in Dirs : SearchIndex(p, r) \/ MissIndex(p, r)
    PROVE  ScanInv' /\ FreshInv' /\ SearchInv'
<1>0. TypeOK /\ ProcessType /\ HistType /\ Roles /\ p \in Processes /\ p \notin Scanners
  BY ProcessesAssumption DEF IInv, TypeInv, TypeOK, Processes
<1>1. CASE EndQuietly(p) /\ UNCHANGED <<tree, stored>>
  BY <1>0, <1>1, EndQuietlyKeepsWork
<1>2. ASSUME NEW r \in Dirs, SearchIndex(p, r) PROVE ScanInv' /\ FreshInv' /\ SearchInv'
  <2>1. /\ pc[p] = "idle" /\ index[r] # Nothing /\ r \in present
        /\ pc' = [pc EXCEPT ![p] = "answered"] /\ root' = [root EXCEPT ![p] = r]
        /\ built' = [built EXCEPT ![p] = index[r]] /\ quiet' = [quiet EXCEPT ![p] = TRUE]
        /\ exact' = [exact EXCEPT ![p] = TRUE]
        /\ UNCHANGED <<present, files, leftover, manifest, index, todo, seen, fresh>>
    BY <1>2 DEF SearchIndex, Begin, At, Goto, tree, stored
  <2>2. \A o \in Processes \ {p} : Still(o)
    BY <1>0, <2>1 DEF Still, ProcessType, HistType
  <2>3. /\ pc'[p] = "answered" /\ root'[p] = r /\ built'[p] = index[r]
        /\ Tree(root[p])' = Tree(r)
    BY <1>0, <2>1 DEF ProcessType, Tree
  <2>4. ASSUME fresh'[root'[p]] PROVE SearchWork(p)'
    <3>1. UserFiles(index[r]) = UsersHave(Tree(r))
      BY <2>1, <2>3, <2>4 DEF IInv, FreshInv, Described
    <3>2. UserFiles(built[p])' = UserFiles(index[r])
      BY <2>3 DEF UserFiles
    <3>3. UsersHave(Tree(root[p]))' = UsersHave(Tree(r))
      BY <2>1, <2>3 DEF UsersHave, UserListing, DocumentsOf
    <3> QED BY <2>1, <2>3, <3>1, <3>2, <3>3 DEF SearchWork
  <2> QED BY <1>0, <2>1, <2>2, <2>4, OwnStep
<1>3. ASSUME NEW r \in Dirs, MissIndex(p, r) PROVE ScanInv' /\ FreshInv' /\ SearchInv'
  <2>1. /\ pc[p] = "idle" /\ r \in present
        /\ pc' = [pc EXCEPT ![p] = "fallback"] /\ root' = [root EXCEPT ![p] = r]
        /\ quiet' = [quiet EXCEPT ![p] = TRUE] /\ exact' = [exact EXCEPT ![p] = TRUE]
        /\ UNCHANGED <<present, files, leftover, manifest, index, todo, seen, built, fresh>>
    BY <1>3 DEF MissIndex, Begin, At, Goto, tree, stored
  <2>2. \A o \in Processes \ {p} : Still(o)
    BY <1>0, <2>1 DEF Still, ProcessType, HistType
  <2>3. pc'[p] = "fallback" /\ root'[p] = r
    BY <1>0, <2>1 DEF ProcessType
  <2>4. SearchWork(p)'
    BY <2>1, <2>3 DEF SearchWork
  <2> QED BY <1>0, <2>1, <2>2, <2>4, OwnStep
<1>4. ASSUME ListTree(p), root[p] \in present PROVE ScanInv' /\ FreshInv' /\ SearchInv'
  <2>1. /\ pc[p] = "fallback" /\ pc' = [pc EXCEPT ![p] = "load"]
        /\ todo' = [todo EXCEPT ![p] = Tree(root[p])]
        /\ UNCHANGED <<present, files, leftover, manifest, index, root, seen, built, quiet,
                       exact, fresh>>
    BY <1>4 DEF ListTree, At, Goto, tree, stored, hist
  <2>2. \A o \in Processes \ {p} : Still(o)
    BY <1>0, <2>1 DEF Still, ProcessType
  <2>3. /\ pc'[p] = "load" /\ todo'[p] = Tree(root[p]) /\ Tree(root[p])' = Tree(root[p])
        /\ built'[p] = {}
    BY <1>0, <2>1 DEF ProcessType, Tree, Roles
  <2>4. UserFiles(built[p])' = UsersHave(Tree(root[p]) \ todo[p])'
    <3>1. (Tree(root[p]) \ todo[p])' = {}
      BY <2>3
    <3> QED BY <2>3, <3>1 DEF UserFiles, UsersHave
  <2>5. SearchWork(p)'
    BY <1>4, <2>1, <2>3, <2>4 DEF SearchWork
  <2> QED BY <1>0, <2>1, <2>2, <2>5, OwnStep
<1>5. ASSUME NEW d \in Dirs, LoadOne(p, d) PROVE ScanInv' /\ FreshInv' /\ SearchInv'
  <2>1. /\ pc[p] = "load" /\ d \in todo[p]
        /\ built' = [built EXCEPT ![p] = built[p] \cup Contribution(d)]
        /\ todo' = [todo EXCEPT ![p] = todo[p] \ {d}]
        /\ UNCHANGED <<present, files, leftover, manifest, index, pc, root, seen, quiet,
                       exact, fresh>>
    BY <1>5 DEF LoadOne, At, Visited, tree, stored, hist
  <2>2. \A o \in Processes \ {p} : Still(o)
    BY <1>0, <2>1 DEF Still, ProcessType
  <2>3. /\ todo'[p] = todo[p] \ {d} /\ built'[p] = built[p] \cup Contribution(d)
        /\ Tree(root[p])' = Tree(root[p]) /\ root[p] \in Dirs
    BY <1>0, <2>1 DEF ProcessType, Tree
  <2>4. ASSUME quiet'[p], fresh'[root'[p]] PROVE SearchWork(p)'
    <3>1. SearchWork(p) /\ Described(root[p])
      BY <2>1, <2>3, <2>4 DEF IInv, FreshInv, SearchInv, SearchWork
    <3>2. d \in Tree(root[p]) /\ d \in present
      BY <2>1, <3>1 DEF SearchWork, Tree
    <3>3. UserRecords(manifest[d]) = UserListing(d) /\ manifest[d] \in SUBSET Record
      BY <1>0, <3>1, <3>2 DEF Described, TypeOK, StoreType
    <3>4. UserFiles(Contribution(d)) = DocumentsOf(d, UserListing(d))
      BY <1>0, <3>2, <3>3, UserPart DEF Contribution
    <3>5. UserFiles(built[p])' = UserFiles(built[p]) \cup DocumentsOf(d, UserListing(d))
      BY <2>3, <3>4 DEF UserFiles
    <3>6. UsersHave(Tree(root[p]) \ todo[p]) \cup DocumentsOf(d, UserListing(d))
             = UsersHave((Tree(root[p]) \ todo[p]) \cup {d})
      BY GatherOne
    <3>7. (Tree(root[p]) \ todo[p]) \cup {d} = (Tree(root[p]) \ todo[p])'
      BY <2>1, <2>3, <3>2
    <3>8. UserFiles(built[p])' = UsersHave(Tree(root[p]) \ todo[p])'
      <4>1. UserFiles(built[p])' = UsersHave((Tree(root[p]) \ todo[p]) \cup {d})
        BY <2>1, <3>1, <3>5, <3>6 DEF SearchWork
      <4>2. UsersHave(Tree(root[p]) \ todo[p])'
               = UNION {DocumentsOf(e, UserListing(e)) : e \in (Tree(root[p]) \ todo[p])'}
        BY <2>1 DEF UsersHave, UserListing, DocumentsOf
      <4>3. UsersHave((Tree(root[p]) \ todo[p]) \cup {d})
               = UNION {DocumentsOf(e, UserListing(e)) : e \in (Tree(root[p]) \ todo[p])'}
        BY <3>7 DEF UsersHave
      <4> QED BY <4>1, <4>2, <4>3
    <3> QED BY <2>1, <2>3, <3>1, <3>8 DEF SearchWork
  <2> QED BY <1>0, <2>1, <2>2, <2>4, OwnStep
<1>6. ASSUME AnswerFallback(p) PROVE ScanInv' /\ FreshInv' /\ SearchInv'
  <2>1. /\ pc[p] = "load" /\ todo[p] = {} /\ pc' = [pc EXCEPT ![p] = "answered"]
        /\ UNCHANGED <<present, files, leftover, manifest, index, root, todo, seen, built,
                       quiet, exact, fresh>>
    BY <1>6 DEF AnswerFallback, At, Goto, tree, stored, hist
  <2>2. \A o \in Processes \ {p} : Still(o)
    BY <1>0, <2>1 DEF Still, ProcessType
  <2>3. pc'[p] = "answered" /\ Tree(root[p])' = Tree(root[p])
    BY <1>0, <2>1 DEF ProcessType, Tree
  <2>4. ASSUME quiet'[p], fresh'[root'[p]] PROVE SearchWork(p)'
    <3>1. SearchWork(p)
      BY <2>1, <2>4 DEF IInv, SearchInv
    <3>2. Tree(root[p]) \ todo[p] = Tree(root[p])
      BY <2>1
    <3>3. UserFiles(built[p]) = UsersHave(Tree(root[p])) /\ root[p] \in present
      BY <2>1, <3>1, <3>2 DEF SearchWork
    <3>4. UsersHave(Tree(root[p]))' = UsersHave(Tree(root[p]))
      BY <2>1, <2>3 DEF UsersHave, UserListing, DocumentsOf
    <3>5. UserFiles(built[p])' = UserFiles(built[p])
      BY <2>1 DEF UserFiles
    <3> QED BY <2>1, <2>3, <3>3, <3>4, <3>5 DEF SearchWork
  <2> QED BY <1>0, <2>1, <2>2, <2>4, OwnStep
<1> QED BY <1>1, <1>2, <1>3, <1>4, <1>5, <1>6 DEF SearchStep, ListTree, Return

-----------------------------------------------------------------------------
(***************************************************************************)
(* The theorems.                                                           *)
(***************************************************************************)
LEMMA InitWork == Init => IInv
<1> SUFFICES ASSUME Init PROVE IInv
  OBVIOUS
<1>1. ScanInv /\ FreshInv /\ SearchInv
  BY DEF Init, ScanInv, FreshInv, SearchInv, Processes
<1> QED BY <1>1, InitTypeInv DEF IInv

LEMMA NextKeepsWork == IInv /\ [Next]_vars => IInv'
<1> SUFFICES ASSUME IInv, [Next]_vars PROVE IInv'
  OBVIOUS
<1>1. TypeInv'
  BY NextKeepsType DEF IInv
<1>2. CASE Next
  BY <1>1, <1>2, UsersKeepWork, ScanKeepsWork, SearchKeepsWork DEF Next, IInv
<1>3. CASE UNCHANGED vars
  <2>1. UNCHANGED <<present, files, changes, leftover, manifest, index, pc, root, todo, seen,
                    built, quiet, exact, fresh>>
    BY <1>3 DEF vars, tree, stored, process, hist
  <2>2. \A o \in Processes : Still(o)
    BY <2>1 DEF Still
  <2>3. FreshInv'
    BY <2>1, SameDescriptions DEF IInv
  <2>4. ScanInv'
    BY <2>1, <2>2, ScanFrame DEF IInv, ScanInv, Processes
  <2>5. SearchInv'
    BY <2>1, <2>2, SearchFrame DEF IInv, SearchInv, Processes
  <2> QED BY <1>1, <2>3, <2>4, <2>5 DEF IInv
<1> QED BY <1>2, <1>3

LEMMA IInvAlways == Spec => []IInv
<1> QED BY InitWork, NextKeepsWork, PTL DEF Spec

\* The index an undisturbed scan that has lost no record saves is what is on disk.
LEMMA SavedIndexIsExact ==
    ASSUME IInv, NEW p \in Scanners, SaveIndex(p), quiet[p], exact[p]
    PROVE  index'[root[p]] = OnDisk(root[p])
<1>1. /\ pc[p] = "rebuild" /\ todo[p] = {}
      /\ index' = [index EXCEPT ![root[p]] = built[p]]
  BY DEF SaveIndex, At
<1>2. root[p] \in Dirs /\ index \in [Dirs -> {Nothing} \cup SUBSET Document]
  BY DEF IInv, TypeInv, TypeOK, ProcessType, StoreType, Processes
<1>3. ScanWork(p)
  BY <1>1 DEF IInv, ScanInv
<1>4. Tree(root[p]) \ todo[p] = Tree(root[p])
  BY <1>1
<1>5. built[p] = Listed(Tree(root[p]))
  BY <1>1, <1>3, <1>4 DEF ScanWork
<1> QED BY <1>1, <1>2, <1>5 DEF Listed, OnDisk, Tree

\* RebuildSearchIndex at the end of a scan writes exactly what is on disk, whatever
\* earlier commands left behind and exact scans do meanwhile, if nobody changed the tree
\* since the scan began and no reconciliation of it lost a record.
THEOREM UndisturbedScansAreExact == Spec => ScanExact
<1>1. IInv /\ [Next]_vars =>
         [\A p \in Scanners : SaveIndex(p) /\ quiet[p] /\ exact[p] =>
             index'[root[p]] = OnDisk(root[p])]_vars
  BY SavedIndexIsExact
<1> QED BY <1>1, IInvAlways, PTL DEF Spec, ScanExact

\* Search answers with the users' files that are there, by the index or by the manifests,
\* from an undisturbed exact scan of its directory until the tree changes.
THEOREM FreshAnswersAreExact == Spec => []AnswerExact
<1>1. IInv => AnswerExact
  <2> SUFFICES ASSUME IInv, NEW p \in Searchers, pc[p] = "answered", quiet[p], fresh[root[p]]
               PROVE  UserFiles(built[p]) = UserFiles(OnDisk(root[p]))
    BY DEF AnswerExact, At
  <2>1. TypeOK /\ Tree(root[p]) \in SUBSET Dirs
    BY TreeShape DEF IInv, TypeInv, TypeOK, ProcessType, Processes
  <2>2. SearchWork(p)
    BY DEF IInv, SearchInv
  <2>3. OnDisk(root[p]) = Listed(Tree(root[p]))
    BY DEF OnDisk, Listed, Tree
  <2> QED BY <2>1, <2>2, <2>3, UserListed DEF SearchWork
<1> QED BY <1>1, IInvAlways, PTL
=============================================================================
