--------------------------- MODULE ReconcileProofs ---------------------------
(***************************************************************************)
(* Theorems about Reconcile, for every set of names, every pool of inodes, *)
(* every sequence of changes to the directory and any number of scans.     *)
(***************************************************************************)
EXTENDS Reconcile, FiniteSetTheorems, TLAPS

(***************************************************************************)
(* Lemmas about the vector operations.                                     *)
(***************************************************************************)

\* Sorting keeps the length and only moves entries, no two to the same place.
LEMMA SortedArrangement ==
    ASSUME NEW files \in Seq(Entry), NEW t \in Sorted(files)
    PROVE  /\ t \in Seq(Entry) /\ Len(t) = Len(files)
           /\ \E p \in Injection(1 .. Len(files), 1 .. Len(files)) :
                 \A i \in 1 .. Len(files) : t[i] = files[p[i]]
<1>1. PICK p \in Injection(1 .. Len(files), 1 .. Len(files)) :
          t = [i \in 1 .. Len(files) |-> files[p[i]]]
  BY DEF Sorted
<1>2. p \in [1 .. Len(files) -> 1 .. Len(files)]
  BY DEF Injection
<1>3. \A i \in 1 .. Len(files) : files[p[i]] \in Entry
  BY <1>2
<1>4. t \in [1 .. Len(files) -> Entry] /\ Len(files) \in Nat
  BY <1>1, <1>3
<1>5. t \in Seq(Entry) /\ Len(t) = Len(files)
  BY <1>4
<1> QED BY <1>1, <1>5

\* Sorting keeps ids and names apart, and every entry of the result is one of the
\* vector that was sorted.
LEMMA SortedDistinct ==
    ASSUME NEW files \in Seq(Entry), NEW t \in Sorted(files), Distinct(files)
    PROVE  /\ Distinct(t)
           /\ \A i \in DOMAIN t : \E j \in DOMAIN files : t[i] = files[j]
<1>1. /\ t \in Seq(Entry) /\ Len(t) = Len(files)
      /\ \E p \in Injection(1 .. Len(files), 1 .. Len(files)) :
            \A i \in 1 .. Len(files) : t[i] = files[p[i]]
  BY SortedArrangement
<1>2. PICK p \in Injection(1 .. Len(files), 1 .. Len(files)) :
          \A i \in 1 .. Len(files) : t[i] = files[p[i]]
  BY <1>1
<1>3. /\ p \in [1 .. Len(files) -> 1 .. Len(files)]
      /\ \A i, j \in 1 .. Len(files) : p[i] = p[j] => i = j
  BY DEF Injection, IsInjective
<1>4. DOMAIN t = 1 .. Len(files) /\ DOMAIN files = 1 .. Len(files)
  BY <1>1
<1>5. \A i \in DOMAIN t : \E j \in DOMAIN files : t[i] = files[j]
  BY <1>2, <1>3, <1>4
<1>6. Distinct(t)
  BY <1>2, <1>3, <1>4 DEF Distinct
<1> QED BY <1>5, <1>6

\* Erasing a position shortens the vector by one, moves the later entries down and
\* leaves the earlier ones where they were.
LEMMA EraseShape ==
    ASSUME NEW files \in Seq(Entry), NEW i \in DOMAIN files
    PROVE  /\ Erase(files, i) \in Seq(Entry)
           /\ Len(Erase(files, i)) = Len(files) - 1
           /\ DOMAIN Erase(files, i) = 1 .. Len(files) - 1
           /\ \A j \in 1 .. Len(files) - 1 :
                 Erase(files, i)[j] = IF j < i THEN files[j] ELSE files[j + 1]
<1>1. Len(files) \in Nat /\ i \in 1 .. Len(files) /\ Len(files) - 1 \in Nat
  OBVIOUS
<1>2. \A j \in 1 .. Len(files) - 1 :
          (IF j < i THEN files[j] ELSE files[j + 1]) \in Entry
  BY <1>1
<1>3. Erase(files, i) \in [1 .. Len(files) - 1 -> Entry]
  BY <1>2 DEF Erase
<1>4. /\ Erase(files, i) \in Seq(Entry)
      /\ Len(Erase(files, i)) = Len(files) - 1
  BY <1>1, <1>3
<1> QED BY <1>1, <1>3, <1>4 DEF Erase

\* Erasing keeps ids and names apart, and adds no entry.
LEMMA EraseDistinct ==
    ASSUME NEW files \in Seq(Entry), NEW i \in DOMAIN files, Distinct(files)
    PROVE  /\ Distinct(Erase(files, i))
           /\ \A j \in DOMAIN Erase(files, i) :
                 \E k \in DOMAIN files : Erase(files, i)[j] = files[k]
<1> DEFINE e == Erase(files, i)
<1>1. /\ DOMAIN e = 1 .. Len(files) - 1
      /\ \A j \in 1 .. Len(files) - 1 : e[j] = IF j < i THEN files[j] ELSE files[j + 1]
  BY EraseShape
<1>2. Len(files) \in Nat /\ DOMAIN files = 1 .. Len(files) /\ i \in Int
  OBVIOUS
<1>3. \A j \in DOMAIN e : /\ (IF j < i THEN j ELSE j + 1) \in DOMAIN files
                          /\ e[j] = files[IF j < i THEN j ELSE j + 1]
  BY <1>1, <1>2
<1> HIDE DEF e
<1>4. \A j, k \in DOMAIN e :
          (IF j < i THEN j ELSE j + 1) = (IF k < i THEN k ELSE k + 1) => j = k
  BY <1>1, <1>2
<1>5. Distinct(e)
  BY <1>3, <1>4 DEF Distinct
<1> QED BY <1>3, <1>5 DEF e

(***************************************************************************)
(* Types.                                                                  *)
(***************************************************************************)

\* The changes users make keep the types.
LEMMA UsersType == TypeOK /\ Users => TypeOK'
<1> SUFFICES ASSUME TypeOK, Users PROVE TypeOK'
  OBVIOUS
<1> DEFINE Goal == /\ disk' \in [Names -> File \cup {NoFile}] /\ now' \in Nat
                   /\ stored' \in Seq(Entry) /\ Change
<1>0. /\ disk \in [Names -> File \cup {NoFile}] /\ now \in Nat /\ now + 1 \in Nat
      /\ stored \in Seq(Entry)
  BY DEF TypeOK, EnvType, StoreType
<1>1. ASSUME NEW n \in Names, Write(n) PROVE Goal
  <2>1. [ino |-> disk[n].ino, ver |-> now] \in File
    BY <1>0, <1>1 DEF Write, File
  <2> QED BY <1>0, <1>1, <2>1 DEF Write
<1>2. ASSUME NEW n \in Names, Delete(n) PROVE Goal
  BY <1>0, <1>2 DEF Delete
<1>3. ASSUME NEW n \in Names, NEW i \in Inodes, Create(n, i) PROVE Goal
  <2>1. [ino |-> i, ver |-> now] \in File
    BY <1>0 DEF File
  <2> QED BY <1>0, <1>3, <2>1 DEF Create
<1>4. ASSUME NEW n \in Names, NEW m \in Names, Move(n, m) PROVE Goal
  BY <1>0, <1>4 DEF Move
<1>5. ASSUME NEW n \in Names, NEW m \in Names, Link(n, m) PROVE Goal
  BY <1>0, <1>5 DEF Link
<1>6. ASSUME NEW n \in Names, NEW m \in Names, NEW i \in Inodes, Copy(n, m, i)
      PROVE Goal
  <2>1. [ino |-> i, ver |-> disk[n].ver] \in File
    BY <1>0, <1>6 DEF Copy, File
  <2> QED BY <1>0, <1>6, <2>1 DEF Copy
<1>7. ASSUME NEW k \in DOMAIN stored, Annotate(k) PROVE Goal
  <2>1. stored[k] \in Entry
    BY <1>0
  <2>2. [stored[k] EXCEPT !.custom = TRUE] \in Entry
    BY <2>1 DEF Entry
  <2> QED BY <1>0, <1>7, <2>2 DEF Annotate
<1>8. Goal
  BY <1>1, <1>2, <1>3, <1>4, <1>5, <1>6, <1>7 DEF Users
<1> QED BY <1>8 DEF Change, local, TypeOK, EnvType, StoreType, ManifestType, ScanType

\* Counting keeps the counters numbers.
LEMMA CountedType ==
    ASSUME TypeOK, NEW a \in Nat, NEW b \in Nat, NEW c \in Nat, NEW d \in Nat
    PROVE  Counted(a, b, c, d) \in [scanned : Nat, added : Nat, updated : Nat, removed : Nat]
<1>1. result \in [scanned : Nat, added : Nat, updated : Nat, removed : Nat]
  BY DEF TypeOK, ScanType
<1> QED BY <1>1 DEF Counted

\* What finding an entry gives, for either way it is handled.
LEMMA FoundType ==
    ASSUME TypeOK, NEW n \in Names, NEW i \in DOMAIN work, Found(n, i)
    PROVE  /\ observed' \in Seq(BOOLEAN) /\ Len(observed') = Len(observed)
           /\ DOMAIN observed' = DOMAIN observed
           /\ hist' \in [renamed : BOOLEAN, stolen : BOOLEAN, shifted : BOOLEAN]
           /\ todo' \subseteq DOMAIN seen
           /\ n \in DOMAIN seen /\ seen[n] \in File
<1>1. n \in DOMAIN seen /\ seen[n] \in File /\ todo' \subseteq DOMAIN seen
  BY DEF Found, Turn, TypeOK, ScanType
<1>2. observed \in Seq(BOOLEAN)
  BY DEF TypeOK, ManifestType
<1>3. observed' = [observed EXCEPT ![i] = TRUE]
  BY DEF Found
<1>4. observed \in [1 .. Len(observed) -> BOOLEAN] /\ Len(observed) \in Nat
  BY <1>2
<1>5. observed' = [j \in 1 .. Len(observed) |-> IF j = i THEN TRUE ELSE observed[j]]
  BY <1>3, <1>4
<1>6. observed' \in [1 .. Len(observed) -> BOOLEAN]
  BY <1>4, <1>5
<1>7. /\ observed' \in Seq(BOOLEAN) /\ Len(observed') = Len(observed)
      /\ DOMAIN observed' = DOMAIN observed
  BY <1>2, <1>4, <1>6
<1>8. hist' \in [renamed : BOOLEAN, stolen : BOOLEAN, shifted : BOOLEAN]
  BY DEF Found, TypeOK, ScanType
<1> QED BY <1>1, <1>7, <1>8

\* Each step of a scan keeps the types.
LEMMA ScanKeepsType == TypeOK /\ (Scan \/ Fail) => TypeOK'
<1> SUFFICES ASSUME TypeOK, Scan \/ Fail PROVE TypeOK'
  OBVIOUS
<1>0. /\ stored \in Seq(Entry) /\ work \in Seq(Entry) /\ observed \in Seq(BOOLEAN)
      /\ cursor \in Nat /\ (pc = "sweep" => cursor <= Len(work))
      /\ Len(work) \in Nat /\ nextId \in Nat
      /\ result \in [scanned : Nat, added : Nat, updated : Nat, removed : Nat]
  BY DEF TypeOK, StoreType, ManifestType, ScanType
<1>1. CASE Load
  <2>1. PICK files \in Sorted(stored) :
            /\ loaded' = files /\ work' = files
            /\ observed' = [i \in 1 .. Len(files) |-> FALSE]
    BY <1>1 DEF Load
  <2>2. files \in Seq(Entry) /\ Len(files) \in Nat
    BY <1>0, SortedArrangement
  <2>3. observed' \in Seq(BOOLEAN)
    BY <2>1, <2>2
  <2>4. ManifestType'
    BY <1>0, <1>1, <2>1, <2>2, <2>3 DEF Load, ManifestType
  <2>5. EnvType' /\ StoreType' /\ ScanType'
    BY <1>1 DEF Load, env, TypeOK, EnvType, StoreType, ScanType
  <2> QED BY <2>4, <2>5 DEF TypeOK
<1>2. CASE Listed
  BY <1>2 DEF Listed, env, TypeOK, EnvType, StoreType, ManifestType, ScanType
<1>3. CASE Looped
  BY <1>0, <1>3 DEF Looped, env, TypeOK, EnvType, StoreType, ManifestType, ScanType
<1>4. CASE Sweep
  <2>1. cursor \in DOMAIN work /\ cursor - 1 \in Nat /\ cursor' = cursor - 1
        /\ UNCHANGED <<loaded, observed>>
    BY <1>0, <1>4 DEF Sweep
  <2>2. Erase(work, cursor) \in Seq(Entry) /\ Len(Erase(work, cursor)) = Len(work) - 1
    BY <1>0, <2>1, EraseShape
  <2>3. \/ work' = Erase(work, cursor) /\ result' = Counted(0, 0, 0, 1)
        \/ UNCHANGED <<work, result>>
    BY <1>4 DEF Sweep
  <2>4. work' \in Seq(Entry) /\ cursor' <= Len(work')
    BY <1>0, <2>1, <2>2, <2>3
  <2>5. ManifestType'
    BY <2>1, <2>4 DEF TypeOK, ManifestType
  <2>6. result' \in [scanned : Nat, added : Nat, updated : Nat, removed : Nat]
    <3>1. Counted(0, 0, 0, 1) \in [scanned : Nat, added : Nat, updated : Nat, removed : Nat]
      BY CountedType
    <3> QED BY <1>0, <2>3, <3>1
  <2>7. EnvType' /\ StoreType' /\ ScanType'
    BY <1>4, <2>6 DEF Sweep, env, TypeOK, EnvType, StoreType, ScanType
  <2> QED BY <2>5, <2>7 DEF TypeOK
<1>5. CASE Swept
  BY <1>5 DEF Swept, env, local, TypeOK, EnvType, StoreType, ManifestType, ScanType
<1>6. CASE Save
  BY <1>6 DEF Save, Return, NoResult, NoHist, env, TypeOK, EnvType, StoreType,
              ManifestType, ScanType
<1>7. ASSUME NEW n \in Names, Snapshot(n) PROVE TypeOK'
  BY <1>7 DEF Snapshot, env, TypeOK, EnvType, StoreType, ManifestType, ScanType
<1>8. ASSUME NEW n \in Names, Skip(n) PROVE TypeOK'
  BY <1>8 DEF Skip, env, TypeOK, EnvType, StoreType, ManifestType, ScanType
<1>9. ASSUME NEW n \in Names, NEW i \in DOMAIN work, Found(n, i),
             NEW e \in Entry, work' = [work EXCEPT ![i] = e],
             result' \in [scanned : Nat, added : Nat, updated : Nat, removed : Nat]
      PROVE  TypeOK'
  <2>1. work' \in Seq(Entry) /\ Len(work') = Len(work)
    BY <1>0, <1>9
  <2>2. ManifestType'
    BY <1>9, <2>1, FoundType DEF Found, Turn, TypeOK, ManifestType
  <2>3. EnvType' /\ StoreType' /\ ScanType'
    BY <1>9, FoundType DEF Found, env, TypeOK, EnvType, StoreType, ScanType
  <2> QED BY <2>2, <2>3 DEF TypeOK
<1>10. ASSUME NEW n \in Names, NEW i \in DOMAIN work, Keep(n, i) PROVE TypeOK'
  <2>1. Found(n, i)
    BY <1>10 DEF Keep
  <2>2. work[i] \in Entry
    BY <1>0
  <2>3. [work[i] EXCEPT !.name = n] \in Entry
    BY <2>2 DEF Entry
  <2>4. work' = [work EXCEPT ![i] = [work[i] EXCEPT !.name = n]]
    BY <1>10 DEF Keep
  <2>5. result' \in [scanned : Nat, added : Nat, updated : Nat, removed : Nat]
    BY <1>0, <1>10, CountedType DEF Keep
  <2> QED BY <1>9, <2>1, <2>3, <2>4, <2>5
<1>11. ASSUME NEW n \in Names, NEW i \in DOMAIN work, NEW terms \in Extractions,
              Refresh(n, i, terms)
       PROVE TypeOK'
  <2>1. Found(n, i)
    BY <1>11 DEF Refresh
  <2>2. work[i] \in Entry /\ seen[n] \in File /\ terms \in BOOLEAN
    BY <1>0, <2>1, FoundType, ExtractionsAssumption
  <2>3. Refreshed(work[i], n, seen[n], terms) \in Entry
    BY <2>2 DEF Entry, Refreshed, File
  <2>4. result' \in [scanned : Nat, added : Nat, updated : Nat, removed : Nat]
    BY <1>0, <1>11, CountedType DEF Refresh
  <2>5. work' = [work EXCEPT ![i] = Refreshed(work[i], n, seen[n], terms)]
    BY <1>11 DEF Refresh
  <2> QED BY <1>9, <2>1, <2>3, <2>4, <2>5
<1>12. ASSUME NEW n \in Names, NEW terms \in Extractions, Add(n, terms) PROVE TypeOK'
  <2> DEFINE grown == Append(work, NewEntry(nextId, n, seen[n], terms))
  <2>1. seen[n] \in File /\ terms \in BOOLEAN
    BY <1>12, ExtractionsAssumption DEF Add, Turn, TypeOK, ScanType
  <2>2. NewEntry(nextId, n, seen[n], terms) \in Entry
    BY <1>0, <2>1 DEF Entry, NewEntry, File
  <2>3. grown \in Seq(Entry)
    BY <1>0, <2>2
  <2>4. PICK files \in Sorted(grown) :
            /\ work' = files
            /\ hist' = [renamed |-> hist.renamed, stolen |-> hist.stolen,
                        shifted |-> hist.shifted \/ files # grown]
    BY <1>12 DEF Add
  <2> HIDE DEF grown
  <2>5. work' \in Seq(Entry)
    BY <2>3, <2>4, SortedArrangement
  <2>6. observed' \in Seq(BOOLEAN)
    BY <1>0, <1>12 DEF Add
  <2>7. ManifestType'
    BY <1>12, <2>5, <2>6 DEF Add, Turn, TypeOK, ManifestType
  <2>8. hist' \in [renamed : BOOLEAN, stolen : BOOLEAN, shifted : BOOLEAN]
    BY <2>4 DEF TypeOK, ScanType
  <2>9. result' \in [scanned : Nat, added : Nat, updated : Nat, removed : Nat]
    BY <1>0, <1>12, CountedType DEF Add
  <2>10. EnvType' /\ StoreType'
    BY <1>0, <1>12 DEF Add, env, TypeOK, EnvType, StoreType
  <2>11. /\ UNCHANGED <<pc, seen, listing>> /\ todo' \subseteq todo
    BY <1>12 DEF Add
  <2>12. ScanType'
    BY <2>8, <2>9, <2>11 DEF TypeOK, ScanType
  <2> QED BY <2>7, <2>10, <2>12 DEF TypeOK
<1>13. CASE Fail
  BY <1>13 DEF Fail, Return, NoResult, NoHist, env, TypeOK, EnvType, StoreType,
               ManifestType, ScanType
<1> QED BY <1>1, <1>2, <1>3, <1>4, <1>5, <1>6, <1>7, <1>8, <1>10, <1>11, <1>12, <1>13
        DEF Scan

\* The types hold at the start.
LEMMA InitType == Init => TypeOK
  BY NamesAssumption DEF Init, TypeOK, EnvType, StoreType, ManifestType, ScanType,
                         File, NoResult, NoHist

\* Every variable keeps the type its declaration gives it.
THEOREM TypeCorrect == Spec => []TypeOK
<1>1. Init => TypeOK
  BY InitType
<1>2. TypeOK /\ [Next]_vars => TypeOK'
  <2> SUFFICES ASSUME TypeOK, [Next]_vars PROVE TypeOK'
    OBVIOUS
  <2>1. CASE Scan \/ Fail
    BY <2>1, ScanKeepsType
  <2>2. CASE Users
    BY <2>2, UsersType
  <2>3. CASE UNCHANGED vars
    BY <2>3 DEF vars, env, local, TypeOK, EnvType, StoreType, ManifestType, ScanType
  <2> QED BY <2>1, <2>2, <2>3 DEF Next
<1> QED BY <1>1, <1>2, PTL DEF Spec

(***************************************************************************)
(* Identities.  The invariant adds that every id in use was handed out.    *)
(***************************************************************************)
IdsBelow(files) == \A i \in DOMAIN files : files[i].id < nextId

IdentityInv ==
    /\ TypeOK
    /\ IdentitiesDistinct
    /\ IdsBelow(stored) /\ IdsBelow(loaded) /\ IdsBelow(work)
    /\ MetadataFollowsIdentity

\* Ids are numbers.
LEMMA EntryId ==
    ASSUME NEW files \in Seq(Entry), NEW k \in DOMAIN files
    PROVE  files[k].id \in Nat
<1>1. files[k] \in Entry
  OBVIOUS
<1> QED BY <1>1 DEF Entry

\* A position that Located returns carries the snapshot's name, unless no entry does.
LEMMA LocatedName ==
    ASSUME NEW n, NEW snapshot, NEW files, NEW i \in Located(n, snapshot, files)
    PROVE  \A j \in DOMAIN files : files[j].name = n => files[i].name = n
<1>1. CASE Named(n, files) # {}
  BY <1>1 DEF Located, Named
<1>2. CASE Named(n, files) = {}
  BY <1>2 DEF Named
<1> QED BY <1>1, <1>2

\* Both ways of handling a found entry keep its id and the user's fields and give
\* it the name and the version of the snapshot.
LEMMA FoundEntry ==
    ASSUME TypeOK, NEW n \in Names, NEW i \in DOMAIN work,
           Keep(n, i) \/ \E terms \in Extractions : Refresh(n, i, terms)
    PROVE  /\ Found(n, i)
           /\ DOMAIN work' = DOMAIN work
           /\ work'[i].id = work[i].id /\ work'[i].name = n
           /\ work'[i].custom = work[i].custom /\ work'[i].ver = seen[n].ver
           /\ \A j \in DOMAIN work : j # i => work'[j] = work[j]
<1>1. work \in Seq(Entry) /\ work[i] \in Entry
  BY DEF TypeOK, ManifestType
<1>2. CASE Keep(n, i)
  <2>1. work' = [work EXCEPT ![i] = [work[i] EXCEPT !.name = n]]
    BY <1>2 DEF Keep
  <2> QED BY <1>1, <1>2, <2>1 DEF Keep, Current, Entry
<1>3. ASSUME NEW terms \in Extractions, Refresh(n, i, terms)
      PROVE  /\ Found(n, i)
             /\ DOMAIN work' = DOMAIN work
             /\ work'[i].id = work[i].id /\ work'[i].name = n
             /\ work'[i].custom = work[i].custom /\ work'[i].ver = seen[n].ver
             /\ \A j \in DOMAIN work : j # i => work'[j] = work[j]
  BY <1>1, <1>3 DEF Refresh, Refreshed
<1> QED BY <1>2, <1>3

\* A found entry keeps the identities of the manifest apart.
LEMMA FoundKeepsIdentity ==
    ASSUME IdentityInv, NEW n \in Names, NEW i \in DOMAIN work,
           Keep(n, i) \/ \E terms \in Extractions : Refresh(n, i, terms),
           TypeOK'
    PROVE  IdentityInv'
<1>1. /\ Found(n, i)
      /\ DOMAIN work' = DOMAIN work
      /\ work'[i].id = work[i].id /\ work'[i].name = n
      /\ work'[i].custom = work[i].custom
      /\ \A j \in DOMAIN work : j # i => work'[j] = work[j]
  BY FoundEntry DEF IdentityInv
<1>2. \A j \in DOMAIN work : work[j].name = n => work[i].name = n
  BY <1>1, LocatedName DEF Found
<1>3. Distinct(work')
  BY <1>1, <1>2 DEF IdentityInv, IdentitiesDistinct, Distinct
<1>4. \A j \in DOMAIN work' : work'[j].id = work[j].id /\ work'[j].custom = work[j].custom
  BY <1>1
<1>5. UNCHANGED <<stored, nextId, loaded, pc>>
  BY <1>1 DEF Found
<1>6. IdsBelow(stored)' /\ IdsBelow(loaded)' /\ IdsBelow(work)'
  BY <1>1, <1>4, <1>5 DEF IdentityInv, IdsBelow
<1>7. MetadataFollowsIdentity'
  BY <1>1, <1>4, <1>5 DEF IdentityInv, MetadataFollowsIdentity
<1> QED BY <1>3, <1>5, <1>6, <1>7 DEF IdentityInv, IdentitiesDistinct

\* A new entry has an id nothing else has, and a name no entry of the manifest has.
LEMMA AddKeepsIdentity ==
    ASSUME IdentityInv, NEW n \in Names, NEW terms \in Extractions, Add(n, terms),
           TypeOK'
    PROVE  IdentityInv'
<1> DEFINE new == NewEntry(nextId, n, seen[n], terms)
           grown == Append(work, new)
<1>1. /\ work \in Seq(Entry) /\ stored \in Seq(Entry) /\ loaded \in Seq(Entry)
      /\ nextId \in Nat /\ seen[n] \in File /\ terms \in BOOLEAN
  BY ExtractionsAssumption
     DEF IdentityInv, TypeOK, StoreType, ManifestType, ScanType, Add, Turn
<1>2. /\ new \in Entry /\ new.id = nextId /\ new.name = n /\ ~new.custom
  BY <1>1 DEF Entry, NewEntry, File
<1> HIDE DEF new
<1>3. /\ grown \in Seq(Entry) /\ Len(work) \in Nat
      /\ DOMAIN work = 1 .. Len(work) /\ DOMAIN grown = 1 .. Len(work) + 1
      /\ grown[Len(work) + 1] = new
      /\ \A j \in DOMAIN work : grown[j] = work[j]
  BY <1>1, <1>2
<1>4. \A j \in DOMAIN work : work[j].name # n
  <2>1. Named(n, work) = {}
    BY DEF Add, Located
  <2> QED BY <2>1 DEF Named
<1>5. \A j \in DOMAIN work : work[j].id < nextId /\ work[j].id \in Nat
  BY <1>1, EntryId DEF IdentityInv, IdsBelow
<1>6. \A j \in DOMAIN grown : j \in DOMAIN work \/ j = Len(work) + 1
  BY <1>3
<1>7. PICK files \in Sorted(grown) : work' = files
  BY DEF Add, new
<1> HIDE DEF grown
<1>8. Distinct(grown)
  <2> SUFFICES ASSUME NEW j \in DOMAIN grown, NEW k \in DOMAIN grown,
                      grown[j].id = grown[k].id \/ grown[j].name = grown[k].name
               PROVE  j = k
    BY DEF Distinct
  <2>1. CASE j \in DOMAIN work /\ k \in DOMAIN work
    BY <1>3, <2>1 DEF IdentityInv, IdentitiesDistinct, Distinct
  <2>2. CASE j \in DOMAIN work /\ k = Len(work) + 1
    BY <1>1, <1>2, <1>3, <1>4, <1>5, <2>2
  <2>3. CASE j = Len(work) + 1 /\ k \in DOMAIN work
    BY <1>1, <1>2, <1>3, <1>4, <1>5, <2>3
  <2>4. CASE j = Len(work) + 1 /\ k = Len(work) + 1
    BY <2>4
  <2> QED BY <1>6, <2>1, <2>2, <2>3, <2>4
<1>9. Distinct(work') /\ \A j \in DOMAIN work' : \E k \in DOMAIN grown : work'[j] = grown[k]
  BY <1>3, <1>7, <1>8, SortedDistinct
<1>10. nextId' = nextId + 1 /\ UNCHANGED <<stored, loaded, pc>> /\ pc = "loop"
  BY DEF Add, Turn
<1>11. \A k \in DOMAIN grown : grown[k].id < nextId'
  BY <1>1, <1>2, <1>3, <1>5, <1>6, <1>10
<1>12. \A k \in DOMAIN stored : stored[k].id < nextId'
  BY <1>1, <1>10, EntryId DEF IdentityInv, IdsBelow
<1>13. \A k \in DOMAIN loaded : loaded[k].id < nextId /\ loaded[k].id < nextId'
  BY <1>1, <1>10, EntryId DEF IdentityInv, IdsBelow
<1>14. IdsBelow(stored)' /\ IdsBelow(loaded)' /\ IdsBelow(work)'
  BY <1>9, <1>10, <1>11, <1>12, <1>13 DEF IdsBelow
<1>15. \A k \in DOMAIN grown :
           \/ \E i \in DOMAIN loaded : /\ loaded[i].id = grown[k].id
                                       /\ loaded[i].custom = grown[k].custom
           \/ /\ \A i \in DOMAIN loaded : loaded[i].id # grown[k].id
              /\ ~grown[k].custom
  <2> TAKE k \in DOMAIN grown
  <2>1. CASE k \in DOMAIN work
    BY <1>3, <1>10, <2>1 DEF IdentityInv, MetadataFollowsIdentity
  <2>2. CASE k = Len(work) + 1
    <3>1. \A i \in DOMAIN loaded : loaded[i].id # nextId
      BY <1>1, <1>13
    <3> QED BY <1>2, <1>3, <2>2, <3>1
  <2> QED BY <1>6, <2>1, <2>2
<1>16. MetadataFollowsIdentity'
  BY <1>9, <1>10, <1>15 DEF MetadataFollowsIdentity
<1> QED BY <1>9, <1>10, <1>14, <1>16 DEF IdentityInv, IdentitiesDistinct

\* An erasure keeps identities apart.
LEMMA SweepKeepsIdentity ==
    ASSUME IdentityInv, Sweep, TypeOK'
    PROVE  IdentityInv'
<1>1. work \in Seq(Entry) /\ cursor \in DOMAIN work
  BY DEF IdentityInv, TypeOK, ManifestType, Sweep
<1>2. UNCHANGED <<stored, nextId, loaded, pc>> /\ pc = "sweep"
  BY DEF Sweep
<1>3. Distinct(work') /\ \A j \in DOMAIN work' : \E k \in DOMAIN work : work'[j] = work[k]
  <2>1. work' = Erase(work, cursor) \/ work' = work
    BY DEF Sweep
  <2>2. Distinct(work)
    BY DEF IdentityInv, IdentitiesDistinct
  <2> QED BY <1>1, <2>1, <2>2, EraseDistinct
<1>4. IdsBelow(stored)' /\ IdsBelow(loaded)' /\ IdsBelow(work)'
  BY <1>2, <1>3 DEF IdentityInv, IdsBelow
<1>5. MetadataFollowsIdentity'
  BY <1>2, <1>3 DEF IdentityInv, MetadataFollowsIdentity
<1> QED BY <1>2, <1>3, <1>4, <1>5 DEF IdentityInv, IdentitiesDistinct

\* Every step keeps identities apart.
LEMMA NextKeepsIdentity == IdentityInv /\ [Next]_vars => IdentityInv'
<1> SUFFICES ASSUME IdentityInv, [Next]_vars PROVE IdentityInv'
  OBVIOUS
<1>0. TypeOK'
  <2>1. TypeOK
    BY DEF IdentityInv
  <2>2. CASE UNCHANGED vars
    BY <2>1, <2>2 DEF vars, env, local, TypeOK, EnvType, StoreType, ManifestType, ScanType
  <2> QED BY <2>1, <2>2, ScanKeepsType, UsersType DEF Next
<1>1. CASE UNCHANGED <<stored, nextId, loaded, work>> /\ (pc' = "idle" \/ pc # "idle")
  BY <1>0, <1>1 DEF IdentityInv, IdentitiesDistinct, IdsBelow, MetadataFollowsIdentity
<1>2. CASE Users
  <2>1. UNCHANGED <<nextId, loaded, work, pc>>
    BY <1>2 DEF Users, Create, Write, Move, Delete, Link, Copy, Annotate, Change, local
  <2>2. /\ DOMAIN stored' = DOMAIN stored
        /\ \A k \in DOMAIN stored : /\ stored'[k].id = stored[k].id
                                    /\ stored'[k].name = stored[k].name
    <3>1. CASE UNCHANGED stored
      BY <3>1
    <3>2. ASSUME NEW k \in DOMAIN stored, Annotate(k)
          PROVE  /\ DOMAIN stored' = DOMAIN stored
                 /\ \A j \in DOMAIN stored : /\ stored'[j].id = stored[j].id
                                             /\ stored'[j].name = stored[j].name
      <4>1. stored \in Seq(Entry) /\ stored[k] \in Entry
        BY DEF IdentityInv, TypeOK, StoreType
      <4>2. stored' = [stored EXCEPT ![k] = [stored[k] EXCEPT !.custom = TRUE]]
        BY <3>2 DEF Annotate
      <4> QED BY <4>1, <4>2 DEF Entry
    <3> QED BY <1>2, <3>1, <3>2 DEF Users, Create, Write, Move, Delete, Link, Copy
  <2> QED BY <1>0, <2>1, <2>2
          DEF IdentityInv, IdentitiesDistinct, Distinct, IdsBelow, MetadataFollowsIdentity
<1>3. CASE Load
  <2>1. PICK files \in Sorted(stored) : loaded' = files /\ work' = files
    BY <1>3 DEF Load
  <2>2. stored \in Seq(Entry) /\ Distinct(stored)
    BY DEF IdentityInv, TypeOK, StoreType, IdentitiesDistinct
  <2>3. Distinct(files) /\ \A j \in DOMAIN files : \E k \in DOMAIN stored : files[j] = stored[k]
    BY <2>2, SortedDistinct
  <2>4. UNCHANGED <<stored, nextId>>
    BY <1>3 DEF Load
  <2>5. IdsBelow(stored)' /\ IdsBelow(loaded)' /\ IdsBelow(work)'
    BY <2>1, <2>3, <2>4 DEF IdentityInv, IdsBelow
  <2> QED BY <1>0, <2>1, <2>2, <2>3, <2>4, <2>5
          DEF IdentityInv, IdentitiesDistinct, MetadataFollowsIdentity
<1>4. CASE Save \/ Fail
  <2>1. /\ stored' = stored \/ stored' = work
        /\ loaded' = <<>> /\ work' = <<>> /\ pc' = "idle" /\ nextId' = nextId
    BY <1>4 DEF Save, Fail, Return
  <2>2. DOMAIN <<>> = {}
    OBVIOUS
  <2>3. Distinct(stored') /\ IdsBelow(stored)'
    BY <2>1 DEF IdentityInv, IdentitiesDistinct, IdsBelow
  <2>4. Distinct(work') /\ IdsBelow(work)' /\ IdsBelow(loaded)'
    BY <2>1, <2>2 DEF Distinct, IdsBelow
  <2> QED BY <1>0, <2>1, <2>3, <2>4
          DEF IdentityInv, IdentitiesDistinct, MetadataFollowsIdentity
<1>5. CASE \/ Listed \/ Looped \/ Swept \/ \E n \in Names : Snapshot(n) \/ Skip(n)
           \/ UNCHANGED vars
  BY <1>1, <1>5 DEF Listed, Looped, Swept, Snapshot, Skip, vars, local
<1>6. CASE \E n \in Names, i \in DOMAIN work :
               Keep(n, i) \/ \E terms \in Extractions : Refresh(n, i, terms)
  BY <1>0, <1>6, FoundKeepsIdentity
<1>7. CASE \E n \in Names, terms \in Extractions : Add(n, terms)
  BY <1>0, <1>7, AddKeepsIdentity
<1>8. CASE Sweep
  BY <1>0, <1>8, SweepKeepsIdentity
<1> QED BY <1>2, <1>3, <1>4, <1>5, <1>6, <1>7, <1>8 DEF Next, Scan

\* Before the first scan there is nothing to mix up.
LEMMA InitIdentity == Init => IdentityInv
<1>1. Init => TypeOK
  BY InitType
<1>2. DOMAIN <<>> = {}
  OBVIOUS
<1> QED BY <1>1, <1>2 DEF Init, IdentityInv, IdentitiesDistinct, Distinct, IdsBelow,
                          MetadataFollowsIdentity

\* No manifest, saved or in the making, repeats a file id or a name.
THEOREM IdentityCorrect == Spec => []IdentitiesDistinct
<1>1. Init => IdentityInv
  BY InitIdentity
<1>2. IdentityInv => IdentitiesDistinct
  BY DEF IdentityInv
<1> QED BY <1>1, <1>2, NextKeepsIdentity, PTL DEF Spec

\* The user's fields belong to the id: whatever happens around a scan, an id carries
\* the fields it was loaded with, and a new id carries none.
THEOREM MetadataCorrect == Spec => []MetadataFollowsIdentity
<1>1. Init => IdentityInv
  BY InitIdentity
<1>2. IdentityInv => MetadataFollowsIdentity
  BY DEF IdentityInv
<1> QED BY <1>1, <1>2, NextKeepsIdentity, PTL DEF Spec

(***************************************************************************)
(* Exactness.  While nothing has shifted or been stolen, the marked         *)
(* positions are those of the snapshots already handled, and no others; in  *)
(* the sweep this holds of the positions still to test, and those already   *)
(* tested all stay.                                                         *)
(***************************************************************************)
Clean == ~hist.shifted /\ ~hist.stolen

Claims(j, names) == work[j].name \in names /\ work[j].ver = seen[work[j].name].ver

\* The positions in S are exactly those of the files in names.
Exactly(S, names) ==
    /\ \A j \in S : j \in DOMAIN work /\ Claims(j, names)
    /\ \A n \in names : \E j \in S : work[j].name = n

Marked == {j \in DOMAIN work : observed[j]}
Staying == {j \in DOMAIN work : j > cursor \/ observed[j]}

ExactInv ==
    /\ TypeOK
    /\ pc = "list" => Len(observed) = Len(work) /\ \A j \in DOMAIN work : ~observed[j]
    /\ pc = "loop" => /\ Len(observed) = Len(work)
                      /\ Clean => Exactly(Marked, DOMAIN seen \ todo)
    /\ pc = "sweep" => /\ cursor <= Len(observed)
                       /\ Clean => Exactly(Staying, DOMAIN seen)
    /\ pc = "save" /\ Clean => Exactly(DOMAIN work, DOMAIN seen)

\* Handling a found entry adds its position to the marked ones and its snapshot to
\* the handled ones.
LEMMA FoundKeepsExact ==
    ASSUME ExactInv, NEW n \in Names, NEW i \in DOMAIN work,
           Keep(n, i) \/ \E terms \in Extractions : Refresh(n, i, terms),
           TypeOK'
    PROVE  ExactInv'
<1>1. TypeOK
  BY DEF ExactInv
<1>2. /\ Found(n, i)
      /\ DOMAIN work' = DOMAIN work
      /\ work'[i].name = n /\ work'[i].ver = seen[n].ver
      /\ \A j \in DOMAIN work : j # i => work'[j] = work[j]
  BY <1>1, FoundEntry
<1>3. /\ pc = "loop" /\ pc' = "loop" /\ n \in todo /\ n \in DOMAIN seen
      /\ todo' = todo \ {n} /\ seen' = seen
  BY <1>1, <1>2 DEF Found, Turn, TypeOK, ScanType
<1>4. /\ Len(observed) = Len(work) /\ work \in Seq(Entry) /\ work' \in Seq(Entry)
      /\ observed \in Seq(BOOLEAN)
  BY <1>1, <1>3 DEF ExactInv, TypeOK, ManifestType
<1>5. /\ Len(observed') = Len(work') /\ i \in DOMAIN observed
  BY <1>1, <1>2, <1>4, FoundType
<1>6. Marked' = Marked \cup {i}
  <2>1. observed' = [observed EXCEPT ![i] = TRUE]
    BY <1>2 DEF Found
  <2>2. observed'[i] /\ \A j \in DOMAIN work : j # i => observed'[j] = observed[j]
    BY <1>4, <1>5, <2>1
  <2> QED BY <1>2, <2>2 DEF Marked
<1>7. ASSUME Clean' PROVE Exactly(Marked, DOMAIN seen \ todo)'
  <2>1. /\ Clean /\ ~(work[i].name # n /\ observed[i])
    BY <1>1, <1>2, <1>7 DEF Clean, Found, TypeOK, ScanType
  <2>2. Exactly(Marked, DOMAIN seen \ todo)
    BY <1>3, <2>1 DEF ExactInv
  <2>3. i \notin Marked
    BY <1>3, <2>1, <2>2 DEF Marked, Exactly, Claims
  <2>4. \A j \in Marked : /\ j \in DOMAIN work' /\ work'[j] = work[j]
                          /\ Claims(j, DOMAIN seen \ todo)
    BY <1>2, <2>2, <2>3 DEF Exactly
  <2>5. \A j \in Marked' : j \in DOMAIN work' /\ Claims(j, DOMAIN seen \ todo)'
    BY <1>2, <1>3, <1>6, <2>4 DEF Claims
  <2>6. \A m \in DOMAIN seen \ todo : \E j \in Marked' : work'[j].name = m
    BY <1>6, <2>2, <2>4 DEF Exactly
  <2>7. \A m \in DOMAIN seen' \ todo' : \E j \in Marked' : work'[j].name = m
    BY <1>2, <1>3, <1>6, <2>6
  <2> QED BY <2>5, <2>7 DEF Exactly
<1> QED BY <1>3, <1>5, <1>7 DEF ExactInv

\* A new file at the end of the vector gets the mark that is pushed for it.
LEMMA AddKeepsExact ==
    ASSUME ExactInv, NEW n \in Names, NEW terms \in Extractions, Add(n, terms), TypeOK'
    PROVE  ExactInv'
<1> DEFINE new == NewEntry(nextId, n, seen[n], terms)
           grown == Append(work, new)
<1>1. TypeOK
  BY DEF ExactInv
<1>2. /\ work \in Seq(Entry) /\ observed \in Seq(BOOLEAN) /\ nextId \in Nat
      /\ terms \in BOOLEAN
  BY <1>1, ExtractionsAssumption DEF TypeOK, ManifestType, StoreType
<1>3. /\ pc = "loop" /\ pc' = "loop" /\ n \in todo /\ n \in DOMAIN seen
      /\ seen[n] \in File /\ todo' = todo \ {n} /\ seen' = seen
      /\ observed' = Append(observed, TRUE)
  BY <1>1 DEF Add, Turn, TypeOK, ScanType
<1>4. Len(observed) = Len(work)
  BY <1>3 DEF ExactInv
<1>5. PICK files \in Sorted(grown) :
          /\ work' = files
          /\ hist' = [renamed |-> hist.renamed, stolen |-> hist.stolen,
                      shifted |-> hist.shifted \/ files # grown]
  BY DEF Add
<1>6. new \in Entry /\ new.name = n /\ new.ver = seen[n].ver
  BY <1>2, <1>3 DEF NewEntry, Entry, File
<1> HIDE DEF new
<1>7. grown \in Seq(Entry) /\ Len(grown) = Len(work) + 1 /\ Len(work) \in Nat
  BY <1>2, <1>6
<1>8. Len(observed') = Len(work')
  <2>1. Len(work') = Len(grown)
    BY <1>5, <1>7, SortedArrangement
  <2> QED BY <1>2, <1>3, <1>4, <1>7, <2>1
<1>9. ASSUME Clean' PROVE Exactly(Marked, DOMAIN seen \ todo)'
  <2>1. Clean /\ work' = grown
    BY <1>1, <1>5, <1>9 DEF Clean, TypeOK, ScanType
  <2>2. Exactly(Marked, DOMAIN seen \ todo)
    BY <1>3, <2>1 DEF ExactInv
  <2>3. /\ DOMAIN work' = DOMAIN work \cup {Len(work) + 1}
        /\ work'[Len(work) + 1] = new
        /\ \A j \in DOMAIN work : work'[j] = work[j]
    BY <1>2, <1>6, <1>7, <2>1
  <2>4. /\ observed'[Len(work) + 1]
        /\ \A j \in DOMAIN work : observed'[j] = observed[j]
    BY <1>2, <1>3, <1>4
  <2>5. Marked' = Marked \cup {Len(work) + 1}
    BY <2>3, <2>4 DEF Marked
  <2>6. \A j \in Marked : j \in DOMAIN work /\ Claims(j, DOMAIN seen \ todo)
    BY <2>2 DEF Exactly
  <2>7. \A j \in Marked' : j \in DOMAIN work' /\ Claims(j, DOMAIN seen \ todo)'
    BY <1>3, <1>6, <2>3, <2>5, <2>6 DEF Claims
  <2>8. \A m \in DOMAIN seen \ todo : \E j \in Marked' : work'[j].name = m
    BY <2>2, <2>3, <2>5, <2>6 DEF Exactly
  <2>9. \A m \in DOMAIN seen' \ todo' : \E j \in Marked' : work'[j].name = m
    BY <1>3, <1>6, <2>3, <2>5, <2>8
  <2> QED BY <2>7, <2>9 DEF Exactly
<1> QED BY <1>3, <1>8, <1>9 DEF ExactInv

\* An unmarked position goes, and those above it move down together.
LEMMA SweepKeepsExact == ASSUME ExactInv, Sweep, TypeOK' PROVE ExactInv'
<1>1. TypeOK
  BY DEF ExactInv
<1>2. /\ work \in Seq(Entry) /\ Len(work) \in Nat /\ DOMAIN work = 1 .. Len(work)
      /\ cursor \in DOMAIN work /\ cursor \in Nat /\ cursor <= Len(observed)
      /\ Len(observed) \in Nat
  BY <1>1 DEF Sweep, ExactInv, TypeOK, ManifestType
<1>3. /\ pc = "sweep" /\ pc' = "sweep" /\ cursor' = cursor - 1
      /\ UNCHANGED <<observed, seen, hist>>
  BY DEF Sweep
<1>4. cursor' <= Len(observed')
  BY <1>2, <1>3
<1>5. ASSUME Clean PROVE Exactly(Staying, DOMAIN seen)'
  <2>0. Exactly(Staying, DOMAIN seen)
    BY <1>3, <1>5 DEF ExactInv
  <2>1. CASE observed[cursor] /\ work' = work
    <3>1. Staying' = Staying
      BY <1>2, <1>3, <2>1 DEF Staying
    <3> QED BY <1>3, <2>0, <2>1, <3>1 DEF Exactly, Claims
  <2>2. CASE ~observed[cursor] /\ work' = Erase(work, cursor)
    <3>1. /\ DOMAIN work' = 1 .. Len(work) - 1
          /\ \A j \in 1 .. Len(work) - 1 :
                work'[j] = IF j < cursor THEN work[j] ELSE work[j + 1]
      BY <1>2, <2>2, EraseShape
    <3>2. \A j \in Staying' : LET k == IF j < cursor THEN j ELSE j + 1
                              IN  k \in Staying /\ work'[j] = work[k]
      BY <1>2, <1>3, <3>1 DEF Staying
    <3>3. \A k \in Staying : LET j == IF k < cursor THEN k ELSE k - 1
                             IN  j \in Staying' /\ work'[j] = work[k]
      BY <1>2, <1>3, <2>2, <3>1 DEF Staying
    <3>4. \A j \in Staying' : j \in DOMAIN work' /\ Claims(j, DOMAIN seen)'
      BY <1>3, <2>0, <3>2 DEF Exactly, Claims, Staying
    <3>5. \A m \in DOMAIN seen' : \E j \in Staying' : work'[j].name = m
      BY <1>3, <2>0, <3>3 DEF Exactly
    <3> QED BY <3>4, <3>5 DEF Exactly
  <2> QED BY <1>2, <2>1, <2>2 DEF Sweep
<1> QED BY <1>3, <1>4, <1>5 DEF ExactInv, Clean

\* Every step keeps the marks exact.
LEMMA NextKeepsExact == ExactInv /\ [Next]_vars => ExactInv'
<1> SUFFICES ASSUME ExactInv, [Next]_vars PROVE ExactInv'
  OBVIOUS
<1>0. TypeOK'
  <2>1. TypeOK
    BY DEF ExactInv
  <2>2. CASE UNCHANGED vars
    BY <2>1, <2>2 DEF vars, env, local, TypeOK, EnvType, StoreType, ManifestType, ScanType
  <2> QED BY <2>1, <2>2, ScanKeepsType, UsersType DEF Next
<1>1. ASSUME UNCHANGED <<pc, local>> PROVE ExactInv'
  BY <1>0, <1>1 DEF ExactInv, local, Clean, Exactly, Claims, Marked, Staying
<1>2. CASE Users \/ UNCHANGED vars
  BY <1>1, <1>2
     DEF Users, Create, Write, Move, Delete, Link, Copy, Annotate, Change, vars
<1>3. CASE Load
  <2>1. PICK files \in Sorted(stored) :
            work' = files /\ observed' = [j \in 1 .. Len(files) |-> FALSE]
    BY <1>3 DEF Load
  <2>2. stored \in Seq(Entry)
    BY DEF ExactInv, TypeOK, StoreType
  <2>3. files \in Seq(Entry) /\ Len(files) \in Nat
    BY <2>2, SortedArrangement
  <2>4. Len(observed') = Len(work') /\ \A j \in DOMAIN work' : ~observed'[j]
    BY <2>1, <2>3
  <2> QED BY <1>0, <1>3, <2>4 DEF Load, ExactInv
<1>4. CASE Listed
  <2>1. /\ pc = "list" /\ pc' = "loop" /\ todo' = DOMAIN seen'
        /\ UNCHANGED <<observed, work, seen, hist>>
    BY <1>4 DEF Listed
  <2>2. Marked' = {} /\ DOMAIN seen' \ todo' = {}
    BY <2>1 DEF Marked, ExactInv
  <2> QED BY <1>0, <2>1, <2>2 DEF ExactInv, Exactly
<1>5. CASE Looped
  <2>1. /\ pc = "loop" /\ pc' = "sweep" /\ todo = {} /\ cursor' = Len(work)
        /\ UNCHANGED <<observed, work, seen, hist>>
    BY <1>5 DEF Looped
  <2>2. Len(observed) = Len(work) /\ work \in Seq(Entry)
    BY <2>1 DEF ExactInv, TypeOK, ManifestType
  <2>3. Staying' = Marked
    BY <2>1, <2>2 DEF Staying, Marked
  <2>4. DOMAIN seen \ todo = DOMAIN seen
    BY <2>1
  <2>5. Clean => Exactly(Marked, DOMAIN seen)
    BY <2>1, <2>4 DEF ExactInv
  <2>6. cursor' <= Len(observed')
    BY <2>1, <2>2
  <2> QED BY <1>0, <2>1, <2>3, <2>5, <2>6 DEF ExactInv, Exactly, Claims, Clean
<1>6. CASE Swept
  <2>1. /\ pc = "sweep" /\ pc' = "save" /\ cursor = 0 /\ UNCHANGED <<work, seen, hist>>
    BY <1>6 DEF Swept, local
  <2>2. work \in Seq(Entry)
    BY DEF ExactInv, TypeOK, ManifestType
  <2>3. Staying = DOMAIN work
    <3>1. \A j \in DOMAIN work : j > cursor
      BY <2>1, <2>2
    <3> QED BY <3>1 DEF Staying
  <2> QED BY <1>0, <2>1, <2>3 DEF ExactInv, Exactly, Claims, Clean
<1>7. CASE Save \/ Fail
  BY <1>0, <1>7 DEF Save, Fail, Return, ExactInv
<1>8. CASE \E n \in Names : Snapshot(n) \/ Skip(n)
  <2>1. pc = "list" /\ pc' = "list" /\ UNCHANGED <<observed, work>>
    BY <1>8 DEF Snapshot, Skip
  <2> QED BY <1>0, <2>1 DEF ExactInv
<1>9. CASE \E n \in Names, i \in DOMAIN work :
               Keep(n, i) \/ \E terms \in Extractions : Refresh(n, i, terms)
  BY <1>0, <1>9, FoundKeepsExact
<1>10. CASE \E n \in Names, terms \in Extractions : Add(n, terms)
  BY <1>0, <1>10, AddKeepsExact
<1>11. CASE Sweep
  BY <1>0, <1>11, SweepKeepsExact
<1> QED BY <1>2, <1>3, <1>4, <1>5, <1>6, <1>7, <1>8, <1>9, <1>10, <1>11 DEF Next, Scan

\* A scan saves exactly what it saw, unless an addition moved existing entries or a
\* snapshot renamed an entry that another had claimed: the positional `observed'
\* loses files in no other way.
THEOREM ScanExact == Spec => []ExactUnlessShiftedOrStolen
<1>1. Init => ExactInv
  BY InitType DEF Init, ExactInv
<1>2. ExactInv => ExactUnlessShiftedOrStolen
  <2> SUFFICES ASSUME ExactInv, pc = "save", Clean
               PROVE  /\ NamesOf(work) = DOMAIN seen
                      /\ \A j \in DOMAIN work : work[j].ver = seen[work[j].name].ver
    BY DEF ExactUnlessShiftedOrStolen, Clean
  <2>1. Exactly(DOMAIN work, DOMAIN seen)
    BY DEF ExactInv
  <2>2. \A j \in DOMAIN work : work[j].name \in DOMAIN seen
    BY <2>1 DEF Exactly, Claims
  <2>3. \A n \in DOMAIN seen : \E j \in DOMAIN work : work[j].name = n
    BY <2>1 DEF Exactly
  <2>4. NamesOf(work) = DOMAIN seen
    BY <2>2, <2>3 DEF NamesOf
  <2> QED BY <2>1, <2>4 DEF Exactly, Claims
<1> QED BY <1>1, <1>2, NextKeepsExact, PTL DEF Spec

(***************************************************************************)
(* Counters.  They count the snapshots handled and the entries that came   *)
(* and went; and however positions and entries come apart, there is at     *)
(* most one mark per snapshot handled, and the sweep keeps an entry only   *)
(* where it finds a mark.                                                  *)
(***************************************************************************)
MarksAbove(bottom) == {j \in DOMAIN observed : observed[j] /\ j > bottom}

Handled == DOMAIN seen \ todo

Unmarked == \A j \in DOMAIN observed : ~observed[j]

CountersInv ==
    /\ pc \in {"idle", "list"} => result = NoResult
    /\ pc # "idle" => Len(work) = Len(loaded) + result.added - result.removed
    /\ result.added + result.updated <= result.scanned
    /\ pc \in {"loop", "sweep", "save"} => result.scanned = Cardinality(Handled)

MarksInv ==
    /\ pc = "list" => Unmarked
    /\ pc \in {"loop", "sweep"} => Cardinality(MarksAbove(0)) <= Cardinality(Handled)
    /\ pc = "sweep" => Len(work) - cursor <= Cardinality(MarksAbove(cursor))
    /\ pc = "save" => Len(work) <= Cardinality(Handled)

CountsInv ==
    /\ TypeOK
    /\ IsFiniteSet(DOMAIN seen)
    /\ pc \in {"sweep", "save"} => todo = {}
    /\ pc = "loop" => Len(observed) = Len(work)
    /\ pc = "list" => Len(observed) = Len(work)
    /\ CountersInv
    /\ MarksInv

\* What the types say of the numbers in a step.
LEMMA NumberTypes ==
    ASSUME TypeOK
    PROVE  /\ Len(work) \in Nat /\ Len(loaded) \in Nat /\ Len(observed) \in Nat
           /\ cursor \in Nat /\ observed \in Seq(BOOLEAN)
           /\ DOMAIN observed = 1 .. Len(observed)
           /\ result.scanned \in Nat /\ result.added \in Nat
           /\ result.updated \in Nat /\ result.removed \in Nat
<1>1. /\ work \in Seq(Entry) /\ loaded \in Seq(Entry) /\ observed \in Seq(BOOLEAN)
      /\ cursor \in Nat
  BY DEF TypeOK, ManifestType
<1>2. result \in [scanned : Nat, added : Nat, updated : Nat, removed : Nat]
  BY DEF TypeOK, ScanType
<1> QED BY <1>1, <1>2

\* The marks and the snapshots handled are finitely many.
LEMMA CountsFinite ==
    ASSUME CountsInv, NEW bottom
    PROVE  /\ IsFiniteSet(MarksAbove(bottom)) /\ Cardinality(MarksAbove(bottom)) \in Nat
           /\ IsFiniteSet(Handled) /\ Cardinality(Handled) \in Nat
<1>1. /\ Len(observed) \in Nat /\ DOMAIN observed = 1 .. Len(observed)
  BY NumberTypes DEF CountsInv
<1>2. IsFiniteSet(DOMAIN observed)
  BY <1>1, FS_Interval
<1>3. MarksAbove(bottom) \in SUBSET DOMAIN observed
  BY DEF MarksAbove
<1>4. Handled \in SUBSET DOMAIN seen
  BY DEF Handled
<1>5. IsFiniteSet(MarksAbove(bottom))
  BY <1>2, <1>3, FS_Subset
<1>6. IsFiniteSet(Handled)
  BY <1>4, FS_Subset DEF CountsInv
<1> QED BY <1>5, <1>6, FS_CardinalityType

\* A turn of the loop handles one snapshot more and sets at most one mark more.
LEMMA TurnCounts ==
    ASSUME CountsInv, NEW n \in Names, Turn(n), UNCHANGED <<pc, seen, loaded>>,
           todo' = todo \ {n}, TypeOK',
           Len(observed') = Len(work'),
           \E i : MarksAbove(0)' \subseteq MarksAbove(0) \cup {i},
           result'.scanned = result.scanned + 1, result'.removed = result.removed,
           Len(work') - result'.added = Len(work) - result.added,
           result'.added + result'.updated <= result.added + result.updated + 1
    PROVE  CountsInv'
<1>0. PICK i : MarksAbove(0)' \subseteq MarksAbove(0) \cup {i}
  OBVIOUS
<1>1. TypeOK /\ pc = "loop" /\ pc' = "loop" /\ n \in todo /\ todo \subseteq DOMAIN seen
  BY DEF CountsInv, Turn, TypeOK, ScanType
<1>2. /\ IsFiniteSet(Handled) /\ IsFiniteSet(MarksAbove(0))
      /\ Cardinality(Handled) \in Nat /\ Cardinality(MarksAbove(0)) \in Nat
  BY CountsFinite
<1>3. Handled' = Handled \cup {n} /\ n \notin Handled
  BY <1>1 DEF Handled
<1>4. Cardinality(Handled') = Cardinality(Handled) + 1
  BY <1>2, <1>3, FS_AddElement
<1>5. /\ IsFiniteSet(MarksAbove(0) \cup {i})
      /\ Cardinality(MarksAbove(0) \cup {i}) =
            IF i \in MarksAbove(0) THEN Cardinality(MarksAbove(0))
                                   ELSE Cardinality(MarksAbove(0)) + 1
  BY <1>2, FS_AddElement
<1>6. /\ IsFiniteSet(MarksAbove(0)')
      /\ Cardinality(MarksAbove(0)') <= Cardinality(MarksAbove(0) \cup {i})
  BY <1>0, <1>5, FS_Subset
<1>7. Cardinality(MarksAbove(0)') \in Nat
  BY <1>6, FS_CardinalityType
<1>8. Cardinality(MarksAbove(0)) <= Cardinality(Handled)
  BY <1>1 DEF CountsInv, MarksInv
<1>9. Cardinality(MarksAbove(0)') <= Cardinality(Handled')
  BY <1>2, <1>4, <1>5, <1>6, <1>7, <1>8
<1>10. MarksInv'
  BY <1>1, <1>9 DEF MarksInv
<1>11. /\ result.scanned \in Nat /\ result.added \in Nat /\ result.updated \in Nat
       /\ result.removed \in Nat /\ Len(work) \in Nat /\ Len(loaded) \in Nat
  BY <1>1, NumberTypes
<1>12. /\ result'.scanned \in Nat /\ result'.added \in Nat
       /\ result'.updated \in Nat /\ result'.removed \in Nat /\ Len(work') \in Nat
  <2>1. work' \in Seq(Entry)
    BY DEF TypeOK, ManifestType
  <2>2. result' \in [scanned : Nat, added : Nat, updated : Nat, removed : Nat]
    BY DEF TypeOK, ScanType
  <2> QED BY <2>1, <2>2
<1>13. /\ Len(work) = Len(loaded) + result.added - result.removed
       /\ result.added + result.updated <= result.scanned
       /\ result.scanned = Cardinality(Handled)
  BY <1>1 DEF CountsInv, CountersInv
<1>14. /\ Len(work') = Len(loaded') + result'.added - result'.removed
       /\ result'.added + result'.updated <= result'.scanned
       /\ result'.scanned = Cardinality(Handled')
  <2> DEFINE w == Len(work)      l == Len(loaded)      v == Len(work')
             s == result.scanned    a == result.added
             u == result.updated    r == result.removed
             t == result'.scanned   b == result'.added
             p == result'.updated   q == result'.removed
  <2>1. /\ w \in Nat /\ l \in Nat /\ v \in Nat /\ s \in Nat /\ a \in Nat /\ u \in Nat
        /\ r \in Nat /\ t \in Nat /\ b \in Nat /\ p \in Nat /\ q \in Nat
    BY <1>11, <1>12
  <2>2. /\ t = s + 1 /\ q = r /\ v - b = w - a /\ b + p <= a + u + 1
        /\ w = l + a - r /\ a + u <= s
    BY <1>13
  <2>3. loaded' = loaded /\ t = Cardinality(Handled')
    BY <1>4, <1>13
  <2> HIDE DEF w, l, v, s, a, u, r, t, b, p, q
  <2>4. v = l + b - q /\ b + p <= t
    BY <2>1, <2>2
  <2> QED BY <2>3, <2>4 DEF v, l, b, q, p, t
<1>15. CountersInv'
  BY <1>1, <1>14 DEF CountersInv
<1> QED BY <1>1, <1>10, <1>15 DEF CountsInv

\* A found entry is marked where it is.
LEMMA FoundKeepsCounts ==
    ASSUME CountsInv, NEW n \in Names, NEW i \in DOMAIN work,
           Keep(n, i) \/ \E terms \in Extractions : Refresh(n, i, terms),
           TypeOK'
    PROVE  CountsInv'
<1>1. TypeOK
  BY DEF CountsInv
<1>2. Found(n, i) /\ DOMAIN work' = DOMAIN work
  BY <1>1, FoundEntry
<1>3. /\ Turn(n) /\ pc = "loop" /\ todo' = todo \ {n} /\ UNCHANGED <<pc, seen, loaded>>
      /\ observed' = [observed EXCEPT ![i] = TRUE]
  BY <1>2 DEF Found, Turn
<1>4. Len(observed) = Len(work)
  BY <1>3 DEF CountsInv
<1>5. work \in Seq(Entry) /\ work' \in Seq(Entry)
  BY <1>1 DEF TypeOK, ManifestType
<1>6. Len(work') = Len(work) /\ Len(work) \in Nat
  BY <1>2, <1>5
<1>7. Len(observed') = Len(work') /\ DOMAIN observed' = DOMAIN observed
  BY <1>1, <1>2, <1>4, <1>5, <1>6, FoundType
<1>8. \A j \in DOMAIN observed : j # i => observed'[j] = observed[j]
  BY <1>1, <1>3, NumberTypes
<1>9. MarksAbove(0)' \subseteq MarksAbove(0) \cup {i}
  BY <1>7, <1>8 DEF MarksAbove
<1>10. result' = Counted(1, 0, 0, 0) \/ result' = Counted(1, 0, 1, 0)
  BY DEF Keep, Refresh
<1>11. /\ result.scanned \in Nat /\ result.added \in Nat
       /\ result.updated \in Nat /\ result.removed \in Nat
  BY <1>1, NumberTypes
<1>12. /\ result'.scanned = result.scanned + 1 /\ result'.removed = result.removed
       /\ result'.added = result.added
       /\ result'.updated <= result.updated + 1 /\ result'.updated \in Nat
  BY <1>10, <1>11 DEF Counted
<1>13. /\ Len(work') - result'.added = Len(work) - result.added
       /\ result'.added + result'.updated <= result.added + result.updated + 1
  BY <1>6, <1>11, <1>12
<1> QED BY <1>3, <1>7, <1>9, <1>12, <1>13, TurnCounts

\* An addition pushes one mark.
LEMMA AddKeepsCounts ==
    ASSUME CountsInv, NEW n \in Names, NEW terms \in Extractions, Add(n, terms), TypeOK'
    PROVE  CountsInv'
<1> DEFINE new == NewEntry(nextId, n, seen[n], terms)
           grown == Append(work, new)
<1>1. TypeOK
  BY DEF CountsInv
<1>2. /\ Turn(n) /\ pc = "loop" /\ todo' = todo \ {n} /\ UNCHANGED <<pc, seen, loaded>>
      /\ observed' = Append(observed, TRUE) /\ result' = Counted(1, 1, 0, 0)
  BY DEF Add, Turn
<1>3. /\ Len(observed) = Len(work) /\ work \in Seq(Entry) /\ nextId \in Nat
      /\ terms \in BOOLEAN /\ seen[n] \in File
  BY <1>1, <1>2, ExtractionsAssumption
     DEF CountsInv, Turn, TypeOK, ManifestType, StoreType, ScanType
<1>4. new \in Entry
  BY <1>3 DEF NewEntry, Entry, File
<1>5. PICK files \in Sorted(grown) : work' = files
  BY DEF Add
<1> HIDE DEF new
<1>6. grown \in Seq(Entry) /\ Len(grown) = Len(work) + 1
  BY <1>3, <1>4
<1>7. Len(work') = Len(work) + 1
  BY <1>5, <1>6, SortedArrangement
<1>8. /\ observed \in Seq(BOOLEAN) /\ Len(observed) \in Nat
      /\ DOMAIN observed = 1 .. Len(observed)
  BY <1>1, NumberTypes
<1>9. /\ Len(observed') = Len(observed) + 1
      /\ DOMAIN observed' = DOMAIN observed \cup {Len(observed) + 1}
      /\ \A j \in DOMAIN observed : observed'[j] = observed[j]
  BY <1>2, <1>8
<1>10. MarksAbove(0)' \subseteq MarksAbove(0) \cup {Len(observed) + 1}
  BY <1>9 DEF MarksAbove
<1>11. Len(observed') = Len(work')
  BY <1>3, <1>7, <1>9
<1>12. /\ result.scanned \in Nat /\ result.added \in Nat
       /\ result.updated \in Nat /\ result.removed \in Nat /\ Len(work) \in Nat
  BY <1>1, NumberTypes
<1>13. /\ result'.scanned = result.scanned + 1 /\ result'.removed = result.removed
       /\ result'.added = result.added + 1 /\ result'.updated = result.updated
  BY <1>2, <1>12 DEF Counted
<1>14. /\ Len(work') - result'.added = Len(work) - result.added
       /\ result'.added + result'.updated <= result.added + result.updated + 1
  BY <1>7, <1>12, <1>13
<1> QED BY <1>2, <1>10, <1>11, <1>13, <1>14, TurnCounts

\* A step of the sweep erases an entry or passes a mark.
LEMMA SweepKeepsCounts == ASSUME CountsInv, Sweep, TypeOK' PROVE CountsInv'
<1>1. TypeOK
  BY DEF CountsInv
<1>2. /\ pc = "sweep" /\ pc' = "sweep" /\ cursor > 0 /\ cursor' = cursor - 1
      /\ UNCHANGED <<observed, seen, loaded, todo>>
  BY DEF Sweep
<1>3. /\ Len(work) \in Nat /\ Len(loaded) \in Nat /\ cursor \in Nat
      /\ work \in Seq(Entry) /\ cursor \in DOMAIN work
      /\ result.scanned \in Nat /\ result.added \in Nat
      /\ result.updated \in Nat /\ result.removed \in Nat
      /\ Len(observed) \in Nat /\ DOMAIN observed = 1 .. Len(observed)
  BY <1>1, <1>2, NumberTypes DEF TypeOK, ManifestType
<1>4. /\ Handled' = Handled /\ MarksAbove(0)' = MarksAbove(0)
  BY <1>2 DEF Handled, MarksAbove
<1>5. /\ Len(work) = Len(loaded) + result.added - result.removed
      /\ result.added + result.updated <= result.scanned
      /\ result.scanned = Cardinality(Handled)
      /\ Cardinality(MarksAbove(0)) <= Cardinality(Handled)
      /\ Len(work) - cursor <= Cardinality(MarksAbove(cursor))
  BY <1>2 DEF CountsInv, CountersInv, MarksInv
<1>6. /\ IsFiniteSet(MarksAbove(cursor)) /\ Cardinality(MarksAbove(cursor)) \in Nat
      /\ IsFiniteSet(MarksAbove(cursor - 1)) /\ Cardinality(MarksAbove(cursor - 1)) \in Nat
  BY CountsFinite
<1>7. MarksAbove(cursor)' = MarksAbove(cursor - 1)
  BY <1>2 DEF MarksAbove
<1>8. CASE work' = Erase(work, cursor) /\ result' = Counted(0, 0, 0, 1)
  <2>1. Len(work') = Len(work) - 1
    BY <1>3, <1>8, EraseShape
  <2>2. /\ result'.scanned = result.scanned + 0 /\ result'.added = result.added + 0
        /\ result'.updated = result.updated + 0 /\ result'.removed = result.removed + 1
    BY <1>8 DEF Counted
  <2>3. MarksAbove(cursor) \in SUBSET MarksAbove(cursor - 1)
    BY <1>3 DEF MarksAbove
  <2>4. Cardinality(MarksAbove(cursor)) <= Cardinality(MarksAbove(cursor - 1))
    BY <1>6, <2>3, FS_Subset
  <2>5. Len(work') - cursor' <= Cardinality(MarksAbove(cursor - 1))
    <3>1. Len(work') - cursor' = Len(work) - cursor
      BY <1>2, <1>3, <2>1
    <3> QED BY <1>3, <1>5, <1>6, <2>4, <3>1
  <2>6. MarksInv'
    BY <1>2, <1>4, <1>5, <1>7, <2>5 DEF MarksInv
  <2>7. /\ Len(work') = Len(loaded') + result'.added - result'.removed
        /\ result'.added + result'.updated <= result'.scanned
        /\ result'.scanned = Cardinality(Handled')
    BY <1>2, <1>3, <1>4, <1>5, <2>1, <2>2, SMTT(30)
  <2>8. CountersInv'
    BY <1>2, <2>7 DEF CountersInv
  <2> QED BY <1>2, <2>6, <2>8 DEF CountsInv
<1>9. CASE /\ cursor <= Len(observed) /\ observed[cursor] /\ UNCHANGED <<work, result>>
  <2>1. MarksAbove(cursor - 1) = MarksAbove(cursor) \cup {cursor}
    <3>1. cursor \in DOMAIN observed /\ cursor > cursor - 1
      BY <1>2, <1>3, <1>9
    <3>2. \A j \in DOMAIN observed : j > cursor - 1 <=> j > cursor \/ j = cursor
      BY <1>3
    <3> QED BY <1>9, <3>1, <3>2 DEF MarksAbove
  <2>2. cursor \notin MarksAbove(cursor)
    BY <1>3 DEF MarksAbove
  <2>3. Cardinality(MarksAbove(cursor - 1)) = Cardinality(MarksAbove(cursor)) + 1
    BY <1>6, <2>1, <2>2, FS_AddElement
  <2>4. Len(work') - cursor' <= Cardinality(MarksAbove(cursor - 1))
    <3>1. Len(work') - cursor' = Len(work) - cursor + 1
      BY <1>2, <1>3, <1>9
    <3> QED BY <1>3, <1>5, <1>6, <2>3, <3>1
  <2>5. MarksInv'
    BY <1>2, <1>4, <1>5, <1>7, <2>4 DEF MarksInv
  <2>6. CountersInv'
    BY <1>2, <1>4, <1>5, <1>9 DEF CountersInv
  <2> QED BY <1>2, <2>5, <2>6 DEF CountsInv
<1> QED BY <1>3, <1>8, <1>9 DEF Sweep

\* Every step keeps the counts.
LEMMA NextKeepsCounts == CountsInv /\ [Next]_vars => CountsInv'
<1> SUFFICES ASSUME CountsInv, [Next]_vars PROVE CountsInv'
  OBVIOUS
<1> USE DEF CountsInv
<1>0. TypeOK /\ TypeOK'
  <2>1. CASE UNCHANGED vars
    BY <2>1 DEF vars, env, local, TypeOK, EnvType, StoreType, ManifestType, ScanType
  <2> QED BY <2>1, ScanKeepsType, UsersType DEF Next
<1>1. ASSUME UNCHANGED <<pc, local>> PROVE CountsInv'
  <2>1. UNCHANGED <<pc, loaded, work, observed, seen, todo, cursor, result>>
    BY <1>1 DEF local
  <2>2. CountersInv'
    BY <2>1 DEF CountersInv, Handled
  <2>3. MarksInv'
    BY <2>1 DEF MarksInv, Handled, MarksAbove, Unmarked
  <2> QED BY <1>0, <2>1, <2>2, <2>3
<1>2. CASE Users \/ UNCHANGED vars
  BY <1>1, <1>2
     DEF Users, Create, Write, Move, Delete, Link, Copy, Annotate, Change, vars
<1>3. CASE Load
  <2>1. PICK files \in Sorted(stored) :
            /\ loaded' = files /\ work' = files
            /\ observed' = [j \in 1 .. Len(files) |-> FALSE]
    BY <1>3 DEF Load
  <2>2. stored \in Seq(Entry)
    BY <1>0 DEF TypeOK, StoreType
  <2>3. files \in Seq(Entry) /\ Len(files) \in Nat
    BY <2>2, SortedArrangement
  <2>4. Len(observed') = Len(work') /\ Unmarked' /\ Len(work') = Len(loaded')
        /\ Len(work') \in Nat
    BY <2>1, <2>3 DEF Unmarked
  <2>5. pc = "idle" /\ pc' = "list" /\ UNCHANGED <<seen, result>>
    BY <1>3 DEF Load
  <2>6. result' = NoResult
    BY <2>5 DEF CountersInv
  <2>7. CountersInv'
    BY <2>4, <2>5, <2>6 DEF CountersInv, NoResult
  <2>8. MarksInv'
    BY <2>4, <2>5 DEF MarksInv
  <2> QED BY <1>0, <2>4, <2>5, <2>7, <2>8
<1>4. CASE Listed
  <2>1. /\ pc = "list" /\ pc' = "loop" /\ todo' = DOMAIN seen'
        /\ UNCHANGED <<observed, work, loaded, seen, result>>
    BY <1>4 DEF Listed
  <2>2. /\ Handled' = {} /\ MarksAbove(0)' = {} /\ Cardinality({}) = 0
        /\ Cardinality(Handled') = 0 /\ Cardinality(MarksAbove(0)') = 0
    BY <2>1, FS_EmptySet DEF Handled, MarksAbove, MarksInv, Unmarked
  <2>3. CountersInv'
    BY <2>1, <2>2 DEF CountersInv, NoResult
  <2>4. MarksInv'
    BY <2>1, <2>2 DEF MarksInv
  <2> QED BY <1>0, <2>1, <2>3, <2>4
<1>5. CASE Looped
  <2>1. /\ pc = "loop" /\ pc' = "sweep" /\ todo = {} /\ cursor' = Len(work)
        /\ UNCHANGED <<observed, work, loaded, seen, todo, result>>
    BY <1>5 DEF Looped
  <2>2. Handled' = Handled /\ MarksAbove(0)' = MarksAbove(0)
        /\ MarksAbove(cursor)' = MarksAbove(Len(work))
    BY <2>1 DEF Handled, MarksAbove
  <2>3. Cardinality(MarksAbove(Len(work))) \in Nat /\ Len(work) \in Nat
    BY <1>0, CountsFinite, NumberTypes
  <2>4. Len(work') - cursor' <= Cardinality(MarksAbove(cursor)')
    BY <2>1, <2>2, <2>3
  <2>5. MarksInv'
    BY <2>1, <2>2, <2>4 DEF MarksInv
  <2>6. CountersInv'
    BY <2>1, <2>2 DEF CountersInv
  <2> QED BY <1>0, <2>1, <2>5, <2>6
<1>6. CASE Swept
  <2>1. /\ pc = "sweep" /\ pc' = "save" /\ cursor = 0 /\ UNCHANGED local
    BY <1>6 DEF Swept
  <2>2. UNCHANGED <<observed, work, loaded, seen, todo, result>> /\ Handled' = Handled
    BY <2>1 DEF local, Handled
  <2>3. /\ Len(work) \in Nat /\ Cardinality(MarksAbove(0)) \in Nat
        /\ Cardinality(Handled) \in Nat
    BY <1>0, CountsFinite, NumberTypes
  <2>4. Len(work) - 0 <= Cardinality(MarksAbove(0))
        /\ Cardinality(MarksAbove(0)) <= Cardinality(Handled)
    BY <2>1 DEF MarksInv
  <2>5. Len(work) <= Cardinality(Handled)
    BY <2>3, <2>4
  <2>6. MarksInv' /\ CountersInv'
    BY <2>1, <2>2, <2>5 DEF MarksInv, CountersInv
  <2> QED BY <1>0, <2>1, <2>2, <2>6
<1>7. CASE Save \/ Fail
  <2>1. pc' = "idle" /\ seen' = <<>> /\ result' = NoResult
    BY <1>7 DEF Save, Fail, Return
  <2>2. DOMAIN seen' = {} /\ IsFiniteSet({})
    BY <2>1, FS_EmptySet
  <2> QED BY <1>0, <2>1, <2>2 DEF CountersInv, MarksInv, NoResult
<1>8. ASSUME NEW n \in Names, Snapshot(n) \/ Skip(n) PROVE CountsInv'
  <2>1. pc = "list" /\ pc' = "list" /\ UNCHANGED <<observed, work, loaded, result>>
    BY <1>8 DEF Snapshot, Skip
  <2>2. IsFiniteSet(DOMAIN seen')
    <3>1. CASE Snapshot(n)
      <4>1. DOMAIN seen' = DOMAIN seen \cup {n}
        BY <3>1 DEF Snapshot
      <4> QED BY <4>1, FS_AddElement
    <3>2. CASE Skip(n)
      BY <3>2 DEF Skip
    <3> QED BY <1>8, <3>1, <3>2
  <2>3. CountersInv'
    BY <2>1 DEF CountersInv
  <2>4. MarksInv'
    BY <2>1 DEF MarksInv, Unmarked
  <2> QED BY <1>0, <2>1, <2>2, <2>3, <2>4
<1>9. CASE \E n \in Names, i \in DOMAIN work :
               Keep(n, i) \/ \E terms \in Extractions : Refresh(n, i, terms)
  BY <1>0, <1>9, FoundKeepsCounts
<1>10. CASE \E n \in Names, terms \in Extractions : Add(n, terms)
  BY <1>0, <1>10, AddKeepsCounts
<1>11. CASE Sweep
  BY <1>0, <1>11, SweepKeepsCounts
<1> QED BY <1>2, <1>3, <1>4, <1>5, <1>6, <1>7, <1>8, <1>9, <1>10, <1>11 DEF Next, Scan

\* No scan has counted anything at the start.
LEMMA InitCounts == Init => CountsInv
<1> SUFFICES ASSUME Init PROVE CountsInv
  OBVIOUS
<1>1. pc = "idle" /\ seen = <<>> /\ result = NoResult
  BY DEF Init
<1>2. DOMAIN seen = {} /\ IsFiniteSet({})
  BY <1>1, FS_EmptySet
<1> QED BY <1>1, <1>2, InitType DEF CountsInv, CountersInv, MarksInv, NoResult

\* What a scan prints when it saves accounts for every snapshot and for the length
\* of the manifest it saves.
THEOREM CountersCorrect == Spec => []CountersBalance
<1>1. CountsInv => CountersBalance
  BY DEF CountsInv, CountersInv, Handled, CountersBalance
<1> QED BY <1>1, InitCounts, NextKeepsCounts, PTL DEF Spec

\* A scan saves no more records than it saw files, though additions shift the
\* positions its marks refer to and renames may claim one record twice.
THEOREM RecordsBounded == Spec => []NoMoreRecordsThanFiles
<1>1. CountsInv => NoMoreRecordsThanFiles
  BY DEF CountsInv, MarksInv, Handled, NoMoreRecordsThanFiles
<1> QED BY <1>1, InitCounts, NextKeepsCounts, PTL DEF Spec

(***************************************************************************)
(* Records.  Without renames the manifest stays sorted, so an addition      *)
(* moves only entries behind the snapshots already handled, and their marks *)
(* stay where they are.  And a scan that finds every entry current neither  *)
(* touches nor misses one.                                                  *)
(***************************************************************************)
Follows(i, j) == work[j].name = loaded[i].name /\ work[j].id = loaded[i].id
UpToDate(j) == work[j].ver = seen[work[j].name].ver

\* Every record of a file that was seen lives on at one of the positions.
AliveIn(positions) ==
    \A i \in DOMAIN loaded : loaded[i].name \in DOMAIN seen =>
        \E j \in positions : Follows(i, j) /\ UpToDate(j)

Ordered == \A h \in Handled, m \in todo : h < m

MarkedWhenHandled ==
    \A i \in DOMAIN loaded : \E j \in DOMAIN work :
        /\ Follows(i, j)
        /\ loaded[i].name \in Handled => observed[j] /\ UpToDate(j)

KeptInv ==
    /\ pc = "list" => work = loaded /\ ByName(work)
    /\ pc = "loop" => Ordered
    /\ pc = "loop" /\ ~hist.renamed => ByName(work) /\ MarkedWhenHandled
    /\ pc = "sweep" /\ ~hist.renamed => AliveIn(Staying)
    /\ pc = "save" /\ ~hist.renamed => AliveIn(DOMAIN work)

Described ==
    /\ NamesOf(loaded) = DOMAIN seen
    /\ \A i \in DOMAIN loaded : Current(loaded[i], seen[loaded[i].name])

Untouched == work = loaded /\ result.added = 0 /\ result.updated = 0 /\ result.removed = 0

NoOpInv ==
    /\ pc \in {"loop", "sweep", "save"} /\ Described => Untouched
    /\ pc = "loop" /\ Described => \A j \in DOMAIN work : work[j].name \in Handled => observed[j]
    /\ pc = "sweep" /\ Described => Len(observed) = Len(work) /\ \A j \in DOMAIN work : observed[j]

\* An entry added to a sorted vector leaves those with lesser names in their places:
\* in a sorted vector of distinct names, the position of a name is the number of names
\* up to it.
LEMMA AddLeavesLesser ==
    ASSUME NEW files \in Seq(Entry), ByName(files), Distinct(files),
           NEW new \in Entry, new.name \notin NamesOf(files),
           NEW t \in Sorted(Append(files, new)),
           NEW j \in DOMAIN files, files[j].name < new.name
    PROVE  j \in DOMAIN t /\ t[j] = files[j]
<1> DEFINE grown == Append(files, new)
           N == Len(files) + 1
           x == files[j].name
<1>1. /\ Len(files) \in Nat /\ DOMAIN files = 1 .. Len(files) /\ j \in 1 .. N /\ N \in Nat
      /\ grown \in Seq(Entry) /\ Len(grown) = N /\ DOMAIN grown = 1 .. N
      /\ grown[N] = new /\ \A k \in DOMAIN files : grown[k] = files[k]
  OBVIOUS
<1>2. \A k \in 1 .. N : grown[k].name \in Nat
  <2>1. \A k \in 1 .. N : grown[k] \in Entry
    BY <1>1
  <2> QED BY <2>1, NamesAssumption DEF Entry
<1>3. PICK p \in Injection(1 .. N, 1 .. N) :
          t = [i \in 1 .. N |-> grown[p[i]]] /\ ByName(t)
  BY <1>1 DEF Sorted
<1>4. p \in [1 .. N -> 1 .. N] /\ \A i, k \in 1 .. N : p[i] = p[k] => i = k
  BY <1>3 DEF Injection, IsInjective
<1>5. IsFiniteSet(1 .. N)
  BY <1>1, FS_Interval
<1>6. \A k \in 1 .. N : \E i \in 1 .. N : p[i] = k
  <2>1. p \in Surjection(1 .. N, 1 .. N)
    BY <1>3, <1>5, FS_Injection
  <2> QED BY <2>1 DEF Surjection
<1>7. PICK q \in 1 .. N : p[q] = j
  BY <1>1, <1>6
<1> HIDE DEF N, grown
<1>8. \A i, k \in 1 .. N : grown[i].name = grown[k].name => i = k
  <2> SUFFICES ASSUME NEW i \in 1 .. N, NEW k \in 1 .. N, grown[i].name = grown[k].name
               PROVE  i = k
    OBVIOUS
  <2>1. \A m \in 1 .. N : m \in DOMAIN files \/ m = N
    BY <1>1 DEF N
  <2>2. \A m \in DOMAIN files : files[m].name # new.name
    BY DEF NamesOf
  <2> QED BY <1>1, <2>1, <2>2 DEF Distinct
<1>9. \A i \in 1 .. N : t[i] = grown[p[i]] /\ t[i].name \in Nat
  BY <1>2, <1>3, <1>4
<1>10. \A i, k \in 1 .. N : i < k => t[i].name < t[k].name
  <2> SUFFICES ASSUME NEW i \in 1 .. N, NEW k \in 1 .. N, i < k
               PROVE  t[i].name < t[k].name
    OBVIOUS
  <2>1. t[i].name <= t[k].name
    BY <1>3 DEF ByName
  <2>2. t[i].name # t[k].name
    <3>1. p[i] \in 1 .. N /\ p[k] \in 1 .. N /\ p[i] # p[k]
      BY <1>1, <1>4
    <3>2. t[i] = grown[p[i]] /\ t[k] = grown[p[k]]
      BY <1>9
    <3> QED BY <1>8, <3>1, <3>2
  <2> QED BY <1>9, <2>1, <2>2
<1>11. t[q] = files[j] /\ x \in Nat
  BY <1>1, <1>2, <1>7, <1>9
<1> DEFINE A == {i \in 1 .. N : t[i].name <= x}
           B == {i \in 1 .. N : grown[i].name <= x}
<1>12. A = 1 .. q
  <2>1. \A i \in 1 .. N : i <= q => t[i].name <= x
    BY <1>1, <1>7, <1>9, <1>10, <1>11
  <2>2. \A i \in 1 .. N : i > q => t[i].name > x
    BY <1>1, <1>7, <1>9, <1>10, <1>11
  <2>3. \A i \in 1 .. N : t[i].name <= x <=> i <= q
    BY <1>1, <1>7, <1>9, <1>11, <2>1, <2>2
  <2> QED BY <1>1, <1>7, <2>3
<1>13. B = 1 .. j
  <2>1. \A i \in DOMAIN files : i <= j => files[i].name <= x
    <3> SUFFICES ASSUME NEW i \in DOMAIN files, i <= j PROVE files[i].name <= x
      OBVIOUS
    <3>1. CASE i = j
      BY <1>11, <3>1
    <3>2. CASE i < j
      BY <3>2 DEF ByName
    <3>3. i \in Int /\ j \in Int
      BY <1>1
    <3> QED BY <3>1, <3>2, <3>3
  <2>2. \A i \in DOMAIN files : i > j => files[i].name > x
    <3> SUFFICES ASSUME NEW i \in DOMAIN files, i > j PROVE files[i].name > x
      OBVIOUS
    <3>1. files[j].name <= files[i].name /\ files[j].name # files[i].name
      BY <1>1 DEF ByName, Distinct
    <3>2. files[i].name \in Nat
      <4>1. i \in 1 .. N
        BY <1>1 DEF N
      <4> QED BY <1>1, <1>2, <4>1
    <3> QED BY <1>11, <3>1, <3>2
  <2>3. \A i \in 1 .. N : grown[i].name <= x <=> i <= j
    <3> SUFFICES ASSUME NEW i \in 1 .. N PROVE grown[i].name <= x <=> i <= j
      OBVIOUS
    <3>1. CASE i \in DOMAIN files
      <4>1. grown[i] = files[i] /\ grown[i].name \in Nat /\ i \in Int /\ j \in Int
        BY <1>1, <1>2, <3>1
      <4>2. files[i].name \in Nat /\ x \in Nat
        BY <1>11, <4>1
      <4>3. (i <= j => files[i].name <= x) /\ (i > j => files[i].name > x)
        BY <2>1, <2>2, <3>1
      <4>4. files[i].name <= x <=> i <= j
        <5> HIDE DEF x
        <5> QED BY <4>1, <4>2, <4>3
      <4> QED BY <4>1, <4>4
    <3>2. CASE i = N
      <4>1. grown[i].name = new.name /\ new.name \in Nat
        BY <1>1, <1>2, <3>2
      <4>2. i > j
        BY <1>1, <3>2 DEF N
      <4> QED BY <1>1, <1>11, <3>2, <4>1, <4>2
    <3> QED BY <1>1, <3>1, <3>2 DEF N
  <2> QED BY <1>1, <2>3
<1>14. ExistsBijection(A, B)
  <2> DEFINE f == [i \in A |-> p[i]]
  <2>1. \A i \in A : p[i] \in B
    BY <1>4, <1>9
  <2>2. \A k \in B : \E i \in A : p[i] = k
    BY <1>6, <1>9
  <2>3. f \in Bijection(A, B)
    BY <1>4, <2>1, <2>2 DEF Bijection, Injection, Surjection, IsInjective
  <2> QED BY <2>3 DEF ExistsBijection
<1>15. /\ IsFiniteSet(1 .. q) /\ Cardinality(1 .. q) = q
       /\ IsFiniteSet(1 .. j) /\ Cardinality(1 .. j) = j
  <2>1. q \in Int /\ j \in Int /\ 1 \in Int /\ q >= 1 /\ j >= 1
    BY <1>1, <1>7
  <2>2. /\ IsFiniteSet(1 .. q) /\ IsFiniteSet(1 .. j)
        /\ Cardinality(1 .. q) = IF 1 > q THEN 0 ELSE q - 1 + 1
        /\ Cardinality(1 .. j) = IF 1 > j THEN 0 ELSE j - 1 + 1
    BY <2>1, FS_Interval
  <2> QED BY <2>1, <2>2
<1>16. q = j
  BY <1>12, <1>13, <1>14, <1>15, FS_Bijection
<1>17. DOMAIN t = 1 .. N
  BY <1>3
<1> QED BY <1>1, <1>11, <1>16, <1>17

\* Without a rename an entry is found where it is, and marked there.
LEMMA FoundKeepsRecords ==
    ASSUME IdentityInv, CountsInv, KeptInv, NoOpInv, NEW n \in Names, NEW i \in DOMAIN work,
           Keep(n, i) \/ \E terms \in Extractions : Refresh(n, i, terms),
           TypeOK'
    PROVE  KeptInv' /\ NoOpInv'
<1>1. TypeOK
  BY DEF IdentityInv
<1>2. /\ Found(n, i)
      /\ DOMAIN work' = DOMAIN work
      /\ work'[i].id = work[i].id /\ work'[i].name = n /\ work'[i].ver = seen[n].ver
      /\ \A j \in DOMAIN work : j # i => work'[j] = work[j]
  BY <1>1, FoundEntry
<1>3. /\ pc = "loop" /\ pc' = "loop" /\ n \in todo /\ \A m \in todo : n <= m
      /\ todo' = todo \ {n} /\ UNCHANGED <<seen, loaded>>
      /\ i \in Located(n, seen[n], work)
      /\ observed' = [observed EXCEPT ![i] = TRUE]
      /\ hist'.renamed = (hist.renamed \/ work[i].name # n)
  BY <1>2 DEF Found, Turn
<1>4. /\ Len(observed) = Len(work) /\ work \in Seq(Entry) /\ observed \in Seq(BOOLEAN)
      /\ todo \subseteq DOMAIN seen /\ DOMAIN seen \subseteq Names
  BY <1>1, <1>3 DEF CountsInv, TypeOK, ManifestType, ScanType
<1>5. /\ observed'[i] /\ \A j \in DOMAIN work : observed[j] => observed'[j]
  BY <1>3, <1>4
<1>6. Handled' = Handled \cup {n}
  BY <1>3, <1>4 DEF Handled
<1>7. Ordered'
  <2>1. \A m \in todo : m \in Nat
    BY <1>4, NamesAssumption
  <2>2. \A m \in todo' : n < m
    BY <1>3, <2>1
  <2> QED BY <1>3, <1>6, <2>2 DEF KeptInv, Ordered
<1>8. ASSUME ~hist'.renamed PROVE ByName(work)' /\ MarkedWhenHandled'
  <2>1. ~hist.renamed /\ work[i].name = n
    BY <1>3, <1>8
  <2>2. \A j \in DOMAIN work : work'[j].name = work[j].name /\ work'[j].id = work[j].id
    BY <1>2, <2>1
  <2>3. ByName(work) /\ MarkedWhenHandled
    BY <1>3, <2>1 DEF KeptInv
  <2>4. ByName(work)'
    BY <1>2, <2>2, <2>3 DEF ByName
  <2>5. ASSUME NEW k \in DOMAIN loaded
        PROVE  \E j \in DOMAIN work' :
                  /\ Follows(k, j)'
                  /\ loaded[k].name \in Handled' => observed'[j] /\ UpToDate(j)'
    <3>1. PICK j \in DOMAIN work :
              /\ Follows(k, j)
              /\ loaded[k].name \in Handled => observed[j] /\ UpToDate(j)
      BY <2>3 DEF MarkedWhenHandled
    <3>2. j \in DOMAIN work' /\ Follows(k, j)'
      BY <1>2, <1>3, <2>2, <3>1 DEF Follows
    <3>3. CASE j = i
      BY <1>2, <1>3, <1>5, <3>2, <3>3 DEF UpToDate
    <3>4. CASE j # i
      <4>1. work[j].name # n
        BY <2>1, <3>4 DEF IdentityInv, IdentitiesDistinct, Distinct
      <4>2. loaded[k].name \in Handled' => loaded[k].name \in Handled
        BY <1>6, <3>1, <4>1 DEF Follows
      <4> QED BY <1>2, <1>3, <1>5, <3>1, <3>2, <3>4, <4>2 DEF UpToDate
    <3> QED BY <3>3, <3>4
  <2>6. MarkedWhenHandled'
    BY <1>3, <2>5 DEF MarkedWhenHandled
  <2> QED BY <2>4, <2>6
<1>9. KeptInv'
  BY <1>3, <1>7, <1>8 DEF KeptInv
<1>10. ASSUME Described'
       PROVE  Untouched' /\ \A j \in DOMAIN work' : work'[j].name \in Handled' => observed'[j]
  <2>1. Described
    BY <1>3, <1>10 DEF Described
  <2>2. /\ Untouched
        /\ \A j \in DOMAIN work : work[j].name \in Handled => observed[j]
    BY <1>3, <2>1 DEF NoOpInv
  <2>3. \E k \in DOMAIN work : work[k].name = n
    BY <1>3, <1>4, <2>1, <2>2 DEF Described, NamesOf, Untouched
  <2>4. work[i].name = n
    BY <1>3, <2>3, LocatedName
  <2>5. Current(work[i], seen[n])
    BY <2>1, <2>2, <2>4 DEF Described, Untouched
  <2>6. Keep(n, i)
    BY <2>5 DEF Refresh
  <2>7. work' = [work EXCEPT ![i] = [work[i] EXCEPT !.name = n]]
    BY <2>6 DEF Keep
  <2>8. work[i] \in Entry
    BY <1>4
  <2>9. [work[i] EXCEPT !.name = n] = work[i]
    BY <2>4, <2>8 DEF Entry
  <2>10. work' = work
    BY <1>4, <2>7, <2>9
  <2>11. result' = Counted(1, 0, 0, 0)
    BY <2>6 DEF Keep
  <2>12. result'.added = 0 /\ result'.updated = 0 /\ result'.removed = 0
    BY <2>2, <2>11 DEF Counted, Untouched
  <2>13. \A j \in DOMAIN work : work[j].name = n => j = i
    BY <2>4 DEF IdentityInv, IdentitiesDistinct, Distinct
  <2>14. \A j \in DOMAIN work' : work'[j].name \in Handled' => observed'[j]
    BY <1>5, <1>6, <2>2, <2>10, <2>13
  <2> QED BY <1>3, <2>2, <2>10, <2>12, <2>14 DEF Untouched
<1>11. NoOpInv'
  BY <1>3, <1>10 DEF NoOpInv
<1> QED BY <1>9, <1>11

\* An addition comes behind all that is handled.
LEMMA AddKeepsRecords ==
    ASSUME IdentityInv, CountsInv, KeptInv, NoOpInv,
           NEW n \in Names, NEW terms \in Extractions, Add(n, terms), TypeOK'
    PROVE  KeptInv' /\ NoOpInv'
<1> DEFINE new == NewEntry(nextId, n, seen[n], terms)
           grown == Append(work, new)
<1>1. TypeOK
  BY DEF IdentityInv
<1>2. /\ pc = "loop" /\ pc' = "loop" /\ n \in todo /\ \A m \in todo : n <= m
      /\ todo' = todo \ {n} /\ UNCHANGED <<seen, loaded>>
      /\ Named(n, work) = {} /\ observed' = Append(observed, TRUE)
  BY DEF Add, Turn, Located
<1>3. /\ Len(observed) = Len(work) /\ work \in Seq(Entry) /\ observed \in Seq(BOOLEAN)
      /\ todo \subseteq DOMAIN seen /\ DOMAIN seen \subseteq Names /\ seen[n] \in File
      /\ nextId \in Nat /\ terms \in BOOLEAN
  BY <1>1, <1>2, ExtractionsAssumption
     DEF CountsInv, TypeOK, ManifestType, ScanType, StoreType
<1>4. new \in Entry /\ new.name = n
  BY <1>3 DEF NewEntry, Entry, File
<1>5. PICK files \in Sorted(grown) :
          /\ work' = files
          /\ hist' = [renamed |-> hist.renamed, stolen |-> hist.stolen,
                      shifted |-> hist.shifted \/ files # grown]
  BY DEF Add
<1> HIDE DEF new
<1>6. /\ grown \in Seq(Entry) /\ Len(grown) = Len(work) + 1 /\ Len(work) \in Nat
      /\ \A j \in DOMAIN work : j \in DOMAIN grown /\ grown[j] = work[j]
  BY <1>3, <1>4
<1>7. hist'.renamed = hist.renamed
  BY <1>5
<1>8. Handled' = Handled \cup {n}
  BY <1>2, <1>3 DEF Handled
<1>9. Ordered'
  <2>1. \A m \in todo : m \in Nat
    BY <1>3, NamesAssumption
  <2>2. \A m \in todo' : n < m
    BY <1>2, <2>1
  <2> QED BY <1>2, <1>8, <2>2 DEF KeptInv, Ordered
<1>10. ASSUME ~hist'.renamed PROVE ByName(work)' /\ MarkedWhenHandled'
  <2>1. ByName(work) /\ MarkedWhenHandled /\ Ordered
    BY <1>2, <1>7, <1>10 DEF KeptInv
  <2>2. ByName(work)'
    BY <1>5 DEF Sorted
  <2>3. n \notin NamesOf(work)
    BY <1>2 DEF Named, NamesOf
  <2>4. ASSUME NEW k \in DOMAIN loaded
        PROVE  \E j \in DOMAIN work' :
                  /\ Follows(k, j)'
                  /\ loaded[k].name \in Handled' => observed'[j] /\ UpToDate(j)'
    <3>1. PICK j \in DOMAIN work :
              /\ Follows(k, j)
              /\ loaded[k].name \in Handled => observed[j] /\ UpToDate(j)
      BY <2>1 DEF MarkedWhenHandled
    <3>2. work[j].name # n
      BY <2>3 DEF NamesOf
    <3>3. CASE loaded[k].name \in Handled
      <4>1. work[j].name < n
        BY <1>2, <2>1, <3>1, <3>3 DEF Ordered, Follows
      <4>2. j \in DOMAIN files /\ files[j] = work[j]
        BY <1>3, <1>4, <1>5, <2>1, <2>3, <4>1, AddLeavesLesser
           DEF IdentityInv, IdentitiesDistinct
      <4>3. observed'[j]
        BY <1>2, <1>3, <3>1, <3>3
      <4> QED BY <1>2, <1>5, <3>1, <3>3, <4>2, <4>3 DEF Follows, UpToDate
    <3>4. CASE loaded[k].name \notin Handled
      <4>1. \E m \in DOMAIN files : files[m] = work[j]
        <5>1. PICK p \in Injection(1 .. Len(grown), 1 .. Len(grown)) :
                  files = [m \in 1 .. Len(grown) |-> grown[p[m]]]
          BY DEF Sorted
        <5>2. IsFiniteSet(1 .. Len(grown))
          BY <1>6, FS_Interval
        <5>3. p \in Surjection(1 .. Len(grown), 1 .. Len(grown))
          BY <5>1, <5>2, FS_Injection
        <5>4. j \in 1 .. Len(grown)
          BY <1>6
        <5>5. PICK m \in 1 .. Len(grown) : p[m] = j
          BY <5>3, <5>4 DEF Surjection
        <5> QED BY <1>6, <5>1, <5>5
      <4>2. loaded[k].name \notin Handled'
        BY <1>8, <3>1, <3>2, <3>4 DEF Follows
      <4> QED BY <1>2, <1>5, <3>1, <4>1, <4>2 DEF Follows
    <3> QED BY <3>3, <3>4
  <2>5. MarkedWhenHandled'
    BY <1>2, <2>4 DEF MarkedWhenHandled
  <2> QED BY <2>2, <2>5
<1>11. KeptInv'
  BY <1>2, <1>9, <1>10 DEF KeptInv
<1>12. ~Described'
  <2>1. Described' => Described
    BY <1>2 DEF Described
  <2>2. Described => \E k \in DOMAIN work : work[k].name = n
    BY <1>2, <1>3 DEF NoOpInv, Described, Untouched, NamesOf
  <2> QED BY <1>2, <2>1, <2>2 DEF Named
<1>13. NoOpInv'
  BY <1>12 DEF NoOpInv
<1> QED BY <1>11, <1>13

\* The sweep erases no position that is marked or still to test.
LEMMA SweepKeepsRecords ==
    ASSUME IdentityInv, ExactInv, KeptInv, NoOpInv, Sweep, TypeOK'
    PROVE  KeptInv' /\ NoOpInv'
<1>1. TypeOK
  BY DEF IdentityInv
<1>2. /\ work \in Seq(Entry) /\ Len(work) \in Nat /\ DOMAIN work = 1 .. Len(work)
      /\ cursor \in DOMAIN work /\ cursor \in Nat /\ cursor <= Len(observed)
      /\ Len(observed) \in Nat
  BY <1>1 DEF Sweep, ExactInv, TypeOK, ManifestType
<1>3. /\ pc = "sweep" /\ pc' = "sweep" /\ cursor' = cursor - 1
      /\ UNCHANGED <<observed, seen, hist, loaded>>
  BY DEF Sweep
<1>4. \/ observed[cursor] /\ work' = work /\ result' = result
      \/ ~observed[cursor] /\ work' = Erase(work, cursor)
  BY <1>2 DEF Sweep
<1>5. ASSUME ~hist.renamed PROVE AliveIn(Staying)'
  <2>0. AliveIn(Staying)
    BY <1>3, <1>5 DEF KeptInv
  <2>1. CASE observed[cursor] /\ work' = work
    <3>1. Staying' = Staying
      BY <1>2, <1>3, <2>1 DEF Staying
    <3> QED BY <1>3, <2>0, <2>1, <3>1 DEF AliveIn, Follows, UpToDate
  <2>2. CASE ~observed[cursor] /\ work' = Erase(work, cursor)
    <3>1. /\ DOMAIN work' = 1 .. Len(work) - 1
          /\ \A j \in 1 .. Len(work) - 1 :
                work'[j] = IF j < cursor THEN work[j] ELSE work[j + 1]
      BY <1>2, <2>2, EraseShape
    <3>2. \A k \in Staying : LET j == IF k < cursor THEN k ELSE k - 1
                             IN  j \in Staying' /\ work'[j] = work[k]
      <4> SUFFICES ASSUME NEW k \in Staying
                   PROVE  LET j == IF k < cursor THEN k ELSE k - 1
                          IN  j \in Staying' /\ work'[j] = work[k]
        OBVIOUS
      <4>1. k \in 1 .. Len(work) /\ k # cursor /\ (k > cursor \/ observed[k])
        BY <1>2, <2>2 DEF Staying
      <4>2. CASE k < cursor
        <5>1. k \in 1 .. Len(work) - 1 /\ ~(k > cursor) /\ observed[k]
          BY <1>2, <4>1, <4>2
        <5>2. k \in DOMAIN work' /\ observed'[k] /\ work'[k] = work[k]
          BY <1>3, <3>1, <4>2, <5>1
        <5> QED BY <4>2, <5>2 DEF Staying
      <4>3. CASE k > cursor
        <5>1. k - 1 \in 1 .. Len(work) - 1 /\ ~(k - 1 < cursor) /\ k - 1 > cursor - 1
              /\ ~(k < cursor) /\ (k - 1) + 1 = k
          BY <1>2, <4>1, <4>3
        <5>2. k - 1 \in DOMAIN work' /\ work'[k - 1] = work[k] /\ k - 1 > cursor'
          BY <1>3, <3>1, <5>1
        <5> QED BY <5>1, <5>2 DEF Staying
      <4> QED BY <1>2, <4>1, <4>2, <4>3
    <3>3. \A k \in Staying : \E j \in Staying' : work'[j] = work[k]
      BY <3>2
    <3> QED BY <1>3, <2>0, <3>3 DEF AliveIn, Follows, UpToDate
  <2> QED BY <1>4, <2>1, <2>2
<1>6. KeptInv'
  BY <1>3, <1>5 DEF KeptInv
<1>7. ASSUME Described' PROVE UNCHANGED <<work, result, observed>> /\ Described
  <2>1. Described
    BY <1>3, <1>7 DEF Described
  <2>2. observed[cursor]
    BY <1>2, <1>3, <2>1 DEF NoOpInv
  <2> QED BY <1>3, <1>4, <2>1, <2>2
<1>8. NoOpInv'
  BY <1>3, <1>7 DEF NoOpInv, Untouched
<1> QED BY <1>6, <1>8

RecordsInv == IdentityInv /\ ExactInv /\ CountsInv /\ KeptInv /\ NoOpInv

\* Every step keeps the records.
LEMMA NextKeepsRecords == RecordsInv /\ [Next]_vars => RecordsInv'
<1> SUFFICES ASSUME RecordsInv, [Next]_vars PROVE RecordsInv'
  OBVIOUS
<1>0. /\ IdentityInv /\ ExactInv /\ CountsInv /\ KeptInv /\ NoOpInv
      /\ IdentityInv' /\ ExactInv' /\ CountsInv' /\ TypeOK /\ TypeOK'
  <2>1. IdentityInv' /\ ExactInv' /\ CountsInv'
    BY NextKeepsIdentity, NextKeepsExact, NextKeepsCounts DEF RecordsInv
  <2> QED BY <2>1 DEF RecordsInv, IdentityInv
<1> SUFFICES KeptInv' /\ NoOpInv'
  BY <1>0 DEF RecordsInv
<1>1. ASSUME UNCHANGED <<pc, local>> PROVE KeptInv' /\ NoOpInv'
  <2>1. UNCHANGED <<pc, loaded, work, observed, seen, todo, cursor, result, hist>>
    BY <1>1 DEF local
  <2>2. KeptInv'
    BY <1>0, <2>1 DEF KeptInv, AliveIn, Follows, UpToDate, Ordered, MarkedWhenHandled,
                      Handled, Staying
  <2>3. NoOpInv'
    BY <1>0, <2>1 DEF NoOpInv, Described, Untouched, Handled
  <2> QED BY <2>2, <2>3
<1>2. CASE Users \/ UNCHANGED vars
  BY <1>1, <1>2
     DEF Users, Create, Write, Move, Delete, Link, Copy, Annotate, Change, vars
<1>3. CASE Load
  <2>1. PICK files \in Sorted(stored) : loaded' = files /\ work' = files
    BY <1>3 DEF Load
  <2>2. ByName(work') /\ work' = loaded' /\ pc' = "list"
    BY <1>3, <2>1 DEF Load, Sorted
  <2> QED BY <2>2 DEF KeptInv, NoOpInv
<1>4. CASE Listed
  <2>1. /\ pc = "list" /\ pc' = "loop" /\ todo' = DOMAIN seen'
        /\ UNCHANGED <<work, loaded, seen, result, hist>>
    BY <1>4 DEF Listed
  <2>2. Handled' = {}
    BY <2>1 DEF Handled
  <2>3. work = loaded /\ ByName(work) /\ result = NoResult
    BY <1>0, <2>1 DEF KeptInv, CountsInv, CountersInv
  <2>4. MarkedWhenHandled' /\ Ordered'
    BY <2>1, <2>2, <2>3 DEF MarkedWhenHandled, Ordered, Follows
  <2>5. KeptInv'
    BY <2>1, <2>3, <2>4 DEF KeptInv
  <2>6. NoOpInv'
    BY <2>1, <2>2, <2>3 DEF NoOpInv, Untouched, NoResult
  <2> QED BY <2>5, <2>6
<1>5. CASE Looped
  <2>1. /\ pc = "loop" /\ pc' = "sweep" /\ todo = {} /\ cursor' = Len(work)
        /\ UNCHANGED <<observed, work, loaded, seen, todo, result, hist>>
    BY <1>5 DEF Looped
  <2>2. Handled = DOMAIN seen /\ Len(observed) = Len(work)
    BY <1>0, <2>1 DEF Handled, CountsInv
  <2>3. \A j \in DOMAIN work : observed[j] => j \in Staying'
    BY <2>1 DEF Staying
  <2>4. ~hist.renamed => AliveIn(Staying)'
    BY <1>0, <2>1, <2>2, <2>3 DEF KeptInv, MarkedWhenHandled, AliveIn, Follows, UpToDate
  <2>5. KeptInv'
    BY <2>1, <2>4 DEF KeptInv
  <2>6. Described' => Described
    BY <2>1 DEF Described
  <2>7. Described => Untouched /\ \A j \in DOMAIN work : observed[j]
    BY <1>0, <2>1, <2>2 DEF NoOpInv, Described, Untouched, NamesOf
  <2>8. NoOpInv'
    BY <2>1, <2>2, <2>6, <2>7 DEF NoOpInv, Untouched
  <2> QED BY <2>5, <2>8
<1>6. CASE Swept
  <2>1. /\ pc = "sweep" /\ pc' = "save" /\ cursor = 0
        /\ UNCHANGED <<observed, work, loaded, seen, result, hist>>
    BY <1>6 DEF Swept, local
  <2>2. Staying \subseteq DOMAIN work
    BY DEF Staying
  <2>3. KeptInv'
    BY <1>0, <2>1, <2>2 DEF KeptInv, AliveIn, Follows, UpToDate
  <2>4. NoOpInv'
    BY <1>0, <2>1 DEF NoOpInv, Described, Untouched
  <2> QED BY <2>3, <2>4
<1>7. CASE Save \/ Fail
  BY <1>7 DEF Save, Fail, Return, KeptInv, NoOpInv
<1>8. CASE \E n \in Names : Snapshot(n) \/ Skip(n)
  <2>1. pc = "list" /\ pc' = "list" /\ UNCHANGED <<work, loaded>>
    BY <1>8 DEF Snapshot, Skip
  <2> QED BY <1>0, <2>1 DEF KeptInv, NoOpInv
<1>9. CASE \E n \in Names, i \in DOMAIN work :
               Keep(n, i) \/ \E terms \in Extractions : Refresh(n, i, terms)
  BY <1>0, <1>9, FoundKeepsRecords
<1>10. CASE \E n \in Names, terms \in Extractions : Add(n, terms)
  BY <1>0, <1>10, AddKeepsRecords
<1>11. CASE Sweep
  BY <1>0, <1>11, SweepKeepsRecords
<1> QED BY <1>2, <1>3, <1>4, <1>5, <1>6, <1>7, <1>8, <1>9, <1>10, <1>11 DEF Next, Scan

LEMMA RecordsAlways == Spec => []RecordsInv
<1>1. Init => RecordsInv
  BY InitIdentity, InitType, InitCounts DEF Init, RecordsInv, ExactInv, KeptInv, NoOpInv
<1> QED BY <1>1, NextKeepsRecords, PTL DEF Spec

\* Additions may shift the positions that `observed' refers to, yet a scan that renames
\* no record keeps that of every file it saw, with its id and the version it saw: the
\* names come in order, so what shifts is only what is still to be handled.
THEOREM PresentRecordsKept == Spec => []PresentFilesKept
<1>1. RecordsInv => PresentFilesKept
  BY DEF RecordsInv, KeptInv, AliveIn, Follows, UpToDate, PresentFilesKept
<1> QED BY <1>1, RecordsAlways, PTL

\* A scan of a directory that its manifest describes saves the manifest it loaded and
\* counts nothing but the files, whatever the size of the directory.
THEOREM RescansChangeNothing == Spec => []RescanIsNoOp
<1>1. ASSUME RecordsInv, pc = "save", Described
      PROVE  work = loaded /\ result = [NoResult EXCEPT !.scanned = Cardinality(DOMAIN seen)]
  <2>1. work = loaded /\ result.added = 0 /\ result.updated = 0 /\ result.removed = 0
    BY <1>1 DEF RecordsInv, NoOpInv, Untouched
  <2>2. todo = {} /\ result.scanned = Cardinality(Handled)
    BY <1>1 DEF RecordsInv, CountsInv, CountersInv
  <2>3. Handled = DOMAIN seen
    BY <2>2 DEF Handled
  <2>4. result \in [scanned : Nat, added : Nat, updated : Nat, removed : Nat]
    BY <1>1 DEF RecordsInv, CountsInv, TypeOK, ScanType
  <2>5. [NoResult EXCEPT !.scanned = Cardinality(DOMAIN seen)]
          = [scanned |-> Cardinality(DOMAIN seen), added |-> 0, updated |-> 0, removed |-> 0]
    BY DEF NoResult
  <2>6. result = [scanned |-> Cardinality(DOMAIN seen), added |-> 0, updated |-> 0,
                  removed |-> 0]
    BY <2>1, <2>2, <2>3, <2>4
  <2> QED BY <2>1, <2>5, <2>6
<1>2. RecordsInv => RescanIsNoOp
  BY <1>1 DEF RescanIsNoOp, Described
<1> QED BY <1>2, RecordsAlways, PTL

=============================================================================
