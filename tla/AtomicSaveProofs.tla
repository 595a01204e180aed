--------------------------- MODULE AtomicSaveProofs ---------------------------
(***************************************************************************)
(* Proofs about AtomicSave, for any number of savers, readers, documents   *)
(* and saves.                                                              *)
(***************************************************************************)
EXTENDS AtomicSave, TLAPS

-----------------------------------------------------------------------------
(***************************************************************************)
(* The inductive invariant.                                                *)
(***************************************************************************)

\* Only a saver that writes has a stream.
Streams == \A s \in Savers : pc[s] = "writing" <=> out[s] # NoInode

\* What has the temporary name is neither the target nor read by anybody.
TempPrivate ==
    temp # NoInode => temp # target /\ \A r \in Readers : temp # in[r]

\* A save whose work nobody can have mixed with another's.
Clean(s) == Running(s) /\ (~overlapped \/ alone[s])

\* Such a saver is the only one that runs; the temporary file is its own and has what it
\* has written so far, or is gone.
CleanWork ==
    \A s \in Savers : Clean(s) =>
        /\ \A o \in Others(s) : ~Running(o)
        /\ alone[s] => temp # NoInode
        /\ pc[s] = "writing" => /\ temp \in {NoInode, out[s]}
                                /\ content[out[s]] = Prefix(doc[s], at[s])
        /\ pc[s] = "closed" => temp = NoInode \/ content[temp] = Stored(doc[s])

\* Without overlaps a stream never writes into the target or into what is being read.
StreamsPrivate ==
    ~overlapped => \A s \in Savers : pc[s] = "writing" =>
        out[s] # target /\ \A r \in Readers : out[s] # in[r]

ReadsWhole ==
    ~overlapped => \A r \in Readers : in[r] # NoInode =>
        /\ Whole(content[in[r]])
        /\ Len(got[r]) <= Len(content[in[r]])
        /\ \A i \in 1 .. Len(got[r]) : got[r][i] = content[in[r]][i]

IInv ==
    /\ TypeOK /\ Streams /\ TempPrivate /\ CleanWork
    /\ StreamsPrivate /\ ReadsWhole /\ WholeUnlessOverlapped

-----------------------------------------------------------------------------
(***************************************************************************)
(* Cells.                                                                  *)
(***************************************************************************)
LEMMA StoredCells ==
    ASSUME NEW d \in Documents, NEW k \in Nat
    PROVE  /\ Prefix(d, k) \in Cells /\ Len(Prefix(d, k)) = k
           /\ Length[d] \in Nat \ {0} /\ Whole(Stored(d)) /\ Stored(d) # <<>>
<1>1. Prefix(d, k) \in Cells /\ Len(Prefix(d, k)) = k
  BY DEF Prefix, Cells
<1>2. Length[d] \in Nat \ {0}
  BY LengthAssumption
<1>3. Len(Stored(d)) = Length[d]
  BY <1>2 DEF Stored, Prefix
<1>4. Stored(d) # <<>>
  BY <1>2, <1>3
<1> QED BY <1>1, <1>2, <1>4 DEF Whole

\* Writing the next cell of a document makes its beginning longer by one.
LEMMA PutNext ==
    ASSUME NEW d \in Documents, NEW k \in Nat
    PROVE  Put(Prefix(d, k), k + 1, d) = Prefix(d, k + 1)
<1>1. Len(Prefix(d, k)) = k /\ DOMAIN Prefix(d, k) = 1 .. k
  BY DEF Prefix
<1>2. \A i \in 1 .. (k + 1) : i # k + 1 => i \in 1 .. k /\ Prefix(d, k)[i] = d
  BY DEF Prefix
<1>3. Put(Prefix(d, k), k + 1, d) =
        [i \in 1 .. (k + 1) |-> IF i = k + 1 THEN d
                                ELSE IF i \in 1 .. k THEN Prefix(d, k)[i] ELSE Hole]
  BY <1>1 DEF Put
<1>4. @ = [i \in 1 .. (k + 1) |-> d]
  BY <1>2
<1> QED BY <1>3, <1>4 DEF Prefix

\* Cells that agree in length and everywhere are the same.
LEMMA SameCells ==
    ASSUME NEW a \in Cells, NEW b \in Cells, Len(a) = Len(b),
           \A i \in 1 .. Len(a) : a[i] = b[i]
    PROVE  a = b
<1>1. a = [i \in 1 .. Len(a) |-> a[i]] /\ b = [i \in 1 .. Len(b) |-> b[i]]
  BY DEF Cells
<1> QED BY <1>1

LEMMA PutCells ==
    ASSUME NEW cells \in Cells, NEW k \in Nat \ {0}, NEW d \in Documents
    PROVE  Put(cells, k, d) \in Cells
<1> DEFINE n == IF Len(cells) > k THEN Len(cells) ELSE k
<1>1. n \in Nat
  BY DEF Cells
<1>2. \A i \in 1 .. n : (IF i = k THEN d ELSE IF i \in DOMAIN cells THEN cells[i] ELSE Hole)
                           \in Documents \cup {Hole}
  BY DEF Cells
<1>3. Put(cells, k, d) =
        [i \in 1 .. n |-> IF i = k THEN d ELSE IF i \in DOMAIN cells THEN cells[i] ELSE Hole]
  BY DEF Put
<1> HIDE DEF n
<1>4. Put(cells, k, d) \in [1 .. n -> Documents \cup {Hole}]
  BY <1>2, <1>3
<1> QED BY <1>1, <1>4 DEF Cells

-----------------------------------------------------------------------------
(***************************************************************************)
(* The invariant holds at the start, and every step keeps it.              *)
(***************************************************************************)
LEMMA InitInv == Init => IInv
<1> SUFFICES ASSUME Init PROVE IInv
  OBVIOUS
<1>1. TypeOK
  <2>1. <<>> \in Cells
    BY DEF Cells
  <2>2. \A d \in Documents : Length[d] \in Nat
    BY LengthAssumption
  <2>3. FileType
    BY <2>1 DEF Init, FileType
  <2>4. SaverType
    <3>1. /\ doc \in [Savers -> Documents] /\ at = [t \in Savers |-> 0]
          /\ at \in [Savers -> Nat]
      BY DEF Init
    <3>2. \A t \in Savers : at[t] <= Length[doc[t]]
      BY <2>2, <3>1
    <3>3. /\ pc \in [Savers -> {"idle", "writing", "closed"}]
          /\ out \in [Savers -> Inodes \cup {NoInode}] /\ saves \in Nat
          /\ alone \in [Savers -> BOOLEAN] /\ overlapped \in BOOLEAN
      BY DEF Init
    <3> QED BY <3>1, <3>2, <3>3 DEF SaverType
  <2>5. ReaderType
    BY <2>1 DEF Init, ReaderType
  <2> QED BY <2>3, <2>4, <2>5 DEF TypeOK
<1>2. Streams /\ TempPrivate /\ CleanWork
  BY DEF Init, Streams, TempPrivate, CleanWork, Clean, Running
<1>3. StreamsPrivate /\ ReadsWhole /\ WholeUnlessOverlapped
  BY DEF Init, StreamsPrivate, ReadsWhole, WholeUnlessOverlapped
<1> QED BY <1>1, <1>2, <1>3 DEF IInv

\* Opening: the temporary file is i, empty, and nobody else has it for target or reads it.
LEMMA OpenKeepsInv ==
    ASSUME IInv, NEW s \in Savers, NEW d \in Documents, NEW i \in Inodes,
           Started(s, d, i), temp' = i, content' = [content EXCEPT ![i] = <<>>],
           i # target, \A r \in Readers : i # in[r]
    PROVE  IInv'
<1>0. /\ TypeOK /\ Streams /\ TempPrivate /\ CleanWork
      /\ StreamsPrivate /\ ReadsWhole /\ WholeUnlessOverlapped
  BY DEF IInv
<1>1. /\ pc[s] = "idle" /\ UNCHANGED <<target, in, got, outcome>> /\ saves' = saves + 1
      /\ pc' = [pc EXCEPT ![s] = "writing"] /\ out' = [out EXCEPT ![s] = i]
      /\ doc' = [doc EXCEPT ![s] = d] /\ at' = [at EXCEPT ![s] = 0]
      /\ alone' = [t \in Savers |-> t = s /\ \A o \in Others(s) : ~Running(o)]
      /\ overlapped' = (overlapped \/ \E o \in Others(s) : Running(o))
  BY DEF Started, reader
<1>2. \A t \in Savers : /\ pc'[t] = IF t = s THEN "writing" ELSE pc[t]
                        /\ out'[t] = IF t = s THEN i ELSE out[t]
                        /\ doc'[t] = IF t = s THEN d ELSE doc[t]
                        /\ at'[t] = IF t = s THEN 0 ELSE at[t]
  BY <1>0, <1>1 DEF TypeOK, SaverType
<1>3. \A j \in Inodes : content'[j] = IF j = i THEN <<>> ELSE content[j]
  BY <1>0 DEF TypeOK, FileType
<1>4. TypeOK'
  <2>1. <<>> \in Cells
    BY DEF Cells
  <2>2. FileType'
    BY <1>0, <1>1, <2>1 DEF TypeOK, FileType
  <2>3. Length[d] \in Nat
    BY LengthAssumption
  <2>4. SaverType'
    BY <1>0, <1>1, <1>2, <2>3 DEF TypeOK, SaverType
  <2> QED BY <1>0, <1>1, <2>2, <2>4 DEF TypeOK, ReaderType
<1>5. Streams' /\ TempPrivate'
  BY <1>0, <1>1, <1>2, NoInodeAssumption DEF Streams, TempPrivate
<1>6. CleanWork'
  <2> SUFFICES ASSUME NEW t \in Savers, Clean(t)' PROVE
        /\ \A o \in Others(t) : ~Running(o)'
        /\ alone'[t] => temp' # NoInode
        /\ pc'[t] = "writing" => /\ temp' \in {NoInode, out'[t]}
                                 /\ content'[out'[t]] = Prefix(doc'[t], at'[t])
        /\ pc'[t] = "closed" => temp' = NoInode \/ content'[temp'] = Stored(doc'[t])
    BY DEF CleanWork, Running
  <2>1. Running(t)' /\ (~overlapped' \/ alone'[t])
    BY DEF Clean
  <2>2. t = s /\ \A o \in Others(s) : ~Running(o)
    BY <1>1, <1>2, <2>1 DEF Others, Running
  <2>3. content'[i] = <<>> /\ Prefix(d, 0) = <<>>
    BY <1>3 DEF Prefix
  <2> QED BY <1>2, <2>2, <2>3, NoInodeAssumption DEF Others, Running
<1>7. StreamsPrivate'
  <2>1. ~overlapped' => ~overlapped
    BY <1>1
  <2> QED BY <1>0, <1>1, <1>2, <2>1 DEF StreamsPrivate
<1>8. ReadsWhole'
  <2>1. ~overlapped' => ~overlapped
    BY <1>1
  <2>2. \A r \in Readers : in[r] # NoInode => content'[in[r]] = content[in[r]]
    BY <1>0, <1>3 DEF TypeOK, ReaderType
  <2> QED BY <1>0, <1>1, <2>1, <2>2 DEF ReadsWhole, Whole
<1>9. WholeUnlessOverlapped'
  BY <1>0, <1>1, <1>3 DEF WholeUnlessOverlapped, TypeOK, FileType
<1> QED BY <1>4, <1>5, <1>6, <1>7, <1>8, <1>9 DEF IInv

LEMMA ReopenKeepsInv ==
    ASSUME IInv, NEW s \in Savers, NEW d \in Documents, Reopen(s, d) PROVE IInv'
<1>1. temp \in Inodes /\ temp' = temp /\ temp # target /\ \A r \in Readers : temp # in[r]
  BY DEF IInv, TypeOK, FileType, TempPrivate, Reopen
<1> QED BY <1>1, OpenKeepsInv DEF Reopen

LEMMA CreateKeepsInv ==
    ASSUME IInv, NEW s \in Savers, NEW d \in Documents, NEW i \in Inodes, Create(s, d, i)
    PROVE  IInv'
BY OpenKeepsInv DEF Create, Unused

LEMMA WriteKeepsInv == ASSUME IInv, NEW s \in Savers, Write(s) PROVE IInv'
<1>0. /\ TypeOK /\ Streams /\ TempPrivate /\ CleanWork
      /\ StreamsPrivate /\ ReadsWhole /\ WholeUnlessOverlapped
  BY DEF IInv
<1> DEFINE cells == Put(content[out[s]], at[s] + 1, doc[s])
<1>1. /\ pc[s] = "writing" /\ at[s] < Length[doc[s]]
      /\ UNCHANGED <<temp, target, pc, out, doc, saves, in, got, outcome, alone, overlapped>>
      /\ content' = [content EXCEPT ![out[s]] = cells] /\ at' = [at EXCEPT ![s] = at[s] + 1]
  BY DEF Write, names, reader, hist
<1>2. /\ out[s] \in Inodes /\ content[out[s]] \in Cells
      /\ doc[s] \in Documents /\ at[s] \in Nat /\ Length[doc[s]] \in Nat
  BY <1>0, <1>1, LengthAssumption DEF TypeOK, FileType, SaverType, Streams
<1>3. cells \in Cells
  BY <1>2, PutCells
<1> HIDE DEF cells
<1>4. \A t \in Savers : at'[t] = IF t = s THEN at[s] + 1 ELSE at[t]
  BY <1>0, <1>1 DEF TypeOK, SaverType
<1>5. \A j \in Inodes : content'[j] = IF j = out[s] THEN cells ELSE content[j]
  BY <1>0, <1>1 DEF TypeOK, FileType
<1>6. TypeOK'
  <2>1. FileType'
    BY <1>0, <1>1, <1>3 DEF TypeOK, FileType
  <2>2. SaverType'
    BY <1>0, <1>1, <1>2, <1>4 DEF TypeOK, SaverType
  <2> QED BY <1>0, <1>1, <2>1, <2>2 DEF TypeOK, ReaderType
<1>7. Streams' /\ TempPrivate' /\ StreamsPrivate'
  BY <1>0, <1>1 DEF Streams, TempPrivate, StreamsPrivate
<1>8. CleanWork'
  <2> SUFFICES ASSUME NEW t \in Savers, Clean(t) PROVE
        /\ \A o \in Others(t) : ~Running(o)
        /\ alone[t] => temp # NoInode
        /\ pc[t] = "writing" => /\ temp \in {NoInode, out[t]}
                                /\ content'[out[t]] = Prefix(doc[t], at'[t])
        /\ pc[t] = "closed" => temp = NoInode \/ content'[temp] = Stored(doc[t])
    BY <1>1 DEF CleanWork, Clean, Running, Others
  <2>1. /\ \A o \in Others(t) : ~Running(o)
        /\ alone[t] => temp # NoInode
        /\ pc[t] = "writing" => /\ temp \in {NoInode, out[t]}
                                /\ content[out[t]] = Prefix(doc[t], at[t])
    BY <1>0 DEF CleanWork
  <2>2. t = s
    BY <1>1, <2>1 DEF Others, Running
  <2>3. content'[out[s]] = cells
    BY <1>2, <1>5
  <2>4. cells = Prefix(doc[s], at[s] + 1)
    BY <1>1, <1>2, <2>1, <2>2, PutNext DEF cells
  <2> QED BY <1>1, <1>4, <2>1, <2>2, <2>3, <2>4
<1>9. ReadsWhole' /\ WholeUnlessOverlapped'
  <2> SUFFICES ASSUME ~overlapped PROVE ReadsWhole' /\ WholeUnlessOverlapped'
    BY <1>1 DEF ReadsWhole, WholeUnlessOverlapped
  <2>1. out[s] # target /\ \A r \in Readers : out[s] # in[r]
    BY <1>0, <1>1 DEF StreamsPrivate
  <2>2. \A r \in Readers : in[r] # NoInode => content'[in[r]] = content[in[r]]
    BY <1>0, <1>5, <2>1 DEF TypeOK, ReaderType
  <2>3. target # NoInode => content'[target] = content[target]
    BY <1>0, <1>5, <2>1 DEF TypeOK, FileType
  <2> QED BY <1>0, <1>1, <2>2, <2>3 DEF ReadsWhole, WholeUnlessOverlapped, Whole
<1> QED BY <1>6, <1>7, <1>8, <1>9 DEF IInv

LEMMA CloseKeepsInv == ASSUME IInv, NEW s \in Savers, Close(s) PROVE IInv'
<1>0. /\ TypeOK /\ Streams /\ TempPrivate /\ CleanWork
      /\ StreamsPrivate /\ ReadsWhole /\ WholeUnlessOverlapped
  BY DEF IInv
<1>1. /\ pc[s] = "writing" /\ at[s] = Length[doc[s]]
      /\ UNCHANGED <<temp, target, content, doc, at, saves, in, got, outcome, alone, overlapped>>
      /\ pc' = [pc EXCEPT ![s] = "closed"] /\ out' = [out EXCEPT ![s] = NoInode]
  BY DEF Close, Ended, names, reader, hist
<1>2. \A t \in Savers : /\ pc'[t] = IF t = s THEN "closed" ELSE pc[t]
                        /\ out'[t] = IF t = s THEN NoInode ELSE out[t]
  BY <1>0, <1>1 DEF TypeOK, SaverType
<1>3. TypeOK'
  BY <1>0, <1>1 DEF TypeOK, FileType, SaverType, ReaderType
<1>4. Streams' /\ TempPrivate' /\ StreamsPrivate'
  BY <1>0, <1>1, <1>2 DEF Streams, TempPrivate, StreamsPrivate
<1>5. CleanWork'
  BY <1>0, <1>1, <1>2 DEF CleanWork, Clean, Running, Others, Stored
<1>6. ReadsWhole' /\ WholeUnlessOverlapped'
  BY <1>0, <1>1 DEF ReadsWhole, WholeUnlessOverlapped
<1> QED BY <1>3, <1>4, <1>5, <1>6 DEF IInv

\* Stopping, with the files as they are.
LEMMA StopKeepsInv ==
    ASSUME IInv, NEW s \in Savers, Ended(s, "idle"),
           UNCHANGED <<names, content, reader, hist>>
    PROVE  IInv'
<1>0. /\ TypeOK /\ Streams /\ TempPrivate /\ CleanWork
      /\ StreamsPrivate /\ ReadsWhole /\ WholeUnlessOverlapped
  BY DEF IInv
<1>1. /\ UNCHANGED <<temp, target, content, doc, at, saves, in, got, outcome, alone, overlapped>>
      /\ pc' = [pc EXCEPT ![s] = "idle"] /\ out' = [out EXCEPT ![s] = NoInode]
  BY DEF Ended, names, reader, hist
<1>2. \A t \in Savers : /\ pc'[t] = IF t = s THEN "idle" ELSE pc[t]
                        /\ out'[t] = IF t = s THEN NoInode ELSE out[t]
  BY <1>0, <1>1 DEF TypeOK, SaverType
<1>3. TypeOK'
  BY <1>0, <1>1 DEF TypeOK, FileType, SaverType, ReaderType
<1>4. Streams' /\ TempPrivate' /\ StreamsPrivate'
  BY <1>0, <1>1, <1>2 DEF Streams, TempPrivate, StreamsPrivate
<1>5. CleanWork'
  BY <1>0, <1>1, <1>2 DEF CleanWork, Clean, Running, Others
<1>6. ReadsWhole' /\ WholeUnlessOverlapped'
  BY <1>0, <1>1 DEF ReadsWhole, WholeUnlessOverlapped
<1> QED BY <1>3, <1>4, <1>5, <1>6 DEF IInv

LEMMA RenameKeepsInv == ASSUME IInv, NEW s \in Savers, Rename(s) PROVE IInv'
<1>0. /\ TypeOK /\ Streams /\ TempPrivate /\ CleanWork
      /\ StreamsPrivate /\ ReadsWhole /\ WholeUnlessOverlapped
  BY DEF IInv
<1>1. /\ pc[s] = "closed" /\ temp' = NoInode
      /\ IF temp = NoInode THEN UNCHANGED target ELSE target' = temp
      /\ UNCHANGED <<content, doc, at, saves, in, got, outcome, alone, overlapped>>
      /\ pc' = [pc EXCEPT ![s] = "idle"] /\ out' = [out EXCEPT ![s] = NoInode]
  BY DEF Rename, Ended, reader, hist
<1>2. \A t \in Savers : /\ pc'[t] = IF t = s THEN "idle" ELSE pc[t]
                        /\ out'[t] = IF t = s THEN NoInode ELSE out[t]
  BY <1>0, <1>1 DEF TypeOK, SaverType
<1>3. TypeOK'
  <2>1. FileType'
    BY <1>0, <1>1 DEF TypeOK, FileType
  <2>2. SaverType'
    BY <1>0, <1>1 DEF TypeOK, SaverType
  <2> QED BY <1>0, <1>1, <2>1, <2>2 DEF TypeOK, ReaderType
<1>4. Streams' /\ TempPrivate'
  BY <1>0, <1>1, <1>2 DEF Streams, TempPrivate
<1>5. \A t \in Savers : Clean(t) => t = s
  BY <1>0, <1>1 DEF CleanWork, Running, Others
<1>6. CleanWork'
  BY <1>1, <1>2, <1>5 DEF CleanWork, Clean, Running
<1>7. StreamsPrivate'
  <2>1. ~overlapped => \A t \in Savers : pc'[t] # "writing"
    BY <1>2, <1>5 DEF Clean, Running
  <2> QED BY <1>1, <2>1 DEF StreamsPrivate
<1>8. ReadsWhole'
  BY <1>0, <1>1 DEF ReadsWhole
<1>9. WholeUnlessOverlapped'
  <2>1. ~overlapped /\ temp # NoInode => Whole(content[temp])
    BY <1>0, <1>1 DEF CleanWork, Clean, Running, TypeOK, SaverType, Whole
  <2> QED BY <1>0, <1>1, <2>1 DEF WholeUnlessOverlapped
<1> QED BY <1>3, <1>4, <1>6, <1>7, <1>8, <1>9 DEF IInv

LEMMA ThrowKeepsInv == ASSUME IInv, NEW s \in Savers, Throws(s) PROVE IInv'
<1>0. /\ TypeOK /\ Streams /\ TempPrivate /\ CleanWork
      /\ StreamsPrivate /\ ReadsWhole /\ WholeUnlessOverlapped
  BY DEF IInv
<1>1. /\ temp' = NoInode
      /\ UNCHANGED <<target, content, doc, at, saves, in, got, outcome, overlapped>>
      /\ pc' = [pc EXCEPT ![s] = "idle"] /\ out' = [out EXCEPT ![s] = NoInode]
      /\ alone' = [t \in Savers |-> IF t = s THEN alone[t] ELSE FALSE]
  BY DEF Throws, Ended, reader, Disturb
<1>2. \A t \in Savers : /\ pc'[t] = IF t = s THEN "idle" ELSE pc[t]
                        /\ out'[t] = IF t = s THEN NoInode ELSE out[t]
  BY <1>0, <1>1 DEF TypeOK, SaverType
<1>3. TypeOK'
  <2>1. FileType'
    BY <1>0, <1>1 DEF TypeOK, FileType
  <2>2. SaverType'
    BY <1>0, <1>1 DEF TypeOK, SaverType
  <2> QED BY <1>0, <1>1, <2>1, <2>2 DEF TypeOK, ReaderType
<1>4. Streams' /\ TempPrivate' /\ StreamsPrivate'
  BY <1>0, <1>1, <1>2 DEF Streams, TempPrivate, StreamsPrivate
<1>5. CleanWork'
  <2> SUFFICES ASSUME NEW t \in Savers, Clean(t)' PROVE
        /\ \A o \in Others(t) : ~Running(o)'
        /\ ~alone'[t]
        /\ pc'[t] = "writing" => content'[out'[t]] = Prefix(doc'[t], at'[t])
    BY <1>1 DEF CleanWork, Running
  <2>1. t # s /\ ~alone'[t] /\ Clean(t)
    BY <1>1, <1>2 DEF Clean, Running
  <2> QED BY <1>0, <1>1, <1>2, <2>1 DEF CleanWork, Running, Others
<1>6. ReadsWhole' /\ WholeUnlessOverlapped'
  BY <1>0, <1>1 DEF ReadsWhole, WholeUnlessOverlapped
<1> QED BY <1>3, <1>4, <1>5, <1>6 DEF IInv

\* The readers do not touch what the savers work on.
LEMMA ReaderFrame ==
    ASSUME IInv, UNCHANGED <<names, content, saver, hist>>, ReaderType', TempPrivate',
           StreamsPrivate', ReadsWhole', WholeUnlessOverlapped'
    PROVE  IInv'
<1>1. UNCHANGED <<temp, target, content, pc, out, doc, at, saves, alone, overlapped>>
  BY DEF names, saver, hist
<1>2. TypeOK' /\ Streams'
  BY <1>1 DEF IInv, TypeOK, FileType, SaverType, Streams
<1>3. CleanWork'
  BY <1>1 DEF IInv, CleanWork, Clean, Running
<1> QED BY <1>2, <1>3 DEF IInv

LEMMA ReadOpenKeepsInv == ASSUME IInv, NEW r \in Readers, ReadOpen(r) PROVE IInv'
<1>0. /\ TypeOK /\ TempPrivate /\ StreamsPrivate /\ ReadsWhole /\ WholeUnlessOverlapped
  BY DEF IInv
<1>1. /\ target # NoInode /\ in' = [in EXCEPT ![r] = target] /\ got' = [got EXCEPT ![r] = <<>>]
      /\ UNCHANGED <<temp, target, content, pc, out, outcome, overlapped>>
      /\ UNCHANGED <<names, content, saver, hist>>
  BY DEF ReadOpen, names, saver, hist
<1>2. \A q \in Readers : /\ in'[q] = IF q = r THEN target ELSE in[q]
                         /\ got'[q] = IF q = r THEN <<>> ELSE got[q]
  BY <1>0, <1>1 DEF TypeOK, ReaderType
<1>3. ReaderType'
  <2>1. <<>> \in Cells
    BY DEF Cells
  <2> QED BY <1>0, <1>1, <2>1 DEF TypeOK, ReaderType, FileType
<1>4. TempPrivate' /\ StreamsPrivate' /\ WholeUnlessOverlapped'
  BY <1>0, <1>1, <1>2 DEF TempPrivate, StreamsPrivate, WholeUnlessOverlapped
<1>5. ReadsWhole'
  <2>1. content[target] \in Cells
    BY <1>0, <1>1 DEF TypeOK, FileType
  <2>2. Len(content[target]) \in Nat
    BY <2>1 DEF Cells
  <2> QED BY <1>0, <1>1, <1>2, <2>2 DEF ReadsWhole, WholeUnlessOverlapped
<1> QED BY <1>1, <1>3, <1>4, <1>5, ReaderFrame

LEMMA ReadMoreKeepsInv == ASSUME IInv, NEW r \in Readers, ReadMore(r) PROVE IInv'
<1>0. /\ TypeOK /\ TempPrivate /\ StreamsPrivate /\ ReadsWhole /\ WholeUnlessOverlapped
  BY DEF IInv
<1> DEFINE file == content[in[r]]
           more == Append(got[r], file[Len(got[r]) + 1])
<1>1. /\ in[r] # NoInode /\ Len(got[r]) < Len(file) /\ got' = [got EXCEPT ![r] = more]
      /\ UNCHANGED <<temp, target, content, pc, out, in, outcome, overlapped>>
      /\ UNCHANGED <<names, content, saver, hist>>
  BY DEF ReadMore, names, saver, hist
<1>2. file \in Cells /\ got[r] \in Cells
  BY <1>0, <1>1 DEF TypeOK, FileType, ReaderType
<1>3. /\ more \in Cells /\ Len(more) = Len(got[r]) + 1
      /\ \A i \in 1 .. Len(more) : more[i] = IF i = Len(got[r]) + 1 THEN file[i] ELSE got[r][i]
  BY <1>1, <1>2 DEF Cells
<1>4. Len(got[r]) \in Nat /\ Len(file) \in Nat
  BY <1>2 DEF Cells
<1> HIDE DEF more
<1>5. \A q \in Readers : got'[q] = IF q = r THEN more ELSE got[q]
  BY <1>0, <1>1 DEF TypeOK, ReaderType
<1>6. ReaderType'
  BY <1>0, <1>1, <1>3 DEF TypeOK, ReaderType
<1>7. TempPrivate' /\ StreamsPrivate' /\ WholeUnlessOverlapped'
  BY <1>0, <1>1 DEF TempPrivate, StreamsPrivate, WholeUnlessOverlapped
<1>8. ReadsWhole'
  <2> SUFFICES ASSUME ~overlapped, NEW q \in Readers, in[q] # NoInode
               PROVE  /\ Whole(content[in[q]])
                      /\ Len(got'[q]) <= Len(content[in[q]])
                      /\ \A i \in 1 .. Len(got'[q]) : got'[q][i] = content[in[q]][i]
    BY <1>1 DEF ReadsWhole
  <2>1. /\ Whole(content[in[q]]) /\ Len(got[q]) <= Len(content[in[q]])
        /\ \A i \in 1 .. Len(got[q]) : got[q][i] = content[in[q]][i]
    BY <1>0 DEF ReadsWhole
  <2>2. CASE q # r
    BY <1>5, <2>1, <2>2
  <2>3. CASE q = r
    BY <1>1, <1>3, <1>4, <1>5, <2>1, <2>3
  <2> QED BY <2>2, <2>3
<1> QED BY <1>1, <1>6, <1>7, <1>8, ReaderFrame

LEMMA ReadEndKeepsInv == ASSUME IInv, NEW r \in Readers, ReadEnd(r) PROVE IInv'
<1>0. /\ TypeOK /\ TempPrivate /\ StreamsPrivate /\ ReadsWhole /\ WholeUnlessOverlapped
  BY DEF IInv
<1>1. /\ in[r] # NoInode /\ Len(got[r]) >= Len(content[in[r]])
      /\ in' = [in EXCEPT ![r] = NoInode] /\ got' = [got EXCEPT ![r] = <<>>]
      /\ outcome' = [outcome EXCEPT ![r] = got[r]]
      /\ UNCHANGED <<temp, target, content, pc, out, overlapped>>
      /\ UNCHANGED <<names, content, saver, hist>>
  BY DEF ReadEnd, names, saver, hist
<1>2. \A q \in Readers : /\ in'[q] = IF q = r THEN NoInode ELSE in[q]
                         /\ got'[q] = IF q = r THEN <<>> ELSE got[q]
                         /\ outcome'[q] = IF q = r THEN got[r] ELSE outcome[q]
  BY <1>0, <1>1 DEF TypeOK, ReaderType
<1>3. content[in[r]] \in Cells /\ got[r] \in Cells
  BY <1>0, <1>1 DEF TypeOK, FileType, ReaderType
<1>4. ReaderType'
  <2>1. <<>> \in Cells
    BY DEF Cells
  <2> QED BY <1>0, <1>1, <1>3, <2>1 DEF TypeOK, ReaderType
<1>5. TempPrivate' /\ StreamsPrivate'
  <2>1. \A s \in Savers : pc[s] = "writing" => out[s] # NoInode
    BY DEF IInv, Streams
  <2> QED BY <1>0, <1>1, <1>2, <2>1 DEF TempPrivate, StreamsPrivate
<1>6. ReadsWhole'
  BY <1>0, <1>1, <1>2 DEF ReadsWhole
<1>7. WholeUnlessOverlapped'
  <2>1. Len(got[r]) \in Nat /\ Len(content[in[r]]) \in Nat
    BY <1>3 DEF Cells
  <2>2. ~overlapped => /\ Len(got[r]) = Len(content[in[r]])
                       /\ \A i \in 1 .. Len(got[r]) : got[r][i] = content[in[r]][i]
    BY <1>0, <1>1, <2>1 DEF ReadsWhole
  <2>3. ~overlapped => got[r] = content[in[r]]
    BY <1>3, <2>2, SameCells
  <2>4. ~overlapped => Whole(got[r])
    BY <1>0, <1>1, <2>3 DEF ReadsWhole
  <2> QED BY <1>0, <1>1, <1>2, <2>4 DEF WholeUnlessOverlapped
<1> QED BY <1>1, <1>4, <1>5, <1>6, <1>7, ReaderFrame

LEMMA StutterKeepsInv == ASSUME IInv, UNCHANGED vars PROVE IInv'
<1>1. /\ UNCHANGED <<temp, target, content, pc, out, doc, at, saves, alone, overlapped>>
      /\ UNCHANGED <<in, got, outcome>>
  BY DEF vars, names, saver, reader, hist
<1>2. TypeOK' /\ Streams' /\ TempPrivate'
  BY <1>1 DEF IInv, TypeOK, FileType, SaverType, ReaderType, Streams, TempPrivate
<1>3. CleanWork' /\ StreamsPrivate'
  BY <1>1 DEF IInv, CleanWork, Clean, Running, StreamsPrivate
<1> QED BY <1>1, <1>2, <1>3 DEF IInv, ReadsWhole, WholeUnlessOverlapped

LEMMA NextKeepsInv == IInv /\ [Next]_vars => IInv'
<1> SUFFICES ASSUME IInv, [Next]_vars PROVE IInv'
  OBVIOUS
<1>1. CASE \E s \in Savers, d \in Documents : Reopen(s, d) \/ \E i \in Inodes : Create(s, d, i)
  BY <1>1, ReopenKeepsInv, CreateKeepsInv
<1>2. ASSUME NEW s \in Savers,
             Write(s) \/ Close(s) \/ FlushFails(s) \/ Rename(s) \/ Throws(s) \/ Dies(s)
      PROVE  IInv'
  BY <1>2, WriteKeepsInv, CloseKeepsInv, StopKeepsInv, RenameKeepsInv, ThrowKeepsInv
     DEF FlushFails, Dies
<1>3. CASE \E r \in Readers : ReadOpen(r) \/ ReadMore(r) \/ ReadEnd(r)
  BY <1>3, ReadOpenKeepsInv, ReadMoreKeepsInv, ReadEndKeepsInv
<1>4. CASE UNCHANGED vars
  BY <1>4, StutterKeepsInv
<1> QED BY <1>1, <1>2, <1>3, <1>4 DEF Next

LEMMA Invariance == Spec => []IInv
BY InitInv, NextKeepsInv, PTL DEF Spec

-----------------------------------------------------------------------------
(***************************************************************************)
(* The theorems.                                                           *)
(***************************************************************************)

\* Every reachable state is well typed; no saver ever writes more cells than its document has.
THEOREM TypeCorrect == Spec => []TypeOK
<1>1. IInv => TypeOK
  BY DEF IInv
<1> QED BY <1>1, Invariance, PTL

\* save and load: unless two saves overlap, the target and whatever a reader gets are
\* whole documents, through any failures and crashes.
THEOREM WholeFiles == Spec => []WholeUnlessOverlapped
<1>1. IInv => WholeUnlessOverlapped
  BY DEF IInv
<1> QED BY <1>1, Invariance, PTL

\* save: one that nobody disturbs puts its own document in place, also after saves that
\* did overlap.
THEOREM LoneSaves == Spec => LoneSaveExact
<1> DEFINE Exact == \A s \in Savers : pc[s] = "closed" /\ alone[s] /\ Rename(s) =>
                       target' # NoInode /\ content'[target'] = Stored(doc[s])
<1>1. IInv /\ [Next]_vars => [Exact]_vars
  <2> SUFFICES ASSUME IInv, NEW s \in Savers, pc[s] = "closed", alone[s], Rename(s)
               PROVE  target' # NoInode /\ content'[target'] = Stored(doc[s])
    OBVIOUS
  <2>1. temp # NoInode /\ content[temp] = Stored(doc[s])
    BY DEF IInv, CleanWork, Clean, Running
  <2> QED BY <2>1 DEF Rename
<1> QED BY <1>1, Invariance, PTL DEF Spec, LoneSaveExact

-----------------------------------------------------------------------------
(***************************************************************************)
(* Until two saves overlap, the protocol implements AtomicFile.            *)
(***************************************************************************)
\* An overlap is never forgotten.
LEMMA OverlapStays == ASSUME overlapped, [Next]_vars PROVE overlapped'
<1>1. ASSUME NEW s \in Savers, NEW d \in Documents, NEW i, Started(s, d, i) PROVE overlapped'
  BY <1>1 DEF Started
<1> QED BY <1>1 DEF Next, Reopen, Create, Write, Close, FlushFails, Rename, Throws, Dies,
           ReadOpen, ReadMore, ReadEnd, hist, vars

LEMMA DocumentOfStored ==
    /\ \A d \in Documents : DocumentOf(Stored(d)) = d
    /\ \A cells : Whole(cells) => DocumentOf(cells) \in Documents /\ DocumentOf(cells) # Nothing
    /\ DocumentOf(<<>>) = Nothing
<1>1. ASSUME NEW d \in Documents, NEW e \in Documents, Stored(d) = Stored(e) PROVE d = e
  <2>1. 1 \in 1 .. Length[d] /\ 1 \in 1 .. Length[e]
    BY LengthAssumption
  <2>2. Stored(d)[1] = d /\ Stored(e)[1] = e
    BY <2>1 DEF Stored, Prefix
  <2> QED BY <1>1, <2>2
<1>2. \A d \in Documents : Whole(Stored(d)) /\ Stored(d) # <<>>
  BY StoredCells
<1>3. ASSUME NEW d \in Documents PROVE DocumentOf(Stored(d)) = d
  BY <1>1, <1>2 DEF DocumentOf
<1>4. ASSUME NEW cells, Whole(cells) PROVE DocumentOf(cells) \in Documents
  BY <1>4 DEF DocumentOf, Whole
<1>5. ~Whole(<<>>)
  BY <1>2 DEF Whole
<1> QED BY <1>3, <1>4, <1>5, NothingAssumption DEF DocumentOf

\* What the abstract variables stand for.
FileValue == IF target = NoInode THEN Nothing ELSE DocumentOf(content[target])
ReaderValue == [r \in Readers |-> IF in[r] = NoInode THEN Nothing ELSE DocumentOf(content[in[r]])]
OutcomeValue == [r \in Readers |-> DocumentOf(outcome[r])]

\* A step that leaves the names and streams of readers alone, and the cells behind them,
\* is a stutter.
LEMMA Stutters ==
    ASSUME IInv, UNCHANGED <<target, in, outcome>>,
           target # NoInode => content'[target] = content[target],
           \A r \in Readers : in[r] # NoInode => content'[in[r]] = content[in[r]]
    PROVE  UNCHANGED <<FileValue, ReaderValue, OutcomeValue>>
BY DEF FileValue, ReaderValue, OutcomeValue

LEMMA StepImplements ==
    ASSUME IInv, ~overlapped, [Next]_vars
    PROVE  \/ \E d \in Documents : FileValue' = d /\ UNCHANGED <<ReaderValue, OutcomeValue>>
           \/ \E r \in Readers :
                 /\ FileValue # Nothing /\ ReaderValue[r] = Nothing
                 /\ ReaderValue' = [ReaderValue EXCEPT ![r] = FileValue]
                 /\ UNCHANGED <<FileValue, OutcomeValue>>
           \/ \E r \in Readers :
                 /\ ReaderValue[r] # Nothing
                 /\ OutcomeValue' = [OutcomeValue EXCEPT ![r] = ReaderValue[r]]
                 /\ ReaderValue' = [ReaderValue EXCEPT ![r] = Nothing]
                 /\ UNCHANGED FileValue
           \/ UNCHANGED <<FileValue, ReaderValue, OutcomeValue>>
<1>0. /\ TypeOK /\ Streams /\ TempPrivate /\ CleanWork
      /\ StreamsPrivate /\ ReadsWhole /\ WholeUnlessOverlapped
  BY DEF IInv
<1>1. ASSUME NEW s \in Savers, NEW d \in Documents, Reopen(s, d)
      PROVE  UNCHANGED <<FileValue, ReaderValue, OutcomeValue>>
  <2>1. UNCHANGED <<target, in, outcome>> /\ temp # NoInode
    BY <1>1 DEF Reopen, Started, reader
  <2>2. content' = [content EXCEPT ![temp] = <<>>]
    BY <1>1 DEF Reopen
  <2>3. temp # target /\ \A r \in Readers : temp # in[r]
    BY <1>0, <2>1 DEF TempPrivate
  <2>4. /\ target # NoInode => content'[target] = content[target]
        /\ \A r \in Readers : in[r] # NoInode => content'[in[r]] = content[in[r]]
    BY <1>0, <2>2, <2>3 DEF TypeOK, FileType, ReaderType
  <2> QED BY <2>1, <2>4, Stutters
<1>2. ASSUME NEW s \in Savers, NEW d \in Documents, NEW i \in Inodes, Create(s, d, i)
      PROVE  UNCHANGED <<FileValue, ReaderValue, OutcomeValue>>
  <2>1. UNCHANGED <<target, in, outcome>>
    BY <1>2 DEF Create, Started, reader
  <2>2. content' = [content EXCEPT ![i] = <<>>] /\ i # target /\ \A r \in Readers : i # in[r]
    BY <1>2 DEF Create, Unused
  <2>3. /\ target # NoInode => content'[target] = content[target]
        /\ \A r \in Readers : in[r] # NoInode => content'[in[r]] = content[in[r]]
    BY <1>0, <2>2 DEF TypeOK, FileType, ReaderType
  <2> QED BY <2>1, <2>3, Stutters
<1>3. ASSUME NEW s \in Savers, Write(s)
      PROVE  UNCHANGED <<FileValue, ReaderValue, OutcomeValue>>
  <2>1. UNCHANGED <<target, in, outcome>> /\ pc[s] = "writing"
    BY <1>3 DEF Write, names, reader
  <2>2. PICK cells : content' = [content EXCEPT ![out[s]] = cells]
    BY <1>3 DEF Write
  <2>3. out[s] # target /\ \A r \in Readers : out[s] # in[r]
    BY <1>0, <2>1 DEF StreamsPrivate
  <2>4. /\ target # NoInode => content'[target] = content[target]
        /\ \A r \in Readers : in[r] # NoInode => content'[in[r]] = content[in[r]]
    BY <1>0, <2>2, <2>3 DEF TypeOK, FileType, ReaderType
  <2> QED BY <2>1, <2>4, Stutters
<1>4. ASSUME NEW s \in Savers, Close(s) \/ FlushFails(s) \/ Throws(s) \/ Dies(s)
      PROVE  UNCHANGED <<FileValue, ReaderValue, OutcomeValue>>
  <2>1. UNCHANGED <<target, in, outcome, content>>
    BY <1>4 DEF Close, FlushFails, Throws, Dies, names, reader
  <2> QED BY <2>1, Stutters
<1>5. ASSUME NEW s \in Savers, Rename(s)
      PROVE  \/ \E d \in Documents : FileValue' = d /\ UNCHANGED <<ReaderValue, OutcomeValue>>
             \/ UNCHANGED <<FileValue, ReaderValue, OutcomeValue>>
  <2>1. UNCHANGED <<content, in, outcome>> /\ pc[s] = "closed"
    BY <1>5 DEF Rename, reader
  <2>2. CASE temp = NoInode
    BY <1>5, <2>1, <2>2, Stutters DEF Rename
  <2>3. CASE temp # NoInode
    <3>1. content[temp] = Stored(doc[s]) /\ doc[s] \in Documents /\ target' = temp
      BY <1>0, <1>5, <2>1, <2>3 DEF CleanWork, Clean, Running, TypeOK, SaverType, Rename
    <3>2. FileValue' = doc[s]
      BY <2>1, <2>3, <3>1, DocumentOfStored DEF FileValue
    <3>3. UNCHANGED <<ReaderValue, OutcomeValue>>
      BY <2>1 DEF ReaderValue, OutcomeValue
    <3> QED BY <3>1, <3>2, <3>3
  <2> QED BY <2>2, <2>3
<1>6. ASSUME NEW r \in Readers, ReadOpen(r)
      PROVE  /\ FileValue # Nothing /\ ReaderValue[r] = Nothing
             /\ ReaderValue' = [ReaderValue EXCEPT ![r] = FileValue]
             /\ UNCHANGED <<FileValue, OutcomeValue>>
  <2>1. /\ in[r] = NoInode /\ target # NoInode /\ in' = [in EXCEPT ![r] = target]
        /\ UNCHANGED <<target, content, outcome>>
    BY <1>6 DEF ReadOpen, names
  <2>2. FileValue # Nothing
    BY <1>0, <2>1, DocumentOfStored DEF FileValue, WholeUnlessOverlapped
  <2>3. ReaderValue' = [ReaderValue EXCEPT ![r] = FileValue]
    BY <1>0, <2>1 DEF ReaderValue, FileValue, TypeOK, ReaderType
  <2> QED BY <2>1, <2>2, <2>3 DEF ReaderValue, FileValue, OutcomeValue
<1>7. ASSUME NEW r \in Readers, ReadMore(r)
      PROVE  UNCHANGED <<FileValue, ReaderValue, OutcomeValue>>
  <2>1. UNCHANGED <<target, in, outcome, content>>
    BY <1>7 DEF ReadMore, names
  <2> QED BY <2>1, Stutters
<1>8. ASSUME NEW r \in Readers, ReadEnd(r)
      PROVE  /\ ReaderValue[r] # Nothing
             /\ OutcomeValue' = [OutcomeValue EXCEPT ![r] = ReaderValue[r]]
             /\ ReaderValue' = [ReaderValue EXCEPT ![r] = Nothing]
             /\ UNCHANGED FileValue
  <2>1. /\ in[r] # NoInode /\ Len(got[r]) >= Len(content[in[r]])
        /\ in' = [in EXCEPT ![r] = NoInode] /\ outcome' = [outcome EXCEPT ![r] = got[r]]
        /\ UNCHANGED <<target, content>>
    BY <1>8 DEF ReadEnd, names
  <2>2. content[in[r]] \in Cells /\ got[r] \in Cells
    BY <1>0, <2>1 DEF TypeOK, FileType, ReaderType
  <2>3. got[r] = content[in[r]]
    <3>1. Len(got[r]) \in Nat /\ Len(content[in[r]]) \in Nat
      BY <2>2 DEF Cells
    <3>2. /\ Len(got[r]) = Len(content[in[r]])
          /\ \A i \in 1 .. Len(got[r]) : got[r][i] = content[in[r]][i]
      BY <1>0, <2>1, <3>1 DEF ReadsWhole
    <3> QED BY <2>2, <3>2, SameCells
  <2>4. ReaderValue[r] = DocumentOf(got[r]) /\ ReaderValue[r] # Nothing
    BY <1>0, <2>1, <2>3, DocumentOfStored DEF ReaderValue, ReadsWhole
  <2>5. OutcomeValue' = [OutcomeValue EXCEPT ![r] = ReaderValue[r]]
    BY <1>0, <2>1, <2>4 DEF OutcomeValue, TypeOK, ReaderType
  <2>6. ReaderValue' = [ReaderValue EXCEPT ![r] = Nothing]
    BY <1>0, <2>1 DEF ReaderValue, TypeOK, ReaderType
  <2> QED BY <2>1, <2>4, <2>5, <2>6 DEF FileValue
<1>9. CASE UNCHANGED vars
  BY <1>9, Stutters DEF vars, names, reader
<1> QED BY <1>1, <1>2, <1>3, <1>4, <1>5, <1>6, <1>7, <1>8, <1>9 DEF Next

\* save and load: until two saves overlap, whatever fails or dies, the file is an atomic
\* one, replaced as a whole and read as it was when it was opened.
THEOREM AtomicUntilOverlapped == Spec => ImplementsAtomicFile
<1>1. Init => Atomic!Init
  BY DocumentOfStored DEF Init, Atomic!Init
<1>2. IInv /\ [Next]_vars => [overlapped' \/ Atomic!Next]_(Atomic!vars)
  <2> SUFFICES ASSUME IInv, [Next]_vars, ~overlapped' PROVE [Atomic!Next]_(Atomic!vars)
    OBVIOUS
  <2>1. ~overlapped
    BY OverlapStays
  <2> QED BY <2>1, StepImplements DEF FileValue, ReaderValue, OutcomeValue, Atomic!Next,
             Atomic!vars, Atomic!Replace, Atomic!Begin, Atomic!End
<1> QED BY <1>1, <1>2, Invariance, PTL DEF Spec, ImplementsAtomicFile

\* save and load: with one saver at a time nothing ever overlaps, so the file is atomic
\* throughout.
THEOREM OneSaverIsAtomic ==
    ASSUME \A s, t \in Savers : s = t
    PROVE  Spec => Atomic!Spec
<1>1. Init => ~overlapped /\ Atomic!Init
  BY DocumentOfStored DEF Init, Atomic!Init
<1>2. ~overlapped /\ [Next]_vars => ~overlapped'
  <2> SUFFICES ASSUME ~overlapped, [Next]_vars PROVE ~overlapped'
    OBVIOUS
  <2>1. \A s \in Savers : Others(s) = {}
    BY DEF Others
  <2>2. ASSUME NEW s \in Savers, NEW d \in Documents, NEW i, Started(s, d, i)
        PROVE  ~overlapped'
    <3>1. overlapped' = (overlapped \/ \E o \in Others(s) : Running(o))
      BY <2>2 DEF Started
    <3> QED BY <2>1, <3>1
  <2> QED BY <2>2 DEF Next, Reopen, Create, Write, Close, FlushFails, Rename, Throws, Dies,
             ReadOpen, ReadMore, ReadEnd, hist, vars
<1>3. IInv /\ ~overlapped /\ [Next]_vars => [Atomic!Next]_(Atomic!vars)
  BY StepImplements DEF FileValue, ReaderValue, OutcomeValue, Atomic!Next, Atomic!vars,
     Atomic!Replace, Atomic!Begin, Atomic!End
<1> QED BY <1>1, <1>2, <1>3, Invariance, PTL DEF Spec, Atomic!Spec
=============================================================================
