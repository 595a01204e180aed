------------------------------ MODULE AtomicSave ------------------------------
(***************************************************************************)
(* Saving a manifest or an index (TomlManifestRepository::save,            *)
(* BinarySearchIndexRepository::save): the document is written to a file   *)
(* with a fixed temporary name, which is then renamed over the target.     *)
(* Savers are processes; they may overlap, fail at any step, or die.       *)
(* Readers are the load functions.                                         *)
(*                                                                         *)
(* A file is a name linked to an inode, and open files stay what they are  *)
(* when their name goes elsewhere.  A document is stored as Length[d]      *)
(* cells; a cell tells whose it is.                                        *)
(***************************************************************************)
EXTENDS Integers, Sequences, FiniteSets

CONSTANTS
    Savers, Readers,
    Documents,  \* the documents that are ever saved
    Length,     \* how many cells each of them has
    Hole,       \* a cell nobody has written
    Nothing,    \* no document
    Inodes, NoInode,
    MaxSaves    \* bound: saves started

ASSUME LengthAssumption == Length \in [Documents -> Nat \ {0}]
ASSUME NothingAssumption == Nothing \notin Documents
ASSUME NoInodeAssumption == NoInode \notin Inodes

VARIABLES
    temp,        \* the inode of `.crumb.tmp'
    target,      \* the inode of `.crumb'
    content,     \* the cells of each inode
    pc,          \* per saver: idle, writing, or closed
    out,         \* per saver: the inode its stream writes to
    doc,         \* per saver: the document it saves
    at,          \* per saver: cells written so far
    saves,       \* saves started so far
    in,          \* per reader: the inode its stream reads from
    got,         \* per reader: the cells read so far
    outcome,     \* per reader: the cells of its last complete read
    alone,       \* history, per saver: nobody else has touched the temporary file
    overlapped   \* history: a save began while another was running

names == <<temp, target>>
saver == <<pc, out, doc, at, saves>>
reader == <<in, got, outcome>>
hist  == <<alone, overlapped>>
vars  == <<names, content, saver, reader, hist>>

Cells == Seq(Documents \cup {Hole})

\* A document as it lies on disk, and the beginning of it.
Prefix(d, k) == [i \in 1 .. k |-> d]
Stored(d) == Prefix(d, Length[d])
Whole(cells) == \E d \in Documents : cells = Stored(d)

FileType ==
    /\ temp \in Inodes \cup {NoInode} /\ target \in Inodes \cup {NoInode}
    /\ content \in [Inodes -> Cells]

SaverType ==
    /\ pc \in [Savers -> {"idle", "writing", "closed"}]
    /\ out \in [Savers -> Inodes \cup {NoInode}]
    /\ doc \in [Savers -> Documents]
    /\ at \in [Savers -> Nat] /\ (\A s \in Savers : at[s] <= Length[doc[s]])
    /\ saves \in Nat
    /\ alone \in [Savers -> BOOLEAN] /\ overlapped \in BOOLEAN

ReaderType ==
    /\ in \in [Readers -> Inodes \cup {NoInode}]
    /\ got \in [Readers -> Cells] /\ outcome \in [Readers -> Cells]

TypeOK == FileType /\ SaverType /\ ReaderType

Init ==
    /\ temp = NoInode /\ target = NoInode
    /\ content = [i \in Inodes |-> <<>>]
    /\ pc = [s \in Savers |-> "idle"] /\ out = [s \in Savers |-> NoInode]
    /\ doc \in [Savers -> Documents] /\ (\A s, t \in Savers : doc[s] = doc[t])
    /\ at = [s \in Savers |-> 0] /\ saves = 0
    /\ in = [r \in Readers |-> NoInode]
    /\ got = [r \in Readers |-> <<>>] /\ outcome = [r \in Readers |-> <<>>]
    /\ alone = [s \in Savers |-> FALSE] /\ overlapped = FALSE

-----------------------------------------------------------------------------
(***************************************************************************)
(* A saver.                                                                *)
(***************************************************************************)
Running(s) == pc[s] # "idle"
Others(s)  == Savers \ {s}

Unused(i) ==
    /\ i \notin {temp, target}
    /\ \A s \in Savers : out[s] # i
    /\ \A r \in Readers : in[r] # i

Disturb(s) == [t \in Savers |-> IF t = s THEN alone[t] ELSE FALSE]

Started(s, d, i) ==
    /\ pc[s] = "idle" /\ saves < MaxSaves
    /\ pc' = [pc EXCEPT ![s] = "writing"]
    /\ out' = [out EXCEPT ![s] = i]
    /\ doc' = [doc EXCEPT ![s] = d]
    /\ at' = [at EXCEPT ![s] = 0]
    /\ saves' = saves + 1
    /\ alone' = [t \in Savers |-> t = s /\ \A o \in Others(s) : ~Running(o)]
    /\ overlapped' = (overlapped \/ \E o \in Others(s) : Running(o))
    /\ UNCHANGED <<target, reader>>

\* Variant: opened without trunc.
OpenKeeping(s, d) ==
    /\ temp # NoInode
    /\ Started(s, d, temp)
    /\ UNCHANGED <<temp, content>>

\* ofstream(temporary, trunc) finds a file there, left behind or in use ...
Reopen(s, d) ==
    /\ temp # NoInode
    /\ Started(s, d, temp)
    /\ content' = [content EXCEPT ![temp] = <<>>]
    /\ UNCHANGED temp

\* ... or makes one.
Create(s, d, i) ==
    /\ temp = NoInode /\ Unused(i)
    /\ Started(s, d, i)
    /\ temp' = i
    /\ content' = [content EXCEPT ![i] = <<>>]

Put(cells, k, d) ==
    [i \in 1 .. (IF Len(cells) > k THEN Len(cells) ELSE k) |->
        IF i = k THEN d ELSE IF i \in DOMAIN cells THEN cells[i] ELSE Hole]

\* The stream's buffer reaches the file piece by piece.
Write(s) ==
    /\ pc[s] = "writing" /\ at[s] < Length[doc[s]]
    /\ content' = [content EXCEPT ![out[s]] = Put(content[out[s]], at[s] + 1, doc[s])]
    /\ at' = [at EXCEPT ![s] = at[s] + 1]
    /\ UNCHANGED <<names, pc, out, doc, saves, reader, hist>>

Ended(s, phase) ==
    /\ pc' = [pc EXCEPT ![s] = phase]
    /\ out' = [out EXCEPT ![s] = NoInode]
    /\ UNCHANGED <<doc, at, saves>>

\* The flush has succeeded, so every piece is in the file.
Close(s) ==
    /\ pc[s] = "writing" /\ at[s] = Length[doc[s]]
    /\ Ended(s, "closed")
    /\ UNCHANGED <<names, content, reader, hist>>

\* The disk is full, or the like: save returns `cannot flush' and leaves the
\* temporary file where it is.
FlushFails(s) ==
    /\ pc[s] = "writing"
    /\ Ended(s, "idle")
    /\ UNCHANGED <<names, content, reader, hist>>

\* Variant: the target is written in place.
CopyOver(s) ==
    /\ pc[s] = "closed" /\ temp # NoInode
    /\ Ended(s, "idle")
    /\ IF target = NoInode
       THEN target' = temp /\ temp' = NoInode /\ UNCHANGED content
       ELSE /\ content' = [content EXCEPT ![target] = content[temp]]
            /\ temp' = NoInode /\ UNCHANGED target
    /\ UNCHANGED <<reader, hist>>

\* The name goes to whatever inode the temporary name has by now; when it has none
\* rename throws, and the handler has nothing to remove.
Rename(s) ==
    /\ pc[s] = "closed"
    /\ Ended(s, "idle")
    /\ IF temp = NoInode THEN UNCHANGED target ELSE target' = temp
    /\ temp' = NoInode
    /\ UNCHANGED <<content, reader, hist>>

\* An exception: the handler removes the temporary file, whoever's it is.  When an
\* index is saved it can strike before this saver has opened the file.
Throws(s) ==
    /\ Ended(s, "idle")
    /\ temp' = NoInode
    /\ alone' = Disturb(s)
    /\ UNCHANGED <<target, content, reader, overlapped>>

\* The process dies.  Its files stay; a later process uses the saver's place.
Dies(s) ==
    /\ Running(s)
    /\ Ended(s, "idle")
    /\ UNCHANGED <<names, content, reader, hist>>

-----------------------------------------------------------------------------
(***************************************************************************)
(* A reader.                                                               *)
(***************************************************************************)
ReadOpen(r) ==
    /\ in[r] = NoInode /\ target # NoInode
    /\ in' = [in EXCEPT ![r] = target]
    /\ got' = [got EXCEPT ![r] = <<>>]
    /\ UNCHANGED <<names, content, saver, outcome, hist>>

\* Variant: the file is opened anew for each piece.
ReadMoreByName(r) ==
    /\ in[r] # NoInode /\ Len(got[r]) < Len(content[target])
    /\ got' = [got EXCEPT ![r] = Append(got[r], content[target][Len(got[r]) + 1])]
    /\ in' = [in EXCEPT ![r] = target]
    /\ UNCHANGED <<names, content, saver, outcome, hist>>

ReadMore(r) ==
    /\ in[r] # NoInode /\ Len(got[r]) < Len(content[in[r]])
    /\ got' = [got EXCEPT ![r] = Append(got[r], content[in[r]][Len(got[r]) + 1])]
    /\ UNCHANGED <<names, content, saver, in, outcome, hist>>

ReadEnd(r) ==
    /\ in[r] # NoInode /\ Len(got[r]) >= Len(content[in[r]])
    /\ outcome' = [outcome EXCEPT ![r] = got[r]]
    /\ got' = [got EXCEPT ![r] = <<>>]
    /\ in' = [in EXCEPT ![r] = NoInode]
    /\ UNCHANGED <<names, content, saver, hist>>

Next ==
    \/ \E s \in Savers, d \in Documents :
          Reopen(s, d) \/ \E i \in Inodes : Create(s, d, i)
    \/ \E s \in Savers :
          Write(s) \/ Close(s) \/ FlushFails(s) \/ Rename(s) \/ Throws(s) \/ Dies(s)
    \/ \E r \in Readers : ReadOpen(r) \/ ReadMore(r) \/ ReadEnd(r)

Spec == Init /\ [][Next]_vars

-----------------------------------------------------------------------------
(***************************************************************************)
(* Properties.                                                             *)
(***************************************************************************)

\* As long as no two saves have overlapped, failures and crashes at any step and
\* temporary files left behind never put a broken document under the target's name,
\* nor into what a reader gets.
WholeUnlessOverlapped ==
    ~overlapped =>
        /\ target # NoInode => Whole(content[target])
        /\ \A r \in Readers : outcome[r] = <<>> \/ Whole(outcome[r])

\* A save that nobody disturbs puts its own document in place, whatever broken files
\* earlier or overlapping saves have left behind.
LoneSaveExact ==
    [][\A s \in Savers : pc[s] = "closed" /\ alone[s] /\ Rename(s) =>
          target' # NoInode /\ content'[target'] = Stored(doc[s])]_vars

DocumentOf(cells) ==
    IF Whole(cells) THEN CHOOSE d \in Documents : cells = Stored(d) ELSE Nothing
Atomic == INSTANCE AtomicFile WITH
    value   <- IF target = NoInode THEN Nothing ELSE DocumentOf(content[target]),
    opened  <- [r \in Readers |-> IF in[r] = NoInode THEN Nothing
                                  ELSE DocumentOf(content[in[r]])],
    outcome <- [r \in Readers |-> DocumentOf(outcome[r])]

\* Until two saves overlap the file is an atomic one: it is replaced as a whole, and a
\* reader gets the document that was there when it opened the file.
ImplementsAtomicFile == Atomic!Init /\ [][overlapped' \/ Atomic!Next]_(Atomic!vars)

=============================================================================
