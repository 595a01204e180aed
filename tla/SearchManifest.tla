--------------------------- MODULE SearchManifest ---------------------------
(***************************************************************************)
(* One `crumb scan' that writes the search index and one `crumb search'    *)
(* that answers from it: SearchIndexBuilder, the three versions of the     *)
(* binary format, the checks of its reader, and the fallback to the        *)
(* manifests.  The ranking itself is SearchRanking.  In between the file   *)
(* may have come from an older version, be lost, damaged, or too large.    *)
(*                                                                         *)
(* The text of a field is the set of words tokenize makes of it, a string  *)
(* of the format one item of its stream, and the size of an index the      *)
(* number of its items.                                                    *)
(***************************************************************************)
EXTENDS SearchRanking, FiniteSetsExt

CONSTANTS
    Libraries,  \* what the manifests may hold: sequences of entries
    Queries,    \* bound: the sets of words asked for, {} for a query without any
    Limits,     \* bound: the limits asked for
    MaxRaw,     \* the greatest size load accepts, 512 MiB in the code
    Missing     \* there is no `.crumb.index'

Entry == [dir : Nat \ {0}, name : Nat, id : Int, url : Int \cup {None},
          created : Dates, modified : Dates, fields : Seq(SUBSET Words)]

ASSUME QueriesAssumption == Queries \subseteq SUBSET Words /\ Limits \subseteq Nat /\ MaxRaw \in Nat
ASSUME LibrariesAssumption == \A lib \in Libraries : lib \in Seq(Entry) /\ Len(lib) <= MaxDocs

VARIABLES
    phase,    \* where the two commands stand
    library,  \* the entries of the manifests, in the order of the directories
    file,     \* `.crumb.index'
    rest,     \* what deserialize_index has not read yet
    docs,     \* the documents it has read
    fields,   \* the fields of the next one
    left,     \* the documents, then the terms, still to come
    term,     \* the term whose postings are read
    postings, \* how many of them are to come
    count,    \* the postings read
    via       \* history: the version the index was read from, or "manifests"

reader == <<rest, docs, fields, left, term, postings, count>>
vars == <<rankingVars, phase, library, file, reader, via>>
-----------------------------------------------------------------------------
(* SearchIndexBuilder.                                                     *)

DocumentOf(entry) ==
    [dir |-> entry.dir, name |-> entry.name, id |-> entry.id, url |-> entry.url,
     created |-> entry.created, modified |-> entry.modified]

\* A field counts once for each of its words.
CountOf(entry, word) == Cardinality({k \in DOMAIN entry.fields : word \in entry.fields[k]})

Build(entries) ==
    [docs  |-> [i \in DOMAIN entries |-> DocumentOf(entries[i])],
     count |-> [t \in Words |-> [i \in DOMAIN entries |-> CountOf(entries[i], t)]]]
-----------------------------------------------------------------------------
(* serialize_index and its older versions: items of a kind and a value.    *)

Versions == {"CRZ3", "CRZ4", "CRZ5"}

\* The fields of a document, in the order in which they are written.
Layout(version) ==
    <<"dir", "name">> \o (IF version = "CRZ5" THEN <<"id">> ELSE <<>>) \o <<"url", "created">>
    \o (IF version = "CRZ3" THEN <<>> ELSE <<"modified">>)

Optional == {"url", "created", "modified"}

FieldItems(doc, field) ==
    IF field \in Optional
      THEN IF doc[field] = None THEN <<<<"flag", 0>>>>
           ELSE <<<<"flag", 1>>, <<field, doc[field]>>>>
      ELSE <<<<field, doc[field]>>>>

DocumentItems(version, doc) ==
    FlattenSeq([k \in DOMAIN Layout(version) |-> FieldItems(doc, Layout(version)[k])])

\* The postings of a term, in the order of the documents.
PostingItems(x, t, i) ==
    IF x.count[t][i] > 0 THEN <<<<"document", i - 1>>, <<"count", x.count[t][i]>>>> ELSE <<>>

TermItems(x, t) ==
    <<<<"term", t>>, <<"postings", Cardinality({i \in DOMAIN x.docs : x.count[t][i] > 0})>>>>
    \o FlattenSeq([i \in DOMAIN x.docs |-> PostingItems(x, t, i)])

\* The terms come in an order of their own.
Stream(version, x) ==
    LET held == SetToSeq({t \in Words : \E i \in DOMAIN x.docs : x.count[t][i] > 0})
    IN  <<<<"documents", Len(x.docs)>>>>
        \o FlattenSeq([i \in DOMAIN x.docs |-> DocumentItems(version, x.docs[i])])
        \o <<<<"terms", Len(held)>>>>
        \o FlattenSeq([k \in DOMAIN held |-> TermItems(x, held[k])])

\* The file, with its header and the state of its compressed part.
File(version, x) ==
    [magic |-> version, raw |-> Len(Stream(version, x)), packed |-> "whole",
     stream |-> Stream(version, x)]
ASSUME MissingAssumption ==
    \A lib \in Libraries, v \in Versions : Missing # File(v, Build(lib))
-----------------------------------------------------------------------------
Init ==
    /\ RankingInit
    /\ library \in Libraries
    /\ phase = "rebuild"
    /\ file \in {Missing} \cup {File(v, Build(library)) : v \in {"CRZ3", "CRZ4"}}
    /\ rest = <<>> /\ docs = <<>> /\ fields = <<>> /\ left = 0
    /\ term = None /\ postings = 0 /\ count = NoIndex.count /\ via = "manifests"

\* The scan rebuilds the index, of any size.
RebuildIndex ==
    /\ phase = "rebuild" /\ phase' = "stored"
    /\ file' = File("CRZ5", Build(library))
    /\ UNCHANGED <<rankingVars, library, reader, via>>

\* It fails, in zlib or on the disk, or it was never run: the old file stays.
RebuildFails ==
    /\ phase = "rebuild" /\ phase' = "stored"
    /\ UNCHANGED <<rankingVars, library, file, reader, via>>

\* What makes an item one that the reader has to refuse.
Spoilt(item) ==
    CASE item[1] = "flag"      -> {<<"flag", 2>>}
      [] item[1] = "dir"       -> {<<"dir", 0>>}
      [] item[1] = "document"  -> {<<"document", Len(library)>>}
      [] item[1] = "documents" -> {<<"documents", MaxDocs + 1>>}
      [] OTHER -> {}

OtherMagics == {"", "CRZ2"}

SpoiltFile ==
    \/ file' = Missing
    \/ \E magic \in OtherMagics : file' = [file EXCEPT !.magic = magic]
    \/ file' = [file EXCEPT !.packed = "broken"]
    \/ \E k \in 0 .. Len(file.stream) - 1 :
          file' = [file EXCEPT !.stream = SubSeq(@, 1, k), !.raw = k]
    \/ \E k \in DOMAIN file.stream : \E item \in Spoilt(file.stream[k]) :
          file' = [file EXCEPT !.stream[k] = item]

Damage ==
    /\ phase = "stored" /\ file # Missing
    /\ phase' = "damaged"
    /\ SpoiltFile
    /\ UNCHANGED <<rankingVars, library, reader, via>>
-----------------------------------------------------------------------------
(* BinarySearchIndexRepository::load, as SearchManifest::execute calls it. *)

\* A query without a word is refused before anything is read.
RefuseQuery ==
    /\ phase \in {"stored", "damaged"} /\ {} \in Queries
    /\ phase' = "failed"
    /\ UNCHANGED <<rankingVars, library, file, reader, via>>

\* Variant: only the present version is known.
ReadableNewest ==
    /\ file # Missing
    /\ file.magic = "CRZ5"
    /\ file.raw <= MaxRaw
    /\ file.packed = "whole"

Readable ==
    /\ file # Missing
    /\ file.magic \in Versions
    /\ file.raw <= MaxRaw
    /\ file.packed = "whole"

MissIndex ==
    /\ phase \in {"stored", "damaged"} /\ ~Readable
    /\ phase' = "fallback"
    /\ UNCHANGED <<rankingVars, library, file, reader, via>>

OpenIndex ==
    /\ phase \in {"stored", "damaged"} /\ Readable
    /\ phase' = "documents"
    /\ rest' = file.stream
    /\ UNCHANGED <<rankingVars, library, file, docs, fields, left, term, postings, count, via>>

Value == Head(rest)[2]
Field == Layout(file.magic)[Len(fields) + 1]
Reading == phase \in {"documents", "field", "document", "terms", "term", "posting"}

\* Variant: a posting may name any document.
AcceptableAnyPosting ==
    CASE phase = "documents" -> rest # <<>> /\ Value <= MaxDocs
      [] phase = "field"     -> rest # <<>> /\ (Field \in Optional => Value \in 0..1 /\ Len(rest) > Value)
      [] phase = "document"  -> fields[1] # 0
      [] phase = "terms"     -> rest # <<>>
      [] OTHER               -> Len(rest) >= 2

\* What deserialize_index demands at each point, beginning with enough bytes.
Acceptable ==
    CASE phase = "documents" -> rest # <<>> /\ Value <= MaxDocs
      [] phase = "field"     -> rest # <<>> /\ (Field \in Optional => Value \in 0..1 /\ Len(rest) > Value)
      [] phase = "document"  -> fields[1] # 0
      [] phase = "terms"     -> rest # <<>>
      [] phase = "term"      -> Len(rest) >= 2
      [] phase = "posting"   -> Len(rest) >= 2 /\ Value < Len(docs)

Read(next, n) ==
    /\ phase' = next
    /\ rest' = SubSeq(rest, n + 1, Len(rest))
    /\ UNCHANGED <<rankingVars, library, file, via>>

ReadDocumentCount ==
    /\ phase = "documents" /\ Acceptable
    /\ left' = Value
    /\ Read(IF Value = 0 THEN "terms" ELSE "field", 1)
    /\ UNCHANGED <<docs, fields, term, postings, count>>

\* A field, or a flag and the field.
ReadField ==
    /\ phase = "field" /\ Acceptable
    /\ LET n == IF Field \in Optional THEN 1 + Value ELSE 1
       IN  /\ fields' = Append(fields, IF n = 1 /\ Field \in Optional THEN None ELSE rest[n][2])
           /\ Read(IF Len(fields') = Len(Layout(file.magic)) THEN "document" ELSE "field", n)
    /\ UNCHANGED <<docs, left, term, postings, count>>

\* A field the version does not have stays empty.
FieldOf(name) ==
    LET layout == Layout(file.magic)
    IN  IF Contains(layout, name) THEN fields[CHOOSE k \in DOMAIN layout : layout[k] = name]
        ELSE None

ReadDocument ==
    /\ phase = "document" /\ Acceptable
    /\ docs' = Append(docs, [name \in {"dir", "name", "id", "url", "created", "modified"} |->
                               FieldOf(name)])
    /\ fields' = <<>> /\ left' = left - 1
    /\ Read(IF left' = 0 THEN "terms" ELSE "field", 0)
    /\ UNCHANGED <<term, postings, count>>

NextTerm(terms_left, to_come) ==
    IF to_come > 0 THEN "posting" ELSE IF terms_left > 0 THEN "term" ELSE "read"

ReadTermCount ==
    /\ phase = "terms" /\ Acceptable
    /\ left' = Value
    /\ count' = [t \in Words |-> [i \in DOMAIN docs |-> 0]]
    /\ Read(NextTerm(Value, 0), 1)
    /\ UNCHANGED <<docs, fields, term, postings>>

ReadTerm ==
    /\ phase = "term" /\ Acceptable
    /\ term' = Value /\ postings' = rest[2][2] /\ left' = left - 1
    /\ Read(NextTerm(left', postings'), 2)
    /\ UNCHANGED <<docs, fields, count>>

ReadPosting ==
    /\ phase = "posting" /\ Acceptable
    /\ count' = [count EXCEPT ![term][Value + 1] = rest[2][2]]
    /\ postings' = postings - 1
    /\ Read(NextTerm(left, postings'), 2)
    /\ UNCHANGED <<docs, fields, left, term>>

RejectIndex ==
    /\ Reading /\ ~Acceptable
    /\ phase' = "fallback"
    /\ UNCHANGED <<rankingVars, library, file, reader, via>>
-----------------------------------------------------------------------------
(* The rest of SearchManifest::execute.                                    *)

\* Variant: some of the words are enough at once.
AskRelaxed(x) ==
    /\ pc = "idle"
    /\ index' = x /\ query' \in Queries \ {{}} /\ limit' \in Limits
    /\ Restart(FALSE)
    /\ phase' = "ranking"
    /\ UNCHANGED <<library, file, reader>>

Ask(x) ==
    /\ pc = "idle"
    /\ index' = x /\ query' \in Queries \ {{}} /\ limit' \in Limits
    /\ Restart(TRUE)
    /\ phase' = "ranking"
    /\ UNCHANGED <<library, file, reader>>

AskIndex ==
    /\ phase = "read"
    /\ Ask([docs |-> docs, count |-> count])
    /\ via' = file.magic

\* The fallback builds the index from the manifests.
AskManifests ==
    /\ phase = "fallback"
    /\ Ask(Build(library))
    /\ UNCHANGED via

\* A directory that cannot be listed, or a manifest that cannot be loaded.
ManifestsFail ==
    /\ phase = "fallback"
    /\ phase' = "failed"
    /\ UNCHANGED <<rankingVars, library, file, reader, via>>

RankAnswer ==
    /\ Rank
    /\ UNCHANGED <<phase, library, file, reader, via>>

Load ==
    \/ MissIndex \/ OpenIndex \/ RejectIndex
    \/ ReadDocumentCount \/ ReadField \/ ReadDocument
    \/ ReadTermCount \/ ReadTerm \/ ReadPosting

Search == Load \/ AskIndex \/ AskManifests \/ RankAnswer

Next == RebuildIndex \/ RebuildFails \/ Damage \/ RefuseQuery \/ ManifestsFail \/ Search

\* The scan ends one way or the other, and a search that runs goes on.
Spec ==
    /\ Init /\ [][Next]_vars
    /\ WF_vars(RebuildIndex \/ RebuildFails) /\ WF_vars(Search)
-----------------------------------------------------------------------------
(* What a search answers, said of the manifests alone.                     *)

Positions == DOMAIN library
WordsOf(i) == UNION Range(library[i].fields)
Known(w) == \E i \in Positions : w \in WordsOf(i)

\* A word that some document holds is looked for as it is, another one fuzzily.
Finding(w) ==
    {t \in Words : IF Known(w) THEN t = w \/ (IsAlias(w) /\ FuzzyContains(t, w))
                               ELSE FuzzyContains(t, w)}
Finders(w) == {i \in Positions : WordsOf(i) \cap Finding(w) # {}}
Coverage(i) == Cardinality({w \in query : i \in Finders(w)})
Relevance(i) ==
    SumFunction([w \in {v \in query : i \in Finders(v)} |->
        Weight[Len(library)][Cardinality(Finders(w))]
            * SumFunction([t \in Finding(w) |-> CountOf(library[i], t)])])

Candidates ==
    LET complete == {i \in Positions : Coverage(i) = Cardinality(query)}
    IN  IF complete # {} THEN complete ELSE {i \in Positions : Coverage(i) > 0}

\* The dates a version keeps.
Edited(i) == IF via = "CRZ3" THEN None ELSE library[i].modified

\* The words found, the relevance, then the newest first.
Above(i, j) ==
    \/ Coverage(i) > Coverage(j)
    \/ /\ Coverage(i) = Coverage(j)
       /\ \/ Relevance(i) > Relevance(j)
          \/ /\ Relevance(i) = Relevance(j)
             /\ \/ Newer(library[i].created, library[j].created)
                \/ library[i].created = library[j].created /\ Newer(Edited(i), Edited(j))

\* Whatever version the index is of, and whatever has happened to it, a search
\* answers with the best of the documents that its words find, as many as the limit
\* allows, in the order of their words, their relevance and their dates.
AnswerIsBest ==
    pc = "done" =>
        LET shown == Range(matches)
        IN  /\ shown \subseteq Candidates /\ IsInjective(matches)
            /\ Len(matches) = Min({limit, Cardinality(Candidates)})
            /\ \A i \in shown : \A j \in Candidates \ shown : ~Above(j, i)
            /\ \A a, b \in DOMAIN matches : a < b => ~Above(matches[b], matches[a])

\* What a version does not record of a document.
AsRead(version, doc) ==
    CASE version = "CRZ3" -> [doc EXCEPT !.id = None, !.modified = None]
      [] version = "CRZ4" -> [doc EXCEPT !.id = None]
      [] OTHER -> doc

\* An index that load accepts is the one that was saved, up to the fields its
\* version lacks; a damaged one is never accepted.
IndexReadBack ==
    pc # "idle" =>
        /\ index.docs = [i \in Positions |-> AsRead(via, DocumentOf(library[i]))]
        /\ index.count = Build(library).count

\* An index that is not too large is used when it is whole.
WholeIndexUsed ==
    phase = "fallback" =>
        \A v \in Versions : file = File(v, Build(library)) => file.raw > MaxRaw

\* The steps of the ranking are those of SearchRanking.
ImplementsRanking == RankingInit /\ [][RankingNext]_rankingVars

\* Every search ends, in an answer or an error.
SearchEnds == <>(pc = "done" \/ phase = "failed")
=============================================================================
