---------------------------- MODULE ManifestText ----------------------------
(***************************************************************************)
(* The text of one `.crumb' file: what toToml writes, what users make of   *)
(* it, and what parse_manifest reads, line by line, in scan after scan of  *)
(* an unchanged directory.                                                 *)
(*                                                                         *)
(* A text is a sequence of lines without their outer blanks; a value is a  *)
(* sequence of characters, numbers having one digit.  Names, titles and    *)
(* other strings are sequences of characters too, because what survives    *)
(* depends on how they are quoted.                                         *)
(***************************************************************************)
EXTENDS Integers, SequencesExt, FiniteSetsExt, Functions

CONSTANTS
    Chars,      \* the characters of strings
    Disks,      \* the directory: per file name its refreshed metadata
    UserLines,  \* lines that users write
    Ulids,      \* the strings that DirectoryId and FileId accept
    Hashes,     \* the strings that Fingerprint accepts
    MaxEdits    \* bound: lines that users insert, repeat or delete

Digits == <<"0", "1", "2", "3", "4", "5", "6", "7", "8", "9">>

ASSUME EditsAssumption == MaxEdits \in Nat
ASSUME StringsAssumption ==
    /\ {"quote", "backslash", "newline", "n", "now", "-"} \cup Range(Digits) \subseteq Chars
    /\ Ulids \subseteq Seq(Chars) /\ Ulids # {} /\ Hashes \subseteq Seq(Chars)
    /\ \A line \in UserLines : line.value \in Seq(Chars)

VARIABLES
    pc,       \* where the scan stands
    disk,     \* the files and their metadata
    text,     \* the lines of `.crumb'
    edits,    \* lines changed by users
    pos,      \* the next line
    section,  \* `section', as [files |-> .., name |-> ..], or Top
    fields,   \* `fields'
    records,  \* `records': per name the fields of its section
    header,   \* `version', `directory_id', `generated_at'
    entries,  \* the manifest
    saved     \* history: what was saved last, Edited once users changed it

vars == <<pc, disk, text, edits, pos, section, fields, records, header, entries, saved>>

Required        == {"id", "type", "fingerprint", "size", "modified_ns"}
OptionalNumbers == {"created_ns", "inode", "device"}
OptionalStrings == {"content_hash", "external_url", "title", "author", "extractor"}
Numbers         == {"size", "modified_ns"} \cup OptionalNumbers
Known           == Required \cup OptionalNumbers \cup OptionalStrings
Dates           == {"modified_ns", "created_ns"}
HeaderKeys      == {"version", "directory_id", "generated_at"}

None   == <<>>                 \* a map without keys, an empty string
NoKey  == ""                   \* the name of the section `[]'
Top    == [files |-> FALSE, name |-> "top"]
Edited == [edited |-> TRUE]

\* What the constructor of FileName accepts.
IsName(name) ==
    name \notin {None, <<".">>, <<".", ".">>} /\ ~Contains(name, "/") /\ ~Contains(name, "backslash")

\* The fields that neither crumb nor its extractors own.
Extension(key) == key \notin Known /\ key # "crumb.terms"

\* A number has one digit, and a sign if it is a date.
IsValue(key, value) ==
    IF key \in Numbers THEN value \in (IF key \in Dates THEN -9..9 ELSE 0..9)
    ELSE value \in Seq(Chars)

\* What the file system tells of a file.
IsMetadata(e) ==
    /\ Required \ {"id"} \subseteq DOMAIN e
    /\ \A k \in DOMAIN e : k # "id" /\ ~Extension(k) /\ IsValue(k, e[k])
    /\ e.fingerprint \in Hashes

ASSUME DisksAssumption ==
    \A d \in Disks :
        /\ IsFiniteSet(DOMAIN d)
        /\ \A n \in DOMAIN d : /\ n \in Seq(Chars) /\ IsName(n)
                               /\ IsFiniteSet(DOMAIN d[n]) /\ IsMetadata(d[n])

\* A map that is asked before an older one, and a map with one more key.
Over(new, old) ==
    [k \in DOMAIN new \cup DOMAIN old |-> IF k \in DOMAIN new THEN new[k] ELSE old[k]]
With(map, key, value) == Over([k \in {key} |-> value], map)

\* A record is complete and every one of its fields has been understood.
IsEntry(e) ==
    /\ Required \subseteq DOMAIN e
    /\ \A k \in DOMAIN e \cap Numbers : e[k] \in Int

TypeOK ==
    /\ pc \in {"idle", "lines", "records", "loaded", "refused"}
    /\ edits \in 0..MaxEdits
    /\ pos \in 1 .. Len(text) + 1
    /\ \A n \in DOMAIN entries : IsEntry(entries[n])
-----------------------------------------------------------------------------
(* quote, unquote and numbers.                                             *)

\* Variant: only quotation marks are escaped.
EscapedMarks(c) ==
    CASE c = "quote"   -> <<"backslash", c>>
      [] c = "newline" -> <<"backslash", "n">>
      [] OTHER         -> <<c>>

Escaped(c) ==
    CASE c \in {"backslash", "quote"} -> <<"backslash", c>>
      [] c = "newline"                -> <<"backslash", "n">>
      [] OTHER                        -> <<c>>

Quote(s) == <<"quote">> \o FlattenSeq([i \in DOMAIN s |-> Escaped(s[i])]) \o <<"quote">>

\* From position i on; the last character is the closing mark.
Unescaped(v) ==
    LET from[i \in 2 .. Len(v) + 1] ==
          IF i >= Len(v) THEN <<>>
          ELSE IF v[i] = "backslash" /\ i + 1 < Len(v)
               THEN <<IF v[i + 1] = "n" THEN "newline" ELSE v[i + 1]>> \o from[i + 2]
               ELSE <<v[i]>> \o from[i + 1]
    IN  from[2]

Unquote(v) ==
    IF Len(v) >= 2 /\ Head(v) = "quote" /\ Last(v) = "quote" THEN Unescaped(v) ELSE v

Written(n) == IF n < 0 THEN <<"-", Digits[1 - n]>> ELSE <<Digits[1 + n]>>

\* from_chars into an unsigned number: no sign.
IsNumber(v) == \E n \in 0..9 : Unquote(v) = Written(n)
Number(v) == CHOOSE n \in 0..9 : Unquote(v) = Written(n)
-----------------------------------------------------------------------------
(* TomlManifestMapper::toToml.                                             *)

Section(name) == [kind |-> "section", key |-> "files", value |-> name]
Pair(key, value) == [kind |-> "pair", key |-> key, value |-> value]
Blank == [kind |-> "blank", key |-> NoKey, value |-> <<>>]

\* Variant: fields that crumb does not know are quoted as well.
WrittenQuoted(key, value) == IF key \in Numbers THEN Written(value) ELSE Quote(value)

WrittenValue(key, value) ==
    IF key \in Numbers THEN Written(value) ELSE IF key \in Known THEN Quote(value) ELSE value

Order == <<"id", "type", "size", "modified_ns", "fingerprint", "content_hash", "external_url",
           "created_ns", "inode", "device", "title", "author", "extractor">>

EntryLines(name, e) ==
    LET known == FlattenSeq([i \in DOMAIN Order |-> IF Order[i] \in DOMAIN e THEN <<Order[i]>> ELSE <<>>])
        keys  == known \o SetToSeq(DOMAIN e \ Known)
    IN  <<Blank, Section(Quote(name))>>
        \o [i \in DOMAIN keys |-> Pair(keys[i], WrittenValue(keys[i], e[keys[i]]))]

ToToml(directory, manifest) ==
    LET names == SetToSeq(DOMAIN manifest)
    IN  <<Pair("version", <<"1">>), Pair("directory_id", Quote(directory)),
          Pair("generated_at", Quote(<<"now">>))>>
        \o FlattenSeq([i \in DOMAIN names |-> EntryLines(names[i], manifest[names[i]])])
-----------------------------------------------------------------------------
(* Users.                                                                  *)

Change(lines) ==
    /\ pc = "idle" /\ edits < MaxEdits
    /\ edits' = edits + 1
    /\ text' = lines /\ saved' = Edited
    /\ UNCHANGED <<pc, disk, pos, section, fields, records, header, entries>>

Insert == \E k \in DOMAIN text, line \in UserLines : Change(InsertAt(text, k, line))
Repeat == \E k \in DOMAIN text : Change(Append(text, text[k]))
Delete == \E k \in DOMAIN text : Change(RemoveAt(text, k))
-----------------------------------------------------------------------------
(* parse_manifest.                                                         *)

Init ==
    /\ pc = "idle" /\ disk \in Disks /\ text = <<>> /\ edits = 0
    /\ pos = 1 /\ section = Top /\ fields = None /\ records = None
    /\ header = [k \in HeaderKeys |-> None] /\ entries = None /\ saved = Edited

Load ==
    /\ pc = "idle" /\ text # <<>>
    /\ pc' = "lines" /\ pos' = 1 /\ section' = Top /\ fields' = None /\ records' = None
    /\ header' = [k \in HeaderKeys |-> None] /\ entries' = None
    /\ UNCHANGED <<disk, text, edits, saved>>

Line == text[pos]
AtLine == pc = "lines" /\ pos <= Len(text)

SkipLine ==
    /\ AtLine /\ Line.kind \in {"blank", "other"}
    /\ pos' = pos + 1
    /\ UNCHANGED <<pc, disk, text, edits, section, fields, records, header, entries, saved>>

\* Variant: the fields of one section are not cleared before the next.
FlushOnly ==
    /\ records' = IF section.files THEN With(records, Unquote(section.name), fields) ELSE records
    /\ UNCHANGED fields

\* The fields of a file section replace those of an earlier one of that name.
Flush ==
    /\ records' = IF section.files THEN With(records, Unquote(section.name), fields) ELSE records
    /\ fields' = None

\* Any other section is read and dropped; `[]' goes back to the top.
SectionLine ==
    /\ AtLine /\ Line.kind = "section"
    /\ Flush
    /\ section' = IF Line.key = NoKey THEN Top ELSE [files |-> Line.key = "files", name |-> Line.value]
    /\ pos' = pos + 1
    /\ UNCHANGED <<pc, disk, text, edits, header, entries, saved>>

HeaderValue(key, value) ==
    IF key = "version" THEN IF IsNumber(value) THEN Unquote(value) ELSE header.version
    ELSE Unquote(value)

PairLine ==
    /\ AtLine /\ Line.kind = "pair"
    /\ IF section # Top
         THEN fields' = With(fields, Line.key, Line.value) /\ UNCHANGED header
         ELSE /\ header' = IF Line.key \in HeaderKeys
                             THEN [header EXCEPT ![Line.key] = HeaderValue(Line.key, Line.value)]
                             ELSE header
              /\ UNCHANGED fields
    /\ pos' = pos + 1
    /\ UNCHANGED <<pc, disk, text, edits, section, records, entries, saved>>

EndOfText ==
    /\ pc = "lines" /\ pos > Len(text)
    /\ Flush
    /\ pc' = IF header.version = <<"1">> /\ header.directory_id \in Ulids /\ header.generated_at # None
               THEN "records" ELSE "refused"
    /\ UNCHANGED <<disk, text, edits, pos, section, header, entries, saved>>

\* Variant: the size of a file may be missing.
CompleteWithoutSize(name, values) ==
    /\ Required \ {"size"} \subseteq DOMAIN values
    /\ IsNumber(values.modified_ns)
    /\ Unquote(values.id) \in Ulids /\ Unquote(values.fingerprint) \in Hashes
    /\ IsName(name)

\* What a record needs, and what the constructors of its values accept.
Complete(name, values) ==
    /\ Required \subseteq DOMAIN values
    /\ IsNumber(values.size) /\ IsNumber(values.modified_ns)
    /\ Unquote(values.id) \in Ulids /\ Unquote(values.fingerprint) \in Hashes
    /\ IsName(name)

\* An optional number that is none is dropped; unknown fields are kept as they are.
EntryOf(values) ==
    [k \in {k \in DOMAIN values : k \in Numbers => IsNumber(values[k])} |->
        IF k \in Numbers THEN Number(values[k])
        ELSE IF k \in Known THEN Unquote(values[k]) ELSE values[k]]

AddRecord ==
    /\ pc = "records"
    /\ \E n \in DOMAIN records \ DOMAIN entries :
          IF Complete(n, records[n])
            THEN entries' = With(entries, n, EntryOf(records[n])) /\ UNCHANGED pc
            ELSE pc' = "refused" /\ entries' = None
    /\ UNCHANGED <<disk, text, edits, pos, section, fields, records, header, saved>>

EndOfRecords ==
    /\ pc = "records" /\ DOMAIN entries = DOMAIN records
    /\ pc' = "loaded"
    /\ UNCHANGED <<disk, text, edits, pos, section, fields, records, header, entries, saved>>
-----------------------------------------------------------------------------
(* The rest of the scan, as far as it decides what is saved.               *)

Agree(old, new, keys) ==
    \A k \in keys \cap (DOMAIN old \cup DOMAIN new) :
        k \in DOMAIN old \cap DOMAIN new /\ old[k] = new[k]

\* What two files are taken for one by, the surest sign first.
Signs == <<{"inode", "device"}, {"content_hash", "size"}, {"fingerprint", "size", "modified_ns"}>>

Same(old, new, keys) == keys \subseteq DOMAIN old \cap DOMAIN new /\ Agree(old, new, keys)
Alike(old, new) == \E keys \in Range(Signs) : Same(old, new, keys)

\* The only entry that is the same by these keys.
Sole(es, file, keys) ==
    LET same == {m \in DOMAIN es : Same(es[m], file, keys)}
    IN  IF Cardinality(same) = 1 THEN same ELSE {}

\* The entry for a file: that of its name, else the one the first sign tells that tells one.
Match(es, name) ==
    LET by(i) == Sole(es, disk[name], Signs[i])
    IN  IF name \in DOMAIN es THEN {name}
        ELSE IF by(1) # {} THEN by(1) ELSE IF by(2) # {} THEN by(2) ELSE by(3)

\* An entry with terms that agrees with the file is kept, whatever else it says; any
\* other file keeps its id and its extension fields.
Refreshed(old, new) ==
    IF /\ "crumb.terms" \in DOMAIN old
       /\ Agree(old, new, {"size", "modified_ns", "created_ns", "fingerprint", "external_url"})
    THEN old
    ELSE Over(new, Restrict(old, {k \in DOMAIN old : Extension(k) \/ k = "id"}))

Observe(es, name) ==
    LET match == Match(es, name)
    IN  With(Restrict(es, DOMAIN es \ match), name,
             IF match = {} THEN Over(disk[name], [id |-> CHOOSE id \in Ulids : TRUE])
             ELSE Refreshed(es[CHOOSE m \in match : TRUE], disk[name]))

\* The entries after all files were observed, less those of files that are gone.
Observed ==
    LET names == SetToSeq(DOMAIN disk)
        after[i \in 0 .. Len(names)] == IF i = 0 THEN entries ELSE Observe(after[i - 1], names[i])
    IN  after[Len(names)]

Reconciled == Restrict(Observed, DOMAIN Observed \cap DOMAIN disk)

Save(directory) ==
    /\ saved' = Reconciled
    /\ text' = ToToml(directory, saved')
    /\ pc' = "idle" /\ pos' = 1 /\ section' = Top /\ fields' = None /\ records' = None
    /\ header' = [k \in HeaderKeys |-> None] /\ entries' = None
    /\ UNCHANGED <<disk, edits>>

\* There is no manifest yet.
SaveNew == pc = "idle" /\ text = <<>> /\ Save(CHOOSE id \in Ulids : TRUE)

SaveAgain == pc = "loaded" /\ Save(header.directory_id)

\* The scan fails and leaves the file alone.
Refuse ==
    /\ pc = "refused"
    /\ pc' = "idle" /\ pos' = 1 /\ section' = Top /\ records' = None
    /\ header' = [k \in HeaderKeys |-> None]
    /\ UNCHANGED <<disk, text, edits, fields, entries, saved>>

Parse == SkipLine \/ SectionLine \/ PairLine \/ EndOfText \/ AddRecord \/ EndOfRecords

Next == Insert \/ Repeat \/ Delete \/ Load \/ Parse \/ SaveNew \/ SaveAgain \/ Refuse

Spec == Init /\ [][Next]_vars
-----------------------------------------------------------------------------
(* Properties.                                                             *)

\* What a number that is written loses when it is read.
Survives(key, value) == key = "created_ns" => value >= 0

\* A manifest that nobody has edited is read back as it was saved, whatever is in its
\* names, titles and other strings; only a creation date before 1970 is lost, and only
\* a file edited before 1970 makes the whole manifest unreadable.
SavedReadBack ==
    saved # Edited =>
        /\ pc = "loaded" =>
              entries = [n \in DOMAIN saved |->
                  [k \in {k \in DOMAIN saved[n] : Survives(k, saved[n][k])} |-> saved[n][k]]]
        /\ pc = "refused" => \E n \in DOMAIN saved : saved[n].modified_ns < 0

\* The lines of the last section of a file, said without a parser.
Headers(n) ==
    {i \in DOMAIN text : text[i].kind = "section" /\ text[i].key = "files" /\ Unquote(text[i].value) = n}
Named == {Unquote(text[i].value) : i \in {j \in DOMAIN text :
            text[j].kind = "section" /\ text[j].key = "files"}}
LinesOf(n) ==
    {i \in DOMAIN text : /\ text[i].kind = "pair" /\ i > Max(Headers(n))
                         /\ \A j \in Max(Headers(n)) + 1 .. i : text[j].kind # "section"}
ValueIn(n, key) == text[Max({i \in LinesOf(n) : text[i].key = key})].value
Reading ==
    [n \in Named |-> EntryOf([key \in {text[i].key : i \in LinesOf(n)} |-> ValueIn(n, key)])]

\* Whatever users write, a manifest that is accepted has one complete record per name,
\* with the last value of each field of its last section, and nothing of another one.
ReadsTheLastSection == pc = "loaded" => entries = Reading

\* Where no file is new to the manifest, entries are found by name alone; a file that
\* is new may be given the entry of another one that is like it.
Unclaimed(n) ==
    \/ DOMAIN disk \subseteq DOMAIN entries
    \/ \A m \in DOMAIN disk \ {n} : ~Alike(entries[n], disk[m]) /\ ~Alike(disk[n], disk[m])

\* The fields users add to a file that is still there are in the next manifest, to the
\* letter; and in the entry of that file, unless a new file may be taken for it.
UserFieldsSurvive ==
    [][SaveAgain =>
         \A n \in DOMAIN entries \cap DOMAIN disk :
            \A k \in DOMAIN entries[n] : Extension(k) =>
                /\ \E i \in DOMAIN text' : text'[i] = Pair(k, ValueIn(n, k))
                /\ Unclaimed(n) => /\ n \in DOMAIN saved' /\ k \in DOMAIN saved'[n]
                                   /\ saved'[n][k] = ValueIn(n, k)]_vars
=============================================================================
