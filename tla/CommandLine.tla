---------------------------- MODULE CommandLine ----------------------------
(***************************************************************************)
(* What a command line and the configuration file `~/.crumb.conf' mean:    *)
(* the parsing of the search options, the aliases and the routing.         *)
(*                                                                         *)
(* Arguments are model strings without the program's name.  A line of the  *)
(* configuration file is a record whose kind says what trim, find and      *)
(* valid_alias tell of it.                                                 *)
(***************************************************************************)
EXTENDS Integers, Sequences, SequencesExt, FiniteSetsExt, Functions

CONSTANTS
    LimitArguments,  \* the arguments of the form --limit=N, with their N
    TapArguments,    \* the other arguments that begin with --tap=
    Numbers,         \* the strings from_chars reads to their end as a number
    InHome           \* alias values `~' and `~/..', with the paths they stand for

Absent == "absent"   \* no option, no directory

\* An argument is of one form; no number, and not the mark of a missing option, begins
\* with --limit=.
ASSUME ArgumentsAssumption ==
    /\ TapArguments \cap {"--full", "--details", "--table", "--tap", "--tap=html", "--tap=text", "--limit"} = {}
    /\ DOMAIN LimitArguments
         \cap ({"--full", "--details", "--table", "--tap", "--tap=html", "--tap=text", "--limit", Absent}
                 \cup TapArguments \cup Numbers) = {}

\* UserConfig::load stops at the first line of the section it cannot read.
ReadLine(config, line) ==
    IF config.bad \/ line.kind = "blank" THEN config
    ELSE IF line.kind = "section" THEN [config EXCEPT !.inside = line.name = "aliases"]
    ELSE IF ~config.inside THEN config
    ELSE IF line.kind = "alias" THEN [config EXCEPT !.aliases = line.name :> line.directory @@ @]
    ELSE [config EXCEPT !.bad = TRUE]

LoadConfig(lines) ==
    FoldLeft(ReadLine, [bad |-> FALSE, inside |-> FALSE, aliases |-> <<>>], lines)

\* The value of an alias is not an alias again.
ResolveDirectory(aliases, value) ==
    IF value \notin DOMAIN aliases THEN value
    ELSE IF aliases[value] \in DOMAIN InHome THEN InHome[aliases[value]]
    ELSE aliases[value]
-----------------------------------------------------------------------------
(* parse_search_options.  `wants' is the option whose value may come next. *)

DefaultOptions ==
    [full |-> TRUE, tap |-> FALSE, html |-> FALSE, limit |-> Absent,
     positionals |-> <<>>, wants |-> "nothing", bad |-> FALSE]

DisplayOptions == {"--full", "--details", "--table"}

ParseLimit(options, value) ==
    IF value \in Numbers THEN [options EXCEPT !.limit = value, !.wants = "nothing"]
    ELSE [options EXCEPT !.bad = TRUE]

ParseArgument(options, argument) ==
    CASE argument \in DisplayOptions -> [options EXCEPT !.full = argument # "--table"]
      [] argument = "--tap"          -> [options EXCEPT !.tap = TRUE, !.wants = "format"]
      [] argument = "--tap=html"     -> [options EXCEPT !.tap = TRUE, !.html = TRUE]
      [] argument = "--tap=text"     -> [options EXCEPT !.tap = TRUE, !.html = FALSE]
      [] argument \in TapArguments   -> [options EXCEPT !.bad = TRUE]
      [] argument = "--limit"        -> [options EXCEPT !.wants = "limit"]
      [] argument \in DOMAIN LimitArguments -> ParseLimit(options, LimitArguments[argument])
      [] OTHER                       -> [options EXCEPT !.positionals = Append(@, argument)]

\* Variant: the format behind --tap is left to be a positional argument.
ParseNextNoFormat(options, argument) ==
    IF options.bad THEN options
    ELSE IF options.wants = "limit" THEN ParseLimit(options, argument)
    ELSE ParseArgument([options EXCEPT !.wants = "nothing"], argument)

ParseNext(options, argument) ==
    IF options.bad THEN options
    ELSE IF options.wants = "limit" THEN ParseLimit(options, argument)
    ELSE IF options.wants = "format" /\ argument = "html"
         THEN [options EXCEPT !.html = TRUE, !.wants = "nothing"]
    ELSE ParseArgument([options EXCEPT !.wants = "nothing"], argument)

ParseSearchOptions(arguments) ==
    LET options == FoldLeft(ParseNext, DefaultOptions, Tail(arguments))
    IN  [options EXCEPT !.bad = @ \/ options.wants = "limit" \/ Len(options.positionals) \notin 1..2]
-----------------------------------------------------------------------------
(* CommandRouter::run: what is done, with which directory and query.       *)

Refused == [name |-> "refused", source |-> "native", path |-> Absent, query |-> Absent]
Command(name, source, path, query) ==
    [name |-> name, source |-> source, path |-> path, query |-> query]

RouteIndex(arguments) ==
    IF Len(arguments) \notin 2..3 \/ arguments[2] # "drive" THEN Refused
    ELSE Command("index", "drive", IF Len(arguments) = 3 THEN arguments[3] ELSE Absent, Absent)

RouteSearch(aliases, arguments) ==
    LET options == ParseSearchOptions(arguments)
        asked   == options.positionals
    IN  IF options.bad THEN Refused
        ELSE IF Len(asked) = 2 /\ asked[1] = "drive"
             THEN Command("search", "drive", Absent, asked[2])
        ELSE Command("search", "native",
                     ResolveDirectory(aliases, IF Len(asked) = 2 THEN asked[1] ELSE "."), Last(asked))

Route(aliases, arguments) ==
    LET name      == IF arguments = <<>> THEN "scan" ELSE Head(arguments)
        directory == ResolveDirectory(aliases, IF Len(arguments) > 1 THEN arguments[2] ELSE ".")
    IN  CASE name = "index"  -> RouteIndex(arguments)
          [] name = "search" -> RouteSearch(aliases, arguments)
          [] name = "index_size" /\ Len(arguments) <= 2 -> Command(name, "native", directory, Absent)
          [] name = "scan"   -> Command(name, "native", directory, Absent)
          [] OTHER           -> Refused
-----------------------------------------------------------------------------
(* The same, said of whole command lines.                                  *)

Options == DisplayOptions \cup {"--tap", "--tap=html", "--tap=text", "--limit"}
             \cup TapArguments \cup DOMAIN LimitArguments

\* The arguments that are values of the option before them.
Values(a) ==
    LET value[i \in 1 .. Len(a)] ==
          /\ i > 2 /\ ~value[i - 1]
          /\ a[i - 1] = "--limit" \/ (a[i - 1] = "--tap" /\ a[i] = "html")
    IN  {i \in 1 .. Len(a) : value[i]}

\* The last one of a set of places, or nothing.
LastOf(a, places, else) == IF places = {} THEN else ELSE a[Max(places)]

MeantOptions(a) ==
    LET values  == Values(a)
        free    == 2 .. Len(a) \ values
        limits  == {i \in values : a[i - 1] = "--limit"} \cup {i \in free : a[i] \in DOMAIN LimitArguments}
        limit   == LastOf(a, limits, Absent)
        formats == (values \ limits) \cup {i \in free : a[i] \in {"--tap=html", "--tap=text"}}
    IN  [full   |-> LastOf(a, {i \in free : a[i] \in DisplayOptions}, "--full") # "--table",
         tap    |-> \E i \in free : a[i] \in {"--tap", "--tap=html", "--tap=text"},
         html   |-> LastOf(a, formats, "--tap=text") \in {"html", "--tap=html"},
         limit  |-> IF limit \in DOMAIN LimitArguments THEN LimitArguments[limit] ELSE limit,
         positionals |-> LET rest == {i \in free : a[i] \notin Options}
                         IN  [k \in 1 .. Cardinality(rest) |->
                                a[CHOOSE i \in rest : Cardinality({j \in rest : j <= i}) = k]]]

Understandable(a) ==
    LET meant == MeantOptions(a)
        ends  == Len(a) > 1 /\ Last(a) = "--limit" /\ Len(a) \notin Values(a)
    IN  /\ Len(a) > 1 /\ ~ends /\ Len(meant.positionals) \in 1..2
        /\ \A i \in 2 .. Len(a) :
              /\ i \in Values(a) /\ a[i - 1] = "--limit" => a[i] \in Numbers
              /\ i \notin Values(a) => a[i] \notin TapArguments
              /\ i \notin Values(a) /\ a[i] \in DOMAIN LimitArguments => LimitArguments[a[i]] \in Numbers
=============================================================================
