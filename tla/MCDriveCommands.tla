-------------------------- MODULE MCDriveCommands --------------------------
(***************************************************************************)
(* Two mounts, a few files and the command lines of DriveCommands.         *)
(***************************************************************************)
EXTENDS DriveCommands

M == <<"m">>

Directories == {M, <<"m", "s">>, <<"m", ".tmp">>, <<"n">>}

\* The working directory is the first mount.
Spellings == ("." :> M) @@ ("m" :> M) @@ ("m/s" :> <<"m", "s">>) @@ ("m/.tmp" :> <<"m", ".tmp">>)
               @@ ("n" :> <<"n">>)
Mounted == (M :> "m") @@ (<<"n">> :> "n")

SomeFiles ==
    {[dir |-> M, name |-> "a", kind |-> "text"],
     [dir |-> <<"m", "s">>, name |-> "b", kind |-> "office"],
     [dir |-> <<"m", ".tmp">>, name |-> "a", kind |-> "text"]}

Line(kind, name, directory) == [kind |-> kind, name |-> name, directory |-> directory]
Aliases ==
    <<Line("alias", "vault", "n"), Line("section", "aliases", ""), Line("blank", "", ""),
      Line("alias", "vault", "m/s"), Line("alias", "vault", "~/x"), Line("alias", "empty", ""),
      Line("section", "other", ""), Line("invalid", "", "")>>
Configurations ==
    {Aliases, <<Line("section", "aliases", ""), Line("alias", "vault", "m"), Line("invalid", "", "")>>}

Home == "~" :> "m" @@ "~/x" :> "m/s"

LimitForms == "--limit=1" :> "1" @@ "--limit=x" :> "x"
TapForms == {"--tap=x"}
Digits == {"1"}
Words == {"q", "html", "drive", "vault"}

Words3(words) == {<<w>> : w \in words} \cup (words \X words) \cup (words \X words \X words)
SearchLines ==
    {<<"search">> \o w : w \in Words3({"q", "drive", "--tap", "html", "--limit", "1", "--limit=1", "--tap=html",
                                       "--table"})}
Oddities ==
    {<<"serve">>, <<"index">>, <<"index", "native">>, <<"index_size", "m", "m">>, <<"search">>,
     <<"search", "q", "--tap=x">>, <<"search", "q", "--tap=text">>, <<"search", "q", "--limit=x">>,
     <<"search", "empty", "q">>, <<"scan", "empty">>, <<"index", "drive", "vault">>,
     <<"index_size", "vault">>, <<"scan">>, <<"search", "vault", "">>, <<"search", "drive", "">>}
Usual ==
    {<<"index", "drive">>, <<"index", "drive", "m/s">>, <<"scan", "m">>, <<"scan", "m/.tmp">>, <<"search", "q">>,
     <<"search", "drive", "q">>}
AtLast == {<<"index", "drive">>, <<"search", "q">>, <<"search", "drive", "q">>, <<"search", "vault", "q">>}

\* The oddities come first, when there is little else.
Sessions == <<SearchLines \cup Oddities \cup Usual, Usual, AtLast>>
=============================================================================
