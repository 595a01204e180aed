--------------------------- MODULE MCManifestText ---------------------------
(***************************************************************************)
(* Small directories and edits for ManifestText.                           *)
(***************************************************************************)
EXTENDS ManifestText

Name1 == <<"a", "quote">>
Name2 == <<"n">>

Metadata(modified, title) ==
    [type |-> <<"t">>, size |-> 5, modified_ns |-> modified, fingerprint |-> <<"p">>, title |-> title]

Directories ==
    {Name1 :> (Metadata(5, <<"backslash", "n">>) @@ "created_ns" :> -5)
       @@ Name2 :> (Metadata(6, <<"n", "newline">>) @@ "crumb.terms" :> <<"bar">>),
     Name2 :> (Metadata(-5, <<"quote", "backslash", "n">>) @@ "inode" :> 7 @@ "device" :> 1)}

Characters ==
    {"a", "n", "t", "u", "p", "x", "bar", "now", "quote", "backslash", "newline", "-"} \cup Range(Digits)
Identifiers == {<<"u">>}
Fingerprints == {<<"p">>}

Lines ==
    {[kind |-> "section", key |-> "files", value |-> <<"n">>],
     [kind |-> "section", key |-> "files", value |-> <<"a">>],
     [kind |-> "section", key |-> "other", value |-> <<>>],
     [kind |-> "section", key |-> "", value |-> <<>>],
     [kind |-> "pair", key |-> "note", value |-> <<"quote", "x", "quote">>],
     [kind |-> "pair", key |-> "size", value |-> <<"quote", "7", "quote">>],
     [kind |-> "pair", key |-> "created_ns", value |-> <<"x">>],
     [kind |-> "other", key |-> "", value |-> <<>>]}
=============================================================================
