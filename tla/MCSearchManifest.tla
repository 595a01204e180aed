-------------------------- MODULE MCSearchManifest --------------------------
(***************************************************************************)
(* Small libraries and queries for SearchManifest.                         *)
(***************************************************************************)
EXTENDS SearchManifest

Vocabulary == {"docs", "document", "tax", "taxes", "id"}

\* 1000 * log((n + 1) / m), rounded down.
Logarithms == <<<<693, 0, 0>>, <<1098, 405, 0>>, <<1386, 693, 287>>>>

Described(name, id, url, created, modified, words) ==
    [dir |-> 1, name |-> name, id |-> id, url |-> url, created |-> created,
     modified |-> modified, fields |-> words]

Shelves ==
    {<<>>,
     \* Ties that only the dates break.
     <<Described(1, 11, None, None, 5, <<{"tax"}, {"id"}>>),
       Described(2, 12, 7, None, 6, <<{"tax"}, {"id"}>>),
       Described(3, 13, None, -2, None, <<{"tax"}, {"id"}>>)>>,
     \* One word often against several words once, and a word all hold.
     <<Described(1, 11, None, 3, 5, <<{"taxes", "id"}, {"taxes"}, {"taxes"}, {"taxes"}>>),
       Described(2, 12, None, 3, 5, <<{"tax", "id"}, {"docs"}>>)>>,
     \* Words that are found by others only.
     <<Described(1, 11, 7, 4, None, <<{"document"}, {"id", "taxes"}>>),
       Described(2, 12, None, 4, None, <<{"docs", "taxes"}, {"docs"}>>)>>}

Asked ==
    {{}, {"tax"}, {"id"}, {"docs"}, {"tax", "id"}, {"tax", "docs"}, {"tax", "taxes", "docs"},
     {"document", "taxes", "id"}}
=============================================================================
