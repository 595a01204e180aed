------------------------------ MODULE AtomicFile ------------------------------
(***************************************************************************)
(* What the readers of a `.crumb' or `.crumb.index' file rely on: the file *)
(* is replaced as a whole, and a reader gets the document that was there   *)
(* when it opened the file.                                                *)
(***************************************************************************)
CONSTANTS
    Readers,
    Documents,  \* the documents that are ever saved
    Nothing     \* no document: no file yet, or a reader that has none

VARIABLES
    value,    \* the document in the file
    opened,   \* per reader, the document it has opened
    outcome   \* per reader, the document it last got

vars == <<value, opened, outcome>>

Init ==
    /\ value = Nothing
    /\ opened = [r \in Readers |-> Nothing]
    /\ outcome = [r \in Readers |-> Nothing]

Replace(d) == value' = d /\ UNCHANGED <<opened, outcome>>

Begin(r) ==
    /\ value # Nothing /\ opened[r] = Nothing
    /\ opened' = [opened EXCEPT ![r] = value]
    /\ UNCHANGED <<value, outcome>>

End(r) ==
    /\ opened[r] # Nothing
    /\ outcome' = [outcome EXCEPT ![r] = opened[r]]
    /\ opened' = [opened EXCEPT ![r] = Nothing]
    /\ UNCHANGED value

Next ==
    \/ \E d \in Documents : Replace(d)
    \/ \E r \in Readers : Begin(r) \/ End(r)

Spec == Init /\ [][Next]_vars
=============================================================================
