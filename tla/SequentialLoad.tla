---------------------------- MODULE SequentialLoad ----------------------------
(***************************************************************************)
(* What a caller of ManifestRepository::load_many is promised: the default *)
(* implementation of the port, which loads the directories one after the   *)
(* other and stops at the first one that cannot be loaded.                 *)
(***************************************************************************)
EXTENDS Integers, Sequences

CONSTANTS
    N,          \* how many directories are asked for
    Manifests,  \* what loading a directory can give (a missing manifest is one)
    Errors      \* what can go wrong

VARIABLES
    answer,  \* what loading each directory yields
    batch,   \* the result being built
    reply    \* "none" while the call runs, then "batch" or the error

vars == <<answer, batch, reply>>

Init ==
    /\ answer \in [1 .. N -> Manifests \cup Errors]
    /\ batch = <<>>
    /\ reply = "none"

LoadNext ==
    /\ reply = "none" /\ Len(batch) < N
    /\ IF answer[Len(batch) + 1] \in Errors
       THEN reply' = answer[Len(batch) + 1] /\ UNCHANGED batch
       ELSE batch' = Append(batch, answer[Len(batch) + 1]) /\ UNCHANGED reply
    /\ UNCHANGED answer

Reply ==
    /\ reply = "none" /\ Len(batch) = N
    /\ reply' = "batch"
    /\ UNCHANGED <<answer, batch>>

Next == LoadNext \/ Reply

Spec == Init /\ [][Next]_vars
=============================================================================
