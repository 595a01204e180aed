------------------------------ MODULE BatchLoad ------------------------------
(***************************************************************************)
(* TomlManifestRepository::load_many: worker threads claim directories from *)
(* an atomic counter and put what they loaded into one slot each; the       *)
(* calling thread joins them and reads the slots in order.  The workers use *)
(* the caller's stack variables by reference.                               *)
(***************************************************************************)
EXTENDS Integers, Sequences, FiniteSets

CONSTANTS
    N,          \* directories.size()
    Threads,    \* std::thread::hardware_concurrency(), 0 when unknown
    Manifests,  \* what loading a directory can give (a missing manifest is one)
    Errors,     \* what can go wrong, a caught exception included
    Empty       \* a slot nobody has written

ASSUME NAssumption == N \in Nat
ASSUME ThreadsAssumption == Threads \in Nat
ASSUME AnswersAssumption ==
    /\ Manifests \cap Errors = {}
    /\ Empty \notin Manifests \cup Errors
    /\ {"none", "batch", "unanswered"} \cap Errors = {}

VARIABLES
    answer,   \* what loading each directory yields
    next,     \* the atomic counter, from 1
    slots,    \* `loaded'
    phase,    \* where each worker stands
    index,    \* the index each worker has claimed
    main,     \* where the calling thread stands
    joined,   \* how many workers it has started, or joined
    batch,    \* `result'
    reply     \* what load_many returned

workers == <<next, slots, phase, index>>
vars    == <<answer, workers, main, joined, batch, reply>>

Larger(a, b)  == IF a > b THEN a ELSE b
Smaller(a, b) == IF a < b THEN a ELSE b
WorkerCount   == Smaller(N, Larger(1, Threads))
Workers       == 1 .. WorkerCount

Answers == Manifests \cup Errors

WorkType ==
    /\ answer \in [1 .. N -> Answers]
    /\ next \in Nat \ {0}
    /\ slots \in [1 .. N -> Answers \cup {Empty}]

WorkerType ==
    /\ phase \in [Workers -> {"unborn", "claim", "load", "write", "done"}]
    /\ index \in [Workers -> 0 .. N]

CallerType ==
    /\ main \in {"spawn", "join", "collect", "returned", "terminated"}
    /\ joined \in 0 .. WorkerCount
    /\ batch \in Seq(Manifests) /\ Len(batch) <= N
    /\ reply \in {"none", "batch", "unanswered"} \cup Errors

TypeOK == WorkType /\ WorkerType /\ CallerType

Init ==
    /\ answer \in [1 .. N -> Answers]
    /\ next = 1 /\ slots = [i \in 1 .. N |-> Empty]
    /\ phase = [w \in Workers |-> "unborn"] /\ index = [w \in Workers |-> 0]
    /\ main = "spawn" /\ joined = 0
    /\ batch = <<>> /\ reply = "none"

-----------------------------------------------------------------------------
(***************************************************************************)
(* A worker.                                                               *)
(***************************************************************************)

\* Variants: the counter is read and then written back; the end test is off by one,
\* either way.
ClaimUnlocked(w) ==
    /\ phase[w] = "claim"
    /\ next' \in {next, next + 1}
    /\ IF next > N
       THEN phase' = [phase EXCEPT ![w] = "done"] /\ UNCHANGED index
       ELSE /\ phase' = [phase EXCEPT ![w] = "load"]
            /\ index' = [index EXCEPT ![w] = next]
    /\ UNCHANGED <<answer, slots, main, joined, batch, reply>>

ClaimShort(w) ==
    /\ phase[w] = "claim"
    /\ next' = next + 1
    /\ IF next >= N
       THEN phase' = [phase EXCEPT ![w] = "done"] /\ UNCHANGED index
       ELSE /\ phase' = [phase EXCEPT ![w] = "load"]
            /\ index' = [index EXCEPT ![w] = next]
    /\ UNCHANGED <<answer, slots, main, joined, batch, reply>>

\* fetch_add hands out an index once; past the end the worker returns.
Claim(w) ==
    /\ phase[w] = "claim"
    /\ next' = next + 1
    /\ IF next > N
       THEN phase' = [phase EXCEPT ![w] = "done"] /\ UNCHANGED index
       ELSE /\ phase' = [phase EXCEPT ![w] = "load"]
            /\ index' = [index EXCEPT ![w] = next]
    /\ UNCHANGED <<answer, slots, main, joined, batch, reply>>

\* The load has returned, or thrown; the slot is about to be assigned.
LoadOne(w) ==
    /\ phase[w] = "load"
    /\ phase' = [phase EXCEPT ![w] = "write"]
    /\ UNCHANGED <<answer, next, slots, index, main, joined, batch, reply>>

\* Variant: results are kept in the order in which they arrive.
WriteNextSlot(w) ==
    /\ phase[w] = "write"
    /\ LET free == {i \in 1 .. N : slots[i] = Empty}
       IN  slots' = [i \in 1 .. N |-> IF i \in free /\ \A j \in free : i <= j
                                      THEN answer[index[w]] ELSE slots[i]]
    /\ phase' = [phase EXCEPT ![w] = "claim"]
    /\ UNCHANGED <<answer, next, index, main, joined, batch, reply>>

WriteSlot(w) ==
    /\ phase[w] = "write"
    /\ slots' = [slots EXCEPT ![index[w]] = answer[index[w]]]
    /\ phase' = [phase EXCEPT ![w] = "claim"]
    /\ UNCHANGED <<answer, next, index, main, joined, batch, reply>>

Work(w) == main # "terminated" /\ (Claim(w) \/ LoadOne(w) \/ WriteSlot(w))

-----------------------------------------------------------------------------
(***************************************************************************)
(* The calling thread.                                                     *)
(***************************************************************************)

\* Variant: one worker fewer is started than is joined.
SpawnOneShort ==
    /\ main = "spawn"
    /\ IF joined + 1 < WorkerCount
       THEN /\ phase' = [phase EXCEPT ![joined + 1] = "claim"]
            /\ joined' = joined + 1 /\ UNCHANGED main
       ELSE main' = "join" /\ joined' = 0 /\ UNCHANGED phase
    /\ UNCHANGED <<answer, next, slots, index, batch, reply>>

Spawn ==
    /\ main = "spawn"
    /\ IF joined < WorkerCount
       THEN /\ phase' = [phase EXCEPT ![joined + 1] = "claim"]
            /\ joined' = joined + 1 /\ UNCHANGED main
       ELSE main' = "join" /\ joined' = 0 /\ UNCHANGED phase
    /\ UNCHANGED <<answer, next, slots, index, batch, reply>>

\* The thread cannot be created: the joinable ones are destroyed and the process ends.
SpawnFails ==
    /\ main = "spawn" /\ joined < WorkerCount
    /\ main' = "terminated"
    /\ UNCHANGED <<answer, workers, joined, batch, reply>>

\* Variant: the threads are detached instead.
JoinNobody ==
    /\ main = "join"
    /\ main' = "collect"
    /\ UNCHANGED <<answer, workers, joined, batch, reply>>

Join ==
    /\ main = "join"
    /\ IF joined < WorkerCount
       THEN phase[joined + 1] = "done" /\ joined' = joined + 1 /\ UNCHANGED main
       ELSE main' = "collect" /\ UNCHANGED joined
    /\ UNCHANGED <<answer, workers, batch, reply>>

CollectOne ==
    /\ main = "collect" /\ Len(batch) < N
    /\ LET slot == slots[Len(batch) + 1]
       IN  IF slot \in Manifests
           THEN batch' = Append(batch, slot) /\ UNCHANGED <<main, reply>>
           ELSE /\ reply' = IF slot = Empty THEN "unanswered" ELSE slot
                /\ main' = "returned" /\ UNCHANGED batch
    /\ UNCHANGED <<answer, workers, joined>>

CollectAll ==
    /\ main = "collect" /\ Len(batch) = N
    /\ reply' = "batch" /\ main' = "returned"
    /\ UNCHANGED <<answer, workers, joined, batch>>

Collect == CollectOne \/ CollectAll

Next ==
    \/ \E w \in Workers : Work(w)
    \/ Spawn \/ SpawnFails \/ Join \/ Collect

\* The operating system schedules every runnable thread, so each worker, and the
\* calling thread, takes the step it can take.  Nothing makes thread creation fail.
Spec ==
    /\ Init /\ [][Next]_vars
    /\ \A w \in Workers : WF_vars(Work(w))
    /\ WF_vars(Spawn \/ Join \/ Collect)

-----------------------------------------------------------------------------
(***************************************************************************)
(* Properties.                                                             *)
(***************************************************************************)

\* No data race on a slot: two workers never assign the same one, and the calling
\* thread reads slots only when nobody assigns any.
SlotsRaceFree ==
    /\ \A v, w \in Workers :
          phase[v] = "write" /\ phase[w] = "write" /\ index[v] = index[w] => v = w
    /\ main \in {"collect", "returned"} => \A w \in Workers : phase[w] # "write"

\* The workers hold references to the caller's locals: when it leaves the join loop
\* every one of them is over.
NoWorkerOutlivesTheCall ==
    main \in {"collect", "returned"} => \A w \in Workers : phase[w] = "done"

\* The error `manifest worker did not return a result' cannot happen: a directory that
\* no slot answers for is still to be claimed, or in the hands of a worker.
EverySlotAnswered ==
    /\ reply # "unanswered"
    /\ \A i \in 1 .. N : slots[i] = answer[i] \/ i >= next
                         \/ \E w \in Workers : phase[w] \in {"load", "write"} /\ index[w] = i

\* The call ends, in a reply or, when a thread cannot be created, with the process.
CallEnds == <>(main \in {"returned", "terminated"})

\* The promise of the port, kept whatever the interleaving of the workers.
Sequential == INSTANCE SequentialLoad
ImplementsSequentialLoad == Sequential!Init /\ [][Sequential!Next]_(Sequential!vars)

=============================================================================
