--------------------------- MODULE BatchLoadProofs ---------------------------
(***************************************************************************)
(* Theorems about BatchLoad, for any number of directories and threads:    *)
(* the slots are free of data races, no worker outlives the call, and the  *)
(* call implements the sequential loop of the port.                        *)
(***************************************************************************)
EXTENDS BatchLoad, TLAPS

Busy == {"load", "write"}

\* Each claimed index belongs to one busy worker and lies below the counter.
ClaimsInv ==
    /\ \A w \in Workers : phase[w] \in Busy => index[w] \in 1 .. N /\ index[w] < next
    /\ \A v, w \in Workers :
          phase[v] \in Busy /\ phase[w] \in Busy /\ index[v] = index[w] => v = w
    /\ \A w \in Workers : phase[w] = "done" => next > N

\* Where the workers stand while the calling thread starts and joins them.
JoinInv ==
    /\ main = "spawn" => \A w \in Workers : w > joined => phase[w] = "unborn"
    /\ main = "join" => \A w \in Workers : w <= joined => phase[w] = "done"
    /\ main \in {"collect", "returned"} => \A w \in Workers : phase[w] = "done"

\* A slot not yet answered for is to be claimed, or in somebody's hands.
SlotsInv ==
    \A i \in 1 .. N : slots[i] = answer[i] \/ i >= next
                      \/ \E w \in Workers : phase[w] \in Busy /\ index[w] = i

ReplyInv == main # "returned" => reply = "none"

Inv == TypeOK /\ ClaimsInv /\ JoinInv /\ SlotsInv /\ ReplyInv /\ reply # "unanswered"

\* The workers are numbered from 1, and there is one whenever there is a directory.
LEMMA WorkersNumbered ==
    WorkerCount \in Nat /\ WorkerCount <= N /\ (N > 0 => 1 \in Workers)
BY NAssumption, ThreadsAssumption DEF Workers, WorkerCount, Smaller, Larger

\* The invariant holds at the start.
LEMMA InitInv == Init => Inv
<1> SUFFICES ASSUME Init PROVE Inv
  OBVIOUS
<1>1. TypeOK
  BY NAssumption, WorkersNumbered DEF Init, TypeOK, WorkType, WorkerType, CallerType, Answers
<1>2. ClaimsInv /\ JoinInv
  BY DEF Init, ClaimsInv, JoinInv, Busy
<1>3. SlotsInv /\ ReplyInv
  BY NAssumption DEF Init, SlotsInv, ReplyInv
<1>4. reply # "unanswered"
  BY DEF Init
<1> QED BY <1>1, <1>2, <1>3, <1>4 DEF Inv

\* When the workers are over every slot holds what its directory yields.
LEMMA AllAnswered ==
    ASSUME Inv, main = "collect"
    PROVE  \A i \in 1 .. N : slots[i] = answer[i]
<1> SUFFICES ASSUME NEW i \in 1 .. N PROVE slots[i] = answer[i]
  OBVIOUS
<1>1. \A w \in Workers : phase[w] = "done"
  BY DEF Inv, JoinInv
<1>2. 1 \in Workers
  BY NAssumption, WorkersNumbered
<1>3. next > N
  BY <1>1, <1>2 DEF Inv, ClaimsInv
<1>4. ~(i >= next)
  BY <1>3, NAssumption DEF Inv, TypeOK, WorkType, WorkerType, CallerType, Answers
<1> QED BY <1>1, <1>4 DEF Inv, SlotsInv, Busy

\* The steps of a worker keep the invariant.
LEMMA WorkKeepsInv == ASSUME Inv, NEW w \in Workers, Work(w) PROVE Inv'
<1>0. /\ TypeOK /\ ClaimsInv /\ JoinInv /\ SlotsInv /\ ReplyInv /\ reply # "unanswered"
      /\ N \in Nat /\ next \in Nat
  BY NAssumption DEF Inv, TypeOK, WorkType
<1>1. CASE Claim(w) /\ next > N
  <2>1. /\ phase[w] = "claim" /\ phase' = [phase EXCEPT ![w] = "done"] /\ next' = next + 1
        /\ UNCHANGED <<answer, slots, index, main, joined, batch, reply>>
    BY <1>1 DEF Claim
  <2>2. TypeOK'
    BY <1>0, <2>1 DEF TypeOK, WorkType, WorkerType, CallerType, Answers
  <2>3. \A v \in Workers : phase'[v] = IF v = w THEN "done" ELSE phase[v]
    BY <1>0, <2>1 DEF TypeOK, WorkType, WorkerType, CallerType, Answers
  <2>4. ClaimsInv'
    BY <1>0, <1>1, <2>1, <2>3 DEF TypeOK, WorkType, WorkerType, CallerType, Answers, ClaimsInv, Busy
  <2>5. JoinInv'
    BY <1>0, <2>1, <2>3 DEF JoinInv
  <2>6. SlotsInv'
    BY <1>0, <1>1, <2>1, <2>3 DEF SlotsInv, Busy
  <2> QED BY <1>0, <2>1, <2>2, <2>4, <2>5, <2>6 DEF Inv, ReplyInv
<1>2. CASE Claim(w) /\ ~(next > N)
  <2>1. /\ phase[w] = "claim" /\ phase' = [phase EXCEPT ![w] = "load"] /\ next' = next + 1
        /\ index' = [index EXCEPT ![w] = next]
        /\ UNCHANGED <<answer, slots, main, joined, batch, reply>>
    BY <1>2 DEF Claim
  <2>2. next \in 1 .. N
    BY <1>0, <1>2 DEF TypeOK, WorkType, WorkerType, CallerType, Answers
  <2>3. TypeOK'
    BY <1>0, <2>1, <2>2 DEF TypeOK, WorkType, WorkerType, CallerType, Answers
  <2>4. \A v \in Workers : /\ phase'[v] = IF v = w THEN "load" ELSE phase[v]
                           /\ index'[v] = IF v = w THEN next ELSE index[v]
    BY <1>0, <2>1 DEF TypeOK, WorkType, WorkerType, CallerType, Answers
  <2>5. ClaimsInv'
    BY <1>0, <1>2, <2>1, <2>2, <2>4 DEF TypeOK, WorkType, WorkerType, CallerType, Answers, ClaimsInv, Busy
  <2>6. JoinInv'
    BY <1>0, <2>1, <2>4 DEF JoinInv
  <2>7. SlotsInv'
    BY <1>0, <1>2, <2>1, <2>4 DEF SlotsInv, Busy
  <2> QED BY <1>0, <2>1, <2>3, <2>5, <2>6, <2>7 DEF Inv, ReplyInv
<1>3. CASE LoadOne(w)
  <2>1. /\ phase[w] = "load" /\ phase' = [phase EXCEPT ![w] = "write"]
        /\ UNCHANGED <<answer, next, slots, index, main, joined, batch, reply>>
    BY <1>3 DEF LoadOne
  <2>2. TypeOK'
    BY <1>0, <2>1 DEF TypeOK, WorkType, WorkerType, CallerType, Answers
  <2>3. \A v \in Workers : phase'[v] = IF v = w THEN "write" ELSE phase[v]
    BY <1>0, <2>1 DEF TypeOK, WorkType, WorkerType, CallerType, Answers
  <2>4. ClaimsInv'
    BY <1>0, <2>1, <2>3 DEF ClaimsInv, Busy
  <2>5. JoinInv'
    BY <1>0, <2>1, <2>3 DEF JoinInv
  <2>6. SlotsInv'
    BY <1>0, <2>1, <2>3 DEF SlotsInv, Busy
  <2> QED BY <1>0, <2>1, <2>2, <2>4, <2>5, <2>6 DEF Inv, ReplyInv
<1>4. CASE WriteSlot(w)
  <2>1. /\ phase[w] = "write" /\ phase' = [phase EXCEPT ![w] = "claim"]
        /\ slots' = [slots EXCEPT ![index[w]] = answer[index[w]]]
        /\ UNCHANGED <<answer, next, index, main, joined, batch, reply>>
    BY <1>4 DEF WriteSlot
  <2>2. index[w] \in 1 .. N
    BY <1>0, <2>1 DEF ClaimsInv, Busy
  <2>3. TypeOK'
    BY <1>0, <2>1, <2>2 DEF TypeOK, WorkType, WorkerType, CallerType, Answers
  <2>4. \A v \in Workers : phase'[v] = IF v = w THEN "claim" ELSE phase[v]
    BY <1>0, <2>1 DEF TypeOK, WorkType, WorkerType, CallerType, Answers
  <2>5. \A i \in 1 .. N : slots'[i] = IF i = index[w] THEN answer[i] ELSE slots[i]
    BY <1>0, <2>1, <2>2 DEF TypeOK, WorkType, WorkerType, CallerType, Answers
  <2>6. ClaimsInv'
    BY <1>0, <2>1, <2>4 DEF ClaimsInv, Busy
  <2>7. JoinInv'
    BY <1>0, <2>1, <2>4 DEF JoinInv
  <2>8. SlotsInv'
    BY <1>0, <2>1, <2>4, <2>5 DEF SlotsInv, Busy
  <2> QED BY <1>0, <2>1, <2>3, <2>6, <2>7, <2>8 DEF Inv, ReplyInv
<1> QED BY <1>1, <1>2, <1>3, <1>4 DEF Work

\* The steps of the calling thread keep the invariant.
LEMMA MainKeepsInv ==
    ASSUME Inv, Spawn \/ SpawnFails \/ Join \/ Collect
    PROVE  Inv'
<1>0. /\ TypeOK /\ ClaimsInv /\ JoinInv /\ SlotsInv /\ ReplyInv /\ reply # "unanswered"
      /\ N \in Nat /\ WorkerCount \in Nat /\ joined \in 0 .. WorkerCount
  BY NAssumption, WorkersNumbered DEF Inv, TypeOK, WorkType, WorkerType, CallerType, Answers
<1>1. CASE Spawn /\ joined < WorkerCount
  <2>1. /\ main = "spawn" /\ phase' = [phase EXCEPT ![joined + 1] = "claim"]
        /\ joined' = joined + 1 /\ joined + 1 \in Workers
        /\ UNCHANGED <<answer, next, slots, index, main, batch, reply>>
    BY <1>0, <1>1 DEF Spawn, Workers
  <2>2. TypeOK'
    BY <1>0, <1>1, <2>1 DEF TypeOK, WorkType, WorkerType, CallerType, Answers
  <2>3. \A v \in Workers : phase'[v] = IF v = joined + 1 THEN "claim" ELSE phase[v]
    BY <1>0, <2>1 DEF TypeOK, WorkType, WorkerType, CallerType, Answers
  <2>4. phase[joined + 1] = "unborn"
    BY <1>0, <2>1 DEF JoinInv
  <2>5. ClaimsInv'
    BY <1>0, <2>1, <2>3 DEF ClaimsInv, Busy
  <2>6. JoinInv'
    BY <1>0, <2>1, <2>3 DEF JoinInv, Workers
  <2>7. SlotsInv'
    BY <1>0, <2>1, <2>3, <2>4 DEF SlotsInv, Busy
  <2> QED BY <1>0, <2>1, <2>2, <2>5, <2>6, <2>7 DEF Inv, ReplyInv
<1>2. CASE \/ Spawn /\ ~(joined < WorkerCount)
           \/ SpawnFails
           \/ Join /\ ~(joined < WorkerCount)
  <2>1. /\ UNCHANGED <<answer, workers, batch, reply>>
        /\ \/ main' = "join" /\ joined' = 0
           \/ main' = "terminated" /\ joined' = joined
           \/ main = "join" /\ main' = "collect" /\ joined' = joined /\ joined = WorkerCount
        /\ main # "returned"
    BY <1>0, <1>2 DEF Spawn, SpawnFails, Join, workers
  <2>2. TypeOK'
    BY <1>0, <2>1 DEF TypeOK, WorkType, WorkerType, CallerType, Answers, workers
  <2>3. JoinInv'
    BY <1>0, <2>1 DEF JoinInv, workers, Workers
  <2> QED BY <1>0, <2>1, <2>2, <2>3 DEF Inv, ClaimsInv, SlotsInv, ReplyInv, workers
<1>3. CASE Join /\ joined < WorkerCount
  <2>1. /\ main = "join" /\ phase[joined + 1] = "done" /\ joined' = joined + 1
        /\ UNCHANGED <<answer, workers, main, batch, reply>>
    BY <1>3 DEF Join
  <2>2. TypeOK'
    BY <1>0, <1>3, <2>1 DEF TypeOK, WorkType, WorkerType, CallerType, Answers, workers
  <2>3. JoinInv'
    BY <1>0, <2>1 DEF JoinInv, workers, Workers
  <2> QED BY <1>0, <2>1, <2>2, <2>3 DEF Inv, ClaimsInv, SlotsInv, ReplyInv, workers
<1>4. CASE CollectOne
  <2> DEFINE slot == slots[Len(batch) + 1]
  <2>1. /\ main = "collect" /\ UNCHANGED <<answer, workers, joined>>
        /\ Len(batch) \in Nat /\ Len(batch) + 1 \in 1 .. N /\ batch \in Seq(Manifests)
    BY <1>0, <1>4 DEF CollectOne, TypeOK, WorkType, WorkerType, CallerType, Answers
  <2>2. slot = answer[Len(batch) + 1] /\ slot \in Manifests \cup Errors
    BY <1>0, <2>1, AllAnswered DEF Inv, TypeOK, WorkType, WorkerType, CallerType, Answers
  <2> HIDE DEF slot
  <2>3. \/ /\ slot \in Manifests /\ batch' = Append(batch, slot)
           /\ UNCHANGED <<main, reply>>
        \/ /\ slot \in Errors /\ main' = "returned" /\ batch' = batch /\ reply' = slot
    BY <1>4, <2>2, AnswersAssumption DEF CollectOne, slot
  <2>4. batch' \in Seq(Manifests) /\ Len(batch') <= N
    <3>1. CASE batch' = batch
      BY <1>0, <2>1, <3>1 DEF TypeOK, CallerType
    <3>2. CASE slot \in Manifests /\ batch' = Append(batch, slot)
      <4>1. Len(batch') = Len(batch) + 1
        BY <2>1, <3>2
      <4> QED BY <1>0, <2>1, <3>2, <4>1
    <3> QED BY <2>3, <3>1, <3>2
  <2>5. TypeOK'
    BY <1>0, <2>1, <2>3, <2>4 DEF TypeOK, WorkType, WorkerType, CallerType, workers
  <2>6. JoinInv'
    BY <1>0, <2>1, <2>3 DEF JoinInv, workers
  <2>7. reply' # "unanswered" /\ ReplyInv'
    BY <1>0, <2>1, <2>3, AnswersAssumption DEF ReplyInv
  <2> QED BY <1>0, <2>1, <2>5, <2>6, <2>7 DEF Inv, ClaimsInv, SlotsInv, workers
<1>5. CASE CollectAll
  <2>1. /\ main = "collect" /\ main' = "returned" /\ reply' = "batch"
        /\ UNCHANGED <<answer, workers, joined, batch>>
    BY <1>5 DEF CollectAll
  <2> QED BY <1>0, <2>1 DEF Inv, TypeOK, WorkType, WorkerType, CallerType, Answers, ClaimsInv, JoinInv, SlotsInv, ReplyInv, workers
<1> QED BY <1>1, <1>2, <1>3, <1>4, <1>5 DEF Collect

\* Every step keeps the invariant.
LEMMA NextKeepsInv == Inv /\ [Next]_vars => Inv'
<1> SUFFICES ASSUME Inv, [Next]_vars PROVE Inv'
  OBVIOUS
<1>1. CASE UNCHANGED vars
  BY <1>1 DEF Inv, TypeOK, WorkType, WorkerType, CallerType, Answers, ClaimsInv, JoinInv, SlotsInv, ReplyInv, vars, workers
<1> QED BY <1>1, WorkKeepsInv, MainKeepsInv DEF Next

\* The invariant holds throughout.
LEMMA Invariance == Spec => []Inv
BY InitInv, NextKeepsInv, PTL DEF Spec

\* Every reachable state is well typed: the counter stops one past the last index for
\* each worker, and a claimed index is one of a directory.
THEOREM TypeCorrect == Spec => []TypeOK
<1>1. Inv => TypeOK
  BY DEF Inv
<1> QED BY <1>1, Invariance, PTL

\* No two threads ever touch the same slot at the same time.
THEOREM SlotsAreRaceFree == Spec => []SlotsRaceFree
<1>1. Inv => SlotsRaceFree
  BY DEF Inv, ClaimsInv, JoinInv, SlotsRaceFree, Busy
<1> QED BY <1>1, Invariance, PTL

\* Once the calling thread is past the join loop no worker can use its locals.
THEOREM WorkersEndFirst == Spec => []NoWorkerOutlivesTheCall
<1>1. Inv => NoWorkerOutlivesTheCall
  BY DEF Inv, JoinInv, NoWorkerOutlivesTheCall
<1> QED BY <1>1, Invariance, PTL

\* `manifest worker did not return a result' is dead code.
THEOREM EverySlotIsAnswered == Spec => []EverySlotAnswered
<1>1. Inv => EverySlotAnswered
  BY DEF Inv, SlotsInv, EverySlotAnswered, Busy
<1> QED BY <1>1, Invariance, PTL

\* Whatever the interleaving, load_many answers as the sequential loop does: all the
\* manifests in the order asked for, or the error of the first directory that has one.
THEOREM ThreadsImplementTheLoop == Spec => ImplementsSequentialLoad
<1>1. Init => Sequential!Init
  BY DEF Init, Answers, Sequential!Init
<1>2. Inv /\ [Next]_vars => [Sequential!Next]_(Sequential!vars)
  <2> SUFFICES ASSUME Inv, [Next]_vars PROVE [Sequential!Next]_(Sequential!vars)
    OBVIOUS
  <2>1. ASSUME UNCHANGED <<answer, batch, reply>>
        PROVE  [Sequential!Next]_(Sequential!vars)
    BY <2>1 DEF Sequential!vars
  <2>2. CASE \/ UNCHANGED vars \/ Spawn \/ SpawnFails \/ Join
             \/ \E w \in Workers : Work(w)
    BY <2>1, <2>2
       DEF vars, Spawn, SpawnFails, Join, Work, Claim, LoadOne, WriteSlot
  <2>3. CASE CollectOne
    <3>1. /\ main = "collect" /\ reply = "none" /\ UNCHANGED answer
          /\ Len(batch) < N /\ Len(batch) + 1 \in 1 .. N
      BY <2>3, NAssumption DEF CollectOne, Inv, ReplyInv, TypeOK, WorkType, WorkerType, CallerType, Answers
    <3>2. /\ slots[Len(batch) + 1] = answer[Len(batch) + 1]
          /\ answer[Len(batch) + 1] \in Manifests \cup Errors
      BY <3>1, AllAnswered DEF Inv, TypeOK, WorkType, WorkerType, CallerType, Answers
    <3>3. IF answer[Len(batch) + 1] \in Errors
          THEN reply' = answer[Len(batch) + 1] /\ UNCHANGED batch
          ELSE batch' = Append(batch, answer[Len(batch) + 1]) /\ UNCHANGED reply
      BY <2>3, <3>2, AnswersAssumption DEF CollectOne
    <3> QED BY <3>1, <3>3 DEF Sequential!Next, Sequential!LoadNext
  <2>4. CASE CollectAll
    BY <2>4 DEF CollectAll, Inv, ReplyInv, Sequential!Next, Sequential!Reply
  <2> QED BY <2>2, <2>3, <2>4 DEF Next, Collect
<1> QED BY <1>1, <1>2, Invariance, PTL DEF Spec, ImplementsSequentialLoad

=============================================================================
