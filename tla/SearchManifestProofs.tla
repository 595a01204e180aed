------------------------ MODULE SearchManifestProofs -----------------------
(***************************************************************************)
(* What a ranking promises, for every index, query, limit and weights, and *)
(* what the index file promises of it, for every library and whatever has  *)
(* become of the file.                                                     *)
(***************************************************************************)
EXTENDS SearchManifest, FiniteSetTheorems, WellFoundedInduction, TLAPS

\* The words looked at so far.
Seen == query \ todo

\* `matched_words' counts the words seen that find the document.
CountsWords ==
    \A d \in Docs : matched[d] = Cardinality({w \in Seen : d \in Found(w)})

\* Terms whose postings are still to be added belong to a word seen.
PendingSeen ==
    \A t \in terms : \A d \in Docs : Holds(d, t) => \E w \in Seen : d \in Found(w)

\* A document has a score, or will have one when the word is done, exactly when a
\* word seen finds it.
ScoresFound ==
    \A d \in Docs :
        /\ score[d] > 0 => \E w \in Seen : d \in Found(w)
        /\ (\E w \in Seen : d \in Found(w)) =>
               score[d] > 0 \/ (weight > 0 /\ \E t \in terms : Holds(d, t))

Progress ==
    /\ pc = "idle" => Seen = {}
    /\ pc \in {"idle", "words"} => matches = <<>>
    /\ pc \in {"sorted", "done"} => todo = {} /\ terms = {}
    /\ pc # "idle" => query # {}
    /\ ~all => HoldAll = {}

Scoring == CountsWords /\ PendingSeen /\ ScoresFound

IInv == RankingTypeOK /\ Progress /\ Scoring /\ CoverageFirst /\ EveryMatchRanked
-----------------------------------------------------------------------------
(* Facts about an index and a query.                                       *)

LEMMA DocsFacts ==
    ASSUME IsIndex(index)
    PROVE  /\ Len(index.docs) \in 0..MaxDocs
           /\ Docs = 1..Len(index.docs)
           /\ IsFiniteSet(Docs) /\ Cardinality(Docs) = Len(index.docs)
           /\ index.docs \in Seq(Document)
           /\ index.count \in [Words -> [Docs -> Nat]]
<1>1. index.docs \in Seq(Document) /\ Len(index.docs) <= MaxDocs
  BY DEF IsIndex
<1>2. Len(index.docs) \in Nat /\ DOMAIN index.docs = 1..Len(index.docs)
  BY <1>1
<1>3. Len(index.docs) \in 0..MaxDocs
  BY <1>1, <1>2, WeightAssumption
<1>4. IsFiniteSet(Docs) /\ Cardinality(Docs) = Len(index.docs)
  BY <1>2, FS_Interval DEF Docs
<1>5. index.count \in [Words -> [Docs -> Nat]]
  BY DEF IsIndex, Docs
<1> QED
  BY <1>1, <1>2, <1>3, <1>4, <1>5 DEF Docs

\* The weight of a word that some document holds is positive, also when all do.
LEMMA WeightPositive ==
    ASSUME IsIndex(index), NEW w, Found(w) # {}
    PROVE  Weight[Len(index.docs)][Cardinality(Found(w))] \in Nat \ {0}
<1>1. Found(w) \subseteq Docs
  BY DEF Found
<1>2. /\ IsFiniteSet(Found(w)) /\ Cardinality(Found(w)) <= Len(index.docs)
      /\ Cardinality(Found(w)) \in Nat
  BY <1>1, DocsFacts, FS_Subset, FS_CardinalityType
<1>3. Cardinality(Found(w)) # 0
  BY <1>2, FS_EmptySet
<1>4. Cardinality(Found(w)) \in 1..Len(index.docs)
  BY <1>2, <1>3, DocsFacts
<1>5. Len(index.docs) \in 1..MaxDocs /\ Cardinality(Found(w)) \in 1..MaxDocs
  <2>1. Len(index.docs) \in 0..MaxDocs /\ MaxDocs \in Nat
    BY DocsFacts, WeightAssumption
  <2> QED BY <1>4, <2>1
<1>6. Weight[Len(index.docs)][Cardinality(Found(w))] > 0
  BY <1>4, <1>5, WeightAssumption
<1>7. Weight[Len(index.docs)] \in [1..MaxDocs -> Nat]
  BY <1>5, WeightAssumption
<1>8. Weight[Len(index.docs)][Cardinality(Found(w))] \in Nat
  BY <1>5, <1>7
<1> QED
  BY <1>6, <1>8

\* What an index finds changes only with the index.
LEMMA FoundStable ==
    ASSUME index' = index
    PROVE  /\ Docs' = Docs
           /\ \A t, d : Holds(d, t)' = Holds(d, t)
           /\ \A w : Found(w)' = Found(w)
<1>1. Docs' = Docs
  BY DEF Docs
<1>2. ASSUME NEW t, NEW d PROVE Holds(d, t)' = Holds(d, t)
  BY DEF Holds
<1>3. Terms' = Terms
  BY <1>1, <1>2 DEF Terms
<1>4. ASSUME NEW w PROVE Matching(w)' = Matching(w)
  BY <1>3 DEF Matching
<1>5. ASSUME NEW w PROVE Found(w)' = Found(w)
  BY <1>1, <1>2, <1>4 DEF Found
<1> QED
  BY <1>1, <1>2, <1>5

LEMMA QueryFinite ==
    ASSUME query \subseteq Words
    PROVE  /\ IsFiniteSet(query) /\ Cardinality(query) \in Nat
           /\ \A Q \in SUBSET query :
                 IsFiniteSet(Q) /\ Cardinality(Q) \in Nat
                 /\ (Cardinality(Q) = Cardinality(query) <=> Q = query)
<1>1. IsFiniteSet(query)
  BY WordsAssumption, FS_Subset
<1>2. ASSUME NEW Q \in SUBSET query
      PROVE  IsFiniteSet(Q) /\ (Cardinality(Q) = Cardinality(query) <=> Q = query)
  BY <1>1, FS_Subset
<1> QED
  BY <1>1, <1>2, FS_CardinalityType
-----------------------------------------------------------------------------
(* The steps of a pass.                                                    *)

LEMMA InitInv == RankingInit => IInv
<1> SUFFICES ASSUME RankingInit PROVE IInv
  OBVIOUS
<1> USE DEF RankingInit, NoIndex
<1>1. Docs = {} /\ Seen = {}
  BY DEF Docs, Seen
<1>2. IsIndex(index)
  BY WeightAssumption DEF IsIndex
<1>3. RankingTypeOK
  BY <1>1, <1>2 DEF RankingTypeOK
<1>4. Progress
  BY <1>1 DEF Progress
<1>5. Scoring
  BY <1>1 DEF Scoring, CountsWords, PendingSeen, ScoresFound
<1>6. CoverageFirst /\ EveryMatchRanked
  BY DEF CoverageFirst, EveryMatchRanked
<1> QED
  BY <1>3, <1>4, <1>5, <1>6 DEF IInv

\* A pass that begins has scored nothing.
LEMMA RestartInv ==
    ASSUME NEW requireAll \in BOOLEAN, Restart(requireAll),
           IsIndex(index'), query' \subseteq Words, query' # {}, limit' \in Nat,
           matches = <<>>, ~requireAll => HoldAll' = {}
    PROVE  IInv'
<1>1. Seen' = {} /\ matches' = <<>> /\ pc' = "words"
  BY DEF Restart, Seen
<1>2. score' = [d \in Docs' |-> 0] /\ matched' = [d \in Docs' |-> 0] /\ terms' = {}
  BY DEF Restart, Docs
<1>3. RankingTypeOK'
  BY <1>1, <1>2 DEF RankingTypeOK, Restart
<1>4. Progress'
  BY <1>1 DEF Progress, Restart
<1>5. CountsWords'
  <2> SUFFICES ASSUME NEW d \in Docs' PROVE matched'[d] = Cardinality({w \in Seen' : d \in Found(w)'})
    BY DEF CountsWords
  <2>1. {w \in Seen' : d \in Found(w)'} = {}
    BY <1>1
  <2> QED
    BY <1>2, <2>1, FS_EmptySet
<1>6. PendingSeen' /\ ScoresFound'
  BY <1>1, <1>2 DEF PendingSeen, ScoresFound
<1>7. CoverageFirst' /\ EveryMatchRanked'
  BY <1>1 DEF CoverageFirst, EveryMatchRanked
<1> QED
  BY <1>3, <1>4, <1>5, <1>6, <1>7 DEF IInv, Scoring

LEMMA BeginInv == IInv /\ Begin => IInv'
<1> SUFFICES ASSUME IInv, Begin PROVE IInv'
  OBVIOUS
<1>1. matches = <<>>
  BY DEF IInv, Progress, Begin
<1>2. query' \subseteq Words /\ query' # {} /\ limit' \in Nat /\ IsIndex(index') /\ Restart(TRUE)
  BY DEF Begin
<1> QED
  BY <1>1, <1>2, RestartInv

LEMMA RelaxInv == IInv /\ Relax => IInv'
<1> SUFFICES ASSUME IInv, Relax PROVE IInv'
  OBVIOUS
<1>1. /\ index' = index /\ query' = query /\ limit' = limit
      /\ Scored /\ Fruitless /\ Restart(FALSE)
  BY DEF Relax
<1>2. /\ IsIndex(index) /\ query \subseteq Words /\ query # {} /\ limit \in Nat
      /\ matches = <<>> /\ Seen = query
  BY <1>1 DEF IInv, RankingTypeOK, Progress, Scored, Seen
<1>3. HoldAll = {}
  <2> SUFFICES ASSUME NEW d \in HoldAll PROVE d \in Hits
    BY <1>1 DEF Fruitless
  <2>1. d \in Docs /\ \A w \in query : d \in Found(w)
    BY DEF HoldAll
  <2>2. score[d] > 0
    BY <1>1, <1>2, <2>1 DEF IInv, Scoring, ScoresFound, Scored
  <2>3. {w \in query : d \in Found(w)} = query
    BY <2>1
  <2>4. matched[d] = Cardinality(query)
    BY <1>2, <2>1, <2>3 DEF IInv, Scoring, CountsWords
  <2> QED
    BY <2>1, <2>2, <2>4 DEF Hits
<1>4. HoldAll' = HoldAll
  BY <1>1, FoundStable DEF HoldAll
<1> QED
  BY <1>1, <1>2, <1>3, <1>4, RestartInv

LEMMA NextWordInv == IInv /\ NextWord => IInv'
<1> SUFFICES ASSUME IInv, NextWord PROVE IInv'
  OBVIOUS
<1>1. /\ pc = "words" /\ terms = {} /\ pc' = pc /\ index' = index /\ query' = query
      /\ limit' = limit /\ all' = all /\ score' = score /\ matches' = matches
  BY DEF NextWord
<1>2. PICK w \in todo :
        /\ todo' = todo \ {w}
        /\ terms' = Matching(w)
        /\ weight' = IF Found(w) = {} THEN 0
                     ELSE Weight[Len(index.docs)][Cardinality(Found(w))]
        /\ matched' = [d \in Docs |-> IF d \in Found(w) THEN matched[d] + 1 ELSE matched[d]]
  BY DEF NextWord
<1>3. /\ IsIndex(index) /\ query \subseteq Words /\ todo \subseteq query
      /\ score \in [Docs -> Nat] /\ matched \in [Docs -> Nat] /\ matches = <<>>
  BY <1>1 DEF IInv, RankingTypeOK, Progress
<1>4. Seen' = Seen \cup {w} /\ w \notin Seen /\ w \in query /\ Seen \subseteq query
  BY <1>1, <1>2, <1>3 DEF Seen
<1>5. /\ Docs' = Docs /\ \A t, d : Holds(d, t)' = Holds(d, t)
      /\ \A v : Found(v)' = Found(v)
  BY <1>1, FoundStable
<1>6. weight' \in Nat /\ (Found(w) # {} => weight' > 0)
  BY <1>2, <1>3, WeightPositive
<1>7. terms' \subseteq Words
  <2>1. Terms \subseteq Words
    BY DEF Terms
  <2> QED
    BY <1>2, <2>1 DEF Matching
<1>8. \A d \in Docs : d \in Found(w) <=> \E t \in terms' : Holds(d, t)
  BY <1>2 DEF Found
<1>9. matched' \in [Docs -> Nat]
  BY <1>2, <1>3
<1>10. RankingTypeOK'
  BY <1>1, <1>2, <1>3, <1>5, <1>6, <1>7, <1>9 DEF IInv, RankingTypeOK
<1>11. HoldAll' = HoldAll
  BY <1>1, <1>5 DEF HoldAll
<1>12. Progress'
  BY <1>1, <1>3, <1>11 DEF IInv, Progress
<1>13. CountsWords'
  <2> SUFFICES ASSUME NEW d \in Docs
               PROVE  matched'[d] = Cardinality({v \in Seen' : d \in Found(v)})
    BY <1>5 DEF CountsWords
  <2> DEFINE Before1 == {v \in Seen : d \in Found(v)}
  <2>1. matched[d] = Cardinality(Before1)
    BY DEF IInv, Scoring, CountsWords
  <2>2. CASE d \in Found(w)
    <3>1. {v \in Seen' : d \in Found(v)} = Before1 \cup {w} /\ w \notin Before1
      BY <1>4, <2>2
    <3>2. Before1 \subseteq query
      BY <1>4
    <3>3. IsFiniteSet(Before1)
      BY <1>3, <3>2, QueryFinite
    <3> HIDE DEF Before1
    <3>4. Cardinality(Before1 \cup {w}) = Cardinality(Before1) + 1
      BY <3>1, <3>3, FS_AddElement
    <3> QED
      BY <1>2, <2>1, <2>2, <3>1, <3>4
  <2>3. CASE d \notin Found(w)
    <3>1. {v \in Seen' : d \in Found(v)} = Before1
      BY <1>4, <2>3
    <3> QED
      BY <1>2, <2>1, <2>3, <3>1
  <2> QED
    BY <2>2, <2>3
<1>14. PendingSeen'
  BY <1>4, <1>5, <1>8 DEF PendingSeen
<1>15. ScoresFound'
  <2> SUFFICES ASSUME NEW d \in Docs
               PROVE  /\ score[d] > 0 => \E v \in Seen' : d \in Found(v)
                      /\ (\E v \in Seen' : d \in Found(v)) =>
                           score[d] > 0 \/ (weight' > 0 /\ \E t \in terms' : Holds(d, t))
    BY <1>1, <1>5 DEF ScoresFound
  <2>1. /\ score[d] > 0 => \E v \in Seen : d \in Found(v)
        /\ (\E v \in Seen : d \in Found(v)) => score[d] > 0
    BY <1>1 DEF IInv, Scoring, ScoresFound
  <2>2. d \in Found(w) => weight' > 0 /\ \E t \in terms' : Holds(d, t)
    BY <1>6, <1>8
  <2> QED
    BY <1>4, <2>1, <2>2
<1>16. CoverageFirst' /\ EveryMatchRanked'
  BY <1>1, <1>3 DEF CoverageFirst, EveryMatchRanked
<1> QED
  BY <1>10, <1>12, <1>13, <1>14, <1>15, <1>16 DEF IInv, Scoring

LEMMA AddPostingsInv == IInv /\ AddPostings => IInv'
<1> SUFFICES ASSUME IInv, AddPostings PROVE IInv'
  OBVIOUS
<1>1. /\ pc = "words" /\ pc' = pc /\ index' = index /\ query' = query /\ limit' = limit
      /\ all' = all /\ todo' = todo /\ weight' = weight /\ matched' = matched
      /\ matches' = matches /\ Seen' = Seen
  BY DEF AddPostings, Seen
<1>2. PICK t \in terms :
        /\ score' = [d \in Docs |-> score[d] + weight * index.count[t][d]]
        /\ terms' = terms \ {t}
  BY DEF AddPostings
<1>3. /\ IsIndex(index) /\ query \subseteq Words /\ todo \subseteq query /\ terms \subseteq Words
      /\ score \in [Docs -> Nat] /\ matched \in [Docs -> Nat] /\ matches = <<>> /\ weight \in Nat
  BY <1>1 DEF IInv, RankingTypeOK, Progress
<1>4. /\ Docs' = Docs /\ \A u, d : Holds(d, u)' = Holds(d, u)
      /\ \A v : Found(v)' = Found(v)
  BY <1>1, FoundStable
<1>5. \A d \in Docs : index.count[t][d] \in Nat
  BY <1>2, <1>3, DocsFacts
<1>6. ASSUME NEW d \in Docs
      PROVE  /\ score'[d] \in Nat
             /\ score[d] > 0 => score'[d] > 0
             /\ weight > 0 /\ Holds(d, t) => score'[d] > 0
             /\ score'[d] > 0 => score[d] > 0 \/ Holds(d, t)
  <2> DEFINE n == index.count[t][d]
  <2>1. score'[d] = score[d] + weight * n
    BY <1>2
  <2>2. n \in Nat /\ score[d] \in Nat
    BY <1>3, <1>5
  <2>3. weight * n \in Nat /\ (weight > 0 /\ n > 0 => weight * n > 0) /\ (n = 0 => weight * n = 0)
    <3> HIDE DEF n
    <3> QED
      BY <1>3, <2>2
  <2>4. Holds(d, t) <=> n > 0
    BY DEF Holds
  <2> HIDE DEF n
  <2> QED
    BY <2>1, <2>2, <2>3, <2>4
<1>7. score' \in [Docs -> Nat]
  BY <1>2, <1>6
<1>8. RankingTypeOK'
  BY <1>1, <1>2, <1>3, <1>4, <1>7 DEF IInv, RankingTypeOK
<1>9. HoldAll' = HoldAll
  BY <1>1, <1>4 DEF HoldAll
<1>10. Progress'
  BY <1>1, <1>3, <1>9 DEF IInv, Progress
<1>11. CountsWords'
  BY <1>1, <1>4 DEF IInv, Scoring, CountsWords
<1>12. PendingSeen'
  BY <1>1, <1>2, <1>4 DEF IInv, Scoring, PendingSeen
<1>13. ScoresFound'
  <2> SUFFICES ASSUME NEW d \in Docs
               PROVE  /\ score'[d] > 0 => \E v \in Seen : d \in Found(v)
                      /\ (\E v \in Seen : d \in Found(v)) =>
                           score'[d] > 0 \/ (weight > 0 /\ \E u \in terms' : Holds(d, u))
    BY <1>1, <1>4 DEF ScoresFound
  <2>1. /\ score[d] > 0 => \E v \in Seen : d \in Found(v)
        /\ (\E v \in Seen : d \in Found(v)) =>
             score[d] > 0 \/ (weight > 0 /\ \E u \in terms : Holds(d, u))
    BY DEF IInv, Scoring, ScoresFound
  <2>2. Holds(d, t) => \E v \in Seen : d \in Found(v)
    BY DEF IInv, Scoring, PendingSeen
  <2> QED
    BY <1>2, <1>6, <2>1, <2>2
<1>14. CoverageFirst' /\ EveryMatchRanked'
  BY <1>1, <1>3 DEF CoverageFirst, EveryMatchRanked
<1> QED
  BY <1>8, <1>10, <1>11, <1>12, <1>13, <1>14 DEF IInv, Scoring

\* One more word outweighs every relevance.
LEMMA StrideDominates ==
    ASSUME NEW stride \in Nat, NEW m \in Nat, NEW n \in Nat, NEW r \in Nat, NEW s \in Nat,
           r < stride, s < stride, m * stride + r >= n * stride + s
    PROVE  m > n \/ (m = n /\ r >= s)
<1>1. CASE m < n
  <2>1. PICK k \in Nat : n = m + 1 + k
    <3>1. n - m - 1 \in Nat /\ n = m + 1 + (n - m - 1)
      BY <1>1
    <3> QED
      BY <3>1
  <2>2. n * stride = m * stride + stride + k * stride /\ k * stride >= 0
    BY <2>1
  <2>3. m * stride \in Nat /\ k * stride \in Nat
    OBVIOUS
  <2> QED
    BY <2>2, <2>3
<1>2. CASE m = n
  BY <1>2
<1> QED
  BY <1>1, <1>2

\* When every word is counted, the hits are what the query asks for.
LEMMA HitsRight ==
    ASSUME IInv, Scored, ~Fruitless, pc = "words"
    PROVE  Hits = IF HoldAll # {} THEN HoldAll ELSE HoldSome
<1>1. /\ query \subseteq Words /\ query # {} /\ Seen = query /\ terms = {}
  BY DEF IInv, RankingTypeOK, Progress, Scored, Seen
<1>2. ASSUME NEW d \in Docs PROVE score[d] > 0 <=> d \in HoldSome
  BY <1>1 DEF IInv, Scoring, ScoresFound, HoldSome
<1>3. ASSUME NEW d \in Docs PROVE matched[d] = Cardinality(query) <=> d \in HoldAll
  <2>1. {w \in query : d \in Found(w)} \in SUBSET query
    OBVIOUS
  <2>2. matched[d] = Cardinality({w \in query : d \in Found(w)})
    BY <1>1 DEF IInv, Scoring, CountsWords
  <2>3. Cardinality({w \in query : d \in Found(w)}) = Cardinality(query)
          <=> {w \in query : d \in Found(w)} = query
    BY <1>1, <2>1, QueryFinite
  <2>4. {w \in query : d \in Found(w)} = query <=> \A w \in query : d \in Found(w)
    OBVIOUS
  <2> QED
    BY <2>2, <2>3, <2>4 DEF HoldAll
<1>4. HoldAll \subseteq HoldSome /\ HoldSome \subseteq Docs
  BY <1>1 DEF HoldAll, HoldSome
<1>5. Hits = IF all THEN HoldAll ELSE HoldSome
  <2>1. \A d \in Docs : d \in Hits <=> (d \in HoldSome /\ (all => d \in HoldAll))
    BY <1>2, <1>3 DEF Hits
  <2>2. Hits \subseteq Docs
    BY DEF Hits
  <2> QED
    BY <1>4, <2>1, <2>2
<1>6. CASE ~all
  BY <1>5, <1>6 DEF IInv, Progress
<1>7. CASE all /\ HoldAll # {}
  BY <1>5, <1>7
<1>8. CASE all /\ HoldAll = {}
  <2>1. Cardinality(query) \in Nat /\ ~(Cardinality(query) > 1) /\ IsFiniteSet(query)
    BY <1>1, <1>5, <1>8, QueryFinite DEF Fruitless
  <2>2. Cardinality(query) # 0
    BY <1>1, <2>1, FS_EmptySet
  <2>3. Cardinality(query) = 1
    BY <2>1, <2>2
  <2>4. PICK w : query = {w}
    BY <2>1, <2>3, FS_Singleton
  <2>5. HoldAll = HoldSome
    BY <2>4 DEF HoldAll, HoldSome
  <2> QED
    BY <1>5, <1>8, <2>5
<1> QED
  BY <1>6, <1>7, <1>8

LEMMA SortInv == IInv /\ Sort => IInv'
<1> SUFFICES ASSUME IInv, Sort PROVE IInv'
  OBVIOUS
<1>1. /\ Scored /\ ~Fruitless /\ pc = "words" /\ pc' = "sorted"
      /\ index' = index /\ query' = query /\ limit' = limit /\ all' = all /\ todo' = todo
      /\ terms' = terms /\ weight' = weight /\ score' = score /\ matched' = matched
      /\ todo = {} /\ terms = {} /\ Seen' = Seen
  BY DEF Sort, Scored, Seen
<1>2. PICK top \in {0} \cup {score[d] : d \in Docs} :
        /\ \A d \in Docs : score[d] <= top
        /\ \E order \in SetToSeqs(Hits) :
              /\ \A i, j \in DOMAIN order : i < j => ~Before(top + Unit, order[j], order[i])
              /\ matches' = order
  BY DEF Sort
<1>3. /\ matches' \in SetToSeqs(Hits)
      /\ \A i, j \in DOMAIN matches' : i < j => ~Before(top + Unit, matches'[j], matches'[i])
  BY <1>2
<1>4. /\ IsIndex(index) /\ query \subseteq Words
      /\ score \in [Docs -> Nat] /\ matched \in [Docs -> Nat]
  BY DEF IInv, RankingTypeOK
<1>5. top \in Nat /\ top + Unit \in Nat /\ \A d \in Docs : score[d] < top + Unit
  BY <1>2, <1>4, WeightAssumption
<1>6. Hits \subseteq Docs /\ IsFiniteSet(Hits) /\ Cardinality(Hits) \in Nat
  <2>1. Hits \subseteq Docs
    BY DEF Hits
  <2> QED
    BY <1>4, <2>1, DocsFacts, FS_Subset, FS_CardinalityType
<1>7. /\ matches' \in [1..Cardinality(Hits) -> Hits]
      /\ \A i, j \in 1..Cardinality(Hits) : i # j => matches'[i] # matches'[j]
  BY <1>3 DEF SetToSeqs
<1>8. IsInjective(matches')
  BY <1>7 DEF IsInjective
<1>9. Range(matches') = Hits
  <2>1. matches' \in Injection(1..Cardinality(Hits), Hits)
    BY <1>7, <1>8 DEF Injection
  <2>2. Cardinality(1..Cardinality(Hits)) = Cardinality(Hits)
    BY <1>6, FS_Interval
  <2>3. matches' \in Surjection(1..Cardinality(Hits), Hits)
    BY <1>6, <2>1, <2>2, FS_Injection
  <2>4. \A d \in Hits : \E i \in 1..Cardinality(Hits) : matches'[i] = d
    BY <2>3 DEF Surjection
  <2> QED
    BY <1>7, <2>4 DEF Range
<1>10. matches' \in Seq(Docs)
  <2>1. matches' \in [1..Cardinality(Hits) -> Docs]
    BY <1>6, <1>7
  <2> QED
    BY <1>6, <2>1 DEF Seq
<1>11. /\ Docs' = Docs /\ \A u, d : Holds(d, u)' = Holds(d, u)
       /\ \A v : Found(v)' = Found(v)
  BY <1>1, FoundStable
<1>12. HoldAll' = HoldAll /\ HoldSome' = HoldSome
  BY <1>1, <1>11 DEF HoldAll, HoldSome
<1>13. RankingTypeOK'
  BY <1>1, <1>10, <1>11 DEF IInv, RankingTypeOK
<1>14. Progress'
  BY <1>1, <1>12 DEF IInv, Progress
<1>15. CountsWords'
  BY <1>1, <1>11 DEF IInv, Scoring, CountsWords
<1>16. PendingSeen' /\ ScoresFound'
  BY <1>1, <1>11 DEF IInv, Scoring, PendingSeen, ScoresFound
<1>17. CoverageFirst'
  <2> SUFFICES ASSUME NEW i \in DOMAIN matches', NEW j \in DOMAIN matches', i < j
               PROVE  \/ matched[matches'[i]] > matched[matches'[j]]
                      \/ /\ matched[matches'[i]] = matched[matches'[j]]
                         /\ score[matches'[i]] >= score[matches'[j]]
    BY <1>1 DEF CoverageFirst
  <2> DEFINE d == matches'[i]
             e == matches'[j]
  <2>1. d \in Docs /\ e \in Docs
    BY <1>6, <1>7
  <2>2. ~(Total(top + Unit, e) > Total(top + Unit, d))
    BY <1>3 DEF Before
  <2>3. /\ matched[d] \in Nat /\ matched[e] \in Nat /\ score[d] \in Nat /\ score[e] \in Nat
        /\ score[d] < top + Unit /\ score[e] < top + Unit
    BY <1>4, <1>5, <2>1
  <2>4. matched[d] * (top + Unit) + score[d] >= matched[e] * (top + Unit) + score[e]
    <3> DEFINE x == matched[d] * (top + Unit) + score[d]
               y == matched[e] * (top + Unit) + score[e]
    <3>1. ~(y > x)
      BY <2>2 DEF Total
    <3>2. x \in Nat /\ y \in Nat
      BY <1>5, <2>3
    <3> HIDE DEF x, y
    <3>3. x >= y
      BY <3>1, <3>2
    <3> QED
      BY <3>3 DEF x, y
  <2> HIDE DEF d, e
  <2>5. matched[d] > matched[e] \/ (matched[d] = matched[e] /\ score[d] >= score[e])
    BY <1>5, <2>3, <2>4, StrideDominates
  <2> QED
    BY <2>5 DEF d, e
<1>18. EveryMatchRanked'
  BY <1>1, <1>8, <1>9, <1>12, HitsRight DEF EveryMatchRanked
<1> QED
  BY <1>13, <1>14, <1>15, <1>16, <1>17, <1>18 DEF IInv, Scoring

LEMMA CutInv == IInv /\ Cut => IInv'
<1> SUFFICES ASSUME IInv, Cut PROVE IInv'
  OBVIOUS
<1>1. /\ pc = "sorted" /\ pc' = "done"
      /\ index' = index /\ query' = query /\ limit' = limit /\ all' = all /\ todo' = todo
      /\ terms' = terms /\ weight' = weight /\ score' = score /\ matched' = matched
      /\ matches' = IF Len(matches) > limit THEN SubSeq(matches, 1, limit) ELSE matches
      /\ Seen' = Seen
  BY DEF Cut, Seen
<1>2. matches \in Seq(Docs) /\ limit \in Nat
  BY DEF IInv, RankingTypeOK
<1>3. /\ matches' \in Seq(Docs) /\ Len(matches') <= limit /\ Len(matches') <= Len(matches)
      /\ \A i \in 1..Len(matches') : matches'[i] = matches[i]
  <2>1. CASE Len(matches) > limit
    <3>1. matches' = SubSeq(matches, 1, limit) /\ Len(matches) \in Nat
      BY <1>1, <1>2, <2>1
    <3>2. \A i \in 1..limit : matches[i] \in Docs
      BY <1>2, <2>1, <3>1
    <3>3. /\ SubSeq(matches, 1, limit) \in Seq(Docs)
          /\ Len(SubSeq(matches, 1, limit)) = limit
          /\ \A i \in 1..limit : SubSeq(matches, 1, limit)[i] = matches[i]
      BY <1>2, <2>1, <3>1, <3>2
    <3> QED
      BY <1>2, <2>1, <3>1, <3>3
  <2>2. CASE ~(Len(matches) > limit)
    BY <1>1, <1>2, <2>2
  <2> QED
    BY <2>1, <2>2
<1>4. /\ Docs' = Docs /\ \A u, d : Holds(d, u)' = Holds(d, u)
      /\ \A v : Found(v)' = Found(v)
  BY <1>1, FoundStable
<1>5. HoldAll' = HoldAll
  BY <1>1, <1>4 DEF HoldAll
<1>6. RankingTypeOK'
  BY <1>1, <1>3, <1>4 DEF IInv, RankingTypeOK
<1>7. Progress'
  BY <1>1, <1>5 DEF IInv, Progress
<1>8. CountsWords'
  BY <1>1, <1>4 DEF IInv, Scoring, CountsWords
<1>9. PendingSeen' /\ ScoresFound'
  BY <1>1, <1>4 DEF IInv, Scoring, PendingSeen, ScoresFound
<1>10. CoverageFirst'
  <2>1. ASSUME NEW i \in DOMAIN matches' PROVE i \in DOMAIN matches /\ matches'[i] = matches[i]
    BY <1>2, <1>3
  <2>2. score' = score /\ matched' = matched
    BY <1>1
  <2>3. SUFFICES ASSUME NEW i \in DOMAIN matches', NEW j \in DOMAIN matches', i < j
                 PROVE  \/ matched[matches'[i]] > matched[matches'[j]]
                        \/ /\ matched[matches'[i]] = matched[matches'[j]]
                           /\ score[matches'[i]] >= score[matches'[j]]
    BY <2>2 DEF CoverageFirst
  <2> QED
    BY <2>1, <2>3 DEF IInv, CoverageFirst
<1>11. EveryMatchRanked'
  BY <1>1, <1>3 DEF EveryMatchRanked
<1> QED
  BY <1>6, <1>7, <1>8, <1>9, <1>10, <1>11 DEF IInv, Scoring

LEMMA StutterInv == IInv /\ UNCHANGED rankingVars => IInv'
<1> SUFFICES ASSUME IInv, UNCHANGED rankingVars PROVE IInv'
  OBVIOUS
<1> USE DEF rankingVars
<1>1. /\ Docs' = Docs /\ \A u, d : Holds(d, u)' = Holds(d, u)
      /\ \A v : Found(v)' = Found(v)
  BY FoundStable
<1>2. HoldAll' = HoldAll /\ HoldSome' = HoldSome /\ Seen' = Seen
  BY <1>1 DEF HoldAll, HoldSome, Seen
<1>3. RankingTypeOK'
  BY <1>1 DEF IInv, RankingTypeOK
<1>4. Progress'
  BY <1>2 DEF IInv, Progress
<1>5. CountsWords'
  BY <1>1, <1>2 DEF IInv, Scoring, CountsWords
<1>6. PendingSeen' /\ ScoresFound'
  BY <1>1, <1>2 DEF IInv, Scoring, PendingSeen, ScoresFound
<1>7. CoverageFirst' /\ EveryMatchRanked'
  BY <1>2 DEF IInv, CoverageFirst, EveryMatchRanked
<1> QED
  BY <1>3, <1>4, <1>5, <1>6, <1>7 DEF IInv, Scoring
-----------------------------------------------------------------------------
(* The theorems.                                                           *)

LEMMA Inductive == RankingSpec => []IInv
<1>1. IInv /\ [RankingNext]_rankingVars => IInv'
  BY BeginInv, NextWordInv, AddPostingsInv, RelaxInv, SortInv, CutInv, StutterInv
     DEF RankingNext, Rank
<1> QED
  BY <1>1, InitInv, PTL DEF RankingSpec

\* Scores and counts stay natural numbers, and results stay documents of the index.
THEOREM TypeCorrect == RankingSpec => []RankingTypeOK
<1>1. IInv => RankingTypeOK
  BY DEF IInv
<1> QED
  BY <1>1, Inductive, PTL

\* With any positive weights, coverage_score puts the documents that hold more of
\* the words first, and the more relevant first among equals.
THEOREM CoverageComesFirst == RankingSpec => []CoverageFirst
<1>1. IInv => CoverageFirst
  BY DEF IInv
<1> QED
  BY <1>1, Inductive, PTL

\* search_matching loses no document its words find, and the relaxed pass runs
\* exactly when no document holds all the words.
THEOREM NothingFoundIsLost == RankingSpec => []EveryMatchRanked
<1>1. IInv => EveryMatchRanked
  BY DEF IInv
<1> QED
  BY <1>1, Inductive, PTL
-----------------------------------------------------------------------------
(* Induction, said with sets of natural numbers.                           *)

Below == {p \in Nat \X Nat : p[1] < p[2]}

LEMMA BelowWellFounded == IsWellFoundedOn(Below, Nat)
BY NatLessThanWellFounded DEF OpToRel, Below

LEMMA Least ==
    ASSUME NEW T, T \subseteq Nat, T # {}
    PROVE  \E x \in T : \A y \in T : x <= y
<1>1. PICK x \in T : \A y \in T : <<y, x>> \notin Below
  BY BelowWellFounded, WFMin
<1>2. \A y \in T : ~(y < x)
  BY <1>1 DEF Below
<1> QED BY <1>1, <1>2

LEMMA Induction ==
    ASSUME NEW T, 0 \in T, \A n \in Nat : n \in T => n + 1 \in T
    PROVE  Nat \subseteq T
<1> SUFFICES ASSUME Nat \ T # {} PROVE FALSE
  OBVIOUS
<1>1. PICK x \in Nat \ T : \A y \in Nat \ T : x <= y
  BY Least
<1>2. x # 0 /\ x - 1 \in Nat
  BY <1>1
<1>3. x - 1 \in T
  BY <1>1, <1>2
<1>4. (x - 1) + 1 \in T
  BY <1>2, <1>3
<1> QED BY <1>1, <1>4
-----------------------------------------------------------------------------
(* Sequences.                                                              *)

IsList(s) == s \in Seq({s[i] : i \in DOMAIN s})

LEMMA ListOf ==
    ASSUME NEW S, NEW s \in Seq(S)
    PROVE  IsList(s)
<1>1. s \in [1 .. Len(s) -> {s[i] : i \in DOMAIN s}] /\ Len(s) \in Nat
  OBVIOUS
<1> QED BY <1>1 DEF IsList

LEMMA ListLength ==
    ASSUME NEW s, IsList(s)
    PROVE  Len(s) \in Nat /\ DOMAIN s = 1 .. Len(s)
BY DEF IsList

\* The function that FlattenSeq chooses exists, and its last value is the result.
LEMMA Flattening ==
    ASSUME NEW U, NEW seqs \in Seq(Seq(U)), Len(seqs) # 0
    PROVE  \E f : /\ f = [i \in 1 .. Len(seqs) |-> IF i = 1 THEN seqs[i] ELSE f[i - 1] \o seqs[i]]
                  /\ FlattenSeq(seqs) = f[Len(seqs)]
<1> DEFINE Solves(f, n) == f = [i \in 1 .. n |-> IF i = 1 THEN seqs[i] ELSE f[i - 1] \o seqs[i]]
           T == {n \in Nat : \E f : Solves(f, n)}
           flatten == CHOOSE f : Solves(f, Len(seqs))
<1>1. 0 \in T
  <2>1. Solves([i \in 1 .. 0 |-> seqs], 0)
    OBVIOUS
  <2> QED BY <2>1
<1>2. ASSUME NEW n \in Nat, n \in T PROVE n + 1 \in T
  <2>1. PICK f : Solves(f, n)
    BY <1>2
  <2> DEFINE g == [i \in 1 .. n + 1 |->
                     IF i = n + 1 THEN (IF i = 1 THEN seqs[i] ELSE f[n] \o seqs[i]) ELSE f[i]]
  <2>2. ASSUME NEW i \in 1 .. n + 1 
        PROVE  g[i] = IF i = 1 THEN seqs[i] ELSE g[i - 1] \o seqs[i]
    <3>1. CASE i = n + 1
      BY <3>1
    <3>2. CASE i # n + 1
      <4>1. i \in 1 .. n
        BY <3>2
      <4>2. f[i] = IF i = 1 THEN seqs[i] ELSE f[i - 1] \o seqs[i]
        BY <2>1, <4>1
      <4>3. i # 1 => i - 1 \in 1 .. n + 1 /\ i - 1 # n + 1
        BY <4>1
      <4>4. g[i] = f[i] /\ (i # 1 => g[i - 1] = f[i - 1])
        BY <3>2, <4>1, <4>3
      <4> QED BY <4>2, <4>4
    <3> QED BY <3>1, <3>2
  <2>3. Solves(g, n + 1)
    <3> DEFINE h == [i \in 1 .. n + 1 |-> IF i = 1 THEN seqs[i] ELSE g[i - 1] \o seqs[i]]
    <3>1. \A i \in 1 .. n + 1 : g[i] = h[i]
      BY <2>2
    <3>2. g = [i \in 1 .. n + 1 |-> g[i]] /\ h = [i \in 1 .. n + 1 |-> h[i]]
      OBVIOUS
    <3> HIDE DEF g
    <3> QED BY <3>1, <3>2
  <2> HIDE DEF g, Solves
  <2> QED BY <2>3
<1>3. Len(seqs) \in T
  <2> HIDE DEF T
  <2>1. Nat \subseteq T
    BY ONLY <1>1, <1>2, Induction, ZenonT(30)
  <2>2. Len(seqs) \in Nat
    OBVIOUS
  <2> QED BY ONLY <2>1, <2>2
<1>4. Solves(flatten, Len(seqs))
  <2> HIDE DEF Solves
  <2> QED BY <1>3
<1>5. FlattenSeq(seqs) = flatten[Len(seqs)]
  BY DEF FlattenSeq
<1> HIDE DEF flatten
<1> QED BY <1>4, <1>5

LEMMA Flat ==
    ASSUME NEW U, NEW seqs \in Seq(Seq(U))
    PROVE  FlattenSeq(seqs) \in Seq(U)
<1>1. CASE Len(seqs) = 0
  <2>1. seqs = <<>> /\ FlattenSeq(seqs) = seqs
    BY <1>1 DEF FlattenSeq
  <2>2. <<>> \in Seq(U)
    OBVIOUS
  <2> QED BY <2>1, <2>2
<1>2. CASE Len(seqs) # 0
  <2>1. PICK f : /\ f = [i \in 1 .. Len(seqs) |-> IF i = 1 THEN seqs[i] ELSE f[i - 1] \o seqs[i]]
                 /\ FlattenSeq(seqs) = f[Len(seqs)]
    BY <1>2, Flattening
  <2>2. \A i \in 1 .. Len(seqs) : f[i] = IF i = 1 THEN seqs[i] ELSE f[i - 1] \o seqs[i]
    BY <2>1
  <2> DEFINE T == {n \in Nat : n \in 1 .. Len(seqs) => f[n] \in Seq(U)}
  <2>3. 0 \in T
    OBVIOUS
  <2>4. ASSUME NEW n \in Nat, n \in T PROVE n + 1 \in T
    <3> SUFFICES ASSUME n + 1 \in 1 .. Len(seqs) PROVE f[n + 1] \in Seq(U)
      OBVIOUS
    <3>1. seqs[n + 1] \in Seq(U)
      OBVIOUS
    <3>2. CASE n = 0
      BY <2>2, <3>1, <3>2
    <3>3. CASE n # 0
      <4>1. n \in 1 .. Len(seqs) /\ (n + 1) - 1 = n /\ n + 1 # 1
        BY <3>3
      <4>2. f[n] \in Seq(U)
        BY <2>4, <4>1
      <4>3. f[n + 1] = f[n] \o seqs[n + 1]
        <5>1. f[n + 1] = IF n + 1 = 1 THEN seqs[n + 1] ELSE f[(n + 1) - 1] \o seqs[n + 1]
          BY <2>2
        <5> QED BY <4>1, <5>1, Zenon
      <4> QED BY <3>1, <4>2, <4>3
    <3> QED BY <3>2, <3>3
  <2>5. Nat \subseteq T
    <3> HIDE DEF T
    <3> QED BY <2>3, <2>4, Induction
  <2>6. Len(seqs) \in Nat /\ Len(seqs) \in 1 .. Len(seqs)
    BY <1>2
  <2> QED BY <2>1, <2>5, <2>6
<1> QED BY <1>1, <1>2

\* The position behind the first i blocks of a sequence of blocks that are written
\* one after the other.
Behind(seqs, i) == Len(FlattenSeq(SubSeq(seqs, 1, i)))

\* One solution of the equations that FlattenSeq solves agrees with another.
LEMMA FlatStep ==
    ASSUME NEW U, NEW seqs \in Seq(Seq(U)), NEW i \in 1 .. Len(seqs)
    PROVE  FlattenSeq(SubSeq(seqs, 1, i)) = FlattenSeq(SubSeq(seqs, 1, i - 1)) \o seqs[i]
<1> DEFINE long == SubSeq(seqs, 1, i)
           short == SubSeq(seqs, 1, i - 1)
<1>1. /\ long \in Seq(Seq(U)) /\ short \in Seq(Seq(U)) /\ Len(long) = i /\ Len(short) = i - 1
      /\ \A k \in 1 .. i : long[k] = seqs[k]
      /\ \A k \in 1 .. i - 1 : short[k] = seqs[k]
  OBVIOUS
<1> HIDE DEF long, short
<1>2. seqs[i] \in Seq(U)
  OBVIOUS
<1>3. PICK f : /\ f = [k \in 1 .. i |-> IF k = 1 THEN long[k] ELSE f[k - 1] \o long[k]]
               /\ FlattenSeq(long) = f[i]
  <2>1. Len(long) # 0
    BY <1>1
  <2>2. \E f : /\ f = [k \in 1 .. Len(long) |-> IF k = 1 THEN long[k] ELSE f[k - 1] \o long[k]]
               /\ FlattenSeq(long) = f[Len(long)]
    BY <1>1, <2>1, Flattening, Zenon
  <2> QED BY <1>1, <2>2, Zenon
<1>4. \A k \in 1 .. i : f[k] = IF k = 1 THEN seqs[k] ELSE f[k - 1] \o seqs[k]
  <2>1. \A k \in 1 .. i : f[k] = IF k = 1 THEN long[k] ELSE f[k - 1] \o long[k]
    BY ONLY <1>3
  <2> QED BY <1>1, <2>1, ZenonT(30)
<1>5. CASE i = 1
  <2>1. short = <<>> /\ FlattenSeq(short) = short
    BY <1>1, <1>5 DEF FlattenSeq
  <2>2. FlattenSeq(long) = seqs[1]
    <3>1. i \in 1 .. i
      OBVIOUS
    <3>2. f[i] = IF i = 1 THEN seqs[i] ELSE f[i - 1] \o seqs[i]
      BY ONLY <1>4, <3>1, ZenonT(30)
    <3> QED BY ONLY <1>3, <1>5, <3>2
  <2>3. <<>> \o seqs[1] = seqs[1]
    <3>1. seqs[1] \in Seq(U)
      BY ONLY <1>2, <1>5
    <3> QED BY ONLY <3>1
  <2> QED BY <1>5, <2>1, <2>2, <2>3 DEF long, short
<1>6. CASE i # 1
  <2>1. i - 1 \in 1 .. i /\ Len(short) # 0
    BY <1>1, <1>6
  <2>2. PICK g : /\ g = [k \in 1 .. i - 1 |-> IF k = 1 THEN short[k] ELSE g[k - 1] \o short[k]]
                 /\ FlattenSeq(short) = g[i - 1]
    <3>1. \E g : /\ g = [k \in 1 .. Len(short) |-> IF k = 1 THEN short[k] ELSE g[k - 1] \o short[k]]
                 /\ FlattenSeq(short) = g[Len(short)]
      BY <1>1, <2>1, Flattening, Zenon
    <3> QED BY <1>1, <3>1, ZenonT(30)
  <2>3. \A k \in 1 .. i - 1 : g[k] = IF k = 1 THEN seqs[k] ELSE g[k - 1] \o seqs[k]
    <3>1. \A k \in 1 .. i - 1 : g[k] = IF k = 1 THEN short[k] ELSE g[k - 1] \o short[k]
      BY ONLY <2>2
    <3> QED BY <1>1, <3>1, ZenonT(30)
  <2> DEFINE T == {k \in Nat : k \in 1 .. i - 1 => f[k] = g[k]}
  <2>4. 0 \in T
    OBVIOUS
  <2>5. ASSUME NEW k \in Nat, k \in T PROVE k + 1 \in T
    <3> SUFFICES ASSUME k + 1 \in 1 .. i - 1 PROVE f[k + 1] = g[k + 1]
      OBVIOUS
    <3>1. k + 1 \in 1 .. i
      OBVIOUS
    <3>2. f[k + 1] = IF k + 1 = 1 THEN seqs[k + 1] ELSE f[(k + 1) - 1] \o seqs[k + 1]
      BY <1>4, <3>1
    <3>3. g[k + 1] = IF k + 1 = 1 THEN seqs[k + 1] ELSE g[(k + 1) - 1] \o seqs[k + 1]
      BY <2>3
    <3>4. k + 1 # 1 => (k + 1) - 1 = k /\ f[k] = g[k]
      BY <2>5
    <3> QED BY <3>2, <3>3, <3>4
  <2>6. f[i - 1] = g[i - 1]
    <3>1. Nat \subseteq T
      <4> HIDE DEF T
      <4> QED BY <2>4, <2>5, Induction
    <3>2. i - 1 \in Nat /\ i - 1 \in 1 .. i - 1
      BY <2>1
    <3> QED BY <3>1, <3>2
  <2>7. f[i] = f[i - 1] \o seqs[i]
    <3>1. i \in 1 .. i
      OBVIOUS
    <3>2. f[i] = IF i = 1 THEN seqs[i] ELSE f[i - 1] \o seqs[i]
      BY <1>4, <3>1
    <3> QED BY <1>6, <3>2, Zenon
  <2> QED BY <1>3, <2>2, <2>6, <2>7 DEF long, short
<1> QED BY <1>5, <1>6

LEMMA BehindFacts ==
    ASSUME NEW U, NEW seqs \in Seq(Seq(U))
    PROVE  /\ Behind(seqs, 0) = 0 /\ Behind(seqs, Len(seqs)) = Len(FlattenSeq(seqs))
           /\ \A i \in 0 .. Len(seqs) : Behind(seqs, i) \in Nat
           /\ \A i \in 1 .. Len(seqs) : Behind(seqs, i) = Behind(seqs, i - 1) + Len(seqs[i])
<1>1. \A i \in 0 .. Len(seqs) : FlattenSeq(SubSeq(seqs, 1, i)) \in Seq(U)
  <2> TAKE i \in 0 .. Len(seqs)
  <2>1. SubSeq(seqs, 1, i) \in Seq(Seq(U))
    OBVIOUS
  <2> QED BY <2>1, Flat
<1>2. Behind(seqs, 0) = 0
  <2>1. SubSeq(seqs, 1, 0) = <<>>
    OBVIOUS
  <2>2. FlattenSeq(<<>>) = <<>> /\ Len(<<>>) = 0
    BY DEF FlattenSeq
  <2>3. FlattenSeq(SubSeq(seqs, 1, 0)) = FlattenSeq(<<>>)
    BY <2>1, Zenon
  <2> QED BY <2>2, <2>3 DEF Behind
<1>3. Behind(seqs, Len(seqs)) = Len(FlattenSeq(seqs))
  <2>1. SubSeq(seqs, 1, Len(seqs)) = seqs
    OBVIOUS
  <2> QED BY <2>1 DEF Behind
<1>4. \A i \in 0 .. Len(seqs) : Behind(seqs, i) \in Nat
  BY <1>1 DEF Behind
<1>5. ASSUME NEW i \in 1 .. Len(seqs)
      PROVE  Behind(seqs, i) = Behind(seqs, i - 1) + Len(seqs[i])
  <2>1. FlattenSeq(SubSeq(seqs, 1, i)) = FlattenSeq(SubSeq(seqs, 1, i - 1)) \o seqs[i]
    BY FlatStep
  <2>2. i - 1 \in 0 .. Len(seqs) /\ seqs[i] \in Seq(U)
    OBVIOUS
  <2> DEFINE long == FlattenSeq(SubSeq(seqs, 1, i))
             short == FlattenSeq(SubSeq(seqs, 1, i - 1))
             new == seqs[i]
  <2>3. short \in Seq(U) /\ new \in Seq(U) /\ long = short \o new
    BY <1>1, <2>1, <2>2
  <2>4. Behind(seqs, i) = Len(long) /\ Behind(seqs, i - 1) = Len(short)
    BY DEF Behind
  <2> HIDE DEF long, short, new
  <2>5. Len(long) = Len(short) + Len(new)
    BY <2>3
  <2> QED BY <2>4, <2>5 DEF new
<1> QED BY <1>2, <1>3, <1>4, <1>5

\* What stands where in a sequence of blocks.
LEMMA FlatAt ==
    ASSUME NEW U, NEW seqs \in Seq(Seq(U)), NEW i \in 1 .. Len(seqs), NEW j \in 1 .. Len(seqs[i])
    PROVE  /\ Behind(seqs, i - 1) + j \in 1 .. Len(FlattenSeq(seqs))
           /\ FlattenSeq(seqs)[Behind(seqs, i - 1) + j] = seqs[i][j]
<1> DEFINE F(k) == FlattenSeq(SubSeq(seqs, 1, k))
           at == Behind(seqs, i - 1) + j
           T == {k \in Nat : i + k <= Len(seqs) =>
                   at \in 1 .. Len(F(i + k)) /\ F(i + k)[at] = seqs[i][j]}
<1>1. \A k \in 0 .. Len(seqs) : F(k) \in Seq(U)
  <2> TAKE k \in 0 .. Len(seqs)
  <2>1. SubSeq(seqs, 1, k) \in Seq(Seq(U))
    OBVIOUS
  <2> QED BY <2>1, Flat
<1>2. \A k \in 1 .. Len(seqs) : F(k) = F(k - 1) \o seqs[k]
  BY FlatStep
<1>3. \A k \in 1 .. Len(seqs) : seqs[k] \in Seq(U)
  OBVIOUS
<1>4. Behind(seqs, i - 1) = Len(F(i - 1))
  BY DEF Behind
<1> HIDE DEF F
<1>5. 0 \in T
  <2>1. i - 1 \in 0 .. Len(seqs) /\ i + 0 = i
    OBVIOUS
  <2> DEFINE short == F(i - 1)
             new == seqs[i]
             long == F(i)
  <2>2. short \in Seq(U) /\ new \in Seq(U) /\ long = short \o new
    BY <1>1, <1>2, <1>3, <2>1
  <2>3. at = Len(short) + j /\ j \in 1 .. Len(new)
    BY <1>4
  <2> HIDE DEF short, new, long, at
  <2>4. at \in 1 .. Len(long) /\ long[at] = new[j]
    BY <2>2, <2>3
  <2> QED BY <2>1, <2>4 DEF new, long
<1>6. ASSUME NEW k \in Nat, k \in T PROVE k + 1 \in T
  <2> SUFFICES ASSUME i + (k + 1) <= Len(seqs)
               PROVE  at \in 1 .. Len(F(i + (k + 1))) /\ F(i + (k + 1))[at] = seqs[i][j]
    OBVIOUS
  <2>1. at \in 1 .. Len(F(i + k)) /\ F(i + k)[at] = seqs[i][j]
    BY <1>6
  <2>2. i + (k + 1) \in 1 .. Len(seqs) /\ (i + (k + 1)) - 1 = i + k /\ i + k \in 0 .. Len(seqs)
    OBVIOUS
  <2> DEFINE n == i + (k + 1)
             short == F(i + k)
             new == seqs[n]
             long == F(n)
             item == seqs[i][j]
  <2>3. long = short \o new
    BY <1>2, <2>2
  <2>4. short \in Seq(U) /\ new \in Seq(U)
    BY <1>1, <1>3, <2>2
  <2>5. at \in 1 .. Len(short) /\ short[at] = item
    BY <2>1
  <2> HIDE DEF short, new, long, at, item
  <2>6. at \in 1 .. Len(long) /\ long[at] = item
    BY <2>3, <2>4, <2>5
  <2> QED BY <2>6 DEF long, item
<1>7. Len(seqs) - i \in T
  <2>1. Len(seqs) - i \in Nat
    OBVIOUS
  <2>2. Nat \subseteq T
    <3> HIDE DEF T
    <3> QED BY <1>5, <1>6, Induction
  <2> QED BY <2>1, <2>2
<1>8. F(Len(seqs)) = FlattenSeq(seqs)
  <2>1. SubSeq(seqs, 1, Len(seqs)) = seqs
    OBVIOUS
  <2> QED BY <2>1 DEF F
<1>9. i + (Len(seqs) - i) = Len(seqs) /\ i + (Len(seqs) - i) <= Len(seqs)
  OBVIOUS
<1> HIDE DEF at
<1>10. at \in 1 .. Len(F(Len(seqs))) /\ F(Len(seqs))[at] = seqs[i][j]
  BY <1>7, <1>9
<1> QED BY <1>8, <1>10 DEF at

LEMMA FlatLists ==
    ASSUME NEW seqs, IsList(seqs), \A i \in DOMAIN seqs : IsList(seqs[i])
    PROVE  IsList(FlattenSeq(seqs))
<1> DEFINE U == UNION {{seqs[i][j] : j \in DOMAIN seqs[i]} : i \in DOMAIN seqs}
<1>1. ASSUME NEW i \in DOMAIN seqs PROVE seqs[i] \in Seq(U)
  <2> DEFINE R == {seqs[i][j] : j \in DOMAIN seqs[i]}
  <2>1. seqs[i] \in Seq(R)
    BY DEF IsList
  <2>2. R \subseteq U
    OBVIOUS
  <2> HIDE DEF R, U
  <2> QED BY <2>1, <2>2
<1>2. seqs \in Seq(Seq(U))
  <2>1. Len(seqs) \in Nat /\ DOMAIN seqs = 1 .. Len(seqs)
    BY ListLength
  <2>2. seqs = [i \in 1 .. Len(seqs) |-> seqs[i]]
    BY DEF IsList
  <2> HIDE DEF U
  <2> QED BY <1>1, <2>1, <2>2
<1> HIDE DEF U
<1>3. FlattenSeq(seqs) \in Seq(U)
  BY <1>2, Flat
<1> QED BY <1>3, ListOf

LEMMA ListMade ==
    ASSUME NEW n \in Nat, NEW s, DOMAIN s = 1 .. n, s = [i \in 1 .. n |-> s[i]]
    PROVE  IsList(s) /\ Len(s) = n
<1> DEFINE S == {s[i] : i \in 1 .. n}
<1>1. s \in [1 .. n -> S]
  BY Zenon
<1> HIDE DEF S
<1>2. s \in Seq(S) /\ Len(s) = n
  BY <1>1
<1> QED BY <1>2, ListOf

LEMMA Joined ==
    ASSUME NEW s, NEW t, IsList(s), IsList(t)
    PROVE  IsList(s \o t)
<1> DEFINE A == {s[i] : i \in DOMAIN s}
           B == {t[i] : i \in DOMAIN t}
           C == A \cup B
<1>1. s \in Seq(A) /\ t \in Seq(B)
  BY DEF IsList
<1> HIDE DEF A, B
<1>2. s \in Seq(C) /\ t \in Seq(C)
  BY <1>1
<1> HIDE DEF C
<1>3. s \o t \in Seq(C)
  BY <1>2
<1> QED BY <1>3, ListOf

LEMMA SetListed ==
    ASSUME NEW S, IsFiniteSet(S)
    PROVE  /\ SetToSeq(S) \in [1 .. Cardinality(S) -> S]
           /\ Cardinality(S) \in Nat
           /\ IsList(SetToSeq(S))
<1>1. Cardinality(S) \in Nat /\ ExistsBijection(1 .. Cardinality(S), S)
  BY FS_CardinalityType
<1>2. PICK f \in [1 .. Cardinality(S) -> S] : IsInjective(f)
  <2>1. PICK f : f \in Bijection(1 .. Cardinality(S), S)
    BY <1>1 DEF ExistsBijection
  <2>2. f \in [1 .. Cardinality(S) -> S] /\ \A a, b \in 1 .. Cardinality(S) : f[a] = f[b] => a = b
    BY <2>1 DEF Bijection, Injection, IsInjective
  <2>3. IsInjective(f)
    BY <2>2 DEF IsInjective
  <2> QED BY <2>2, <2>3
<1>3. SetToSeq(S) \in [1 .. Cardinality(S) -> S]
  BY <1>2 DEF SetToSeq
<1>4. SetToSeq(S) \in Seq(S)
  BY <1>1, <1>3
<1> QED BY <1>1, <1>3, <1>4, ListOf

LEMMA Pairing ==
    ASSUME NEW a, NEW b, NEW c
    PROVE  IsList(<<a>>) /\ IsList(<<a, b>>) /\ IsList(<<a, b, c>>)
<1>1. <<a>> \in Seq({a, b, c}) /\ <<a, b>> \in Seq({a, b, c}) /\ <<a, b, c>> \in Seq({a, b, c})
  OBVIOUS
<1> QED BY <1>1, ListOf

LEMMA Blocks ==
    ASSUME NEW seqs, IsList(seqs), \A i \in DOMAIN seqs : IsList(seqs[i])
    PROVE  /\ IsList(FlattenSeq(seqs))
           /\ Behind(seqs, 0) = 0 /\ Behind(seqs, Len(seqs)) = Len(FlattenSeq(seqs))
           /\ \A i \in 0 .. Len(seqs) : Behind(seqs, i) \in Nat
           /\ \A i \in 1 .. Len(seqs) : Behind(seqs, i) = Behind(seqs, i - 1) + Len(seqs[i])
           /\ \A i \in 1 .. Len(seqs) : \A j \in 1 .. Len(seqs[i]) :
                 /\ Behind(seqs, i - 1) + j \in 1 .. Len(FlattenSeq(seqs))
                 /\ FlattenSeq(seqs)[Behind(seqs, i - 1) + j] = seqs[i][j]
<1> DEFINE U == UNION {{seqs[i][j] : j \in DOMAIN seqs[i]} : i \in DOMAIN seqs}
<1>1. ASSUME NEW i \in DOMAIN seqs PROVE seqs[i] \in Seq(U)
  <2> DEFINE R == {seqs[i][j] : j \in DOMAIN seqs[i]}
  <2>1. seqs[i] \in Seq(R)
    BY DEF IsList
  <2>2. R \subseteq U
    OBVIOUS
  <2> HIDE DEF R, U
  <2> QED BY <2>1, <2>2
<1>2. seqs \in Seq(Seq(U))
  <2>1. Len(seqs) \in Nat /\ DOMAIN seqs = 1 .. Len(seqs)
    BY ListLength
  <2>2. seqs = [i \in 1 .. Len(seqs) |-> seqs[i]]
    BY DEF IsList
  <2> HIDE DEF U
  <2> QED BY <1>1, <2>1, <2>2
<1> HIDE DEF U
<1>3. IsList(FlattenSeq(seqs))
  BY FlatLists
<1>4. \A i \in 1 .. Len(seqs) : \A j \in 1 .. Len(seqs[i]) :
         /\ Behind(seqs, i - 1) + j \in 1 .. Len(FlattenSeq(seqs))
         /\ FlattenSeq(seqs)[Behind(seqs, i - 1) + j] = seqs[i][j]
  BY <1>2, FlatAt
<1>5. /\ Behind(seqs, 0) = 0 /\ Behind(seqs, Len(seqs)) = Len(FlattenSeq(seqs))
      /\ \A i \in 0 .. Len(seqs) : Behind(seqs, i) \in Nat
      /\ \A i \in 1 .. Len(seqs) : Behind(seqs, i) = Behind(seqs, i - 1) + Len(seqs[i])
  BY <1>2, BehindFacts
<1> QED BY <1>3, <1>4, <1>5, Zenon

LEMMA JoinedAt ==
    ASSUME NEW A, NEW s \in Seq(A), NEW t \in Seq(A), NEW u, u = s \o t
    PROVE  /\ u \in Seq(A) /\ Len(u) = Len(s) + Len(t)
           /\ \A i \in 1 .. Len(s) : u[i] = s[i]
           /\ \A i \in 1 .. Len(t) : u[Len(s) + i] = t[i]
OBVIOUS
-----------------------------------------------------------------------------
(* The index that is built from a library.                                 *)

LEMMA BuiltRight ==
    ASSUME NEW lib \in Libraries
    PROVE  /\ IsIndex(Build(lib)) /\ lib \in Seq(Entry)
           /\ Len(lib) \in Nat /\ DOMAIN lib = 1 .. Len(lib) /\ Len(lib) <= MaxDocs
           /\ Build(lib).docs \in Seq(Document) /\ Len(Build(lib).docs) = Len(lib)
           /\ DOMAIN Build(lib).docs = 1 .. Len(lib)
           /\ \A i \in 1 .. Len(lib) : /\ Build(lib).docs[i] = DocumentOf(lib[i])
                                       /\ Build(lib).docs[i] \in Document
                                       /\ Build(lib).docs[i].dir # 0
           /\ Build(lib).count \in [Words -> [1 .. Len(lib) -> Nat]]
<1> DEFINE ds == [i \in DOMAIN lib |-> DocumentOf(lib[i])]
           cs == [t \in Words |-> [i \in DOMAIN lib |-> CountOf(lib[i], t)]]
<1>1. lib \in Seq(Entry) /\ Len(lib) <= MaxDocs
  BY LibrariesAssumption
<1>2. Len(lib) \in Nat /\ DOMAIN lib = 1 .. Len(lib)
  BY <1>1
<1>3. ASSUME NEW i \in 1 .. Len(lib)
      PROVE  DocumentOf(lib[i]) \in Document /\ DocumentOf(lib[i]).dir # 0
  <2> DEFINE e == lib[i]
  <2>1. e \in Entry
    BY <1>1
  <2> HIDE DEF e
  <2>2. DocumentOf(e) \in Document /\ DocumentOf(e).dir # 0
    BY <2>1 DEF DocumentOf, Document, Entry
  <2> QED BY <2>2 DEF e
<1>4. ASSUME NEW i \in 1 .. Len(lib), NEW t \in Words PROVE CountOf(lib[i], t) \in Nat
  <2> DEFINE e == lib[i]
  <2>0. e \in Entry
    BY <1>1
  <2> HIDE DEF e
  <2>1. e.fields \in Seq(SUBSET Words)
    BY <2>0 DEF Entry
  <2>2. DOMAIN e.fields = 1 .. Len(e.fields) /\ Len(e.fields) \in Nat
    BY <2>1
  <2>3. IsFiniteSet(1 .. Len(e.fields))
    <3>1. 1 \in Int /\ Len(e.fields) \in Int
      BY <2>2
    <3> QED BY <3>1, FS_Interval
  <2>4. IsFiniteSet({k \in DOMAIN e.fields : t \in e.fields[k]})
    BY <2>2, <2>3, FS_Subset
  <2>5. CountOf(e, t) \in Nat
    BY <2>4, FS_CardinalityType DEF CountOf
  <2> QED BY <2>5 DEF e
<1>5. ds \in Seq(Document) /\ DOMAIN ds = 1 .. Len(lib) /\ Len(ds) = Len(lib)
      /\ \A i \in 1 .. Len(lib) : ds[i] = DocumentOf(lib[i])
  BY <1>2, <1>3
<1>6. cs \in [Words -> [1 .. Len(lib) -> Nat]]
  BY <1>2, <1>4
<1> HIDE DEF ds, cs
<1>7. Build(lib) = [docs |-> ds, count |-> cs]
  BY DEF Build, ds, cs
<1>8. Build(lib).docs = ds /\ Build(lib).count = cs
  BY <1>7
<1>9. IsIndex(Build(lib))
  <2>1. Build(lib) = [docs |-> Build(lib).docs, count |-> Build(lib).count]
    BY <1>7, <1>8
  <2> QED BY <1>1, <1>2, <1>5, <1>6, <1>8, <2>1 DEF IsIndex
<1> QED BY <1>1, <1>2, <1>3, <1>5, <1>6, <1>8, <1>9
-----------------------------------------------------------------------------
(* What stands where in the stream of an index.                            *)

DocBlocks(v, x) == [i \in DOMAIN x.docs |-> DocumentItems(v, x.docs[i])]
FieldBlocks(v, doc) == [k \in DOMAIN Layout(v) |-> FieldItems(doc, Layout(v)[k])]
Held(x) == SetToSeq({t \in Words : \E i \in DOMAIN x.docs : x.count[t][i] > 0})
TermBlocks(x) == [k \in DOMAIN Held(x) |-> TermItems(x, Held(x)[k])]
PostingBlocks(x, t) == [i \in DOMAIN x.docs |-> PostingItems(x, t, i)]
Holders(x, t) == {i \in DOMAIN x.docs : x.count[t][i] > 0}

\* How many items have been read after so many documents, fields, terms and postings.
AfterDocs(v, x, i) == 1 + Behind(DocBlocks(v, x), i)
AfterFields(v, x, i, k) == AfterDocs(v, x, i - 1) + Behind(FieldBlocks(v, x.docs[i]), k)
AfterTerms(v, x, k) == AfterDocs(v, x, Len(x.docs)) + 1 + Behind(TermBlocks(x), k)
AfterPostings(v, x, k, i) == AfterTerms(v, x, k - 1) + 2 + Behind(PostingBlocks(x, Held(x)[k]), i)

LEMMA LayoutShape ==
    ASSUME NEW v \in Versions
    PROVE  /\ v = "CRZ3" => Layout(v) = <<"dir", "name", "url", "created">>
           /\ v = "CRZ4" => Layout(v) = <<"dir", "name", "url", "created", "modified">>
           /\ v = "CRZ5" => Layout(v) = <<"dir", "name", "id", "url", "created", "modified">>
<1>1. CASE v = "CRZ3"
  <2>1. Layout(v) = <<"dir", "name">> \o <<>> \o <<"url", "created">> \o <<>>
    BY <1>1 DEF Layout
  <2> QED BY <1>1, <2>1
<1>2. CASE v = "CRZ4"
  <2>1. Layout(v) = <<"dir", "name">> \o <<>> \o <<"url", "created">> \o <<"modified">>
    BY <1>2 DEF Layout
  <2> QED BY <1>2, <2>1
<1>3. CASE v = "CRZ5"
  <2>1. Layout(v) = <<"dir", "name">> \o <<"id">> \o <<"url", "created">> \o <<"modified">>
    BY <1>3 DEF Layout
  <2> QED BY <1>3, <2>1
<1> QED BY <1>1, <1>2, <1>3 DEF Versions

LEMMA LayoutFacts ==
    ASSUME NEW v \in Versions
    PROVE  /\ IsList(Layout(v)) /\ Len(Layout(v)) \in 4 .. 6 /\ Layout(v)[1] = "dir"
           /\ DOMAIN Layout(v) = 1 .. Len(Layout(v))
           /\ \A k \in 2 .. Len(Layout(v)) : Layout(v)[k] # "dir"
           /\ \A k \in DOMAIN Layout(v) : Layout(v)[k] \in {"dir", "name", "id", "url", "created", "modified"}
           /\ \A j, k \in DOMAIN Layout(v) : Layout(v)[j] = Layout(v)[k] => j = k
<1> DEFINE six == {"dir", "name", "id", "url", "created", "modified"}
<1>1. CASE v = "CRZ3"
  <2> DEFINE s == Layout(v)
  <2>1. s = <<"dir", "name", "url", "created">>
    BY <1>1, LayoutShape
  <2> HIDE DEF s
  <2>2. s \in Seq(six) /\ Len(s) \in 4 .. 6 /\ s[1] = "dir" /\ DOMAIN s = 1 .. Len(s)
    BY <2>1
  <2>3. \A k \in 2 .. Len(s) : s[k] # "dir"
    BY <2>1
  <2>4. \A k \in 1 .. Len(s) : s[k] \in six
    BY <2>1
  <2>5. \A m, k \in 1 .. Len(s) : s[m] = s[k] => m = k
    BY <2>1
  <2>6. IsList(s)
    BY <2>2, ListOf
  <2> QED BY <2>2, <2>3, <2>4, <2>5, <2>6 DEF s
<1>2. CASE v = "CRZ4"
  <2> DEFINE s == Layout(v)
  <2>1. s = <<"dir", "name", "url", "created", "modified">>
    BY <1>2, LayoutShape
  <2> HIDE DEF s
  <2>2. s \in Seq(six) /\ Len(s) \in 4 .. 6 /\ s[1] = "dir" /\ DOMAIN s = 1 .. Len(s)
    BY <2>1
  <2>3. \A k \in 2 .. Len(s) : s[k] # "dir"
    BY <2>1
  <2>4. \A k \in 1 .. Len(s) : s[k] \in six
    BY <2>1
  <2>5. \A m, k \in 1 .. Len(s) : s[m] = s[k] => m = k
    BY <2>1
  <2>6. IsList(s)
    BY <2>2, ListOf
  <2> QED BY <2>2, <2>3, <2>4, <2>5, <2>6 DEF s
<1>3. CASE v = "CRZ5"
  <2> DEFINE s == Layout(v)
  <2>1. s = <<"dir", "name", "id", "url", "created", "modified">>
    BY <1>3, LayoutShape
  <2> HIDE DEF s
  <2>2. s \in Seq(six) /\ Len(s) \in 4 .. 6 /\ s[1] = "dir" /\ DOMAIN s = 1 .. Len(s)
    BY <2>1
  <2>3. \A k \in 2 .. Len(s) : s[k] # "dir"
    BY <2>1
  <2>4. \A k \in 1 .. Len(s) : s[k] \in six
    BY <2>1
  <2>5. \A m, k \in 1 .. Len(s) : s[m] = s[k] => m = k
    BY <2>1
  <2>6. IsList(s)
    BY <2>2, ListOf
  <2> QED BY <2>2, <2>3, <2>4, <2>5, <2>6 DEF s
<1> QED BY <1>1, <1>2, <1>3 DEF Versions

LEMMA FieldShape ==
    ASSUME NEW doc, NEW f
    PROVE  /\ IsList(FieldItems(doc, f)) /\ Len(FieldItems(doc, f)) \in 1 .. 2
           /\ f \notin Optional => FieldItems(doc, f) = <<<<f, doc[f]>>>>
           /\ f \in Optional /\ doc[f] = None => FieldItems(doc, f) = <<<<"flag", 0>>>>
           /\ f \in Optional /\ doc[f] # None => FieldItems(doc, f) = <<<<"flag", 1>>, <<f, doc[f]>>>>
<1> DEFINE value == doc[f]
<1> HIDE DEF value
<1>1. CASE f \notin Optional
  <2>1. FieldItems(doc, f) = <<<<f, value>>>>
    BY <1>1, Zenon DEF FieldItems, value
  <2>2. Len(<<<<f, value>>>>) = 1 /\ IsList(<<<<f, value>>>>)
    BY Pairing
  <2> QED BY <1>1, <2>1, <2>2 DEF value
<1>2. CASE f \in Optional /\ value = None
  <2>1. FieldItems(doc, f) = <<<<"flag", 0>>>>
    BY <1>2, Zenon DEF FieldItems, value
  <2>2. Len(<<<<"flag", 0>>>>) = 1 /\ IsList(<<<<"flag", 0>>>>)
    BY Pairing
  <2> QED BY <1>2, <2>1, <2>2 DEF value
<1>3. CASE f \in Optional /\ value # None
  <2>1. FieldItems(doc, f) = <<<<"flag", 1>>, <<f, value>>>>
    BY <1>3, Zenon DEF FieldItems, value
  <2>2. Len(<<<<"flag", 1>>, <<f, value>>>>) = 2 /\ IsList(<<<<"flag", 1>>, <<f, value>>>>)
    BY Pairing
  <2> QED BY <1>3, <2>1, <2>2 DEF value
<1> QED BY <1>1, <1>2, <1>3

LEMMA FieldsWritten ==
    ASSUME NEW v \in Versions, NEW doc
    PROVE  /\ IsList(DocumentItems(v, doc)) /\ Behind(FieldBlocks(v, doc), 0) = 0
           /\ Behind(FieldBlocks(v, doc), Len(Layout(v))) = Len(DocumentItems(v, doc))
           /\ \A k \in 0 .. Len(Layout(v)) : Behind(FieldBlocks(v, doc), k) \in Nat
           /\ \A k \in 1 .. Len(Layout(v)) :
                 Behind(FieldBlocks(v, doc), k)
                    = Behind(FieldBlocks(v, doc), k - 1) + Len(FieldItems(doc, Layout(v)[k]))
           /\ \A k \in 1 .. Len(Layout(v)) : \A j \in 1 .. Len(FieldItems(doc, Layout(v)[k])) :
                 /\ Behind(FieldBlocks(v, doc), k - 1) + j \in 1 .. Len(DocumentItems(v, doc))
                 /\ DocumentItems(v, doc)[Behind(FieldBlocks(v, doc), k - 1) + j]
                       = FieldItems(doc, Layout(v)[k])[j]
<1> DEFINE b == FieldBlocks(v, doc)
           n == Len(Layout(v))
<1>1. n \in Nat /\ DOMAIN Layout(v) = 1 .. n
  BY LayoutFacts
<1>2. DocumentItems(v, doc) = FlattenSeq(b)
  BY Zenon DEF DocumentItems, FieldBlocks
<1>3. DOMAIN b = 1 .. n /\ b = [k \in 1 .. n |-> b[k]] /\ \A k \in 1 .. n : b[k] = FieldItems(doc, Layout(v)[k])
  BY <1>1, Zenon DEF FieldBlocks
<1> HIDE DEF b, n
<1>4. IsList(b) /\ Len(b) = n
  BY <1>1, <1>3, ListMade
<1>5. \A k \in DOMAIN b : IsList(b[k])
  BY <1>3, FieldShape
<1>6. /\ IsList(FlattenSeq(b))
      /\ Behind(b, 0) = 0 /\ Behind(b, Len(b)) = Len(FlattenSeq(b))
      /\ \A i \in 0 .. Len(b) : Behind(b, i) \in Nat
      /\ \A i \in 1 .. Len(b) : Behind(b, i) = Behind(b, i - 1) + Len(b[i])
      /\ \A i \in 1 .. Len(b) : \A j \in 1 .. Len(b[i]) :
            /\ Behind(b, i - 1) + j \in 1 .. Len(FlattenSeq(b))
            /\ FlattenSeq(b)[Behind(b, i - 1) + j] = b[i][j]
  BY <1>4, <1>5, Blocks
<1> QED BY <1>2, <1>3, <1>4, <1>6, SMTT(30) DEF b, n

LEMMA PostingShape ==
    ASSUME NEW x, NEW t, NEW i
    PROVE  /\ IsList(PostingItems(x, t, i))
           /\ x.count[t][i] > 0 =>
                PostingItems(x, t, i) = <<<<"document", i - 1>>, <<"count", x.count[t][i]>>>>
           /\ ~(x.count[t][i] > 0) => PostingItems(x, t, i) = <<>>
<1>1. IsList(<<<<"document", i - 1>>, <<"count", x.count[t][i]>>>>)
  BY Pairing
<1>2. IsList(<<>>)
  <2>1. <<>> \in Seq({})
    OBVIOUS
  <2> QED BY <2>1, ListOf
<1> QED BY <1>1, <1>2, Zenon DEF PostingItems

LEMMA PostingsWritten ==
    ASSUME NEW x, IsIndex(x), NEW t
    PROVE  /\ IsList(TermItems(x, t)) /\ Behind(PostingBlocks(x, t), 0) = 0
           /\ Behind(PostingBlocks(x, t), Len(x.docs)) + 2 = Len(TermItems(x, t))
           /\ TermItems(x, t)[1] = <<"term", t>>
           /\ TermItems(x, t)[2] = <<"postings", Cardinality(Holders(x, t))>>
           /\ \A i \in 0 .. Len(x.docs) : Behind(PostingBlocks(x, t), i) \in Nat
           /\ \A i \in 1 .. Len(x.docs) :
                 Behind(PostingBlocks(x, t), i)
                    = Behind(PostingBlocks(x, t), i - 1) + Len(PostingItems(x, t, i))
           /\ \A i \in 1 .. Len(x.docs) : \A j \in 1 .. Len(PostingItems(x, t, i)) :
                 /\ 2 + Behind(PostingBlocks(x, t), i - 1) + j \in 1 .. Len(TermItems(x, t))
                 /\ TermItems(x, t)[2 + Behind(PostingBlocks(x, t), i - 1) + j]
                       = PostingItems(x, t, i)[j]
<1> DEFINE n == Len(x.docs)
           b == PostingBlocks(x, t)
           top == <<<<"term", t>>, <<"postings", Cardinality(Holders(x, t))>>>>
<1>1. n \in Nat /\ DOMAIN x.docs = 1 .. n
  BY DEF IsIndex
<1>2. TermItems(x, t) = top \o FlattenSeq(b)
  BY Zenon DEF TermItems, PostingBlocks, Holders
<1>3. DOMAIN b = 1 .. n /\ b = [k \in 1 .. n |-> b[k]] /\ \A k \in 1 .. n : b[k] = PostingItems(x, t, k)
  BY <1>1, Zenon DEF PostingBlocks
<1>4. IsList(top) /\ Len(top) = 2 /\ top[1] = <<"term", t>>
      /\ top[2] = <<"postings", Cardinality(Holders(x, t))>>
  BY Pairing
<1> HIDE DEF b, n, top
<1>5. IsList(b) /\ Len(b) = n
  BY <1>1, <1>3, ListMade
<1>6. \A k \in DOMAIN b : IsList(b[k])
  BY <1>3, PostingShape
<1>7. /\ IsList(FlattenSeq(b))
      /\ Behind(b, 0) = 0 /\ Behind(b, Len(b)) = Len(FlattenSeq(b))
      /\ \A i \in 0 .. Len(b) : Behind(b, i) \in Nat
      /\ \A i \in 1 .. Len(b) : Behind(b, i) = Behind(b, i - 1) + Len(b[i])
      /\ \A i \in 1 .. Len(b) : \A j \in 1 .. Len(b[i]) :
            /\ Behind(b, i - 1) + j \in 1 .. Len(FlattenSeq(b))
            /\ FlattenSeq(b)[Behind(b, i - 1) + j] = b[i][j]
  BY <1>5, <1>6, Blocks
<1>8. /\ IsList(top \o FlattenSeq(b)) /\ Len(FlattenSeq(b)) \in Nat
      /\ Len(top \o FlattenSeq(b)) = 2 + Len(FlattenSeq(b))
      /\ \A i \in 1 .. 2 : (top \o FlattenSeq(b))[i] = top[i]
      /\ \A i \in 1 .. Len(FlattenSeq(b)) : (top \o FlattenSeq(b))[2 + i] = FlattenSeq(b)[i]
  <2> DEFINE flat == FlattenSeq(b)
  <2>1. IsList(top) /\ IsList(flat) /\ Len(top) = 2
    BY <1>4, <1>7
  <2> HIDE DEF flat
  <2>2. /\ IsList(top \o flat) /\ Len(flat) \in Nat /\ Len(top \o flat) = Len(top) + Len(flat)
        /\ \A i \in 1 .. Len(top) : (top \o flat)[i] = top[i]
        /\ \A i \in 1 .. Len(flat) : (top \o flat)[Len(top) + i] = flat[i]
    <3> DEFINE A == {top[i] : i \in DOMAIN top} \cup {flat[i] : i \in DOMAIN flat}
    <3>1. top \in Seq(A) /\ flat \in Seq(A)
      BY <2>1 DEF IsList
    <3>2. IsList(top \o flat) /\ Len(flat) \in Nat
      BY <2>1, Joined, ListLength
    <3> HIDE DEF A
    <3>3. /\ Len(top \o flat) = Len(top) + Len(flat)
          /\ \A i \in 1 .. Len(top) : (top \o flat)[i] = top[i]
          /\ \A i \in 1 .. Len(flat) : (top \o flat)[Len(top) + i] = flat[i]
      BY <3>1, JoinedAt
    <3> QED BY <3>2, <3>3
  <2> QED BY <2>1, <2>2 DEF flat
<1> DEFINE items == TermItems(x, t)
           flat == FlattenSeq(b)
<1>9. items = top \o flat
  BY <1>2
<1> HIDE DEF items
<1>10. ASSUME NEW i \in 1 .. n, NEW j \in 1 .. Len(b[i])
       PROVE  2 + Behind(b, i - 1) + j \in 1 .. Len(items) /\ items[2 + Behind(b, i - 1) + j] = b[i][j]
  <2> DEFINE k == Behind(b, i - 1) + j
  <2>1. k \in 1 .. Len(flat) /\ flat[k] = b[i][j]
    BY <1>5, <1>7
  <2>2. i - 1 \in 0 .. n
    BY <1>1
  <2>3. 2 + Behind(b, i - 1) + j = 2 + k
    BY <1>5, <1>7, <2>2
  <2> HIDE DEF k
  <2>4. 2 + k \in 1 .. Len(items) /\ items[2 + k] = flat[k]
    BY <1>8, <1>9, <2>1
  <2> QED BY <2>1, <2>3, <2>4
<1>11. IsList(items) /\ Behind(b, n) + 2 = Len(items) /\ items[1] = top[1] /\ items[2] = top[2]
  <2>1. Behind(b, n) \in Nat /\ Behind(b, n) = Len(flat)
    BY <1>1, <1>5, <1>7
  <2> QED BY <1>8, <1>9, <2>1
<1>12. \A i \in 0 .. n : Behind(b, i) \in Nat
  BY <1>5, <1>7
<1>13. \A i \in 1 .. n : Behind(b, i) = Behind(b, i - 1) + Len(PostingItems(x, t, i))
  BY <1>3, <1>5, <1>7
<1>14. \A i \in 1 .. n : \A j \in 1 .. Len(PostingItems(x, t, i)) :
          /\ 2 + Behind(b, i - 1) + j \in 1 .. Len(items)
          /\ items[2 + Behind(b, i - 1) + j] = PostingItems(x, t, i)[j]
  BY <1>3, <1>10
<1> QED BY <1>4, <1>7, <1>11, <1>12, <1>13, <1>14, Zenon DEF b, n, items

\* What stands where in four lists one after the other, the first and the third of
\* one item.
InARow(a, b, c, d, s) ==
    /\ IsList(s) /\ Len(s) = 2 + Len(b) + Len(d) /\ s[1] = a[1] /\ s[2 + Len(b)] = c[1]
    /\ \A i \in 1 .. Len(b) : s[1 + i] = b[i]
    /\ \A i \in 1 .. Len(d) : s[2 + Len(b) + i] = d[i]

LEMMA FourParts ==
    ASSUME NEW a, NEW b, NEW c, NEW d, NEW s, s = a \o b \o c \o d,
           IsList(a), IsList(b), IsList(c), IsList(d), Len(a) = 1, Len(c) = 1
    PROVE  InARow(a, b, c, d, s)
<1> DEFINE U == {a[i] : i \in DOMAIN a} \cup {b[i] : i \in DOMAIN b}
                  \cup {c[i] : i \in DOMAIN c} \cup {d[i] : i \in DOMAIN d}
<1>1. a \in Seq(U) /\ b \in Seq(U) /\ c \in Seq(U) /\ d \in Seq(U)
  <2> DEFINE A == {a[i] : i \in DOMAIN a}
             B == {b[i] : i \in DOMAIN b}
             C == {c[i] : i \in DOMAIN c}
             D == {d[i] : i \in DOMAIN d}
  <2>1. a \in Seq(A) /\ b \in Seq(B) /\ c \in Seq(C) /\ d \in Seq(D)
    BY DEF IsList
  <2>2. A \subseteq U /\ B \subseteq U /\ C \subseteq U /\ D \subseteq U
    OBVIOUS
  <2> HIDE DEF A, B, C, D, U
  <2> QED BY <2>1, <2>2
<1> HIDE DEF U
<1> DEFINE ab == a \o b
           abc == ab \o c
<1>2. /\ ab \in Seq(U) /\ Len(ab) = 1 + Len(b) /\ ab[1] = a[1]
      /\ \A i \in 1 .. Len(b) : ab[1 + i] = b[i]
  <2>0. a \in Seq(U) /\ b \in Seq(U) /\ ab = a \o b
    BY <1>1
  <2> HIDE DEF ab
  <2>1. /\ ab \in Seq(U) /\ Len(ab) = Len(a) + Len(b)
        /\ \A i \in 1 .. Len(a) : ab[i] = a[i]
        /\ \A i \in 1 .. Len(b) : ab[Len(a) + i] = b[i]
    BY ONLY <2>0, JoinedAt
  <2> QED BY <2>1
<1> HIDE DEF ab
<1>3. /\ abc \in Seq(U) /\ Len(abc) = 2 + Len(b) /\ abc[2 + Len(b)] = c[1]
      /\ \A i \in 1 .. 1 + Len(b) : abc[i] = ab[i]
  <2>0. ab \in Seq(U) /\ c \in Seq(U) /\ abc = ab \o c
    BY <1>1, <1>2
  <2> HIDE DEF abc
  <2>1. /\ abc \in Seq(U) /\ Len(abc) = Len(ab) + Len(c)
        /\ \A i \in 1 .. Len(ab) : abc[i] = ab[i]
        /\ \A i \in 1 .. Len(c) : abc[Len(ab) + i] = c[i]
    BY ONLY <2>0, JoinedAt
  <2>2. Len(b) \in Nat
    BY <1>1
  <2>3. abc[Len(ab) + 1] = c[1] /\ Len(ab) + 1 = 2 + Len(b) /\ Len(abc) = 2 + Len(b)
    BY <1>2, <2>1, <2>2
  <2> QED BY <1>2, <2>1, <2>3
<1> HIDE DEF abc
<1>4. s = abc \o d
  BY DEF abc, ab
<1>5. /\ s \in Seq(U) /\ Len(s) = 2 + Len(b) + Len(d)
      /\ \A i \in 1 .. 2 + Len(b) : s[i] = abc[i]
      /\ \A i \in 1 .. Len(d) : s[2 + Len(b) + i] = d[i]
  <2>0. abc \in Seq(U) /\ d \in Seq(U) /\ s = abc \o d
    BY <1>1, <1>3, <1>4
  <2>1. /\ s \in Seq(U) /\ Len(s) = Len(abc) + Len(d)
        /\ \A i \in 1 .. Len(abc) : s[i] = abc[i]
        /\ \A i \in 1 .. Len(d) : s[Len(abc) + i] = d[i]
    BY ONLY <2>0, JoinedAt
  <2> QED BY <1>3, <2>1
<1>6. Len(b) \in Nat
  BY <1>1
<1>7. s[1] = a[1] /\ s[2 + Len(b)] = c[1]
  BY <1>2, <1>3, <1>5, <1>6
<1>8. \A i \in 1 .. Len(b) : s[1 + i] = b[i]
  <2> SUFFICES ASSUME NEW i \in 1 .. Len(b) PROVE s[1 + i] = b[i]
    OBVIOUS
  <2>1. 1 + i \in 1 .. 2 + Len(b)
    BY ONLY <1>6
  <2>2. s[1 + i] = abc[1 + i] /\ abc[1 + i] = b[i]
    BY <1>3, <1>5, <2>1
  <2> QED BY ONLY <2>2
<1>9. IsList(s)
  BY <1>5, ListOf
<1> QED BY <1>5, <1>7, <1>8, <1>9 DEF InARow

\* Where the items of some blocks are once they stand one after the other.
Laid(b) ==
    /\ IsList(FlattenSeq(b))
    /\ Behind(b, 0) = 0 /\ Behind(b, Len(b)) = Len(FlattenSeq(b))
    /\ \A i \in 0 .. Len(b) : Behind(b, i) \in Nat
    /\ \A i \in 1 .. Len(b) : Behind(b, i) = Behind(b, i - 1) + Len(b[i])
    /\ \A i \in 1 .. Len(b) : \A j \in 1 .. Len(b[i]) :
          /\ Behind(b, i - 1) + j \in 1 .. Len(FlattenSeq(b))
          /\ FlattenSeq(b)[Behind(b, i - 1) + j] = b[i][j]

LEMMA BlocksLaid ==
    ASSUME NEW b, IsList(b), \A i \in DOMAIN b : IsList(b[i])
    PROVE  Laid(b)
BY Blocks DEF Laid

LEMMA DocsWritten ==
    ASSUME NEW v \in Versions, NEW x, IsIndex(x)
    PROVE  /\ IsList(DocBlocks(v, x)) /\ Len(DocBlocks(v, x)) = Len(x.docs) /\ Laid(DocBlocks(v, x))
           /\ \A i \in 1 .. Len(x.docs) : DocBlocks(v, x)[i] = DocumentItems(v, x.docs[i])
<1> DEFINE b == DocBlocks(v, x)
           n == Len(x.docs)
<1>1. n \in Nat /\ DOMAIN x.docs = 1 .. n
  BY DEF IsIndex
<1>2. DOMAIN b = 1 .. n /\ b = [i \in 1 .. n |-> b[i]]
      /\ \A i \in 1 .. n : b[i] = DocumentItems(v, x.docs[i])
  BY <1>1, Zenon DEF DocBlocks
<1> HIDE DEF b, n
<1>3. IsList(b) /\ Len(b) = n
  BY <1>1, <1>2, ListMade
<1>4. \A i \in DOMAIN b : IsList(b[i])
  BY <1>2, FieldsWritten
<1>5. Laid(b)
  BY ONLY <1>3, <1>4, BlocksLaid
<1> QED BY <1>2, <1>3, <1>5 DEF b, n

LEMMA HeldFacts ==
    ASSUME NEW x
    PROVE  /\ IsList(Held(x)) /\ Len(Held(x)) \in Nat /\ DOMAIN Held(x) = 1 .. Len(Held(x))
           /\ \A k \in 1 .. Len(Held(x)) :
                 Held(x)[k] \in Words /\ \E i \in DOMAIN x.docs : x.count[Held(x)[k]][i] > 0
           /\ \A t \in Words : (\E i \in DOMAIN x.docs : x.count[t][i] > 0) =>
                 \E k \in 1 .. Len(Held(x)) : Held(x)[k] = t
           /\ \A j, k \in 1 .. Len(Held(x)) : Held(x)[j] = Held(x)[k] => j = k
<1> DEFINE H == {t \in Words : \E i \in DOMAIN x.docs : x.count[t][i] > 0}
           n == Cardinality(H)
<1>1. IsFiniteSet(H)
  BY WordsAssumption, FS_Subset
<1>2. Held(x) = SetToSeq(H)
  BY Zenon DEF Held
<1>3. \A t \in H : t \in Words /\ \E i \in DOMAIN x.docs : x.count[t][i] > 0
  OBVIOUS
<1>4. \A t \in Words : (\E i \in DOMAIN x.docs : x.count[t][i] > 0) => t \in H
  OBVIOUS
<1> HIDE DEF H
<1>5. n \in Nat /\ SetToSeq(H) \in [1 .. n -> H] /\ IsList(SetToSeq(H))
  BY <1>1, SetListed
<1>6. PICK f \in [1 .. n -> H] : IsInjective(f) /\ SetToSeq(H) = f
  <2>1. \E f \in [1 .. n -> H] : IsInjective(f)
    <3>1. ExistsBijection(1 .. n, H)
      BY <1>1, FS_CardinalityType
    <3>2. PICK f : f \in Bijection(1 .. n, H)
      BY <3>1 DEF ExistsBijection
    <3> QED BY <3>2 DEF Bijection, Injection, IsInjective
  <2>2. IsInjective(SetToSeq(H))
    BY <2>1 DEF SetToSeq
  <2> QED BY <1>5, <2>2
<1>7. \A j, k \in 1 .. n : f[j] = f[k] => j = k
  BY <1>6 DEF IsInjective
<1>8. \A t \in H : \E k \in 1 .. n : f[k] = t
  <2> DEFINE R == {f[k] : k \in 1 .. n}
  <2>1. R \subseteq H
    BY <1>6
  <2>2. f \in Bijection(1 .. n, R)
    <3>1. f \in [1 .. n -> R]
      BY <1>6
    <3> HIDE DEF R
    <3>2. \A t \in R : \E k \in 1 .. n : f[k] = t
      BY DEF R
    <3> QED BY <1>7, <3>1, <3>2 DEF Bijection, Injection, Surjection, IsInjective
  <2> HIDE DEF R
  <2>3. IsFiniteSet(R) /\ Cardinality(R) <= Cardinality(H) /\ (Cardinality(H) = Cardinality(R) => H = R)
    BY <1>1, <2>1, FS_Subset
  <2>4. Cardinality(R) = n
    <3>1. IsFiniteSet(1 .. n) /\ Cardinality(1 .. n) = n
      <4>1. 1 \in Int /\ n \in Int
        BY <1>5
      <4> QED BY <1>5, <4>1, FS_Interval
    <3>2. ExistsBijection(1 .. n, R)
      BY <2>2 DEF ExistsBijection
    <3> QED BY <2>3, <3>1, <3>2, FS_Bijection
  <2>5. H = R
    BY <2>3, <2>4
  <2> QED BY <2>5 DEF R
<1>9. Len(f) = n /\ DOMAIN f = 1 .. n
  BY <1>5, <1>6
<1> HIDE DEF n
<1> QED BY <1>2, <1>3, <1>4, <1>5, <1>6, <1>7, <1>8, <1>9

LEMMA TermsWritten ==
    ASSUME NEW x, IsIndex(x)
    PROVE  /\ IsList(TermBlocks(x)) /\ Len(TermBlocks(x)) = Len(Held(x)) /\ Laid(TermBlocks(x))
           /\ \A i \in 1 .. Len(Held(x)) : TermBlocks(x)[i] = TermItems(x, Held(x)[i])
<1> DEFINE b == TermBlocks(x)
           n == Len(Held(x))
<1>1. n \in Nat /\ DOMAIN Held(x) = 1 .. n
  BY HeldFacts
<1>2. DOMAIN b = 1 .. n /\ b = [i \in 1 .. n |-> b[i]]
      /\ \A i \in 1 .. n : b[i] = TermItems(x, Held(x)[i])
  BY <1>1, Zenon DEF TermBlocks
<1> HIDE DEF b, n
<1>3. IsList(b) /\ Len(b) = n
  BY <1>1, <1>2, ListMade
<1>4. \A i \in DOMAIN b : IsList(b[i])
  BY <1>2, PostingsWritten
<1>5. Laid(b)
  BY ONLY <1>3, <1>4, BlocksLaid
<1> QED BY <1>2, <1>3, <1>5 DEF b, n

\* The four parts of a stream.
StreamShape(v, x, s) ==
    /\ IsList(s) /\ Len(s) = AfterTerms(v, x, Len(Held(x)))
    /\ s[1] = <<"documents", Len(x.docs)>>
    /\ AfterDocs(v, x, Len(x.docs)) = 1 + Len(FlattenSeq(DocBlocks(v, x)))
    /\ s[AfterDocs(v, x, Len(x.docs)) + 1] = <<"terms", Len(Held(x))>>
    /\ \A i \in 1 .. Len(FlattenSeq(DocBlocks(v, x))) :
          1 + i \in 1 .. Len(s) /\ s[1 + i] = FlattenSeq(DocBlocks(v, x))[i]
    /\ \A i \in 1 .. Len(FlattenSeq(TermBlocks(x))) :
          /\ AfterDocs(v, x, Len(x.docs)) + 1 + i \in 1 .. Len(s)
          /\ s[AfterDocs(v, x, Len(x.docs)) + 1 + i] = FlattenSeq(TermBlocks(x))[i]
    /\ AfterDocs(v, x, Len(x.docs)) + 1 \in 1 .. Len(s)

LEMMA StreamParts ==
    ASSUME NEW v \in Versions, NEW x, IsIndex(x), NEW s, s = Stream(v, x)
    PROVE  StreamShape(v, x, s)
<1> DEFINE a == <<<<"documents", Len(x.docs)>>>>
           b == FlattenSeq(DocBlocks(v, x))
           c == <<<<"terms", Len(Held(x))>>>>
           d == FlattenSeq(TermBlocks(x))
<1>1. s = a \o b \o c \o d
  BY Zenon DEF Stream, DocBlocks, TermBlocks, Held
<1>2. IsList(b) /\ AfterDocs(v, x, Len(x.docs)) = 1 + Len(b)
  BY DocsWritten DEF AfterDocs, Laid
<1>3. IsList(d) /\ AfterTerms(v, x, Len(Held(x))) = AfterDocs(v, x, Len(x.docs)) + 1 + Len(d)
  BY TermsWritten DEF AfterTerms, Laid
<1>4. IsList(a) /\ IsList(c) /\ Len(a) = 1 /\ Len(c) = 1
  BY Pairing
<1>5. a[1] = <<"documents", Len(x.docs)>> /\ c[1] = <<"terms", Len(Held(x))>>
  OBVIOUS
<1> HIDE DEF a, b, c, d
<1>6. InARow(a, b, c, d, s)
  <2>1. /\ s = a \o b \o c \o d /\ IsList(a) /\ IsList(b) /\ IsList(c) /\ IsList(d)
        /\ Len(a) = 1 /\ Len(c) = 1
    BY <1>1, <1>2, <1>3, <1>4
  <2> QED BY ONLY <2>1, FourParts
<1> USE DEF InARow
<1>7. Len(b) \in Nat /\ Len(d) \in Nat
  BY <1>2, <1>3, ListLength
<1>8. AfterDocs(v, x, Len(x.docs)) + 1 = 2 + Len(b)
  BY <1>2, <1>7
<1>9. Len(s) = AfterTerms(v, x, Len(Held(x)))
  BY <1>3, <1>6, <1>7, <1>8
<1>10. \A i \in 1 .. Len(b) : 1 + i \in 1 .. Len(s)
  BY <1>6, <1>7
<1>11. \A i \in 1 .. Len(d) : 2 + Len(b) + i \in 1 .. Len(s)
  BY <1>6, <1>7
<1>12. 2 + Len(b) \in 1 .. Len(s)
  BY <1>6, <1>7
<1> DEFINE end == AfterDocs(v, x, Len(x.docs))
<1>13. end + 1 = 2 + Len(b) /\ end = 1 + Len(b)
  BY <1>2, <1>8
<1> HIDE DEF end
<1> QED BY <1>5, <1>6, <1>9, <1>10, <1>11, <1>12, <1>13 DEF StreamShape, b, d, end

LEMMA FieldsAt ==
    ASSUME NEW v \in Versions, NEW x, IsIndex(x), NEW s, s = Stream(v, x),
           NEW i \in 1 .. Len(x.docs)
    PROVE  /\ AfterDocs(v, x, 0) = 1
           /\ AfterFields(v, x, i, 0) = AfterDocs(v, x, i - 1)
           /\ AfterFields(v, x, i, Len(Layout(v))) = AfterDocs(v, x, i)
           /\ \A k \in 0 .. Len(Layout(v)) : AfterFields(v, x, i, k) \in Nat
           /\ \A k \in 1 .. Len(Layout(v)) :
                 AfterFields(v, x, i, k)
                    = AfterFields(v, x, i, k - 1) + Len(FieldItems(x.docs[i], Layout(v)[k]))
           /\ \A k \in 1 .. Len(Layout(v)) : \A j \in 1 .. Len(FieldItems(x.docs[i], Layout(v)[k])) :
                 /\ AfterFields(v, x, i, k - 1) + j \in 1 .. Len(s)
                 /\ s[AfterFields(v, x, i, k - 1) + j] = FieldItems(x.docs[i], Layout(v)[k])[j]
<1> DEFINE b == DocBlocks(v, x)
           flat == FlattenSeq(b)
           f == FieldBlocks(v, x.docs[i])
           items == DocumentItems(v, x.docs[i])
           n == Len(Layout(v))
           L(k) == Len(FieldItems(x.docs[i], Layout(v)[k]))
           item(k, j) == FieldItems(x.docs[i], Layout(v)[k])[j]
<1>1. Len(x.docs) \in Nat /\ n \in Nat
  BY LayoutFacts DEF IsIndex
<1>2. /\ Len(b) = Len(x.docs) /\ Behind(b, 0) = 0
      /\ \A k \in 0 .. Len(b) : Behind(b, k) \in Nat
      /\ b[i] = items /\ Behind(b, i) = Behind(b, i - 1) + Len(items)
      /\ \A j \in 1 .. Len(items) : /\ Behind(b, i - 1) + j \in 1 .. Len(flat)
                                    /\ flat[Behind(b, i - 1) + j] = items[j]
  <2>1. Len(b) = Len(x.docs) /\ Laid(b) /\ \A k \in 1 .. Len(x.docs) : b[k] = DocumentItems(v, x.docs[k])
    BY DocsWritten
  <2> HIDE DEF b
  <2>2. b[i] = items
    BY <2>1
  <2> QED BY <2>1, <2>2 DEF Laid
<1>3. /\ IsList(items) /\ Behind(f, 0) = 0 /\ Behind(f, n) = Len(items)
      /\ \A k \in 0 .. n : Behind(f, k) \in Nat
      /\ \A k \in 1 .. n : Behind(f, k) = Behind(f, k - 1) + L(k)
      /\ \A k \in 1 .. n : \A j \in 1 .. L(k) : /\ Behind(f, k - 1) + j \in 1 .. Len(items)
                                                /\ items[Behind(f, k - 1) + j] = item(k, j)
  BY FieldsWritten
<1>4. \A k \in 1 .. Len(flat) : 1 + k \in 1 .. Len(s) /\ s[1 + k] = flat[k]
  <2>1. StreamShape(v, x, s)
    BY StreamParts
  <2> QED BY <2>1 DEF StreamShape
<1>5. \A k \in 1 .. n : L(k) \in Nat
  BY FieldShape
<1>6. /\ AfterDocs(v, x, 0) = 1 + Behind(b, 0)
      /\ AfterDocs(v, x, i) = 1 + Behind(b, i) /\ AfterDocs(v, x, i - 1) = 1 + Behind(b, i - 1)
      /\ \A k : AfterFields(v, x, i, k) = 1 + Behind(b, i - 1) + Behind(f, k)
  BY DEF AfterDocs, AfterFields
<1> HIDE DEF b, flat, f, items, n, L, item
<1> DEFINE base == Behind(b, i - 1)
<1>7. base \in Nat
  BY <1>1, <1>2
<1>8. \A k \in 0 .. n : AfterFields(v, x, i, k) \in Nat
  BY <1>3, <1>6, <1>7
<1>9. ASSUME NEW k \in 1 .. n
      PROVE  /\ AfterFields(v, x, i, k) = AfterFields(v, x, i, k - 1) + L(k)
             /\ \A j \in 1 .. L(k) : /\ AfterFields(v, x, i, k - 1) + j \in 1 .. Len(s)
                                     /\ s[AfterFields(v, x, i, k - 1) + j] = item(k, j)
  <2>1. k - 1 \in 0 .. n /\ Behind(f, k - 1) \in Nat /\ L(k) \in Nat
    BY <1>1, <1>3, <1>5
  <2>2. AfterFields(v, x, i, k) = 1 + base + Behind(f, k)
        /\ AfterFields(v, x, i, k - 1) = 1 + base + Behind(f, k - 1)
    BY <1>6
  <2>3. AfterFields(v, x, i, k) = AfterFields(v, x, i, k - 1) + L(k)
    BY <1>3, <1>7, <2>1, <2>2
  <2>4. ASSUME NEW j \in 1 .. L(k)
        PROVE  /\ AfterFields(v, x, i, k - 1) + j \in 1 .. Len(s)
               /\ s[AfterFields(v, x, i, k - 1) + j] = item(k, j)
    <3> DEFINE p == Behind(f, k - 1) + j
               q == base + p
    <3>1. p \in 1 .. Len(items) /\ items[p] = item(k, j)
      BY <1>3
    <3>2. q \in 1 .. Len(flat) /\ flat[q] = items[p]
      BY <1>2, <3>1
    <3>3. 1 + q \in 1 .. Len(s) /\ s[1 + q] = flat[q]
      BY <1>4, <3>2
    <3>4. AfterFields(v, x, i, k - 1) + j = 1 + q
      <4> DEFINE y == Behind(f, k - 1)
                 z == AfterFields(v, x, i, k - 1)
      <4>1. y \in Nat /\ base \in Nat /\ j \in Int /\ z = 1 + base + y
        BY <1>5, <1>7, <2>1, <2>2
      <4>2. p = y + j /\ q = base + p
        OBVIOUS
      <4> HIDE DEF y, z, p, q, base
      <4>3. z + j = 1 + q
        BY <4>1, <4>2
      <4> QED BY <4>3 DEF y, z
    <3> HIDE DEF p, q
    <3> QED BY <3>1, <3>2, <3>3, <3>4
  <2> QED BY <2>3, <2>4
<1>10. AfterFields(v, x, i, 0) = AfterDocs(v, x, i - 1) /\ AfterFields(v, x, i, n) = AfterDocs(v, x, i)
  BY <1>2, <1>3, <1>6, <1>7
<1>11. AfterDocs(v, x, 0) = 1
  BY <1>2, <1>6
<1> QED BY <1>8, <1>9, <1>10, <1>11 DEF n, L, item

\* Where the k-th term and its postings stand.
TermShape(v, x, s, k) ==
    /\ AfterTerms(v, x, k - 1) \in Nat /\ AfterTerms(v, x, k) \in Nat
    /\ AfterTerms(v, x, k - 1) + 2 <= Len(s)
    /\ s[AfterTerms(v, x, k - 1) + 1] = <<"term", Held(x)[k]>>
    /\ s[AfterTerms(v, x, k - 1) + 2] = <<"postings", Cardinality(Holders(x, Held(x)[k]))>>
    /\ AfterPostings(v, x, k, 0) = AfterTerms(v, x, k - 1) + 2
    /\ AfterPostings(v, x, k, Len(x.docs)) = AfterTerms(v, x, k)
    /\ \A i \in 0 .. Len(x.docs) : AfterPostings(v, x, k, i) \in Nat
    /\ \A i \in 1 .. Len(x.docs) :
          AfterPostings(v, x, k, i)
             = AfterPostings(v, x, k, i - 1) + Len(PostingItems(x, Held(x)[k], i))
    /\ \A i \in 1 .. Len(x.docs) : \A j \in 1 .. Len(PostingItems(x, Held(x)[k], i)) :
          /\ AfterPostings(v, x, k, i - 1) + j \in 1 .. Len(s)
          /\ s[AfterPostings(v, x, k, i - 1) + j] = PostingItems(x, Held(x)[k], i)[j]

LEMMA TermsAt ==
    ASSUME NEW v \in Versions, NEW x, IsIndex(x), NEW s, s = Stream(v, x),
           NEW k \in 1 .. Len(Held(x))
    PROVE  TermShape(v, x, s, k)
<1> DEFINE b == TermBlocks(x)
           flat == FlattenSeq(b)
           t == Held(x)[k]
           f == PostingBlocks(x, t)
           items == TermItems(x, t)
           n == Len(x.docs)
           L(i) == Len(PostingItems(x, t, i))
           item(i, j) == PostingItems(x, t, i)[j]
           end == AfterDocs(v, x, n)
           base == end + 1 + Behind(b, k - 1)
<1>1. n \in Nat /\ Len(Held(x)) \in Nat
  BY HeldFacts DEF IsIndex
<1>2. /\ Len(b) = Len(Held(x)) /\ Behind(b, k - 1) \in Nat /\ Behind(b, k) \in Nat
      /\ Behind(b, k) = Behind(b, k - 1) + Len(items)
      /\ \A j \in 1 .. Len(items) : /\ Behind(b, k - 1) + j \in 1 .. Len(flat)
                                    /\ flat[Behind(b, k - 1) + j] = items[j]
  <2>1. Len(b) = Len(Held(x)) /\ Laid(b) /\ \A i \in 1 .. Len(Held(x)) : b[i] = TermItems(x, Held(x)[i])
    BY TermsWritten
  <2>2. b[k] = items
    BY <2>1
  <2> HIDE DEF b
  <2>3. k - 1 \in 0 .. Len(b) /\ k \in 0 .. Len(b)
    BY <1>1, <2>1
  <2> QED BY <2>1, <2>2, <2>3 DEF Laid
<1>3. /\ IsList(items) /\ Behind(f, 0) = 0 /\ Behind(f, n) + 2 = Len(items)
      /\ items[1] = <<"term", t>> /\ items[2] = <<"postings", Cardinality(Holders(x, t))>>
      /\ \A i \in 0 .. n : Behind(f, i) \in Nat
      /\ \A i \in 1 .. n : Behind(f, i) = Behind(f, i - 1) + L(i)
      /\ \A i \in 1 .. n : \A j \in 1 .. L(i) : /\ 2 + Behind(f, i - 1) + j \in 1 .. Len(items)
                                                /\ items[2 + Behind(f, i - 1) + j] = item(i, j)
  BY PostingsWritten
<1>4. \A i \in 1 .. Len(flat) : end + 1 + i \in 1 .. Len(s) /\ s[end + 1 + i] = flat[i]
  BY StreamParts DEF StreamShape
<1>5. end \in Nat /\ Len(flat) \in Nat
  <2>1. Len(FlattenSeq(DocBlocks(v, x))) \in Nat
    BY DocsWritten, ListLength DEF Laid
  <2>2. Len(flat) \in Nat
    BY TermsWritten, ListLength DEF Laid
  <2> QED BY <2>1, <2>2, StreamParts DEF StreamShape
<1>6. \A i \in 1 .. n : L(i) \in Nat
  BY PostingShape, ListLength
<1>7. /\ AfterTerms(v, x, k - 1) = base /\ AfterTerms(v, x, k) = end + 1 + Behind(b, k)
      /\ \A i : AfterPostings(v, x, k, i) = base + 2 + Behind(f, i)
  BY Zenon DEF AfterTerms, AfterPostings
<1>8. base \in Nat /\ AfterTerms(v, x, k) = base + Len(items) /\ Len(items) \in Nat
  <2>1. Len(items) \in Nat
    BY <1>3, ListLength
  <2> DEFINE y == Behind(b, k - 1)
             z == Behind(b, k)
             l == Len(items)
  <2>2. y \in Nat /\ z = y + l /\ l \in Nat /\ end \in Nat
    BY <1>2, <1>5, <2>1
  <2> HIDE DEF y, z, l, end
  <2>3. end + 1 + y \in Nat /\ end + 1 + z = (end + 1 + y) + l
    BY <2>2
  <2> QED BY <1>7, <2>1, <2>3 DEF y, z, l
<1>9. \A j \in 1 .. Len(items) : base + j \in 1 .. Len(s) /\ s[base + j] = items[j]
  <2> SUFFICES ASSUME NEW j \in 1 .. Len(items)
               PROVE  base + j \in 1 .. Len(s) /\ s[base + j] = items[j]
    OBVIOUS
  <2> DEFINE p == Behind(b, k - 1) + j
  <2>1. p \in 1 .. Len(flat) /\ flat[p] = items[j]
    BY <1>2
  <2>2. base + j = end + 1 + p
    <3> HIDE DEF b, flat, f, items, n, L, item, end
    <3> QED BY <1>2, <1>5
  <2> HIDE DEF p, base, b, flat, f, items, n, L, item, end
  <2>3. end + 1 + p \in 1 .. Len(s) /\ s[end + 1 + p] = flat[p]
    BY <1>4, <2>1
  <2> QED BY <2>1, <2>2, <2>3
<1> HIDE DEF b, flat, f, items, n, L, item, end, base
<1>10. Behind(f, n) \in Nat /\ Len(items) >= 2
  <2>1. n \in 0 .. n
    BY <1>1
  <2> QED BY <1>3, <2>1
<1>11. /\ base + 1 \in 1 .. Len(s) /\ base + 2 \in 1 .. Len(s)
       /\ s[base + 1] = items[1] /\ s[base + 2] = items[2]
  BY <1>8, <1>9, <1>10
<1>12. base + 2 <= Len(s)
  BY <1>11, <1>8
<1>13. /\ AfterPostings(v, x, k, 0) = base + 2
       /\ AfterPostings(v, x, k, n) = AfterTerms(v, x, k)
  <2>1. /\ AfterPostings(v, x, k, 0) = base + 2 + Behind(f, 0)
        /\ AfterPostings(v, x, k, n) = base + 2 + Behind(f, n)
    BY <1>7
  <2>2. Behind(f, 0) = 0 /\ Behind(f, n) + 2 = Len(items)
    BY <1>3
  <2>3. base + 2 + 0 = base + 2 /\ base + 2 + Behind(f, n) = base + (Behind(f, n) + 2)
    BY ONLY <1>8, <1>10
  <2> QED BY ONLY <1>8, <2>1, <2>2, <2>3
<1>14. \A i \in 0 .. n : AfterPostings(v, x, k, i) \in Nat
  <2> SUFFICES ASSUME NEW i \in 0 .. n PROVE AfterPostings(v, x, k, i) \in Nat
    OBVIOUS
  <2>1. AfterPostings(v, x, k, i) = base + 2 + Behind(f, i) /\ Behind(f, i) \in Nat
    BY <1>3, <1>7
  <2> QED BY ONLY <1>8, <2>1
<1>15. ASSUME NEW i \in 1 .. n
       PROVE  /\ AfterPostings(v, x, k, i) = AfterPostings(v, x, k, i - 1) + L(i)
              /\ \A j \in 1 .. L(i) : /\ AfterPostings(v, x, k, i - 1) + j \in 1 .. Len(s)
                                      /\ s[AfterPostings(v, x, k, i - 1) + j] = item(i, j)
  <2>1. i - 1 \in 0 .. n /\ Behind(f, i - 1) \in Nat /\ L(i) \in Nat
    BY <1>1, <1>3, <1>6
  <2> DEFINE y == Behind(f, i - 1)
             z == AfterPostings(v, x, k, i - 1)
  <2>2. AfterPostings(v, x, k, i) = base + 2 + Behind(f, i) /\ z = base + 2 + y
    BY <1>7
  <2>3. Behind(f, i) = y + L(i)
    BY <1>3
  <2> HIDE DEF y, z
  <2>4. y \in Nat
    BY <2>1 DEF y
  <2>5. AfterPostings(v, x, k, i) = z + L(i)
    <3> DEFINE l == L(i)
               w == Behind(f, i)
    <3>1. l \in Nat /\ w = y + l /\ AfterPostings(v, x, k, i) = base + 2 + w
      BY <2>1, <2>2, <2>3
    <3> HIDE DEF l, w
    <3>2. base + 2 + w = z + l
      BY <1>8, <2>2, <2>4, <3>1
    <3> QED BY <3>1, <3>2 DEF l
  <2>6. ASSUME NEW j \in 1 .. L(i) PROVE z + j \in 1 .. Len(s) /\ s[z + j] = item(i, j)
    <3> DEFINE p == 2 + y + j
    <3>1. p \in 1 .. Len(items) /\ items[p] = item(i, j)
      BY <1>3 DEF y
    <3>2. z + j = base + p
      BY <1>8, <2>1, <2>2, <2>4
    <3> HIDE DEF p
    <3>3. base + p \in 1 .. Len(s) /\ s[base + p] = items[p]
      BY <1>9, <3>1
    <3> QED BY <3>1, <3>2, <3>3
  <2> QED BY <2>5, <2>6 DEF z
<1>16. AfterTerms(v, x, k) \in Nat
  BY <1>8
<1> QED BY <1>3, <1>7, <1>8, <1>11, <1>12, <1>13, <1>14, <1>15, <1>16 DEF TermShape, n, t, L, item
-----------------------------------------------------------------------------
(* What has become of a file, and how far it has been read.                *)

\* The item stands where the reader has to refuse it.
Refused(item, spoilt, n) ==
    \/ item[1] = "flag" /\ spoilt = <<"flag", 2>>
    \/ item[1] = "dir" /\ spoilt = <<"dir", 0>>
    \/ item[1] = "document" /\ spoilt = <<"document", n>>
    \/ item[1] = "documents" /\ spoilt = <<"documents", MaxDocs + 1>>

\* F is what is left of the stream S of n documents: cut short, or spoilt.
Remains(F, S, n) ==
    /\ IsList(F) /\ Len(F) <= Len(S)
    /\ \A i \in 1 .. Len(F) : F[i] = S[i] \/ Refused(S[i], F[i], n)

\* The first p items of F have been read.
At(r, F, p) ==
    /\ p \in Nat /\ IsList(r) /\ p + Len(r) = Len(F)
    /\ \A i \in 1 .. Len(r) : r[i] = F[p + i]

FirstDocs(v, x, i) == [j \in 1 .. i |-> AsRead(v, x.docs[j])]

\* A directory that reads 0 is the only field that may be another.
FieldsRead(v, x, F, fs, i, k) ==
    /\ IsList(fs) /\ Len(fs) = k
    /\ \A q \in 1 .. k : \/ fs[q] = x.docs[i][Layout(v)[q]]
                         \/ q = 1 /\ fs[q] = 0 /\ F # Stream(v, x)

\* The counts of the first k - 1 terms, and of the k-th in the first i documents.
Reached(x, k, i, t, d) ==
    \/ \E q \in 1 .. k - 1 : Held(x)[q] = t
    \/ k <= Len(Held(x)) /\ Held(x)[k] = t /\ d <= i

Counted(x, k, i) ==
    [t \in Words |-> [d \in DOMAIN x.docs |->
                         IF Reached(x, k, i, t, d) THEN x.count[t][d] ELSE 0]]

AtDocuments(v, x, F, r, ds, fs) == At(r, F, 0) /\ ds = <<>> /\ fs = <<>>

AtField(v, x, F, r, ds, fs, l) ==
    \E i \in 1 .. Len(x.docs), k \in 1 .. Len(Layout(v)) :
        /\ At(r, F, AfterFields(v, x, i, k - 1))
        /\ ds = FirstDocs(v, x, i - 1) /\ FieldsRead(v, x, F, fs, i, k - 1)
        /\ l = Len(x.docs) - i + 1

AtDocument(v, x, F, r, ds, fs, l) ==
    \E i \in 1 .. Len(x.docs) :
        /\ At(r, F, AfterDocs(v, x, i))
        /\ ds = FirstDocs(v, x, i - 1) /\ FieldsRead(v, x, F, fs, i, Len(Layout(v)))
        /\ l = Len(x.docs) - i + 1

AtTerms(v, x, F, r, ds) ==
    At(r, F, AfterDocs(v, x, Len(x.docs))) /\ ds = FirstDocs(v, x, Len(x.docs))

AtTerm(v, x, F, r, ds, l, c) ==
    \E k \in 1 .. Len(Held(x)) :
        /\ At(r, F, AfterTerms(v, x, k - 1)) /\ ds = FirstDocs(v, x, Len(x.docs))
        /\ l = Len(Held(x)) - k + 1 /\ c = Counted(x, k, 0)

AtPosting(v, x, F, r, ds, l, t, p, c) ==
    \E k \in 1 .. Len(Held(x)), i \in 0 .. Len(x.docs) :
        /\ At(r, F, AfterPostings(v, x, k, i)) /\ ds = FirstDocs(v, x, Len(x.docs))
        /\ t = Held(x)[k] /\ l = Len(Held(x)) - k
        /\ p = Cardinality({d \in Holders(x, t) : d > i}) /\ p > 0
        /\ c = Counted(x, k, i)

WholeRead(v, x, ds, c) == ds = FirstDocs(v, x, Len(x.docs)) /\ c = x.count

\* How far load has come.
ReadSoFar(ph, v, x, F, r, ds, fs, l, t, p, c) ==
    /\ ph \in {"rebuild", "stored", "damaged"} => ds = <<>> /\ fs = <<>>
    /\ ph = "documents" => AtDocuments(v, x, F, r, ds, fs)
    /\ ph = "field" => AtField(v, x, F, r, ds, fs, l)
    /\ ph = "document" => AtDocument(v, x, F, r, ds, fs, l)
    /\ ph = "terms" => AtTerms(v, x, F, r, ds)
    /\ ph = "term" => AtTerm(v, x, F, r, ds, l, c)
    /\ ph = "posting" => AtPosting(v, x, F, r, ds, l, t, p, c)
    /\ ph = "read" => WholeRead(v, x, ds, c)

ReaderInv ==
    ReadSoFar(phase, file.magic, Build(library), file.stream, rest, docs, fields, left, term,
              postings, count)

Loading == Reading \/ phase = "read"

\* Until the file is damaged it is whole, and what can be read of it later is what is
\* left of it.
FileInv ==
    /\ library \in Libraries
    /\ phase \in {"rebuild", "stored"} =>
          file = Missing \/ \E v \in Versions : file = File(v, Build(library))
    /\ Readable => Remains(file.stream, Stream(file.magic, Build(library)), Len(library))
    /\ Loading => Readable

\* The search begins when the index has been read, or not.
PhaseInv ==
    /\ phase \in {"rebuild", "stored", "damaged", "documents", "field", "document", "terms",
                  "term", "posting", "read", "fallback", "failed", "ranking"}
    /\ pc = "idle" <=> phase # "ranking"
    /\ pc = "idle" => via = "manifests" /\ RankingInit

LInv == PhaseInv /\ FileInv /\ ReaderInv /\ WholeIndexUsed /\ IndexReadBack

\* A file of version v, made for the index x, that load has opened.
Opened(v, x, F) ==
    /\ v \in Versions /\ IsIndex(x) /\ \A i \in 1 .. Len(x.docs) : x.docs[i].dir # 0
    /\ Remains(F, Stream(v, x), Len(x.docs))

\* What the rest r holds behind the first p items of F, which is left of s.
Onward(F, r, p, s, n) ==
    /\ p \in Nat /\ Len(r) \in Nat /\ p + Len(r) <= Len(s) /\ Len(s) \in Nat
    /\ r # <<>> => Len(r) >= 1 /\ Head(r) = r[1]
    /\ Len(r) >= 1 => r # <<>>
    /\ \A j \in 1 .. Len(r) : r[j] = s[p + j] \/ Refused(s[p + j], r[j], n)
    /\ F = s => Len(r) = Len(s) - p
    /\ F = s /\ p + 1 <= Len(s) => r # <<>>
    /\ F = s => \A j \in 1 .. Len(r) : r[j] = s[p + j]

LEMMA AtNext ==
    ASSUME NEW v, NEW x, NEW F, Opened(v, x, F), NEW r, NEW p, At(r, F, p),
           NEW s, s = Stream(v, x)
    PROVE  Onward(F, r, p, s, Len(x.docs))
<1> DEFINE R == {r[i] : i \in DOMAIN r}
<1>1. r \in Seq(R)
  BY DEF At, IsList
<1> HIDE DEF R
<1>2. Len(r) \in Nat /\ (r # <<>> => Len(r) >= 1 /\ Head(r) = r[1]) /\ (Len(r) > 0 => r # <<>>)
  BY <1>1
<1>3. p \in Nat /\ p + Len(r) = Len(F) /\ \A i \in 1 .. Len(r) : r[i] = F[p + i]
  BY DEF At
<1>4. /\ Len(F) <= Len(s) /\ Len(F) \in Nat
      /\ \A i \in 1 .. Len(F) : F[i] = s[i] \/ Refused(s[i], F[i], Len(x.docs))
  BY ListLength DEF Opened, Remains
<1>5. IsList(s)
  BY StreamParts DEF Opened, StreamShape
<1>6. Len(s) \in Nat
  BY <1>5, ListLength
<1>7. \A j \in 1 .. Len(r) : p + j \in 1 .. Len(F)
  BY <1>2, <1>3
<1>8. \A j \in 1 .. Len(r) : r[j] = s[p + j] \/ Refused(s[p + j], r[j], Len(x.docs))
  BY <1>3, <1>4, <1>7
<1>9. F = s => Len(r) = Len(s) - p /\ (p + 1 <= Len(s) => r # <<>>)
  BY <1>2, <1>3, <1>6
<1> QED BY <1>2, <1>3, <1>4, <1>6, <1>8, <1>9 DEF Onward

LEMMA AtMoves ==
    ASSUME NEW F, NEW r, NEW p, At(r, F, p), NEW j \in Nat, j <= Len(r),
           NEW u, u = SubSeq(r, j + 1, Len(r))
    PROVE  At(u, F, p + j)
<1> DEFINE R == {r[i] : i \in DOMAIN r}
<1>1. r \in Seq(R)
  BY DEF At, IsList
<1> HIDE DEF R
<1>2. u \in Seq(R) /\ Len(u) = Len(r) - j /\ \A i \in 1 .. Len(r) - j : u[i] = r[j + i]
  BY <1>1
<1>3. IsList(u)
  BY <1>2, ListOf
<1>4. p \in Nat /\ Len(r) \in Nat /\ p + Len(r) = Len(F) /\ \A i \in 1 .. Len(r) : r[i] = F[p + i]
  <2>1. Len(r) \in Nat
    BY <1>1
  <2>2. p \in Nat /\ p + Len(r) = Len(F) /\ \A i \in 1 .. Len(r) : r[i] = F[p + i]
    BY DEF At
  <2> QED BY <2>1, <2>2
<1>5. \A i \in 1 .. Len(u) : u[i] = F[(p + j) + i]
  <2> SUFFICES ASSUME NEW i \in 1 .. Len(u) PROVE u[i] = F[(p + j) + i]
    OBVIOUS
  <2>1. u[i] = r[j + i] /\ j + i \in 1 .. Len(r)
    BY <1>2, <1>4
  <2>2. r[j + i] = F[p + (j + i)]
    BY <1>4, <2>1
  <2>3. p + (j + i) = (p + j) + i
    <3>1. p \in Int /\ j \in Int /\ i \in Int
      BY <1>4
    <3> QED BY ONLY <3>1
  <2> QED BY <2>1, <2>2, <2>3
<1>6. (p + j) + Len(u) = Len(F) /\ p + j \in Nat
  <2> DEFINE a == Len(u)
             b == Len(r)
             c == Len(F)
  <2>1. p \in Nat /\ j \in Nat /\ b \in Nat /\ p + b = c /\ a = b - j
    BY <1>2, <1>4
  <2> HIDE DEF a, b, c
  <2>2. (p + j) + a = c /\ p + j \in Nat
    BY ONLY <2>1
  <2> QED BY <2>2 DEF a, c
<1> QED BY <1>3, <1>5, <1>6 DEF At

LEMMA DocumentCountRead ==
    ASSUME NEW v, NEW x, NEW F, Opened(v, x, F), NEW r, NEW ds, NEW fs,
           AtDocuments(v, x, F, r, ds, fs), Len(x.docs) <= MaxDocs,
           NEW u, u = SubSeq(r, 2, Len(r))
    PROVE  /\ F = Stream(v, x) => r # <<>> /\ Head(r)[2] <= MaxDocs
           /\ r # <<>> /\ Head(r)[2] <= MaxDocs =>
                /\ Head(r)[2] = Len(x.docs)
                /\ IF Len(x.docs) = 0 THEN AtTerms(v, x, F, u, ds)
                                      ELSE AtField(v, x, F, u, ds, fs, Len(x.docs))
<1> DEFINE s == Stream(v, x)
           n == Len(x.docs)
<1>1. v \in Versions /\ IsIndex(x) /\ n \in Nat
  BY DEF Opened, IsIndex
<1>2. s[1] = <<"documents", n>> /\ AfterDocs(v, x, n) + 1 \in 1 .. Len(s)
  BY <1>1, StreamParts DEF StreamShape
<1>3. AfterDocs(v, x, 0) = 1
  <2>1. Behind(DocBlocks(v, x), 0) = 0
    BY <1>1, DocsWritten DEF Laid
  <2> QED BY <2>1 DEF AfterDocs
<1>4. At(r, F, 0) /\ ds = <<>> /\ fs = <<>>
  BY DEF AtDocuments
<1>5. s = Stream(v, x)
  OBVIOUS
<1> HIDE DEF s
<1>6. Onward(F, r, 0, s, n)
  BY ONLY <1>4, <1>5, Opened(v, x, F), AtNext DEF n
<1>7. ASSUME F = s PROVE r # <<>> /\ Head(r)[2] <= MaxDocs
  <2>1. r # <<>> /\ Head(r) = s[1]
    BY <1>2, <1>6, <1>7 DEF Onward
  <2> QED BY <1>2, <2>1
<1>8. ASSUME r # <<>>, Head(r)[2] <= MaxDocs
      PROVE  /\ Head(r)[2] = n
             /\ IF n = 0 THEN AtTerms(v, x, F, u, ds)
                         ELSE AtField(v, x, F, u, ds, fs, n)
  <2>1. Head(r) = r[1] /\ (r[1] = s[1] \/ Refused(s[1], r[1], n)) /\ 1 <= Len(r)
    BY <1>6, <1>8 DEF Onward
  <2>2. ~Refused(s[1], r[1], n)
    <3>1. Refused(s[1], r[1], n) <=> r[1] = <<"documents", MaxDocs + 1>>
      BY <1>2 DEF Refused
    <3>2. r[1] = <<"documents", MaxDocs + 1>> => Head(r)[2] = MaxDocs + 1
      BY <2>1
    <3>3. ~(MaxDocs + 1 <= MaxDocs)
      BY WeightAssumption
    <3> QED BY <1>8, <3>1, <3>2, <3>3
  <2>3. Head(r)[2] = n
    BY <1>2, <2>1, <2>2
  <2>4. At(u, F, 0 + 1)
    <3>1. u = SubSeq(r, 1 + 1, Len(r)) /\ 1 \in Nat
      OBVIOUS
    <3> QED BY ONLY <1>4, <2>1, <3>1, AtMoves
  <2>5. At(u, F, AfterDocs(v, x, 0))
    BY <1>3, <2>4
  <2>6. ds = FirstDocs(v, x, 0)
    BY <1>4 DEF FirstDocs
  <2>7. CASE n = 0
    BY <2>3, <2>5, <2>6, <2>7 DEF AtTerms
  <2>8. CASE n # 0
    <3>1. 1 \in 1 .. n /\ 1 \in 1 .. Len(Layout(v)) /\ n = n - 1 + 1 /\ 1 - 1 = 0
      BY <1>1, <2>8, LayoutFacts
    <3>2. AfterFields(v, x, 1, 0) = AfterDocs(v, x, 0)
      BY <1>1, <3>1, FieldsAt
    <3>3. FieldsRead(v, x, F, fs, 1, 0)
      <4>1. IsList(fs) /\ Len(fs) = 0
        <5>1. fs \in Seq({})
          BY <1>4
        <5> QED BY <1>4, <5>1, ListOf
      <4> QED BY <4>1 DEF FieldsRead
    <3>4. AtField(v, x, F, u, ds, fs, n)
      BY <2>5, <2>6, <3>1, <3>2, <3>3 DEF AtField
    <3> QED BY <2>3, <2>8, <3>4
  <2> QED BY <2>7, <2>8
<1> QED BY <1>7, <1>8 DEF s

LEMMA Singles ==
    ASSUME NEW a, NEW b, NEW s
    PROVE  /\ s = <<a>> => Len(s) = 1 /\ s[1] = a
           /\ s = <<a, b>> => Len(s) = 2 /\ s[1] = a /\ s[2] = b
OBVIOUS

\* The items of a field, one by one.
Pieces(items, l, f, val) ==
    /\ f \notin Optional => l = 1 /\ items[1] = <<f, val>>
    /\ f \in Optional /\ val = None => l = 1 /\ items[1] = <<"flag", 0>>
    /\ f \in Optional /\ val # None => l = 2 /\ items[1] = <<"flag", 1>> /\ items[2] = <<f, val>>
    /\ l \in 1 .. 2 /\ 1 \in 1 .. l /\ (l = 2 => 2 \in 1 .. l)

LEMMA FieldPieces ==
    ASSUME NEW doc, NEW f
    PROVE  Pieces(FieldItems(doc, f), Len(FieldItems(doc, f)), f, doc[f])
<1> DEFINE items == FieldItems(doc, f)
           val == doc[f]
           l == Len(items)
           fv == <<f, val>>
           f0 == <<"flag", 0>>
           f1 == <<"flag", 1>>
<1>1. /\ f \notin Optional => items = <<fv>>
      /\ f \in Optional /\ val = None => items = <<f0>>
      /\ f \in Optional /\ val # None => items = <<f1, fv>>
  BY FieldShape, Zenon
<1> HIDE DEF items, val, fv, f0, f1
<1>2. f \notin Optional => l = 1 /\ items[1] = fv
  BY <1>1, Singles
<1>3. f \in Optional /\ val = None => l = 1 /\ items[1] = f0
  BY <1>1, Singles
<1>4. f \in Optional /\ val # None => l = 2 /\ items[1] = f1 /\ items[2] = fv
  BY <1>1, Singles
<1> HIDE DEF l
<1>5. l \in 1 .. 2 /\ 1 \in 1 .. l /\ (l = 2 => 2 \in 1 .. l)
  BY <1>2, <1>3, <1>4
<1> QED BY <1>2, <1>3, <1>4, <1>5, Zenon DEF Pieces, items, val, l, fv, f0, f1

\* The k-th field of the i-th document comes next, behind the first p items.
FieldNext(v, x, F, r, i, k, f, s, p) ==
    /\ f = Layout(v)[k] /\ f \in {"dir", "name", "id", "url", "created", "modified"}
    /\ f = "dir" => k = 1
    /\ Onward(F, r, p, s, Len(x.docs))
    /\ AfterFields(v, x, i, k) = p + Len(FieldItems(x.docs[i], f))
    /\ \A j \in 1 .. Len(FieldItems(x.docs[i], f)) :
          p + j \in 1 .. Len(s) /\ s[p + j] = FieldItems(x.docs[i], f)[j]

LEMMA FieldFacts ==
    ASSUME NEW v, NEW x, NEW F, Opened(v, x, F), NEW r, NEW fs,
           NEW i \in 1 .. Len(x.docs), NEW k \in 1 .. Len(Layout(v)),
           At(r, F, AfterFields(v, x, i, k - 1)), FieldsRead(v, x, F, fs, i, k - 1),
           NEW f, f = Layout(v)[Len(fs) + 1], NEW s, s = Stream(v, x),
           NEW p, p = AfterFields(v, x, i, k - 1)
    PROVE  FieldNext(v, x, F, r, i, k, f, s, p)
<1>1. v \in Versions /\ IsIndex(x) /\ Len(Layout(v)) \in Nat /\ k \in DOMAIN Layout(v)
  BY LayoutFacts DEF Opened
<1>2. Len(fs) = k - 1 /\ k \in Int
  BY <1>1 DEF FieldsRead
<1>3. f = Layout(v)[k]
  <2>1. Len(fs) + 1 = k
    BY <1>2
  <2> QED BY <2>1
<1>4. f \in {"dir", "name", "id", "url", "created", "modified"} /\ (f = "dir" => k = 1)
  <2>1. f \in {"dir", "name", "id", "url", "created", "modified"}
    BY <1>1, <1>3, LayoutFacts
  <2>2. k # 1 => k \in 2 .. Len(Layout(v))
    BY <1>1
  <2>3. k # 1 => f # "dir"
    BY <1>1, <1>3, <2>2, LayoutFacts
  <2> QED BY <2>1, <2>3
<1>5. /\ AfterFields(v, x, i, k) = p + Len(FieldItems(x.docs[i], f))
      /\ \A j \in 1 .. Len(FieldItems(x.docs[i], f)) :
            p + j \in 1 .. Len(s) /\ s[p + j] = FieldItems(x.docs[i], f)[j]
  BY <1>1, <1>3, FieldsAt, SMTT(30)
<1>6. At(r, F, p)
  OBVIOUS
<1>7. Onward(F, r, p, s, Len(x.docs))
  BY ONLY Opened(v, x, F), <1>6, s = Stream(v, x), AtNext
<1> QED BY <1>3, <1>4, <1>5, <1>7 DEF FieldNext

\* In a whole file a field is as the reader demands it.
LEMMA FieldDemanded ==
    ASSUME NEW v, NEW x, NEW F, Opened(v, x, F), NEW r, NEW ds, NEW fs, NEW l,
           AtField(v, x, F, r, ds, fs, l), F = Stream(v, x),
           NEW f, f = Layout(v)[Len(fs) + 1]
    PROVE  r # <<>> /\ (f \in Optional => Head(r)[2] \in 0 .. 1 /\ Len(r) > Head(r)[2])
<1>1. PICK i \in 1 .. Len(x.docs), k \in 1 .. Len(Layout(v)) :
         At(r, F, AfterFields(v, x, i, k - 1)) /\ FieldsRead(v, x, F, fs, i, k - 1)
  BY DEF AtField
<1> DEFINE p == AfterFields(v, x, i, k - 1)
           items == FieldItems(x.docs[i], f)
           s == Stream(v, x)
<1>2. FieldNext(v, x, F, r, i, k, f, s, p)
  BY <1>1, FieldFacts
<1> DEFINE m == Len(items)
           val == x.docs[i][f]
<1>3. Pieces(items, m, f, val)
  BY FieldPieces
<1>4. F = s /\ Onward(F, r, p, s, Len(x.docs))
      /\ \A j \in 1 .. m : p + j \in 1 .. Len(s) /\ s[p + j] = items[j]
  BY <1>2 DEF FieldNext
<1> USE DEF Onward, Pieces
<1> HIDE DEF p, items, s, m, val
<1>5. Len(r) >= 1 /\ r # <<>> /\ Head(r) = items[1]
  <2>1. p + 1 \in 1 .. Len(s) /\ s[p + 1] = items[1]
    BY <1>3, <1>4
  <2>2. Len(r) >= 1
    BY <1>4, <2>1
  <2>3. r # <<>> /\ r[1] = s[p + 1]
    BY <1>4, <2>2
  <2> QED BY <1>4, <2>1, <2>2, <2>3
<1>6. CASE f \in Optional /\ val = None
  <2>1. Head(r)[2] = 0
    BY <1>3, <1>5, <1>6
  <2> QED BY <1>5, <2>1
<1>7. CASE f \in Optional /\ val # None
  <2>1. Head(r)[2] = 1 /\ m = 2
    BY <1>3, <1>5, <1>7
  <2>2. p + 2 \in 1 .. Len(s)
    BY <1>3, <1>4, <2>1
  <2>3. Len(r) >= 2
    BY <1>4, <2>2
  <2> QED BY <1>5, <2>1, <2>3
<1> QED BY <1>5, <1>6, <1>7

\* A field that the reader accepts is the one that was written, or a directory that
\* reads 0.
LEMMA FieldRead ==
    ASSUME NEW v, NEW x, NEW F, Opened(v, x, F), NEW r, NEW ds, NEW fs, NEW l,
           AtField(v, x, F, r, ds, fs, l),
           NEW f, f = Layout(v)[Len(fs) + 1],
           r # <<>>, f \in Optional => Head(r)[2] \in 0 .. 1 /\ Len(r) > Head(r)[2],
           NEW n, n = IF f \in Optional THEN 1 + Head(r)[2] ELSE 1,
           NEW gs, gs = Append(fs, IF n = 1 /\ f \in Optional THEN None ELSE r[n][2]),
           NEW u, u = SubSeq(r, n + 1, Len(r))
    PROVE  IF Len(gs) = Len(Layout(v)) THEN AtDocument(v, x, F, u, ds, gs, l)
                                       ELSE AtField(v, x, F, u, ds, gs, l)
<1>1. PICK i \in 1 .. Len(x.docs), k \in 1 .. Len(Layout(v)) :
         /\ At(r, F, AfterFields(v, x, i, k - 1)) /\ FieldsRead(v, x, F, fs, i, k - 1)
         /\ ds = FirstDocs(v, x, i - 1) /\ l = Len(x.docs) - i + 1
  BY DEF AtField
<1> DEFINE p == AfterFields(v, x, i, k - 1)
           items == FieldItems(x.docs[i], f)
           s == Stream(v, x)
           m == Len(x.docs)
           val == x.docs[i][f]
           got == IF n = 1 /\ f \in Optional THEN None ELSE r[n][2]
<1>2. FieldNext(v, x, F, r, i, k, f, s, p)
  BY <1>1, FieldFacts
<1> DEFINE len == Len(items)
<1>3. Pieces(items, len, f, val)
  BY FieldPieces
<1>4. x.docs[i].dir # 0 /\ v \in Versions /\ IsIndex(x) /\ m \in Nat
  BY DEF Opened, IsIndex
<1>5. gs = Append(fs, got)
  OBVIOUS
<1>6. s = Stream(v, x)
  OBVIOUS
<1>7. x.docs[i].dir = x.docs[i]["dir"]
  OBVIOUS
<1> HIDE DEF p, items, s, m, val, got, len
<1> USE DEF Pieces
<1>8. /\ f = Layout(v)[k] /\ f \in {"dir", "name", "id", "url", "created", "modified"}
      /\ f = "dir" => k = 1
      /\ Onward(F, r, p, s, m)
      /\ AfterFields(v, x, i, k) = p + len
      /\ \A j \in 1 .. len : p + j \in 1 .. Len(s) /\ s[p + j] = items[j]
  BY <1>2 DEF FieldNext, items, m, len
<1>9. /\ p \in Nat /\ Len(r) \in Nat /\ Len(r) >= 1 /\ Head(r) = r[1]
      /\ \A j \in 1 .. Len(r) : r[j] = s[p + j] \/ Refused(s[p + j], r[j], m)
      /\ F = s => \A j \in 1 .. Len(r) : r[j] = s[p + j]
  BY <1>8 DEF Onward
<1>10. /\ n = len /\ n \in 1 .. 2 /\ n <= Len(r)
       /\ got = val \/ (k = 1 /\ got = 0 /\ F # s)
  <2>1. CASE f \notin Optional
    <3>1. n = 1 /\ got = r[1][2]
      BY <2>1 DEF got
    <3>2. len = 1 /\ items[1] = <<f, val>>
      BY <1>3, <2>1
    <3>3. s[p + 1] = <<f, val>>
      BY <1>3, <1>8, <3>2
    <3>4. r[1] = <<f, val>> \/ Refused(<<f, val>>, r[1], m)
      <4>1. r[1] = s[p + 1] \/ Refused(s[p + 1], r[1], m)
        BY <1>9
      <4> QED BY ONLY <3>3, <4>1
    <3>5. f \in {"dir", "name", "id"}
      BY <1>8, <2>1 DEF Optional
    <3>6. CASE r[1] = <<f, val>>
      BY <1>9, <3>1, <3>2, <3>6
    <3>7. CASE r[1] # <<f, val>>
      <4>1. f = "dir" /\ r[1] = <<"dir", 0>>
        BY <3>4, <3>5, <3>7 DEF Refused
      <4>2. got = 0 /\ F # s
        BY <1>9, <3>1, <3>3, <3>7, <4>1
      <4> QED BY <1>8, <1>9, <3>1, <3>2, <4>1, <4>2
    <3> QED BY <3>6, <3>7
  <2>2. CASE f \in Optional /\ val = None
    <3>1. len = 1 /\ items[1] = <<"flag", 0>>
      BY <1>3, <2>2
    <3>2. s[p + 1] = <<"flag", 0>>
      BY <1>3, <1>8, <3>1
    <3>3. r[1] = <<"flag", 0>> \/ r[1] = <<"flag", 2>>
      <4>1. r[1] = s[p + 1] \/ Refused(s[p + 1], r[1], m)
        BY <1>9
      <4> QED BY <3>2, <4>1, SMTT(30) DEF Refused
    <3>4. Head(r)[2] = 0
      BY <1>9, <2>2, <3>3
    <3>5. n = 1
      BY <2>2, <3>4
    <3> QED BY <1>9, <2>2, <3>1, <3>5 DEF got
  <2>3. CASE f \in Optional /\ val # None
    <3>1. len = 2 /\ items[1] = <<"flag", 1>> /\ items[2] = <<f, val>>
      BY <1>3, <2>3
    <3>2. s[p + 1] = <<"flag", 1>> /\ s[p + 2] = <<f, val>>
      BY <1>3, <1>8, <3>1
    <3>3. r[1] = <<"flag", 1>> \/ r[1] = <<"flag", 2>>
      <4>1. r[1] = s[p + 1] \/ Refused(s[p + 1], r[1], m)
        BY <1>9
      <4> QED BY <3>2, <4>1, SMTT(30) DEF Refused
    <3>4. Head(r)[2] = 1
      BY <1>9, <2>3, <3>3
    <3>5. n = 2 /\ 2 <= Len(r)
      BY <1>9, <2>3, <3>4
    <3>6. r[2] = <<f, val>>
      <4>1. r[2] = s[p + 2] \/ Refused(s[p + 2], r[2], m)
        BY <1>9, <3>5
      <4>2. f \in {"url", "created", "modified"}
        BY <2>3 DEF Optional
      <4>3. ~Refused(<<f, val>>, r[2], m)
        BY <4>2 DEF Refused
      <4> QED BY <3>2, <4>1, <4>3
    <3>7. got = r[2][2]
      BY <3>5 DEF got
    <3>8. got = val
      BY <3>6, <3>7
    <3> QED BY <3>1, <3>5, <3>8
  <2> QED BY <2>1, <2>2, <2>3
<1>11. At(u, F, AfterFields(v, x, i, k))
  <2>0. n \in Nat /\ n <= Len(r) /\ u = SubSeq(r, n + 1, Len(r))
    <3>1. n \in 1 .. 2
      BY <1>10
    <3>2. n \in Nat
      BY ONLY <3>1
    <3>3. u = SubSeq(r, n + 1, Len(r))
      OBVIOUS
    <3> QED BY ONLY <1>10, <3>2, <3>3
  <2>1. At(r, F, p) /\ n \in Nat /\ n <= Len(r) /\ u = SubSeq(r, n + 1, Len(r))
    BY <1>1, <2>0 DEF p
  <2>2. At(u, F, p + n)
    BY ONLY <2>1, AtMoves
  <2> QED BY <1>8, <1>10, <2>2
<1>12. k \in Int /\ 1 <= k /\ k <= Len(Layout(v)) /\ Len(Layout(v)) \in Nat
  BY <1>4, LayoutFacts
<1>13. IsList(gs) /\ Len(gs) = k /\ gs[k] = got /\ \A q \in 1 .. k - 1 : gs[q] = fs[q]
  <2> DEFINE A == {fs[q] : q \in DOMAIN fs} \cup {got}
  <2>1. fs \in Seq({fs[q] : q \in DOMAIN fs}) /\ Len(fs) = k - 1
    BY <1>1 DEF FieldsRead, IsList
  <2>2. fs \in Seq(A) /\ got \in A
    BY <2>1
  <2> HIDE DEF A
  <2>3. gs \in Seq(A) /\ Len(gs) = k - 1 + 1 /\ gs[k - 1 + 1] = got /\ \A q \in 1 .. k - 1 : gs[q] = fs[q]
    <3>1. /\ gs \in Seq(A) /\ Len(gs) = Len(fs) + 1 /\ gs[Len(fs) + 1] = got
          /\ \A q \in 1 .. Len(fs) : gs[q] = fs[q]
      BY ONLY <1>5, <2>2
    <3> QED BY <2>1, <3>1
  <2>4. k - 1 + 1 = k
    BY <1>12
  <2> QED BY <2>3, <2>4, ListOf
<1>14. FieldsRead(v, x, F, gs, i, k)
  <2> SUFFICES ASSUME NEW q \in 1 .. k
               PROVE  \/ gs[q] = x.docs[i][Layout(v)[q]]
                      \/ q = 1 /\ gs[q] = 0 /\ F # Stream(v, x)
    BY <1>13 DEF FieldsRead
  <2>1. CASE q = k
    BY <1>6, <1>8, <1>10, <1>13, <2>1 DEF val
  <2>2. CASE q # k
    <3>1. q \in 1 .. k - 1
      BY <1>12, <2>2
    <3>2. gs[q] = fs[q]
      BY <1>13, <3>1
    <3>3. \/ fs[q] = x.docs[i][Layout(v)[q]]
          \/ q = 1 /\ fs[q] = 0 /\ F # Stream(v, x)
      BY <1>1, <3>1 DEF FieldsRead
    <3> QED BY <3>2, <3>3
  <2> QED BY <2>1, <2>2
<1>15. CASE k = Len(Layout(v))
  <2>1. AfterFields(v, x, i, k) = AfterDocs(v, x, i)
    BY <1>4, <1>15, FieldsAt
  <2>2. AtDocument(v, x, F, u, ds, gs, l)
    BY <1>1, <1>11, <1>14, <1>15, <2>1 DEF AtDocument
  <2> QED BY <1>13, <1>15, <2>2
<1>16. CASE k # Len(Layout(v))
  <2>1. k + 1 \in 1 .. Len(Layout(v)) /\ (k + 1) - 1 = k
    BY <1>12, <1>16
  <2>2. AtField(v, x, F, u, ds, gs, l)
    BY <1>1, <1>11, <1>14, <2>1 DEF AtField
  <2> QED BY <1>13, <1>16, <2>2
<1> QED BY <1>15, <1>16

Names == {"dir", "name", "id", "url", "created", "modified"}

\* What the reader takes for a field.
FieldIn(v, fs, name) ==
    IF Contains(Layout(v), name)
      THEN fs[CHOOSE k \in DOMAIN Layout(v) : Layout(v)[k] = name]
      ELSE None

LEMMA FieldFound ==
    ASSUME NEW v \in Versions, NEW x, NEW F, NEW fs, NEW i,
           FieldsRead(v, x, F, fs, i, Len(Layout(v))), fs[1] # 0, NEW name
    PROVE  FieldIn(v, fs, name) = IF Contains(Layout(v), name) THEN x.docs[i][name] ELSE None
<1> DEFINE s == Layout(v)
           k == CHOOSE k \in DOMAIN s : s[k] = name
<1>1. CASE Contains(s, name)
  <2>1. DOMAIN s = 1 .. Len(s)
    BY LayoutFacts
  <2>2. \E q \in DOMAIN s : s[q] = name
    BY <1>1, <2>1 DEF Contains
  <2>3. k \in DOMAIN s /\ s[k] = name
    BY <2>2
  <2> HIDE DEF k
  <2>4. fs[k] = x.docs[i][s[k]] \/ (k = 1 /\ fs[k] = 0)
    BY <2>1, <2>3 DEF FieldsRead
  <2>5. fs[k] = x.docs[i][name]
    BY <2>3, <2>4
  <2> QED BY <1>1, <2>5 DEF FieldIn, k
<1>2. CASE ~Contains(s, name)
  BY <1>2 DEF FieldIn
<1> QED BY <1>1, <1>2

\* The fields that a version has.
Keeps(v, name) == /\ name = "id" => v = "CRZ5"
                  /\ name = "modified" => v # "CRZ3"

LEMMA LayoutHolds ==
    ASSUME NEW v \in Versions, NEW name \in Names
    PROVE  Contains(Layout(v), name) <=> Keeps(v, name)
<1> USE DEF Keeps
<1> DEFINE s == Layout(v)
<1>1. CASE v = "CRZ3"
  <2>1. s = <<"dir", "name", "url", "created">>
    BY <1>1, LayoutShape
  <2> HIDE DEF s
  <2>2. Len(s) = 4 /\ s[1] = "dir" /\ s[2] = "name" /\ s[3] = "url" /\ s[4] = "created"
    BY <2>1
  <2> QED BY <1>1, <2>2, SMTT(30) DEF Contains, Names, s
<1>2. CASE v = "CRZ4"
  <2>1. s = <<"dir", "name", "url", "created", "modified">>
    BY <1>2, LayoutShape
  <2> HIDE DEF s
  <2>2. Len(s) = 5 /\ s[1] = "dir" /\ s[2] = "name" /\ s[3] = "url" /\ s[4] = "created"
        /\ s[5] = "modified"
    BY <2>1
  <2>3. name # "id" => \E q \in 1 .. 5 : s[q] = name
    <3>1. name # "id" => name = s[1] \/ name = s[2] \/ name = s[3] \/ name = s[4] \/ name = s[5]
      BY <2>2 DEF Names
    <3> QED BY ONLY <3>1
  <2>4. \A q \in 1 .. 5 : s[q] # "id"
    BY <2>2
  <2>5. Contains(s, name) <=> name # "id"
    BY <2>2, <2>3, <2>4 DEF Contains
  <2> QED BY <1>2, <2>5 DEF s
<1>3. CASE v = "CRZ5"
  <2>1. s = <<"dir", "name", "id", "url", "created", "modified">>
    BY <1>3, LayoutShape
  <2> HIDE DEF s
  <2>2. Len(s) = 6 /\ s[1] = "dir" /\ s[2] = "name" /\ s[3] = "id" /\ s[4] = "url"
        /\ s[5] = "created" /\ s[6] = "modified"
    BY <2>1
  <2>3. \E q \in 1 .. 6 : s[q] = name
    <3>1. name = s[1] \/ name = s[2] \/ name = s[3] \/ name = s[4] \/ name = s[5] \/ name = s[6]
      BY <2>2 DEF Names
    <3> QED BY ONLY <3>1
  <2>4. Contains(s, name)
    BY <2>2, <2>3 DEF Contains
  <2> QED BY <1>3, <2>4 DEF s
<1> QED BY <1>1, <1>2, <1>3 DEF Versions

LEMMA AsReadFields ==
    ASSUME NEW v \in Versions, NEW doc \in Document
    PROVE  /\ AsRead(v, doc) \in Document
           /\ AsRead(v, doc)
                = [name \in Names |-> IF Keeps(v, name) THEN doc[name] ELSE None]
<1> USE DEF Document, Dates, Names, Keeps
<1>1. CASE v = "CRZ3"
  <2>1. AsRead(v, doc) = [doc EXCEPT !.id = None, !.modified = None]
    BY <1>1 DEF AsRead
  <2> QED BY <1>1, <2>1
<1>2. CASE v = "CRZ4"
  <2>1. AsRead(v, doc) = [doc EXCEPT !.id = None]
    BY <1>2 DEF AsRead
  <2> QED BY <1>2, <2>1
<1>3. CASE v = "CRZ5"
  <2>1. AsRead(v, doc) = doc
    BY <1>3 DEF AsRead
  <2> QED BY <1>3, <2>1
<1> QED BY <1>1, <1>2, <1>3 DEF Versions

LEMMA DocumentBack ==
    ASSUME NEW v \in Versions, NEW x, NEW F, NEW fs, NEW i, x.docs[i] \in Document,
           FieldsRead(v, x, F, fs, i, Len(Layout(v))), fs[1] # 0
    PROVE  [name \in Names |-> FieldIn(v, fs, name)] = AsRead(v, x.docs[i])
<1> DEFINE doc == x.docs[i]
<1>1. ASSUME NEW name \in Names
      PROVE  FieldIn(v, fs, name) = IF Keeps(v, name) THEN doc[name] ELSE None
  <2>1. FieldIn(v, fs, name) = IF Contains(Layout(v), name) THEN doc[name] ELSE None
    BY FieldFound
  <2> QED BY <2>1, LayoutHolds
<1>2. AsRead(v, doc) = [name \in Names |-> IF Keeps(v, name) THEN doc[name] ELSE None]
  BY AsReadFields
<1> QED BY ONLY <1>1, <1>2

LEMMA Extended ==
    ASSUME NEW g, NEW n \in Nat, NEW i \in 1 .. n
    PROVE  Append([j \in 1 .. i - 1 |-> g[j]], g[i]) = [j \in 1 .. i |-> g[j]]
<1> DEFINE D == {g[j] : j \in 1 .. n}
           s == [j \in 1 .. i - 1 |-> g[j]]
           t == Append(s, g[i])
<1>1. \A j \in 1 .. n : g[j] \in D
  OBVIOUS
<1> HIDE DEF D
<1>2. i - 1 \in Nat /\ 1 .. i - 1 \subseteq 1 .. n
  OBVIOUS
<1>3. s \in [1 .. i - 1 -> D]
  BY <1>1, <1>2
<1>4. s \in Seq(D) /\ Len(s) = i - 1
  BY <1>2, <1>3
<1>5. t \in Seq(D) /\ Len(t) = i /\ t[i] = g[i] /\ \A j \in 1 .. i - 1 : t[j] = s[j]
  BY <1>1, <1>4
<1>6. \A j \in 1 .. i : t[j] = g[j]
  <2> SUFFICES ASSUME NEW j \in 1 .. i PROVE t[j] = g[j]
    OBVIOUS
  <2>1. j = i \/ j \in 1 .. i - 1
    OBVIOUS
  <2>2. j \in 1 .. i - 1 => s[j] = g[j]
    OBVIOUS
  <2> HIDE DEF s, t
  <2> QED BY <1>5, <2>1, <2>2
<1> HIDE DEF s, t
<1>7. t = [j \in 1 .. i |-> t[j]]
  BY <1>5
<1>8. t = [j \in 1 .. i |-> g[j]]
  BY <1>6, <1>7
<1> QED BY <1>8 DEF t, s

\* A document whose directory is not 0 is the one that was written, as far as its
\* version goes.
LEMMA DocumentRead ==
    ASSUME NEW v, NEW x, NEW F, Opened(v, x, F), NEW r, NEW ds, NEW fs, NEW l,
           AtDocument(v, x, F, r, ds, fs, l), fs[1] # 0,
           NEW es, es = Append(ds, [name \in Names |-> FieldIn(v, fs, name)]),
           NEW u, u = SubSeq(r, 1, Len(r)), NEW ls, ls = l - 1
    PROVE  IF ls = 0 THEN AtTerms(v, x, F, u, es) ELSE AtField(v, x, F, u, es, <<>>, ls)
<1>1. PICK i \in 1 .. Len(x.docs) :
         /\ At(r, F, AfterDocs(v, x, i)) /\ FieldsRead(v, x, F, fs, i, Len(Layout(v)))
         /\ ds = FirstDocs(v, x, i - 1) /\ l = Len(x.docs) - i + 1
  BY DEF AtDocument
<1> DEFINE n == Len(x.docs)
           doc == [name \in Names |-> FieldIn(v, fs, name)]
<1>2. v \in Versions /\ IsIndex(x) /\ n \in Nat /\ i \in 1 .. n /\ x.docs[i] \in Document
      /\ \A j \in 1 .. n : x.docs[j] \in Document
  <2>1. v \in Versions /\ IsIndex(x)
    BY DEF Opened
  <2>2. x.docs \in Seq(Document)
    BY <2>1 DEF IsIndex
  <2>3. n \in Nat /\ \A j \in 1 .. n : x.docs[j] \in Document
    BY ONLY <2>2
  <2> QED BY <2>1, <2>3
<1>3. doc = AsRead(v, x.docs[i])
  <2>1. v \in Versions /\ x.docs[i] \in Document /\ FieldsRead(v, x, F, fs, i, Len(Layout(v))) /\ fs[1] # 0
    BY <1>1, <1>2
  <2> QED BY ONLY <2>1, DocumentBack
<1>4. es = Append(ds, AsRead(v, x.docs[i]))
  BY <1>3
<1> HIDE DEF n, doc
<1>5. es = FirstDocs(v, x, i)
  <2> DEFINE g == [j \in 1 .. n |-> AsRead(v, x.docs[j])]
  <2>1. FirstDocs(v, x, i - 1) = [j \in 1 .. i - 1 |-> g[j]] /\ g[i] = AsRead(v, x.docs[i])
        /\ FirstDocs(v, x, i) = [j \in 1 .. i |-> g[j]]
    <3>1. 1 .. i - 1 \subseteq 1 .. n /\ 1 .. i \subseteq 1 .. n /\ i \in 1 .. n
      BY <1>2
    <3> QED BY ONLY <3>1 DEF FirstDocs
  <2> HIDE DEF g
  <2>2. Append([j \in 1 .. i - 1 |-> g[j]], g[i]) = [j \in 1 .. i |-> g[j]]
    BY <1>2, Extended
  <2> QED BY <1>1, <1>4, <2>1, <2>2
<1>6. At(u, F, AfterDocs(v, x, i))
  <2>1. At(r, F, AfterDocs(v, x, i)) /\ 0 \in Nat /\ 0 <= Len(r) /\ u = SubSeq(r, 0 + 1, Len(r))
    <3>1. Len(r) \in Nat
      BY <1>1, ListLength DEF At
    <3> QED BY <1>1, <3>1
  <2>2. At(u, F, AfterDocs(v, x, i) + 0) /\ AfterDocs(v, x, i) \in Nat
    <3>1. At(u, F, AfterDocs(v, x, i) + 0)
      BY ONLY <2>1, AtMoves
    <3> QED BY <1>1, <3>1 DEF At
  <2> QED BY <2>2
<1>7. ls = n - i
  <2>1. l = n - i + 1
    BY <1>1 DEF n
  <2> QED BY <1>2, <2>1
<1>8. CASE ls = 0
  <2>1. i = n
    BY <1>2, <1>7, <1>8
  <2>2. AtTerms(v, x, F, u, es)
    BY <1>5, <1>6, <2>1 DEF AtTerms, n
  <2> QED BY <1>8, <2>2
<1>9. CASE ls # 0
  <2>1. i + 1 \in 1 .. n /\ (i + 1) - 1 = i /\ ls = n - (i + 1) + 1
    <3>1. n \in Nat /\ i \in 1 .. n
      BY <1>2
    <3> QED BY ONLY <1>7, <1>9, <3>1
  <2>2. 1 \in 1 .. Len(Layout(v)) /\ 1 - 1 = 0
    BY <1>2, LayoutFacts
  <2>3. AfterFields(v, x, i + 1, 0) = AfterDocs(v, x, i)
    BY <1>2, <2>1, FieldsAt DEF n
  <2>4. FieldsRead(v, x, F, <<>>, i + 1, 0)
    <3>1. <<>> \in Seq({}) /\ Len(<<>>) = 0
      OBVIOUS
    <3>2. IsList(<<>>)
      BY <3>1, ListOf
    <3> QED BY <3>1, <3>2 DEF FieldsRead
  <2>5. AtField(v, x, F, u, es, <<>>, ls)
    BY <1>5, <1>6, <2>1, <2>2, <2>3, <2>4 DEF AtField, n
  <2> QED BY <1>9, <2>5
<1> QED BY <1>8, <1>9

\* In a whole file no directory reads 0.
LEMMA DocumentDemanded ==
    ASSUME NEW v, NEW x, NEW F, Opened(v, x, F), NEW r, NEW ds, NEW fs, NEW l,
           AtDocument(v, x, F, r, ds, fs, l), F = Stream(v, x)
    PROVE  fs[1] # 0
<1>1. PICK i \in 1 .. Len(x.docs) : FieldsRead(v, x, F, fs, i, Len(Layout(v)))
  BY DEF AtDocument
<1>2. x.docs[i].dir # 0 /\ v \in Versions
  BY DEF Opened
<1>3. Layout(v)[1] = "dir" /\ 1 \in 1 .. Len(Layout(v))
  BY <1>2, LayoutFacts
<1>4. fs[1] = x.docs[i][Layout(v)[1]]
  BY <1>1, <1>3 DEF FieldsRead
<1>5. x.docs[i]["dir"] = x.docs[i].dir
  OBVIOUS
<1> QED BY <1>2, <1>3, <1>4, <1>5

\* What has been counted when the terms begin, when one is read and when all are.
LEMMA CountedBounds ==
    ASSUME NEW x, IsIndex(x)
    PROVE  /\ Counted(x, 1, 0) = [t \in Words |-> [d \in 1 .. Len(x.docs) |-> 0]]
           /\ Counted(x, Len(Held(x)) + 1, 0) = x.count
           /\ \A k \in 1 .. Len(Held(x)) : Counted(x, k, Len(x.docs)) = Counted(x, k + 1, 0)
<1> USE DEF Reached
<1> DEFINE n == Len(x.docs)
           m == Len(Held(x))
<1>1. n \in Nat /\ DOMAIN x.docs = 1 .. n /\ x.count \in [Words -> [1 .. n -> Nat]] /\ m \in Nat
  <2>1. m \in Nat
    BY HeldFacts
  <2> QED BY <2>1 DEF IsIndex
<1>3. \A t \in Words, d \in 1 .. n : ~Reached(x, 1, 0, t, d)
  BY <1>1
<1>4. \A t \in Words, d \in 1 .. n : ~Reached(x, m + 1, 0, t, d) => x.count[t][d] = 0
  <2> SUFFICES ASSUME NEW t \in Words, NEW d \in 1 .. n, ~Reached(x, m + 1, 0, t, d), x.count[t][d] # 0
               PROVE  FALSE
    OBVIOUS
  <2>1. x.count[t] \in [1 .. n -> Nat]
    BY <1>1
  <2>2. x.count[t][d] \in Nat
    BY <2>1
  <2>3. x.count[t][d] > 0
    BY <2>2
  <2>4. PICK q \in 1 .. m : Held(x)[q] = t
    BY <1>1, <2>3, HeldFacts
  <2>5. q \in 1 .. m + 1 - 1
    BY <1>1
  <2> QED BY <2>4, <2>5
<1>5. ASSUME NEW k \in 1 .. m, NEW t, NEW d \in 1 .. n
      PROVE  Reached(x, k, n, t, d) <=> Reached(x, k + 1, 0, t, d)
  <2>1. k \in Int /\ d <= n /\ k <= m /\ (k + 1) - 1 = k /\ ~(d <= 0)
    BY <1>1
  <2>2. \A q : q \in 1 .. k <=> q \in 1 .. k - 1 \/ q = k
    BY <2>1
  <2>3. (\E q \in 1 .. k : Held(x)[q] = t) <=> (\E q \in 1 .. k - 1 : Held(x)[q] = t) \/ Held(x)[k] = t
    BY <2>2
  <2> QED BY <2>1, <2>3
<1> HIDE DEF n, m, Reached
<1>6. Counted(x, 1, 0) = [t \in Words |-> [d \in 1 .. n |-> 0]]
  BY <1>1, <1>3 DEF Counted
<1>7. Counted(x, m + 1, 0) = x.count
  <2>1. \A t \in Words : x.count[t] = [d \in 1 .. n |-> x.count[t][d]]
    BY <1>1
  <2>2. x.count = [t \in Words |-> x.count[t]]
    BY <1>1
  <2>3. \A t \in Words : x.count[t] = [d \in 1 .. n |-> IF Reached(x, m + 1, 0, t, d) THEN x.count[t][d] ELSE 0]
    BY <1>4, <2>1
  <2>4. Counted(x, m + 1, 0) = [t \in Words |-> [d \in 1 .. n |->
                                  IF Reached(x, m + 1, 0, t, d) THEN x.count[t][d] ELSE 0]]
    BY <1>1 DEF Counted
  <2> QED BY <2>2, <2>3, <2>4
<1>8. ASSUME NEW k \in 1 .. m PROVE Counted(x, k, n) = Counted(x, k + 1, 0)
  <2>1. Counted(x, k, n) = [t \in Words |-> [d \in 1 .. n |->
                              IF Reached(x, k, n, t, d) THEN x.count[t][d] ELSE 0]]
    BY <1>1 DEF Counted
  <2>2. Counted(x, k + 1, 0) = [t \in Words |-> [d \in 1 .. n |->
                                  IF Reached(x, k + 1, 0, t, d) THEN x.count[t][d] ELSE 0]]
    BY <1>1 DEF Counted
  <2>3. \A t \in Words, d \in 1 .. n :
           (IF Reached(x, k, n, t, d) THEN x.count[t][d] ELSE 0) = (IF Reached(x, k + 1, 0, t, d) THEN x.count[t][d] ELSE 0)
    BY <1>5
  <2> QED BY ONLY <2>1, <2>2, <2>3
<1> QED BY <1>6, <1>7, <1>8 DEF n, m

\* A posting read adds its count; the documents without one have none.
LEMMA CountedNext ==
    ASSUME NEW x, IsIndex(x), NEW k \in 1 .. Len(Held(x)),
           NEW i \in 0 .. Len(x.docs), NEW e \in 1 .. Len(x.docs), i < e,
           \A d \in 1 .. Len(x.docs) : i < d /\ d < e => ~(x.count[Held(x)[k]][d] > 0)
    PROVE  [Counted(x, k, i) EXCEPT ![Held(x)[k]][e] = x.count[Held(x)[k]][e]] = Counted(x, k, e)
<1> USE DEF Reached
<1> DEFINE n == Len(x.docs)
           m == Len(Held(x))
           h == Held(x)[k]
           a == Counted(x, k, i)
           b == Counted(x, k, e)
<1>1. n \in Nat /\ DOMAIN x.docs = 1 .. n /\ x.count \in [Words -> [1 .. n -> Nat]] /\ m \in Nat /\ h \in Words
  <2>1. m \in Nat /\ h \in Words
    BY HeldFacts
  <2> QED BY <2>1 DEF IsIndex
<1>2. /\ a = [t \in Words |-> [d \in 1 .. n |-> IF Reached(x, k, i, t, d) THEN x.count[t][d] ELSE 0]]
      /\ b = [t \in Words |-> [d \in 1 .. n |-> IF Reached(x, k, e, t, d) THEN x.count[t][d] ELSE 0]]
  BY <1>1 DEF Counted
<1>3. \A t, d : t # h => (Reached(x, k, i, t, d) <=> Reached(x, k, e, t, d))
  OBVIOUS
<1>4. Reached(x, k, e, h, e) /\ \A d \in 1 .. n : (Reached(x, k, i, h, d) => Reached(x, k, e, h, d))
  BY <1>1
<1>5. \A d \in 1 .. n : d # e /\ Reached(x, k, e, h, d) /\ ~Reached(x, k, i, h, d) => x.count[h][d] = 0
  <2> SUFFICES ASSUME NEW d \in 1 .. n, d # e, Reached(x, k, e, h, d), ~Reached(x, k, i, h, d) PROVE x.count[h][d] = 0
    OBVIOUS
  <2>1. i < d /\ d < e
    BY <1>1
  <2>2. ~(x.count[h][d] > 0)
    BY <2>1
  <2>3. x.count[h] \in [1 .. n -> Nat]
    BY <1>1
  <2>4. x.count[h][d] \in Nat
    BY <2>3
  <2> DEFINE z == x.count[h][d]
  <2>5. z \in Nat /\ ~(z > 0)
    BY <2>2, <2>4
  <2> HIDE DEF z
  <2>6. z = 0
    BY ONLY <2>5
  <2> QED BY <2>6 DEF z
<1> HIDE DEF n, m, h, Reached
<1>6. a \in [Words -> [1 .. n -> Nat]] /\ b \in [Words -> [1 .. n -> Nat]]
  <2>1. \A t \in Words : \A d \in 1 .. n : x.count[t][d] \in Nat
    BY ONLY <1>1
  <2> QED BY ONLY <1>2, <2>1
<1>7. \A t \in Words : t # h => a[t] = b[t]
  BY <1>2, <1>3
<1>8. [a[h] EXCEPT ![e] = x.count[h][e]] = b[h]
  <2> DEFINE g == [a[h] EXCEPT ![e] = x.count[h][e]]
  <2>1. a[h] \in [1 .. n -> Nat] /\ b[h] \in [1 .. n -> Nat] /\ e \in 1 .. n
    BY <1>1, <1>6 DEF n
  <2>2. /\ a[h] = [d \in 1 .. n |-> IF Reached(x, k, i, h, d) THEN x.count[h][d] ELSE 0]
        /\ b[h] = [d \in 1 .. n |-> IF Reached(x, k, e, h, d) THEN x.count[h][d] ELSE 0]
    BY <1>1, <1>2
  <2>3. g[e] = x.count[h][e] /\ b[h][e] = x.count[h][e]
    BY <1>4, <2>1, <2>2
  <2>4. \A d \in 1 .. n : d # e => a[h][d] = b[h][d]
    BY <1>4, <1>5, <2>2
  <2>5. \A d \in 1 .. n : d # e => g[d] = a[h][d]
    BY <2>1
  <2>6. \A d \in 1 .. n : g[d] = b[h][d]
    BY <2>3, <2>4, <2>5
  <2>7. DOMAIN g = 1 .. n /\ g = [d \in 1 .. n |-> g[d]] /\ b[h] = [d \in 1 .. n |-> b[h][d]]
    BY <2>1
  <2> HIDE DEF g
  <2> QED BY <2>6, <2>7 DEF g
<1> HIDE DEF a, b
<1>9. [a EXCEPT ![h][e] = x.count[h][e]] = b
  <2> DEFINE c == x.count[h][e]
             g == [a[h] EXCEPT ![e] = c]
  <2>1. [a EXCEPT ![h][e] = c] = [a EXCEPT ![h] = g]
    BY <1>1, <1>6
  <2>2. g = b[h]
    BY <1>8
  <2> HIDE DEF c, g
  <2>3. [a EXCEPT ![h] = g] = b
    <3>1. [a EXCEPT ![h] = g] = [t \in Words |-> IF t = h THEN g ELSE a[t]]
      BY <1>1, <1>6
    <3>2. b = [t \in Words |-> b[t]]
      BY <1>6
    <3> QED BY <1>7, <2>2, <3>1, <3>2
  <2> QED BY <2>1, <2>3 DEF c
<1> QED BY <1>9 DEF a, b, h

\* No document behind the i-th holds the term: the rest of its counts is 0.
LEMMA CountedLast ==
    ASSUME NEW x, IsIndex(x), NEW k \in 1 .. Len(Held(x)), NEW i \in 0 .. Len(x.docs),
           \A d \in 1 .. Len(x.docs) : i < d => ~(x.count[Held(x)[k]][d] > 0)
    PROVE  Counted(x, k, i) = Counted(x, k, Len(x.docs))
<1> USE DEF Reached
<1> DEFINE n == Len(x.docs)
           m == Len(Held(x))
           h == Held(x)[k]
<1>1. n \in Nat /\ DOMAIN x.docs = 1 .. n /\ x.count \in [Words -> [1 .. n -> Nat]] /\ m \in Nat /\ h \in Words
  <2>1. m \in Nat /\ h \in Words
    BY HeldFacts
  <2> QED BY <2>1 DEF IsIndex
<1>2. /\ Counted(x, k, i) = [t \in Words |-> [d \in 1 .. n |-> IF Reached(x, k, i, t, d) THEN x.count[t][d] ELSE 0]]
      /\ Counted(x, k, n) = [t \in Words |-> [d \in 1 .. n |-> IF Reached(x, k, n, t, d) THEN x.count[t][d] ELSE 0]]
  BY <1>1 DEF Counted
<1>3. ASSUME NEW t \in Words, NEW d \in 1 .. n
      PROVE  (IF Reached(x, k, i, t, d) THEN x.count[t][d] ELSE 0) = (IF Reached(x, k, n, t, d) THEN x.count[t][d] ELSE 0)
  <2>1. Reached(x, k, i, t, d) => Reached(x, k, n, t, d)
    BY <1>1
  <2>2. ASSUME Reached(x, k, n, t, d), ~Reached(x, k, i, t, d) PROVE x.count[t][d] = 0
    <3>1. t = h /\ i < d
      BY <1>1, <2>2
    <3>2. ~(x.count[t][d] > 0)
      BY <3>1
    <3>3. x.count[t] \in [1 .. n -> Nat]
      BY <1>1
    <3>4. x.count[t][d] \in Nat
      BY <3>3
    <3> QED BY <3>2, <3>4
  <2> QED BY <2>1, <2>2
<1> HIDE DEF n, m, h, Reached
<1> QED BY <1>2, <1>3 DEF n

LEMMA TermCountAt ==
    ASSUME NEW v \in Versions, NEW x, IsIndex(x)
    PROVE  /\ Stream(v, x)[AfterDocs(v, x, Len(x.docs)) + 1] = <<"terms", Len(Held(x))>>
           /\ AfterDocs(v, x, Len(x.docs)) + 1 \in 1 .. Len(Stream(v, x))
<1> DEFINE s == Stream(v, x)
<1>1. s = Stream(v, x)
  OBVIOUS
<1> HIDE DEF s
<1>2. s[AfterDocs(v, x, Len(x.docs)) + 1] = <<"terms", Len(Held(x))>>
  <2>1. StreamShape(v, x, s)
    BY <1>1, StreamParts
  <2> QED BY ONLY <2>1 DEF StreamShape
<1>3. AfterDocs(v, x, Len(x.docs)) + 1 \in 1 .. Len(s)
  BY <1>1, StreamParts DEF StreamShape
<1> QED BY <1>1, <1>2, <1>3

LEMMA TermCountRead ==
    ASSUME NEW v, NEW x, NEW F, Opened(v, x, F), NEW r, NEW ds, AtTerms(v, x, F, r, ds),
           NEW u, u = SubSeq(r, 2, Len(r)),
           NEW c, c = [t \in Words |-> [i \in DOMAIN ds |-> 0]]
    PROVE  /\ F = Stream(v, x) => r # <<>>
           /\ r # <<>> =>
                /\ Head(r)[2] = Len(Held(x))
                /\ IF Head(r)[2] > 0 THEN AtTerm(v, x, F, u, ds, Head(r)[2], c)
                                     ELSE WholeRead(v, x, ds, c)
<1> DEFINE s == Stream(v, x)
           n == Len(x.docs)
           m == Len(Held(x))
           p == AfterDocs(v, x, n)
<1>1. v \in Versions /\ IsIndex(x) /\ n \in Nat /\ m \in Nat
  <2>1. v \in Versions /\ IsIndex(x)
    BY DEF Opened
  <2>2. m \in Nat
    BY HeldFacts
  <2>3. n \in Nat
    BY <2>1 DEF IsIndex
  <2> QED BY <2>1, <2>2, <2>3
<1>2. s[p + 1] = <<"terms", m>> /\ p + 1 \in 1 .. Len(s)
  BY <1>1, TermCountAt
<1>3. At(r, F, p) /\ ds = FirstDocs(v, x, n)
  BY DEF AtTerms
<1>4. s = Stream(v, x) /\ n = Len(x.docs)
  OBVIOUS
<1>5. AfterTerms(v, x, 0) = p + 1
  <2>1. Behind(TermBlocks(x), 0) = 0
    BY <1>1, TermsWritten DEF Laid
  <2>2. p \in Nat
    BY <1>3 DEF At
  <2> HIDE DEF p
  <2>3. AfterTerms(v, x, 0) = p + 1 + Behind(TermBlocks(x), 0)
    BY DEF AfterTerms, p
  <2> QED BY <2>1, <2>2, <2>3
<1> HIDE DEF s, p
<1>6. Onward(F, r, p, s, n)
  BY ONLY <1>3, <1>4, Opened(v, x, F), AtNext
<1>7. ASSUME F = s PROVE r # <<>>
  <2>1. p + 1 <= Len(s)
    BY <1>2, <1>6 DEF Onward
  <2> QED BY <1>6, <1>7, <2>1 DEF Onward
<1>8. ASSUME r # <<>>
      PROVE  /\ Head(r)[2] = m
             /\ IF Head(r)[2] > 0 THEN AtTerm(v, x, F, u, ds, Head(r)[2], c)
                                  ELSE WholeRead(v, x, ds, c)
  <2>1. Head(r) = r[1] /\ (r[1] = s[p + 1] \/ Refused(s[p + 1], r[1], n)) /\ 1 <= Len(r)
    BY <1>6, <1>8 DEF Onward
  <2>2. ~Refused(s[p + 1], r[1], n)
    BY <1>2 DEF Refused
  <2>3. Head(r)[2] = m
    BY <1>2, <2>1, <2>2
  <2>4. At(u, F, p + 1)
    <3>1. u = SubSeq(r, 1 + 1, Len(r)) /\ 1 \in Nat
      OBVIOUS
    <3> QED BY ONLY <1>3, <2>1, <3>1, AtMoves
  <2>5. c = Counted(x, 1, 0)
    <3>1. DOMAIN ds = 1 .. n
      BY <1>3 DEF FirstDocs
    <3>2. c = [t \in Words |-> [i \in 1 .. n |-> 0]]
      BY <3>1
    <3> QED BY <1>1, <3>2, CountedBounds
  <2>6. CASE m > 0
    <3>1. 1 \in 1 .. m /\ 1 - 1 = 0 /\ m - 1 + 1 = m
      BY <1>1, <2>6
    <3>2. At(u, F, AfterTerms(v, x, 1 - 1))
      BY <1>5, <2>4, <3>1
    <3>3. AtTerm(v, x, F, u, ds, m, c)
      BY <1>3, <2>5, <3>1, <3>2 DEF AtTerm
    <3> QED BY <2>3, <2>6, <3>3
  <2>7. CASE ~(m > 0)
    <3>1. m + 1 = 1
      BY <1>1, <2>7
    <3>2. Counted(x, m + 1, 0) = x.count
      BY <1>1, CountedBounds
    <3>3. c = x.count
      BY <2>5, <3>1, <3>2
    <3> QED BY <1>3, <2>3, <2>7, <3>3 DEF WholeRead
  <2> QED BY <2>6, <2>7
<1> QED BY <1>7, <1>8 DEF s

LEMMA TermRead ==
    ASSUME NEW v, NEW x, NEW F, Opened(v, x, F), NEW r, NEW ds, NEW l, NEW c,
           AtTerm(v, x, F, r, ds, l, c),
           NEW u, u = SubSeq(r, 3, Len(r)), NEW ls, ls = l - 1
    PROVE  /\ F = Stream(v, x) => Len(r) >= 2
           /\ Len(r) >= 2 => r[2][2] > 0 /\ AtPosting(v, x, F, u, ds, ls, Head(r)[2], r[2][2], c)
<1>1. PICK k \in 1 .. Len(Held(x)) :
         /\ At(r, F, AfterTerms(v, x, k - 1)) /\ ds = FirstDocs(v, x, Len(x.docs))
         /\ l = Len(Held(x)) - k + 1 /\ c = Counted(x, k, 0)
  BY DEF AtTerm
<1> DEFINE s == Stream(v, x)
           n == Len(x.docs)
           m == Len(Held(x))
           p == AfterTerms(v, x, k - 1)
           h == Held(x)[k]
           holders == Holders(x, h)
<1>2. v \in Versions /\ IsIndex(x) /\ n \in Nat /\ m \in Nat
  <2>1. v \in Versions /\ IsIndex(x)
    BY DEF Opened
  <2>2. m \in Nat
    BY HeldFacts
  <2>3. n \in Nat
    BY <2>1 DEF IsIndex
  <2> QED BY <2>1, <2>2, <2>3
<1>3. /\ s[p + 1] = <<"term", h>> /\ s[p + 2] = <<"postings", Cardinality(holders)>>
      /\ p + 2 <= Len(s) /\ AfterPostings(v, x, k, 0) = p + 2
  <2>1. TermShape(v, x, s, k)
    BY <1>2, TermsAt
  <2> QED BY <2>1 DEF TermShape
<1>4. s = Stream(v, x) /\ n = Len(x.docs) /\ At(r, F, p)
  BY <1>1
<1>5. Cardinality(holders) \in Nat /\ Cardinality(holders) > 0
      /\ holders = {d \in holders : d > 0}
  <2>1. holders \subseteq 1 .. n
    BY <1>2 DEF Holders, IsIndex
  <2>2. IsFiniteSet(1 .. n)
    <3>1. 1 \in Int /\ n \in Int
      BY <1>2
    <3> QED BY <3>1, FS_Interval
  <2>3. IsFiniteSet(holders) /\ Cardinality(holders) \in Nat
    BY <2>1, <2>2, FS_Subset, FS_CardinalityType
  <2>4. holders # {}
    BY HeldFacts DEF Holders
  <2>5. Cardinality(holders) # 0
    BY <2>3, <2>4, FS_EmptySet
  <2> HIDE DEF holders
  <2>6. \A d \in holders : d > 0
    BY <2>1
  <2>7. holders = {d \in holders : d > 0}
    BY <2>6
  <2> DEFINE z == Cardinality(holders)
  <2>8. z \in Nat /\ z # 0
    BY <2>3, <2>5
  <2> HIDE DEF z
  <2>9. z \in Nat /\ z > 0
    BY <2>8
  <2> QED BY <2>7, <2>9 DEF z
<1> HIDE DEF s, p, holders, n
<1>6. Onward(F, r, p, s, n)
  BY ONLY <1>4, Opened(v, x, F), AtNext
<1>7. ASSUME F = s PROVE Len(r) >= 2
  BY <1>3, <1>6, <1>7 DEF Onward
<1>8. ASSUME Len(r) >= 2
      PROVE  r[2][2] > 0 /\ AtPosting(v, x, F, u, ds, ls, Head(r)[2], r[2][2], c)
  <2>1. 1 \in 1 .. Len(r) /\ 2 \in 1 .. Len(r) /\ Len(r) \in Nat
    BY <1>6, <1>8 DEF Onward
  <2>2. Head(r) = r[1] /\ (r[1] = s[p + 1] \/ Refused(s[p + 1], r[1], n))
        /\ (r[2] = s[p + 2] \/ Refused(s[p + 2], r[2], n))
    <3>1. r # <<>>
      BY <1>6, <2>1 DEF Onward
    <3> QED BY <1>6, <2>1, <3>1 DEF Onward
  <2>3. ~Refused(s[p + 1], r[1], n) /\ ~Refused(s[p + 2], r[2], n)
    BY <1>3 DEF Refused
  <2>4. Head(r)[2] = h /\ r[2][2] = Cardinality(holders)
    BY <1>3, <2>2, <2>3
  <2>5. At(u, F, p + 2)
    <3>1. u = SubSeq(r, 2 + 1, Len(r)) /\ 2 \in Nat /\ 2 <= Len(r)
      BY <1>8, <2>1
    <3> QED BY ONLY <1>4, <3>1, AtMoves
  <2>6. At(u, F, AfterPostings(v, x, k, 0))
    BY <1>3, <2>5
  <2>7. ls = m - k
    BY <1>1, <1>2
  <2>8. 0 \in 0 .. Len(x.docs)
    BY <1>2, <1>4
  <2>9. Cardinality(holders) = Cardinality({d \in Holders(x, h) : d > 0})
    BY <1>5 DEF holders
  <2>10. AtPosting(v, x, F, u, ds, ls, h, Cardinality(holders), c)
    BY <1>1, <1>5, <2>6, <2>7, <2>8, <2>9 DEF AtPosting
  <2> QED BY <1>5, <2>4, <2>10
<1> QED BY <1>7, <1>8 DEF s

\* Nothing is written of the documents that do not hold the term.
LEMMA NoGap ==
    ASSUME NEW v \in Versions, NEW x, IsIndex(x), NEW k \in 1 .. Len(Held(x)),
           NEW i \in 0 .. Len(x.docs), NEW e \in 0 .. Len(x.docs), i <= e,
           \A d \in 1 .. Len(x.docs) : i < d /\ d <= e => ~(x.count[Held(x)[k]][d] > 0)
    PROVE  AfterPostings(v, x, k, e) = AfterPostings(v, x, k, i)
<1> DEFINE n == Len(x.docs)
           P(j) == AfterPostings(v, x, k, j)
           T == {j \in Nat : i + j <= e => P(i + j) = P(i)}
<1>1. n \in Nat
  BY DEF IsIndex
<1>2. 0 \in T
  BY <1>1
<1>3. ASSUME NEW j \in Nat, j \in T PROVE j + 1 \in T
  <2> SUFFICES ASSUME i + (j + 1) <= e PROVE P(i + (j + 1)) = P(i)
    OBVIOUS
  <2> DEFINE d == i + (j + 1)
  <2>1. d \in 1 .. n /\ i < d /\ d <= e /\ d - 1 = i + j /\ i + j <= e
    BY <1>1
  <2>2. P(i + j) = P(i)
    BY <1>3, <2>1
  <2> HIDE DEF d
  <2>3. ~(x.count[Held(x)[k]][d] > 0)
    BY <2>1
  <2>4. PostingItems(x, Held(x)[k], d) = <<>>
    BY <2>3, PostingShape
  <2>5. Len(PostingItems(x, Held(x)[k], d)) = 0
    BY <2>4
  <2>6. P(d) = P(d - 1) + Len(PostingItems(x, Held(x)[k], d)) /\ P(d - 1) \in Nat
    <3>1. d - 1 \in 0 .. n
      BY <1>1, <2>1
    <3>2. TermShape(v, x, Stream(v, x), k)
      BY TermsAt
    <3> QED BY <2>1, <3>1, <3>2 DEF TermShape
  <2> DEFINE y == P(d)
             z == P(d - 1)
             w == Len(PostingItems(x, Held(x)[k], d))
  <2>7. y = z + w /\ z \in Nat /\ w = 0
    BY <2>5, <2>6
  <2> HIDE DEF y, z, w
  <2>8. y = z
    BY ONLY <2>7
  <2>9. z = P(i)
    BY <2>1, <2>2 DEF z
  <2> QED BY <2>8, <2>9 DEF y, d
<1> HIDE DEF T
<1>4. Nat \subseteq T
  BY <1>2, <1>3, Induction
<1>5. e - i \in T
  <2>1. e - i \in Nat
    BY <1>1
  <2> QED BY <1>4, <2>1
<1>6. i + (e - i) = e /\ e <= e
  BY <1>1
<1> QED BY <1>5, <1>6 DEF T

\* The e-th document is the next after the i-th that holds the k-th term.
HolderNext(v, x, k, i, e) ==
    /\ i < e /\ x.count[Held(x)[k]][e] > 0
    /\ \A d \in 1 .. Len(x.docs) : i < d /\ d < e => ~(x.count[Held(x)[k]][d] > 0)
    /\ AfterPostings(v, x, k, e - 1) = AfterPostings(v, x, k, i)
    /\ Cardinality({d \in Holders(x, Held(x)[k]) : d > e})
          = Cardinality({d \in Holders(x, Held(x)[k]) : d > i}) - 1

LEMMA NextHolder ==
    ASSUME NEW v \in Versions, NEW x, IsIndex(x), NEW k \in 1 .. Len(Held(x)),
           NEW i \in 0 .. Len(x.docs),
           Cardinality({d \in Holders(x, Held(x)[k]) : d > i}) > 0
    PROVE  \E e \in 1 .. Len(x.docs) : HolderNext(v, x, k, i, e)
<1> DEFINE n == Len(x.docs)
           H == Holders(x, Held(x)[k])
           A == {d \in H : d > i}
<1>1. n \in Nat /\ H \subseteq 1 .. n /\ \A d \in 1 .. n : d \in H <=> x.count[Held(x)[k]][d] > 0
  BY DEF IsIndex, Holders
<1>2. IsFiniteSet(H) /\ IsFiniteSet(A)
  <2>1. 1 \in Int /\ n \in Int
    BY <1>1
  <2>2. IsFiniteSet(1 .. n)
    BY <2>1, FS_Interval
  <2>3. A \subseteq H
    OBVIOUS
  <2> HIDE DEF A, H
  <2> QED BY <1>1, <2>2, <2>3, FS_Subset
<1>3. A # {}
  BY FS_EmptySet
<1>4. A \subseteq Nat
  BY <1>1
<1>5. PICK e \in A : \A d \in A : e <= d
  BY <1>3, <1>4, Least
<1>6. e \in 1 .. n /\ i < e /\ e \in H /\ i \in Int
  BY <1>1, <1>5
<1>7. \A d \in 1 .. n : i < d /\ d < e => ~(x.count[Held(x)[k]][d] > 0)
  BY <1>1, <1>5, <1>6
<1>8. AfterPostings(v, x, k, e - 1) = AfterPostings(v, x, k, i)
  <2>1. e - 1 \in 0 .. n /\ i <= e - 1
    BY <1>1, <1>6
  <2>2. \A d \in 1 .. n : i < d /\ d <= e - 1 => ~(x.count[Held(x)[k]][d] > 0)
    BY <1>6, <1>7
  <2> QED BY <2>1, <2>2, NoGap
<1>9. {d \in H : d > e} = A \ {e}
  <2>1. \A d \in H : d > e <=> d > i /\ d # e
    BY <1>1, <1>5, <1>6
  <2> QED BY <1>5, <2>1
<1>10. Cardinality(A \ {e}) = Cardinality(A) - 1
  <2> HIDE DEF A
  <2> QED BY <1>2, <1>5, FS_RemoveElement
<1>11. HolderNext(v, x, k, i, e)
  BY <1>6, <1>1, <1>7, <1>8, <1>9, <1>10 DEF HolderNext
<1> QED BY <1>6, <1>11

\* A count, set for the document of a posting.
Posted(c, t, d, n) == [c EXCEPT ![t][d + 1] = n]

\* What the reader demands of a posting, and where it is when it has accepted it.
PostingTaken(v, x, F, r, ds, l, t, q, b, u) ==
    /\ F = Stream(v, x) => Len(r) >= 2 /\ Head(r)[2] < Len(ds)
    /\ Len(r) >= 2 /\ Head(r)[2] < Len(ds) =>
         IF q > 0 THEN AtPosting(v, x, F, u, ds, l, t, q, b)
         ELSE IF l > 0 THEN AtTerm(v, x, F, u, ds, l, b) ELSE WholeRead(v, x, ds, b)

\* A posting that the reader accepts is the one that was written.
LEMMA PostingRead ==
    ASSUME NEW v, NEW x, NEW F, Opened(v, x, F), NEW r, NEW ds, NEW l, NEW t, NEW p, NEW c,
           AtPosting(v, x, F, r, ds, l, t, p, c),
           NEW u, u = SubSeq(r, 3, Len(r)), NEW q, q = p - 1,
           NEW b, b = Posted(c, t, Head(r)[2], r[2][2])
    PROVE  PostingTaken(v, x, F, r, ds, l, t, q, b, u)
<1>1. PICK k \in 1 .. Len(Held(x)), i \in 0 .. Len(x.docs) :
         /\ At(r, F, AfterPostings(v, x, k, i)) /\ ds = FirstDocs(v, x, Len(x.docs))
         /\ t = Held(x)[k] /\ l = Len(Held(x)) - k
         /\ p = Cardinality({d \in Holders(x, t) : d > i}) /\ p > 0
         /\ c = Counted(x, k, i)
  BY DEF AtPosting
<1> DEFINE s == Stream(v, x)
           n == Len(x.docs)
           m == Len(Held(x))
           a == AfterPostings(v, x, k, i)
           A(j) == {d \in Holders(x, t) : d > j}
<1>2. v \in Versions /\ IsIndex(x) /\ n \in Nat /\ m \in Nat /\ t \in Words
  <2>1. v \in Versions /\ IsIndex(x)
    BY DEF Opened
  <2>2. m \in Nat /\ t \in Words
    BY <1>1, HeldFacts
  <2>3. n \in Nat
    BY <2>1 DEF IsIndex
  <2> QED BY <2>1, <2>2, <2>3
<1>3. PICK e \in 1 .. n :
         /\ i < e /\ x.count[t][e] > 0
         /\ \A d \in 1 .. n : i < d /\ d < e => ~(x.count[t][d] > 0)
         /\ AfterPostings(v, x, k, e - 1) = a
         /\ Cardinality(A(e)) = Cardinality(A(i)) - 1
  <2>1. v \in Versions /\ IsIndex(x) /\ Cardinality({d \in Holders(x, Held(x)[k]) : d > i}) > 0
    BY <1>1, <1>2
  <2>2. \E e \in 1 .. Len(x.docs) : HolderNext(v, x, k, i, e)
    BY ONLY <2>1, NextHolder
  <2>3. t = Held(x)[k]
    BY <1>1
  <2> QED BY ONLY <2>2, <2>3 DEF HolderNext
<1>4. PostingItems(x, t, e) = <<<<"document", e - 1>>, <<"count", x.count[t][e]>>>>
  BY <1>3, PostingShape
<1> DEFINE items == PostingItems(x, t, e)
           one == <<"document", e - 1>>
           two == <<"count", x.count[t][e]>>
<1>5. Len(items) = 2 /\ items[1] = one /\ items[2] = two
  <2> HIDE DEF items, one, two
  <2>1. items = <<one, two>>
    BY <1>4 DEF items, one, two
  <2> QED BY <2>1, Singles
<1>6. /\ a \in Nat /\ AfterPostings(v, x, k, e) = a + 2
      /\ a + 1 \in 1 .. Len(s) /\ s[a + 1] = one
      /\ a + 2 \in 1 .. Len(s) /\ s[a + 2] = two
  <2>1. /\ \A j \in 0 .. n : AfterPostings(v, x, k, j) \in Nat
        /\ \A j \in 1 .. n :
              AfterPostings(v, x, k, j) = AfterPostings(v, x, k, j - 1) + Len(PostingItems(x, t, j))
        /\ \A j \in 1 .. n : \A w \in 1 .. Len(PostingItems(x, t, j)) :
              /\ AfterPostings(v, x, k, j - 1) + w \in 1 .. Len(s)
              /\ s[AfterPostings(v, x, k, j - 1) + w] = PostingItems(x, t, j)[w]
    <3>1. v \in Versions /\ IsIndex(x) /\ s = Stream(v, x) /\ t = Held(x)[k]
      BY <1>1, <1>2
    <3> HIDE DEF s
    <3>2. TermShape(v, x, s, k)
      BY ONLY <3>1, TermsAt
    <3> QED BY <3>1, <3>2 DEF TermShape
  <2> HIDE DEF s, items, one, two, n
  <2>2. a \in Nat
    BY <2>1 DEF n
  <2>3. AfterPostings(v, x, k, e) = a + 2
    BY <1>3, <1>5, <2>1 DEF items
  <2>4. 1 \in 1 .. Len(items) /\ 2 \in 1 .. Len(items)
    BY <1>5
  <2>5. \A w \in 1 .. Len(items) : a + w \in 1 .. Len(s) /\ s[a + w] = items[w]
    BY <1>3, <2>1 DEF items
  <2> QED BY <1>5, <2>2, <2>3, <2>4, <2>5
<1>7. s = Stream(v, x) /\ n = Len(x.docs) /\ At(r, F, a)
  BY <1>1
<1>8. DOMAIN ds = 1 .. n /\ Len(ds) = n
  BY <1>1, <1>2 DEF FirstDocs
<1>9. p = Cardinality(A(i)) /\ p \in Nat
  <2>1. A(i) \subseteq 1 .. n
    BY <1>2 DEF Holders, IsIndex
  <2>2. IsFiniteSet(1 .. n)
    <3>1. 1 \in Int /\ n \in Int
      BY <1>2
    <3> QED BY <3>1, FS_Interval
  <2>3. Cardinality(A(i)) \in Nat
    <3> HIDE DEF A
    <3> QED BY <2>1, <2>2, FS_Subset, FS_CardinalityType
  <2> QED BY <1>1, <2>3
<1> HIDE DEF s, a, items, n
<1>10. Onward(F, r, a, s, n)
  BY ONLY <1>7, Opened(v, x, F), AtNext
<1>11. e \in Int /\ 1 <= e /\ e <= n /\ e - 1 < n /\ n \in Nat
  BY <1>2, <1>3
<1>12. ASSUME F = s PROVE Len(r) >= 2 /\ Head(r)[2] < Len(ds)
  <2>1. Len(r) >= 2 /\ Len(r) \in Nat
    BY <1>6, <1>10, <1>12, SMTT(30) DEF Onward
  <2>2. 1 \in 1 .. Len(r) /\ Len(r) >= 1
    BY ONLY <2>1
  <2>3. Head(r) = r[1] /\ r[1] = s[a + 1]
    BY <1>10, <1>12, <2>2 DEF Onward
  <2>4. Head(r)[2] = e - 1
    <3>1. Head(r) = one
      BY <1>6, <2>3
    <3> QED BY ONLY <3>1
  <2> QED BY <1>8, <1>11, <2>1, <2>4
<1>13. ASSUME Len(r) >= 2, Head(r)[2] < Len(ds)
       PROVE  IF q > 0 THEN AtPosting(v, x, F, u, ds, l, t, q, b)
              ELSE IF l > 0 THEN AtTerm(v, x, F, u, ds, l, b) ELSE WholeRead(v, x, ds, b)
  <2>1. Len(r) \in Nat
    BY <1>10 DEF Onward
  <2>2. 1 \in 1 .. Len(r) /\ 2 \in 1 .. Len(r) /\ Len(r) >= 1
    BY ONLY <1>13, <2>1
  <2>3. Head(r) = r[1] /\ (r[1] = s[a + 1] \/ Refused(s[a + 1], r[1], n))
        /\ (r[2] = s[a + 2] \/ Refused(s[a + 2], r[2], n))
    BY <1>10, <2>2 DEF Onward
  <2>4. Head(r)[2] = e - 1
    <3>1. Refused(s[a + 1], r[1], n) => r[1] = <<"document", n>>
      <4>1. s[a + 1] = one
        BY <1>6
      <4> QED BY ONLY <4>1 DEF Refused
    <3>2. r[1] = <<"document", n>> => Head(r)[2] = n
      BY <2>3
    <3>3. ~(Head(r)[2] = n)
      BY <1>8, <1>11, <1>13
    <3>4. Head(r) = one
      BY <1>6, <2>3, <3>1, <3>2, <3>3
    <3> QED BY ONLY <3>4
  <2>5. r[2][2] = x.count[t][e]
    <3>1. s[a + 2] = two
      BY <1>6
    <3>2. ~Refused(s[a + 2], r[2], n)
      BY ONLY <3>1 DEF Refused
    <3>3. r[2] = two
      BY <2>3, <3>1, <3>2
    <3> QED BY ONLY <3>3
  <2>6. b = Counted(x, k, e)
    <3>1. Head(r)[2] + 1 = e
      BY <1>11, <2>4
    <3>2. b = [c EXCEPT ![t][e] = x.count[t][e]]
      BY <2>5, <3>1 DEF Posted
    <3>3. [Counted(x, k, i) EXCEPT ![Held(x)[k]][e] = x.count[Held(x)[k]][e]] = Counted(x, k, e)
      BY <1>1, <1>2, <1>3, CountedNext, ZenonT(30) DEF n
    <3> QED BY <1>1, <3>2, <3>3
  <2>7. At(u, F, AfterPostings(v, x, k, e))
    <3>1. u = SubSeq(r, 2 + 1, Len(r)) /\ 2 \in Nat /\ 2 <= Len(r)
      BY <1>13, <2>1
    <3>2. At(u, F, a + 2)
      BY ONLY <1>7, <3>1, AtMoves
    <3> QED BY <1>6, <3>2
  <2>8. q = Cardinality(A(e)) /\ e \in 0 .. n
    BY <1>3, <1>9, <1>11
  <2>9. CASE q > 0
    <3>1. e \in 0 .. Len(x.docs)
      BY <1>7, <2>8
    <3>2. AtPosting(v, x, F, u, ds, l, t, q, b)
      BY <1>1, <2>6, <2>7, <2>8, <2>9, <3>1 DEF AtPosting
    <3> QED BY <2>9, <3>2
  <2>10. CASE ~(q > 0)
    <3>1. \A d \in 1 .. n : e < d => ~(x.count[t][d] > 0)
      <4>1. A(e) = {}
        <5>1. IsFiniteSet(A(e)) /\ Cardinality(A(e)) = 0
          <6>1. A(e) \subseteq 1 .. n
            BY <1>2 DEF Holders, IsIndex, n
          <6>2. IsFiniteSet(1 .. n)
            <7>1. 1 \in Int /\ n \in Int
              BY <1>2 DEF n
            <7> QED BY <7>1, FS_Interval
          <6> HIDE DEF A
          <6>3. IsFiniteSet(A(e))
            BY <6>1, <6>2, FS_Subset
          <6>4. Cardinality(A(e)) \in Nat
            BY <6>3, FS_CardinalityType
          <6> QED BY <2>8, <2>10, <6>3, <6>4
        <5> HIDE DEF A
        <5> QED BY <5>1, FS_EmptySet
      <4>2. \A d \in 1 .. n : x.count[t][d] > 0 => d \in Holders(x, t)
        BY <1>2 DEF Holders, IsIndex, n
      <4>3. \A d \in 1 .. n : d \in Int
        OBVIOUS
      <4> QED BY <1>11, <4>1, <4>2, <4>3
    <3>2. Counted(x, k, e) = Counted(x, k, n)
      BY <1>1, <1>2, <2>8, <3>1, CountedLast DEF n
    <3>3. Counted(x, k, n) = Counted(x, k + 1, 0)
      BY <1>2, CountedBounds DEF n
    <3>4. AfterPostings(v, x, k, e) = AfterPostings(v, x, k, n)
      <4>1. n \in 0 .. n /\ e \in 0 .. n /\ e <= n
        BY <1>11
      <4>2. \A d \in 1 .. n : e < d /\ d <= n => ~(x.count[t][d] > 0)
        BY <3>1
      <4>3. AfterPostings(v, x, k, n) = AfterPostings(v, x, k, e)
        BY <1>1, <1>2, <4>1, <4>2, NoGap DEF n
      <4> QED BY <4>3
    <3>5. AfterPostings(v, x, k, n) = AfterTerms(v, x, k)
      <4>1. TermShape(v, x, Stream(v, x), k)
        BY <1>2, TermsAt
      <4> QED BY <1>7, <4>1 DEF TermShape
    <3>6. At(u, F, AfterTerms(v, x, k)) /\ b = Counted(x, k + 1, 0)
      BY <2>6, <2>7, <3>2, <3>3, <3>4, <3>5
    <3>7. k \in Int /\ 1 <= k /\ k <= m /\ l = m - k
      BY <1>1, <1>2
    <3>8. CASE l > 0
      <4>1. k + 1 \in 1 .. m /\ (k + 1) - 1 = k /\ l = m - (k + 1) + 1
        <5>1. m \in Nat
          BY <1>2
        <5> HIDE DEF m
        <5> QED BY ONLY <3>7, <3>8, <5>1
      <4>2. AtTerm(v, x, F, u, ds, l, b)
        BY <1>1, <3>6, <4>1 DEF AtTerm
      <4> QED BY <2>10, <3>8, <4>2
    <3>9. CASE ~(l > 0)
      <4>1. k = m
        BY <1>2, <3>7, <3>9
      <4>2. b = x.count
        BY <1>2, <3>6, <4>1, CountedBounds
      <4>3. WholeRead(v, x, ds, b)
        BY <1>1, <4>2 DEF WholeRead
      <4> QED BY <2>10, <3>9, <4>3
    <3> QED BY <3>8, <3>9
  <2> QED BY <2>9, <2>10
<1> QED BY <1>12, <1>13 DEF s, PostingTaken
-----------------------------------------------------------------------------
(* The file, until it is opened.                                           *)

LEMMA WholeRemains ==
    ASSUME NEW v \in Versions, NEW x, IsIndex(x), NEW s, s = Stream(v, x), NEW n
    PROVE  /\ IsList(s) /\ Len(s) \in Nat /\ Remains(s, s, n)
           /\ \A k \in 0 .. Len(s) : Remains(SubSeq(s, 1, k), s, n)
           /\ \A k \in 1 .. Len(s) : \A item :
                 Refused(s[k], item, n) => Remains([s EXCEPT ![k] = item], s, n)
<1>1. IsList(s)
  BY StreamParts DEF StreamShape
<1> DEFINE A == {s[i] : i \in DOMAIN s}
<1>2. s \in Seq(A) /\ Len(s) \in Nat /\ DOMAIN s = 1 .. Len(s)
  BY <1>1, ListLength DEF IsList
<1>3. Remains(s, s, n)
  BY <1>1, <1>2 DEF Remains
<1>4. ASSUME NEW k \in 0 .. Len(s) PROVE Remains(SubSeq(s, 1, k), s, n)
  <2> DEFINE t == SubSeq(s, 1, k)
  <2> HIDE DEF A
  <2>1. t \in Seq(A) /\ Len(t) = k /\ \A i \in 1 .. k : t[i] = s[i]
    BY <1>2
  <2> HIDE DEF t
  <2>2. IsList(t)
    BY <2>1, ListOf
  <2>3. k <= Len(s)
    BY <1>2
  <2> QED BY <2>1, <2>2, <2>3 DEF Remains, t
<1>5. ASSUME NEW k \in 1 .. Len(s), NEW item, Refused(s[k], item, n)
      PROVE  Remains([s EXCEPT ![k] = item], s, n)
  <2> DEFINE t == [s EXCEPT ![k] = item]
             B == A \cup {item}
  <2>1. \A i \in 1 .. Len(s) : s[i] \in A
    BY <1>2
  <2>2. \A i \in 1 .. Len(s) : t[i] = IF i = k THEN item ELSE s[i]
    BY <1>2
  <2>3. DOMAIN t = 1 .. Len(s) /\ t = [i \in 1 .. Len(s) |-> t[i]]
    BY <1>2
  <2> HIDE DEF t, A
  <2>4. IsList(t) /\ Len(t) = Len(s)
    BY <1>2, <2>3, ListMade
  <2>5. \A i \in 1 .. Len(t) : t[i] = s[i] \/ Refused(s[i], t[i], n)
    BY <1>5, <2>2, <2>4
  <2>6. Len(t) <= Len(s)
    BY <1>2, <2>4
  <2> QED BY <2>4, <2>5, <2>6 DEF Remains, t
<1> QED BY <1>1, <1>2, <1>3, <1>4, <1>5

LEMMA SpoiltRefused ==
    ASSUME NEW item, NEW spoilt \in Spoilt(item)
    PROVE  Refused(item, spoilt, Len(library))
<1>1. CASE item[1] = "flag"
  BY <1>1 DEF Spoilt, Refused
<1>2. CASE item[1] = "dir"
  BY <1>2 DEF Spoilt, Refused
<1>3. CASE item[1] = "document"
  BY <1>3 DEF Spoilt, Refused
<1>4. CASE item[1] = "documents"
  BY <1>4 DEF Spoilt, Refused
<1>5. CASE item[1] \notin {"flag", "dir", "document", "documents"}
  <2>1. Spoilt(item) = {}
    BY <1>5, Zenon DEF Spoilt
  <2> QED BY <2>1
<1> QED BY <1>1, <1>2, <1>3, <1>4, <1>5

LEMMA OtherMagicsRefused == \A magic \in OtherMagics : magic \notin Versions
BY Zenon DEF OtherMagics, Versions

\* Whatever happens to the file, what can be read of it is what is left of it.
LEMMA DamageLeaves ==
    ASSUME library \in Libraries, library' = library, SpoiltFile,
           NEW v \in Versions, file = File(v, Build(library)), Readable'
    PROVE  Remains(file'.stream, Stream(file'.magic, Build(library)), Len(library))
<1> DEFINE x == Build(library)
           s == Stream(v, x)
           n == Len(library)
<1>1. IsIndex(x) /\ s = Stream(v, x)
  BY BuiltRight
<1> HIDE DEF x, s, n
<1>2. /\ file = [magic |-> v, raw |-> Len(s), packed |-> "whole", stream |-> s]
      /\ file.stream = s
  BY DEF File, x, s
<1>3. /\ IsList(s) /\ Len(s) \in Nat /\ Remains(s, s, n)
      /\ \A k \in 0 .. Len(s) : Remains(SubSeq(s, 1, k), s, n)
      /\ \A k \in 1 .. Len(s) : \A item :
            Refused(s[k], item, n) => Remains([s EXCEPT ![k] = item], s, n)
  BY <1>1, WholeRemains
<1>4. file' # Missing /\ file'.magic \in Versions /\ file'.packed = "whole"
  BY DEF Readable
<1>5. CASE \E magic \in OtherMagics : file' = [file EXCEPT !.magic = magic]
  <2>1. PICK magic \in OtherMagics : file' = [file EXCEPT !.magic = magic]
    BY <1>5
  <2>2. file'.magic = magic
    BY <1>2, <2>1
  <2> QED BY <1>4, <2>2, OtherMagicsRefused
<1>6. CASE file' = [file EXCEPT !.packed = "broken"]
  <2>1. file'.packed = "broken"
    BY <1>2, <1>6
  <2> QED BY <1>4, <2>1
<1>7. CASE \E k \in 0 .. Len(file.stream) - 1 :
              file' = [file EXCEPT !.stream = SubSeq(@, 1, k), !.raw = k]
  <2>1. PICK k \in 0 .. Len(file.stream) - 1 :
           file' = [file EXCEPT !.stream = SubSeq(@, 1, k), !.raw = k]
    BY <1>7, Zenon
  <2>2. file'.magic = v /\ file'.stream = SubSeq(s, 1, k)
    BY <1>2, <2>1
  <2>3. k \in 0 .. Len(s)
    BY <1>2, <1>3
  <2>4. Remains(SubSeq(s, 1, k), s, n)
    BY <1>3, <2>3
  <2> QED BY <1>1, <2>2, <2>4 DEF x, n
<1>8. CASE \E k \in DOMAIN file.stream : \E item \in Spoilt(file.stream[k]) :
              file' = [file EXCEPT !.stream[k] = item]
  <2>1. PICK k \in DOMAIN s : \E item \in Spoilt(s[k]) : file' = [file EXCEPT !.stream[k] = item]
    BY <1>2, <1>8
  <2>2. PICK item \in Spoilt(s[k]) : file' = [file EXCEPT !.stream[k] = item]
    BY <2>1
  <2>3. file'.magic = v /\ file'.stream = [s EXCEPT ![k] = item]
    BY <1>2, <2>2
  <2>4. Refused(s[k], item, n)
    BY SpoiltRefused DEF n
  <2>5. k \in 1 .. Len(s)
    BY <1>3, ListLength
  <2>6. Remains([s EXCEPT ![k] = item], s, n)
    BY <1>3, <2>4, <2>5
  <2> QED BY <1>1, <2>3, <2>6 DEF x, n
<1> QED BY <1>4, <1>5, <1>6, <1>7, <1>8, Zenon DEF SpoiltFile

LEMMA LibraryIndex ==
    ASSUME library \in Libraries
    PROVE  /\ IsIndex(Build(library)) /\ Len(Build(library).docs) = Len(library)
           /\ Len(library) \in Nat /\ Len(library) <= MaxDocs
           /\ \A i \in 1 .. Len(Build(library).docs) : Build(library).docs[i].dir # 0
BY BuiltRight

LEMMA FileInit == Init => FileInv
<1> SUFFICES ASSUME Init PROVE FileInv
  OBVIOUS
<1> USE DEF Init
<1>1. library \in Libraries /\ IsIndex(Build(library))
  BY LibraryIndex
<1>2. phase = "rebuild"
  OBVIOUS
<1>3. file = Missing \/ \E v \in Versions : file = File(v, Build(library))
  BY DEF Versions
<1>4. Readable => Remains(file.stream, Stream(file.magic, Build(library)), Len(library))
  <2> SUFFICES ASSUME Readable
               PROVE  Remains(file.stream, Stream(file.magic, Build(library)), Len(library))
    OBVIOUS
  <2>1. PICK v \in Versions : file = File(v, Build(library))
    BY <1>3 DEF Readable
  <2>2. file.magic = v /\ file.stream = Stream(v, Build(library))
    BY <2>1 DEF File
  <2> QED BY <1>1, <2>2, WholeRemains
<1>5. ~Loading
  BY <1>2 DEF Loading, Reading
<1> QED BY <1>1, <1>3, <1>4, <1>5 DEF FileInv

LEMMA RebuildFile ==
    ASSUME FileInv, RebuildIndex
    PROVE  FileInv'
<1> USE DEF RebuildIndex
<1>1. library' = library /\ library \in Libraries /\ IsIndex(Build(library))
  BY LibraryIndex DEF FileInv
<1>2. file' = File("CRZ5", Build(library)) /\ phase' = "stored" /\ "CRZ5" \in Versions
  BY DEF Versions
<1>3. file'.magic = "CRZ5" /\ file'.stream = Stream("CRZ5", Build(library))
  BY <1>2 DEF File
<1>4. Remains(file'.stream, Stream(file'.magic, Build(library)), Len(library))
  BY <1>1, <1>2, <1>3, WholeRemains
<1>5. ~Loading'
  BY <1>2 DEF Loading, Reading
<1> QED BY <1>1, <1>2, <1>4, <1>5 DEF FileInv

LEMMA DamageFile ==
    ASSUME FileInv, Damage
    PROVE  FileInv'
<1> USE DEF Damage
<1>1. library' = library /\ library \in Libraries /\ phase = "stored" /\ phase' = "damaged"
  BY DEF FileInv
<1>2. PICK v \in Versions : file = File(v, Build(library))
  BY DEF FileInv
<1>3. Readable' => Remains(file'.stream, Stream(file'.magic, Build(library)), Len(library))
  BY <1>1, <1>2, DamageLeaves
<1>4. ~Loading'
  BY <1>1 DEF Loading, Reading
<1> QED BY <1>1, <1>3, <1>4 DEF FileInv

\* No other step touches the file, and one that begins to read it finds it readable.
LEMMA KeptFile ==
    ASSUME FileInv, library' = library, file' = file, phase' # "rebuild",
           phase' = "stored" => phase \in {"rebuild", "stored"}, Loading' => Readable
    PROVE  FileInv'
<1>1. Readable' = Readable
  BY DEF Readable
<1> QED BY <1>1 DEF FileInv
-----------------------------------------------------------------------------
(* The steps of the reader.                                                *)

LEMMA OpenedFile ==
    ASSUME FileInv, Loading
    PROVE  /\ Opened(file.magic, Build(library), file.stream)
           /\ Len(Build(library).docs) \in Nat /\ Len(Build(library).docs) <= MaxDocs
<1>1. library \in Libraries /\ Readable
      /\ Remains(file.stream, Stream(file.magic, Build(library)), Len(library))
  BY DEF FileInv
<1>2. file.magic \in Versions
  BY <1>1 DEF Readable
<1> QED BY <1>1, <1>2, LibraryIndex DEF Opened

LEMMA AcceptableIs ==
    /\ phase = "documents" => (Acceptable <=> rest # <<>> /\ Value <= MaxDocs)
    /\ phase = "field" => (Acceptable <=> /\ rest # <<>>
                                          /\ Field \in Optional => Value \in 0..1 /\ Len(rest) > Value)
    /\ phase = "document" => (Acceptable <=> fields[1] # 0)
    /\ phase = "terms" => (Acceptable <=> rest # <<>>)
    /\ phase = "term" => (Acceptable <=> Len(rest) >= 2)
    /\ phase = "posting" => (Acceptable <=> Len(rest) >= 2 /\ Value < Len(docs))
<1>1. phase = "documents" => (Acceptable <=> rest # <<>> /\ Value <= MaxDocs)
  BY Zenon DEF Acceptable
<1>2. phase = "field" => (Acceptable <=> /\ rest # <<>>
                                         /\ Field \in Optional => Value \in 0..1 /\ Len(rest) > Value)
  BY Zenon DEF Acceptable
<1>3. phase = "document" => (Acceptable <=> fields[1] # 0)
  BY Zenon DEF Acceptable
<1>4. phase = "terms" => (Acceptable <=> rest # <<>>)
  BY Zenon DEF Acceptable
<1>5. phase = "term" => (Acceptable <=> Len(rest) >= 2)
  BY Zenon DEF Acceptable
<1>6. phase = "posting" => (Acceptable <=> Len(rest) >= 2 /\ Value < Len(docs))
  BY Zenon DEF Acceptable
<1> QED BY <1>1, <1>2, <1>3, <1>4, <1>5, <1>6

\* What holds of a step of the reader that leaves the file alone.
SameFile == library' = library /\ file' = file

LEMMA DocumentCountStep ==
    ASSUME FileInv, ReaderInv, ReadDocumentCount
    PROVE  ReaderInv'
<1> DEFINE v == file.magic
           x == Build(library)
           F == file.stream
<1>1. /\ phase = "documents" /\ rest # <<>> /\ Head(rest)[2] <= MaxDocs /\ left' = Head(rest)[2]
      /\ phase' = IF Head(rest)[2] = 0 THEN "terms" ELSE "field"
      /\ rest' = SubSeq(rest, 1 + 1, Len(rest)) /\ docs' = docs /\ fields' = fields
      /\ SameFile
  BY AcceptableIs DEF ReadDocumentCount, Read, Value, SameFile
<1>2. Opened(v, x, F) /\ Len(x.docs) <= MaxDocs
  BY <1>1, OpenedFile DEF Loading, Reading
<1>3. AtDocuments(v, x, F, rest, docs, fields)
  BY <1>1 DEF ReaderInv, ReadSoFar
<1> HIDE DEF v, x, F
<1>4. rest' = SubSeq(rest, 2, Len(rest))
  BY <1>1
<1>5. /\ Head(rest)[2] = Len(x.docs)
      /\ IF Len(x.docs) = 0 THEN AtTerms(v, x, F, rest', docs)
                            ELSE AtField(v, x, F, rest', docs, fields, Len(x.docs))
  BY ONLY <1>1, <1>2, <1>3, <1>4, DocumentCountRead
<1>6. ReadSoFar(phase', v, x, F, rest', docs', fields', left', term', postings', count')
  BY <1>1, <1>5 DEF ReadSoFar
<1> QED BY <1>1, <1>6 DEF ReaderInv, SameFile, v, x, F

LEMMA FieldStep ==
    ASSUME FileInv, ReaderInv, ReadField
    PROVE  ReaderInv'
<1> DEFINE v == file.magic
           x == Build(library)
           F == file.stream
           f == Layout(v)[Len(fields) + 1]
           n == IF f \in Optional THEN 1 + Head(rest)[2] ELSE 1
<1>1. /\ phase = "field" /\ rest # <<>>
      /\ f \in Optional => Head(rest)[2] \in 0 .. 1 /\ Len(rest) > Head(rest)[2]
      /\ fields' = Append(fields, IF n = 1 /\ f \in Optional THEN None ELSE rest[n][2])
      /\ phase' = IF Len(fields') = Len(Layout(v)) THEN "document" ELSE "field"
      /\ rest' = SubSeq(rest, n + 1, Len(rest)) /\ docs' = docs /\ left' = left
      /\ SameFile
  BY AcceptableIs DEF ReadField, Read, Value, Field, SameFile
<1>2. Opened(v, x, F)
  BY <1>1, OpenedFile DEF Loading, Reading
<1>3. AtField(v, x, F, rest, docs, fields, left)
  BY <1>1 DEF ReaderInv, ReadSoFar
<1>4. /\ f = Layout(v)[Len(fields) + 1]
      /\ n = IF f \in Optional THEN 1 + Head(rest)[2] ELSE 1
  OBVIOUS
<1> HIDE DEF v, x, F, f, n
<1>5. IF Len(fields') = Len(Layout(v)) THEN AtDocument(v, x, F, rest', docs, fields', left)
                                       ELSE AtField(v, x, F, rest', docs, fields', left)
  BY ONLY <1>1, <1>2, <1>3, <1>4, FieldRead
<1>6. ReadSoFar(phase', v, x, F, rest', docs', fields', left', term', postings', count')
  BY <1>1, <1>5 DEF ReadSoFar
<1> QED BY <1>1, <1>6 DEF ReaderInv, SameFile, v, x, F

LEMMA DocumentStep ==
    ASSUME FileInv, ReaderInv, ReadDocument
    PROVE  ReaderInv'
<1> DEFINE v == file.magic
           x == Build(library)
           F == file.stream
<1>1. /\ phase = "document" /\ fields[1] # 0
      /\ docs' = Append(docs, [name \in Names |-> FieldIn(v, fields, name)])
      /\ fields' = <<>> /\ left' = left - 1
      /\ phase' = IF left' = 0 THEN "terms" ELSE "field"
      /\ rest' = SubSeq(rest, 0 + 1, Len(rest))
      /\ SameFile
  BY AcceptableIs DEF ReadDocument, Read, FieldOf, FieldIn, Names, SameFile
<1>2. Opened(v, x, F)
  BY <1>1, OpenedFile DEF Loading, Reading
<1>3. AtDocument(v, x, F, rest, docs, fields, left)
  BY <1>1 DEF ReaderInv, ReadSoFar
<1> HIDE DEF v, x, F
<1>4. rest' = SubSeq(rest, 1, Len(rest))
  BY <1>1
<1>5. IF left' = 0 THEN AtTerms(v, x, F, rest', docs')
                   ELSE AtField(v, x, F, rest', docs', <<>>, left')
  BY ONLY <1>1, <1>2, <1>3, <1>4, DocumentRead
<1>6. ReadSoFar(phase', v, x, F, rest', docs', fields', left', term', postings', count')
  BY <1>1, <1>5 DEF ReadSoFar
<1> QED BY <1>1, <1>6 DEF ReaderInv, SameFile, v, x, F

LEMMA TermCountStep ==
    ASSUME FileInv, ReaderInv, ReadTermCount
    PROVE  ReaderInv'
<1> DEFINE v == file.magic
           x == Build(library)
           F == file.stream
<1>1. /\ phase = "terms" /\ rest # <<>> /\ left' = Head(rest)[2]
      /\ count' = [t \in Words |-> [i \in DOMAIN docs |-> 0]]
      /\ phase' = IF Head(rest)[2] > 0 THEN "term" ELSE "read"
      /\ rest' = SubSeq(rest, 1 + 1, Len(rest)) /\ docs' = docs
      /\ SameFile
  BY AcceptableIs DEF ReadTermCount, Read, Value, NextTerm, SameFile
<1>2. Opened(v, x, F)
  BY <1>1, OpenedFile DEF Loading, Reading
<1>3. AtTerms(v, x, F, rest, docs)
  BY <1>1 DEF ReaderInv, ReadSoFar
<1> HIDE DEF v, x, F
<1>4. rest' = SubSeq(rest, 2, Len(rest))
  BY <1>1
<1>5. IF Head(rest)[2] > 0 THEN AtTerm(v, x, F, rest', docs, Head(rest)[2], count')
                           ELSE WholeRead(v, x, docs, count')
  BY ONLY <1>1, <1>2, <1>3, <1>4, TermCountRead
<1>6. ReadSoFar(phase', v, x, F, rest', docs', fields', left', term', postings', count')
  BY <1>1, <1>5 DEF ReadSoFar
<1> QED BY <1>1, <1>6 DEF ReaderInv, SameFile, v, x, F

LEMMA TermStep ==
    ASSUME FileInv, ReaderInv, ReadTerm
    PROVE  ReaderInv'
<1> DEFINE v == file.magic
           x == Build(library)
           F == file.stream
<1>1. /\ phase = "term" /\ Len(rest) >= 2
      /\ term' = Head(rest)[2] /\ postings' = rest[2][2] /\ left' = left - 1
      /\ phase' = IF postings' > 0 THEN "posting" ELSE IF left' > 0 THEN "term" ELSE "read"
      /\ rest' = SubSeq(rest, 2 + 1, Len(rest)) /\ docs' = docs /\ count' = count
      /\ SameFile
  BY AcceptableIs DEF ReadTerm, Read, Value, NextTerm, SameFile
<1>2. Opened(v, x, F)
  BY <1>1, OpenedFile DEF Loading, Reading
<1>3. AtTerm(v, x, F, rest, docs, left, count)
  BY <1>1 DEF ReaderInv, ReadSoFar
<1> HIDE DEF v, x, F
<1>4. rest' = SubSeq(rest, 3, Len(rest))
  BY <1>1
<1>5. rest[2][2] > 0 /\ AtPosting(v, x, F, rest', docs, left', Head(rest)[2], rest[2][2], count)
  BY ONLY <1>1, <1>2, <1>3, <1>4, TermRead
<1>6. ReadSoFar(phase', v, x, F, rest', docs', fields', left', term', postings', count')
  BY <1>1, <1>5 DEF ReadSoFar
<1> QED BY <1>1, <1>6 DEF ReaderInv, SameFile, v, x, F

LEMMA PostingStep ==
    ASSUME FileInv, ReaderInv, ReadPosting
    PROVE  ReaderInv'
<1> DEFINE v == file.magic
           x == Build(library)
           F == file.stream
<1>1. /\ phase = "posting" /\ Len(rest) >= 2 /\ Head(rest)[2] < Len(docs)
      /\ count' = [count EXCEPT ![term][Head(rest)[2] + 1] = rest[2][2]]
      /\ postings' = postings - 1 /\ left' = left /\ term' = term
      /\ phase' = IF postings' > 0 THEN "posting" ELSE IF left > 0 THEN "term" ELSE "read"
      /\ rest' = SubSeq(rest, 2 + 1, Len(rest)) /\ docs' = docs
      /\ SameFile
  BY AcceptableIs DEF ReadPosting, Read, Value, NextTerm, SameFile
<1>2. Opened(v, x, F)
  BY <1>1, OpenedFile DEF Loading, Reading
<1>3. AtPosting(v, x, F, rest, docs, left, term, postings, count)
  BY <1>1 DEF ReaderInv, ReadSoFar
<1> HIDE DEF v, x, F
<1>4. rest' = SubSeq(rest, 3, Len(rest))
  BY <1>1
<1>5. IF postings' > 0 THEN AtPosting(v, x, F, rest', docs, left, term, postings', count')
      ELSE IF left > 0 THEN AtTerm(v, x, F, rest', docs, left, count')
      ELSE WholeRead(v, x, docs, count')
  <2> DEFINE u == rest'
             q == postings'
             b == count'
  <2>1. /\ u = SubSeq(rest, 3, Len(rest)) /\ q = postings - 1
        /\ b = Posted(count, term, Head(rest)[2], rest[2][2])
    BY <1>1, <1>4 DEF Posted
  <2> HIDE DEF u, q, b
  <2>2. PostingTaken(v, x, F, rest, docs, left, term, q, b, u)
    BY ONLY <1>2, <1>3, <2>1, PostingRead
  <2>3. IF q > 0 THEN AtPosting(v, x, F, u, docs, left, term, q, b)
        ELSE IF left > 0 THEN AtTerm(v, x, F, u, docs, left, b) ELSE WholeRead(v, x, docs, b)
    BY <1>1, <2>2 DEF PostingTaken
  <2> QED BY <2>3 DEF u, q, b
<1>6. ReadSoFar(phase', v, x, F, rest', docs', fields', left', term', postings', count')
  BY <1>1, <1>5 DEF ReadSoFar
<1> QED BY <1>1, <1>6 DEF ReaderInv, SameFile, v, x, F

\* The reader begins with the first item of the file.
LEMMA OpenStep ==
    ASSUME FileInv, ReaderInv, OpenIndex
    PROVE  FileInv' /\ ReaderInv'
<1>1. /\ phase \in {"stored", "damaged"} /\ Readable /\ phase' = "documents"
      /\ rest' = file.stream /\ docs' = docs /\ fields' = fields /\ SameFile
  BY DEF OpenIndex, SameFile
<1>2. FileInv'
  BY <1>1, KeptFile DEF SameFile
<1>3. docs = <<>> /\ fields = <<>>
  BY <1>1 DEF ReaderInv, ReadSoFar
<1>4. IsList(file.stream)
  BY <1>1 DEF FileInv, Remains
<1>5. At(rest', file.stream, 0)
  <2>1. Len(file.stream) \in Nat
    BY <1>4, ListLength
  <2> QED BY <1>1, <1>4, <2>1 DEF At
<1>6. AtDocuments(file.magic, Build(library), file.stream, rest', docs', fields')
  BY <1>1, <1>3, <1>5 DEF AtDocuments
<1>7. ReadSoFar("documents", file.magic, Build(library), file.stream, rest', docs', fields',
                left', term', postings', count')
  BY <1>6 DEF ReadSoFar
<1> QED BY <1>1, <1>2, <1>7 DEF ReaderInv, SameFile

\* A step of the reader, whatever it reads.
Reads ==
    \/ ReadDocumentCount \/ ReadField \/ ReadDocument
    \/ ReadTermCount \/ ReadTerm \/ ReadPosting

LEMMA ReadsOn ==
    ASSUME Reads
    PROVE  /\ Reading /\ Acceptable /\ SameFile /\ UNCHANGED <<rankingVars, via>>
           /\ phase' \in {"field", "document", "terms", "term", "posting", "read"}
<1> USE DEF Read, NextTerm, Reading, SameFile
<1>1. CASE ReadDocumentCount
  BY <1>1 DEF ReadDocumentCount
<1>2. CASE ReadField
  BY <1>2 DEF ReadField
<1>3. CASE ReadDocument
  BY <1>3 DEF ReadDocument
<1>4. CASE ReadTermCount
  BY <1>4 DEF ReadTermCount
<1>5. CASE ReadTerm
  BY <1>5 DEF ReadTerm
<1>6. CASE ReadPosting
  BY <1>6 DEF ReadPosting
<1> QED BY <1>1, <1>2, <1>3, <1>4, <1>5, <1>6 DEF Reads

LEMMA ReadsStep ==
    ASSUME FileInv, ReaderInv, Reads
    PROVE  FileInv' /\ ReaderInv'
<1>1. Loading /\ SameFile /\ phase' \in {"field", "document", "terms", "term", "posting", "read"}
  BY ReadsOn DEF Loading
<1>2. FileInv'
  BY <1>1, KeptFile DEF SameFile, FileInv
<1> QED
  BY <1>2, DocumentCountStep, FieldStep, DocumentStep, TermCountStep, TermStep, PostingStep
     DEF Reads

\* The steps that read nothing.
LEMMA NothingRead ==
    ASSUME ReaderInv, docs' = docs, fields' = fields,
           \/ phase' \in {"fallback", "failed", "ranking"}
           \/ phase' \in {"stored", "damaged"} /\ phase \in {"rebuild", "stored"}
    PROVE  ReaderInv'
<1>1. phase' \in {"stored", "damaged"} => docs' = <<>> /\ fields' = <<>>
  BY DEF ReaderInv, ReadSoFar
<1>2. phase' \in {"stored", "damaged", "fallback", "failed", "ranking"}
  OBVIOUS
<1>3. \A v, x, F : ReadSoFar(phase', v, x, F, rest', docs', fields', left', term', postings', count')
  BY <1>1, <1>2 DEF ReadSoFar
<1> QED BY <1>3 DEF ReaderInv
-----------------------------------------------------------------------------
(* A whole index is accepted to its end.                                   *)

LEMMA WholeAccepted ==
    ASSUME FileInv, ReaderInv, Reading, NEW w \in Versions, file = File(w, Build(library))
    PROVE  Acceptable
<1> DEFINE v == file.magic
           x == Build(library)
           F == file.stream
           f == Layout(v)[Len(fields) + 1]
<1>1. F = Stream(v, x)
  BY DEF File
<1>2. Opened(v, x, F) /\ Len(x.docs) <= MaxDocs
  BY OpenedFile DEF Loading
<1>3. f = Field /\ Value = Head(rest)[2]
  BY DEF Field, Value
<1>4. /\ phase = "documents" => AtDocuments(v, x, F, rest, docs, fields)
      /\ phase = "field" => AtField(v, x, F, rest, docs, fields, left)
      /\ phase = "document" => AtDocument(v, x, F, rest, docs, fields, left)
      /\ phase = "terms" => AtTerms(v, x, F, rest, docs)
      /\ phase = "term" => AtTerm(v, x, F, rest, docs, left, count)
      /\ phase = "posting" => AtPosting(v, x, F, rest, docs, left, term, postings, count)
  BY DEF ReaderInv, ReadSoFar
<1> HIDE DEF v, x, F
<1>5. CASE phase = "documents"
  <2>1. PICK u : u = SubSeq(rest, 2, Len(rest))
    OBVIOUS
  <2>2. AtDocuments(v, x, F, rest, docs, fields)
    BY <1>4, <1>5
  <2>3. rest # <<>> /\ Head(rest)[2] <= MaxDocs
    BY ONLY <1>1, <1>2, <2>1, <2>2, DocumentCountRead
  <2> QED BY <1>3, <1>5, <2>3, AcceptableIs
<1>6. CASE phase = "field"
  <2>1. AtField(v, x, F, rest, docs, fields, left) /\ f = Layout(v)[Len(fields) + 1]
    BY <1>4, <1>6
  <2> HIDE DEF f
  <2>2. rest # <<>> /\ (f \in Optional => Head(rest)[2] \in 0 .. 1 /\ Len(rest) > Head(rest)[2])
    BY ONLY <1>1, <1>2, <2>1, FieldDemanded
  <2> QED BY <1>3, <1>6, <2>2, AcceptableIs
<1>7. CASE phase = "document"
  <2>1. AtDocument(v, x, F, rest, docs, fields, left)
    BY <1>4, <1>7
  <2>2. fields[1] # 0
    BY ONLY <1>1, <1>2, <2>1, DocumentDemanded
  <2> QED BY <1>7, <2>2, AcceptableIs
<1>8. CASE phase = "terms"
  <2>1. PICK u : u = SubSeq(rest, 2, Len(rest))
    OBVIOUS
  <2>2. PICK c : c = [t \in Words |-> [i \in DOMAIN docs |-> 0]]
    OBVIOUS
  <2>3. AtTerms(v, x, F, rest, docs)
    BY <1>4, <1>8
  <2>4. rest # <<>>
    BY ONLY <1>1, <1>2, <2>1, <2>2, <2>3, TermCountRead
  <2> QED BY <1>8, <2>4, AcceptableIs
<1>9. CASE phase = "term"
  <2>1. PICK u : u = SubSeq(rest, 3, Len(rest))
    OBVIOUS
  <2>2. PICK ls : ls = left - 1
    OBVIOUS
  <2>3. AtTerm(v, x, F, rest, docs, left, count)
    BY <1>4, <1>9
  <2>4. Len(rest) >= 2
    BY ONLY <1>1, <1>2, <2>1, <2>2, <2>3, TermRead
  <2> QED BY <1>9, <2>4, AcceptableIs
<1>10. CASE phase = "posting"
  <2>1. PICK u : u = SubSeq(rest, 3, Len(rest))
    OBVIOUS
  <2>2. PICK q : q = postings - 1
    OBVIOUS
  <2>3. PICK b : b = Posted(count, term, Head(rest)[2], rest[2][2])
    OBVIOUS
  <2>4. AtPosting(v, x, F, rest, docs, left, term, postings, count)
    BY <1>4, <1>10
  <2>5. PostingTaken(v, x, F, rest, docs, left, term, q, b, u)
    BY ONLY <1>2, <2>1, <2>2, <2>3, <2>4, PostingRead
  <2>6. Len(rest) >= 2 /\ Head(rest)[2] < Len(docs)
    BY <1>1, <2>5 DEF PostingTaken
  <2> QED BY <1>3, <1>10, <2>6, AcceptableIs
<1> QED BY <1>5, <1>6, <1>7, <1>8, <1>9, <1>10 DEF Reading

\* What load refuses of a whole index is its size.
LEMMA WholeRefused ==
    ASSUME library \in Libraries, ~Readable, NEW v \in Versions, file = File(v, Build(library))
    PROVE  file.raw > MaxRaw
<1>1. file # Missing
  BY MissingAssumption
<1>2. file.magic = v /\ file.packed = "whole" /\ file.raw = Len(Stream(v, Build(library)))
  BY DEF File
<1>3. ~(file.raw <= MaxRaw)
  BY <1>1, <1>2 DEF Readable
<1>4. file.raw \in Nat
  <2>1. IsIndex(Build(library))
    BY LibraryIndex
  <2>2. PICK s : s = Stream(v, Build(library))
    OBVIOUS
  <2>3. Len(s) \in Nat
    BY ONLY <2>1, <2>2, WholeRemains
  <2> QED BY <1>2, <2>2, <2>3
<1>5. MaxRaw \in Nat
  BY QueriesAssumption
<1> QED BY <1>3, <1>4, <1>5
-----------------------------------------------------------------------------
(* The search over what has been loaded.                                   *)

\* The index that was read, in the fields its version keeps.
LEMMA ReadIsIndex ==
    ASSUME FileInv, ReaderInv, phase = "read"
    PROVE  /\ IsIndex([docs |-> docs, count |-> count])
           /\ docs = [i \in Positions |-> AsRead(file.magic, DocumentOf(library[i]))]
           /\ count = Build(library).count
<1> DEFINE v == file.magic
           x == Build(library)
           n == Len(library)
<1>1. v \in Versions /\ library \in Libraries
  BY DEF FileInv, Readable, Loading
<1>2. /\ n \in Nat /\ n <= MaxDocs /\ Positions = 1 .. n /\ Len(x.docs) = n
      /\ \A i \in 1 .. n : x.docs[i] = DocumentOf(library[i]) /\ x.docs[i] \in Document
      /\ x.count \in [Words -> [1 .. n -> Nat]]
  BY <1>1, BuiltRight DEF Positions
<1>3. docs = FirstDocs(v, x, n) /\ count = x.count
  BY <1>2 DEF ReaderInv, ReadSoFar, WholeRead
<1> HIDE DEF v, x, n
<1>4. docs = [i \in 1 .. n |-> AsRead(v, x.docs[i])]
  BY <1>3 DEF FirstDocs
<1>5. \A i \in 1 .. n : AsRead(v, x.docs[i]) \in Document
  BY <1>1, <1>2, AsReadFields
<1>6. docs \in Seq(Document) /\ Len(docs) = n /\ DOMAIN docs = 1 .. n
  <2>1. docs \in [1 .. n -> Document]
    BY <1>4, <1>5
  <2> QED BY <1>2, <2>1
<1>7. IsIndex([docs |-> docs, count |-> count])
  <2>1. count \in [Words -> [DOMAIN docs -> Nat]]
    BY <1>2, <1>3, <1>6
  <2> QED BY <1>2, <1>6, <2>1 DEF IsIndex
<1>8. docs = [i \in Positions |-> AsRead(v, DocumentOf(library[i]))]
  BY <1>2, <1>4
<1> QED BY <1>3, <1>7, <1>8 DEF v, x

\* The index built from the manifests themselves.
LEMMA BuiltIsRead ==
    ASSUME library \in Libraries
    PROVE  /\ IsIndex(Build(library))
           /\ Build(library).docs
                = [i \in Positions |-> AsRead("manifests", DocumentOf(library[i]))]
<1>1. Build(library).docs = [i \in Positions |-> DocumentOf(library[i])]
  BY DEF Build, Positions
<1>2. \A i \in Positions : AsRead("manifests", DocumentOf(library[i])) = DocumentOf(library[i])
  BY DEF AsRead
<1>3. [i \in Positions |-> DocumentOf(library[i])]
        = [i \in Positions |-> AsRead("manifests", DocumentOf(library[i]))]
  BY ONLY <1>2
<1>4. IsIndex(Build(library))
  BY LibraryIndex
<1> QED BY ONLY <1>1, <1>3, <1>4, Zenon

\* A search asks of an index what Begin allows.
LEMMA Asked ==
    ASSUME NEW x, IsIndex(x), Ask(x)
    PROVE  /\ Begin /\ index' = x /\ pc' # "idle" /\ phase' = "ranking"
           /\ library' = library /\ file' = file /\ docs' = docs /\ fields' = fields
<1>1. query' \in (SUBSET Words) \ {{}} /\ limit' \in Nat
  BY QueriesAssumption DEF Ask
<1> QED BY <1>1 DEF Ask, Begin, Restart, reader

\* Where the ranking has not begun.
Waits == UNCHANGED <<rankingVars, library, via>>

LEMMA Steps ==
    ASSUME Next
    PROVE  \/ Waits /\ \/ RebuildIndex \/ RebuildFails \/ Damage \/ RefuseQuery
                       \/ ManifestsFail \/ MissIndex \/ OpenIndex \/ RejectIndex \/ Reads
           \/ AskIndex \/ AskManifests \/ RankAnswer
<1>1. Reads => Waits
  BY ReadsOn DEF Waits, SameFile
<1> QED
  BY <1>1 DEF Next, Search, Load, Waits, Reads, RebuildIndex, RebuildFails, Damage, RefuseQuery,
              ManifestsFail, MissIndex, OpenIndex, RejectIndex

LEMMA Loads ==
    ASSUME LInv, Waits,
           \/ RebuildIndex \/ RebuildFails \/ Damage \/ RefuseQuery
           \/ ManifestsFail \/ MissIndex \/ OpenIndex \/ RejectIndex \/ Reads
    PROVE  LInv'
<1> DEFINE B == Build(library)
<1>1. FileInv /\ ReaderInv /\ PhaseInv /\ WholeIndexUsed /\ IndexReadBack
  BY DEF LInv
<1>2. /\ phase # "ranking"
      /\ phase' \in {"stored", "damaged", "documents", "field", "document", "terms", "term",
                     "posting", "read", "fallback", "failed"}
  BY ReadsOn DEF RebuildIndex, RebuildFails, Damage, RefuseQuery, ManifestsFail, MissIndex,
                 OpenIndex, RejectIndex, Reading
<1>3. PhaseInv'
  <2>1. pc = "idle" /\ via = "manifests" /\ RankingInit
    BY <1>1, <1>2 DEF PhaseInv
  <2>2. RankingInit' /\ pc' = "idle" /\ via' = "manifests"
    BY <2>1 DEF Waits, rankingVars, RankingInit, NoIndex
  <2> QED BY <1>2, <2>2 DEF PhaseInv
<1>4. IndexReadBack'
  BY <1>3, <1>2 DEF PhaseInv, IndexReadBack
<1>5. FileInv' /\ ReaderInv'
  <2>1. CASE RebuildIndex
    <3>1. ReaderInv'
      BY <1>1, <2>1, NothingRead DEF RebuildIndex, reader
    <3> QED BY <1>1, <2>1, <3>1, RebuildFile
  <2>2. CASE RebuildFails
    <3>1. ReaderInv'
      BY <1>1, <2>2, NothingRead DEF RebuildFails, reader
    <3>2. ~Loading'
      BY <2>2 DEF RebuildFails, Loading, Reading
    <3> QED BY <1>1, <2>2, <3>1, <3>2, KeptFile DEF RebuildFails
  <2>3. CASE Damage
    <3>1. ReaderInv'
      BY <1>1, <2>3, NothingRead DEF Damage, reader
    <3> QED BY <1>1, <2>3, <3>1, DamageFile
  <2>4. CASE RefuseQuery \/ ManifestsFail \/ MissIndex \/ RejectIndex
    <3>1. /\ phase' \in {"fallback", "failed"} /\ docs' = docs /\ fields' = fields
          /\ library' = library /\ file' = file
      BY <2>4 DEF RefuseQuery, ManifestsFail, MissIndex, RejectIndex, reader
    <3>2. ReaderInv'
      BY <1>1, <3>1, NothingRead
    <3>3. ~Loading'
      BY <3>1 DEF Loading, Reading
    <3> QED BY <1>1, <3>1, <3>2, <3>3, KeptFile
  <2>5. CASE OpenIndex
    BY <1>1, <2>5, OpenStep
  <2>6. CASE Reads
    BY <1>1, <2>6, ReadsStep
  <2> QED BY <2>1, <2>2, <2>3, <2>4, <2>5, <2>6
<1>6. WholeIndexUsed'
  <2> SUFFICES ASSUME phase' = "fallback", NEW v \in Versions, file' = File(v, Build(library'))
               PROVE  file'.raw > MaxRaw
    BY DEF WholeIndexUsed
  <2>1. MissIndex \/ RejectIndex
    BY ReadsOn DEF RebuildIndex, RebuildFails, Damage, RefuseQuery, ManifestsFail, OpenIndex
  <2>2. library' = library /\ file' = file /\ library \in Libraries
    BY <1>1, <2>1 DEF MissIndex, RejectIndex, FileInv
  <2>3. file = File(v, Build(library))
    BY <2>2
  <2>4. CASE MissIndex
    <3>1. ~Readable
      BY <2>4 DEF MissIndex
    <3> QED BY <2>2, <2>3, <3>1, WholeRefused
  <2>5. CASE RejectIndex
    <3>1. Reading /\ ~Acceptable
      BY <2>5 DEF RejectIndex
    <3> QED BY <1>1, <2>3, <3>1, WholeAccepted
  <2> QED BY <2>1, <2>4, <2>5
<1> QED BY <1>3, <1>4, <1>5, <1>6 DEF LInv

LEMMA Asks ==
    ASSUME LInv, AskIndex \/ AskManifests
    PROVE  LInv' /\ Begin
<1>1. FileInv /\ ReaderInv /\ PhaseInv /\ WholeIndexUsed /\ IndexReadBack /\ library \in Libraries
  BY DEF LInv, FileInv
<1>2. PICK x : /\ IsIndex(x) /\ Ask(x)
               /\ x.docs = [i \in Positions |-> AsRead(via', DocumentOf(library[i]))]
               /\ x.count = Build(library).count
  <2>1. CASE AskIndex
    <3>1. /\ phase = "read" /\ Ask([docs |-> docs, count |-> count]) /\ via' = file.magic
      BY <2>1 DEF AskIndex
    <3> QED BY <1>1, <3>1, ReadIsIndex
  <2>2. CASE AskManifests
    <3>1. phase = "fallback" /\ Ask(Build(library)) /\ via' = via
      BY <2>2 DEF AskManifests
    <3>2. via' = "manifests"
      BY <1>1, <3>1 DEF PhaseInv
    <3> QED BY <1>1, <3>1, <3>2, BuiltIsRead
  <2> QED BY <2>1, <2>2
<1>3. /\ Begin /\ index' = x /\ pc' # "idle" /\ phase' = "ranking"
      /\ library' = library /\ file' = file /\ docs' = docs /\ fields' = fields
  BY <1>2, Asked
<1>4. PhaseInv'
  BY <1>3 DEF PhaseInv
<1>5. FileInv'
  BY <1>1, <1>3, KeptFile DEF Loading, Reading
<1>6. ReaderInv'
  BY <1>1, <1>3, NothingRead
<1>7. WholeIndexUsed'
  BY <1>3 DEF WholeIndexUsed
<1>8. IndexReadBack'
  BY <1>2, <1>3 DEF IndexReadBack, Positions
<1> QED BY <1>3, <1>4, <1>5, <1>6, <1>7, <1>8 DEF LInv

LEMMA Ranks ==
    ASSUME LInv, RankAnswer
    PROVE  LInv'
<1>1. FileInv /\ ReaderInv /\ PhaseInv /\ WholeIndexUsed /\ IndexReadBack
  BY DEF LInv
<1>2. pc # "idle" /\ pc' # "idle" /\ index' = index
  BY DEF RankAnswer, Rank, NextWord, AddPostings, Relax, Sort, Cut, Scored, Restart
<1>3. /\ phase' = phase /\ library' = library /\ file' = file /\ docs' = docs
      /\ fields' = fields /\ via' = via
  BY DEF RankAnswer, reader
<1>4. phase = "ranking"
  BY <1>1, <1>2 DEF PhaseInv
<1>5. PhaseInv'
  BY <1>2, <1>3, <1>4 DEF PhaseInv
<1>6. FileInv'
  BY <1>1, <1>3, <1>4, KeptFile DEF Loading, Reading
<1>7. ReaderInv'
  BY <1>1, <1>3, <1>4, NothingRead
<1>8. WholeIndexUsed'
  BY <1>3, <1>4 DEF WholeIndexUsed
<1>9. IndexReadBack'
  BY <1>1, <1>2, <1>3 DEF IndexReadBack, Positions
<1> QED BY <1>5, <1>6, <1>7, <1>8, <1>9 DEF LInv

LEMMA Unmoved ==
    ASSUME LInv, UNCHANGED vars
    PROVE  LInv'
<1>1. UNCHANGED <<rankingVars, phase, library, file, rest, docs, fields, left, term, postings,
                  count, via>>
  BY DEF vars, reader
<1> USE <1>1
<1>2. PhaseInv'
  BY DEF LInv, PhaseInv, rankingVars, RankingInit, NoIndex
<1>3. FileInv'
  BY DEF LInv, FileInv, Loading, Reading, Readable
<1>4. ReaderInv'
  BY DEF LInv, ReaderInv
<1>5. WholeIndexUsed'
  BY DEF LInv, WholeIndexUsed
<1>6. IndexReadBack'
  BY DEF LInv, IndexReadBack, rankingVars, Positions
<1> QED BY <1>2, <1>3, <1>4, <1>5, <1>6 DEF LInv

LEMMA LoadInit == Init => LInv
<1> SUFFICES ASSUME Init PROVE LInv
  OBVIOUS
<1>1. phase = "rebuild" /\ pc = "idle" /\ via = "manifests" /\ RankingInit
      /\ docs = <<>> /\ fields = <<>>
  BY DEF Init, RankingInit
<1>2. PhaseInv
  BY <1>1 DEF PhaseInv
<1>3. ReaderInv
  BY <1>1 DEF ReaderInv, ReadSoFar
<1>4. WholeIndexUsed /\ IndexReadBack
  BY <1>1 DEF WholeIndexUsed, IndexReadBack
<1> QED BY <1>2, <1>3, <1>4, FileInit DEF LInv

LEMMA LoadInductive == Spec => []LInv
<1>1. LInv /\ [Next]_vars => LInv'
  BY Steps, Loads, Asks, Ranks, Unmoved
<1> QED BY <1>1, LoadInit, PTL DEF Spec

\* Of an index that load accepts, whatever its version and whatever has happened to
\* the file, every document and every count is the one that was saved.
THEOREM IndexIsReadBack == Spec => []IndexReadBack
<1>1. LInv => IndexReadBack
  BY DEF LInv
<1> QED BY <1>1, LoadInductive, PTL

\* deserialize_index refuses nothing of what serialize_index or an older version wrote:
\* a whole index sends the search to the manifests only by its size.
THEOREM WholeIndexIsUsed == Spec => []WholeIndexUsed
<1>1. LInv => WholeIndexUsed
  BY DEF LInv
<1> QED BY <1>1, LoadInductive, PTL

\* What SearchManifest::execute hands to the index is an index and a query, and the
\* search then goes as SearchIndex::search says.
THEOREM ImplementsTheRanking == Spec => ImplementsRanking
<1>1. Init => RankingInit
  BY DEF Init
<1>2. LInv /\ [Next]_vars => [RankingNext]_rankingVars
  <2> SUFFICES ASSUME LInv, [Next]_vars PROVE [RankingNext]_rankingVars
    OBVIOUS
  <2>1. CASE UNCHANGED vars
    BY <2>1 DEF vars
  <2>2. CASE Next
    <3>1. CASE Waits
      BY <3>1 DEF Waits
    <3>2. CASE AskIndex \/ AskManifests
      BY <3>2, Asks DEF RankingNext
    <3>3. CASE RankAnswer
      BY <3>3 DEF RankAnswer, RankingNext
    <3> QED BY <2>2, <3>1, <3>2, <3>3, Steps
  <2> QED BY <2>1, <2>2
<1> QED BY <1>1, <1>2, LoadInductive, PTL DEF Spec, ImplementsRanking

LEMMA SearchInductive == Spec => []IInv
<1>1. Spec => RankingSpec
  BY ImplementsTheRanking DEF ImplementsRanking, RankingSpec
<1> QED BY <1>1, Inductive, PTL

\* What the ranking promises of an index holds of the search that loads or builds it.
THEOREM SearchKeepsThePromises == Spec => [](CoverageFirst /\ EveryMatchRanked)
<1>1. IInv => CoverageFirst /\ EveryMatchRanked
  BY DEF IInv
<1> QED BY <1>1, SearchInductive, PTL
-----------------------------------------------------------------------------
(* Sums over finite sets.                                                  *)

Pick(s) == CHOOSE x \in s : TRUE

\* The function that SumFunctionOnSet chooses.
IsSum(f, g, S) ==
    f = [s \in SUBSET S |-> IF s = {} THEN 0 ELSE g[Pick(s)] + f[s \ {Pick(s)}]]

LEMMA Picked ==
    ASSUME NEW s, s # {}
    PROVE  Pick(s) \in s
BY DEF Pick

LEMMA SmallerSet ==
    ASSUME NEW S, IsFiniteSet(S), NEW s \in SUBSET S, NEW a \in s
    PROVE  /\ s \ {a} \in SUBSET S /\ IsFiniteSet(s) /\ Cardinality(s) \in Nat
           /\ Cardinality(s \ {a}) = Cardinality(s) - 1
<1>1. IsFiniteSet(s)
  BY FS_Subset
<1> QED BY <1>1, FS_CardinalityType, FS_RemoveElement

LEMMA SumExists ==
    ASSUME NEW S, IsFiniteSet(S), NEW g
    PROVE  \E f : IsSum(f, g, S)
<1> DEFINE Body(f, s) == IF s = {} THEN 0 ELSE g[Pick(s)] + f[s \ {Pick(s)}]
           Sums(f, n) == /\ f = [s \in SUBSET S |-> f[s]]
                         /\ \A s \in SUBSET S : Cardinality(s) <= n => f[s] = Body(f, s)
           T == {n \in Nat : \E f : Sums(f, n)}
<1>1. 0 \in T
  <2> DEFINE f == [s \in SUBSET S |-> 0]
  <2>1. ASSUME NEW s \in SUBSET S, Cardinality(s) <= 0 PROVE s = {}
    BY <2>1, FS_Subset, FS_CardinalityType, FS_EmptySet
  <2>2. Sums(f, 0)
    BY <2>1
  <2> QED BY <2>2
<1>2. ASSUME NEW n \in Nat, n \in T PROVE n + 1 \in T
  <2>1. PICK f : Sums(f, n)
    BY <1>2
  <2> DEFINE h == [s \in SUBSET S |-> IF Cardinality(s) = n + 1 THEN Body(f, s) ELSE f[s]]
  <2>2. ASSUME NEW s \in SUBSET S, Cardinality(s) <= n + 1 PROVE h[s] = Body(h, s)
    <3>1. CASE s = {}
      <4>1. Cardinality(s) = 0
        BY <3>1, FS_EmptySet
      <4>2. Cardinality(s) # n + 1 /\ Cardinality(s) <= n
        BY <4>1
      <4>3. h[s] = f[s] /\ f[s] = 0
        BY <2>1, <3>1, <4>2
      <4> QED BY <3>1, <4>3
    <3>2. CASE s # {}
      <4> DEFINE a == Pick(s)
      <4>1. /\ a \in s /\ s \ {a} \in SUBSET S /\ Cardinality(s) \in Nat
            /\ Cardinality(s \ {a}) = Cardinality(s) - 1
        BY <3>2, Picked, SmallerSet
      <4> HIDE DEF a
      <4>2. Cardinality(s \ {a}) # n + 1 /\ (Cardinality(s) # n + 1 => Cardinality(s) <= n)
        BY <2>2, <4>1
      <4>3. h[s \ {a}] = f[s \ {a}]
        BY <4>1, <4>2
      <4>4. h[s] = Body(f, s)
        BY <2>1, <4>2
      <4>5. Body(h, s) = Body(f, s)
        BY <4>3 DEF a
      <4> QED BY <4>4, <4>5
    <3> QED BY <3>1, <3>2
  <2>3. Sums(h, n + 1)
    BY <2>2
  <2> HIDE DEF h, Sums
  <2> QED BY <2>3
<1>3. Cardinality(S) \in T
  <2>1. Cardinality(S) \in Nat
    BY FS_CardinalityType
  <2> HIDE DEF T
  <2> QED BY <1>1, <1>2, <2>1, Induction
<1>4. PICK f : Sums(f, Cardinality(S))
  BY <1>3
<1>5. \A s \in SUBSET S : f[s] = Body(f, s)
  <2>1. \A s \in SUBSET S : Cardinality(s) <= Cardinality(S)
    BY FS_Subset
  <2> QED BY <1>4, <2>1
<1>6. f = [s \in SUBSET S |-> Body(f, s)]
  <2>1. f = [s \in SUBSET S |-> f[s]]
    BY <1>4
  <2> HIDE DEF Body, Sums
  <2> QED BY <1>5, <2>1
<1> QED BY <1>6 DEF IsSum

LEMMA SumIs ==
    ASSUME NEW S, IsFiniteSet(S), NEW g
    PROVE  \E f : IsSum(f, g, S) /\ SumFunctionOnSet(g, S) = f[S]
<1> DEFINE sum == CHOOSE f : IsSum(f, g, S)
<1>1. IsSum(sum, g, S)
  BY SumExists
<1>2. SumFunctionOnSet(g, S) = sum[S]
  BY DEF SumFunctionOnSet, FoldFunctionOnSet, MapThenFoldSet, IsSum, Pick
<1> HIDE DEF sum
<1> QED BY <1>1, <1>2

\* Two sums of the same values are the same, wherever they are part of.
LEMMA SumsAgree ==
    ASSUME NEW S, IsFiniteSet(S), NEW R \in SUBSET S, NEW g, NEW h, \A x \in R : g[x] = h[x],
           NEW f, IsSum(f, g, S), NEW e, IsSum(e, h, R)
    PROVE  \A s \in SUBSET R : f[s] = e[s]
<1> DEFINE T == {n \in Nat : \A s \in SUBSET R : Cardinality(s) = n => f[s] = e[s]}
<1>1. /\ \A s \in SUBSET S : f[s] = IF s = {} THEN 0 ELSE g[Pick(s)] + f[s \ {Pick(s)}]
      /\ \A s \in SUBSET R : e[s] = IF s = {} THEN 0 ELSE h[Pick(s)] + e[s \ {Pick(s)}]
  BY DEF IsSum
<1>2. \A s \in SUBSET R : s \in SUBSET S /\ IsFiniteSet(s) /\ Cardinality(s) \in Nat
  BY FS_Subset, FS_CardinalityType
<1>3. 0 \in T
  <2>1. \A s \in SUBSET R : Cardinality(s) = 0 => s = {}
    BY <1>2, FS_EmptySet
  <2> QED BY <1>1, <1>2, <2>1
<1>4. ASSUME NEW n \in Nat, n \in T PROVE n + 1 \in T
  <2> SUFFICES ASSUME NEW s \in SUBSET R, Cardinality(s) = n + 1 PROVE f[s] = e[s]
    OBVIOUS
  <2>1. s # {}
    BY FS_EmptySet
  <2> DEFINE a == Pick(s)
  <2>2. /\ a \in s /\ s \ {a} \in SUBSET R /\ Cardinality(s \ {a}) = Cardinality(s) - 1
    BY <1>2, <2>1, Picked, SmallerSet
  <2>3. f[s] = g[a] + f[s \ {a}] /\ e[s] = h[a] + e[s \ {a}]
    BY <1>1, <1>2, <2>1
  <2> HIDE DEF a
  <2>4. f[s \ {a}] = e[s \ {a}]
    BY <1>4, <2>2
  <2>5. g[a] = h[a]
    BY <2>2
  <2> QED BY <2>3, <2>4, <2>5
<1>5. Nat \subseteq T
  <2> HIDE DEF T
  <2> QED BY <1>3, <1>4, Induction
<1> QED BY <1>2, <1>5

\* Any element may be taken first.
LEMMA SumTakes ==
    ASSUME NEW S, IsFiniteSet(S), NEW g, \A x \in S : g[x] \in Nat, NEW f, IsSum(f, g, S)
    PROVE  \A s \in SUBSET S : f[s] \in Nat /\ \A a \in s : f[s] = g[a] + f[s \ {a}]
<1> DEFINE Takes(s) == f[s] \in Nat /\ \A a \in s : f[s] = g[a] + f[s \ {a}]
           T == {n \in Nat : \A s \in SUBSET S : Cardinality(s) <= n => Takes(s)}
<1>1. \A s \in SUBSET S : f[s] = IF s = {} THEN 0 ELSE g[Pick(s)] + f[s \ {Pick(s)}]
  BY DEF IsSum
<1>2. \A s \in SUBSET S : IsFiniteSet(s) /\ Cardinality(s) \in Nat
  BY FS_Subset, FS_CardinalityType
<1>3. 0 \in T
  <2>1. \A s \in SUBSET S : Cardinality(s) <= 0 => s = {}
    BY <1>2, FS_EmptySet
  <2>2. {} \in SUBSET S /\ f[{}] = 0
    BY <1>1
  <2>3. Takes({})
    BY <2>2
  <2> HIDE DEF Takes
  <2> QED BY <2>1, <2>3
<1>4. ASSUME NEW n \in Nat, n \in T PROVE n + 1 \in T
  <2> SUFFICES ASSUME NEW s \in SUBSET S, Cardinality(s) <= n + 1, s # {} PROVE Takes(s)
    BY <1>1, SMTT(30)
  <2> DEFINE c == Pick(s)
  <2>1. /\ c \in s /\ s \ {c} \in SUBSET S /\ Cardinality(s \ {c}) = Cardinality(s) - 1
        /\ f[s] = g[c] + f[s \ {c}]
    BY <1>1, Picked, SmallerSet
  <2> HIDE DEF c
  <2>2. \A a \in s : /\ s \ {a} \in SUBSET S
                     /\ Cardinality(s \ {a}) <= n
    BY <1>2, SmallerSet
  <2>3. \A a \in s : Takes(s \ {a})
    BY <1>4, <2>2
  <2>4. f[s] \in Nat
    BY <2>1, <2>3
  <2>5. ASSUME NEW a \in s PROVE f[s] = g[a] + f[s \ {a}]
    <3>1. CASE a = c
      BY <2>1, <3>1
    <3>2. CASE a # c
      <4>1. f[s \ {c}] = g[a] + f[(s \ {c}) \ {a}] /\ f[s \ {a}] = g[c] + f[(s \ {a}) \ {c}]
        BY <2>1, <2>3, <3>2
      <4>2. (s \ {c}) \ {a} = (s \ {a}) \ {c}
        OBVIOUS
      <4>3. Takes((s \ {a}) \ {c})
        <5>1. (s \ {a}) \ {c} \in SUBSET S /\ Cardinality((s \ {a}) \ {c}) <= n
          <6>1. c \in s \ {a}
            BY <2>1, <3>2
          <6>2. Cardinality((s \ {a}) \ {c}) = Cardinality(s \ {a}) - 1
            BY <2>2, <6>1, SmallerSet
          <6>3. Cardinality(s \ {a}) \in Nat /\ Cardinality(s \ {a}) <= n
            BY <1>2, <2>2
          <6> QED BY <6>2, <6>3
        <5> QED BY <1>4, <5>1
      <4>4. g[a] \in Nat /\ g[c] \in Nat /\ f[(s \ {a}) \ {c}] \in Nat
        BY <2>1, <4>3
      <4> DEFINE r == f[(s \ {a}) \ {c}]
      <4>5. f[s \ {c}] = g[a] + r /\ f[s \ {a}] = g[c] + r
        BY <4>1, <4>2
      <4> HIDE DEF r
      <4>6. r \in Nat
        BY <4>4 DEF r
      <4>7. f[s] = g[c] + (g[a] + r)
        BY <2>1, <4>5
      <4>8. g[c] + (g[a] + r) = g[a] + (g[c] + r)
        BY <4>4, <4>6
      <4> QED BY ONLY <4>5, <4>7, <4>8
    <3> QED BY <3>1, <3>2
  <2> QED BY <2>4, <2>5
<1>5. Nat \subseteq T
  <2> HIDE DEF T
  <2> QED BY <1>3, <1>4, Induction
<1> HIDE DEF Takes
<1>6. \A s \in SUBSET S : Takes(s)
  BY <1>2, <1>5
<1> QED BY <1>6 DEF Takes

\* What the sums of the model are.
LEMMA Summing ==
    ASSUME NEW S, IsFiniteSet(S), NEW g, \A x \in S : g[x] \in Nat
    PROVE  /\ SumFunctionOnSet(g, S) \in Nat
           /\ S = {} => SumFunctionOnSet(g, S) = 0
           /\ \A a \in S : SumFunctionOnSet(g, S) = g[a] + SumFunctionOnSet(g, S \ {a})
<1>1. PICK f : IsSum(f, g, S) /\ SumFunctionOnSet(g, S) = f[S]
  BY SumIs
<1>2. S \in SUBSET S /\ {} \in SUBSET S
  OBVIOUS
<1>3. f[S] \in Nat /\ \A a \in S : f[S] = g[a] + f[S \ {a}]
  BY ONLY <1>1, <1>2, IsFiniteSet(S), \A x \in S : g[x] \in Nat, SumTakes
<1>4. S = {} => f[S] = 0
  BY <1>1, <1>2 DEF IsSum
<1>5. ASSUME NEW a \in S PROVE SumFunctionOnSet(g, S \ {a}) = f[S \ {a}]
  <2> DEFINE R == S \ {a}
  <2>1. R \in SUBSET S /\ R \in SUBSET R /\ IsFiniteSet(R)
    BY FS_Subset
  <2> HIDE DEF R
  <2>2. PICK e : IsSum(e, g, R) /\ SumFunctionOnSet(g, R) = e[R]
    BY <2>1, SumIs
  <2>3. \A s \in SUBSET R : f[s] = e[s]
    BY ONLY <1>1, <2>1, <2>2, IsFiniteSet(S), SumsAgree
  <2> QED BY <2>1, <2>2, <2>3 DEF R
<1> QED BY <1>1, <1>3, <1>4, <1>5

LEMMA SameSum ==
    ASSUME NEW S, IsFiniteSet(S), NEW g, NEW h, \A x \in S : g[x] = h[x]
    PROVE  SumFunctionOnSet(g, S) = SumFunctionOnSet(h, S)
<1>1. PICK f : IsSum(f, g, S) /\ SumFunctionOnSet(g, S) = f[S]
  BY SumIs
<1>2. PICK e : IsSum(e, h, S) /\ SumFunctionOnSet(h, S) = e[S]
  BY SumIs
<1>3. S \in SUBSET S
  OBVIOUS
<1>4. \A s \in SUBSET S : f[s] = e[s]
  BY ONLY <1>1, <1>2, <1>3, IsFiniteSet(S), \A x \in S : g[x] = h[x], SumsAgree
<1> QED BY <1>1, <1>2, <1>3, <1>4

\* What is 0 may be left out.
LEMMA SumOfPart ==
    ASSUME NEW S, IsFiniteSet(S), NEW R \in SUBSET S, NEW g, \A x \in S : g[x] \in Nat,
           \A x \in S \ R : g[x] = 0
    PROVE  SumFunctionOnSet(g, S) = SumFunctionOnSet(g, R)
<1> DEFINE Sum(V) == SumFunctionOnSet(g, V)
           T == {n \in Nat : \A V \in SUBSET S :
                               R \subseteq V /\ Cardinality(V \ R) = n => Sum(V) = Sum(R)}
<1>1. \A V \in SUBSET S : IsFiniteSet(V) /\ IsFiniteSet(V \ R) /\ Cardinality(V \ R) \in Nat
  BY FS_Subset, FS_CardinalityType
<1>2. 0 \in T
  <2>1. \A V \in SUBSET S : R \subseteq V /\ Cardinality(V \ R) = 0 => V = R
    BY <1>1, FS_EmptySet
  <2> QED BY <2>1
<1>3. ASSUME NEW n \in Nat, n \in T PROVE n + 1 \in T
  <2> SUFFICES ASSUME NEW V \in SUBSET S, R \subseteq V, Cardinality(V \ R) = n + 1
               PROVE  Sum(V) = Sum(R)
    OBVIOUS
  <2>1. V \ R # {}
    BY FS_EmptySet
  <2>2. PICK a : a \in V \ R
    BY <2>1
  <2>3. /\ V \ {a} \in SUBSET S /\ R \subseteq V \ {a}
        /\ Cardinality((V \ {a}) \ R) = n
    <3>1. (V \ {a}) \ R = (V \ R) \ {a}
      OBVIOUS
    <3>2. Cardinality((V \ R) \ {a}) = Cardinality(V \ R) - 1
      BY <1>1, <2>2, FS_RemoveElement
    <3>3. Cardinality((V \ {a}) \ R) = Cardinality(V \ R) - 1
      BY ONLY <3>1, <3>2, Zenon
    <3>4. Cardinality((V \ {a}) \ R) = n
      BY <3>3
    <3> QED BY <2>2, <3>4
  <2>4. Sum(V \ {a}) = Sum(R)
    BY <1>3, <2>3
  <2>5. Sum(V) = g[a] + Sum(V \ {a})
    <3>1. IsFiniteSet(V) /\ a \in V /\ \A x \in V : g[x] \in Nat
      BY <1>1, <2>2
    <3> QED BY ONLY <3>1, Summing
  <2>6. g[a] = 0
    BY <2>2
  <2>7. Sum(V \ {a}) \in Nat
    <3> DEFINE W == V \ {a}
    <3>1. IsFiniteSet(W) /\ \A x \in W : g[x] \in Nat
      BY <1>1, <2>3
    <3> HIDE DEF W
    <3>2. SumFunctionOnSet(g, W) \in Nat
      BY ONLY <3>1, Summing
    <3> QED BY <3>2 DEF W
  <2> HIDE DEF Sum
  <2> QED BY <2>4, <2>5, <2>6, <2>7
<1>4. Nat \subseteq T
  <2> HIDE DEF T
  <2> QED BY <1>2, <1>3, Induction
<1>5. S \in SUBSET S /\ R \subseteq S /\ Cardinality(S \ R) \in Nat
  BY <1>1
<1> QED BY <1>4, <1>5

LEMMA NothingSums == \A g : SumFunctionOnSet(g, {}) = 0
BY FS_EmptySet, Summing
-----------------------------------------------------------------------------
(* What a document scores.                                                 *)

CountsOf(d) == [t \in Words |-> index.count[t][d]]
TermSum(d, ts) == SumFunctionOnSet(CountsOf(d), ts)
WeightOf(w) == IF Found(w) = {} THEN 0 ELSE Weight[Len(index.docs)][Cardinality(Found(w))]
WordScores(d) == [w \in Words |-> WeightOf(w) * TermSum(d, Matching(w))]
QueryScore(d, Q) == SumFunctionOnSet(WordScores(d), Q)

\* The score of a document, with what is still to be added for the current word, is
\* what the words seen so far give it.
Accurate ==
    pc = "words" =>
        \A d \in Docs : score[d] + weight * TermSum(d, terms) = QueryScore(d, Seen)

LEMMA TermsSummed ==
    ASSUME IsIndex(index), NEW d \in Docs, NEW ts \in SUBSET Words
    PROVE  /\ TermSum(d, ts) \in Nat
           /\ \A t \in ts : TermSum(d, ts) = index.count[t][d] + TermSum(d, ts \ {t})
<1>1. IsFiniteSet(ts) /\ \A t \in ts : CountsOf(d)[t] = index.count[t][d]
  BY WordsAssumption, FS_Subset DEF CountsOf
<1>2. \A t \in ts : index.count[t][d] \in Nat
  BY DocsFacts
<1> DEFINE g == CountsOf(d)
<1>3. \A t \in ts : g[t] \in Nat
  BY <1>1, <1>2
<1> HIDE DEF g
<1>4. /\ SumFunctionOnSet(g, ts) \in Nat
      /\ \A t \in ts : SumFunctionOnSet(g, ts) = g[t] + SumFunctionOnSet(g, ts \ {t})
  BY ONLY <1>1, <1>3, Summing
<1> QED BY <1>1, <1>4 DEF TermSum, g

LEMMA MatchingWords ==
    \A w \in Words : Matching(w) \in SUBSET Words
BY DEF Matching, Terms

LEMMA WordsWeighed ==
    ASSUME IsIndex(index), NEW w \in Words
    PROVE  WeightOf(w) \in Nat
BY WeightPositive DEF WeightOf

LEMMA WordScored ==
    ASSUME IsIndex(index), NEW d \in Docs, NEW w \in Words
    PROVE  /\ WordScores(d)[w] = WeightOf(w) * TermSum(d, Matching(w))
           /\ WordScores(d)[w] \in Nat
<1>1. WordScores(d)[w] = WeightOf(w) * TermSum(d, Matching(w))
  BY DEF WordScores
<1>2. Matching(w) \in SUBSET Words
  BY MatchingWords
<1> DEFINE a == WeightOf(w)
           b == TermSum(d, Matching(w))
<1>3. a \in Nat /\ b \in Nat
  BY <1>2, TermsSummed, WordsWeighed
<1> HIDE DEF a, b
<1>4. a * b \in Nat
  BY <1>3
<1> QED BY <1>1, <1>4 DEF a, b

LEMMA QuerySummed ==
    ASSUME IsIndex(index), NEW d \in Docs, NEW Q \in SUBSET Words
    PROVE  /\ QueryScore(d, Q) \in Nat
           /\ \A w \in Q : QueryScore(d, Q) = WordScores(d)[w] + QueryScore(d, Q \ {w})
<1> DEFINE g == WordScores(d)
<1>1. IsFiniteSet(Q) /\ \A w \in Q : g[w] \in Nat
  BY WordsAssumption, FS_Subset, WordScored
<1> HIDE DEF g
<1>2. /\ SumFunctionOnSet(g, Q) \in Nat
      /\ \A w \in Q : SumFunctionOnSet(g, Q) = g[w] + SumFunctionOnSet(g, Q \ {w})
  BY ONLY <1>1, Summing
<1> QED BY <1>2 DEF QueryScore, g

\* What an index scores changes only with the index.
LEMMA ScoreStable ==
    ASSUME index' = index
    PROVE  /\ Docs' = Docs
           /\ \A d, ts : TermSum(d, ts)' = TermSum(d, ts)
           /\ \A w : Matching(w)' = Matching(w)
           /\ \A d, Q : QueryScore(d, Q)' = QueryScore(d, Q)
<1>1. Docs' = Docs /\ \A t, d : Holds(d, t)' = Holds(d, t)
  BY FoundStable
<1>2. Terms' = Terms
  BY <1>1 DEF Terms
<1>3. ASSUME NEW w PROVE Matching(w)' = Matching(w)
  BY <1>2 DEF Matching
<1>4. ASSUME NEW d PROVE CountsOf(d)' = CountsOf(d)
  BY DEF CountsOf
<1>5. ASSUME NEW d, NEW ts PROVE TermSum(d, ts)' = TermSum(d, ts)
  BY <1>4 DEF TermSum
<1>6. ASSUME NEW w PROVE WeightOf(w)' = WeightOf(w)
  BY FoundStable DEF WeightOf
<1>7. ASSUME NEW d PROVE WordScores(d)' = WordScores(d)
  <2>1. \A w \in Words : (WeightOf(w) * TermSum(d, Matching(w)))' = WeightOf(w) * TermSum(d, Matching(w))
    BY <1>3, <1>5, <1>6
  <2> QED BY <2>1 DEF WordScores
<1>8. ASSUME NEW d, NEW Q PROVE QueryScore(d, Q)' = QueryScore(d, Q)
  BY <1>7 DEF QueryScore
<1> QED BY <1>1, <1>3, <1>5, <1>8

\* A pass begins with nothing seen and nothing scored.
LEMMA RestartAccurate ==
    ASSUME NEW requireAll \in BOOLEAN, Restart(requireAll)
    PROVE  Accurate'
<1>1. /\ terms' = {} /\ weight' = 0 /\ Seen' = {}
      /\ \A d \in Docs' : score'[d] = 0
  BY DEF Restart, Seen, Docs
<1>2. ASSUME NEW d \in Docs' PROVE score'[d] + weight' * TermSum(d, terms)' = QueryScore(d, Seen)'
  <2>1. TermSum(d, terms)' = 0
    BY <1>1, NothingSums DEF TermSum
  <2>2. QueryScore(d, Seen)' = 0
    BY <1>1, NothingSums DEF QueryScore
  <2> QED BY <1>1, <2>1, <2>2
<1> QED BY <1>2 DEF Accurate

LEMMA NextWordAccurate ==
    ASSUME IInv, Accurate, NextWord
    PROVE  Accurate'
<1>1. /\ pc = "words" /\ terms = {} /\ index' = index /\ query' = query /\ score' = score
  BY DEF NextWord
<1>2. PICK w \in todo : /\ todo' = todo \ {w} /\ terms' = Matching(w) /\ weight' = WeightOf(w)
  BY DEF NextWord, WeightOf
<1>3. IsIndex(index) /\ query \subseteq Words /\ todo \subseteq query
      /\ score \in [Docs -> Nat] /\ weight \in Nat
  BY DEF IInv, RankingTypeOK
<1>4. w \in Words /\ Seen' = Seen \cup {w} /\ w \notin Seen /\ Seen' \in SUBSET Words
      /\ Seen' \ {w} = Seen
  BY <1>1, <1>2, <1>3 DEF Seen
<1> SUFFICES ASSUME NEW d \in Docs
             PROVE  score[d] + WeightOf(w) * TermSum(d, Matching(w)) = QueryScore(d, Seen')
  <2>1. \A d \in Docs : /\ TermSum(d, terms)' = TermSum(d, Matching(w))
                        /\ QueryScore(d, Seen)' = QueryScore(d, Seen')
    BY <1>1, <1>2, ScoreStable
  <2>2. Docs' = Docs
    BY <1>1, ScoreStable
  <2> QED BY <1>1, <1>2, <2>1, <2>2 DEF Accurate
<1>5. TermSum(d, terms) = 0
  BY <1>1, NothingSums DEF TermSum
<1>6. score[d] = QueryScore(d, Seen) /\ score[d] \in Nat
  <2>1. score[d] + weight * TermSum(d, terms) = QueryScore(d, Seen) /\ score[d] \in Nat
    BY <1>1, <1>3 DEF Accurate
  <2> QED BY <1>3, <1>5, <2>1
<1>7. QueryScore(d, Seen') = WordScores(d)[w] + QueryScore(d, Seen)
  <2> DEFINE S == Seen'
  <2>1. S \in SUBSET Words /\ w \in S /\ S \ {w} = Seen
    BY <1>4
  <2> HIDE DEF S
  <2>2. QueryScore(d, S) = WordScores(d)[w] + QueryScore(d, S \ {w})
    BY <1>3, <2>1, QuerySummed
  <2> QED BY <2>1, <2>2 DEF S
<1>8. WordScores(d)[w] = WeightOf(w) * TermSum(d, Matching(w)) /\ WordScores(d)[w] \in Nat
  BY <1>3, <1>4, WordScored
<1> QED BY <1>6, <1>7, <1>8

LEMMA AddPostingsAccurate ==
    ASSUME IInv, Accurate, AddPostings
    PROVE  Accurate'
<1>1. /\ pc = "words" /\ index' = index /\ query' = query /\ weight' = weight /\ todo' = todo
  BY DEF AddPostings
<1>2. PICK t \in terms :
        /\ score' = [d \in Docs |-> score[d] + weight * index.count[t][d]]
        /\ terms' = terms \ {t}
  BY DEF AddPostings
<1>3. IsIndex(index) /\ terms \in SUBSET Words /\ score \in [Docs -> Nat] /\ weight \in Nat
  BY DEF IInv, RankingTypeOK
<1>4. Seen' = Seen /\ Docs' = Docs
  BY <1>1, ScoreStable DEF Seen
<1>5. ASSUME NEW d \in Docs
      PROVE  score'[d] + weight * TermSum(d, terms \ {t}) = QueryScore(d, Seen)
  <2> DEFINE s == score[d]
             n == index.count[t][d]
             r == TermSum(d, terms \ {t})
             q == QueryScore(d, Seen)
  <2>1. s + weight * TermSum(d, terms) = q
    BY <1>1 DEF Accurate
  <2>2. TermSum(d, terms) = n + r
    BY <1>2, <1>3, TermsSummed
  <2>3. score'[d] = s + weight * n
    BY <1>2
  <2>4. s \in Nat /\ n \in Nat /\ r \in Nat
    <3>1. terms \ {t} \in SUBSET Words
      BY <1>3
    <3>2. r \in Nat
      BY <1>3, <3>1, TermsSummed
    <3> QED BY <1>2, <1>3, <3>2, DocsFacts
  <2> HIDE DEF s, n, r, q
  <2>5. weight * (n + r) = weight * n + weight * r /\ weight * n \in Nat /\ weight * r \in Nat
    BY <1>3, <2>4
  <2>6. (s + weight * n) + weight * r = s + weight * (n + r)
    BY <2>4, <2>5
  <2> QED BY <2>1, <2>2, <2>3, <2>6 DEF r, q
<1>6. ASSUME NEW d \in Docs
      PROVE  score'[d] + weight' * TermSum(d, terms)' = QueryScore(d, Seen)'
  <2>1. TermSum(d, terms)' = TermSum(d, terms \ {t}) /\ QueryScore(d, Seen)' = QueryScore(d, Seen)
    BY <1>1, <1>2, <1>4, ScoreStable
  <2> QED BY <1>1, <1>5, <2>1
<1> QED BY <1>4, <1>6 DEF Accurate

\* When all words are seen, a score is what the query gives.
LEMMA ScoresAre ==
    ASSUME IInv, Accurate, Scored
    PROVE  \A d \in Docs : score[d] = QueryScore(d, query) /\ score[d] \in Nat
<1>1. pc = "words" /\ terms = {} /\ Seen = query
  BY DEF Scored, Seen
<1>2. score \in [Docs -> Nat] /\ weight \in Nat
  BY DEF IInv, RankingTypeOK
<1> SUFFICES ASSUME NEW d \in Docs PROVE score[d] = QueryScore(d, query) /\ score[d] \in Nat
  OBVIOUS
<1>3. TermSum(d, terms) = 0
  BY <1>1, NothingSums DEF TermSum
<1>4. score[d] + weight * TermSum(d, terms) = QueryScore(d, query)
  BY <1>1 DEF Accurate
<1> QED BY <1>2, <1>3, <1>4
-----------------------------------------------------------------------------
(* What the manifests say of an answer.                                    *)

\* The words of an entry.
LEMMA EntryWords ==
    ASSUME NEW entry \in Entry, NEW t \in Words
    PROVE  /\ CountOf(entry, t) \in Nat
           /\ CountOf(entry, t) > 0 <=> t \in UNION Range(entry.fields)
           /\ UNION Range(entry.fields) \subseteq Words
<1> DEFINE held == {k \in DOMAIN entry.fields : t \in entry.fields[k]}
<1>1. entry.fields \in Seq(SUBSET Words)
  BY DEF Entry
<1>2. Len(entry.fields) \in Nat /\ DOMAIN entry.fields = 1 .. Len(entry.fields)
  BY <1>1
<1>3. IsFiniteSet(DOMAIN entry.fields)
  BY <1>2, FS_Interval
<1>4. IsFiniteSet(held) /\ Cardinality(held) \in Nat /\ (Cardinality(held) = 0 <=> held = {})
  BY <1>3, FS_Subset, FS_CardinalityType, FS_EmptySet
<1>5. held # {} <=> t \in UNION Range(entry.fields)
  BY DEF Range
<1>6. UNION Range(entry.fields) \subseteq Words
  BY <1>1, <1>2 DEF Range
<1> QED BY <1>4, <1>5, <1>6 DEF CountOf

\* A search has begun: the index is that of the library.
Asking == IInv /\ LInv /\ pc # "idle"

LEMMA LibraryHeld ==
    ASSUME Asking
    PROVE  /\ IsIndex(index) /\ query \in SUBSET Words /\ Len(index.docs) = Len(library)
           /\ Docs = Positions
           /\ \A d \in Docs : \A t \in Words :
                 /\ index.count[t][d] = CountOf(library[d], t) /\ index.count[t][d] \in Nat
                 /\ Holds(d, t) <=> t \in WordsOf(d)
           /\ \A d \in Docs :
                 /\ WordsOf(d) \subseteq Words
                 /\ index.docs[d] = AsRead(via, DocumentOf(library[d]))
<1>1. IsIndex(index) /\ query \in SUBSET Words
  BY DEF Asking, IInv, RankingTypeOK
<1>2. library \in Libraries /\ IndexReadBack
  BY DEF Asking, LInv, FileInv
<1>3. /\ library \in Seq(Entry) /\ Len(library) \in Nat /\ Positions = 1 .. Len(library)
  BY <1>2, BuiltRight DEF Positions
<1>4. /\ index.docs = [i \in Positions |-> AsRead(via, DocumentOf(library[i]))]
      /\ index.count = Build(library).count
  BY <1>2 DEF Asking, IndexReadBack
<1>5. Docs = Positions /\ Len(index.docs) = Len(library)
  <2>1. Docs = Positions
    BY <1>4 DEF Docs
  <2>2. Docs = 1 .. Len(index.docs) /\ Len(index.docs) \in Nat
    BY <1>1, DocsFacts
  <2> QED BY <1>3, <2>1, <2>2
<1>6. ASSUME NEW d \in Docs
      PROVE  /\ library[d] \in Entry
             /\ index.docs[d] = AsRead(via, DocumentOf(library[d]))
             /\ WordsOf(d) = UNION Range(library[d].fields)
  BY <1>3, <1>4, <1>5 DEF WordsOf
<1>7. ASSUME NEW d \in Docs, NEW t \in Words
      PROVE  /\ index.count[t][d] = CountOf(library[d], t) /\ index.count[t][d] \in Nat
             /\ Holds(d, t) <=> t \in WordsOf(d)
             /\ WordsOf(d) \subseteq Words
  <2>1. index.count[t][d] = CountOf(library[d], t)
    BY <1>4, <1>5 DEF Build, Positions
  <2>2. /\ CountOf(library[d], t) \in Nat
        /\ CountOf(library[d], t) > 0 <=> t \in WordsOf(d)
        /\ WordsOf(d) \subseteq Words
    BY <1>6, EntryWords
  <2> QED BY <2>1, <2>2 DEF Holds
<1>8. ASSUME NEW d \in Docs PROVE WordsOf(d) \subseteq Words
  <2>1. library[d].fields \in Seq(SUBSET Words)
    BY <1>6 DEF Entry
  <2> QED BY <1>6, <2>1 DEF Range
<1> QED BY <1>1, <1>5, <1>6, <1>7, <1>8

\* A word finds in the index what it finds in the manifests.
LEMMA FindersAre ==
    ASSUME Asking
    PROVE  /\ \A t \in Words : t \in Terms <=> Known(t)
           /\ \A w \in Words : /\ Matching(w) = Finding(w) \cap Terms
                               /\ Found(w) = Finders(w)
<1>1. ASSUME NEW t \in Words PROVE t \in Terms <=> Known(t)
  BY LibraryHeld DEF Terms, Known
<1>2. ASSUME NEW w \in Words PROVE Matching(w) = Finding(w) \cap Terms
  <2>1. Terms \subseteq Words
    BY DEF Terms
  <2>2. CASE Known(w)
    BY <1>1, <2>1, <2>2 DEF Matching, Finding
  <2>3. CASE ~Known(w)
    BY <1>1, <2>1, <2>3 DEF Matching, Finding
  <2> QED BY <2>2, <2>3
<1>3. ASSUME NEW w \in Words PROVE Found(w) = Finders(w)
  <2>1. Docs = Positions /\ Finding(w) \subseteq Words
    BY LibraryHeld DEF Finding
  <2>2. ASSUME NEW d \in Docs
        PROVE  (\E t \in Matching(w) : Holds(d, t)) <=> WordsOf(d) \cap Finding(w) # {}
    <3>1. ASSUME NEW t \in Matching(w), Holds(d, t) PROVE t \in WordsOf(d) \cap Finding(w)
      BY <1>2, <2>1, <3>1, LibraryHeld
    <3>2. ASSUME NEW t \in WordsOf(d) \cap Finding(w) PROVE t \in Matching(w) /\ Holds(d, t)
      <4>1. t \in Words /\ Holds(d, t)
        BY <2>1, LibraryHeld
      <4>2. t \in Terms
        BY <4>1 DEF Terms
      <4> QED BY <1>2, <4>1, <4>2
    <3> QED BY <3>1, <3>2
  <2> QED BY <2>1, <2>2 DEF Found, Finders
<1> QED BY <1>1, <1>2, <1>3

\* The counts of the terms of a word, in the index and in the manifests.
LEMMA TermSumIs ==
    ASSUME Asking, NEW d \in Docs, NEW w \in Words
    PROVE  /\ TermSum(d, Matching(w)) = SumFunction([t \in Finding(w) |-> CountOf(library[d], t)])
           /\ d \notin Finders(w) => TermSum(d, Matching(w)) = 0
<1> DEFINE g == CountsOf(d)
           S == Finding(w)
           R == Matching(w)
           h == [t \in S |-> CountOf(library[d], t)]
<1>1. S \subseteq Words /\ IsFiniteSet(S) /\ R = S \cap Terms /\ Found(w) = Finders(w)
  <2>1. S \subseteq Words
    BY DEF Finding
  <2> QED BY <2>1, FindersAre, WordsAssumption, FS_Subset
<1>2. \A t \in Words : g[t] = index.count[t][d] /\ g[t] = CountOf(library[d], t) /\ g[t] \in Nat
  BY LibraryHeld DEF CountsOf
<1>3. \A t \in Words : ~Holds(d, t) => g[t] = 0
  BY <1>2 DEF Holds
<1>4. \A t \in S \ R : g[t] = 0
  BY <1>1, <1>3 DEF Terms
<1>5. \A t \in S : g[t] = h[t] /\ g[t] \in Nat
  BY <1>1, <1>2
<1>6. SumFunction(h) = SumFunctionOnSet(h, S)
  BY DEF SumFunction
<1>7. \A t \in R : d \notin Found(w) => g[t] = 0
  BY <1>1, <1>3 DEF Found
<1>8. TermSum(d, R) = SumFunctionOnSet(g, R)
  BY DEF TermSum
<1> HIDE DEF g, S, R, h
<1>9. R \in SUBSET S /\ IsFiniteSet(R) /\ {} \in SUBSET R
  BY <1>1, FS_Subset
<1>10. SumFunctionOnSet(g, S) = SumFunctionOnSet(h, S)
  BY ONLY <1>1, <1>5, SameSum
<1>11. SumFunctionOnSet(g, S) = SumFunctionOnSet(g, R)
  BY ONLY <1>1, <1>4, <1>5, <1>9, SumOfPart
<1>12. ASSUME d \notin Found(w) PROVE SumFunctionOnSet(g, R) = 0
  <2>1. (\A t \in R : g[t] \in Nat) /\ \A t \in R \ {} : g[t] = 0
    BY <1>7, <1>12
  <2>2. SumFunctionOnSet(g, R) = SumFunctionOnSet(g, {})
    BY ONLY <1>9, <2>1, SumOfPart
  <2> QED BY <2>2, NothingSums
<1> QED BY <1>1, <1>6, <1>8, <1>10, <1>11, <1>12 DEF h, R, S

\* What the index scores for a query is the relevance.
LEMMA RelevanceIs ==
    ASSUME Asking, NEW d \in Docs
    PROVE  QueryScore(d, query) = Relevance(d)
<1> DEFINE F == {v \in query : d \in Finders(v)}
           g == WordScores(d)
           h == [w \in F |-> Weight[Len(library)][Cardinality(Finders(w))]
                                * SumFunction([t \in Finding(w) |-> CountOf(library[d], t)])]
<1>1. IsIndex(index) /\ query \in SUBSET Words /\ IsFiniteSet(query) /\ F \in SUBSET query
      /\ IsFiniteSet(F)
  BY LibraryHeld, WordsAssumption, FS_Subset
<1>2. \A w \in query : g[w] = WeightOf(w) * TermSum(d, Matching(w)) /\ g[w] \in Nat
                       /\ WeightOf(w) \in Nat
  BY <1>1, WordScored, WordsWeighed
<1>3. ASSUME NEW w \in query \ F PROVE g[w] = 0
  <2>1. TermSum(d, Matching(w)) = 0
    BY <1>1, TermSumIs
  <2> HIDE DEF g
  <2> QED BY <1>2, <2>1
<1>4. ASSUME NEW w \in F PROVE g[w] = h[w]
  <2>1. w \in query /\ w \in Words /\ d \in Finders(w)
    BY <1>1
  <2>2. Found(w) = Finders(w) /\ Len(index.docs) = Len(library)
    BY <2>1, FindersAre, LibraryHeld
  <2>3. WeightOf(w) = Weight[Len(library)][Cardinality(Finders(w))]
    BY <2>1, <2>2 DEF WeightOf
  <2>4. TermSum(d, Matching(w)) = SumFunction([t \in Finding(w) |-> CountOf(library[d], t)])
    BY <2>1, TermSumIs
  <2>5. g[w] = WeightOf(w) * TermSum(d, Matching(w))
    BY <1>2, <2>1
  <2> HIDE DEF g
  <2> QED BY <2>3, <2>4, <2>5
<1>5. Relevance(d) = SumFunctionOnSet(h, F)
  BY DEF Relevance, SumFunction
<1>6. QueryScore(d, query) = SumFunctionOnSet(g, query)
  BY DEF QueryScore
<1> HIDE DEF F, g, h
<1>7. SumFunctionOnSet(g, query) = SumFunctionOnSet(g, F)
  BY ONLY <1>1, <1>2, <1>3, SumOfPart
<1>8. SumFunctionOnSet(g, F) = SumFunctionOnSet(h, F)
  BY ONLY <1>1, <1>4, SameSum
<1> QED BY <1>5, <1>6, <1>7, <1>8

\* The documents that are asked for.
LEMMA CandidatesAre ==
    ASSUME Asking
    PROVE  /\ \A d \in Docs : Coverage(d) = Cardinality({w \in query : d \in Found(w)})
           /\ Candidates = IF HoldAll # {} THEN HoldAll ELSE HoldSome
           /\ Candidates \subseteq Docs
<1>1. Docs = Positions /\ query \in SUBSET Words
  BY LibraryHeld
<1>2. \A w \in query : Found(w) = Finders(w)
  BY <1>1, FindersAre
<1>3. ASSUME NEW d \in Docs PROVE Coverage(d) = Cardinality({w \in query : d \in Found(w)})
  <2>1. {w \in query : d \in Finders(w)} = {w \in query : d \in Found(w)}
    BY <1>2
  <2> QED BY <2>1 DEF Coverage
<1>4. ASSUME NEW d \in Docs
      PROVE  /\ Coverage(d) = Cardinality(query) <=> d \in HoldAll
             /\ Coverage(d) > 0 <=> d \in HoldSome
  <2> DEFINE Q == {w \in query : d \in Found(w)}
  <2>1. Q \in SUBSET query
    OBVIOUS
  <2>2. IsFiniteSet(Q) /\ Cardinality(Q) \in Nat /\ (Cardinality(Q) = Cardinality(query) <=> Q = query)
    BY <1>1, <2>1, QueryFinite
  <2>3. Cardinality(Q) = 0 <=> Q = {}
    BY <2>2, FS_EmptySet
  <2>4. (Q = query <=> d \in HoldAll) /\ (Q # {} <=> d \in HoldSome)
    BY DEF HoldAll, HoldSome
  <2> QED BY <1>3, <2>2, <2>3, <2>4
<1>5. /\ {i \in Positions : Coverage(i) = Cardinality(query)} = HoldAll
      /\ {i \in Positions : Coverage(i) > 0} = HoldSome
  BY <1>1, <1>4 DEF HoldAll, HoldSome
<1>6. HoldAll \subseteq Docs /\ HoldSome \subseteq Docs
  BY DEF HoldAll, HoldSome
<1> QED BY <1>3, <1>5, <1>6 DEF Candidates

\* Sorted as the manifests demand.
BestFirst ==
    pc = "sorted" => \A a, b \in DOMAIN matches : a < b => ~Above(matches[b], matches[a])

\* What an answer is compared with changes only with library, query and version.
LEMMA AnswerStable ==
    ASSUME library' = library, query' = query, via' = via
    PROVE  Candidates' = Candidates /\ \A i, j : Above(i, j)' = Above(i, j)
<1>1. ASSUME NEW i PROVE WordsOf(i)' = WordsOf(i)
  BY DEF WordsOf
<1>2. Positions' = Positions
  BY DEF Positions
<1>3. ASSUME NEW w PROVE Known(w)' = Known(w)
  BY <1>1, <1>2 DEF Known
<1>4. ASSUME NEW w PROVE Finding(w)' = Finding(w)
  BY <1>3 DEF Finding
<1>5. ASSUME NEW w PROVE Finders(w)' = Finders(w)
  BY <1>1, <1>2, <1>4 DEF Finders
<1>6. ASSUME NEW i PROVE Coverage(i)' = Coverage(i)
  BY <1>5 DEF Coverage
<1>7. ASSUME NEW i PROVE Relevance(i)' = Relevance(i)
  BY <1>4, <1>5 DEF Relevance
<1>8. ASSUME NEW i PROVE Edited(i)' = Edited(i)
  BY DEF Edited
<1>9. Candidates' = Candidates
  BY <1>2, <1>6 DEF Candidates
<1>10. ASSUME NEW i, NEW j PROVE Above(i, j)' = Above(i, j)
  BY <1>6, <1>7, <1>8 DEF Above
<1> QED BY <1>9, <1>10

\* The comparison of to_result agrees with the manifests.
LEMMA AboveIsBefore ==
    ASSUME Asking, Accurate, Scored, NEW d \in Docs, NEW e \in Docs, NEW stride \in Nat,
           \A i \in Docs : score[i] < stride, Above(e, d)
    PROVE  Before(stride, e, d)
<1>1. IInv /\ \A i \in Docs : score[i] = Relevance(i) /\ score[i] \in Nat
  BY ScoresAre, RelevanceIs DEF Asking
<1>2. \A i \in Docs : matched[i] = Coverage(i) /\ matched[i] \in Nat
  <2>1. Seen = query
    BY DEF Scored, Seen
  <2> QED BY <1>1, <2>1, CandidatesAre DEF IInv, Scoring, CountsWords, RankingTypeOK
<1>3. ASSUME NEW i \in Docs
      PROVE  /\ index.docs[i].created = library[i].created
             /\ index.docs[i].modified = Edited(i)
  <2>1. index.docs[i] = AsRead(via, DocumentOf(library[i]))
    BY LibraryHeld
  <2> QED BY <2>1 DEF AsRead, DocumentOf, Edited
<1> DEFINE m == matched[d]
           n == matched[e]
           r == score[d]
           s == score[e]
<1>4. m \in Nat /\ n \in Nat /\ r \in Nat /\ s \in Nat /\ r < stride /\ s < stride
  BY <1>1, <1>2
<1>5. Above(e, d) <=>
         \/ n > m
         \/ n = m /\ s > r
         \/ n = m /\ s = r /\ Newer(index.docs[e].created, index.docs[d].created)
         \/ /\ n = m /\ s = r /\ index.docs[e].created = index.docs[d].created
            /\ Newer(index.docs[e].modified, index.docs[d].modified)
  BY <1>1, <1>2, <1>3 DEF Above
<1>6. Total(stride, e) = n * stride + s /\ Total(stride, d) = m * stride + r
  BY DEF Total
<1> HIDE DEF m, n, r, s
<1>7. n * stride \in Nat /\ m * stride \in Nat
  BY <1>4
<1>8. CASE n > m \/ (n = m /\ s > r)
  <2>1. ~(m * stride + r >= n * stride + s)
    <3> SUFFICES ASSUME m * stride + r >= n * stride + s PROVE FALSE
      OBVIOUS
    <3>1. m > n \/ (m = n /\ r >= s)
      BY <1>4, StrideDominates
    <3> QED BY <1>4, <1>8, <3>1
  <2>2. n * stride + s > m * stride + r
    BY <1>4, <1>7, <2>1
  <2> QED BY <1>6, <2>2 DEF Before
<1>9. CASE n = m /\ s = r
  <2>1. Total(stride, e) = Total(stride, d)
    BY <1>6, <1>9
  <2>2. ~(n > m) /\ ~(s > r)
    BY <1>4, <1>9
  <2> QED BY <1>5, <2>1, <2>2 DEF Before
<1> QED BY <1>5, <1>8, <1>9

LEMMA SortBest ==
    ASSUME Asking, Accurate, Sort, library' = library, via' = via
    PROVE  BestFirst'
<1>1. /\ Scored /\ query' = query /\ index' = index
      /\ \E top \in {0} \cup {score[d] : d \in Docs} :
            /\ \A d \in Docs : score[d] <= top
            /\ \E order \in SetToSeqs(Hits) :
                  /\ \A i, j \in DOMAIN order : i < j => ~Before(top + Unit, order[j], order[i])
                  /\ matches' = order
  BY DEF Sort
<1>2. PICK top \in {0} \cup {score[d] : d \in Docs} :
        /\ \A d \in Docs : score[d] <= top
        /\ matches' \in SetToSeqs(Hits)
        /\ \A i, j \in DOMAIN matches' : i < j => ~Before(top + Unit, matches'[j], matches'[i])
  BY <1>1
<1>3. score \in [Docs -> Nat]
  BY DEF Asking, IInv, RankingTypeOK
<1>4. top + Unit \in Nat /\ \A i \in Docs : score[i] < top + Unit
  BY <1>2, <1>3, WeightAssumption
<1>5. \A i \in DOMAIN matches' : matches'[i] \in Docs
  <2>1. matches' \in [1 .. Cardinality(Hits) -> Hits]
    BY <1>2 DEF SetToSeqs
  <2> QED BY <2>1 DEF Hits
<1> DEFINE m == matches'
<1>6. ASSUME NEW a \in DOMAIN m, NEW b \in DOMAIN m, a < b PROVE ~Above(m[b], m[a])
  <2>1. m[a] \in Docs /\ m[b] \in Docs /\ ~Before(top + Unit, m[b], m[a])
    BY <1>2, <1>5, <1>6
  <2> QED BY <1>1, <1>4, <2>1, AboveIsBefore
<1>7. \A i, j : Above(i, j)' = Above(i, j)
  BY <1>1, AnswerStable
<1> QED BY <1>6, <1>7 DEF BestFirst

\* What is sorted are the candidates, each once.
LEMMA SortedAre ==
    ASSUME Asking, pc = "sorted"
    PROVE  /\ matches \in Seq(Docs) /\ Range(matches) = Candidates /\ IsInjective(matches)
           /\ Len(matches) \in Nat /\ Len(matches) = Cardinality(Candidates)
           /\ DOMAIN matches = 1 .. Len(matches)
<1>1. matches \in Seq(Docs) /\ EveryMatchRanked
  BY DEF Asking, IInv, RankingTypeOK
<1>2. Range(matches) = Candidates /\ IsInjective(matches)
  BY <1>1, CandidatesAre DEF EveryMatchRanked
<1> DEFINE n == Len(matches)
           C == Candidates
<1>3. n \in Nat /\ DOMAIN matches = 1 .. n /\ matches \in [1 .. n -> Docs]
  BY <1>1
<1> HIDE DEF n, C
<1>4. matches \in [1 .. n -> C] /\ \A c \in C : \E i \in 1 .. n : matches[i] = c
  BY <1>2, <1>3 DEF Range, C
<1>5. matches \in Bijection(1 .. n, C)
  BY <1>2, <1>4 DEF Bijection, Injection, Surjection
<1>6. IsFiniteSet(1 .. n) /\ Cardinality(1 .. n) = n
  BY <1>3, FS_Interval
<1>7. Cardinality(C) = n
  BY ONLY <1>5, <1>6, FS_Bijection DEF ExistsBijection
<1> QED BY <1>1, <1>2, <1>3, <1>7 DEF n, C

LEMMA CutBest ==
    ASSUME Asking, BestFirst, Cut, library' = library, via' = via
    PROVE  AnswerIsBest'
<1>1. /\ pc = "sorted" /\ query' = query /\ limit' = limit /\ limit \in Nat
      /\ matches' = IF Len(matches) > limit THEN SubSeq(matches, 1, limit) ELSE matches
  BY DEF Cut, Asking, IInv, RankingTypeOK
<1> DEFINE n == Len(matches)
           C == Candidates
           m == matches'
           k == Len(m)
<1>2. /\ matches \in Seq(Docs) /\ Range(matches) = C /\ IsInjective(matches)
      /\ n \in Nat /\ n = Cardinality(C) /\ DOMAIN matches = 1 .. n
  BY <1>1, SortedAre
<1>3. /\ DOMAIN m = 1 .. k /\ k \in Nat /\ k = (IF n > limit THEN limit ELSE n) /\ k <= n
      /\ \A i \in 1 .. k : m[i] = matches[i]
  <2>1. CASE n > limit
    <3>1. m = SubSeq(matches, 1, limit) /\ \A i \in 1 .. limit : matches[i] \in Docs
      BY <1>1, <1>2, <2>1
    <3>2. /\ SubSeq(matches, 1, limit) \in Seq(Docs) /\ Len(SubSeq(matches, 1, limit)) = limit
          /\ \A i \in 1 .. limit : SubSeq(matches, 1, limit)[i] = matches[i]
      BY <1>1, <1>2, <2>1, <3>1
    <3> QED BY <1>1, <2>1, <3>1, <3>2
  <2>2. CASE ~(n > limit)
    BY <1>1, <1>2, <2>2
  <2> QED BY <2>1, <2>2
<1>4. \A a, b \in 1 .. n : a < b => ~Above(matches[b], matches[a])
  BY <1>1, <1>2 DEF BestFirst
<1>5. C' = C /\ \A i, j : Above(i, j)' = Above(i, j)
  BY <1>1, AnswerStable
<1>6. Min({limit, n}) = k
  <2>1. \A x \in {limit, n} : (\A y \in {limit, n} : x <= y) <=> x = k
    BY <1>1, <1>2, <1>3
  <2>2. k \in {limit, n}
    BY <1>3
  <2> HIDE DEF k, n
  <2> QED BY <2>1, <2>2 DEF Min
<1> HIDE DEF n, C, m, k
<1>7. Range(m) \subseteq C /\ IsInjective(m)
  BY <1>2, <1>3 DEF Range, IsInjective
<1>8. ASSUME NEW i \in Range(m), NEW j \in C \ Range(m) PROVE ~Above(j, i)
  <2>1. PICK a \in 1 .. k : i = matches[a]
    BY <1>3 DEF Range
  <2>2. PICK b \in 1 .. n : j = matches[b]
    BY <1>2 DEF Range
  <2>3. ~(b <= k)
    BY <1>3, <2>2 DEF Range
  <2>4. a \in 1 .. n /\ a < b
    BY <1>2, <1>3, <2>1, <2>2, <2>3
  <2> QED BY <1>4, <2>1, <2>2, <2>4
<1>9. ASSUME NEW a \in DOMAIN m, NEW b \in DOMAIN m, a < b PROVE ~Above(m[b], m[a])
  BY <1>2, <1>3, <1>4, <1>9
<1>10. k = Min({limit, Cardinality(C)})
  BY <1>2, <1>6
<1> QED BY <1>1, <1>5, <1>7, <1>8, <1>9, <1>10 DEF AnswerIsBest, m, k, C

AnswerInv == IInv /\ LInv /\ Accurate /\ BestFirst /\ AnswerIsBest

LEMMA RankingKeepsAnswers ==
    ASSUME AnswerInv, RankAnswer
    PROVE  Accurate' /\ BestFirst' /\ AnswerIsBest'
<1>1. library' = library /\ via' = via /\ Rank
  BY DEF RankAnswer
<1>2. pc # "idle"
  BY <1>1 DEF Rank, NextWord, AddPostings, Relax, Sort, Cut, Scored
<1>3. Asking
  BY <1>2 DEF AnswerInv, Asking
<1>4. CASE NextWord
  <2>1. pc' = "words"
    BY <1>4 DEF NextWord
  <2> QED BY <1>4, <2>1, NextWordAccurate DEF AnswerInv, BestFirst, AnswerIsBest
<1>5. CASE AddPostings
  <2>1. pc' = "words"
    BY <1>5 DEF AddPostings
  <2> QED BY <1>5, <2>1, AddPostingsAccurate DEF AnswerInv, BestFirst, AnswerIsBest
<1>6. CASE Relax
  <2>1. pc' = "words" /\ Restart(FALSE)
    BY <1>6 DEF Relax, Restart
  <2>2. Accurate'
    BY <2>1, RestartAccurate
  <2> QED BY <2>1, <2>2 DEF BestFirst, AnswerIsBest
<1>7. CASE Sort
  <2>1. pc' = "sorted"
    BY <1>7 DEF Sort
  <2>2. BestFirst'
    BY <1>1, <1>3, <1>7, SortBest DEF AnswerInv
  <2> QED BY <2>1, <2>2 DEF Accurate, AnswerIsBest
<1>8. CASE Cut
  <2>1. pc' = "done"
    BY <1>8 DEF Cut
  <2>2. AnswerIsBest'
    BY <1>1, <1>3, <1>8, CutBest DEF AnswerInv
  <2> QED BY <2>1, <2>2 DEF Accurate, BestFirst
<1> QED BY <1>1, <1>4, <1>5, <1>6, <1>7, <1>8 DEF Rank

LEMMA StepKeepsAnswers ==
    ASSUME AnswerInv, [Next]_vars
    PROVE  Accurate' /\ BestFirst' /\ AnswerIsBest'
<1>1. CASE RankAnswer
  BY <1>1, RankingKeepsAnswers
<1>2. CASE AskIndex \/ AskManifests
  <2>1. pc' = "words" /\ Restart(TRUE)
    BY <1>2 DEF AskIndex, AskManifests, Ask, Restart
  <2>2. Accurate'
    BY <2>1, RestartAccurate
  <2> QED BY <2>1, <2>2 DEF BestFirst, AnswerIsBest
<1>3. CASE /\ Waits
           /\ \/ RebuildIndex \/ RebuildFails \/ Damage \/ RefuseQuery
              \/ ManifestsFail \/ MissIndex \/ OpenIndex \/ RejectIndex \/ Reads
  <2>1. phase # "ranking"
    BY <1>3, ReadsOn DEF RebuildIndex, RebuildFails, Damage, RefuseQuery, ManifestsFail, MissIndex,
                         OpenIndex, RejectIndex, Reading
  <2>2. pc' = "idle"
    BY <1>3, <2>1 DEF AnswerInv, LInv, PhaseInv, Waits, rankingVars
  <2> QED BY <2>2 DEF Accurate, BestFirst, AnswerIsBest
<1>4. CASE UNCHANGED vars
  <2>1. UNCHANGED <<rankingVars, library, via>>
    BY <1>4 DEF vars
  <2> USE <2>1 DEF rankingVars
  <2>2. Candidates' = Candidates /\ \A i, j : Above(i, j)' = Above(i, j)
    BY AnswerStable
  <2>3. Accurate'
    <3>1. Docs' = Docs /\ Seen' = Seen
      BY ScoreStable DEF Seen
    <3>2. \A d \in Docs : /\ TermSum(d, terms)' = TermSum(d, terms)
                          /\ QueryScore(d, Seen)' = QueryScore(d, Seen)
      BY <3>1, ScoreStable
    <3> QED BY <3>1, <3>2 DEF AnswerInv, Accurate
  <2>4. BestFirst'
    BY <2>2 DEF AnswerInv, BestFirst
  <2>5. AnswerIsBest'
    BY <2>2 DEF AnswerInv, AnswerIsBest
  <2> QED BY <2>3, <2>4, <2>5
<1> QED BY <1>1, <1>2, <1>3, <1>4, Steps

\* From an index of any version, or from the manifests when there is none that can be
\* read, a search answers with the best of the documents its words find: none missing,
\* none twice, in the order of coverage, relevance and dates, as many as the limit allows.
THEOREM AnswersAreBest == Spec => []AnswerIsBest
<1>1. Init => Accurate /\ BestFirst /\ AnswerIsBest
  BY DEF Init, RankingInit, Accurate, BestFirst, AnswerIsBest
<1>2. AnswerInv /\ [Next]_vars => Accurate' /\ BestFirst' /\ AnswerIsBest'
  BY StepKeepsAnswers
<1> QED BY <1>1, <1>2, LoadInductive, SearchInductive, PTL DEF Spec, AnswerInv
=============================================================================
