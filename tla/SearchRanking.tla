--------------------------- MODULE SearchRanking ---------------------------
(***************************************************************************)
(* The ranking of a search over an index: SearchIndex::search_matching,    *)
(* word by word and term by term, the second pass that is content with     *)
(* some of the words, and the order and the limit of to_result.            *)
(*                                                                         *)
(* Words are strings.  Relevance is a double in the code; here it is a     *)
(* number in units of 1 / Unit, and the logarithm a table.                 *)
(***************************************************************************)
EXTENDS Integers, Sequences, FiniteSets, SequencesExt

CONSTANTS
    Words,     \* the words of documents and queries
    Weight,    \* Weight[n][m]: of a word that m of n documents hold, log((n + 1) / m)
    Unit,      \* what the relevance 1.0 is
    MaxDocs,   \* bound: documents in an index
    None       \* std::nullopt

ASSUME WeightAssumption ==
    /\ MaxDocs \in Nat \ {0} /\ Unit \in Nat \ {0}
    /\ Weight \in [1..MaxDocs -> [1..MaxDocs -> Nat]]
    /\ \A n \in 1..MaxDocs : \A m \in 1..n : Weight[n][m] > 0
ASSUME NoneAssumption == None \notin Int
ASSUME WordsAssumption == IsFiniteSet(Words)

VARIABLES
    pc,        \* where the search stands
    index,     \* the documents, and how often each holds each word
    query,     \* the words asked for
    limit,     \* how many results to show
    all,       \* `require_all_terms'
    todo,      \* the words not looked at yet
    terms,     \* the terms of the current word whose postings are to be added
    weight,    \* the weight of the current word
    score,     \* `scores', 0 for a document without
    matched,   \* `matched_words'
    matches    \* the documents in the order of the results

rankingVars == <<pc, index, query, limit, all, todo, terms, weight, score, matched, matches>>

Dates == Int \cup {None}
Document == [dir : Nat, name : Nat, id : Int \cup {None}, url : Int \cup {None},
             created : Dates, modified : Dates]

IsIndex(x) ==
    /\ x = [docs |-> x.docs, count |-> x.count]
    /\ x.docs \in Seq(Document) /\ Len(x.docs) <= MaxDocs
    /\ x.count \in [Words -> [DOMAIN x.docs -> Nat]]

Docs == DOMAIN index.docs

RankingTypeOK ==
    /\ pc \in {"idle", "words", "sorted", "done"}
    /\ IsIndex(index)
    /\ query \subseteq Words /\ limit \in Nat /\ all \in BOOLEAN
    /\ todo \subseteq query /\ terms \subseteq Words /\ weight \in Nat
    /\ score \in [Docs -> Nat] /\ matched \in [Docs -> Nat]
    /\ matches \in Seq(Docs)
-----------------------------------------------------------------------------
(* Which terms a word of the query finds.                                  *)

IsAlias(word) == word \in {"docs", "document", "documents"}

Inside(value, part) ==
    \E i \in 1 .. Len(value) - Len(part) + 1 : SubSeq(value, i, i + Len(part) - 1) = part

\* A word of three letters or more is found inside other words, a longer one by its
\* beginning: all but the last two letters, and at least four.
FuzzyContains(value, word) ==
    \/ IsAlias(value) /\ IsAlias(word)
    \/ Len(word) < 3 /\ value = word
    \/ Len(word) \in 3..4 /\ Inside(value, word)
    \/ Len(word) \in 5..6 /\ Inside(value, SubSeq(word, 1, 4))
    \/ Len(word) > 6 /\ Inside(value, SubSeq(word, 1, Len(word) - 2))

Holds(d, t) == index.count[t][d] > 0
Terms == {t \in Words : \E d \in Docs : Holds(d, t)}

Matching(word) ==
    IF word \in Terms
      THEN {word} \cup {t \in Terms : IsAlias(word) /\ FuzzyContains(t, word)}
      ELSE {t \in Terms : FuzzyContains(t, word)}

Found(word) == {d \in Docs : \E t \in Matching(word) : Holds(d, t)}
-----------------------------------------------------------------------------
NoIndex == [docs |-> <<>>, count |-> [t \in Words |-> <<>>]]

RankingInit ==
    /\ pc = "idle" /\ index = NoIndex /\ query = {} /\ limit = 0 /\ all = TRUE
    /\ todo = {} /\ terms = {} /\ weight = 0
    /\ score = <<>> /\ matched = <<>> /\ matches = <<>>

\* A pass begins with nothing scored.
Restart(requireAll) ==
    /\ pc' = "words" /\ all' = requireAll
    /\ todo' = query' /\ terms' = {} /\ weight' = 0
    /\ score' = [d \in DOMAIN index'.docs |-> 0]
    /\ matched' = [d \in DOMAIN index'.docs |-> 0]
    /\ UNCHANGED matches

Begin ==
    /\ pc = "idle"
    /\ IsIndex(index') /\ query' \in (SUBSET Words) \ {{}} /\ limit' \in Nat
    /\ Restart(TRUE)

\* Variant: the weight of a word is log(n / m).
NextWordWeighingNothing ==
    /\ pc = "words" /\ terms = {}
    /\ \E w \in todo :
          /\ todo' = todo \ {w}
          /\ terms' = Matching(w)
          /\ weight' = IF Cardinality(Found(w)) \in {0, Len(index.docs)} THEN 0
                       ELSE Weight[Len(index.docs) - 1][Cardinality(Found(w))]
          /\ matched' = [d \in Docs |-> IF d \in Found(w) THEN matched[d] + 1 ELSE matched[d]]
    /\ UNCHANGED <<pc, index, query, limit, all, score, matches>>

NextWord ==
    /\ pc = "words" /\ terms = {}
    /\ \E w \in todo :
          /\ todo' = todo \ {w}
          /\ terms' = Matching(w)
          /\ weight' = IF Found(w) = {} THEN 0
                       ELSE Weight[Len(index.docs)][Cardinality(Found(w))]
          /\ matched' = [d \in Docs |-> IF d \in Found(w) THEN matched[d] + 1 ELSE matched[d]]
    /\ UNCHANGED <<pc, index, query, limit, all, score, matches>>

AddPostings ==
    /\ pc = "words"
    /\ \E t \in terms :
          /\ score' = [d \in Docs |-> score[d] + weight * index.count[t][d]]
          /\ terms' = terms \ {t}
    /\ UNCHANGED <<pc, index, query, limit, all, todo, weight, matched, matches>>

Hits == {d \in Docs : score[d] > 0 /\ (all => matched[d] = Cardinality(query))}

\* The words come first: a stride is more than any relevance.
Total(stride, d) == matched[d] * stride + score[d]

Newer(a, b) == a # None /\ (b = None \/ a > b)

\* Variant: equal relevance is settled by the place alone.
BeforeByPlace(stride, d, e) ==
    LET x == index.docs[d]
        y == index.docs[e]
    IN  \/ Total(stride, d) > Total(stride, e)
        \/ /\ Total(stride, d) = Total(stride, e)
           /\ x.dir < y.dir \/ (x.dir = y.dir /\ x.name < y.name)

\* The comparison of to_result.
Before(stride, d, e) ==
    LET x == index.docs[d]
        y == index.docs[e]
    IN  \/ Total(stride, d) > Total(stride, e)
        \/ /\ Total(stride, d) = Total(stride, e)
           /\ \/ Newer(x.created, y.created)
              \/ x.created = y.created /\ Newer(x.modified, y.modified)
              \/ /\ x.created = y.created /\ x.modified = y.modified
                 /\ x.dir < y.dir \/ (x.dir = y.dir /\ x.name < y.name)

Scored == pc = "words" /\ todo = {} /\ terms = {}
Fruitless == Hits = {} /\ all /\ Cardinality(query) > 1

\* Variant: the second pass is as strict as the first.
RelaxNothing ==
    /\ Scored /\ Fruitless
    /\ UNCHANGED <<index, query, limit>>
    /\ Restart(TRUE)

\* search_relaxed, when no document holds all the words.
Relax ==
    /\ Scored /\ Fruitless
    /\ UNCHANGED <<index, query, limit>>
    /\ Restart(FALSE)

\* Variant: the stride is 1.0 whatever the relevance.
SortWithShortStride ==
    /\ Scored /\ ~Fruitless
    /\ \E top \in {0} \cup {score[d] : d \in Docs} :
          /\ \A d \in Docs : score[d] <= top
          /\ \E order \in SetToSeqs(Hits) :
                /\ \A i, j \in DOMAIN order : i < j => ~Before(Unit, order[j], order[i])
                /\ matches' = order
    /\ pc' = "sorted"
    /\ UNCHANGED <<index, query, limit, all, todo, terms, weight, score, matched>>

Sort ==
    /\ Scored /\ ~Fruitless
    /\ \E top \in {0} \cup {score[d] : d \in Docs} :
          /\ \A d \in Docs : score[d] <= top
          /\ \E order \in SetToSeqs(Hits) :
                /\ \A i, j \in DOMAIN order : i < j => ~Before(top + Unit, order[j], order[i])
                /\ matches' = order
    /\ pc' = "sorted"
    /\ UNCHANGED <<index, query, limit, all, todo, terms, weight, score, matched>>

Cut ==
    /\ pc = "sorted"
    /\ pc' = "done"
    /\ matches' = IF Len(matches) > limit THEN SubSeq(matches, 1, limit) ELSE matches
    /\ UNCHANGED <<index, query, limit, all, todo, terms, weight, score, matched>>

Rank == NextWord \/ AddPostings \/ Relax \/ Sort \/ Cut

RankingNext == Begin \/ Rank

RankingSpec == RankingInit /\ [][RankingNext]_rankingVars
-----------------------------------------------------------------------------
(* What a ranking promises.                                                *)

\* A document that holds more of the words stands before one that holds fewer,
\* however relevant; among equals the more relevant stands first.
CoverageFirst ==
    \A i, j \in DOMAIN matches : i < j =>
        \/ matched[matches[i]] > matched[matches[j]]
        \/ /\ matched[matches[i]] = matched[matches[j]]
           /\ score[matches[i]] >= score[matches[j]]

HoldAll == {d \in Docs : \A w \in query : d \in Found(w)}
HoldSome == {d \in Docs : \E w \in query : d \in Found(w)}

\* No document is lost or shown twice: the results are those that hold all the
\* words, also a word that every document holds, or, when there is none, those that
\* hold some; the limit only shortens the list.
EveryMatchRanked ==
    /\ pc = "sorted" =>
          /\ Range(matches) = IF HoldAll # {} THEN HoldAll ELSE HoldSome
          /\ IsInjective(matches)
    /\ pc = "done" => Len(matches) <= limit
=============================================================================
