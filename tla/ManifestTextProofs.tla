------------------------- MODULE ManifestTextProofs -------------------------
(***************************************************************************)
(* What holds of the text of a `.crumb' file for every directory, every    *)
(* line that users write, every string and every length of a text: the     *)
(* scan stays within its types and ends with the last section of each      *)
(* file, the fields of users are written again, and what was saved is read *)
(* back.                                                                   *)
(***************************************************************************)
EXTENDS ManifestText, FiniteSetTheorems, WellFoundedInduction, TLAPS

-----------------------------------------------------------------------------
(* Induction, said with sets of natural numbers.                           *)

Below == {p \in Nat \X Nat : p[1] < p[2]}

LEMMA BelowWellFounded == IsWellFoundedOn(Below, Nat)
BY NatLessThanWellFounded DEF OpToRel, Below

LEMMA Least ==
    ASSUME NEW T, T \subseteq Nat, T # {}
    PROVE  \E x \in T : \A y \in T : x <= y
<1>1. PICK x \in T : \A y \in T : <<y, x>> \notin Below
  BY BelowWellFounded, WFMin
<1>2. \A y \in T : ~(y < x)
  BY <1>1 DEF Below
<1> QED BY <1>1, <1>2

LEMMA Induction ==
    ASSUME NEW T, 0 \in T, \A n \in Nat : n \in T => n + 1 \in T
    PROVE  Nat \subseteq T
<1> SUFFICES ASSUME Nat \ T # {} PROVE FALSE
  OBVIOUS
<1>1. PICK x \in Nat \ T : \A y \in Nat \ T : x <= y
  BY Least
<1>2. x # 0 /\ x - 1 \in Nat
  BY <1>1
<1>3. x - 1 \in T
  BY <1>1, <1>2
<1>4. (x - 1) + 1 \in T
  BY <1>2, <1>3
<1> QED BY <1>1, <1>4
-----------------------------------------------------------------------------
(* Sequences.                                                              *)

IsList(s) == s \in Seq({s[i] : i \in DOMAIN s})

LEMMA ListOf ==
    ASSUME NEW S, NEW s \in Seq(S)
    PROVE  IsList(s)
<1>1. s \in [1 .. Len(s) -> {s[i] : i \in DOMAIN s}] /\ Len(s) \in Nat
  OBVIOUS
<1> QED BY <1>1 DEF IsList

LEMMA ListLength ==
    ASSUME NEW s, IsList(s)
    PROVE  Len(s) \in Nat /\ DOMAIN s = 1 .. Len(s)
BY DEF IsList

LEMMA Inserted ==
    ASSUME NEW s, IsList(s), NEW k \in DOMAIN s, NEW e
    PROVE  IsList(InsertAt(s, k, e))
<1> DEFINE S == {s[i] : i \in DOMAIN s} \cup {e}
<1>1. s \in Seq(S) /\ e \in S
  BY DEF IsList
<1>2. k \in 1 .. Len(s)
  BY ListLength
<1> HIDE DEF S
<1>3. SubSeq(s, 1, k - 1) \in Seq(S) /\ SubSeq(s, k, Len(s)) \in Seq(S)
  BY <1>1, <1>2
<1>4. InsertAt(s, k, e) \in Seq(S)
  BY <1>1, <1>3 DEF InsertAt
<1> QED BY <1>4, ListOf

LEMMA Appended ==
    ASSUME NEW s, IsList(s), NEW e
    PROVE  IsList(Append(s, e))
<1> DEFINE S == {s[i] : i \in DOMAIN s} \cup {e}
<1>1. s \in Seq(S) /\ e \in S
  BY DEF IsList
<1> HIDE DEF S
<1>2. Append(s, e) \in Seq(S)
  BY <1>1
<1> QED BY <1>2, ListOf

LEMMA Removed ==
    ASSUME NEW s, IsList(s), NEW k \in DOMAIN s
    PROVE  IsList(RemoveAt(s, k))
<1> DEFINE S == {s[i] : i \in DOMAIN s}
<1>1. s \in Seq(S)
  BY DEF IsList
<1>2. k \in 1 .. Len(s)
  BY ListLength
<1> HIDE DEF S
<1>3. SubSeq(s, 1, k - 1) \in Seq(S) /\ SubSeq(s, k + 1, Len(s)) \in Seq(S)
  BY <1>1, <1>2
<1>4. RemoveAt(s, k) \in Seq(S)
  BY <1>1, <1>3 DEF RemoveAt
<1> QED BY <1>4, ListOf

\* The function that FlattenSeq chooses exists, and its last value is the result.
LEMMA Flattening ==
    ASSUME NEW U, NEW seqs \in Seq(Seq(U)), Len(seqs) # 0
    PROVE  \E f : /\ f = [i \in 1 .. Len(seqs) |-> IF i = 1 THEN seqs[i] ELSE f[i - 1] \o seqs[i]]
                  /\ FlattenSeq(seqs) = f[Len(seqs)]
<1> DEFINE Solves(f, n) == f = [i \in 1 .. n |-> IF i = 1 THEN seqs[i] ELSE f[i - 1] \o seqs[i]]
           T == {n \in Nat : \E f : Solves(f, n)}
           flatten == CHOOSE f : Solves(f, Len(seqs))
<1>1. 0 \in T
  <2>1. Solves([i \in 1 .. 0 |-> seqs], 0)
    OBVIOUS
  <2> QED BY <2>1
<1>2. ASSUME NEW n \in Nat, n \in T PROVE n + 1 \in T
  <2>1. PICK f : Solves(f, n)
    BY <1>2
  <2> DEFINE g == [i \in 1 .. n + 1 |->
                     IF i = n + 1 THEN (IF i = 1 THEN seqs[i] ELSE f[n] \o seqs[i]) ELSE f[i]]
  <2>2. ASSUME NEW i \in 1 .. n + 1 
        PROVE  g[i] = IF i = 1 THEN seqs[i] ELSE g[i - 1] \o seqs[i]
    <3>1. CASE i = n + 1
      BY <3>1
    <3>2. CASE i # n + 1
      <4>1. i \in 1 .. n
        BY <3>2
      <4>2. f[i] = IF i = 1 THEN seqs[i] ELSE f[i - 1] \o seqs[i]
        BY <2>1, <4>1
      <4>3. i # 1 => i - 1 \in 1 .. n + 1 /\ i - 1 # n + 1
        BY <4>1
      <4>4. g[i] = f[i] /\ (i # 1 => g[i - 1] = f[i - 1])
        BY <3>2, <4>1, <4>3
      <4> QED BY <4>2, <4>4
    <3> QED BY <3>1, <3>2
  <2>3. Solves(g, n + 1)
    <3> DEFINE h == [i \in 1 .. n + 1 |-> IF i = 1 THEN seqs[i] ELSE g[i - 1] \o seqs[i]]
    <3>1. \A i \in 1 .. n + 1 : g[i] = h[i]
      BY <2>2
    <3>2. g = [i \in 1 .. n + 1 |-> g[i]] /\ h = [i \in 1 .. n + 1 |-> h[i]]
      OBVIOUS
    <3> HIDE DEF g
    <3> QED BY <3>1, <3>2
  <2> HIDE DEF g, Solves
  <2> QED BY <2>3
<1>3. Len(seqs) \in T
  <2> HIDE DEF T
  <2>1. Nat \subseteq T
    BY ONLY <1>1, <1>2, Induction, ZenonT(30)
  <2>2. Len(seqs) \in Nat
    OBVIOUS
  <2> QED BY ONLY <2>1, <2>2
<1>4. Solves(flatten, Len(seqs))
  <2> HIDE DEF Solves
  <2> QED BY <1>3
<1>5. FlattenSeq(seqs) = flatten[Len(seqs)]
  BY DEF FlattenSeq
<1> HIDE DEF flatten
<1> QED BY <1>4, <1>5

LEMMA Flat ==
    ASSUME NEW U, NEW seqs \in Seq(Seq(U))
    PROVE  FlattenSeq(seqs) \in Seq(U)
<1>1. CASE Len(seqs) = 0
  <2>1. seqs = <<>> /\ FlattenSeq(seqs) = seqs
    BY <1>1 DEF FlattenSeq
  <2>2. <<>> \in Seq(U)
    OBVIOUS
  <2> QED BY <2>1, <2>2
<1>2. CASE Len(seqs) # 0
  <2>1. PICK f : /\ f = [i \in 1 .. Len(seqs) |-> IF i = 1 THEN seqs[i] ELSE f[i - 1] \o seqs[i]]
                 /\ FlattenSeq(seqs) = f[Len(seqs)]
    BY <1>2, Flattening
  <2>2. \A i \in 1 .. Len(seqs) : f[i] = IF i = 1 THEN seqs[i] ELSE f[i - 1] \o seqs[i]
    BY <2>1
  <2> DEFINE T == {n \in Nat : n \in 1 .. Len(seqs) => f[n] \in Seq(U)}
  <2>3. 0 \in T
    OBVIOUS
  <2>4. ASSUME NEW n \in Nat, n \in T PROVE n + 1 \in T
    <3> SUFFICES ASSUME n + 1 \in 1 .. Len(seqs) PROVE f[n + 1] \in Seq(U)
      OBVIOUS
    <3>1. seqs[n + 1] \in Seq(U)
      OBVIOUS
    <3>2. CASE n = 0
      BY <2>2, <3>1, <3>2
    <3>3. CASE n # 0
      <4>1. n \in 1 .. Len(seqs) /\ (n + 1) - 1 = n /\ n + 1 # 1
        BY <3>3
      <4>2. f[n] \in Seq(U)
        BY <2>4, <4>1
      <4>3. f[n + 1] = f[n] \o seqs[n + 1]
        <5>1. f[n + 1] = IF n + 1 = 1 THEN seqs[n + 1] ELSE f[(n + 1) - 1] \o seqs[n + 1]
          BY <2>2
        <5> QED BY <4>1, <5>1, Zenon
      <4> QED BY <3>1, <4>2, <4>3
    <3> QED BY <3>2, <3>3
  <2>5. Nat \subseteq T
    <3> HIDE DEF T
    <3> QED BY <2>3, <2>4, Induction
  <2>6. Len(seqs) \in Nat /\ Len(seqs) \in 1 .. Len(seqs)
    BY <1>2
  <2> QED BY <2>1, <2>5, <2>6
<1> QED BY <1>1, <1>2

\* The position behind the first i blocks of a sequence of blocks that are written
\* one after the other.
Behind(seqs, i) == Len(FlattenSeq(SubSeq(seqs, 1, i)))

\* One solution of the equations that FlattenSeq solves agrees with another.
LEMMA FlatStep ==
    ASSUME NEW U, NEW seqs \in Seq(Seq(U)), NEW i \in 1 .. Len(seqs)
    PROVE  FlattenSeq(SubSeq(seqs, 1, i)) = FlattenSeq(SubSeq(seqs, 1, i - 1)) \o seqs[i]
<1> DEFINE long == SubSeq(seqs, 1, i)
           short == SubSeq(seqs, 1, i - 1)
<1>1. /\ long \in Seq(Seq(U)) /\ short \in Seq(Seq(U)) /\ Len(long) = i /\ Len(short) = i - 1
      /\ \A k \in 1 .. i : long[k] = seqs[k]
      /\ \A k \in 1 .. i - 1 : short[k] = seqs[k]
  OBVIOUS
<1> HIDE DEF long, short
<1>2. seqs[i] \in Seq(U)
  OBVIOUS
<1>3. PICK f : /\ f = [k \in 1 .. i |-> IF k = 1 THEN long[k] ELSE f[k - 1] \o long[k]]
               /\ FlattenSeq(long) = f[i]
  <2>1. Len(long) # 0
    BY <1>1
  <2>2. \E f : /\ f = [k \in 1 .. Len(long) |-> IF k = 1 THEN long[k] ELSE f[k - 1] \o long[k]]
               /\ FlattenSeq(long) = f[Len(long)]
    BY <1>1, <2>1, Flattening, Zenon
  <2> QED BY <1>1, <2>2, Zenon
<1>4. \A k \in 1 .. i : f[k] = IF k = 1 THEN seqs[k] ELSE f[k - 1] \o seqs[k]
  <2>1. \A k \in 1 .. i : f[k] = IF k = 1 THEN long[k] ELSE f[k - 1] \o long[k]
    BY ONLY <1>3
  <2> QED BY <1>1, <2>1, ZenonT(30)
<1>5. CASE i = 1
  <2>1. short = <<>> /\ FlattenSeq(short) = short
    BY <1>1, <1>5 DEF FlattenSeq
  <2>2. FlattenSeq(long) = seqs[1]
    <3>1. i \in 1 .. i
      OBVIOUS
    <3>2. f[i] = IF i = 1 THEN seqs[i] ELSE f[i - 1] \o seqs[i]
      BY ONLY <1>4, <3>1, ZenonT(30)
    <3> QED BY ONLY <1>3, <1>5, <3>2
  <2>3. <<>> \o seqs[1] = seqs[1]
    <3>1. seqs[1] \in Seq(U)
      BY ONLY <1>2, <1>5, SMTT(30)
    <3> QED BY ONLY <3>1
  <2> QED BY <1>5, <2>1, <2>2, <2>3 DEF long, short
<1>6. CASE i # 1
  <2>1. i - 1 \in 1 .. i /\ Len(short) # 0
    BY <1>1, <1>6
  <2>2. PICK g : /\ g = [k \in 1 .. i - 1 |-> IF k = 1 THEN short[k] ELSE g[k - 1] \o short[k]]
                 /\ FlattenSeq(short) = g[i - 1]
    <3>1. \E g : /\ g = [k \in 1 .. Len(short) |-> IF k = 1 THEN short[k] ELSE g[k - 1] \o short[k]]
                 /\ FlattenSeq(short) = g[Len(short)]
      BY <1>1, <2>1, Flattening, Zenon
    <3> QED BY <1>1, <3>1, ZenonT(30)
  <2>3. \A k \in 1 .. i - 1 : g[k] = IF k = 1 THEN seqs[k] ELSE g[k - 1] \o seqs[k]
    <3>1. \A k \in 1 .. i - 1 : g[k] = IF k = 1 THEN short[k] ELSE g[k - 1] \o short[k]
      BY ONLY <2>2
    <3> QED BY <1>1, <3>1, ZenonT(30)
  <2> DEFINE T == {k \in Nat : k \in 1 .. i - 1 => f[k] = g[k]}
  <2>4. 0 \in T
    OBVIOUS
  <2>5. ASSUME NEW k \in Nat, k \in T PROVE k + 1 \in T
    <3> SUFFICES ASSUME k + 1 \in 1 .. i - 1 PROVE f[k + 1] = g[k + 1]
      OBVIOUS
    <3>1. k + 1 \in 1 .. i
      OBVIOUS
    <3>2. f[k + 1] = IF k + 1 = 1 THEN seqs[k + 1] ELSE f[(k + 1) - 1] \o seqs[k + 1]
      BY <1>4, <3>1
    <3>3. g[k + 1] = IF k + 1 = 1 THEN seqs[k + 1] ELSE g[(k + 1) - 1] \o seqs[k + 1]
      BY <2>3
    <3>4. k + 1 # 1 => (k + 1) - 1 = k /\ f[k] = g[k]
      BY <2>5
    <3> QED BY <3>2, <3>3, <3>4
  <2>6. f[i - 1] = g[i - 1]
    <3>1. Nat \subseteq T
      <4> HIDE DEF T
      <4> QED BY <2>4, <2>5, Induction
    <3>2. i - 1 \in Nat /\ i - 1 \in 1 .. i - 1
      BY <2>1
    <3> QED BY <3>1, <3>2
  <2>7. f[i] = f[i - 1] \o seqs[i]
    <3>1. i \in 1 .. i
      OBVIOUS
    <3>2. f[i] = IF i = 1 THEN seqs[i] ELSE f[i - 1] \o seqs[i]
      BY <1>4, <3>1
    <3> QED BY <1>6, <3>2, Zenon
  <2> QED BY <1>3, <2>2, <2>6, <2>7 DEF long, short
<1> QED BY <1>5, <1>6

LEMMA BehindFacts ==
    ASSUME NEW U, NEW seqs \in Seq(Seq(U))
    PROVE  /\ Behind(seqs, 0) = 0 /\ Behind(seqs, Len(seqs)) = Len(FlattenSeq(seqs))
           /\ \A i \in 0 .. Len(seqs) : Behind(seqs, i) \in Nat
           /\ \A i \in 1 .. Len(seqs) : Behind(seqs, i) = Behind(seqs, i - 1) + Len(seqs[i])
<1>1. \A i \in 0 .. Len(seqs) : FlattenSeq(SubSeq(seqs, 1, i)) \in Seq(U)
  <2> TAKE i \in 0 .. Len(seqs)
  <2>1. SubSeq(seqs, 1, i) \in Seq(Seq(U))
    OBVIOUS
  <2> QED BY <2>1, Flat
<1>2. Behind(seqs, 0) = 0
  <2>1. SubSeq(seqs, 1, 0) = <<>>
    OBVIOUS
  <2>2. FlattenSeq(<<>>) = <<>> /\ Len(<<>>) = 0
    BY DEF FlattenSeq
  <2>3. FlattenSeq(SubSeq(seqs, 1, 0)) = FlattenSeq(<<>>)
    BY <2>1, Zenon
  <2> QED BY <2>2, <2>3 DEF Behind
<1>3. Behind(seqs, Len(seqs)) = Len(FlattenSeq(seqs))
  <2>1. SubSeq(seqs, 1, Len(seqs)) = seqs
    OBVIOUS
  <2> QED BY <2>1 DEF Behind
<1>4. \A i \in 0 .. Len(seqs) : Behind(seqs, i) \in Nat
  BY <1>1 DEF Behind
<1>5. ASSUME NEW i \in 1 .. Len(seqs)
      PROVE  Behind(seqs, i) = Behind(seqs, i - 1) + Len(seqs[i])
  <2>1. FlattenSeq(SubSeq(seqs, 1, i)) = FlattenSeq(SubSeq(seqs, 1, i - 1)) \o seqs[i]
    BY FlatStep
  <2>2. i - 1 \in 0 .. Len(seqs) /\ seqs[i] \in Seq(U)
    OBVIOUS
  <2> DEFINE long == FlattenSeq(SubSeq(seqs, 1, i))
             short == FlattenSeq(SubSeq(seqs, 1, i - 1))
             new == seqs[i]
  <2>3. short \in Seq(U) /\ new \in Seq(U) /\ long = short \o new
    BY <1>1, <2>1, <2>2
  <2>4. Behind(seqs, i) = Len(long) /\ Behind(seqs, i - 1) = Len(short)
    BY DEF Behind
  <2> HIDE DEF long, short, new
  <2>5. Len(long) = Len(short) + Len(new)
    BY <2>3
  <2> QED BY <2>4, <2>5 DEF new
<1> QED BY <1>2, <1>3, <1>4, <1>5

\* What stands where in a sequence of blocks.
LEMMA FlatAt ==
    ASSUME NEW U, NEW seqs \in Seq(Seq(U)), NEW i \in 1 .. Len(seqs), NEW j \in 1 .. Len(seqs[i])
    PROVE  /\ Behind(seqs, i - 1) + j \in 1 .. Len(FlattenSeq(seqs))
           /\ FlattenSeq(seqs)[Behind(seqs, i - 1) + j] = seqs[i][j]
<1> DEFINE F(k) == FlattenSeq(SubSeq(seqs, 1, k))
           at == Behind(seqs, i - 1) + j
           T == {k \in Nat : i + k <= Len(seqs) =>
                   at \in 1 .. Len(F(i + k)) /\ F(i + k)[at] = seqs[i][j]}
<1>1. \A k \in 0 .. Len(seqs) : F(k) \in Seq(U)
  <2> TAKE k \in 0 .. Len(seqs)
  <2>1. SubSeq(seqs, 1, k) \in Seq(Seq(U))
    OBVIOUS
  <2> QED BY <2>1, Flat
<1>2. \A k \in 1 .. Len(seqs) : F(k) = F(k - 1) \o seqs[k]
  BY FlatStep
<1>3. \A k \in 1 .. Len(seqs) : seqs[k] \in Seq(U)
  OBVIOUS
<1>4. Behind(seqs, i - 1) = Len(F(i - 1))
  BY DEF Behind
<1> HIDE DEF F
<1>5. 0 \in T
  <2>1. i - 1 \in 0 .. Len(seqs) /\ i + 0 = i
    OBVIOUS
  <2> DEFINE short == F(i - 1)
             new == seqs[i]
             long == F(i)
  <2>2. short \in Seq(U) /\ new \in Seq(U) /\ long = short \o new
    BY <1>1, <1>2, <1>3, <2>1
  <2>3. at = Len(short) + j /\ j \in 1 .. Len(new)
    BY <1>4
  <2> HIDE DEF short, new, long, at
  <2>4. at \in 1 .. Len(long) /\ long[at] = new[j]
    BY <2>2, <2>3
  <2> QED BY <2>1, <2>4 DEF new, long
<1>6. ASSUME NEW k \in Nat, k \in T PROVE k + 1 \in T
  <2> SUFFICES ASSUME i + (k + 1) <= Len(seqs)
               PROVE  at \in 1 .. Len(F(i + (k + 1))) /\ F(i + (k + 1))[at] = seqs[i][j]
    OBVIOUS
  <2>1. at \in 1 .. Len(F(i + k)) /\ F(i + k)[at] = seqs[i][j]
    BY <1>6
  <2>2. i + (k + 1) \in 1 .. Len(seqs) /\ (i + (k + 1)) - 1 = i + k /\ i + k \in 0 .. Len(seqs)
    OBVIOUS
  <2> DEFINE n == i + (k + 1)
             short == F(i + k)
             new == seqs[n]
             long == F(n)
             item == seqs[i][j]
  <2>3. long = short \o new
    BY <1>2, <2>2
  <2>4. short \in Seq(U) /\ new \in Seq(U)
    BY <1>1, <1>3, <2>2
  <2>5. at \in 1 .. Len(short) /\ short[at] = item
    BY <2>1
  <2> HIDE DEF short, new, long, at, item
  <2>6. at \in 1 .. Len(long) /\ long[at] = item
    BY <2>3, <2>4, <2>5
  <2> QED BY <2>6 DEF long, item
<1>7. Len(seqs) - i \in T
  <2>1. Len(seqs) - i \in Nat
    OBVIOUS
  <2>2. Nat \subseteq T
    <3> HIDE DEF T
    <3> QED BY <1>5, <1>6, Induction
  <2> QED BY <2>1, <2>2
<1>8. F(Len(seqs)) = FlattenSeq(seqs)
  <2>1. SubSeq(seqs, 1, Len(seqs)) = seqs
    OBVIOUS
  <2> QED BY <2>1 DEF F
<1>9. i + (Len(seqs) - i) = Len(seqs) /\ i + (Len(seqs) - i) <= Len(seqs)
  OBVIOUS
<1> HIDE DEF at
<1>10. at \in 1 .. Len(F(Len(seqs))) /\ F(Len(seqs))[at] = seqs[i][j]
  BY <1>7, <1>9
<1> QED BY <1>8, <1>10 DEF at

LEMMA FlatLists ==
    ASSUME NEW seqs, IsList(seqs), \A i \in DOMAIN seqs : IsList(seqs[i])
    PROVE  IsList(FlattenSeq(seqs))
<1> DEFINE U == UNION {{seqs[i][j] : j \in DOMAIN seqs[i]} : i \in DOMAIN seqs}
<1>1. ASSUME NEW i \in DOMAIN seqs PROVE seqs[i] \in Seq(U)
  <2> DEFINE R == {seqs[i][j] : j \in DOMAIN seqs[i]}
  <2>1. seqs[i] \in Seq(R)
    BY DEF IsList
  <2>2. R \subseteq U
    OBVIOUS
  <2> HIDE DEF R, U
  <2> QED BY <2>1, <2>2
<1>2. seqs \in Seq(Seq(U))
  <2>1. Len(seqs) \in Nat /\ DOMAIN seqs = 1 .. Len(seqs)
    BY ListLength
  <2>2. seqs = [i \in 1 .. Len(seqs) |-> seqs[i]]
    BY DEF IsList
  <2> HIDE DEF U
  <2> QED BY <1>1, <2>1, <2>2
<1> HIDE DEF U
<1>3. FlattenSeq(seqs) \in Seq(U)
  BY <1>2, Flat
<1> QED BY <1>3, ListOf

LEMMA ListMade ==
    ASSUME NEW n \in Nat, NEW s, DOMAIN s = 1 .. n, s = [i \in 1 .. n |-> s[i]]
    PROVE  IsList(s) /\ Len(s) = n
<1> DEFINE S == {s[i] : i \in 1 .. n}
<1>1. s \in [1 .. n -> S]
  BY Zenon
<1> HIDE DEF S
<1>2. s \in Seq(S) /\ Len(s) = n
  BY <1>1
<1> QED BY <1>2, ListOf

LEMMA Joined ==
    ASSUME NEW s, NEW t, IsList(s), IsList(t)
    PROVE  IsList(s \o t)
<1> DEFINE A == {s[i] : i \in DOMAIN s}
           B == {t[i] : i \in DOMAIN t}
           C == A \cup B
<1>1. s \in Seq(A) /\ t \in Seq(B)
  BY DEF IsList
<1> HIDE DEF A, B
<1>2. s \in Seq(C) /\ t \in Seq(C)
  BY <1>1
<1> HIDE DEF C
<1>3. s \o t \in Seq(C)
  BY <1>2
<1> QED BY <1>3, ListOf

LEMMA SetListed ==
    ASSUME NEW S, IsFiniteSet(S)
    PROVE  /\ SetToSeq(S) \in [1 .. Cardinality(S) -> S]
           /\ Cardinality(S) \in Nat
           /\ IsList(SetToSeq(S))
<1>1. Cardinality(S) \in Nat /\ ExistsBijection(1 .. Cardinality(S), S)
  BY FS_CardinalityType
<1>2. PICK f \in [1 .. Cardinality(S) -> S] : IsInjective(f)
  <2>1. PICK f : f \in Bijection(1 .. Cardinality(S), S)
    BY <1>1 DEF ExistsBijection
  <2>2. f \in [1 .. Cardinality(S) -> S] /\ \A a, b \in 1 .. Cardinality(S) : f[a] = f[b] => a = b
    BY <2>1 DEF Bijection, Injection, IsInjective
  <2>3. IsInjective(f)
    BY <2>2 DEF IsInjective
  <2> QED BY <2>2, <2>3
<1>3. SetToSeq(S) \in [1 .. Cardinality(S) -> S]
  BY <1>2 DEF SetToSeq
<1>4. SetToSeq(S) \in Seq(S)
  BY <1>1, <1>3
<1> QED BY <1>1, <1>3, <1>4, ListOf

FiniteMap(m) == IsFiniteSet(DOMAIN m) /\ \A n \in DOMAIN m : IsFiniteSet(DOMAIN m[n])

LEMMA Pairing ==
    ASSUME NEW a, NEW b, NEW c
    PROVE  IsList(<<a>>) /\ IsList(<<a, b>>) /\ IsList(<<a, b, c>>)
<1>1. <<a>> \in Seq({a, b, c}) /\ <<a, b>> \in Seq({a, b, c}) /\ <<a, b, c>> \in Seq({a, b, c})
  OBVIOUS
<1> QED BY <1>1, ListOf

LEMMA Blocks ==
    ASSUME NEW seqs, IsList(seqs), \A i \in DOMAIN seqs : IsList(seqs[i])
    PROVE  /\ IsList(FlattenSeq(seqs))
           /\ Behind(seqs, 0) = 0 /\ Behind(seqs, Len(seqs)) = Len(FlattenSeq(seqs))
           /\ \A i \in 0 .. Len(seqs) : Behind(seqs, i) \in Nat
           /\ \A i \in 1 .. Len(seqs) : Behind(seqs, i) = Behind(seqs, i - 1) + Len(seqs[i])
           /\ \A i \in 1 .. Len(seqs) : \A j \in 1 .. Len(seqs[i]) :
                 /\ Behind(seqs, i - 1) + j \in 1 .. Len(FlattenSeq(seqs))
                 /\ FlattenSeq(seqs)[Behind(seqs, i - 1) + j] = seqs[i][j]
<1> DEFINE U == UNION {{seqs[i][j] : j \in DOMAIN seqs[i]} : i \in DOMAIN seqs}
<1>1. ASSUME NEW i \in DOMAIN seqs PROVE seqs[i] \in Seq(U)
  <2> DEFINE R == {seqs[i][j] : j \in DOMAIN seqs[i]}
  <2>1. seqs[i] \in Seq(R)
    BY DEF IsList
  <2>2. R \subseteq U
    OBVIOUS
  <2> HIDE DEF R, U
  <2> QED BY <2>1, <2>2
<1>2. seqs \in Seq(Seq(U))
  <2>1. Len(seqs) \in Nat /\ DOMAIN seqs = 1 .. Len(seqs)
    BY ListLength
  <2>2. seqs = [i \in 1 .. Len(seqs) |-> seqs[i]]
    BY DEF IsList
  <2> HIDE DEF U
  <2> QED BY <1>1, <2>1, <2>2
<1> HIDE DEF U
<1>3. IsList(FlattenSeq(seqs))
  BY FlatLists
<1>4. \A i \in 1 .. Len(seqs) : \A j \in 1 .. Len(seqs[i]) :
         /\ Behind(seqs, i - 1) + j \in 1 .. Len(FlattenSeq(seqs))
         /\ FlattenSeq(seqs)[Behind(seqs, i - 1) + j] = seqs[i][j]
  BY <1>2, FlatAt
<1>5. /\ Behind(seqs, 0) = 0 /\ Behind(seqs, Len(seqs)) = Len(FlattenSeq(seqs))
      /\ \A i \in 0 .. Len(seqs) : Behind(seqs, i) \in Nat
      /\ \A i \in 1 .. Len(seqs) : Behind(seqs, i) = Behind(seqs, i - 1) + Len(seqs[i])
  BY <1>2, BehindFacts
<1> QED BY <1>3, <1>4, <1>5, Zenon

LEMMA JoinedAt ==
    ASSUME NEW A, NEW s \in Seq(A), NEW t \in Seq(A), NEW u, u = s \o t
    PROVE  /\ u \in Seq(A) /\ Len(u) = Len(s) + Len(t)
           /\ \A i \in 1 .. Len(s) : u[i] = s[i]
           /\ \A i \in 1 .. Len(t) : u[Len(s) + i] = t[i]
OBVIOUS

\* Nothing else stands in a sequence of blocks.
LEMMA Covered ==
    ASSUME NEW seqs, IsList(seqs), \A i \in DOMAIN seqs : IsList(seqs[i]),
           NEW p \in 1 .. Len(FlattenSeq(seqs))
    PROVE  \E i \in 1 .. Len(seqs) : \E j \in 1 .. Len(seqs[i]) : p = Behind(seqs, i - 1) + j
<1>1. /\ Behind(seqs, 0) = 0 /\ Behind(seqs, Len(seqs)) = Len(FlattenSeq(seqs))
      /\ \A i \in 0 .. Len(seqs) : Behind(seqs, i) \in Nat
      /\ \A i \in 1 .. Len(seqs) : Behind(seqs, i) = Behind(seqs, i - 1) + Len(seqs[i])
  BY Blocks
<1>2. Len(seqs) \in Nat /\ DOMAIN seqs = 1 .. Len(seqs) /\ Len(FlattenSeq(seqs)) \in Nat
  BY <1>1, ListLength
<1> DEFINE T == {n \in Nat : n <= Len(seqs) /\ p <= Behind(seqs, n)}
<1>3. PICK x \in T : \A y \in T : x <= y
  <2>1. Len(seqs) \in T
    BY <1>1, <1>2
  <2>2. T \subseteq Nat
    OBVIOUS
  <2> HIDE DEF T
  <2> QED BY <2>1, <2>2, Least
<1>4. x \in 1 .. Len(seqs)
  BY <1>1, <1>2
<1>5. ~(p <= Behind(seqs, x - 1))
  <2>1. x - 1 \in Nat /\ x - 1 <= Len(seqs) /\ ~(x <= x - 1)
    BY <1>2, <1>4
  <2> QED BY <1>3, <2>1
<1> DEFINE low == Behind(seqs, x - 1)
           high == Behind(seqs, x)
           len == Len(seqs[x])
<1>6. low \in Nat /\ high = low + len /\ p <= high /\ ~(p <= low) /\ p \in Nat
  <2>1. x - 1 \in 0 .. Len(seqs)
    BY <1>2, <1>4
  <2> QED BY <1>1, <1>2, <1>3, <1>4, <1>5, <2>1
<1>7. len \in Nat
  BY <1>2, <1>4, ListLength
<1> HIDE DEF low, high, len, T
<1>8. p - low \in 1 .. len /\ p = low + (p - low)
  BY ONLY <1>6, <1>7
<1> QED BY <1>4, <1>8 DEF low, len

\* An item stands in the blocks exactly when it stands in one of them.
LEMMA InBlocks ==
    ASSUME NEW seqs, IsList(seqs), \A i \in DOMAIN seqs : IsList(seqs[i])
    PROVE  /\ \A i \in DOMAIN seqs : \A j \in DOMAIN seqs[i] :
                 \E p \in DOMAIN FlattenSeq(seqs) : FlattenSeq(seqs)[p] = seqs[i][j]
           /\ \A p \in DOMAIN FlattenSeq(seqs) :
                 \E i \in DOMAIN seqs : \E j \in DOMAIN seqs[i] : FlattenSeq(seqs)[p] = seqs[i][j]
<1>1. IsList(FlattenSeq(seqs)) /\ Len(seqs) \in Nat /\ DOMAIN seqs = 1 .. Len(seqs)
  BY Blocks, ListLength
<1>2. DOMAIN FlattenSeq(seqs) = 1 .. Len(FlattenSeq(seqs))
  BY <1>1, ListLength
<1>3. \A i \in 1 .. Len(seqs) : DOMAIN seqs[i] = 1 .. Len(seqs[i])
  BY <1>1, ListLength
<1>4. \A i \in 1 .. Len(seqs) : \A j \in 1 .. Len(seqs[i]) :
         /\ Behind(seqs, i - 1) + j \in 1 .. Len(FlattenSeq(seqs))
         /\ FlattenSeq(seqs)[Behind(seqs, i - 1) + j] = seqs[i][j]
  BY Blocks
<1>5. ASSUME NEW p \in 1 .. Len(FlattenSeq(seqs))
      PROVE  \E i \in 1 .. Len(seqs) : \E j \in 1 .. Len(seqs[i]) : FlattenSeq(seqs)[p] = seqs[i][j]
  <2>1. PICK i \in 1 .. Len(seqs) : \E j \in 1 .. Len(seqs[i]) : p = Behind(seqs, i - 1) + j
    BY Covered
  <2>2. PICK j \in 1 .. Len(seqs[i]) : p = Behind(seqs, i - 1) + j
    BY <2>1
  <2> QED BY <1>4, <2>2
<1> DEFINE flat == FlattenSeq(seqs)
           stop(i) == Behind(seqs, i - 1)
<1>6. ASSUME NEW i \in DOMAIN seqs, NEW j \in DOMAIN seqs[i]
      PROVE  \E p \in DOMAIN flat : flat[p] = seqs[i][j]
  <2>1. i \in 1 .. Len(seqs) /\ j \in 1 .. Len(seqs[i])
    BY <1>1, <1>3
  <2>2. stop(i) + j \in DOMAIN flat /\ flat[stop(i) + j] = seqs[i][j]
    BY <1>2, <1>4, <2>1
  <2> HIDE DEF flat, stop
  <2> QED BY <2>2
<1>7. ASSUME NEW p \in DOMAIN flat
      PROVE  \E i \in DOMAIN seqs : \E j \in DOMAIN seqs[i] : flat[p] = seqs[i][j]
  <2>1. p \in 1 .. Len(flat)
    BY <1>2
  <2>2. PICK i \in 1 .. Len(seqs) : \E j \in 1 .. Len(seqs[i]) : flat[p] = seqs[i][j]
    BY <1>5, <2>1
  <2> HIDE DEF flat
  <2> QED BY <1>1, <1>3, <2>2
<1> QED BY <1>6, <1>7

LEMMA AllListed ==
    ASSUME NEW S, IsFiniteSet(S)
    PROVE  \A x \in S : \E i \in DOMAIN SetToSeq(S) : SetToSeq(S)[i] = x
<1> DEFINE n == Cardinality(S)
<1>1. n \in Nat /\ ExistsBijection(1 .. n, S)
  BY FS_CardinalityType
<1>2. PICK f \in [1 .. n -> S] : IsInjective(f)
  BY <1>1 DEF ExistsBijection, Bijection, Injection
<1>3. SetToSeq(S) \in [1 .. n -> S] /\ IsInjective(SetToSeq(S))
  BY <1>2 DEF SetToSeq
<1>4. SetToSeq(S) \in Injection(1 .. n, S)
  BY <1>3 DEF Injection
<1>5. Cardinality(1 .. n) = n
  <2>1. 1 \in Int /\ n \in Int
    BY <1>1
  <2>2. Cardinality(1 .. n) = IF 1 > n THEN 0 ELSE n - 1 + 1
    BY <2>1, FS_Interval
  <2> QED BY <1>1, <2>2
<1>6. SetToSeq(S) \in Surjection(1 .. n, S)
  BY <1>4, <1>5, FS_Injection
<1> QED BY <1>3, <1>6 DEF Surjection

-----------------------------------------------------------------------------
(* The lines of a manifest that is written.                                *)

\* A sequence with the items of two others.
Merges(u, s, t) ==
    /\ IsList(u)
    /\ \A i \in DOMAIN s : \E p \in DOMAIN u : u[p] = s[i]
    /\ \A i \in DOMAIN t : \E p \in DOMAIN u : u[p] = t[i]
    /\ \A p \in DOMAIN u : (\E i \in DOMAIN s : u[p] = s[i]) \/ (\E i \in DOMAIN t : u[p] = t[i])

LEMMA InJoined ==
    ASSUME NEW s, NEW t, IsList(s), IsList(t)
    PROVE  Merges(s \o t, s, t)
<1> DEFINE A == {s[i] : i \in DOMAIN s} \cup {t[i] : i \in DOMAIN t}
           u == s \o t
<1>1. s \in Seq(A) /\ t \in Seq(A)
  BY DEF IsList
<1> HIDE DEF A
<1>2. u \in Seq(A) /\ Len(u) = Len(s) + Len(t) /\ Len(s) \in Nat /\ Len(t) \in Nat
      /\ (\A i \in 1 .. Len(s) : u[i] = s[i]) /\ (\A i \in 1 .. Len(t) : u[Len(s) + i] = t[i])
  BY <1>1, JoinedAt
<1>3. DOMAIN s = 1 .. Len(s) /\ DOMAIN t = 1 .. Len(t) /\ DOMAIN u = 1 .. Len(u)
  BY <1>1, <1>2
<1>4. IsList(u)
  BY <1>2, ListOf
<1> HIDE DEF u
<1>5. \A i \in DOMAIN s : i \in DOMAIN u /\ u[i] = s[i]
  BY <1>2, <1>3
<1>6. \A i \in DOMAIN t : Len(s) + i \in DOMAIN u /\ u[Len(s) + i] = t[i]
  BY <1>2, <1>3
<1>7. \A p \in DOMAIN u : p \in DOMAIN s \/ (p - Len(s) \in DOMAIN t /\ Len(s) + (p - Len(s)) = p)
  BY <1>2, <1>3
<1>8. \A p \in DOMAIN u : (\E i \in DOMAIN s : u[p] = s[i]) \/ (\E i \in DOMAIN t : u[p] = t[i])
  <2> TAKE p \in DOMAIN u
  <2>1. CASE p \in DOMAIN s
    BY <1>5, <2>1
  <2>2. CASE p - Len(s) \in DOMAIN t /\ Len(s) + (p - Len(s)) = p
    <3>1. u[Len(s) + (p - Len(s))] = t[p - Len(s)]
      BY <1>6, <2>2
    <3> QED BY <2>2, <3>1
  <2> QED BY <1>7, <2>1, <2>2
<1>9. \A i \in DOMAIN s : \E p \in DOMAIN u : u[p] = s[i]
  BY <1>5
<1>10. \A i \in DOMAIN t : \E p \in DOMAIN u : u[p] = t[i]
  BY <1>6
<1>11. Merges(u, s, t)
  BY <1>4, <1>8, <1>9, <1>10 DEF Merges
<1> QED BY <1>11 DEF u

\* The section of an entry: its heading, then a pair for every field and no other.
PairOf(e, k) == Pair(k, WrittenValue(k, e[k]))
IsSection(lines, name, e) ==
    /\ IsList(lines) /\ Len(lines) >= 2
    /\ lines[1] = Blank /\ lines[2] = Section(Quote(name))
    /\ \A j \in 3 .. Len(lines) : \E k \in DOMAIN e : lines[j] = PairOf(e, k)
    /\ \A k \in DOMAIN e : \E j \in 3 .. Len(lines) : lines[j] = PairOf(e, k)

LEMMA OrderIsComplete ==
    /\ DOMAIN Order = 1 .. 13
    /\ \A k \in Known : \E i \in 1 .. 13 : Order[i] = k
<1>1. DOMAIN Order = 1 .. 13
  BY DEF Order
<1>2. /\ Order[1] = "id" /\ Order[2] = "type" /\ Order[3] = "size" /\ Order[4] = "modified_ns"
      /\ Order[5] = "fingerprint" /\ Order[6] = "content_hash" /\ Order[7] = "external_url"
      /\ Order[8] = "created_ns" /\ Order[9] = "inode" /\ Order[10] = "device"
      /\ Order[11] = "title" /\ Order[12] = "author" /\ Order[13] = "extractor"
  BY DEF Order
<1>3. ASSUME NEW k \in Known
      PROVE  \/ k = "id" \/ k = "type" \/ k = "size" \/ k = "modified_ns" \/ k = "fingerprint"
             \/ k = "content_hash" \/ k = "external_url" \/ k = "created_ns" \/ k = "inode"
             \/ k = "device" \/ k = "title" \/ k = "author" \/ k = "extractor"
  BY Zenon DEF Known, Required, OptionalNumbers, OptionalStrings
<1>4. 1 \in 1 .. 13 /\ 2 \in 1 .. 13 /\ 3 \in 1 .. 13 /\ 4 \in 1 .. 13 /\ 5 \in 1 .. 13
      /\ 6 \in 1 .. 13 /\ 7 \in 1 .. 13 /\ 8 \in 1 .. 13 /\ 9 \in 1 .. 13 /\ 10 \in 1 .. 13
      /\ 11 \in 1 .. 13 /\ 12 \in 1 .. 13 /\ 13 \in 1 .. 13
  OBVIOUS
<1>5. \A k \in Known : \E i \in 1 .. 13 : Order[i] = k
  BY ONLY <1>2, <1>3, <1>4, ZenonT(30)
<1> QED BY <1>1, <1>5

LEMMA SectionWritten ==
    ASSUME NEW name, NEW e, IsFiniteSet(DOMAIN e)
    PROVE  IsSection(EntryLines(name, e), name, e)
<1> DEFINE choice == [i \in DOMAIN Order |-> IF Order[i] \in DOMAIN e THEN <<Order[i]>> ELSE <<>>]
           known == FlattenSeq(choice)
           others == SetToSeq(DOMAIN e \ Known)
           keys == known \o others
           pairs == [i \in DOMAIN keys |-> Pair(keys[i], WrittenValue(keys[i], e[keys[i]]))]
           lines == <<Blank, Section(Quote(name))>> \o pairs
<1>1. DOMAIN choice = 1 .. 13 /\ IsList(choice) /\ \A i \in DOMAIN choice : IsList(choice[i])
  <2>1. DOMAIN choice = 1 .. 13
    BY OrderIsComplete, Zenon
  <2>2. IsList(choice)
    <3>1. choice = [i \in 1 .. 13 |-> choice[i]]
      BY <2>1, Zenon
    <3> HIDE DEF choice
    <3> QED BY <2>1, <3>1, ListMade
  <2>3. ASSUME NEW i \in DOMAIN choice PROVE IsList(choice[i])
    <3>1. IsList(<<Order[i]>>)
      BY Pairing
    <3>2. <<>> \in Seq({})
      OBVIOUS
    <3>3. IsList(<<>>)
      BY <3>2, ListOf
    <3>4. choice[i] = <<Order[i]>> \/ choice[i] = <<>>
      BY Zenon
    <3> HIDE DEF choice
    <3> QED BY <3>1, <3>3, <3>4, Zenon
  <2> HIDE DEF choice
  <2> QED BY <2>1, <2>2, <2>3, Zenon
<1>2. \A i \in 1 .. 13 : IF Order[i] \in DOMAIN e THEN choice[i] = <<Order[i]>> ELSE choice[i] = <<>>
  BY OrderIsComplete, Zenon
<1> HIDE DEF choice
<1>3. IsList(known)
  BY <1>1, FlatLists
<1>4. ASSUME NEW k \in DOMAIN e \cap Known PROVE \E p \in DOMAIN known : known[p] = k
  <2>1. PICK i \in 1 .. 13 : Order[i] = k
    BY OrderIsComplete
  <2>2. choice[i] = <<k>>
    BY <1>2, <2>1
  <2>3. 1 \in DOMAIN choice[i] /\ choice[i][1] = k
    BY <2>2
  <2>4. \E p \in DOMAIN FlattenSeq(choice) : FlattenSeq(choice)[p] = choice[i][1]
    BY <1>1, <2>3, InBlocks
  <2> QED BY <2>3, <2>4
<1>5. ASSUME NEW p \in DOMAIN known PROVE known[p] \in DOMAIN e
  <2>1. PICK i \in DOMAIN choice : \E j \in DOMAIN choice[i] : FlattenSeq(choice)[p] = choice[i][j]
    BY <1>1, InBlocks
  <2>2. PICK j \in DOMAIN choice[i] : known[p] = choice[i][j]
    BY <2>1
  <2>3. i \in 1 .. 13
    BY <1>1
  <2>4. CASE Order[i] \in DOMAIN e
    <3>1. choice[i] = <<Order[i]>>
      BY <1>2, <2>3, <2>4
    <3> QED BY <2>2, <2>4, <3>1
  <2>5. CASE Order[i] \notin DOMAIN e
    <3>1. choice[i] = <<>>
      BY <1>2, <2>3, <2>5
    <3> QED BY <2>2, <3>1
  <2> QED BY <2>4, <2>5
<1>6. /\ IsList(others)
      /\ \A p \in DOMAIN others : others[p] \in DOMAIN e
      /\ \A k \in DOMAIN e \ Known : \E p \in DOMAIN others : others[p] = k
  <2>1. IsFiniteSet(DOMAIN e \ Known)
    BY FS_Subset
  <2>2. others \in [1 .. Cardinality(DOMAIN e \ Known) -> DOMAIN e \ Known] /\ IsList(others)
    BY <2>1, SetListed
  <2>3. \A k \in DOMAIN e \ Known : \E p \in DOMAIN others : others[p] = k
    BY <2>1, AllListed
  <2> HIDE DEF others
  <2> QED BY <2>2, <2>3
<1> HIDE DEF known, others
<1>7. /\ IsList(keys)
      /\ \A i \in DOMAIN known : \E p \in DOMAIN keys : keys[p] = known[i]
      /\ \A i \in DOMAIN others : \E p \in DOMAIN keys : keys[p] = others[i]
      /\ \A p \in DOMAIN keys : (\E i \in DOMAIN known : keys[p] = known[i])
                                 \/ (\E i \in DOMAIN others : keys[p] = others[i])
  <2>1. IsList(others)
    BY <1>6
  <2>2. Merges(keys, known, others)
    BY <1>3, <2>1, InJoined
  <2> HIDE DEF keys
  <2> QED BY <2>2 DEF Merges
<1> HIDE DEF keys
<1>8. \A p \in DOMAIN keys : keys[p] \in DOMAIN e
  BY <1>5, <1>6, <1>7
<1>9. ASSUME NEW k \in DOMAIN e PROVE \E p \in DOMAIN keys : keys[p] = k
  BY <1>4, <1>6, <1>7
<1>10. DOMAIN pairs = DOMAIN keys /\ \A p \in DOMAIN keys : pairs[p] = PairOf(e, keys[p])
  BY Zenon DEF PairOf
<1>11. Len(keys) \in Nat /\ DOMAIN keys = 1 .. Len(keys) /\ IsList(pairs) /\ Len(pairs) = Len(keys)
  <2>1. Len(keys) \in Nat /\ DOMAIN keys = 1 .. Len(keys)
    BY <1>7, ListLength
  <2>2. DOMAIN pairs = 1 .. Len(keys) /\ pairs = [i \in 1 .. Len(keys) |-> pairs[i]]
    BY <2>1, Zenon
  <2> HIDE DEF pairs
  <2> QED BY <2>1, <2>2, ListMade
<1> HIDE DEF pairs
<1> DEFINE head == <<Blank, Section(Quote(name))>>
           n == Len(keys)
<1>12. IsList(head) /\ Len(head) = 2 /\ head[1] = Blank /\ head[2] = Section(Quote(name))
  BY Pairing
<1>13. lines = head \o pairs
  OBVIOUS
<1> HIDE DEF head, lines
<1>14. /\ IsList(lines) /\ Len(lines) = 2 + n /\ lines[1] = Blank
       /\ lines[2] = Section(Quote(name)) /\ \A i \in 1 .. n : lines[2 + i] = pairs[i]
  <2> DEFINE A == {head[i] : i \in DOMAIN head} \cup {pairs[i] : i \in DOMAIN pairs}
  <2>1. head \in Seq(A) /\ pairs \in Seq(A)
    BY <1>11, <1>12 DEF IsList
  <2> HIDE DEF A
  <2>2. lines \in Seq(A) /\ Len(lines) = Len(head) + Len(pairs)
        /\ (\A i \in 1 .. Len(head) : lines[i] = head[i])
        /\ (\A i \in 1 .. Len(pairs) : lines[Len(head) + i] = pairs[i])
    BY <1>13, <2>1, JoinedAt
  <2>3. IsList(lines)
    BY <2>2, ListOf
  <2> QED BY <1>11, <1>12, <2>2, <2>3
<1>15. n \in Nat /\ DOMAIN keys = 1 .. n /\ DOMAIN pairs = 1 .. n
  BY <1>10, <1>11
<1> HIDE DEF n
<1>16. ASSUME NEW j \in 3 .. Len(lines) PROVE \E k \in DOMAIN e : lines[j] = PairOf(e, k)
  <2>1. j - 2 \in 1 .. n /\ 2 + (j - 2) = j
    BY <1>14, <1>15
  <2>2. lines[j] = pairs[j - 2]
    BY <1>14, <2>1
  <2> QED BY <1>8, <1>10, <1>15, <2>1, <2>2
<1>17. ASSUME NEW k \in DOMAIN e PROVE \E j \in 3 .. Len(lines) : lines[j] = PairOf(e, k)
  <2>1. PICK p \in DOMAIN keys : keys[p] = k
    BY <1>9
  <2>2. p \in 1 .. n /\ 2 + p \in 3 .. Len(lines)
    BY <1>14, <1>15, <2>1
  <2>3. lines[2 + p] = PairOf(e, k)
    BY <1>10, <1>14, <2>1, <2>2
  <2> QED BY <2>2, <2>3
<1>18. lines = EntryLines(name, e)
  BY Zenon DEF EntryLines, lines, pairs, keys, known, others, choice
<1> QED BY <1>14, <1>15, <1>16, <1>17, <1>18 DEF IsSection

\* The lines of a manifest: three of its own, then a section for every entry and
\* nothing else.
Stands(lines, b, block) ==
    /\ 3 <= b /\ b + Len(block) <= Len(lines)
    /\ \A j \in 1 .. Len(block) : lines[b + j] = block[j]
IsManifest(lines, directory, m) ==
    /\ IsList(lines) /\ Len(lines) >= 3
    /\ lines[1] = Pair("version", <<"1">>) /\ lines[2] = Pair("directory_id", Quote(directory))
    /\ lines[3] = Pair("generated_at", Quote(<<"now">>))
    /\ \A n \in DOMAIN m : \E b \in Nat : Stands(lines, b, EntryLines(n, m[n]))
    /\ \A p \in 4 .. Len(lines) : \E n \in DOMAIN m : \E b \in Nat :
          /\ Stands(lines, b, EntryLines(n, m[n]))
          /\ b < p /\ p <= b + Len(EntryLines(n, m[n]))

LEMMA TextWritten ==
    ASSUME NEW directory, NEW m, FiniteMap(m)
    PROVE  IsManifest(ToToml(directory, m), directory, m)
<1> DEFINE names == SetToSeq(DOMAIN m)
           all == [i \in DOMAIN names |-> EntryLines(names[i], m[names[i]])]
           flat == FlattenSeq(all)
           version == Pair("version", <<"1">>)
           id == Pair("directory_id", Quote(directory))
           date == Pair("generated_at", Quote(<<"now">>))
           top == <<version, id, date>>
           lines == top \o flat
           count == Cardinality(DOMAIN m)
           behind(i) == Behind(all, i)
<1>1. names \in [1 .. count -> DOMAIN m] /\ count \in Nat
      /\ \A n \in DOMAIN m : \E i \in DOMAIN names : names[i] = n
  <2>1. IsFiniteSet(DOMAIN m)
    BY DEF FiniteMap
  <2> HIDE DEF names
  <2>2. names \in [1 .. count -> DOMAIN m] /\ count \in Nat
    BY <2>1, SetListed DEF names
  <2>3. \A n \in DOMAIN m : \E i \in DOMAIN names : names[i] = n
    BY <2>1, AllListed DEF names
  <2> QED BY <2>2, <2>3
<1> HIDE DEF names, count
<1>2. DOMAIN names = 1 .. count /\ \A i \in 1 .. count : names[i] \in DOMAIN m
  BY <1>1
<1>3. DOMAIN all = 1 .. count /\ \A i \in 1 .. count : all[i] = EntryLines(names[i], m[names[i]])
  BY <1>2, Zenon
<1>4. IsList(all) /\ Len(all) = count /\ \A i \in DOMAIN all : IsList(all[i])
  <2>1. all = [i \in 1 .. count |-> all[i]]
    BY <1>2, Zenon
  <2>2. ASSUME NEW i \in DOMAIN all PROVE IsList(all[i])
    <3>1. i \in 1 .. count /\ names[i] \in DOMAIN m
      BY <1>2, <1>3
    <3>2. IsFiniteSet(DOMAIN m[names[i]])
      BY <3>1 DEF FiniteMap
    <3>3. all[i] = EntryLines(names[i], m[names[i]])
      BY <1>3, <3>1
    <3>4. IsSection(EntryLines(names[i], m[names[i]]), names[i], m[names[i]])
      BY <3>2, SectionWritten
    <3> QED BY <3>3, <3>4 DEF IsSection
  <2> HIDE DEF all
  <2>3. IsList(all) /\ Len(all) = count
    BY <1>1, <1>3, <2>1, ListMade
  <2> QED BY <2>2, <2>3
<1> HIDE DEF all
<1>5. /\ IsList(flat) /\ behind(0) = 0 /\ behind(count) = Len(flat)
      /\ \A i \in 0 .. count : behind(i) \in Nat
      /\ \A i \in 1 .. count : behind(i) = behind(i - 1) + Len(all[i])
      /\ \A i \in 1 .. count : \A j \in 1 .. Len(all[i]) :
            behind(i - 1) + j \in 1 .. Len(flat) /\ flat[behind(i - 1) + j] = all[i][j]
  <2>1. /\ IsList(FlattenSeq(all)) /\ Behind(all, 0) = 0 /\ Behind(all, Len(all)) = Len(FlattenSeq(all))
        /\ \A i \in 0 .. Len(all) : Behind(all, i) \in Nat
        /\ \A i \in 1 .. Len(all) : Behind(all, i) = Behind(all, i - 1) + Len(all[i])
        /\ \A i \in 1 .. Len(all) : \A j \in 1 .. Len(all[i]) :
              /\ Behind(all, i - 1) + j \in 1 .. Len(FlattenSeq(all))
              /\ FlattenSeq(all)[Behind(all, i - 1) + j] = all[i][j]
    BY <1>4, Blocks
  <2> QED BY <1>4, <2>1, Zenon
<1>6. ASSUME NEW p \in 1 .. Len(flat)
      PROVE  \E i \in 1 .. count : \E j \in 1 .. Len(all[i]) : p = behind(i - 1) + j
  BY <1>4, Covered
<1>7. \A i \in 1 .. count : Len(all[i]) \in Nat /\ Len(all[i]) >= 2
  <2> TAKE i \in 1 .. count
  <2>1. IsFiniteSet(DOMAIN m[names[i]])
    BY <1>2 DEF FiniteMap
  <2>2. IsSection(EntryLines(names[i], m[names[i]]), names[i], m[names[i]])
    BY <2>1, SectionWritten
  <2>3. Len(all[i]) >= 2
    BY <1>3, <2>2 DEF IsSection
  <2> QED BY <1>3, <1>4, <2>3, ListLength
<1>8. IsList(top) /\ Len(top) = 3 /\ top[1] = version /\ top[2] = id /\ top[3] = date
  <2>1. IsList(<<version, id, date>>)
    BY Pairing
  <2> HIDE DEF version, id, date
  <2> QED BY <2>1
<1> HIDE DEF version, id, date, top, behind, flat
<1>9. /\ IsList(lines) /\ Len(lines) = 3 + Len(flat) /\ Len(flat) \in Nat
      /\ lines[1] = version /\ lines[2] = id /\ lines[3] = date
      /\ \A i \in 1 .. Len(flat) : lines[3 + i] = flat[i]
  <2> DEFINE A == {top[i] : i \in DOMAIN top} \cup {flat[i] : i \in DOMAIN flat}
  <2>1. top \in Seq(A) /\ flat \in Seq(A)
    BY <1>5, <1>8 DEF IsList
  <2> HIDE DEF A
  <2>2. lines \in Seq(A) /\ Len(lines) = Len(top) + Len(flat)
        /\ (\A i \in 1 .. Len(top) : lines[i] = top[i])
        /\ (\A i \in 1 .. Len(flat) : lines[Len(top) + i] = flat[i])
    BY <2>1, JoinedAt
  <2>3. IsList(lines)
    BY <2>2, ListOf
  <2>4. Len(flat) \in Nat
    BY <2>1
  <2> HIDE DEF lines
  <2> QED BY <1>8, <2>2, <2>3, <2>4
<1> HIDE DEF lines
<1>10. ASSUME NEW i \in 1 .. count
       PROVE  3 + behind(i - 1) \in Nat /\ Stands(lines, 3 + behind(i - 1), all[i])
  <2> DEFINE low == behind(i - 1)
             size == Len(all[i])
  <2>1. i - 1 \in 0 .. count /\ i \in 0 .. count
    BY <1>1
  <2>2. low \in Nat /\ size \in Nat
    BY <1>5, <1>7, <2>1
  <2>3. \A j \in 1 .. size : low + j \in 1 .. Len(flat) /\ flat[low + j] = all[i][j]
    BY <1>5
  <2>4. low + size <= Len(flat)
    <3>1. size \in 1 .. size
      BY <1>7
    <3>2. low + size \in 1 .. Len(flat)
      BY <2>3, <3>1
    <3> QED BY <3>2
  <2> HIDE DEF low, size
  <2>5. 3 + low \in Nat /\ 3 <= 3 + low /\ (3 + low) + size <= Len(lines)
    BY <1>9, <2>2, <2>4
  <2>6. ASSUME NEW j \in 1 .. size PROVE lines[(3 + low) + j] = all[i][j]
    <3>1. (3 + low) + j = 3 + (low + j)
      BY <2>2
    <3> QED BY <1>9, <2>3, <3>1
  <2> QED BY <2>5, <2>6 DEF Stands, low, size
<1>11. ASSUME NEW n \in DOMAIN m
       PROVE  \E b \in Nat : Stands(lines, b, EntryLines(n, m[n]))
  <2>1. PICK i \in 1 .. count : names[i] = n
    BY <1>1, <1>2
  <2>2. all[i] = EntryLines(n, m[n])
    BY <1>3, <2>1
  <2> QED BY <1>10, <2>2
<1>12. ASSUME NEW p \in 4 .. Len(lines)
       PROVE  \E n \in DOMAIN m : \E b \in Nat :
                 /\ Stands(lines, b, EntryLines(n, m[n]))
                 /\ b < p /\ p <= b + Len(EntryLines(n, m[n]))
  <2>1. p - 3 \in 1 .. Len(flat)
    BY <1>9
  <2>2. PICK i \in 1 .. count : \E j \in 1 .. Len(all[i]) : p - 3 = behind(i - 1) + j
    BY <1>6, <2>1
  <2>3. PICK j \in 1 .. Len(all[i]) : p - 3 = behind(i - 1) + j
    BY <2>2
  <2> DEFINE b == 3 + behind(i - 1)
             n == names[i]
  <2>4. n \in DOMAIN m /\ all[i] = EntryLines(n, m[n])
    BY <1>2, <1>3
  <2>5. b \in Nat /\ Stands(lines, b, EntryLines(n, m[n]))
    BY <1>10, <2>4
  <2>6. b < p /\ p <= b + Len(EntryLines(n, m[n]))
    <3>1. i - 1 \in 0 .. count
      BY <1>1
    <3>2. behind(i - 1) \in Nat /\ Len(all[i]) \in Nat
      BY <1>5, <1>7, <3>1
    <3> DEFINE low == behind(i - 1)
               size == Len(all[i])
    <3>3. low \in Nat /\ size \in Nat /\ p - 3 = low + j /\ j \in 1 .. size /\ p \in Nat
      <4>1. p \in Nat
        BY <1>9
      <4> QED BY <2>3, <3>2, <4>1
    <3> HIDE DEF low, size
    <3>4. 3 + low < p /\ p <= (3 + low) + size
      BY ONLY <3>3
    <3> QED BY <2>4, <3>4 DEF low, size
  <2> HIDE DEF b, n
  <2> QED BY <2>4, <2>5, <2>6
<1>13. lines = ToToml(directory, m)
  BY Zenon DEF ToToml, lines, top, flat, all, names, version, id, date
<1> QED BY <1>9, <1>11, <1>12, <1>13 DEF IsManifest, version, id, date
-----------------------------------------------------------------------------
(* Maps with finitely many keys.                                           *)

LEMMA EmptyMap == DOMAIN None = {} /\ IsFiniteSet(DOMAIN None) /\ FiniteMap(None)
<1>1. DOMAIN None = {}
  BY DEF None
<1> QED BY <1>1, FS_EmptySet DEF FiniteMap

LEMMA OverDomain == \A new, old : DOMAIN Over(new, old) = DOMAIN new \cup DOMAIN old
BY Zenon DEF Over

LEMMA WithDomain ==
    \A map, key, value : DOMAIN With(map, key, value) = DOMAIN map \cup {key}
BY Zenon DEF With, Over

LEMMA WithNew == \A map, key, value : With(map, key, value)[key] = value
BY Zenon DEF With, Over

LEMMA WithOld ==
    \A map, key, value : \A k \in DOMAIN map : k # key => With(map, key, value)[k] = map[k]
BY Zenon DEF With, Over

LEMMA WithFunction ==
    \A map, key, value :
        With(map, key, value)
            = [k \in DOMAIN With(map, key, value) |-> With(map, key, value)[k]]
BY ZenonT(40) DEF With, Over

LEMMA OverFinite ==
    ASSUME NEW new, NEW old, IsFiniteSet(DOMAIN new), IsFiniteSet(DOMAIN old)
    PROVE  IsFiniteSet(DOMAIN Over(new, old))
<1>1. IsFiniteSet(DOMAIN new \cup DOMAIN old)
  BY FS_Union
<1> QED BY <1>1, OverDomain

LEMMA WithFinite ==
    ASSUME NEW map, NEW key, NEW value, IsFiniteSet(DOMAIN map)
    PROVE  IsFiniteSet(DOMAIN With(map, key, value))
<1>1. IsFiniteSet(DOMAIN map \cup {key})
  BY FS_AddElement
<1> QED BY <1>1, WithDomain

LEMMA WithFiniteMap ==
    ASSUME NEW map, NEW key, NEW value, FiniteMap(map), IsFiniteSet(DOMAIN value)
    PROVE  FiniteMap(With(map, key, value))
<1> DEFINE m == With(map, key, value)
<1>1. IsFiniteSet(DOMAIN m)
  BY WithFinite DEF FiniteMap
<1>2. ASSUME NEW n \in DOMAIN m PROVE IsFiniteSet(DOMAIN m[n])
  <2>1. CASE n = key
    <3>1. m[key] = value
      BY WithNew
    <3> HIDE DEF m
    <3> QED BY <2>1, <3>1
  <2>2. CASE n # key
    <3>1. DOMAIN m = DOMAIN map \cup {key} /\ \A k \in DOMAIN map : k # key => m[k] = map[k]
      BY WithDomain, WithOld, ZenonT(40)
    <3> HIDE DEF m
    <3>2. n \in DOMAIN map /\ m[n] = map[n]
      BY <2>2, <3>1
    <3> QED BY <3>2 DEF FiniteMap
  <2> QED BY <2>1, <2>2
<1> QED BY <1>1, <1>2 DEF FiniteMap

LEMMA RestrictFinite ==
    ASSUME NEW map, NEW S, FiniteMap(map), S \subseteq DOMAIN map
    PROVE  FiniteMap(Restrict(map, S))
<1>1. IsFiniteSet(S)
  BY FS_Subset DEF FiniteMap
<1>2. DOMAIN Restrict(map, S) = S /\ \A n \in S : Restrict(map, S)[n] = map[n]
  BY DEF Restrict
<1> QED BY <1>1, <1>2 DEF FiniteMap

\* Observing a file keeps the entries and their fields finite in number.
LEMMA ObserveFinite ==
    ASSUME NEW es, FiniteMap(es), disk \in Disks, NEW name \in DOMAIN disk
    PROVE  FiniteMap(Observe(es, name))
<1> DEFINE match == Match(es, name)
           rest == Restrict(es, DOMAIN es \ match)
           new == Over(disk[name], [id |-> CHOOSE id \in Ulids : TRUE])
           old == es[CHOOSE m \in match : TRUE]
           entry == IF match = {} THEN new ELSE Refreshed(old, disk[name])
<1>1. IsFiniteSet(DOMAIN disk[name])
  BY DisksAssumption
<1>2. FiniteMap(rest)
  BY RestrictFinite
<1>3. IsFiniteSet(DOMAIN new)
  <2> DEFINE given == [id |-> CHOOSE id \in Ulids : TRUE]
  <2>1. DOMAIN given = {"id"}
    OBVIOUS
  <2> HIDE DEF given
  <2>2. IsFiniteSet({"id"})
    BY FS_AddElement, FS_EmptySet
  <2>3. IsFiniteSet(DOMAIN given)
    BY <2>1, <2>2
  <2>4. IsFiniteSet(DOMAIN Over(disk[name], given))
    BY <1>1, <2>3, OverFinite, Zenon
  <2> QED BY <2>4 DEF given
<1>4. ASSUME match # {} PROVE IsFiniteSet(DOMAIN Refreshed(old, disk[name]))
  <2>1. match \subseteq DOMAIN es
    BY DEF Match, Sole
  <2>2. (CHOOSE m \in match : TRUE) \in DOMAIN es
    <3> HIDE DEF match
    <3> QED BY <1>4, <2>1
  <2>3. IsFiniteSet(DOMAIN old)
    <3> HIDE DEF match
    <3> QED BY <2>2 DEF FiniteMap
  <2> HIDE DEF old
  <2> DEFINE kept == Restrict(old, {k \in DOMAIN old : Extension(k) \/ k = "id"})
  <2>4. IsFiniteSet(DOMAIN kept)
    <3>1. IsFiniteSet({k \in DOMAIN old : Extension(k) \/ k = "id"})
      BY <2>3, FS_Subset
    <3> QED BY <3>1 DEF Restrict
  <2>5. IsFiniteSet(DOMAIN Over(disk[name], kept))
    <3> HIDE DEF kept
    <3> QED BY <1>1, <2>4, OverFinite
  <2>6. Refreshed(old, disk[name]) = old \/ Refreshed(old, disk[name]) = Over(disk[name], kept)
    BY Zenon DEF Refreshed
  <2> HIDE DEF kept
  <2> QED BY <2>3, <2>5, <2>6
<1>5. Observe(es, name) = With(rest, name, entry)
  BY Zenon DEF Observe
<1>6. IsFiniteSet(DOMAIN entry)
  <2> HIDE DEF match, new, old
  <2> QED BY <1>3, <1>4, Zenon
<1> HIDE DEF entry, rest
<1> QED BY <1>2, <1>5, <1>6, WithFiniteMap

\* The observations that lead from the entries to Observed.
Stages(after, n) ==
    /\ after[0] = entries /\ Observed = after[n]
    /\ \A i \in 1 .. n : \E name \in DOMAIN disk : after[i] = Observe(after[i - 1], name)

LEMMA ObservedStages ==
    ASSUME disk \in Disks
    PROVE  \E n \in Nat : \E after : Stages(after, n)
<1> DEFINE names == SetToSeq(DOMAIN disk)
           Solves(f, n) ==
               f = [i \in 0 .. n |-> IF i = 0 THEN entries ELSE Observe(f[i - 1], names[i])]
           T == {n \in Nat : \E f : Solves(f, n)}
           after == CHOOSE f : Solves(f, Len(names))
<1>1. IsFiniteSet(DOMAIN disk)
  BY DisksAssumption
<1>2. names \in [1 .. Len(names) -> DOMAIN disk] /\ Len(names) \in Nat
  BY <1>1, SetListed, ListLength
<1> HIDE DEF names
<1>3. 0 \in T
  <2> DEFINE f == [i \in 0 .. 0 |-> entries]
  <2>1. Solves(f, 0)
    <3>1. \A i \in 0 .. 0 : i = 0
      OBVIOUS
    <3> QED BY <3>1
  <2> HIDE DEF f, Solves
  <2> QED BY <2>1
<1>4. ASSUME NEW n \in Nat, n \in T PROVE n + 1 \in T
  <2>1. PICK f : Solves(f, n)
    BY <1>4
  <2> DEFINE g == [i \in 0 .. n + 1 |-> IF i = n + 1 THEN Observe(f[n], names[i]) ELSE f[i]]
             h == [i \in 0 .. n + 1 |-> IF i = 0 THEN entries ELSE Observe(g[i - 1], names[i])]
  <2>2. ASSUME NEW i \in 0 .. n + 1 PROVE g[i] = h[i]
    <3>1. CASE i = n + 1
      <4>1. i # 0 /\ i - 1 = n /\ i - 1 \in 0 .. n + 1 /\ i - 1 # n + 1
        BY <3>1
      <4>2. g[i - 1] = f[n]
        BY <4>1
      <4>3. h[i] = Observe(g[i - 1], names[i])
        BY <4>1
      <4>4. g[i] = Observe(f[n], names[i])
        BY <3>1
      <4> HIDE DEF g, h
      <4> QED BY <4>2, <4>3, <4>4
    <3>2. CASE i # n + 1
      <4>1. i \in 0 .. n
        BY <3>2
      <4>2. f[i] = IF i = 0 THEN entries ELSE Observe(f[i - 1], names[i])
        BY <2>1, <4>1
      <4>3. i # 0 => i - 1 \in 0 .. n + 1 /\ i - 1 # n + 1
        BY <4>1
      <4>4. g[i] = f[i] /\ (i # 0 => g[i - 1] = f[i - 1])
        BY <3>2, <4>1, <4>3
      <4>5. h[i] = IF i = 0 THEN entries ELSE Observe(g[i - 1], names[i])
        OBVIOUS
      <4> HIDE DEF g, h
      <4> QED BY <4>2, <4>4, <4>5
    <3> QED BY <3>1, <3>2
  <2>3. g = h
    <3>1. g = [i \in 0 .. n + 1 |-> g[i]] /\ h = [i \in 0 .. n + 1 |-> h[i]]
      OBVIOUS
    <3> HIDE DEF g, h
    <3> QED BY <2>2, <3>1
  <2>4. Solves(g, n + 1)
    <3> HIDE DEF g
    <3> QED BY <2>3
  <2> HIDE DEF g, h, Solves
  <2> QED BY <2>4
<1>5. Len(names) \in T
  <2> HIDE DEF T
  <2> QED BY <1>2, <1>3, <1>4, Induction
<1>6. Solves(after, Len(names))
  <2> HIDE DEF Solves
  <2> QED BY <1>5
<1>7. Observed = after[Len(names)]
  BY DEF Observed, names
<1> HIDE DEF after, T
<1>8. after[0] = entries
  BY <1>2, <1>6
<1>9. ASSUME NEW i \in 1 .. Len(names)
      PROVE  \E name \in DOMAIN disk : after[i] = Observe(after[i - 1], name)
  <2>1. i # 0 /\ i \in 0 .. Len(names)
    BY <1>2
  <2>2. after[i] = IF i = 0 THEN entries ELSE Observe(after[i - 1], names[i])
    BY <1>6, <2>1
  <2>3. names[i] \in DOMAIN disk
    BY <1>2
  <2> QED BY <2>1, <2>2, <2>3, Zenon
<1> QED BY <1>2, <1>7, <1>8, <1>9 DEF Stages

\* What holds of the entries and is kept by every observation holds in the end.
LEMMA StagesReach ==
    ASSUME NEW n \in Nat, NEW after, Stages(after, n), NEW G, entries \in G,
           \A i \in 1 .. n : after[i - 1] \in G => after[i] \in G
    PROVE  Observed \in G
<1> DEFINE T == {i \in Nat : i <= n => after[i] \in G}
<1>1. 0 \in T
  BY DEF Stages
<1>2. ASSUME NEW i \in Nat, i \in T PROVE i + 1 \in T
  <2> SUFFICES ASSUME i + 1 <= n PROVE after[i + 1] \in G
    OBVIOUS
  <2>1. i + 1 \in 1 .. n /\ (i + 1) - 1 = i /\ i <= n
    OBVIOUS
  <2>2. after[i] \in G
    BY <1>2, <2>1
  <2>3. after[(i + 1) - 1] \in G
    BY <2>1, <2>2
  <2> QED BY <2>1, <2>3
<1>3. n \in T
  <2> HIDE DEF T
  <2> QED BY <1>1, <1>2, Induction
<1> QED BY <1>3 DEF Stages

LEMMA ReconciledFinite ==
    ASSUME FiniteMap(entries), disk \in Disks
    PROVE  FiniteMap(Observed) /\ FiniteMap(Reconciled)
<1>0. PICK n \in Nat : \E after : Stages(after, n)
  BY ObservedStages
<1>1. PICK after : Stages(after, n)
  BY <1>0
<1> DEFINE all == {after[i] : i \in 0 .. n}
           G == {es \in all : FiniteMap(es)}
<1>2. entries \in G
  BY <1>1 DEF Stages
<1>3. ASSUME NEW i \in 1 .. n, after[i - 1] \in G PROVE after[i] \in G
  <2>1. PICK name \in DOMAIN disk : after[i] = Observe(after[i - 1], name)
    BY <1>1 DEF Stages
  <2>2. FiniteMap(after[i - 1])
    BY <1>3
  <2>3. FiniteMap(after[i])
    BY <2>1, <2>2, ObserveFinite
  <2>4. after[i] \in all
    OBVIOUS
  <2> HIDE DEF all
  <2> QED BY <2>3, <2>4
<1>4. Observed \in G
  <2> HIDE DEF G
  <2> QED BY <1>1, <1>2, <1>3, StagesReach
<1>5. FiniteMap(Observed)
  BY <1>4
<1> QED BY <1>5, RestrictFinite DEF Reconciled
-----------------------------------------------------------------------------
(* The invariants.                                                         *)

\* A text is a sequence of lines, read from its first line, and no map has more keys
\* than it was given.
TextInv ==
    /\ IsList(text) /\ disk \in Disks
    /\ pc = "idle" => pos = 1
    /\ IsFiniteSet(DOMAIN fields) /\ FiniteMap(records) /\ FiniteMap(entries)

\* The sections of files among the lines before p.
Before(lines, p) ==
    {h \in DOMAIN lines : lines[h].kind = "section" /\ lines[h].key = "files" /\ h < p}

\* No section begins in lines i..j.
Undivided(lines, i, j) == \A k \in i .. j : lines[k].kind # "section"

\* The pairs of the section at h that stand before p, and what a reader of them knows.
BodyTo(lines, h, p) ==
    {i \in DOMAIN lines : lines[i].kind = "pair" /\ h < i /\ i < p /\ Undivided(lines, h + 1, i)}
LastIn(lines, body, i) == i \in body /\ \A j \in body : lines[j].key = lines[i].key => j <= i
IsBody(lines, h, p, map) ==
    /\ map = [key \in {lines[i].key : i \in BodyTo(lines, h, p)} |-> map[key]]
    /\ \A key \in DOMAIN map : \E i \in BodyTo(lines, h, p) :
          LastIn(lines, BodyTo(lines, h, p), i) /\ lines[i].key = key /\ map[key] = lines[i].value

\* The sections of files that have ended before p.
Closed(lines, p) == {h \in Before(lines, p) : ~Undivided(lines, h + 1, p - 1)}

\* The records are the last ones of their name among these sections.
NameAt(lines, h) == Unquote(lines[h].value)
LastNamed(lines, heads, h) ==
    h \in heads /\ \A g \in heads : NameAt(lines, g) = NameAt(lines, h) => g <= h
AreRecords(lines, heads, p, rs) ==
    /\ DOMAIN rs = {NameAt(lines, h) : h \in heads}
    /\ \A n \in DOMAIN rs :
          \E h \in heads : /\ LastNamed(lines, heads, h) /\ NameAt(lines, h) = n
                           /\ IsBody(lines, h, p, rs[n])

\* While lines are read: the fields are those of the section of a file that is open,
\* and the records those of the sections that have ended.
IsOpen(lines, h, p) == h \in Before(lines, p) /\ Undivided(lines, h + 1, p - 1)
SectionInv ==
    pc = "lines" =>
        /\ IF section.files
             THEN \E h \in Before(text, pos) : /\ text[h].value = section.name
                                               /\ IsOpen(text, h, pos)
                                               /\ IsBody(text, h, pos, fields)
             ELSE Before(text, pos) \subseteq Closed(text, pos)
        /\ AreRecords(text, Closed(text, pos), pos, records)

\* Afterwards all sections have ended, and the manifest has the records looked at.
RecordsInv ==
    pc \in {"records", "loaded"} =>
        /\ AreRecords(text, Before(text, Len(text) + 1), Len(text) + 1, records)
        /\ entries = [n \in DOMAIN entries |-> EntryOf(records[n])]
        /\ DOMAIN entries \subseteq DOMAIN records
        /\ pc = "loaded" => DOMAIN entries = DOMAIN records

\* Nothing has been made an entry before all lines are read.
NoEntriesInv == pc = "lines" => entries = None
-----------------------------------------------------------------------------
(* Type correctness.                                                       *)

TypeInv == TextInv /\ TypeOK

LEMMA TypeInit == Init => TypeInv
<1> SUFFICES ASSUME Init PROVE TypeInv
  OBVIOUS
<1> USE DEF Init
<1>1. IsList(text) /\ Len(text) = 0
  <2>1. <<>> \in Seq({}) /\ Len(<<>>) = 0
    OBVIOUS
  <2> QED BY <2>1, ListOf
<1>2. TextInv
  BY <1>1, EmptyMap DEF TextInv
<1>3. \A n \in DOMAIN entries : IsEntry(entries[n])
  BY EmptyMap
<1>4. edits \in 0 .. MaxEdits
  BY EditsAssumption
<1> QED BY <1>1, <1>2, <1>3, <1>4 DEF TypeInv, TypeOK

\* A complete record becomes an entry.
LEMMA EntryMade ==
    ASSUME NEW name, NEW values, Complete(name, values), IsFiniteSet(DOMAIN values)
    PROVE  IsEntry(EntryOf(values)) /\ IsFiniteSet(DOMAIN EntryOf(values))
<1> DEFINE keys == {k \in DOMAIN values : k \in Numbers => IsNumber(values[k])}
           e == EntryOf(values)
<1>1. DOMAIN e = keys
  BY Zenon DEF EntryOf
<1>2. Required \subseteq keys
  <2>1. Required \subseteq DOMAIN values /\ IsNumber(values.size) /\ IsNumber(values.modified_ns)
    BY DEF Complete
  <2>2. \A k \in Required : k \in Numbers => k = "size" \/ k = "modified_ns"
    BY DEF Required, Numbers, OptionalNumbers
  <2>3. \A k \in Required : k \in Numbers => IsNumber(values[k])
    BY <2>1, <2>2
  <2> QED BY <2>1, <2>3
<1>3. ASSUME NEW k \in keys \cap Numbers PROVE e[k] \in Int
  <2>1. e[k] = Number(values[k]) /\ IsNumber(values[k])
    BY Zenon DEF EntryOf
  <2>2. Number(values[k]) \in 0 .. 9
    <3>1. \E n \in 0 .. 9 : Unquote(values[k]) = Written(n)
      BY <2>1 DEF IsNumber
    <3> QED BY <3>1, Zenon DEF Number
  <2> QED BY <2>1, <2>2
<1>4. IsFiniteSet(keys)
  BY FS_Subset
<1> HIDE DEF keys, e
<1>5. IsEntry(e)
  BY <1>1, <1>2, <1>3 DEF IsEntry
<1> QED BY <1>1, <1>4, <1>5 DEF e

LEMMA TypeChange ==
    ASSUME TypeInv, NEW lines, IsList(lines), Change(lines)
    PROVE  TypeInv'
<1> USE DEF Change
<1>1. TextInv'
  <2>1. (IsList(text))'
    BY DEF IsList
  <2> QED BY <2>1 DEF TypeInv, TextInv, FiniteMap
<1>2. pos' \in 1 .. Len(text') + 1
  <2>1. Len(lines) \in Nat
    BY ListLength
  <2> QED BY <2>1 DEF TypeInv, TextInv
<1>3. edits' \in 0 .. MaxEdits
  BY EditsAssumption DEF TypeInv, TypeOK
<1> QED BY <1>1, <1>2, <1>3 DEF TypeInv, TypeOK, IsEntry

LEMMA TypeUsers == ASSUME TypeInv, Insert \/ Repeat \/ Delete PROVE TypeInv'
<1>1. IsList(text)
  BY DEF TypeInv, TextInv
<1>2. CASE Insert
  <2>1. PICK k \in DOMAIN text, line \in UserLines : Change(InsertAt(text, k, line))
    BY <1>2 DEF Insert
  <2>2. IsList(InsertAt(text, k, line))
    BY <1>1, Inserted
  <2> QED BY <2>1, <2>2, TypeChange
<1>3. CASE Repeat
  <2>1. PICK k \in DOMAIN text : Change(Append(text, text[k]))
    BY <1>3 DEF Repeat
  <2>2. IsList(Append(text, text[k]))
    BY <1>1, Appended
  <2> QED BY <2>1, <2>2, TypeChange
<1>4. CASE Delete
  <2>1. PICK k \in DOMAIN text : Change(RemoveAt(text, k))
    BY <1>4 DEF Delete
  <2>2. IsList(RemoveAt(text, k))
    BY <1>1, Removed
  <2> QED BY <2>1, <2>2, TypeChange
<1> QED BY <1>2, <1>3, <1>4

LEMMA TypeLoad == ASSUME TypeInv, Load PROVE TypeInv'
<1> USE DEF Load
<1>1. IsList(text) /\ disk \in Disks /\ Len(text) \in Nat
  BY ListLength DEF TypeInv, TextInv
<1>2. TextInv'
  BY <1>1, EmptyMap DEF TextInv, IsList, FiniteMap
<1>3. \A n \in DOMAIN entries' : IsEntry(entries'[n])
  BY EmptyMap
<1> QED BY <1>1, <1>2, <1>3 DEF TypeInv, TypeOK, IsEntry

LEMMA FlushFinite ==
    ASSUME TypeInv, Flush
    PROVE  IsFiniteSet(DOMAIN fields') /\ (FiniteMap(records))'
<1>1. IsFiniteSet(DOMAIN fields) /\ FiniteMap(records)
  BY DEF TypeInv, TextInv
<1>2. IsFiniteSet(DOMAIN fields')
  BY EmptyMap DEF Flush
<1>3. FiniteMap(With(records, Unquote(section.name), fields))
  BY <1>1, WithFiniteMap
<1>4. FiniteMap(records')
  <2>1. records' = With(records, Unquote(section.name), fields) \/ records' = records
    BY Zenon DEF Flush
  <2> QED BY <1>1, <1>3, <2>1, Zenon
<1> QED BY <1>2, <1>4 DEF FiniteMap

LEMMA TypeLines ==
    ASSUME TypeInv, SkipLine \/ SectionLine \/ PairLine \/ EndOfText
    PROVE  TypeInv'
<1>1. /\ IsList(text) /\ disk \in Disks /\ Len(text) \in Nat /\ IsFiniteSet(DOMAIN fields)
      /\ FiniteMap(records) /\ FiniteMap(entries) /\ pos \in 1 .. Len(text) + 1
  BY ListLength DEF TypeInv, TextInv, TypeOK
<1>2. ASSUME AtLine, UNCHANGED <<pc, disk, text, edits, entries>>, pos' = pos + 1,
             IsFiniteSet(DOMAIN fields'), (FiniteMap(records))'
      PROVE  TypeInv'
  <2>1. TextInv'
    BY <1>1, <1>2 DEF TextInv, AtLine, IsList, FiniteMap
  <2>2. pos' \in 1 .. Len(text') + 1
    BY <1>1, <1>2 DEF AtLine
  <2> QED BY <1>2, <2>1, <2>2 DEF TypeInv, TypeOK, IsEntry
<1>3. CASE SkipLine
  BY <1>1, <1>2, <1>3 DEF SkipLine, FiniteMap
<1>4. CASE SectionLine
  BY <1>2, <1>4, FlushFinite DEF SectionLine
<1>5. CASE PairLine
  <2>1. (FiniteMap(records))'
    BY <1>1, <1>5 DEF PairLine, FiniteMap
  <2>2. fields' = With(fields, Line.key, Line.value) \/ fields' = fields
    BY <1>5 DEF PairLine
  <2>3. IsFiniteSet(DOMAIN With(fields, Line.key, Line.value))
    BY <1>1, WithFinite
  <2>4. IsFiniteSet(DOMAIN fields')
    BY <1>1, <2>2, <2>3
  <2> QED BY <1>2, <1>5, <2>1, <2>4 DEF PairLine
<1>6. CASE EndOfText
  <2>1. pc' \in {"records", "refused"}
    BY <1>6 DEF EndOfText
  <2>2. TextInv'
    BY <1>1, <1>6, <2>1, FlushFinite DEF EndOfText, TextInv, IsList, FiniteMap
  <2> QED BY <1>6, <2>1, <2>2 DEF EndOfText, TypeInv, TypeOK, IsEntry
<1> QED BY <1>3, <1>4, <1>5, <1>6

LEMMA TypeRecords == ASSUME TypeInv, AddRecord \/ EndOfRecords PROVE TypeInv'
<1>1. /\ FiniteMap(entries) /\ FiniteMap(records) /\ (\A n \in DOMAIN entries : IsEntry(entries[n]))
  BY DEF TypeInv, TextInv, TypeOK
<1>2. ASSUME UNCHANGED <<disk, text, edits, pos, fields, records>>, pc' \in {"records", "loaded", "refused"},
             (FiniteMap(entries))', \A n \in DOMAIN entries' : IsEntry(entries'[n])
      PROVE  TypeInv'
  <2>1. TextInv'
    BY <1>2 DEF TypeInv, TextInv, IsList, FiniteMap
  <2> QED BY <1>2, <2>1 DEF TypeInv, TypeOK, IsEntry
<1>3. CASE AddRecord
  <2>1. PICK n \in DOMAIN records :
           \/ Complete(n, records[n]) /\ entries' = With(entries, n, EntryOf(records[n])) /\ UNCHANGED pc
           \/ pc' = "refused" /\ entries' = None
    BY <1>3 DEF AddRecord
  <2>2. CASE Complete(n, records[n]) /\ entries' = With(entries, n, EntryOf(records[n])) /\ UNCHANGED pc
    <3>1. IsFiniteSet(DOMAIN records[n])
      BY <1>1 DEF FiniteMap
    <3>2. IsEntry(EntryOf(records[n])) /\ IsFiniteSet(DOMAIN EntryOf(records[n]))
      BY <2>2, <3>1, EntryMade
    <3>3. FiniteMap(entries')
      BY <1>1, <2>2, <3>2, WithFiniteMap
    <3>4. \A m \in DOMAIN entries' : IsEntry(entries'[m])
      <4> DEFINE new == EntryOf(records[n])
      <4>1. IsEntry(new) /\ entries' = With(entries, n, new)
        BY <2>2, <3>2
      <4> HIDE DEF new
      <4>2. DOMAIN entries' = DOMAIN entries \cup {n} /\ entries'[n] = new
        <5>1. With(entries, n, new)[n] = new
          BY WithNew
        <5>2. DOMAIN With(entries, n, new) = DOMAIN entries \cup {n}
          BY WithDomain
        <5> QED BY <4>1, <5>1, <5>2, Zenon
      <4>3. \A m \in DOMAIN entries : m # n => entries'[m] = entries[m]
        BY <4>1, WithOld
      <4> QED BY <1>1, <4>1, <4>2, <4>3
    <3>5. UNCHANGED <<disk, text, edits, pos, fields, records>> /\ pc' = "records"
      BY <1>3, <2>2 DEF AddRecord
    <3> QED BY <1>2, <3>3, <3>4, <3>5 DEF FiniteMap
  <2>3. CASE pc' = "refused" /\ entries' = None
    <3>1. UNCHANGED <<disk, text, edits, pos, fields, records>>
      BY <1>3 DEF AddRecord
    <3>2. FiniteMap(entries') /\ \A m \in DOMAIN entries' : IsEntry(entries'[m])
      BY <2>3, EmptyMap
    <3> QED BY <1>2, <2>3, <3>1, <3>2 DEF FiniteMap
  <2> QED BY <2>1, <2>2, <2>3
<1>4. CASE EndOfRecords
  BY <1>1, <1>2, <1>4 DEF EndOfRecords, FiniteMap, IsEntry
<1> QED BY <1>3, <1>4

LEMMA TypeSave ==
    ASSUME TypeInv, NEW directory, Save(directory)
    PROVE  TypeInv'
<1> USE DEF Save
<1>1. FiniteMap(Reconciled)
  BY ReconciledFinite DEF TypeInv, TextInv
<1>2. IsList(ToToml(directory, Reconciled))
  BY <1>1, TextWritten DEF IsManifest
<1>3. text' = ToToml(directory, Reconciled)
  BY Zenon
<1>4. IsList(text') /\ Len(text') \in Nat
  BY <1>2, <1>3, ListLength
<1>5. TextInv'
  BY <1>4, EmptyMap DEF TypeInv, TextInv, IsList, FiniteMap
<1>6. \A n \in DOMAIN entries' : IsEntry(entries'[n])
  BY EmptyMap
<1> QED BY <1>4, <1>5, <1>6 DEF TypeInv, TypeOK, IsEntry

LEMMA TypeRefuse == ASSUME TypeInv, Refuse PROVE TypeInv'
<1> USE DEF Refuse
<1>1. IsList(text) /\ Len(text) \in Nat
  BY ListLength DEF TypeInv, TextInv
<1>2. TextInv'
  BY EmptyMap DEF TypeInv, TextInv, IsList, FiniteMap
<1> QED BY <1>1, <1>2 DEF TypeInv, TypeOK, IsEntry

LEMMA TypeStep == TypeInv /\ [Next]_vars => TypeInv'
<1> SUFFICES ASSUME TypeInv, [Next]_vars PROVE TypeInv'
  OBVIOUS
<1>1. CASE UNCHANGED vars
  BY <1>1 DEF vars, TypeInv, TextInv, TypeOK, IsList, FiniteMap, IsEntry
<1>2. CASE Insert \/ Repeat \/ Delete
  BY <1>2, TypeUsers
<1>3. CASE Load
  BY <1>3, TypeLoad
<1>4. CASE Parse
  BY <1>4, TypeLines, TypeRecords DEF Parse
<1>5. CASE SaveNew \/ SaveAgain
  BY <1>5, TypeSave DEF SaveNew, SaveAgain
<1>6. CASE Refuse
  BY <1>6, TypeRefuse
<1> QED BY <1>1, <1>2, <1>3, <1>4, <1>5, <1>6 DEF Next

\* Whatever users write into a `.crumb' file and however long it is, the parser never
\* reads beyond its last line, and an entry it has made is complete, its numbers being
\* numbers (parse_manifest of TomlManifestMapper).
THEOREM ManifestTypeCorrect == Spec => []TypeOK
<1>1. TypeInv => TypeOK
  BY DEF TypeInv
<1> QED BY <1>1, TypeInit, TypeStep, PTL DEF Spec
-----------------------------------------------------------------------------
(* The last section of each file.                                          *)

LEMMA BodySkip ==
    ASSUME NEW lines, IsList(lines), NEW p \in 1 .. Len(lines), NEW h \in DOMAIN lines,
           lines[p].kind # "pair" \/ ~Undivided(lines, h + 1, p - 1)
    PROVE  BodyTo(lines, h, p + 1) = BodyTo(lines, h, p)
<1>1. Len(lines) \in Nat /\ DOMAIN lines = 1 .. Len(lines)
  BY ListLength
<1>2. BodyTo(lines, h, p) \subseteq BodyTo(lines, h, p + 1)
  BY <1>1 DEF BodyTo
<1>3. ASSUME NEW i \in BodyTo(lines, h, p + 1) PROVE i < p
  <2>1. i \in 1 .. Len(lines) /\ i < p + 1 /\ lines[i].kind = "pair" /\ Undivided(lines, h + 1, i)
    BY <1>1, <1>3 DEF BodyTo
  <2>2. i # p
    <3> SUFFICES ASSUME i = p PROVE FALSE
      OBVIOUS
    <3>1. Undivided(lines, h + 1, p - 1)
      BY <1>1, <2>1 DEF Undivided
    <3> QED BY <2>1, <3>1
  <2> QED BY <2>1, <2>2
<1>4. BodyTo(lines, h, p + 1) \subseteq BodyTo(lines, h, p)
  BY <1>3 DEF BodyTo
<1> QED BY <1>2, <1>4

LEMMA BodyKept ==
    ASSUME NEW lines, IsList(lines), NEW p \in 1 .. Len(lines), NEW h \in DOMAIN lines, NEW map,
           lines[p].kind # "pair" \/ ~Undivided(lines, h + 1, p - 1), IsBody(lines, h, p, map)
    PROVE  IsBody(lines, h, p + 1, map)
<1>1. BodyTo(lines, h, p + 1) = BodyTo(lines, h, p)
  BY BodySkip
<1> QED BY <1>1, ZenonT(40) DEF IsBody

\* One more pair of the open section.
LEMMA BodyNext ==
    ASSUME NEW lines, IsList(lines), NEW p \in 1 .. Len(lines), NEW h, NEW map,
           lines[p].kind = "pair", IsOpen(lines, h, p), IsBody(lines, h, p, map)
    PROVE  IsBody(lines, h, p + 1, With(map, lines[p].key, lines[p].value))
<1> DEFINE old == BodyTo(lines, h, p)
           new == BodyTo(lines, h, p + 1)
           m == With(map, lines[p].key, lines[p].value)
<1>1. Len(lines) \in Nat /\ DOMAIN lines = 1 .. Len(lines) /\ h \in 1 .. Len(lines) /\ h < p
  BY ListLength DEF IsOpen, Before
<1>2. new = old \cup {p}
  <2>1. Undivided(lines, h + 1, p)
    BY <1>1 DEF IsOpen, Undivided
  <2>2. p \in new
    BY <1>1, <2>1 DEF BodyTo
  <2>3. old \subseteq new
    BY <1>1 DEF BodyTo
  <2>4. ASSUME NEW i \in new, i # p PROVE i \in old
    BY <1>1, <2>4 DEF BodyTo
  <2> HIDE DEF old, new
  <2> QED BY <2>2, <2>3, <2>4
<1>3. \A i \in old : i \in Nat /\ i < p
  BY <1>1 DEF BodyTo
<1>4. DOMAIN map = {lines[i].key : i \in old}
      /\ \A key \in DOMAIN map : \E i \in old :
            LastIn(lines, old, i) /\ lines[i].key = key /\ map[key] = lines[i].value
  BY DEF IsBody
<1> HIDE DEF old, new
<1>5. DOMAIN m = DOMAIN map \cup {lines[p].key}
  BY WithDomain
<1>6. m[lines[p].key] = lines[p].value
  BY WithNew
<1>7. \A key \in DOMAIN map : key # lines[p].key => m[key] = map[key]
  BY WithOld
<1>8. m = [key \in DOMAIN m |-> m[key]]
  BY WithFunction
<1> HIDE DEF m
<1>9. DOMAIN m = {lines[i].key : i \in new}
  BY <1>2, <1>4, <1>5
<1>10. ASSUME NEW key \in DOMAIN m
       PROVE  \E i \in new : LastIn(lines, new, i) /\ lines[i].key = key /\ m[key] = lines[i].value
  <2>1. CASE key = lines[p].key
    <3>1. LastIn(lines, new, p)
      BY <1>2, <1>3 DEF LastIn
    <3> QED BY <1>2, <1>6, <2>1, <3>1
  <2>2. CASE key # lines[p].key
    <3>1. key \in DOMAIN map
      BY <1>5, <2>2
    <3>2. PICK i \in old : LastIn(lines, old, i) /\ lines[i].key = key /\ map[key] = lines[i].value
      BY <1>4, <3>1
    <3>3. LastIn(lines, new, i)
      BY <1>2, <2>2, <3>2 DEF LastIn
    <3>4. m[key] = lines[i].value
      BY <1>7, <2>2, <3>1, <3>2
    <3> QED BY <1>2, <3>2, <3>3, <3>4
  <2> QED BY <2>1, <2>2
<1>11. m = [key \in {lines[i].key : i \in new} |-> m[key]]
  BY <1>8, <1>9
<1> QED BY <1>10, <1>11 DEF IsBody, m, new

LEMMA ClosedNext ==
    ASSUME NEW lines, IsList(lines), NEW p \in 1 .. Len(lines)
    PROVE  /\ lines[p].kind = "section" => Closed(lines, p + 1) = Before(lines, p)
           /\ lines[p].kind # "section" => /\ Closed(lines, p + 1) = Closed(lines, p)
                                           /\ Before(lines, p + 1) = Before(lines, p)
<1>1. Len(lines) \in Nat /\ DOMAIN lines = 1 .. Len(lines) /\ (p + 1) - 1 = p
  BY ListLength
<1>2. \A h \in Before(lines, p + 1) : h \in 1 .. Len(lines) /\ (h = p \/ h \in Before(lines, p))
  BY <1>1 DEF Before
<1>3. Before(lines, p) \subseteq Before(lines, p + 1)
  BY <1>1 DEF Before
<1>4. p \notin Closed(lines, p + 1)
  BY <1>1 DEF Closed, Undivided
<1>5. ASSUME lines[p].kind = "section" PROVE Closed(lines, p + 1) = Before(lines, p)
  <2>1. ASSUME NEW h \in Before(lines, p) PROVE h \in Closed(lines, p + 1)
    <3>1. h \in 1 .. Len(lines) /\ h < p
      BY <1>1 DEF Before
    <3>2. ~Undivided(lines, h + 1, p)
      BY <1>1, <1>5, <3>1 DEF Undivided
    <3> QED BY <1>1, <1>3, <3>2 DEF Closed
  <2>2. ASSUME NEW h \in Closed(lines, p + 1) PROVE h \in Before(lines, p)
    <3>1. h \in Before(lines, p + 1) /\ h # p
      BY <1>4 DEF Closed
    <3> QED BY <1>2, <3>1
  <2> QED BY <2>1, <2>2
<1>6. ASSUME lines[p].kind # "section"
      PROVE  Closed(lines, p + 1) = Closed(lines, p) /\ Before(lines, p + 1) = Before(lines, p)
  <2>1. Before(lines, p + 1) = Before(lines, p)
    <3>1. p \notin Before(lines, p + 1)
      BY <1>6 DEF Before
    <3> QED BY <1>2, <1>3, <3>1
  <2>2. ASSUME NEW h \in Before(lines, p)
        PROVE  Undivided(lines, h + 1, p) <=> Undivided(lines, h + 1, p - 1)
    <3>1. h \in 1 .. Len(lines) /\ h < p
      BY <1>1 DEF Before
    <3>2. \A k \in h + 1 .. p : k = p \/ k \in h + 1 .. p - 1
      BY <1>1, <3>1
    <3>3. \A k \in h + 1 .. p - 1 : k \in h + 1 .. p
      BY <1>1, <3>1
    <3> QED BY <1>6, <3>2, <3>3 DEF Undivided
  <2> QED BY <1>1, <2>1, <2>2 DEF Closed
<1> QED BY <1>5, <1>6

LEMMA RecordsKept ==
    ASSUME NEW lines, IsList(lines), NEW p \in 1 .. Len(lines), NEW heads, NEW rs,
           heads \subseteq DOMAIN lines, AreRecords(lines, heads, p, rs),
           \A h \in heads : lines[p].kind # "pair" \/ ~Undivided(lines, h + 1, p - 1)
    PROVE  AreRecords(lines, heads, p + 1, rs)
<1>1. ASSUME NEW n \in DOMAIN rs
      PROVE  \E h \in heads : /\ LastNamed(lines, heads, h) /\ NameAt(lines, h) = n
                              /\ IsBody(lines, h, p + 1, rs[n])
  <2>1. PICK h \in heads : /\ LastNamed(lines, heads, h) /\ NameAt(lines, h) = n
                           /\ IsBody(lines, h, p, rs[n])
    BY DEF AreRecords
  <2>2. IsBody(lines, h, p + 1, rs[n])
    BY <2>1, BodyKept
  <2> QED BY <2>1, <2>2
<1> QED BY <1>1 DEF AreRecords

LEMMA NoBody ==
    ASSUME NEW lines, IsList(lines), NEW h \in DOMAIN lines
    PROVE  IsBody(lines, h, h + 1, None)
<1>1. Len(lines) \in Nat /\ DOMAIN lines = 1 .. Len(lines)
  BY ListLength
<1>2. BodyTo(lines, h, h + 1) = {}
  BY <1>1 DEF BodyTo
<1>3. DOMAIN None = {}
  BY EmptyMap
<1>4. None = [key \in {} |-> None[key]]
  BY DEF None
<1>5. {lines[i].key : i \in BodyTo(lines, h, h + 1)} = {}
  BY <1>2
<1>6. None = [key \in {lines[i].key : i \in BodyTo(lines, h, h + 1)} |-> None[key]]
  BY <1>4, <1>5
<1> QED BY <1>3, <1>6 DEF IsBody

\* What the flush at a section line or at the end of the text does: the record of the
\* open section replaces that of any earlier section of its name.
LEMMA Flushed ==
    ASSUME NEW lines, IsList(lines), NEW p \in Nat, NEW rs, NEW h, NEW map,
           IsOpen(lines, h, p), IsBody(lines, h, p, map),
           AreRecords(lines, Closed(lines, p), p, rs)
    PROVE  AreRecords(lines, Before(lines, p), p, With(rs, NameAt(lines, h), map))
<1> DEFINE heads == Closed(lines, p)
           all == Before(lines, p)
           name == NameAt(lines, h)
           new == With(rs, name, map)
<1>1. Len(lines) \in Nat /\ DOMAIN lines = 1 .. Len(lines)
  BY ListLength
<1>2. all \subseteq 1 .. Len(lines) /\ h \in all /\ heads \subseteq all
  BY <1>1 DEF Before, IsOpen, Closed
<1>3. ASSUME NEW g \in all, g # h PROVE g \in heads /\ g < h
  <2>1. g \in 1 .. Len(lines) /\ g < p /\ lines[g].kind = "section"
    BY <1>1 DEF Before
  <2>2. h \in 1 .. Len(lines) /\ h < p /\ lines[h].kind = "section"
    BY <1>1 DEF IsOpen, Before
  <2>3. ~(h < g)
    BY <2>1, <2>2 DEF IsOpen, Undivided
  <2>4. g < h
    BY <1>3, <2>1, <2>2, <2>3
  <2>5. ~Undivided(lines, g + 1, p - 1)
    <3>1. h \in g + 1 .. p - 1
      BY <2>1, <2>2, <2>4
    <3> QED BY <2>2, <3>1 DEF Undivided
  <2> QED BY <2>4, <2>5 DEF Closed
<1>4. all = heads \cup {h}
  BY <1>2, <1>3
<1>5. DOMAIN rs = {NameAt(lines, g) : g \in heads}
      /\ \A n \in DOMAIN rs : \E g \in heads :
            LastNamed(lines, heads, g) /\ NameAt(lines, g) = n /\ IsBody(lines, g, p, rs[n])
  BY DEF AreRecords
<1> HIDE DEF heads, all
<1>6. DOMAIN new = DOMAIN rs \cup {name}
  BY WithDomain
<1>7. new[name] = map
  BY WithNew
<1>8. \A n \in DOMAIN rs : n # name => new[n] = rs[n]
  BY WithOld
<1> HIDE DEF new
<1>9. DOMAIN new = {NameAt(lines, g) : g \in all}
  BY <1>4, <1>5, <1>6
<1>10. LastNamed(lines, all, h)
  BY <1>2, <1>3 DEF LastNamed
<1>11. ASSUME NEW n \in DOMAIN new
       PROVE  \E g \in all : /\ LastNamed(lines, all, g) /\ NameAt(lines, g) = n
                             /\ IsBody(lines, g, p, new[n])
  <2>1. CASE n = name
    BY <1>2, <1>7, <1>10, <2>1
  <2>2. CASE n # name
    <3>1. n \in DOMAIN rs /\ new[n] = rs[n]
      BY <1>6, <1>8, <2>2
    <3>2. PICK g \in heads : LastNamed(lines, heads, g) /\ NameAt(lines, g) = n /\ IsBody(lines, g, p, rs[n])
      BY <1>5, <3>1
    <3>3. LastNamed(lines, all, g)
      BY <1>4, <2>2, <3>2 DEF LastNamed
    <3>4. g \in all /\ IsBody(lines, g, p, new[n])
      BY <1>4, <3>1, <3>2
    <3> QED BY <3>2, <3>3, <3>4
  <2> QED BY <2>1, <2>2
<1>12. AreRecords(lines, all, p, new)
  <2> HIDE DEF name
  <2> QED BY <1>9, <1>11 DEF AreRecords
<1> QED BY <1>12 DEF all, new, name

LEMMA FlushStep ==
    ASSUME TypeInv, SectionInv, pc = "lines", Flush
    PROVE  AreRecords(text, Before(text, pos), pos, records')
<1>1. IsList(text) /\ pos \in Nat /\ Len(text) \in Nat
  BY ListLength DEF TypeInv, TextInv, TypeOK
<1>2. AreRecords(text, Closed(text, pos), pos, records)
  BY DEF SectionInv
<1>3. CASE section.files
  <2>1. PICK h \in Before(text, pos) : /\ text[h].value = section.name
                                       /\ IsOpen(text, h, pos) /\ IsBody(text, h, pos, fields)
    BY <1>3 DEF SectionInv
  <2>2. AreRecords(text, Before(text, pos), pos, With(records, NameAt(text, h), fields))
    BY <1>1, <1>2, <2>1, Flushed
  <2>3. records' = With(records, NameAt(text, h), fields)
    <3>1. NameAt(text, h) = Unquote(section.name)
      BY <2>1 DEF NameAt
    <3> QED BY <1>3, <3>1 DEF Flush
  <2> QED BY <2>2, <2>3
<1>4. CASE ~section.files
  <2>1. Before(text, pos) = Closed(text, pos)
    BY <1>4 DEF SectionInv, Closed
  <2>2. records' = records
    BY <1>4 DEF Flush
  <2> QED BY <1>2, <2>1, <2>2
<1> QED BY <1>3, <1>4

ReadInv == SectionInv /\ RecordsInv /\ NoEntriesInv

LEMMA ReadInit == Init => ReadInv
BY DEF Init, ReadInv, SectionInv, RecordsInv, NoEntriesInv

\* Where no manifest is being read, there is nothing to say.
LEMMA NotReading ==
    ASSUME pc' \in {"idle", "refused"}
    PROVE  ReadInv'
BY DEF ReadInv, SectionInv, RecordsInv, NoEntriesInv

LEMMA ReadLoad == ASSUME TypeInv, Load PROVE ReadInv'
<1> USE DEF Load
<1>1. IsList(text) /\ Len(text) \in Nat /\ DOMAIN text = 1 .. Len(text)
  BY ListLength DEF TypeInv, TextInv
<1>2. Before(text, 1) = {}
  BY <1>1 DEF Before
<1>3. Closed(text, 1) = {}
  BY <1>2 DEF Closed
<1>4. AreRecords(text, {}, 1, None)
  <2>1. {NameAt(text, h) : h \in {}} = {}
    OBVIOUS
  <2> QED BY <2>1, EmptyMap DEF AreRecords
<1>5. ~section'.files /\ pos' = 1 /\ text' = text /\ records' = None /\ pc' = "lines"
  BY DEF Top
<1>6. SectionInv'
  <2>1. Before(text', pos') = {} /\ Closed(text', pos') = {}
    BY <1>2, <1>3, <1>5
  <2>2. AreRecords(text', Closed(text', pos'), pos', records')
    BY <1>4, <1>5, <2>1
  <2> QED BY <1>5, <2>1, <2>2 DEF SectionInv
<1>7. RecordsInv'
  BY <1>5 DEF RecordsInv
<1> QED BY <1>6, <1>7 DEF ReadInv, NoEntriesInv

LEMMA ReadSkip == ASSUME TypeInv, ReadInv, SkipLine PROVE ReadInv'
<1> USE DEF SkipLine, AtLine, Line
<1>1. IsList(text) /\ Len(text) \in Nat /\ DOMAIN text = 1 .. Len(text) /\ pos \in 1 .. Len(text)
  BY ListLength DEF TypeInv, TextInv, TypeOK
<1>2. text[pos].kind # "section" /\ text[pos].kind # "pair"
  OBVIOUS
<1>3. Closed(text, pos + 1) = Closed(text, pos) /\ Before(text, pos + 1) = Before(text, pos)
  BY <1>1, <1>2, ClosedNext
<1>4. AreRecords(text, Closed(text, pos + 1), pos + 1, records)
  <2>1. AreRecords(text, Closed(text, pos), pos, records) /\ Closed(text, pos) \subseteq DOMAIN text
    BY DEF ReadInv, SectionInv, Closed, Before
  <2> QED BY <1>1, <1>2, <1>3, <2>1, RecordsKept
<1>5. ASSUME section.files
      PROVE  \E h \in Before(text, pos + 1) : /\ text[h].value = section.name
                                              /\ IsOpen(text, h, pos + 1)
                                              /\ IsBody(text, h, pos + 1, fields)
  <2>1. PICK h \in Before(text, pos) : /\ text[h].value = section.name
                                       /\ IsOpen(text, h, pos) /\ IsBody(text, h, pos, fields)
    BY <1>5 DEF ReadInv, SectionInv
  <2>2. h \in DOMAIN text
    BY DEF Before
  <2>3. IsBody(text, h, pos + 1, fields)
    BY <1>1, <1>2, <2>1, <2>2, BodyKept
  <2>4. IsOpen(text, h, pos + 1)
    BY <1>1, <1>2, <1>3, <2>1, <2>2 DEF IsOpen, Undivided
  <2> QED BY <1>3, <2>1, <2>3, <2>4
<1>6. ASSUME ~section.files PROVE Before(text, pos + 1) \subseteq Closed(text, pos + 1)
  BY <1>3, <1>6 DEF ReadInv, SectionInv
<1>7. SectionInv'
  BY <1>4, <1>5, <1>6 DEF SectionInv
<1> QED BY <1>7 DEF ReadInv, RecordsInv, NoEntriesInv

LEMMA NoKeyOther == NoKey # "files"
BY Zenon DEF NoKey

LEMMA NewSection ==
    ASSUME SectionLine, text[pos].key # NoKey
    PROVE  /\ section'.files = (text[pos].key = "files")
           /\ section'.name = text[pos].value
<1> DEFINE b == text[pos].key = "files"
           v == text[pos].value
<1>1. section' = [files |-> b, name |-> v]
  BY DEF SectionLine, Line
<1> HIDE DEF b, v
<1>2. section'.files = b /\ section'.name = v
  BY <1>1
<1> QED BY <1>2 DEF b, v

LEMMA ReadSection == ASSUME TypeInv, ReadInv, SectionLine PROVE ReadInv'
<1> USE DEF SectionLine, AtLine, Line
<1>1. IsList(text) /\ Len(text) \in Nat /\ DOMAIN text = 1 .. Len(text) /\ pos \in 1 .. Len(text)
  BY ListLength DEF TypeInv, TextInv, TypeOK
<1>2. text[pos].kind = "section" /\ text[pos].kind # "pair"
  OBVIOUS
<1>3. Closed(text, pos + 1) = Before(text, pos)
  BY <1>1, <1>2, ClosedNext
<1>4. AreRecords(text, Closed(text, pos + 1), pos + 1, records')
  <2>1. AreRecords(text, Before(text, pos), pos, records')
    BY FlushStep DEF ReadInv
  <2>2. Before(text, pos) \subseteq DOMAIN text
    BY DEF Before
  <2> QED BY <1>1, <1>2, <1>3, <2>1, <2>2, RecordsKept
<1>5. ASSUME section'.files
      PROVE  \E h \in Before(text, pos + 1) : /\ text[h].value = section'.name
                                              /\ IsOpen(text, h, pos + 1)
                                              /\ IsBody(text, h, pos + 1, fields')
  <2>1. text[pos].key # NoKey
    <3>1. ~Top.files
      BY DEF Top
    <3> QED BY <1>5, <3>1
  <2>2. text[pos].key = "files" /\ text[pos].value = section'.name
    BY <1>5, <2>1, NewSection
  <2>3. pos \in Before(text, pos + 1)
    BY <1>1, <1>2, <2>2 DEF Before
  <2>4. IsOpen(text, pos, pos + 1)
    BY <1>1, <2>3 DEF IsOpen, Undivided
  <2>5. IsBody(text, pos, pos + 1, fields')
    BY <1>1, NoBody DEF Flush
  <2> QED BY <2>2, <2>3, <2>4, <2>5
<1>6. ASSUME ~section'.files PROVE Before(text, pos + 1) \subseteq Closed(text, pos + 1)
  <2>1. text[pos].key # "files"
    <3>1. CASE text[pos].key = NoKey
      BY <3>1, NoKeyOther
    <3>2. CASE text[pos].key # NoKey
      <4>1. section'.files = (text[pos].key = "files")
        BY <3>2, NewSection
      <4> QED BY <1>6, <4>1
    <3> QED BY <3>1, <3>2
  <2>2. ASSUME NEW h \in Before(text, pos + 1) PROVE h \in Before(text, pos)
    <3>1. h # pos
      BY <2>1 DEF Before
    <3> QED BY <1>1, <3>1 DEF Before
  <2> QED BY <1>3, <2>2
<1>7. SectionInv'
  BY <1>4, <1>5, <1>6 DEF SectionInv
<1> QED BY <1>7 DEF ReadInv, RecordsInv, NoEntriesInv

LEMMA ReadPair == ASSUME TypeInv, ReadInv, PairLine PROVE ReadInv'
<1> USE DEF PairLine, AtLine, Line
<1>1. IsList(text) /\ Len(text) \in Nat /\ DOMAIN text = 1 .. Len(text) /\ pos \in 1 .. Len(text)
  BY ListLength DEF TypeInv, TextInv, TypeOK
<1>2. text[pos].kind # "section" /\ text[pos].kind = "pair"
  OBVIOUS
<1>3. Closed(text, pos + 1) = Closed(text, pos) /\ Before(text, pos + 1) = Before(text, pos)
  BY <1>1, <1>2, ClosedNext
<1>4. AreRecords(text, Closed(text, pos + 1), pos + 1, records)
  <2>1. AreRecords(text, Closed(text, pos), pos, records) /\ Closed(text, pos) \subseteq DOMAIN text
        /\ \A h \in Closed(text, pos) : ~Undivided(text, h + 1, pos - 1)
    BY DEF ReadInv, SectionInv, Closed, Before
  <2> QED BY <1>1, <1>3, <2>1, RecordsKept
<1>5. ASSUME section.files
      PROVE  \E h \in Before(text, pos + 1) : /\ text[h].value = section.name
                                              /\ IsOpen(text, h, pos + 1)
                                              /\ IsBody(text, h, pos + 1, fields')
  <2>1. PICK h \in Before(text, pos) : /\ text[h].value = section.name
                                       /\ IsOpen(text, h, pos) /\ IsBody(text, h, pos, fields)
    BY <1>5 DEF ReadInv, SectionInv
  <2>2. fields' = With(fields, text[pos].key, text[pos].value)
    <3>1. section # Top
      BY <1>5 DEF Top
    <3> QED BY <3>1
  <2>3. IsBody(text, h, pos + 1, fields')
    BY <1>1, <1>2, <2>1, <2>2, BodyNext
  <2>4. IsOpen(text, h, pos + 1)
    BY <1>1, <1>2, <1>3, <2>1 DEF IsOpen, Undivided, Before
  <2> QED BY <1>3, <2>1, <2>3, <2>4
<1>6. ASSUME ~section.files PROVE Before(text, pos + 1) \subseteq Closed(text, pos + 1)
  BY <1>3, <1>6 DEF ReadInv, SectionInv
<1>7. SectionInv'
  BY <1>4, <1>5, <1>6 DEF SectionInv
<1> QED BY <1>7 DEF ReadInv, RecordsInv, NoEntriesInv

LEMMA ReadEnd == ASSUME TypeInv, ReadInv, EndOfText PROVE ReadInv'
<1> USE DEF EndOfText
<1>1. IsList(text) /\ Len(text) \in Nat /\ pos = Len(text) + 1
  BY ListLength DEF TypeInv, TextInv, TypeOK
<1>2. CASE pc' = "records"
  <2>1. AreRecords(text, Before(text, pos), pos, records')
    BY FlushStep DEF ReadInv
  <2>2. entries' = None /\ text' = text
    BY DEF ReadInv, NoEntriesInv
  <2>3. DOMAIN entries' = {}
    BY <2>2, EmptyMap
  <2>4. entries' = [n \in {} |-> EntryOf(records'[n])]
    BY <2>2 DEF None
  <2>5. entries' = [n \in DOMAIN entries' |-> EntryOf(records'[n])]
    BY <2>3, <2>4
  <2>6. DOMAIN entries' \subseteq DOMAIN records'
    BY <2>3
  <2>7. RecordsInv'
    BY <1>1, <1>2, <2>1, <2>2, <2>5, <2>6 DEF RecordsInv
  <2> QED BY <1>2, <2>7 DEF ReadInv, SectionInv, NoEntriesInv
<1>3. CASE pc' = "refused"
  BY <1>3, NotReading
<1> QED BY <1>2, <1>3

LEMMA ReadRecords == ASSUME ReadInv, AddRecord \/ EndOfRecords PROVE ReadInv'
<1>1. CASE AddRecord
  <2>1. /\ AreRecords(text, Before(text, Len(text) + 1), Len(text) + 1, records)
        /\ entries = [n \in DOMAIN entries |-> EntryOf(records[n])]
        /\ DOMAIN entries \subseteq DOMAIN records
    BY <1>1 DEF AddRecord, ReadInv, RecordsInv
  <2>2. CASE pc' = "refused"
    BY <2>2, NotReading
  <2>3. CASE pc' # "refused"
    <3>1. PICK n \in DOMAIN records : entries' = With(entries, n, EntryOf(records[n])) /\ pc' = "records"
      BY <1>1, <2>3 DEF AddRecord
    <3> DEFINE new == EntryOf(records[n])
    <3>2. DOMAIN With(entries, n, new) = DOMAIN entries \cup {n}
      BY WithDomain
    <3>3. With(entries, n, new)[n] = new
      BY WithNew
    <3>4. \A m \in DOMAIN entries : m # n => With(entries, n, new)[m] = entries[m]
      BY WithOld
    <3>5. With(entries, n, new) = [m \in DOMAIN With(entries, n, new) |-> With(entries, n, new)[m]]
      BY WithFunction
    <3> DEFINE es == With(entries, n, new)
    <3>6. ASSUME NEW m \in DOMAIN es PROVE es[m] = EntryOf(records[m])
      <4>1. CASE m = n
        BY <3>3, <4>1
      <4>2. CASE m # n
        <5>1. m \in DOMAIN entries /\ es[m] = entries[m]
          BY <3>2, <3>4, <4>2
        <5> HIDE DEF es, new
        <5> QED BY <2>1, <5>1
      <4> QED BY <4>1, <4>2
    <3>7. entries' = es /\ DOMAIN es \subseteq DOMAIN records
      BY <2>1, <3>1, <3>2
    <3> HIDE DEF es
    <3>8. es = [m \in DOMAIN es |-> es[m]]
      BY <3>5 DEF es
    <3>9. es = [m \in DOMAIN es |-> EntryOf(records[m])]
      BY <3>6, <3>8
    <3>10. text' = text /\ records' = records
      BY <1>1 DEF AddRecord
    <3>11. RecordsInv'
      <4> HIDE DEF new
      <4> QED BY <2>1, <3>1, <3>7, <3>9, <3>10 DEF RecordsInv
    <3> QED BY <3>1, <3>11 DEF ReadInv, SectionInv, NoEntriesInv
  <2> QED BY <2>2, <2>3
<1>2. CASE EndOfRecords
  <2>1. RecordsInv'
    BY <1>2 DEF EndOfRecords, ReadInv, RecordsInv
  <2> QED BY <1>2, <2>1 DEF EndOfRecords, ReadInv, SectionInv, NoEntriesInv
<1> QED BY <1>1, <1>2

LEMMA ReadStep == TypeInv /\ ReadInv /\ [Next]_vars => ReadInv'
<1> SUFFICES ASSUME TypeInv, ReadInv, [Next]_vars PROVE ReadInv'
  OBVIOUS
<1>1. CASE UNCHANGED vars
  BY <1>1 DEF vars, ReadInv, SectionInv, RecordsInv, NoEntriesInv
<1>2. CASE Insert \/ Repeat \/ Delete
  <2>1. pc' = "idle"
    BY <1>2 DEF Insert, Repeat, Delete, Change
  <2> QED BY <2>1, NotReading
<1>3. CASE Load
  BY <1>3, ReadLoad
<1>4. CASE Parse
  BY <1>4, ReadSkip, ReadSection, ReadPair, ReadEnd, ReadRecords DEF Parse
<1>5. CASE SaveNew \/ SaveAgain \/ Refuse
  <2>1. pc' = "idle"
    BY <1>5 DEF SaveNew, SaveAgain, Refuse, Save
  <2> QED BY <2>1, NotReading
<1> QED BY <1>1, <1>2, <1>3, <1>4, <1>5 DEF Next

LEMMA Greatest ==
    ASSUME NEW S, S \subseteq Nat, NEW x \in S, \A y \in S : y <= x
    PROVE  Max(S) = x
<1>1. \A y \in S : x >= y
  OBVIOUS
<1>2. \A z \in S : (\A y \in S : z >= y) => z = x
  OBVIOUS
<1> QED BY <1>1, <1>2 DEF Max

\* An accepted manifest is what a reader of the last section of each file makes of it.
LEMMA ReadsLast == TypeInv /\ ReadInv => ReadsTheLastSection
<1> SUFFICES ASSUME TypeInv, ReadInv, pc = "loaded" PROVE entries = Reading
  BY DEF ReadsTheLastSection
<1> DEFINE end == Len(text) + 1
           heads == Before(text, end)
<1>1. IsList(text) /\ Len(text) \in Nat /\ DOMAIN text = 1 .. Len(text)
  BY ListLength DEF TypeInv, TextInv
<1>2. AreRecords(text, heads, end, records)
      /\ entries = [n \in DOMAIN records |-> EntryOf(records[n])]
  BY DEF ReadInv, RecordsInv
<1>3. heads = {i \in DOMAIN text : text[i].kind = "section" /\ text[i].key = "files"}
  BY <1>1 DEF Before
<1>4. DOMAIN records = Named
  <2>1. Named = {Unquote(text[i].value) : i \in heads}
    BY <1>3, Zenon DEF Named
  <2>2. DOMAIN records = {NameAt(text, i) : i \in heads}
    BY <1>2 DEF AreRecords
  <2> HIDE DEF heads
  <2> QED BY <2>1, <2>2, Zenon DEF NameAt
<1>5. ASSUME NEW n \in Named
      PROVE  records[n] = [key \in {text[i].key : i \in LinesOf(n)} |-> ValueIn(n, key)]
  <2>1. PICK h \in heads : LastNamed(text, heads, h) /\ NameAt(text, h) = n /\ IsBody(text, h, end, records[n])
    BY <1>2, <1>4 DEF AreRecords
  <2> DEFINE body == BodyTo(text, h, end)
             map == records[n]
  <2>2. Max(Headers(n)) = h
    <3>1. Headers(n) = {i \in heads : NameAt(text, i) = n}
      BY <1>3, Zenon DEF Headers, NameAt
    <3>2. Headers(n) \subseteq Nat
      BY <1>1 DEF Headers
    <3>3. h \in Headers(n)
      BY <2>1, <3>1
    <3>4. \A g \in Headers(n) : g <= h
      BY <2>1, <3>1 DEF LastNamed
    <3> QED BY <3>2, <3>3, <3>4, Greatest
  <2>3. LinesOf(n) = body
    <3>1. h \in 1 .. Len(text)
      BY <1>1 DEF Before
    <3>2. LinesOf(n) = {i \in DOMAIN text : text[i].kind = "pair" /\ i > h
                                              /\ \A j \in h + 1 .. i : text[j].kind # "section"}
      BY <2>2 DEF LinesOf
    <3> QED BY <1>1, <3>1, <3>2 DEF BodyTo, Undivided
  <2>4. map = [key \in {text[i].key : i \in body} |-> map[key]]
        /\ \A key \in DOMAIN map : \E i \in body :
              LastIn(text, body, i) /\ text[i].key = key /\ map[key] = text[i].value
    BY <2>1 DEF IsBody
  <2>5. body \subseteq Nat
    BY <1>1 DEF BodyTo
  <2> HIDE DEF body, map
  <2>6. ASSUME NEW key \in {text[i].key : i \in body} PROVE map[key] = ValueIn(n, key)
    <3>1. key \in DOMAIN map
      BY <2>4
    <3>2. PICK i \in body : LastIn(text, body, i) /\ text[i].key = key /\ map[key] = text[i].value
      BY <2>4, <3>1
    <3> DEFINE same == {j \in LinesOf(n) : text[j].key = key}
    <3>3. same \subseteq Nat /\ i \in same /\ \A j \in same : j <= i
      BY <2>3, <2>5, <3>2 DEF LastIn
    <3> HIDE DEF same
    <3>4. Max(same) = i
      BY <3>3, Greatest
    <3>5. ValueIn(n, key) = text[Max(same)].value
      BY DEF ValueIn, same
    <3> QED BY <3>2, <3>4, <3>5
  <2>7. map = [key \in {text[i].key : i \in LinesOf(n)} |-> ValueIn(n, key)]
    BY <2>3, <2>4, <2>6
  <2> QED BY <2>7 DEF map
<1>6. \A n \in Named :
         EntryOf(records[n]) = EntryOf([key \in {text[i].key : i \in LinesOf(n)} |-> ValueIn(n, key)])
  <2> TAKE n \in Named
  <2> QED BY <1>5
<1>7. entries = [n \in Named |-> EntryOf(records[n])]
  BY <1>2, <1>4
<1> QED BY <1>6, <1>7, Zenon DEF Reading

\* Whatever users insert, repeat or delete, in a text of any length: a manifest that is
\* accepted has one entry for each name with a section, made of the last value of each
\* key in the last section of that name, and of no line of another section
\* (parse_manifest and flush of TomlManifestMapper).
THEOREM LastSectionRead == Spec => []ReadsTheLastSection
<1>1. Init => TypeInv /\ ReadInv
  BY TypeInit, ReadInit
<1>2. (TypeInv /\ ReadInv) /\ [Next]_vars => (TypeInv /\ ReadInv)'
  BY TypeStep, ReadStep
<1> QED BY <1>1, <1>2, ReadsLast, PTL DEF Spec
-----------------------------------------------------------------------------
(* The fields of users.                                                    *)

\* What one observation does: the file gets a new entry, or that of its name, or that of
\* another name which is like it.
NewEntry(name) == Over(disk[name], [id |-> CHOOSE id \in Ulids : TRUE])
Adds(es, name, new) ==
    /\ name \notin DOMAIN es /\ DOMAIN new = DOMAIN es \cup {name}
    /\ new[name] = NewEntry(name)
    /\ \A x \in DOMAIN es : new[x] = es[x]
Updates(es, name, m, new) ==
    /\ m = name \/ (name \notin DOMAIN es /\ Alike(es[m], disk[name]))
    /\ DOMAIN new = (DOMAIN es \ {m}) \cup {name}
    /\ new[name] = Refreshed(es[m], disk[name])
    /\ \A x \in DOMAIN es \ {m, name} : new[x] = es[x]

\* The only entry that is the same by the keys of a sign is alike.
LEMMA SoleAlike ==
    ASSUME NEW es, FiniteMap(es), NEW file, NEW keys \in Range(Signs)
    PROVE  \/ Sole(es, file, keys) = {}
           \/ \E m \in DOMAIN es : Sole(es, file, keys) = {m} /\ Alike(es[m], file)
<1> DEFINE same == {m \in DOMAIN es : Same(es[m], file, keys)}
<1>1. Sole(es, file, keys) = IF Cardinality(same) = 1 THEN same ELSE {}
  BY Zenon DEF Sole
<1>2. IsFiniteSet(same)
  BY FS_Subset DEF FiniteMap
<1>3. \A m \in same : m \in DOMAIN es /\ Alike(es[m], file)
  BY DEF Alike
<1> HIDE DEF same
<1>4. CASE Cardinality(same) = 1
  <2>1. PICK m : same = {m}
    BY <1>2, <1>4, FS_Singleton
  <2>2. m \in DOMAIN es /\ Alike(es[m], file)
    BY <1>3, <2>1
  <2> QED BY <1>1, <1>4, <2>1, <2>2
<1>5. CASE Cardinality(same) # 1
  BY <1>1, <1>5
<1> QED BY <1>4, <1>5

\* What observing one file does to the entries.
LEMMA ObserveDoes ==
    ASSUME NEW es, FiniteMap(es), NEW name
    PROVE  \/ Adds(es, name, Observe(es, name))
           \/ \E m \in DOMAIN es : Updates(es, name, m, Observe(es, name))
<1> DEFINE match == Match(es, name)
           rest == Restrict(es, DOMAIN es \ match)
           old == es[CHOOSE m \in match : TRUE]
           entry == IF match = {} THEN NewEntry(name) ELSE Refreshed(old, disk[name])
           new == Observe(es, name)
<1>1. DOMAIN rest = DOMAIN es \ match /\ \A x \in DOMAIN rest : rest[x] = es[x]
  BY DEF Restrict
<1>2. new = With(rest, name, entry)
  BY Zenon DEF Observe, NewEntry
<1> HIDE DEF rest
<1>3. /\ DOMAIN new = DOMAIN rest \cup {name} /\ new[name] = entry
      /\ \A x \in DOMAIN rest : x # name => new[x] = rest[x]
  <2> HIDE DEF entry, new
  <2>1. DOMAIN With(rest, name, entry) = DOMAIN rest \cup {name}
    BY WithDomain
  <2>2. With(rest, name, entry)[name] = entry
    BY WithNew
  <2>3. \A x \in DOMAIN rest : x # name => With(rest, name, entry)[x] = rest[x]
    BY WithOld
  <2> QED BY <1>2, <2>1, <2>2, <2>3, Zenon
<1>4. match = {} \/ \E m \in DOMAIN es : match = {m} /\ (m = name \/ (name \notin DOMAIN es /\ Alike(es[m], disk[name])))
  <2>1. CASE name \in DOMAIN es
    BY <2>1, Zenon DEF Match
  <2>2. CASE name \notin DOMAIN es
    <3>1. \E i \in 1 .. 3 : match = Sole(es, disk[name], Signs[i])
      <4> DEFINE by(i) == Sole(es, disk[name], Signs[i])
      <4>1. match = IF by(1) # {} THEN by(1) ELSE IF by(2) # {} THEN by(2) ELSE by(3)
        BY <2>2, Zenon DEF Match
      <4> HIDE DEF by, match
      <4>2. \E i \in 1 .. 3 : match = by(i)
        BY <4>1
      <4> QED BY <4>2 DEF by
    <3>2. PICK i \in 1 .. 3 : match = Sole(es, disk[name], Signs[i])
      BY <3>1
    <3> HIDE DEF match
    <3>3. Signs[i] \in Range(Signs)
      BY DEF Signs, Range
    <3> QED BY <2>2, <3>2, <3>3, SoleAlike
  <2> QED BY <2>1, <2>2
<1>5. CASE match = {}
  <2>1. name \notin DOMAIN es
    BY <1>5 DEF Match
  <2>2. entry = NewEntry(name)
    BY <1>5
  <2> HIDE DEF entry, new, match
  <2>3. DOMAIN rest = DOMAIN es
    BY <1>1, <1>5
  <2>4. Adds(es, name, new)
    BY <1>1, <1>3, <2>1, <2>2, <2>3 DEF Adds
  <2> QED BY <2>4 DEF new
<1>6. CASE match # {}
  <2>1. PICK m \in DOMAIN es : match = {m} /\ (m = name \/ (name \notin DOMAIN es /\ Alike(es[m], disk[name])))
    BY <1>4, <1>6
  <2>2. old = es[m]
    <3> HIDE DEF match
    <3> QED BY <2>1
  <2>3. entry = Refreshed(es[m], disk[name])
    <3> HIDE DEF old, match
    <3> QED BY <1>6, <2>2
  <2> HIDE DEF entry, new, match, old
  <2>4. DOMAIN rest = DOMAIN es \ {m}
    BY <1>1, <2>1
  <2>5. Updates(es, name, m, new)
    BY <1>1, <1>3, <2>1, <2>3, <2>4 DEF Updates
  <2> QED BY <2>5 DEF new
<1> QED BY <1>5, <1>6

\* Two files or entries that no sign can tell apart.
SignKeys == {"inode", "device", "content_hash", "size", "fingerprint", "modified_ns"}
Like(a, b) == Agree(a, b, SignKeys)

LEMMA SignsKnown == \A keys \in Range(Signs) : keys \subseteq SignKeys
<1>1. \A i \in 1 .. 3 : Signs[i] \subseteq SignKeys
  BY DEF Signs, SignKeys
<1>2. DOMAIN Signs = 1 .. 3
  BY DEF Signs
<1> QED BY <1>1, <1>2 DEF Range

\* Refreshing an entry keeps the fields of users, and what the entry is then like is
\* the file or the old entry.
LEMMA RefreshedKeeps ==
    ASSUME disk \in Disks, NEW name \in DOMAIN disk, NEW old
    PROVE  /\ \A k \in DOMAIN old : Extension(k) =>
                 /\ k \in DOMAIN Refreshed(old, disk[name])
                 /\ Refreshed(old, disk[name])[k] = old[k]
           /\ Like(old, Refreshed(old, disk[name])) \/ Like(disk[name], Refreshed(old, disk[name]))
<1> DEFINE e == disk[name]
           new == Refreshed(old, e)
           kept == Restrict(old, {k \in DOMAIN old : Extension(k) \/ k = "id"})
<1>1. \A k \in DOMAIN e : ~Extension(k)
  <2>1. IsMetadata(e)
    BY DisksAssumption
  <2> QED BY <2>1 DEF IsMetadata, Required
<1>2. new = old \/ new = Over(e, kept)
  BY Zenon DEF Refreshed
<1>3. CASE new = old
  <2>1. Like(old, new)
    BY <1>3 DEF Like, Agree
  <2> HIDE DEF new
  <2> QED BY <1>3, <2>1 DEF new
<1>4. CASE new = Over(e, kept)
  <2>1. DOMAIN kept = {k \in DOMAIN old : Extension(k) \/ k = "id"} /\ \A k \in DOMAIN kept : kept[k] = old[k]
    BY DEF Restrict
  <2> HIDE DEF kept, new, e
  <2>2. DOMAIN new = DOMAIN e \cup DOMAIN kept
        /\ (\A k \in DOMAIN e : new[k] = e[k]) /\ (\A k \in DOMAIN kept : k \notin DOMAIN e => new[k] = kept[k])
    BY <1>4, Zenon DEF Over
  <2>3. Like(e, new)
    <3>1. \A k \in SignKeys : k # "id" /\ ~Extension(k)
      BY DEF SignKeys, Extension, Known, Required, OptionalNumbers, OptionalStrings
    <3>2. \A k \in SignKeys : k \notin DOMAIN kept
      BY <2>1, <3>1
    <3> QED BY <2>2, <3>2 DEF Like, Agree
  <2>4. \A k \in DOMAIN old : Extension(k) => k \in DOMAIN new /\ new[k] = old[k]
    BY <1>1, <2>1, <2>2
  <2> QED BY <2>3, <2>4 DEF new, e
<1> QED BY <1>2, <1>3, <1>4

LEMMA LikeChain ==
    ASSUME NEW a, NEW b, NEW c, Like(a, b)
    PROVE  /\ Like(b, c) => Like(a, c)
           /\ Alike(b, c) => Alike(a, c)
<1>1. Like(b, c) => Like(a, c)
  BY DEF Like, Agree
<1>2. ASSUME NEW keys \in Range(Signs), Same(b, c, keys)
      PROVE  Same(a, c, keys)
  <2>1. keys \subseteq SignKeys
    BY SignsKnown
  <2> QED BY <1>2, <2>1 DEF Like, Same, Agree
<1> QED BY <1>1, <1>2 DEF Alike

\* Every field that users have added is somewhere among the entries es, under the name
\* of a file that is there, and where nothing else claims its entry, in that entry.
Added(n, k) == n \in DOMAIN entries \cap DOMAIN disk /\ k \in DOMAIN entries[n] /\ Extension(k)
Keeps(es, x, n, k) == x \in DOMAIN es /\ k \in DOMAIN es[x] /\ es[x][k] = entries[n][k]
Somewhere(es) == \A n, k : Added(n, k) => \E x \in DOMAIN disk : Keeps(es, x, n, k)
InPlace(es) ==
    /\ DOMAIN disk \subseteq DOMAIN entries => DOMAIN disk \subseteq DOMAIN es
    /\ \A n \in DOMAIN entries \cap DOMAIN disk : Unclaimed(n) =>
          /\ n \in DOMAIN es
          /\ Like(entries[n], es[n]) \/ Like(disk[n], es[n])
          /\ \A k : Added(n, k) => Keeps(es, n, n, k)

LEMMA SomewhereStep ==
    ASSUME disk \in Disks, NEW es, FiniteMap(es), Somewhere(es), NEW name \in DOMAIN disk
    PROVE  Somewhere(Observe(es, name))
<1> DEFINE new == Observe(es, name)
<1> SUFFICES ASSUME NEW n, NEW k, Added(n, k) PROVE \E x \in DOMAIN disk : Keeps(new, x, n, k)
  BY DEF Somewhere
<1>1. PICK x \in DOMAIN disk : Keeps(es, x, n, k)
  BY DEF Somewhere
<1>2. Adds(es, name, new) \/ \E m \in DOMAIN es : Updates(es, name, m, new)
  BY ObserveDoes
<1> HIDE DEF new
<1>3. CASE Adds(es, name, new)
  <2>1. Keeps(new, x, n, k)
    BY <1>1, <1>3 DEF Keeps, Adds
  <2> QED BY <2>1
<1>4. CASE \E m \in DOMAIN es : Updates(es, name, m, new)
  <2>1. PICK m \in DOMAIN es : Updates(es, name, m, new)
    BY <1>4
  <2>2. CASE x = m
    <3>1. /\ k \in DOMAIN Refreshed(es[m], disk[name])
          /\ Refreshed(es[m], disk[name])[k] = es[m][k]
      BY <1>1, <2>2, RefreshedKeeps DEF Keeps, Added
    <3>2. Keeps(new, name, n, k)
      BY <1>1, <2>1, <2>2, <3>1 DEF Keeps, Updates
    <3> QED BY <3>2
  <2>3. CASE x # m
    <3>1. x # name
      BY <1>1, <2>1, <2>3 DEF Keeps, Updates
    <3>2. Keeps(new, x, n, k)
      BY <1>1, <2>1, <2>3, <3>1 DEF Keeps, Updates
    <3> QED BY <3>2
  <2> QED BY <2>2, <2>3
<1> QED BY <1>2, <1>3, <1>4

LEMMA InPlaceStep ==
    ASSUME disk \in Disks, NEW es, FiniteMap(es), InPlace(es), NEW name \in DOMAIN disk
    PROVE  InPlace(Observe(es, name))
<1> DEFINE new == Observe(es, name)
<1>1. Adds(es, name, new) \/ \E m \in DOMAIN es : Updates(es, name, m, new)
  BY ObserveDoes
<1> HIDE DEF new
<1>2. ASSUME DOMAIN disk \subseteq DOMAIN entries
      PROVE  DOMAIN disk \subseteq DOMAIN new
  BY <1>1, <1>2 DEF InPlace, Adds, Updates
<1>3. ASSUME NEW n \in DOMAIN entries \cap DOMAIN disk, Unclaimed(n)
      PROVE  /\ n \in DOMAIN new
             /\ Like(entries[n], new[n]) \/ Like(disk[n], new[n])
             /\ \A k : Added(n, k) => Keeps(new, n, n, k)
  <2>1. /\ n \in DOMAIN es /\ (Like(entries[n], es[n]) \/ Like(disk[n], es[n]))
        /\ \A k : Added(n, k) => Keeps(es, n, n, k)
    BY <1>3 DEF InPlace
  <2>2. CASE Adds(es, name, new)
    BY <2>1, <2>2 DEF Adds, Keeps
  <2>3. CASE \E m \in DOMAIN es : Updates(es, name, m, new)
    <3>1. PICK m \in DOMAIN es : Updates(es, name, m, new)
      BY <2>3
    <3>2. CASE n # name
      <4>1. n # m
        <5> SUFFICES ASSUME n = m PROVE FALSE
          OBVIOUS
        <5>1. name \notin DOMAIN es /\ Alike(es[n], disk[name])
          BY <3>1, <3>2 DEF Updates
        <5>2. ~(DOMAIN disk \subseteq DOMAIN entries)
          BY <5>1 DEF InPlace
        <5>3. ~Alike(entries[n], disk[name]) /\ ~Alike(disk[n], disk[name])
          BY <1>3, <3>2, <5>2 DEF Unclaimed
        <5> QED BY <2>1, <5>1, <5>3, LikeChain
      <4> QED BY <2>1, <3>1, <3>2, <4>1 DEF Updates, Keeps
    <3>3. CASE n = name
      <4> DEFINE next == Refreshed(es[n], disk[n])
      <4>1. m = n /\ new[n] = next /\ n \in DOMAIN new
        BY <2>1, <3>1, <3>3 DEF Updates
      <4>2. /\ \A k \in DOMAIN es[n] : Extension(k) => k \in DOMAIN next /\ next[k] = es[n][k]
            /\ Like(es[n], next) \/ Like(disk[n], next)
        BY RefreshedKeeps
      <4> HIDE DEF next
      <4>3. Like(entries[n], next) \/ Like(disk[n], next)
        BY <2>1, <4>2, LikeChain
      <4>4. \A k : Added(n, k) => Keeps(new, n, n, k)
        BY <2>1, <4>1, <4>2 DEF Added, Keeps
      <4> QED BY <4>1, <4>3, <4>4
    <3> QED BY <3>2, <3>3
  <2> QED BY <1>1, <2>2, <2>3
<1> QED BY <1>2, <1>3 DEF InPlace, new

LEMMA AllKept ==
    ASSUME disk \in Disks, FiniteMap(entries)
    PROVE  FiniteMap(Observed) /\ Somewhere(Observed) /\ InPlace(Observed)
<1>1. PICK n \in Nat : \E after : Stages(after, n)
  BY ObservedStages
<1>2. PICK after : Stages(after, n)
  BY <1>1
<1> DEFINE all == {after[i] : i \in 0 .. n}
           G == {es \in all : FiniteMap(es) /\ Somewhere(es) /\ InPlace(es)}
<1>3. entries \in G
  <2>1. Somewhere(entries)
    BY DEF Somewhere, Added, Keeps
  <2>2. InPlace(entries)
    BY DEF InPlace, Added, Keeps, Like, Agree
  <2>3. entries \in all
    BY <1>2 DEF Stages
  <2> HIDE DEF all
  <2> QED BY <2>1, <2>2, <2>3
<1>4. ASSUME NEW i \in 1 .. n, after[i - 1] \in G PROVE after[i] \in G
  <2>1. PICK name \in DOMAIN disk : after[i] = Observe(after[i - 1], name)
    BY <1>2 DEF Stages
  <2>2. FiniteMap(after[i - 1]) /\ Somewhere(after[i - 1]) /\ InPlace(after[i - 1])
    BY <1>4
  <2>3. FiniteMap(after[i]) /\ Somewhere(after[i]) /\ InPlace(after[i])
    BY <2>1, <2>2, ObserveFinite, SomewhereStep, InPlaceStep
  <2>4. after[i] \in all
    OBVIOUS
  <2> HIDE DEF all
  <2> QED BY <2>3, <2>4
<1>5. Observed \in G
  <2> HIDE DEF G
  <2> QED BY <1>2, <1>3, <1>4, StagesReach
<1> QED BY <1>5

LEMMA NumbersKnown == Numbers \subseteq Known
BY DEF Numbers, Known, Required, OptionalNumbers

\* A field that crumb does not know is written as it stands.
LEMMA FieldWritten ==
    ASSUME NEW directory, NEW m, FiniteMap(m), NEW n \in DOMAIN m, NEW k \in DOMAIN m[n] \ Known
    PROVE  \E i \in DOMAIN ToToml(directory, m) : ToToml(directory, m)[i] = Pair(k, m[n][k])
<1> DEFINE lines == ToToml(directory, m)
           block == EntryLines(n, m[n])
<1>1. IsManifest(lines, directory, m)
  BY TextWritten
<1>2. IsSection(block, n, m[n])
  BY SectionWritten DEF FiniteMap
<1> HIDE DEF lines, block
<1>3. PICK b \in Nat : Stands(lines, b, block)
  BY <1>1 DEF IsManifest, block
<1>4. PICK j \in 3 .. Len(block) : block[j] = PairOf(m[n], k)
  BY <1>2 DEF IsSection
<1>5. PairOf(m[n], k) = Pair(k, m[n][k])
  <2>1. k \notin Known /\ k \notin Numbers
    BY NumbersKnown
  <2> QED BY <2>1, Zenon DEF PairOf, WrittenValue
<1>6. Len(block) \in Nat /\ Len(lines) \in Nat /\ DOMAIN lines = 1 .. Len(lines)
  BY <1>1, <1>2, ListLength DEF IsManifest, IsSection
<1>7. j \in 1 .. Len(block) /\ b + j \in 1 .. Len(lines)
  BY <1>3, <1>6 DEF Stands
<1>8. lines[b + j] = Pair(k, m[n][k])
  BY <1>3, <1>4, <1>5, <1>7 DEF Stands
<1> QED BY <1>6, <1>7, <1>8 DEF lines

LEMMA FieldsKept ==
    ASSUME TypeInv, ReadInv, SaveAgain, NEW n \in DOMAIN entries \cap DOMAIN disk,
           NEW k \in DOMAIN entries[n], Extension(k)
    PROVE  /\ \E i \in DOMAIN text' : text'[i] = Pair(k, ValueIn(n, k))
           /\ Unclaimed(n) => /\ n \in DOMAIN saved' /\ k \in DOMAIN saved'[n]
                              /\ saved'[n][k] = ValueIn(n, k)
<1>1. disk \in Disks /\ FiniteMap(entries)
  BY DEF TypeInv, TextInv
<1>2. entries[n][k] = ValueIn(n, k)
  <2> DEFINE lastValues == [key \in {text[i].key : i \in LinesOf(n)} |-> ValueIn(n, key)]
  <2>1. entries = Reading
    BY ReadsLast DEF ReadsTheLastSection, SaveAgain
  <2>2. entries[n] = EntryOf(lastValues)
    BY <2>1, Zenon DEF Reading
  <2>3. k \in DOMAIN lastValues /\ entries[n][k] = lastValues[k]
    <3> HIDE DEF lastValues
    <3>1. k \notin Known /\ k \notin Numbers
      BY NumbersKnown DEF Extension
    <3> QED BY <2>2, <3>1, Zenon DEF EntryOf
  <2> QED BY <2>3, Zenon
<1>3. FiniteMap(Observed) /\ Somewhere(Observed) /\ InPlace(Observed)
  BY <1>1, AllKept
<1>4. FiniteMap(Reconciled)
  BY <1>1, ReconciledFinite
<1>5. /\ DOMAIN Reconciled = DOMAIN Observed \cap DOMAIN disk
      /\ \A x \in DOMAIN Reconciled : Reconciled[x] = Observed[x]
  BY Zenon DEF Reconciled, Restrict
<1>6. saved' = Reconciled /\ text' = ToToml(header.directory_id, Reconciled)
  BY Zenon DEF SaveAgain, Save
<1>7. Added(n, k)
  BY DEF Added
<1>8. PICK x \in DOMAIN disk : Keeps(Observed, x, n, k)
  BY <1>3, <1>7 DEF Somewhere
<1>9. x \in DOMAIN Reconciled /\ k \in DOMAIN Reconciled[x] /\ Reconciled[x][k] = ValueIn(n, k)
  BY <1>2, <1>5, <1>8 DEF Keeps
<1>10. k \notin Known
  BY DEF Extension
<1>11. \E i \in DOMAIN text' : text'[i] = Pair(k, ValueIn(n, k))
  <2>1. \E i \in DOMAIN ToToml(header.directory_id, Reconciled) :
           ToToml(header.directory_id, Reconciled)[i] = Pair(k, Reconciled[x][k])
    BY <1>4, <1>9, <1>10, FieldWritten
  <2> QED BY <1>6, <1>9, <2>1
<1>12. ASSUME Unclaimed(n)
       PROVE  n \in DOMAIN saved' /\ k \in DOMAIN saved'[n] /\ saved'[n][k] = ValueIn(n, k)
  <2>1. Keeps(Observed, n, n, k)
    BY <1>3, <1>7, <1>12 DEF InPlace
  <2> QED BY <1>2, <1>5, <1>6, <2>1 DEF Keeps
<1> QED BY <1>11, <1>12

\* Whatever fields users have added to the section of a file that is still there, and
\* however files are taken for one another: the next scan writes each of them to the
\* letter, and writes it in the section of that file unless the directory has a new
\* file and some other file is like it (preserve_custom_metadata of ReconcileDirectory,
\* between the parser and the mapper of TomlManifestMapper).
THEOREM UserFieldsKept == Spec => UserFieldsSurvive
<1>1. TypeInv /\ ReadInv /\ [Next]_vars => TypeInv' /\ ReadInv'
  BY TypeStep, ReadStep
<1>2. Init => TypeInv /\ ReadInv
  BY TypeInit, ReadInit
<1> DEFINE Kept ==
      SaveAgain =>
        \A n \in DOMAIN entries \cap DOMAIN disk :
            \A k \in DOMAIN entries[n] : Extension(k) =>
                /\ \E i \in DOMAIN text' : text'[i] = Pair(k, ValueIn(n, k))
                /\ Unclaimed(n) => /\ n \in DOMAIN saved' /\ k \in DOMAIN saved'[n]
                                   /\ saved'[n][k] = ValueIn(n, k)
<1>3. TypeInv /\ ReadInv => Kept
  BY FieldsKept
<1>4. TypeInv /\ ReadInv /\ [Next]_vars => [Kept]_vars
  <2> HIDE DEF Kept
  <2> QED BY <1>3
<1>5. [][Kept]_vars => UserFieldsSurvive
  BY DEF UserFieldsSurvive
<1> HIDE DEF Kept
<1> QED BY <1>1, <1>2, <1>4, <1>5, PTL DEF Spec
-----------------------------------------------------------------------------
(* What unquote makes of a value.                                          *)

\* The values of `from' at the positions from i on.
Reads(f, v, i) ==
    f = [j \in i .. Len(v) + 1 |->
          IF j >= Len(v) THEN <<>>
          ELSE IF v[j] = "backslash" /\ j + 1 < Len(v)
               THEN <<IF v[j + 1] = "n" THEN "newline" ELSE v[j + 1]>> \o f[j + 2]
               ELSE <<v[j]>> \o f[j + 1]]

\* The equations of `from' have a solution, and Unescaped is its first value.
LEMMA Reader ==
    ASSUME NEW v \in Seq(Chars), Len(v) >= 2
    PROVE  \E f : Reads(f, v, 2) /\ Unescaped(v) = f[2]
<1> DEFINE L == Len(v)
           step(f, j) == IF j >= L THEN <<>>
                         ELSE IF v[j] = "backslash" /\ j + 1 < L
                              THEN <<IF v[j + 1] = "n" THEN "newline" ELSE v[j + 1]>> \o f[j + 2]
                              ELSE <<v[j]>> \o f[j + 1]
           T == {n \in Nat : n <= L - 1 => \E f : Reads(f, v, L + 1 - n)}
           from == CHOOSE f : Reads(f, v, 2)
<1>1. L \in Nat /\ L >= 2
  OBVIOUS
<1>2. \A f, i : Reads(f, v, i) <=> f = [j \in i .. L + 1 |-> step(f, j)]
  BY Zenon DEF Reads
<1>3. \A f, g, j : (j < L => f[j + 1] = g[j + 1]) /\ (j + 1 < L => f[j + 2] = g[j + 2])
                      /\ j \in Nat => step(f, j) = step(g, j)
  <2> TAKE f, g, j
  <2> HAVE (j < L => f[j + 1] = g[j + 1]) /\ (j + 1 < L => f[j + 2] = g[j + 2]) /\ j \in Nat
  <2>1. CASE j >= L
    BY <2>1
  <2>2. CASE ~(j >= L)
    <3>1. f[j + 1] = g[j + 1]
      BY <1>1, <2>2
    <3>2. CASE v[j] = "backslash" /\ j + 1 < L
      BY <2>2, <3>2
    <3>3. CASE ~(v[j] = "backslash" /\ j + 1 < L)
      BY <2>2, <3>1, <3>3
    <3> QED BY <3>2, <3>3
  <2> QED BY <2>1, <2>2
<1> HIDE DEF step, L
<1>4. 0 \in T
  <2> DEFINE f == [j \in L + 1 .. L + 1 |-> <<>>]
             g == [j \in L + 1 .. L + 1 |-> step(f, j)]
  <2>1. L + 1 - 0 = L + 1
    BY <1>1
  <2>2. \A j \in L + 1 .. L + 1 : j >= L
    BY <1>1
  <2>3. \A j \in L + 1 .. L + 1 : step(f, j) = <<>>
    BY <2>2 DEF step
  <2>4. f = g
    <3> HIDE DEF f
    <3> QED BY <2>3 DEF f
  <2>5. Reads(f, v, L + 1)
    <3> HIDE DEF f
    <3> QED BY <1>2, <2>4
  <2> QED BY <2>1, <2>5
<1>5. ASSUME NEW n \in Nat, n \in T PROVE n + 1 \in T
  <2> SUFFICES ASSUME n + 1 <= L - 1 PROVE \E f : Reads(f, v, L + 1 - (n + 1))
    OBVIOUS
  <2> DEFINE low == L + 1 - (n + 1)
  <2>1. n <= L - 1 /\ low \in Nat /\ low + 1 = L + 1 - n /\ low <= L
    BY <1>1
  <2>2. PICK f : Reads(f, v, low + 1)
    BY <1>5, <2>1
  <2> DEFINE g == [j \in low .. L + 1 |-> IF j = low THEN step(f, low) ELSE f[j]]
             h == [j \in low .. L + 1 |-> step(g, j)]
  <2> HIDE DEF low
  <2>3. \A j \in low + 1 .. L + 1 : j \in low .. L + 1 /\ j # low
    BY <1>1, <2>1
  <2>4. \A j \in low + 1 .. L + 1 : g[j] = f[j]
    BY <2>3
  <2>5. \A j \in low .. L + 1 : step(g, j) = step(f, j)
    <3> TAKE j \in low .. L + 1
    <3>1. j < L => g[j + 1] = f[j + 1]
      <4>1. j < L => j + 1 \in low + 1 .. L + 1
        BY <1>1, <2>1
      <4> HIDE DEF g
      <4> QED BY <2>4, <4>1
    <3>2. j + 1 < L => g[j + 2] = f[j + 2]
      <4>1. j + 1 < L => j + 2 \in low + 1 .. L + 1
        BY <1>1, <2>1
      <4> HIDE DEF g
      <4> QED BY <2>4, <4>1
    <3>3. j \in Nat
      BY <1>1, <2>1
    <3> HIDE DEF g
    <3> QED BY <1>3, <3>1, <3>2, <3>3
  <2>6. ASSUME NEW j \in low .. L + 1 PROVE g[j] = step(g, j)
    <3>1. CASE j = low
      <4>1. g[j] = step(f, j)
        BY <3>1
      <4> HIDE DEF g
      <4> QED BY <2>5, <4>1
    <3>2. CASE j # low
      <4>1. j \in low + 1 .. L + 1
        BY <1>1, <2>1, <3>2
      <4>2. f[j] = step(f, j)
        <5>1. f = [i \in low + 1 .. L + 1 |-> step(f, i)]
          BY <1>2, <2>2
        <5> QED BY <4>1, <5>1, Zenon
      <4>3. g[j] = f[j]
        BY <2>4, <4>1
      <4> HIDE DEF g
      <4> QED BY <2>5, <4>2, <4>3
    <3> QED BY <3>1, <3>2
  <2>7. g = h
    <3>1. g = [j \in low .. L + 1 |-> g[j]]
      OBVIOUS
    <3>2. \A j \in low .. L + 1 : g[j] = h[j]
      <4> HIDE DEF g
      <4> QED BY <2>6
    <3> HIDE DEF g
    <3> QED BY <3>1, <3>2, Zenon
  <2>8. Reads(g, v, low)
    <3> HIDE DEF g
    <3> QED BY <1>2, <2>7
  <2> QED BY <2>8 DEF low
<1>6. \E f : Reads(f, v, 2)
  <2>1. L - 1 \in Nat /\ L - 1 <= L - 1 /\ L + 1 - (L - 1) = 2
    BY <1>1
  <2>2. L - 1 \in T
    <3> HIDE DEF T
    <3> QED BY <1>4, <1>5, <2>1, Induction
  <2>3. \E f : Reads(f, v, L + 1 - (L - 1))
    BY <2>1, <2>2
  <2> QED BY <2>1, <2>3
<1>7. Reads(from, v, 2)
  BY <1>6
<1>8. Unescaped(v) = from[2]
  BY Zenon DEF Unescaped, Reads
<1> HIDE DEF from
<1> QED BY <1>7, <1>8

\* One step of a reader, and what it knows.
LEMMA ReaderStep ==
    ASSUME NEW v \in Seq(Chars), NEW f, Reads(f, v, 2), NEW j \in 2 .. Len(v) + 1
    PROVE  /\ j >= Len(v) => f[j] = <<>>
           /\ j < Len(v) /\ v[j] = "backslash" /\ j + 1 < Len(v) =>
                 f[j] = <<IF v[j + 1] = "n" THEN "newline" ELSE v[j + 1]>> \o f[j + 2]
           /\ j < Len(v) /\ ~(v[j] = "backslash" /\ j + 1 < Len(v)) => f[j] = <<v[j]>> \o f[j + 1]
<1>1. f[j] = IF j >= Len(v) THEN <<>>
             ELSE IF v[j] = "backslash" /\ j + 1 < Len(v)
                  THEN <<IF v[j + 1] = "n" THEN "newline" ELSE v[j + 1]>> \o f[j + 2]
                  ELSE <<v[j]>> \o f[j + 1]
  BY Zenon DEF Reads
<1>2. j < Len(v) <=> ~(j >= Len(v))
  OBVIOUS
<1> QED BY <1>1, <1>2, Zenon

LEMMA MarksAreChars ==
    /\ "quote" \in Chars /\ "backslash" \in Chars /\ "newline" \in Chars /\ "n" \in Chars
    /\ "now" \in Chars /\ "-" \in Chars
BY StringsAssumption

\* Unquoting a sequence of characters yields one.
LEMMA UnquotedText ==
    ASSUME NEW v \in Seq(Chars)
    PROVE  Unquote(v) \in Seq(Chars)
<1>1. CASE ~(Len(v) >= 2 /\ Head(v) = "quote" /\ Last(v) = "quote")
  <2>1. Unquote(v) = v
    BY <1>1, Zenon DEF Unquote
  <2> QED BY <2>1
<1>2. CASE Len(v) >= 2 /\ Head(v) = "quote" /\ Last(v) = "quote"
  <2>1. Unquote(v) = Unescaped(v)
    BY <1>2, Zenon DEF Unquote
  <2>2. PICK f : Reads(f, v, 2) /\ Unescaped(v) = f[2]
    BY <1>2, Reader
  <2> DEFINE L == Len(v)
             T == {n \in Nat : n <= L - 1 => f[L + 1 - n] \in Seq(Chars)
                                               /\ (n >= 1 => f[L + 1 - n + 1] \in Seq(Chars))}
  <2>3. L \in Nat /\ L >= 2
    BY <1>2
  <2>4. \A j \in 2 .. L + 1 :
           /\ j >= L => f[j] = <<>>
           /\ j < L /\ v[j] = "backslash" /\ j + 1 < L =>
                 f[j] = <<IF v[j + 1] = "n" THEN "newline" ELSE v[j + 1]>> \o f[j + 2]
           /\ j < L /\ ~(v[j] = "backslash" /\ j + 1 < L) => f[j] = <<v[j]>> \o f[j + 1]
    BY <2>2, ReaderStep
  <2>5. \A j \in 1 .. L : v[j] \in Chars
    OBVIOUS
  <2> HIDE DEF L
  <2>6. 0 \in T
    <3>1. L + 1 - 0 \in 2 .. L + 1 /\ L + 1 - 0 >= L
      BY <2>3
    <3>2. f[L + 1 - 0] = <<>>
      BY <2>4, <3>1
    <3>3. <<>> \in Seq(Chars) /\ ~(0 >= 1)
      OBVIOUS
    <3>4. f[L + 1 - 0] \in Seq(Chars)
      BY <3>2, <3>3
    <3> HIDE DEF L
    <3> QED BY <3>3, <3>4
  <2>7. ASSUME NEW n \in Nat, n \in T PROVE n + 1 \in T
    <3> SUFFICES ASSUME n + 1 <= L - 1
                 PROVE  f[L + 1 - (n + 1)] \in Seq(Chars) /\ f[L + 1 - (n + 1) + 1] \in Seq(Chars)
      OBVIOUS
    <3> DEFINE j == L + 1 - (n + 1)
    <3>1. /\ j \in 2 .. L + 1 /\ j + 1 = L + 1 - n /\ n <= L - 1 /\ j \in Nat
          /\ L + 1 - (n + 1) + 1 = j + 1
      BY <2>3
    <3>2. f[j + 1] \in Seq(Chars)
      BY <2>7, <3>1
    <3> HIDE DEF j
    <3>3. f[j] \in Seq(Chars)
      <4>1. CASE j >= L
        <5>1. f[j] = <<>>
          BY <2>4, <3>1, <4>1
        <5> QED BY <5>1
      <4>2. CASE j < L /\ v[j] = "backslash" /\ j + 1 < L
        <5> DEFINE c == IF v[j + 1] = "n" THEN "newline" ELSE v[j + 1]
        <5>1. f[j] = <<c>> \o f[j + 2]
          BY <2>4, <3>1, <4>2
        <5>2. n >= 1 /\ L + 1 - n + 1 = j + 2 /\ j + 1 \in 1 .. L
          BY <2>3, <3>1, <4>2 DEF j
        <5>3. f[j + 2] \in Seq(Chars)
          BY <2>7, <3>1, <5>2
        <5>4. c \in Chars
          BY <2>5, <5>2, MarksAreChars
        <5> HIDE DEF c
        <5> QED BY <5>1, <5>3, <5>4
      <4>3. CASE j < L /\ ~(v[j] = "backslash" /\ j + 1 < L)
        <5>1. f[j] = <<v[j]>> \o f[j + 1]
          BY <2>4, <3>1, <4>3
        <5>2. j \in 1 .. L
          BY <2>3, <3>1, <4>3
        <5>3. v[j] \in Chars
          BY <2>5, <5>2
        <5> QED BY <3>2, <5>1, <5>3
      <4> QED BY <2>3, <3>1, <4>1, <4>2, <4>3
    <3> QED BY <3>1, <3>2, <3>3 DEF j
  <2>8. L - 1 \in T
    <3> HIDE DEF T
    <3>1. L - 1 \in Nat
      BY <2>3
    <3> QED BY <2>6, <2>7, <3>1, Induction
  <2>9. L - 1 <= L - 1 /\ L + 1 - (L - 1) = 2
    BY <2>3
  <2>10. f[2] \in Seq(Chars)
    BY <2>8, <2>9
  <2> QED BY <2>1, <2>2, <2>10
<1> QED BY <1>1, <1>2

LEMMA EscapedText ==
    ASSUME NEW c \in Chars
    PROVE  /\ Escaped(c) \in Seq(Chars)
           /\ c \in {"backslash", "quote"} => Escaped(c) = <<"backslash", c>>
           /\ c = "newline" => Escaped(c) = <<"backslash", "n">>
           /\ c \notin {"backslash", "quote", "newline"} => Escaped(c) = <<c>>
<1>1. c \in {"backslash", "quote"} => Escaped(c) = <<"backslash", c>>
  BY DEF Escaped
<1>2. c = "newline" => Escaped(c) = <<"backslash", "n">>
  BY DEF Escaped
<1>3. c \notin {"backslash", "quote", "newline"} => Escaped(c) = <<c>>
  BY DEF Escaped
<1>4. <<"backslash", c>> \in Seq(Chars) /\ <<"backslash", "n">> \in Seq(Chars) /\ <<c>> \in Seq(Chars)
  BY MarksAreChars
<1> QED BY <1>1, <1>2, <1>3, <1>4

\* Where the characters of a string stand in what is written for it.
LEMMA Quoted ==
    ASSUME NEW s \in Seq(Chars)
    PROVE  \E at \in [0 .. Len(s) -> Nat] :
              /\ Quote(s) \in Seq(Chars) /\ Len(Quote(s)) = at[Len(s)] + 2
              /\ Quote(s)[1] = "quote" /\ Quote(s)[Len(Quote(s))] = "quote" /\ at[0] = 0
              /\ \A n \in 1 .. Len(s) : at[n] = at[n - 1] + Len(Escaped(s[n]))
              /\ \A n \in 1 .. Len(s) : \A j \in 1 .. Len(Escaped(s[n])) :
                    at[n - 1] + j <= at[Len(s)] /\ Quote(s)[1 + at[n - 1] + j] = Escaped(s[n])[j]
<1> DEFINE codes == [i \in DOMAIN s |-> Escaped(s[i])]
           flat == FlattenSeq(codes)
           left == <<"quote">> \o flat
           v == left \o <<"quote">>
           at == [n \in 0 .. Len(s) |-> Behind(codes, n)]
<1>1. DOMAIN codes = 1 .. Len(s) /\ (\A i \in 1 .. Len(s) : codes[i] = Escaped(s[i]))
      /\ codes \in Seq(Seq(Chars)) /\ Len(codes) = Len(s) /\ Len(s) \in Nat
  <2>1. DOMAIN s = 1 .. Len(s) /\ Len(s) \in Nat /\ \A i \in 1 .. Len(s) : s[i] \in Chars
    OBVIOUS
  <2>2. DOMAIN codes = 1 .. Len(s) /\ \A i \in 1 .. Len(s) : codes[i] = Escaped(s[i])
    BY <2>1, Zenon
  <2>3. \A i \in 1 .. Len(s) : codes[i] \in Seq(Chars)
    BY <2>1, <2>2, EscapedText
  <2>4. codes \in [1 .. Len(s) -> Seq(Chars)]
    <3>1. codes = [i \in 1 .. Len(s) |-> codes[i]]
      BY <2>1, Zenon
    <3> HIDE DEF codes
    <3> QED BY <2>3, <3>1
  <2> HIDE DEF codes
  <2> QED BY <2>1, <2>2, <2>4
<1>2. Quote(s) = v
  BY Zenon DEF Quote
<1> HIDE DEF codes
<1>3. flat \in Seq(Chars)
  BY <1>1, Flat
<1>4. /\ Behind(codes, 0) = 0 /\ Behind(codes, Len(s)) = Len(flat)
      /\ \A i \in 0 .. Len(s) : Behind(codes, i) \in Nat
      /\ \A i \in 1 .. Len(s) : Behind(codes, i) = Behind(codes, i - 1) + Len(codes[i])
  <2>1. /\ Behind(codes, 0) = 0 /\ Behind(codes, Len(codes)) = Len(FlattenSeq(codes))
        /\ \A i \in 0 .. Len(codes) : Behind(codes, i) \in Nat
        /\ \A i \in 1 .. Len(codes) : Behind(codes, i) = Behind(codes, i - 1) + Len(codes[i])
    BY <1>1, BehindFacts
  <2> QED BY <1>1, <2>1, Zenon
<1>5. \A i \in 1 .. Len(s) : \A j \in 1 .. Len(codes[i]) :
         /\ Behind(codes, i - 1) + j \in 1 .. Len(flat)
         /\ flat[Behind(codes, i - 1) + j] = codes[i][j]
  BY <1>1, FlatAt
<1>6. <<"quote">> \in Seq(Chars) /\ Len(<<"quote">>) = 1 /\ <<"quote">>[1] = "quote"
  BY MarksAreChars
<1> HIDE DEF flat
<1>7. left \in Seq(Chars) /\ Len(left) = 1 + Len(flat) /\ left[1] = "quote"
      /\ \A p \in 1 .. Len(flat) : left[1 + p] = flat[p]
  <2> DEFINE mark == <<"quote">>
  <2>0. Len(mark) = 1 /\ mark[1] = "quote"
    BY <1>6
  <2>1. mark \in Seq(Chars) /\ left = mark \o flat
    BY <1>6
  <2> HIDE DEF mark, left
  <2>2. left \in Seq(Chars) /\ Len(left) = Len(mark) + Len(flat)
        /\ (\A i \in 1 .. Len(mark) : left[i] = mark[i])
        /\ (\A i \in 1 .. Len(flat) : left[Len(mark) + i] = flat[i])
    BY <1>3, <2>1, JoinedAt
  <2> QED BY <2>0, <2>2
<1>8. Len(flat) \in Nat
  BY <1>3
<1> HIDE DEF left
<1>9. v \in Seq(Chars) /\ Len(v) = Len(flat) + 2 /\ v[1] = "quote" /\ v[Len(flat) + 2] = "quote"
      /\ \A p \in 1 .. Len(flat) : v[1 + p] = flat[p]
  <2> DEFINE mark == <<"quote">>
  <2>0. Len(mark) = 1 /\ mark[1] = "quote"
    BY <1>6
  <2>1. mark \in Seq(Chars) /\ left \in Seq(Chars) /\ v = left \o mark
    BY <1>6, <1>7
  <2> HIDE DEF mark, v
  <2>2. v \in Seq(Chars) /\ Len(v) = Len(left) + Len(mark)
        /\ (\A i \in 1 .. Len(left) : v[i] = left[i]) /\ (\A i \in 1 .. Len(mark) : v[Len(left) + i] = mark[i])
    BY <2>1, JoinedAt
  <2>3. 1 \in 1 .. Len(left) /\ 1 \in 1 .. Len(mark) /\ Len(left) + 1 = Len(flat) + 2
        /\ \A p \in 1 .. Len(flat) : 1 + p \in 1 .. Len(left)
    BY <1>7, <1>8, <2>0
  <2>4. v[Len(flat) + 2] = "quote" /\ v[1] = "quote"
    BY <1>7, <2>0, <2>2, <2>3
  <2>5. Len(v) = Len(flat) + 2
    BY <1>7, <1>8, <2>0, <2>2
  <2> QED BY <1>7, <2>2, <2>3, <2>4, <2>5
<1>10. at \in [0 .. Len(s) -> Nat] /\ \A n \in 0 .. Len(s) : at[n] = Behind(codes, n)
  BY <1>4
<1> HIDE DEF v, at
<1>11. at[0] = 0 /\ at[Len(s)] = Len(flat)
  <2>1. 0 \in 0 .. Len(s) /\ Len(s) \in 0 .. Len(s)
    BY <1>1
  <2> QED BY <1>4, <1>10, <2>1
<1>12. ASSUME NEW n \in 1 .. Len(s)
       PROVE  /\ at[n] = at[n - 1] + Len(Escaped(s[n]))
              /\ \A j \in 1 .. Len(Escaped(s[n])) :
                    at[n - 1] + j <= at[Len(s)] /\ v[1 + at[n - 1] + j] = Escaped(s[n])[j]
  <2>1. n \in 0 .. Len(s) /\ n - 1 \in 0 .. Len(s)
    BY <1>1
  <2>2. at[n] = Behind(codes, n) /\ at[n - 1] = Behind(codes, n - 1) /\ codes[n] = Escaped(s[n])
    BY <1>1, <1>10, <2>1
  <2>3. at[n] = at[n - 1] + Len(Escaped(s[n]))
    BY <1>4, <2>2
  <2>4. ASSUME NEW j \in 1 .. Len(Escaped(s[n]))
        PROVE  at[n - 1] + j <= at[Len(s)] /\ v[1 + at[n - 1] + j] = Escaped(s[n])[j]
    <3>1. at[n - 1] + j \in 1 .. Len(flat) /\ flat[at[n - 1] + j] = Escaped(s[n])[j]
      BY <1>5, <2>2
    <3>2. at[n - 1] \in Nat /\ j \in Int
      BY <1>10, <2>1
    <3>3. 1 + at[n - 1] + j = 1 + (at[n - 1] + j)
      BY <3>2
    <3>4. v[1 + (at[n - 1] + j)] = flat[at[n - 1] + j]
      BY <1>9, <3>1
    <3> QED BY <1>11, <3>1, <3>3, <3>4
  <2> QED BY <2>3, <2>4
<1>13. at \in [0 .. Len(s) -> Nat]
  BY <1>10
<1> QED BY <1>2, <1>9, <1>11, <1>12, <1>13

LEMMA SubSeqHead ==
    ASSUME NEW A, NEW s \in Seq(A), NEW m \in 1 .. Len(s)
    PROVE  SubSeq(s, m, Len(s)) = <<s[m]>> \o SubSeq(s, m + 1, Len(s))
<1> DEFINE L == Len(s)
           rest == SubSeq(s, m + 1, L)
           first == <<s[m]>>
           whole == SubSeq(s, m, L)
           both == first \o rest
<1>1. /\ L \in Nat /\ rest \in Seq(A) /\ Len(rest) = L - m
      /\ \A i \in 1 .. L - m : rest[i] = s[m + i]
  OBVIOUS
<1>2. /\ whole \in Seq(A) /\ Len(whole) = L - m + 1
      /\ \A i \in 1 .. L - m + 1 : whole[i] = s[m + i - 1]
  OBVIOUS
<1>3. first \in Seq(A) /\ Len(first) = 1 /\ first[1] = s[m]
  OBVIOUS
<1> HIDE DEF rest, first, whole, L
<1>4. both \in Seq(A) /\ Len(both) = 1 + Len(rest)
      /\ (\A i \in 1 .. 1 : both[i] = first[i]) /\ (\A i \in 1 .. Len(rest) : both[1 + i] = rest[i])
  <2>1. first \in Seq(A) /\ rest \in Seq(A)
    BY <1>1, <1>3
  <2>2. both \in Seq(A) /\ Len(both) = Len(first) + Len(rest)
        /\ (\A i \in 1 .. Len(first) : both[i] = first[i])
        /\ (\A i \in 1 .. Len(rest) : both[Len(first) + i] = rest[i])
    BY <2>1, JoinedAt
  <2> HIDE DEF both
  <2> QED BY <1>3, <2>2
<1> HIDE DEF both
<1>5. ASSUME NEW i \in 1 .. L - m + 1 PROVE whole[i] = both[i]
  <2>1. CASE i = 1
    <3>1. both[1] = s[m] /\ m + 1 - 1 = m
      BY <1>1, <1>3, <1>4
    <3> QED BY <1>2, <2>1, <3>1
  <2>2. CASE i # 1
    <3>1. i - 1 \in 1 .. L - m /\ 1 + (i - 1) = i /\ m + (i - 1) = m + i - 1
      BY <1>1, <2>2 DEF L
    <3>2. both[1 + (i - 1)] = rest[i - 1] /\ rest[i - 1] = s[m + (i - 1)]
      BY <1>1, <1>4, <3>1
    <3> QED BY <1>2, <3>1, <3>2
  <2> QED BY <2>1, <2>2
<1>6. Len(both) = L - m + 1
  BY <1>1, <1>4
<1>7. whole = both
  <2> DEFINE n == L - m + 1
  <2>1. DOMAIN whole = 1 .. n /\ DOMAIN both = 1 .. n
        /\ whole = [i \in 1 .. n |-> whole[i]] /\ both = [i \in 1 .. n |-> both[i]]
    BY <1>2, <1>4, <1>6
  <2>2. \A i \in 1 .. n : whole[i] = both[i]
    BY <1>5
  <2> HIDE DEF n
  <2> QED BY <2>1, <2>2
<1> QED BY <1>7 DEF whole, both, first, rest, L

\* One character is read back from what is written for it.
LEMMA ReadBack ==
    ASSUME NEW v \in Seq(Chars), NEW f, Reads(f, v, 2), NEW c \in Chars, NEW j \in Nat, j >= 2,
           j + Len(Escaped(c)) <= Len(v), \A i \in 1 .. Len(Escaped(c)) : v[j - 1 + i] = Escaped(c)[i]
    PROVE  f[j] = <<c>> \o f[j + Len(Escaped(c))]
<1> DEFINE L == Len(v)
<1>1. L \in Nat
  OBVIOUS
<1>2. j \in 2 .. L + 1 =>
         /\ j < L /\ v[j] = "backslash" /\ j + 1 < L =>
               f[j] = <<IF v[j + 1] = "n" THEN "newline" ELSE v[j + 1]>> \o f[j + 2]
         /\ j < L /\ ~(v[j] = "backslash" /\ j + 1 < L) => f[j] = <<v[j]>> \o f[j + 1]
  BY ReaderStep
<1> HIDE DEF L
<1>3. CASE c \in {"backslash", "quote"}
  <2>1. Escaped(c) = <<"backslash", c>>
    BY <1>3, EscapedText
  <2>2. Len(Escaped(c)) = 2 /\ Escaped(c)[1] = "backslash" /\ Escaped(c)[2] = c
    BY <2>1
  <2>3. v[j - 1 + 1] = Escaped(c)[1] /\ v[j - 1 + 2] = Escaped(c)[2]
    BY <2>2
  <2>4. j - 1 + 1 = j /\ j - 1 + 2 = j + 1
    OBVIOUS
  <2>5. v[j] = "backslash" /\ v[j + 1] = c
    BY <2>2, <2>3, <2>4
  <2>6. j \in 2 .. L + 1 /\ j < L /\ j + 1 < L
    BY <1>1, <2>2 DEF L
  <2>7. f[j] = <<IF v[j + 1] = "n" THEN "newline" ELSE v[j + 1]>> \o f[j + 2]
    BY <1>2, <2>5, <2>6
  <2>8. v[j + 1] # "n"
    BY <1>3, <2>5
  <2>9. f[j] = <<c>> \o f[j + 2]
    BY ONLY <2>5, <2>7, <2>8, Zenon
  <2> QED BY <2>2, <2>9
<1>4. CASE c = "newline"
  <2>1. Escaped(c) = <<"backslash", "n">>
    BY <1>4, EscapedText
  <2>2. Len(Escaped(c)) = 2 /\ Escaped(c)[1] = "backslash" /\ Escaped(c)[2] = "n"
    BY <2>1
  <2>3. v[j - 1 + 1] = Escaped(c)[1] /\ v[j - 1 + 2] = Escaped(c)[2]
    BY <2>2
  <2>4. j - 1 + 1 = j /\ j - 1 + 2 = j + 1
    OBVIOUS
  <2>5. v[j] = "backslash" /\ v[j + 1] = "n"
    BY <2>2, <2>3, <2>4
  <2>6. j \in 2 .. L + 1 /\ j < L /\ j + 1 < L
    BY <1>1, <2>2 DEF L
  <2>7. f[j] = <<IF v[j + 1] = "n" THEN "newline" ELSE v[j + 1]>> \o f[j + 2]
    BY <1>2, <2>5, <2>6
  <2>8. f[j] = <<c>> \o f[j + 2]
    BY ONLY <1>4, <2>5, <2>7, Zenon
  <2> QED BY <2>2, <2>8
<1>5. CASE c \notin {"backslash", "quote", "newline"}
  <2>1. Escaped(c) = <<c>>
    BY <1>5, EscapedText
  <2>2. Len(Escaped(c)) = 1 /\ Escaped(c)[1] = c
    BY <2>1
  <2>3. v[j - 1 + 1] = Escaped(c)[1]
    BY <2>2
  <2>4. j - 1 + 1 = j
    OBVIOUS
  <2>5. v[j] = c
    BY <2>2, <2>3, <2>4
  <2>6. j \in 2 .. L + 1 /\ j < L
    BY <1>1, <2>2 DEF L
  <2>7. v[j] # "backslash"
    BY <1>5, <2>5
  <2>8. f[j] = <<v[j]>> \o f[j + 1]
    BY <1>2, <2>6, <2>7
  <2>9. f[j] = <<c>> \o f[j + 1]
    BY ONLY <2>5, <2>8, Zenon
  <2> QED BY <2>2, <2>9
<1> QED BY <1>3, <1>4, <1>5

\* Whatever is in a string, quoting and unquoting it yields it again.
LEMMA QuoteRead ==
    ASSUME NEW s \in Seq(Chars)
    PROVE  Quote(s) \in Seq(Chars) /\ Unquote(Quote(s)) = s
<1> DEFINE v == Quote(s)
           size == Len(s)
<1>1. PICK at \in [0 .. size -> Nat] :
         /\ v \in Seq(Chars) /\ Len(v) = at[size] + 2
         /\ v[1] = "quote" /\ v[Len(v)] = "quote" /\ at[0] = 0
         /\ \A n \in 1 .. size : at[n] = at[n - 1] + Len(Escaped(s[n]))
         /\ \A n \in 1 .. size : \A j \in 1 .. Len(Escaped(s[n])) :
               at[n - 1] + j <= at[size] /\ v[1 + at[n - 1] + j] = Escaped(s[n])[j]
  BY Quoted
<1>2. size \in Nat /\ at[size] \in Nat
  <2>1. size \in Nat /\ size \in 0 .. size
    OBVIOUS
  <2> HIDE DEF size
  <2> QED BY <2>1
<1> HIDE DEF v
<1>3. Unquote(v) = Unescaped(v)
  <2>1. Head(v) = v[1] /\ Last(v) = v[Len(v)]
    BY DEF Last
  <2>2. Len(v) >= 2
    BY <1>1, <1>2
  <2> QED BY <1>1, <2>1, <2>2, Zenon DEF Unquote
<1>4. PICK f : Reads(f, v, 2) /\ Unescaped(v) = f[2]
  <2>1. v \in Seq(Chars) /\ Len(v) >= 2
    BY <1>1, <1>2
  <2> QED BY <2>1, Reader
<1> DEFINE T == {n \in Nat : n <= size => f[2 + at[size - n]] = SubSeq(s, size - n + 1, size)}
<1>5. 0 \in T
  <2>1. size - 0 = size /\ 2 + at[size] \in 2 .. Len(v) + 1 /\ 2 + at[size] >= Len(v)
    BY <1>1, <1>2
  <2>2. f[2 + at[size]] = <<>>
    BY <1>1, <1>4, <2>1, ReaderStep, ZenonT(40)
  <2>3. SubSeq(s, size + 1, size) = <<>>
    BY <1>2
  <2> HIDE DEF size
  <2> QED BY <2>1, <2>2, <2>3
<1>6. ASSUME NEW n \in Nat, n \in T PROVE n + 1 \in T
  <2> SUFFICES ASSUME n + 1 <= size
               PROVE  f[2 + at[size - (n + 1)]] = SubSeq(s, size - (n + 1) + 1, size)
    OBVIOUS
  <2> DEFINE m == size - n
             c == s[m]
             e == Escaped(c)
             low == at[m - 1]
  <2>1. m \in 1 .. size /\ m - 1 = size - (n + 1) /\ m - 1 \in 0 .. size
    BY <1>2
  <2>2. f[2 + at[m]] = SubSeq(s, m + 1, size)
    BY <1>6
  <2>3. c \in Chars
    BY <2>1
  <2>4. SubSeq(s, m, size) = <<c>> \o SubSeq(s, m + 1, size)
    <3> HIDE DEF m
    <3> QED BY <2>1, SubSeqHead
  <2>5. Len(e) \in {1, 2}
    <3>1. Len(<<"backslash", c>>) = 2 /\ Len(<<"backslash", "n">>) = 2 /\ Len(<<c>>) = 1
      OBVIOUS
    <3> HIDE DEF c
    <3> QED BY <2>3, <3>1, EscapedText
  <2>6. low \in Nat /\ at[m] = low + Len(e)
    BY <1>1, <2>1
  <2>7. \A j \in 1 .. Len(e) : low + j <= at[size] /\ v[1 + low + j] = e[j]
    BY <1>1, <2>1
  <2> HIDE DEF m, c, e, low, size
  <2>8. (2 + low) + Len(e) <= Len(v)
    <3>1. Len(e) \in 1 .. Len(e)
      BY <2>5
    <3>2. low + Len(e) <= at[size]
      BY <2>7, <3>1
    <3> QED BY <1>1, <1>2, <2>5, <2>6, <3>2
  <2>9. \A j \in 1 .. Len(e) : v[(2 + low) - 1 + j] = e[j]
    <3> TAKE j \in 1 .. Len(e)
    <3>1. (2 + low) - 1 + j = 1 + low + j
      BY <2>5, <2>6
    <3> QED BY <2>7, <3>1
  <2>10. f[2 + low] = <<c>> \o f[(2 + low) + Len(e)]
    <3>1. 2 + low \in Nat /\ 2 + low >= 2 /\ v \in Seq(Chars)
      BY <1>1, <2>6
    <3> DEFINE j == 2 + low
    <3>2. j \in Nat /\ j >= 2 /\ v \in Seq(Chars) /\ j + Len(e) <= Len(v)
          /\ \A i \in 1 .. Len(e) : v[j - 1 + i] = e[i]
      BY <2>8, <2>9, <3>1
    <3> HIDE DEF j
    <3>3. f[j] = <<c>> \o f[j + Len(e)]
      BY <1>4, <2>3, <3>2, ReadBack, ZenonT(40) DEF e
    <3> QED BY <3>3 DEF j
  <2>11. (2 + low) + Len(e) = 2 + at[m]
    BY <2>5, <2>6
  <2>12. f[2 + low] = SubSeq(s, m, size)
    BY <2>2, <2>4, <2>10, <2>11
  <2>13. low = at[size - (n + 1)] /\ size - (n + 1) + 1 = m
    BY <1>2, <2>1 DEF low, m
  <2> QED BY <2>12, <2>13
<1>7. f[2] = SubSeq(s, 1, size)
  <2>1. size \in T
    <3> HIDE DEF T
    <3> QED BY <1>2, <1>5, <1>6, Induction
  <2>2. size <= size /\ size - size = 0 /\ 2 + at[0] = 2 /\ size - size + 1 = 1
    BY <1>1, <1>2
  <2> QED BY <2>1, <2>2
<1>8. SubSeq(s, 1, size) = s
  OBVIOUS
<1> QED BY <1>1, <1>3, <1>4, <1>7, <1>8 DEF v

LEMMA DigitFacts ==
    /\ \A i \in 1 .. 10 : Digits[i] \in Chars
    /\ \A i, j \in 1 .. 10 : Digits[i] = Digits[j] => i = j
    /\ Digits[2] = "1"
<1>1. /\ Digits[1] = "0" /\ Digits[2] = "1" /\ Digits[3] = "2" /\ Digits[4] = "3" /\ Digits[5] = "4"
      /\ Digits[6] = "5" /\ Digits[7] = "6" /\ Digits[8] = "7" /\ Digits[9] = "8" /\ Digits[10] = "9"
  BY DEF Digits
<1>2. \A i \in 1 .. 10 : \/ i = 1 \/ i = 2 \/ i = 3 \/ i = 4 \/ i = 5
                         \/ i = 6 \/ i = 7 \/ i = 8 \/ i = 9 \/ i = 10
  OBVIOUS
<1>3. ASSUME NEW i \in 1 .. 10, NEW j \in 1 .. 10, Digits[i] = Digits[j] PROVE i = j
  <2>1. \A x \in 1 .. 10 :
           /\ Digits[x] = "0" => x = 1
           /\ Digits[x] = "1" => x = 2
           /\ Digits[x] = "2" => x = 3
           /\ Digits[x] = "3" => x = 4
           /\ Digits[x] = "4" => x = 5
           /\ Digits[x] = "5" => x = 6
           /\ Digits[x] = "6" => x = 7
           /\ Digits[x] = "7" => x = 8
           /\ Digits[x] = "8" => x = 9
           /\ Digits[x] = "9" => x = 10
    BY <1>1, <1>2
  <2> QED BY <1>1, <1>2, <1>3, <2>1
<1>4. DOMAIN Digits = 1 .. 10
  BY DEF Digits
<1>5. ASSUME NEW i \in 1 .. 10 PROVE Digits[i] \in Chars
  <2>1. Digits[i] \in Range(Digits)
    BY <1>4 DEF Range
  <2> QED BY <2>1, StringsAssumption
<1> QED BY <1>1, <1>3, <1>5

LEMMA WrittenNumber ==
    ASSUME NEW n \in -9 .. 9
    PROVE  /\ Written(n) \in Seq(Chars)
           /\ Unquote(Written(n)) = Written(n)
           /\ n >= 0 => Written(n) = <<Digits[1 + n]>>
           /\ n < 0 => Len(Written(n)) = 2
<1>1. CASE n < 0
  <2> DEFINE d == Digits[1 - n]
             w == Written(n)
  <2>1. w = <<"-", d>>
    BY <1>1, Zenon DEF Written
  <2>2. d \in Chars
    <3>1. 1 - n \in 1 .. 10
      BY <1>1
    <3> QED BY <3>1, DigitFacts
  <2> HIDE DEF d, w
  <2>3. w \in Seq(Chars) /\ Len(w) = 2
    BY <2>1, <2>2, MarksAreChars
  <2>4. Head(w) # "quote"
    <3>1. Head(w) = "-"
      BY <2>1
    <3> QED BY <3>1
  <2>5. Unquote(w) = w
    BY <2>4, Zenon DEF Unquote
  <2> QED BY <1>1, <2>3, <2>5 DEF w
<1>2. CASE ~(n < 0)
  <2> DEFINE d == Digits[1 + n]
             w == Written(n)
  <2>1. w = <<d>>
    BY <1>2, Zenon DEF Written
  <2>2. d \in Chars
    <3>1. 1 + n \in 1 .. 10
      BY <1>2
    <3> QED BY <3>1, DigitFacts
  <2> HIDE DEF d, w
  <2>3. w \in Seq(Chars) /\ Len(w) = 1
    BY <2>1, <2>2
  <2>4. ~(Len(w) >= 2)
    BY <2>3
  <2>5. Unquote(w) = w
    BY <2>4, Zenon DEF Unquote
  <2> QED BY <1>2, <2>1, <2>3, <2>5 DEF w, d
<1> QED BY <1>1, <1>2

\* A number is read back, unless it has a sign.
LEMMA NumberRead ==
    ASSUME NEW n \in -9 .. 9
    PROVE  /\ IsNumber(Written(n)) <=> n >= 0
           /\ n >= 0 => Number(Written(n)) = n
<1>1. \A m \in 0 .. 9 : m \in -9 .. 9 /\ m >= 0
  OBVIOUS
<1>2. ASSUME NEW m \in 0 .. 9, Written(n) = Written(m) PROVE n = m
  <2>1. Written(m) = <<Digits[1 + m]>>
    BY <1>1, WrittenNumber
  <2>2. n >= 0
    <3>1. Len(Written(m)) = 1
      BY <2>1
    <3>2. ~(n < 0)
      <4>1. n < 0 => Len(Written(n)) = 2
        BY WrittenNumber
      <4>2. Len(Written(n)) = 1
        BY <1>2, <3>1
      <4> QED BY <4>1, <4>2
    <3> QED BY <3>2
  <2>3. Written(n) = <<Digits[1 + n]>>
    BY <2>2, WrittenNumber
  <2>4. Digits[1 + n] = Digits[1 + m]
    BY <1>2, <2>1, <2>3
  <2>5. 1 + n \in 1 .. 10 /\ 1 + m \in 1 .. 10
    BY <2>2
  <2>6. 1 + n = 1 + m
    BY <2>4, <2>5, DigitFacts
  <2> QED BY <2>6
<1>3. Unquote(Written(n)) = Written(n)
  BY WrittenNumber
<1>4. ASSUME n >= 0 PROVE n \in 0 .. 9
  BY <1>4
<1>5. IsNumber(Written(n)) <=> \E m \in 0 .. 9 : Written(n) = Written(m)
  BY <1>3, Zenon DEF IsNumber
<1>6. IsNumber(Written(n)) => n >= 0
  <2> SUFFICES ASSUME IsNumber(Written(n)) PROVE n >= 0
    OBVIOUS
  <2>1. PICK m \in 0 .. 9 : Written(n) = Written(m)
    BY <1>5
  <2>2. n = m
    BY <1>2, <2>1
  <2> QED BY <2>2
<1>7. n >= 0 => IsNumber(Written(n))
  BY <1>4, <1>5
<1>8. n >= 0 => Number(Written(n)) = n
  <2> SUFFICES ASSUME n >= 0 PROVE Number(Written(n)) = n
    OBVIOUS
  <2>1. Number(Written(n)) = CHOOSE m \in 0 .. 9 : Written(n) = Written(m)
    BY <1>3, Zenon DEF Number
  <2>2. n \in 0 .. 9 /\ Written(n) = Written(n)
    BY <1>4
  <2> DEFINE x == CHOOSE m \in 0 .. 9 : Written(n) = Written(m)
  <2>3. x \in 0 .. 9 /\ Written(n) = Written(x)
    BY <2>2, Zenon
  <2> HIDE DEF x
  <2>4. n = x
    BY <1>2, <2>3
  <2> QED BY <2>1, <2>4 DEF x
<1> QED BY <1>6, <1>7, <1>8

\* What the three lines of the manifest itself say.
LEMMA HeaderRead ==
    /\ IsNumber(<<"1">>) /\ Unquote(<<"1">>) = <<"1">> /\ <<"1">> \in Seq(Chars)
    /\ Quote(<<"now">>) \in Seq(Chars) /\ Unquote(Quote(<<"now">>)) = <<"now">>
    /\ <<"now">> # None
<1>1. Written(1) = <<"1">>
  <2>1. 1 \in -9 .. 9 /\ 1 >= 0 /\ 1 + 1 = 2
    OBVIOUS
  <2>2. Written(1) = <<Digits[1 + 1]>>
    BY <2>1, WrittenNumber
  <2>3. Digits[1 + 1] = "1"
    BY <2>1, DigitFacts
  <2> QED BY <2>2, <2>3, Zenon
<1>2. IsNumber(Written(1)) /\ Unquote(Written(1)) = Written(1) /\ Written(1) \in Seq(Chars)
  <2>1. 1 \in -9 .. 9 /\ 1 >= 0
    OBVIOUS
  <2> QED BY <2>1, WrittenNumber, NumberRead
<1>3. <<"now">> \in Seq(Chars)
  BY MarksAreChars
<1>4. <<"now">> # None
  BY DEF None
<1> QED BY <1>1, <1>2, <1>3, <1>4, QuoteRead, Zenon

-----------------------------------------------------------------------------
(* The values that stand in lines and entries.                             *)

GoodLines(lines) == \A i \in DOMAIN lines : lines[i].value \in Seq(Chars)
GoodEntry(e) ==
    /\ Required \subseteq DOMAIN e /\ \A k \in DOMAIN e : IsValue(k, e[k])
    /\ e["id"] \in Ulids /\ e["fingerprint"] \in Hashes
GoodMap(m) == \A n \in DOMAIN m : n \in Seq(Chars) /\ IsName(n) /\ GoodEntry(m[n])

LEMMA NumberRange ==
    ASSUME NEW k \in Numbers, NEW x, IsValue(k, x)
    PROVE  x \in -9 .. 9 /\ (k \notin Dates => x \in 0 .. 9)
<1>1. x \in (IF k \in Dates THEN -9 .. 9 ELSE 0 .. 9)
  BY Zenon DEF IsValue
<1>2. \A y \in 0 .. 9 : y \in -9 .. 9
  OBVIOUS
<1> QED BY <1>1, <1>2

LEMMA StringValue ==
    ASSUME NEW k, k \notin Numbers, NEW x
    PROVE  IsValue(k, x) <=> x \in Seq(Chars)
BY Zenon DEF IsValue

LEMMA ValueWritten ==
    ASSUME NEW k, NEW x, IsValue(k, x)
    PROVE  WrittenValue(k, x) \in Seq(Chars)
<1>1. CASE k \in Numbers
  <2>1. WrittenValue(k, x) = Written(x)
    BY <1>1, Zenon DEF WrittenValue
  <2>2. x \in -9 .. 9
    BY <1>1, NumberRange
  <2> QED BY <2>1, <2>2, WrittenNumber
<1>2. CASE k \notin Numbers
  <2>1. x \in Seq(Chars)
    BY <1>2, StringValue
  <2>2. WrittenValue(k, x) = Quote(x) \/ WrittenValue(k, x) = x
    BY <1>2, Zenon DEF WrittenValue
  <2> QED BY <2>1, <2>2, QuoteRead
<1> QED BY <1>1, <1>2

\* What a section is made of, line by line.
LEMMA SectionLines ==
    ASSUME NEW lines, NEW name, NEW e, IsSection(lines, name, e)
    PROVE  /\ Len(lines) \in Nat /\ DOMAIN lines = 1 .. Len(lines) /\ Len(lines) >= 2
           /\ lines[1].kind = "blank" /\ lines[2].kind = "section" /\ lines[2].key = "files"
           /\ lines[2].value = Quote(name) /\ lines[1].value = <<>>
           /\ \A j \in 3 .. Len(lines) :
                 /\ lines[j].kind = "pair" /\ lines[j].key \in DOMAIN e
                 /\ lines[j].value = WrittenValue(lines[j].key, e[lines[j].key])
           /\ \A k \in DOMAIN e : \E j \in 3 .. Len(lines) : lines[j].key = k
<1>1. Len(lines) \in Nat /\ DOMAIN lines = 1 .. Len(lines) /\ Len(lines) >= 2
  BY ListLength DEF IsSection
<1>2. lines[1].kind = "blank" /\ lines[1].value = <<>>
  <2>1. lines[1] = Blank
    BY DEF IsSection
  <2> QED BY <2>1 DEF Blank
<1>3. lines[2].kind = "section" /\ lines[2].key = "files" /\ lines[2].value = Quote(name)
  <2>1. lines[2] = Section(Quote(name))
    BY DEF IsSection
  <2> QED BY <2>1 DEF Section
<1>4. \A k : /\ PairOf(e, k).kind = "pair" /\ PairOf(e, k).key = k
             /\ PairOf(e, k).value = WrittenValue(k, e[k])
  BY DEF PairOf, Pair
<1>5. ASSUME NEW j \in 3 .. Len(lines)
      PROVE  /\ lines[j].kind = "pair" /\ lines[j].key \in DOMAIN e
             /\ lines[j].value = WrittenValue(lines[j].key, e[lines[j].key])
  <2>1. PICK k \in DOMAIN e : lines[j] = PairOf(e, k)
    BY DEF IsSection
  <2> QED BY <1>4, <2>1
<1>6. ASSUME NEW k \in DOMAIN e PROVE \E j \in 3 .. Len(lines) : lines[j].key = k
  <2>1. PICK j \in 3 .. Len(lines) : lines[j] = PairOf(e, k)
    BY DEF IsSection
  <2> QED BY <1>4, <2>1
<1> QED BY <1>1, <1>2, <1>3, <1>5, <1>6

\* Every line behind the first three is the j-th of the section of an entry.
IsLineOf(lines, m, n, b, j) ==
    /\ Stands(lines, b, EntryLines(n, m[n])) /\ j \in 1 .. Len(EntryLines(n, m[n]))
    /\ lines[b + j] = EntryLines(n, m[n])[j]

LEMMA LineOf ==
    ASSUME NEW lines, NEW d, NEW m, IsManifest(lines, d, m), FiniteMap(m), NEW p \in 4 .. Len(lines)
    PROVE  \E n \in DOMAIN m : \E b \in Nat, j \in Nat : p = b + j /\ IsLineOf(lines, m, n, b, j)
<1>1. PICK n \in DOMAIN m : \E b \in Nat : /\ Stands(lines, b, EntryLines(n, m[n]))
                                           /\ b < p /\ p <= b + Len(EntryLines(n, m[n]))
  BY DEF IsManifest
<1>2. PICK b \in Nat : /\ Stands(lines, b, EntryLines(n, m[n]))
                       /\ b < p /\ p <= b + Len(EntryLines(n, m[n]))
  BY <1>1
<1> DEFINE block == EntryLines(n, m[n])
<1>3. Len(block) \in Nat
  <2>1. IsSection(block, n, m[n])
    BY SectionWritten DEF FiniteMap
  <2> HIDE DEF block
  <2> QED BY <2>1, SectionLines
<1> HIDE DEF block
<1>4. p - b \in 1 .. Len(block) /\ b + (p - b) = p /\ p - b \in Nat
  BY <1>2, <1>3 DEF block
<1>5. lines[b + (p - b)] = block[p - b]
  BY <1>2, <1>4 DEF Stands, block
<1>6. IsLineOf(lines, m, n, b, p - b)
  BY <1>2, <1>4, <1>5 DEF IsLineOf, block
<1> QED BY <1>4, <1>6

LEMMA SectionGood ==
    ASSUME NEW lines, NEW name \in Seq(Chars), NEW e, IsSection(lines, name, e), GoodEntry(e)
    PROVE  GoodLines(lines)
<1> SUFFICES ASSUME NEW j \in DOMAIN lines PROVE lines[j].value \in Seq(Chars)
  BY DEF GoodLines
<1>1. j = 1 \/ j = 2 \/ j \in 3 .. Len(lines)
  BY SectionLines
<1>2. CASE j = 1
  <2>1. lines[1].value = <<>> /\ <<>> \in Seq(Chars)
    BY SectionLines
  <2> QED BY <1>2, <2>1
<1>3. CASE j = 2
  <2>1. lines[2].value = Quote(name)
    BY SectionLines
  <2> QED BY <1>3, <2>1, QuoteRead
<1>4. CASE j \in 3 .. Len(lines)
  <2> DEFINE k == lines[j].key
  <2>1. k \in DOMAIN e /\ lines[j].value = WrittenValue(k, e[k])
    BY <1>4, SectionLines
  <2>2. IsValue(k, e[k])
    BY <2>1 DEF GoodEntry
  <2> QED BY <2>1, <2>2, ValueWritten
<1> QED BY <1>1, <1>2, <1>3, <1>4

LEMMA ManifestGood ==
    ASSUME NEW lines, NEW d \in Ulids, NEW m, IsManifest(lines, d, m), FiniteMap(m), GoodMap(m)
    PROVE  GoodLines(lines)
<1> SUFFICES ASSUME NEW p \in DOMAIN lines PROVE lines[p].value \in Seq(Chars)
  BY DEF GoodLines
<1>1. Len(lines) \in Nat /\ DOMAIN lines = 1 .. Len(lines)
  BY ListLength DEF IsManifest
<1>2. p = 1 \/ p = 2 \/ p = 3 \/ p \in 4 .. Len(lines)
  BY <1>1
<1>3. \A k, x : Pair(k, x).value = x
  BY DEF Pair
<1>4. CASE p = 1
  <2>1. lines[1] = Pair("version", <<"1">>)
    BY DEF IsManifest
  <2>2. lines[1].value = <<"1">>
    BY <1>3, <2>1
  <2> QED BY <1>4, <2>2, HeaderRead, Zenon
<1>5. CASE p = 2
  <2>1. lines[2] = Pair("directory_id", Quote(d))
    BY DEF IsManifest
  <2>2. lines[2].value = Quote(d)
    BY <1>3, <2>1
  <2>3. d \in Seq(Chars)
    BY StringsAssumption
  <2> QED BY <1>5, <2>2, <2>3, QuoteRead
<1>6. CASE p = 3
  <2>1. lines[3] = Pair("generated_at", Quote(<<"now">>))
    BY DEF IsManifest
  <2>2. lines[3].value = Quote(<<"now">>)
    BY <1>3, <2>1
  <2> QED BY <1>6, <2>2, HeaderRead, Zenon
<1>7. CASE p \in 4 .. Len(lines)
  <2>1. PICK n \in DOMAIN m : \E b \in Nat, j \in Nat : p = b + j /\ IsLineOf(lines, m, n, b, j)
    BY <1>7, LineOf
  <2>2. PICK b \in Nat, j \in Nat : p = b + j /\ IsLineOf(lines, m, n, b, j)
    BY <2>1
  <2> DEFINE block == EntryLines(n, m[n])
  <2>3. IsSection(block, n, m[n])
    BY SectionWritten DEF FiniteMap
  <2>4. lines[p] = block[j] /\ j \in 1 .. Len(block)
    BY <2>2 DEF IsLineOf
  <2> HIDE DEF block
  <2>5. n \in Seq(Chars) /\ GoodEntry(m[n])
    BY DEF GoodMap
  <2>6. GoodLines(block) /\ DOMAIN block = 1 .. Len(block)
    BY <2>3, <2>5, SectionGood, SectionLines
  <2> QED BY <2>4, <2>6 DEF GoodLines
<1> QED BY <1>2, <1>4, <1>5, <1>6, <1>7

\* A complete record of such values becomes such an entry.
LEMMA EntryGood ==
    ASSUME NEW name, NEW values, Complete(name, values), \A k \in DOMAIN values : values[k] \in Seq(Chars)
    PROVE  GoodEntry(EntryOf(values))
<1> DEFINE keys == {k \in DOMAIN values : k \in Numbers => IsNumber(values[k])}
           e == EntryOf(values)
<1>1. DOMAIN e = keys
  BY Zenon DEF EntryOf
<1>2. \A k \in keys : /\ k \in Numbers => e[k] = Number(values[k])
                      /\ k \notin Numbers /\ k \in Known => e[k] = Unquote(values[k])
                      /\ k \notin Known /\ k \notin Numbers => e[k] = values[k]
  BY Zenon DEF EntryOf
<1>3. Required \subseteq keys
  <2>1. Required \subseteq DOMAIN values /\ IsNumber(values.size) /\ IsNumber(values.modified_ns)
    BY DEF Complete
  <2>2. \A k \in Required : k \in Numbers => k = "size" \/ k = "modified_ns"
    BY DEF Required, Numbers, OptionalNumbers
  <2> QED BY <2>1, <2>2
<1>4. \A k \in keys : k \in DOMAIN values /\ (k \in Numbers => IsNumber(values[k]))
  OBVIOUS
<1> HIDE DEF e, keys
<1>5. e["id"] \in Ulids /\ e["fingerprint"] \in Hashes
  <2>1. /\ "id" \in Known /\ "id" \notin Numbers /\ "id" \in Required
        /\ "fingerprint" \in Known /\ "fingerprint" \notin Numbers /\ "fingerprint" \in Required
    BY DEF Known, Numbers, Required, OptionalNumbers
  <2>2. Unquote(values["id"]) \in Ulids /\ Unquote(values["fingerprint"]) \in Hashes
    BY DEF Complete
  <2> QED BY <1>2, <1>3, <2>1, <2>2
<1>6. ASSUME NEW k \in DOMAIN e PROVE IsValue(k, e[k])
  <2>1. k \in keys /\ values[k] \in Seq(Chars)
    BY <1>1, <1>4
  <2>2. CASE k \in Numbers
    <3>1. e[k] = Number(values[k]) /\ IsNumber(values[k])
      BY <1>2, <1>4, <2>1, <2>2
    <3>2. Number(values[k]) \in 0 .. 9
      <4>1. \E n \in 0 .. 9 : Unquote(values[k]) = Written(n)
        BY <3>1 DEF IsNumber
      <4> QED BY <4>1, Zenon DEF Number
    <3>3. \A x \in 0 .. 9 : x \in -9 .. 9
      OBVIOUS
    <3>4. e[k] \in (IF k \in Dates THEN -9 .. 9 ELSE 0 .. 9)
      BY <3>1, <3>2, <3>3
    <3> QED BY <2>2, <3>4, Zenon DEF IsValue
  <2>3. CASE k \notin Numbers
    <3>1. e[k] = Unquote(values[k]) \/ e[k] = values[k]
      BY <1>2, <2>1, <2>3
    <3>2. e[k] \in Seq(Chars)
      BY <2>1, <3>1, UnquotedText
    <3> QED BY <2>3, <3>2, StringValue
  <2> QED BY <2>2, <2>3
<1> QED BY <1>1, <1>3, <1>5, <1>6 DEF GoodEntry, e

LEMMA MetadataGood ==
    ASSUME disk \in Disks, NEW name \in DOMAIN disk
    PROVE  /\ name \in Seq(Chars) /\ IsName(name)
           /\ Required \ {"id"} \subseteq DOMAIN disk[name] /\ "id" \notin DOMAIN disk[name]
           /\ \A k \in DOMAIN disk[name] : IsValue(k, disk[name][k])
           /\ disk[name]["fingerprint"] \in Hashes
<1>1. name \in Seq(Chars) /\ IsName(name) /\ IsMetadata(disk[name])
  BY DisksAssumption
<1> QED BY <1>1 DEF IsMetadata

LEMMA NewGood ==
    ASSUME disk \in Disks, NEW name \in DOMAIN disk
    PROVE  GoodEntry(NewEntry(name))
<1> DEFINE u == CHOOSE id \in Ulids : TRUE
           given == [id |-> u]
           e == NewEntry(name)
<1>1. u \in Ulids
  BY StringsAssumption
<1> HIDE DEF u
<1>2. u \in Seq(Chars)
  BY <1>1, StringsAssumption
<1>3. DOMAIN given = {"id"} /\ given["id"] = u
  OBVIOUS
<1>4. e = Over(disk[name], given)
  BY Zenon DEF NewEntry, u
<1> HIDE DEF given, e
<1>5. DOMAIN e = DOMAIN disk[name] \cup {"id"} /\ (\A k \in DOMAIN disk[name] : e[k] = disk[name][k])
      /\ ("id" \notin DOMAIN disk[name] => e["id"] = u)
  BY <1>3, <1>4, Zenon DEF Over
<1>6. "id" \notin Numbers /\ "fingerprint" \in Required \ {"id"}
  BY DEF Numbers, OptionalNumbers, Required
<1>7. IsValue("id", u)
  BY <1>2, <1>6, StringValue
<1>8. \A k \in DOMAIN e : IsValue(k, e[k])
  BY <1>5, <1>7, MetadataGood
<1>9. Required \subseteq DOMAIN e /\ e["id"] \in Ulids /\ e["fingerprint"] \in Hashes
  BY <1>1, <1>5, <1>6, MetadataGood
<1> QED BY <1>8, <1>9 DEF GoodEntry, e

LEMMA RefreshedGood ==
    ASSUME disk \in Disks, NEW name \in DOMAIN disk, NEW old, GoodEntry(old)
    PROVE  GoodEntry(Refreshed(old, disk[name]))
<1> DEFINE new == Refreshed(old, disk[name])
           kept == Restrict(old, {k \in DOMAIN old : Extension(k) \/ k = "id"})
<1>1. new = old \/ new = Over(disk[name], kept)
  BY Zenon DEF Refreshed
<1>2. CASE new = old
  <2> HIDE DEF new
  <2> QED BY <1>2 DEF new
<1>3. CASE new = Over(disk[name], kept)
  <2>1. DOMAIN kept = {k \in DOMAIN old : Extension(k) \/ k = "id"} /\ \A k \in DOMAIN kept : kept[k] = old[k]
    BY DEF Restrict
  <2> HIDE DEF kept, new
  <2>2. DOMAIN new = DOMAIN disk[name] \cup DOMAIN kept
        /\ (\A k \in DOMAIN disk[name] : new[k] = disk[name][k])
        /\ (\A k \in DOMAIN kept : k \notin DOMAIN disk[name] => new[k] = kept[k])
    BY <1>3, Zenon DEF Over
  <2>3. "id" \in Required /\ "fingerprint" \in Required \ {"id"}
    BY DEF Required
  <2>4. "id" \in DOMAIN kept
    BY <2>1, <2>3 DEF GoodEntry
  <2>5. Required \subseteq DOMAIN new /\ new["id"] \in Ulids /\ new["fingerprint"] \in Hashes
    BY <2>1, <2>2, <2>3, <2>4, MetadataGood DEF GoodEntry
  <2>6. \A k \in DOMAIN new : IsValue(k, new[k])
    BY <2>1, <2>2, MetadataGood DEF GoodEntry
  <2> QED BY <2>5, <2>6 DEF GoodEntry, new
<1> QED BY <1>1, <1>2, <1>3

LEMMA ObserveGood ==
    ASSUME disk \in Disks, NEW es, FiniteMap(es), GoodMap(es), NEW name \in DOMAIN disk
    PROVE  GoodMap(Observe(es, name))
<1> DEFINE new == Observe(es, name)
<1>1. Adds(es, name, new) \/ \E m \in DOMAIN es : Updates(es, name, m, new)
  BY ObserveDoes
<1> HIDE DEF new
<1>2. \A m \in DOMAIN es : GoodEntry(Refreshed(es[m], disk[name]))
  BY RefreshedGood DEF GoodMap
<1>3. /\ GoodEntry(new[name]) /\ DOMAIN new \subseteq DOMAIN es \cup {name}
      /\ \A x \in DOMAIN new : x # name => new[x] = es[x]
  <2>1. CASE Adds(es, name, new)
    BY <2>1, NewGood DEF Adds
  <2>2. CASE \E m \in DOMAIN es : Updates(es, name, m, new)
    BY <1>2, <2>2 DEF Updates
  <2> QED BY <1>1, <2>1, <2>2
<1>4. name \in Seq(Chars) /\ IsName(name)
  BY MetadataGood
<1>5. \A x \in DOMAIN new : x \in Seq(Chars) /\ IsName(x) /\ GoodEntry(new[x])
  BY <1>3, <1>4 DEF GoodMap
<1> QED BY <1>5 DEF GoodMap, new

LEMMA ReconciledGood ==
    ASSUME disk \in Disks, FiniteMap(entries), GoodMap(entries)
    PROVE  GoodMap(Reconciled)
<1>1. PICK n \in Nat : \E after : Stages(after, n)
  BY ObservedStages
<1>2. PICK after : Stages(after, n)
  BY <1>1
<1> DEFINE all == {after[i] : i \in 0 .. n}
           G == {es \in all : FiniteMap(es) /\ GoodMap(es)}
<1>3. entries \in G
  <2>1. entries \in all
    BY <1>2 DEF Stages
  <2> HIDE DEF all
  <2> QED BY <2>1
<1>4. ASSUME NEW i \in 1 .. n, after[i - 1] \in G PROVE after[i] \in G
  <2>1. PICK name \in DOMAIN disk : after[i] = Observe(after[i - 1], name)
    BY <1>2 DEF Stages
  <2>2. FiniteMap(after[i - 1]) /\ GoodMap(after[i - 1])
    BY <1>4
  <2>3. FiniteMap(after[i]) /\ GoodMap(after[i])
    BY <2>1, <2>2, ObserveFinite, ObserveGood
  <2>4. after[i] \in all
    OBVIOUS
  <2> HIDE DEF all
  <2> QED BY <2>3, <2>4
<1>5. Observed \in G
  <2> HIDE DEF G
  <2> QED BY <1>2, <1>3, <1>4, StagesReach
<1>6. GoodMap(Observed)
  BY <1>5
<1>7. /\ DOMAIN Reconciled = DOMAIN Observed \cap DOMAIN disk
      /\ \A x \in DOMAIN Reconciled : Reconciled[x] = Observed[x]
  BY Zenon DEF Reconciled, Restrict
<1> QED BY <1>6, <1>7 DEF GoodMap

\* Strings are sequences of characters, and every entry has values of its fields.
DataInv ==
    /\ GoodLines(text) /\ GoodMap(entries)
    /\ pc \in {"records", "loaded"} => header.directory_id \in Ulids

LEMMA NoneGood == GoodMap(None)
BY EmptyMap DEF GoodMap

LEMMA RecordsGood ==
    ASSUME GoodLines(text), NEW heads, heads \subseteq DOMAIN text, NEW p, NEW rs,
           AreRecords(text, heads, p, rs), NEW n \in DOMAIN rs
    PROVE  n \in Seq(Chars) /\ \A k \in DOMAIN rs[n] : rs[n][k] \in Seq(Chars)
<1>1. PICK h \in heads : NameAt(text, h) = n /\ IsBody(text, h, p, rs[n])
  BY DEF AreRecords
<1>2. n \in Seq(Chars)
  <2>1. text[h].value \in Seq(Chars)
    BY DEF GoodLines
  <2> QED BY <1>1, <2>1, UnquotedText DEF NameAt
<1>3. ASSUME NEW k \in DOMAIN rs[n] PROVE rs[n][k] \in Seq(Chars)
  <2>1. PICK i \in BodyTo(text, h, p) : rs[n][k] = text[i].value
    BY <1>1 DEF IsBody
  <2>2. i \in DOMAIN text
    BY DEF BodyTo
  <2> QED BY <2>1, <2>2 DEF GoodLines
<1> QED BY <1>2, <1>3

LEMMA DataInit == Init => DataInv
<1> SUFFICES ASSUME Init PROVE DataInv
  OBVIOUS
<1>1. DOMAIN text = {}
  BY DEF Init
<1> QED BY <1>1, NoneGood DEF Init, DataInv, GoodLines

LEMMA DataUsers ==
    ASSUME TypeInv, DataInv, Insert \/ Repeat \/ Delete
    PROVE  DataInv'
<1> DEFINE S == {x \in {text[i] : i \in DOMAIN text} \cup UserLines : x.value \in Seq(Chars)}
<1>1. text \in Seq(S) /\ UserLines \subseteq S
  <2>1. text \in Seq({text[i] : i \in DOMAIN text})
    BY DEF TypeInv, TextInv, IsList
  <2>2. \A i \in DOMAIN text : text[i] \in S
    BY DEF DataInv, GoodLines
  <2>3. UserLines \subseteq S
    BY StringsAssumption
  <2> DEFINE R == {text[i] : i \in DOMAIN text}
  <2>4. R \subseteq S
    BY <2>2
  <2> HIDE DEF R, S
  <2> QED BY <2>1, <2>3, <2>4 DEF R
<1>2. \A k \in DOMAIN text : k \in 1 .. Len(text) /\ text[k] \in S
  <2> HIDE DEF S
  <2> QED BY <1>1
<1>3. ASSUME NEW lines, lines \in Seq(S), Change(lines) PROVE DataInv'
  <2>1. \A i \in DOMAIN lines : lines[i] \in S
    <3> HIDE DEF S
    <3> QED BY <1>3
  <2>2. \A i \in DOMAIN lines : lines[i].value \in Seq(Chars)
    BY <2>1
  <2>3. text' = lines /\ pc' = "idle" /\ entries' = entries
    BY <1>3 DEF Change
  <2> QED BY <2>2, <2>3 DEF DataInv, GoodLines, GoodMap
<1> HIDE DEF S
<1>4. CASE Insert
  <2>1. PICK k \in DOMAIN text, line \in UserLines : Change(InsertAt(text, k, line))
    BY <1>4 DEF Insert
  <2>2. SubSeq(text, 1, k - 1) \in Seq(S) /\ SubSeq(text, k, Len(text)) \in Seq(S)
    BY <1>1, <1>2
  <2>3. InsertAt(text, k, line) \in Seq(S)
    BY <1>1, <2>2 DEF InsertAt
  <2> QED BY <1>3, <2>1, <2>3
<1>5. CASE Repeat
  <2>1. PICK k \in DOMAIN text : Change(Append(text, text[k]))
    BY <1>5 DEF Repeat
  <2>2. Append(text, text[k]) \in Seq(S)
    BY <1>1, <1>2
  <2> QED BY <1>3, <2>1, <2>2
<1>6. CASE Delete
  <2>1. PICK k \in DOMAIN text : Change(RemoveAt(text, k))
    BY <1>6 DEF Delete
  <2>2. SubSeq(text, 1, k - 1) \in Seq(S) /\ SubSeq(text, k + 1, Len(text)) \in Seq(S)
    BY <1>1, <1>2
  <2>3. RemoveAt(text, k) \in Seq(S)
    BY <2>2 DEF RemoveAt
  <2> QED BY <1>3, <2>1, <2>3
<1> QED BY <1>4, <1>5, <1>6

LEMMA DataRecords ==
    ASSUME ReadInv, DataInv, AddRecord
    PROVE  DataInv'
<1>1. /\ pc = "records" /\ UNCHANGED <<text, header>>
      /\ \E n \in DOMAIN records :
           \/ Complete(n, records[n]) /\ entries' = With(entries, n, EntryOf(records[n])) /\ UNCHANGED pc
           \/ pc' = "refused" /\ entries' = None
  BY DEF AddRecord
<1>2. PICK n \in DOMAIN records :
           \/ Complete(n, records[n]) /\ entries' = With(entries, n, EntryOf(records[n])) /\ UNCHANGED pc
           \/ pc' = "refused" /\ entries' = None
  BY <1>1
<1>3. CASE pc' = "refused" /\ entries' = None
  BY <1>1, <1>3, NoneGood DEF DataInv, GoodLines
<1>4. CASE Complete(n, records[n]) /\ entries' = With(entries, n, EntryOf(records[n])) /\ UNCHANGED pc
  <2> DEFINE e == EntryOf(records[n])
             new == With(entries, n, e)
  <2>1. AreRecords(text, Before(text, Len(text) + 1), Len(text) + 1, records)
    BY <1>1 DEF ReadInv, RecordsInv
  <2>2. Before(text, Len(text) + 1) \subseteq DOMAIN text
    BY DEF Before
  <2>3. n \in Seq(Chars) /\ \A k \in DOMAIN records[n] : records[n][k] \in Seq(Chars)
    BY <2>1, <2>2, RecordsGood DEF DataInv
  <2>4. GoodEntry(e)
    BY <1>4, <2>3, EntryGood
  <2>5. IsName(n)
    BY <1>4 DEF Complete
  <2> HIDE DEF e
  <2>6. DOMAIN new = DOMAIN entries \cup {n} /\ new[n] = e
        /\ \A k \in DOMAIN entries : k # n => new[k] = entries[k]
    <3>1. DOMAIN With(entries, n, e) = DOMAIN entries \cup {n}
      BY WithDomain
    <3>2. With(entries, n, e)[n] = e
      BY WithNew
    <3>3. \A k \in DOMAIN entries : k # n => With(entries, n, e)[k] = entries[k]
      BY WithOld
    <3> QED BY <3>1, <3>2, <3>3, Zenon
  <2> HIDE DEF new
  <2>7. GoodMap(new)
    BY <2>3, <2>4, <2>5, <2>6 DEF GoodMap, DataInv
  <2>8. entries' = new
    BY <1>4 DEF new, e
  <2> QED BY <1>1, <1>4, <2>7, <2>8 DEF DataInv, GoodLines
<1> QED BY <1>2, <1>3, <1>4

LEMMA DataParse ==
    ASSUME ReadInv, DataInv, Parse
    PROVE  DataInv'
<1>1. CASE SkipLine \/ SectionLine \/ PairLine
  BY <1>1 DEF SkipLine, SectionLine, PairLine, AtLine, DataInv, GoodLines, GoodMap
<1>2. CASE EndOfText
  BY <1>2 DEF EndOfText, DataInv, GoodLines, GoodMap
<1>3. CASE AddRecord
  BY <1>3, DataRecords
<1>4. CASE EndOfRecords
  BY <1>4 DEF EndOfRecords, DataInv, GoodLines, GoodMap
<1> QED BY <1>1, <1>2, <1>3, <1>4 DEF Parse

\* What is saved, and the lines that are written for it.
LEMMA SaveDone ==
    ASSUME TypeInv, DataInv, SaveNew \/ SaveAgain
    PROVE  /\ FiniteMap(saved') /\ GoodMap(saved') /\ pc' = "idle" /\ entries' = None
           /\ \E d \in Ulids : IsManifest(text', d, saved')
<1>1. PICK d \in Ulids : Save(d)
  BY StringsAssumption DEF SaveNew, SaveAgain, DataInv
<1>2. disk \in Disks /\ FiniteMap(entries) /\ GoodMap(entries)
  BY DEF TypeInv, TextInv, DataInv
<1>3. FiniteMap(Reconciled) /\ GoodMap(Reconciled)
  BY <1>2, ReconciledFinite, ReconciledGood
<1>4. IsManifest(ToToml(d, Reconciled), d, Reconciled)
  BY <1>3, TextWritten
<1>5. saved' = Reconciled /\ text' = ToToml(d, Reconciled) /\ pc' = "idle" /\ entries' = None
  BY <1>1, Zenon DEF Save
<1> QED BY <1>3, <1>4, <1>5

LEMMA DataStep == TypeInv /\ ReadInv /\ DataInv /\ [Next]_vars => DataInv'
<1> SUFFICES ASSUME TypeInv, ReadInv, DataInv, [Next]_vars PROVE DataInv'
  OBVIOUS
<1>1. CASE UNCHANGED vars
  BY <1>1 DEF vars, DataInv, GoodLines, GoodMap
<1>2. CASE Insert \/ Repeat \/ Delete
  BY <1>2, DataUsers
<1>3. CASE Load
  BY <1>3, NoneGood DEF Load, DataInv, GoodLines
<1>4. CASE Parse
  BY <1>4, DataParse
<1>5. CASE SaveNew \/ SaveAgain
  <2>1. PICK d \in Ulids : IsManifest(text', d, saved')
    BY <1>5, SaveDone
  <2>2. FiniteMap(saved') /\ GoodMap(saved') /\ pc' = "idle" /\ entries' = None
    BY <1>5, SaveDone
  <2>3. GoodLines(text')
    BY <2>1, <2>2, ManifestGood
  <2> QED BY <2>2, <2>3, NoneGood DEF DataInv, GoodLines
<1>6. CASE Refuse
  BY <1>6 DEF Refuse, DataInv, GoodLines, GoodMap
<1> QED BY <1>1, <1>2, <1>3, <1>4, <1>5, <1>6 DEF Next
-----------------------------------------------------------------------------
(* What a reader makes of the lines that were written for a manifest.      *)

\* The section of one entry, where it stands.
IsSectionAt(lines, m, n, b, size) ==
    /\ size \in Nat /\ size >= 2 /\ b >= 3 /\ b + size <= Len(lines)
    /\ lines[b + 1].kind = "blank"
    /\ lines[b + 2].kind = "section" /\ lines[b + 2].key = "files" /\ NameAt(lines, b + 2) = n
    /\ \A j \in 3 .. size :
          /\ lines[b + j].kind = "pair" /\ lines[b + j].key \in DOMAIN m[n]
          /\ lines[b + j].value = WrittenValue(lines[b + j].key, m[n][lines[b + j].key])
    /\ \A k \in DOMAIN m[n] : \E j \in 3 .. size : lines[b + j].key = k

LEMMA SectionAt ==
    ASSUME NEW lines, IsList(lines), NEW m, FiniteMap(m), GoodMap(m), NEW n \in DOMAIN m,
           NEW b \in Nat, Stands(lines, b, EntryLines(n, m[n]))
    PROVE  IsSectionAt(lines, m, n, b, Len(EntryLines(n, m[n])))
<1> DEFINE block == EntryLines(n, m[n])
           size == Len(block)
<1>1. IsSection(block, n, m[n])
  BY SectionWritten DEF FiniteMap
<1> HIDE DEF block
<1>2. /\ size \in Nat /\ size >= 2
      /\ block[1].kind = "blank" /\ block[2].kind = "section" /\ block[2].key = "files"
      /\ block[2].value = Quote(n)
      /\ \A j \in 3 .. size :
            /\ block[j].kind = "pair" /\ block[j].key \in DOMAIN m[n]
            /\ block[j].value = WrittenValue(block[j].key, m[n][block[j].key])
      /\ \A k \in DOMAIN m[n] : \E j \in 3 .. size : block[j].key = k
  BY <1>1, SectionLines
<1>3. b >= 3 /\ b + size <= Len(lines) /\ \A j \in 1 .. size : lines[b + j] = block[j]
  BY DEF Stands, block
<1> HIDE DEF size
<1>4. 1 \in 1 .. size /\ 2 \in 1 .. size /\ \A j \in 3 .. size : j \in 1 .. size
  BY <1>2
<1>5. NameAt(lines, b + 2) = n
  <2>1. n \in Seq(Chars)
    BY DEF GoodMap
  <2>2. lines[b + 2].value = Quote(n)
    BY <1>2, <1>3, <1>4
  <2> QED BY <2>1, <2>2, QuoteRead DEF NameAt
<1>6. /\ lines[b + 1].kind = "blank"
      /\ lines[b + 2].kind = "section" /\ lines[b + 2].key = "files"
  BY <1>2, <1>3, <1>4
<1>7. ASSUME NEW j \in 3 .. size
      PROVE  /\ lines[b + j].kind = "pair" /\ lines[b + j].key \in DOMAIN m[n]
             /\ lines[b + j].value = WrittenValue(lines[b + j].key, m[n][lines[b + j].key])
  <2>1. lines[b + j] = block[j]
    BY <1>3, <1>4
  <2> QED BY <1>2, <2>1
<1>8. ASSUME NEW k \in DOMAIN m[n] PROVE \E j \in 3 .. size : lines[b + j].key = k
  <2>1. PICK j \in 3 .. size : block[j].key = k
    BY <1>2
  <2>2. lines[b + j] = block[j]
    BY <1>3, <1>4
  <2> QED BY <2>1, <2>2
<1> QED BY <1>2, <1>3, <1>5, <1>6, <1>7, <1>8 DEF IsSectionAt, size, block

\* A line is in one section only.
LEMMA OneSection ==
    ASSUME NEW lines, NEW g \in Nat, NEW h \in Nat, NEW i \in Nat, g < i, h < i,
           lines[g].kind = "section", lines[h].kind = "section",
           Undivided(lines, g + 1, i), Undivided(lines, h + 1, i)
    PROVE  g = h
<1>1. ASSUME g < h PROVE FALSE
  <2>1. h \in g + 1 .. i
    BY <1>1
  <2> QED BY <2>1 DEF Undivided
<1>2. ASSUME h < g PROVE FALSE
  <2>1. g \in h + 1 .. i
    BY <1>2
  <2> QED BY <2>1 DEF Undivided
<1> QED BY <1>1, <1>2

\* Each heading of a file is the second line of the section of an entry.
LEMMA HeadAt ==
    ASSUME NEW lines, NEW d, NEW m, IsManifest(lines, d, m), FiniteMap(m), GoodMap(m),
           NEW h \in Before(lines, Len(lines) + 1)
    PROVE  \E n \in DOMAIN m : \E b \in Nat : h = b + 2 /\ Stands(lines, b, EntryLines(n, m[n]))
<1>1. IsList(lines) /\ Len(lines) \in Nat /\ DOMAIN lines = 1 .. Len(lines)
  BY ListLength DEF IsManifest
<1>2. h \in 1 .. Len(lines) /\ lines[h].kind = "section"
  BY <1>1 DEF Before
<1>3. \A k, x : Pair(k, x).kind # "section"
  BY DEF Pair
<1>4. lines[1].kind # "section" /\ lines[2].kind # "section" /\ lines[3].kind # "section"
  <2>1. lines[1] = Pair("version", <<"1">>)
    BY DEF IsManifest
  <2>2. lines[2] = Pair("directory_id", Quote(d))
    BY DEF IsManifest
  <2>3. lines[3] = Pair("generated_at", Quote(<<"now">>))
    BY DEF IsManifest
  <2>4. lines[1].kind # "section"
    BY <1>3, <2>1, Zenon
  <2>5. lines[2].kind # "section"
    BY <1>3, <2>2, Zenon
  <2>6. lines[3].kind # "section"
    BY <1>3, <2>3, Zenon
  <2> QED BY <2>4, <2>5, <2>6
<1>5. h # 1 /\ h # 2 /\ h # 3
  BY <1>2, <1>4
<1>6. h \in 4 .. Len(lines)
  BY <1>1, <1>2, <1>5
<1>7. PICK n \in DOMAIN m : \E b \in Nat, j \in Nat : h = b + j /\ IsLineOf(lines, m, n, b, j)
  BY <1>6, LineOf
<1>8. PICK b \in Nat, j \in Nat : h = b + j /\ IsLineOf(lines, m, n, b, j)
  BY <1>7
<1> DEFINE size == Len(EntryLines(n, m[n]))
<1>9. Stands(lines, b, EntryLines(n, m[n])) /\ j \in 1 .. size
  BY <1>8 DEF IsLineOf
<1>10. size \in Nat /\ lines[b + 1].kind = "blank" /\ \A i \in 3 .. size : lines[b + i].kind = "pair"
  <2>1. IsSectionAt(lines, m, n, b, size)
    BY <1>1, <1>9, SectionAt
  <2> QED BY <2>1 DEF IsSectionAt
<1> HIDE DEF size
<1>11. j = 1 \/ j = 2 \/ j \in 3 .. size
  BY <1>9, <1>10
<1>12. j = 2
  BY <1>2, <1>8, <1>10, <1>11
<1> QED BY <1>8, <1>9, <1>12

\* The pairs of a section are those of its entry.
LEMMA BodyAt ==
    ASSUME NEW lines, NEW d, NEW m, IsManifest(lines, d, m), FiniteMap(m), GoodMap(m),
           NEW n \in DOMAIN m, NEW b \in Nat, Stands(lines, b, EntryLines(n, m[n])), NEW i
    PROVE  i \in BodyTo(lines, b + 2, Len(lines) + 1)
              <=> \E j \in 3 .. Len(EntryLines(n, m[n])) : i = b + j
<1> DEFINE size == Len(EntryLines(n, m[n]))
           body == BodyTo(lines, b + 2, Len(lines) + 1)
<1>1. IsList(lines) /\ Len(lines) \in Nat /\ DOMAIN lines = 1 .. Len(lines)
  BY ListLength DEF IsManifest
<1>2. /\ size \in Nat /\ size >= 2 /\ b >= 3 /\ b + size <= Len(lines)
      /\ lines[b + 2].kind = "section" /\ NameAt(lines, b + 2) = n
      /\ \A j \in 3 .. size : lines[b + j].kind = "pair"
  <2>1. IsSectionAt(lines, m, n, b, size)
    BY <1>1, SectionAt
  <2> QED BY <2>1 DEF IsSectionAt
<1>3. \A x, y : x # y => ~(x = "pair" /\ x = "section") /\ ~(x = "pair" /\ x = "blank")
  OBVIOUS
<1>4. ASSUME NEW j \in 3 .. size PROVE b + j \in body
  <2>1. b + j \in DOMAIN lines /\ b + 2 < b + j /\ b + j < Len(lines) + 1
    BY <1>1, <1>2
  <2>2. ASSUME NEW k \in (b + 2) + 1 .. b + j PROVE lines[k].kind # "section"
    <3>1. k - b \in 3 .. size /\ b + (k - b) = k
      BY <1>2
    <3>2. lines[b + (k - b)].kind = "pair"
      BY <1>2, <3>1
    <3> QED BY <3>1, <3>2
  <2> QED BY <1>2, <2>1, <2>2 DEF BodyTo, Undivided
<1>5. ASSUME i \in body PROVE \E j \in 3 .. size : i = b + j
  <2>1. /\ i \in 1 .. Len(lines) /\ lines[i].kind = "pair" /\ b + 2 < i
        /\ Undivided(lines, (b + 2) + 1, i)
    BY <1>1, <1>5 DEF BodyTo
  <2>2. i \in 4 .. Len(lines) /\ i \in Nat
    BY <1>1, <1>2, <2>1
  <2>3. PICK o \in DOMAIN m : \E c \in Nat, j \in Nat : i = c + j /\ IsLineOf(lines, m, o, c, j)
    BY <2>2, LineOf
  <2>4. PICK c \in Nat, j \in Nat : i = c + j /\ IsLineOf(lines, m, o, c, j)
    BY <2>3
  <2> DEFINE wide == Len(EntryLines(o, m[o]))
  <2>5. Stands(lines, c, EntryLines(o, m[o])) /\ j \in 1 .. wide
    BY <2>4 DEF IsLineOf
  <2>6. /\ wide \in Nat /\ lines[c + 1].kind = "blank" /\ lines[c + 2].kind = "section"
        /\ NameAt(lines, c + 2) = o /\ \A x \in 3 .. wide : lines[c + x].kind = "pair"
    <3>1. IsSectionAt(lines, m, o, c, wide)
      BY <1>1, <2>5, SectionAt
    <3> QED BY <3>1 DEF IsSectionAt
  <2> HIDE DEF wide
  <2>7. j \in 3 .. wide
    <3>1. j # 1
      BY <2>1, <2>4, <2>6
    <3>2. j # 2
      BY <2>1, <2>4, <2>6
    <3> QED BY <2>5, <2>6, <3>1, <3>2
  <2>8. c + 2 < i
    BY <2>4, <2>7
  <2>9. Undivided(lines, (c + 2) + 1, i)
    <3> SUFFICES ASSUME NEW k \in (c + 2) + 1 .. i PROVE lines[k].kind # "section"
      BY DEF Undivided
    <3>1. k - c \in 3 .. wide /\ c + (k - c) = k
      BY <2>4, <2>6, <2>7
    <3>2. lines[c + (k - c)].kind = "pair"
      BY <2>6, <3>1
    <3> QED BY <3>1, <3>2
  <2>10. b + 2 = c + 2
    <3>1. b + 2 \in Nat /\ c + 2 \in Nat
      OBVIOUS
    <3> QED BY <1>2, <2>1, <2>2, <2>6, <2>8, <2>9, <3>1, OneSection
  <2>11. o = n /\ c = b
    BY <1>2, <2>6, <2>10
  <2> QED BY <2>4, <2>7, <2>11 DEF wide
<1> QED BY <1>4, <1>5

\* The records are the entries, with every value as it is written.
LEMMA RecordsRead ==
    ASSUME NEW lines, NEW d, NEW m, IsManifest(lines, d, m), FiniteMap(m), GoodMap(m), NEW rs,
           AreRecords(lines, Before(lines, Len(lines) + 1), Len(lines) + 1, rs)
    PROVE  /\ DOMAIN rs = DOMAIN m
           /\ \A n \in DOMAIN m : rs[n] = [k \in DOMAIN m[n] |-> WrittenValue(k, m[n][k])]
<1> DEFINE end == Len(lines) + 1
           heads == Before(lines, end)
<1>1. IsList(lines) /\ Len(lines) \in Nat /\ DOMAIN lines = 1 .. Len(lines)
  BY ListLength DEF IsManifest
<1>2. ASSUME NEW h \in heads
      PROVE  \E n \in DOMAIN m : \E b \in Nat : h = b + 2 /\ Stands(lines, b, EntryLines(n, m[n]))
  BY HeadAt
<1>3. ASSUME NEW n \in DOMAIN m, NEW b \in Nat, Stands(lines, b, EntryLines(n, m[n]))
      PROVE  b + 2 \in heads /\ NameAt(lines, b + 2) = n
  <2> DEFINE size == Len(EntryLines(n, m[n]))
  <2>1. /\ size \in Nat /\ size >= 2 /\ b + size <= Len(lines) /\ lines[b + 2].kind = "section"
        /\ lines[b + 2].key = "files" /\ NameAt(lines, b + 2) = n
    <3>1. IsSectionAt(lines, m, n, b, size)
      BY <1>1, <1>3, SectionAt
    <3> QED BY <3>1 DEF IsSectionAt
  <2> HIDE DEF size
  <2>2. b + 2 \in DOMAIN lines /\ b + 2 < Len(lines) + 1
    BY <1>1, <2>1
  <2> QED BY <2>1, <2>2 DEF Before
<1>4. DOMAIN rs = {NameAt(lines, h) : h \in heads}
  BY DEF AreRecords
<1>5. DOMAIN rs = DOMAIN m
  <2>1. ASSUME NEW n \in DOMAIN rs PROVE n \in DOMAIN m
    <3>1. PICK h \in heads : NameAt(lines, h) = n
      BY <1>4
    <3>2. PICK o \in DOMAIN m : \E b \in Nat : h = b + 2 /\ Stands(lines, b, EntryLines(o, m[o]))
      BY <1>2
    <3>3. NameAt(lines, h) = o
      BY <1>3, <3>2
    <3> QED BY <3>1, <3>3
  <2>2. ASSUME NEW n \in DOMAIN m PROVE n \in DOMAIN rs
    <3>1. PICK b \in Nat : Stands(lines, b, EntryLines(n, m[n]))
      BY DEF IsManifest
    <3> QED BY <1>3, <1>4, <3>1
  <2> QED BY <2>1, <2>2
<1>6. ASSUME NEW n \in DOMAIN m
      PROVE  rs[n] = [k \in DOMAIN m[n] |-> WrittenValue(k, m[n][k])]
  <2>1. PICK h \in heads : NameAt(lines, h) = n /\ IsBody(lines, h, end, rs[n])
    BY <1>5 DEF AreRecords
  <2>2. PICK o \in DOMAIN m : \E c \in Nat : h = c + 2 /\ Stands(lines, c, EntryLines(o, m[o]))
    BY <1>2
  <2>3. PICK b \in Nat : h = b + 2 /\ Stands(lines, b, EntryLines(n, m[n]))
    BY <1>3, <2>1, <2>2
  <2> DEFINE size == Len(EntryLines(n, m[n]))
             body == BodyTo(lines, h, end)
             map == rs[n]
  <2>4. \A i : i \in body <=> \E j \in 3 .. size : i = b + j
    BY <2>3, BodyAt
  <2>5. /\ \A j \in 3 .. size :
              /\ lines[b + j].key \in DOMAIN m[n]
              /\ lines[b + j].value = WrittenValue(lines[b + j].key, m[n][lines[b + j].key])
        /\ \A k \in DOMAIN m[n] : \E j \in 3 .. size : lines[b + j].key = k
    <3>1. IsSectionAt(lines, m, n, b, size)
      BY <1>1, <2>3, SectionAt
    <3> QED BY <3>1 DEF IsSectionAt
  <2>6. /\ map = [key \in {lines[i].key : i \in body} |-> map[key]]
        /\ \A key \in DOMAIN map : \E i \in body : lines[i].key = key /\ map[key] = lines[i].value
    BY <2>1 DEF IsBody
  <2> HIDE DEF size, body, map
  <2>7. {lines[i].key : i \in body} = DOMAIN m[n]
    <3>1. ASSUME NEW i \in body PROVE lines[i].key \in DOMAIN m[n]
      BY <2>4, <2>5
    <3>2. ASSUME NEW k \in DOMAIN m[n] PROVE \E i \in body : lines[i].key = k
      <4>1. PICK j \in 3 .. size : lines[b + j].key = k
        BY <2>5
      <4>2. b + j \in body
        BY <2>4
      <4> QED BY <4>1, <4>2
    <3> QED BY <3>1, <3>2
  <2>8. DOMAIN map = DOMAIN m[n]
    BY <2>6, <2>7
  <2>9. ASSUME NEW k \in DOMAIN m[n] PROVE map[k] = WrittenValue(k, m[n][k])
    <3>1. PICK i \in body : lines[i].key = k /\ map[k] = lines[i].value
      BY <2>6, <2>8
    <3>2. PICK j \in 3 .. size : i = b + j
      BY <2>4
    <3> QED BY <2>5, <3>1, <3>2
  <2>10. map = [k \in DOMAIN m[n] |-> map[k]]
    BY <2>6, <2>7, Zenon
  <2> QED BY <2>9, <2>10, Zenon DEF map
<1> QED BY <1>5, <1>6

\* An entry of the values that were written for one has the same values; what is lost
\* are negative dates.
LEMMA EntryRead ==
    ASSUME NEW e, GoodEntry(e), NEW values, values = [k \in DOMAIN e |-> WrittenValue(k, e[k])]
    PROVE  /\ DOMAIN EntryOf(values) = {k \in DOMAIN e : k \in Numbers => e[k] >= 0}
           /\ \A k \in DOMAIN EntryOf(values) : EntryOf(values)[k] = e[k]
<1> DEFINE keys == {k \in DOMAIN values : k \in Numbers => IsNumber(values[k])}
           new == EntryOf(values)
<1>1. DOMAIN values = DOMAIN e /\ \A k \in DOMAIN e : values[k] = WrittenValue(k, e[k])
  OBVIOUS
<1>2. DOMAIN new = keys
  BY Zenon DEF EntryOf
<1>3. \A k \in keys : /\ k \in Numbers => new[k] = Number(values[k])
                      /\ k \notin Numbers /\ k \in Known => new[k] = Unquote(values[k])
                      /\ k \notin Known /\ k \notin Numbers => new[k] = values[k]
  BY Zenon DEF EntryOf
<1>4. \A k : k \in keys <=> k \in DOMAIN e /\ (k \in Numbers => IsNumber(values[k]))
  BY <1>1
<1> HIDE DEF keys, new
<1>5. ASSUME NEW k \in DOMAIN e, k \in Numbers
      PROVE  (IsNumber(values[k]) <=> e[k] >= 0) /\ (e[k] >= 0 => Number(values[k]) = e[k])
  <2>1. values[k] = Written(e[k])
    BY <1>1, <1>5, Zenon DEF WrittenValue
  <2>2. e[k] \in -9 .. 9
    BY <1>5, NumberRange DEF GoodEntry
  <2> QED BY <2>1, <2>2, NumberRead
<1>6. DOMAIN new = {k \in DOMAIN e : k \in Numbers => e[k] >= 0}
  BY <1>2, <1>4, <1>5
<1>7. ASSUME NEW k \in DOMAIN new PROVE new[k] = e[k]
  <2>1. k \in keys /\ k \in DOMAIN e
    BY <1>2, <1>4
  <2>2. CASE k \in Numbers
    BY <1>3, <1>4, <1>5, <2>1, <2>2
  <2>3. CASE k \notin Numbers /\ k \in Known
    <3>1. values[k] = Quote(e[k])
      BY <1>1, <2>1, <2>3, Zenon DEF WrittenValue
    <3>2. e[k] \in Seq(Chars)
      BY <2>1, <2>3, StringValue DEF GoodEntry
    <3> QED BY <1>3, <2>1, <2>3, <3>1, <3>2, QuoteRead
  <2>4. CASE k \notin Numbers /\ k \notin Known
    <3>1. values[k] = e[k]
      BY <1>1, <2>1, <2>4, Zenon DEF WrittenValue
    <3> QED BY <1>3, <2>1, <2>4, <3>1
  <2> QED BY <2>2, <2>3, <2>4
<1> QED BY <1>6, <1>7 DEF new

LEMMA NumberFacts ==
    /\ "size" \in Numbers /\ "size" \notin Dates /\ "size" \in Required
    /\ "modified_ns" \in Numbers /\ "modified_ns" \in Required
    /\ "id" \in Required /\ "id" \in Known /\ "id" \notin Numbers
    /\ "fingerprint" \in Required /\ "fingerprint" \in Known /\ "fingerprint" \notin Numbers
    /\ \A k \in Dates : k = "modified_ns" \/ k = "created_ns"
BY DEF Numbers, Dates, Required, Known, OptionalNumbers

\* Where no date of modification is negative, the only values lost are dates of creation.
LEMMA EntryReadBack ==
    ASSUME NEW e, GoodEntry(e), e["modified_ns"] >= 0,
           NEW values, values = [k \in DOMAIN e |-> WrittenValue(k, e[k])]
    PROVE  EntryOf(values) = [k \in {k \in DOMAIN e : Survives(k, e[k])} |-> e[k]]
<1> DEFINE new == EntryOf(values)
<1>1. /\ DOMAIN new = {k \in DOMAIN e : k \in Numbers => e[k] >= 0}
      /\ \A k \in DOMAIN new : new[k] = e[k]
  BY EntryRead
<1>2. new = [k \in DOMAIN new |-> new[k]]
  BY Zenon DEF EntryOf
<1> HIDE DEF new
<1>3. ASSUME NEW k \in DOMAIN e
      PROVE  (k \in Numbers => e[k] >= 0) <=> Survives(k, e[k])
  <2>1. k \in Numbers /\ k \notin Dates => e[k] >= 0
    <3> SUFFICES ASSUME k \in Numbers, k \notin Dates PROVE e[k] >= 0
      OBVIOUS
    <3>1. e[k] \in 0 .. 9
      BY NumberRange DEF GoodEntry
    <3> QED BY <3>1
  <2>2. "created_ns" \in Numbers
    BY DEF Numbers, OptionalNumbers
  <2> QED BY <2>1, <2>2, NumberFacts DEF Survives
<1>4. DOMAIN new = {k \in DOMAIN e : Survives(k, e[k])}
  BY <1>1, <1>3
<1> DEFINE S == {k \in DOMAIN e : Survives(k, e[k])}
<1> HIDE DEF S
<1>5. new = [k \in S |-> e[k]]
  BY <1>1, <1>2, <1>4, Zenon DEF S
<1> QED BY <1>5 DEF new, S

\* Such an entry is complete when it is read.
LEMMA CompleteRead ==
    ASSUME NEW n, IsName(n), NEW e, GoodEntry(e), e["modified_ns"] >= 0,
           NEW values, values = [k \in DOMAIN e |-> WrittenValue(k, e[k])]
    PROVE  Complete(n, values)
<1>1. DOMAIN values = DOMAIN e /\ \A k \in DOMAIN e : values[k] = WrittenValue(k, e[k])
  OBVIOUS
<1>2. Required \subseteq DOMAIN e /\ e["id"] \in Ulids /\ e["fingerprint"] \in Hashes
  BY DEF GoodEntry
<1>3. IsNumber(values["size"])
  <2>1. "size" \in DOMAIN e
    BY <1>2, NumberFacts
  <2>2. values["size"] = Written(e["size"])
    BY <1>1, <2>1, NumberFacts, Zenon DEF WrittenValue
  <2>3. e["size"] \in 0 .. 9 /\ e["size"] \in -9 .. 9
    BY <2>1, NumberFacts, NumberRange DEF GoodEntry
  <2>4. e["size"] >= 0
    BY <2>3
  <2> QED BY <2>2, <2>3, <2>4, NumberRead
<1>4. IsNumber(values["modified_ns"])
  <2>1. "modified_ns" \in DOMAIN e
    BY <1>2, NumberFacts
  <2>2. values["modified_ns"] = Written(e["modified_ns"])
    BY <1>1, <2>1, NumberFacts, Zenon DEF WrittenValue
  <2>3. e["modified_ns"] \in -9 .. 9
    BY <2>1, NumberFacts, NumberRange DEF GoodEntry
  <2> QED BY <2>2, <2>3, NumberRead
<1>5. Unquote(values["id"]) = e["id"]
  <2>1. "id" \in DOMAIN e
    BY <1>2, NumberFacts
  <2>2. values["id"] = Quote(e["id"])
    BY <1>1, <2>1, NumberFacts, Zenon DEF WrittenValue
  <2>3. e["id"] \in Seq(Chars)
    BY <2>1, NumberFacts, StringValue DEF GoodEntry
  <2> QED BY <2>2, <2>3, QuoteRead
<1>6. Unquote(values["fingerprint"]) = e["fingerprint"]
  <2>1. "fingerprint" \in DOMAIN e
    BY <1>2, NumberFacts
  <2>2. values["fingerprint"] = Quote(e["fingerprint"])
    BY <1>1, <2>1, NumberFacts, Zenon DEF WrittenValue
  <2>3. e["fingerprint"] \in Seq(Chars)
    BY <2>1, NumberFacts, StringValue DEF GoodEntry
  <2> QED BY <2>2, <2>3, QuoteRead
<1> QED BY <1>1, <1>2, <1>3, <1>4, <1>5, <1>6 DEF Complete
-----------------------------------------------------------------------------
(* What was saved is read back.                                            *)

\* The text is what was saved; while it is read, its first three lines are the header,
\* and it is refused for nothing but a negative date of modification.
HeaderKnown ==
    /\ DOMAIN header = HeaderKeys
    /\ pos <= 4 => section = Top
    /\ pos >= 2 => header["version"] = <<"1">>
    /\ pos >= 3 => header["directory_id"] \in Ulids
    /\ pos >= 4 => header["generated_at"] = <<"now">>
SavedWritten == FiniteMap(saved) /\ GoodMap(saved) /\ \E d \in Ulids : IsManifest(text, d, saved)
SavedInv ==
    saved # Edited =>
        /\ SavedWritten
        /\ pc = "lines" => HeaderKnown
        /\ pc = "refused" => \E n \in DOMAIN saved : saved[n].modified_ns < 0

\* A pair behind the header is in the section of a file.
LEMMA SectionOpen ==
    ASSUME TypeInv, SectionInv, SavedWritten, pc = "lines", pos \in 4 .. Len(text), Line.kind = "pair"
    PROVE  section # Top
<1>1. PICK d \in Ulids : IsManifest(text, d, saved)
  BY DEF SavedWritten
<1>2. FiniteMap(saved) /\ GoodMap(saved) /\ IsList(text) /\ Len(text) \in Nat /\ DOMAIN text = 1 .. Len(text)
  BY <1>1, ListLength DEF SavedWritten, IsManifest
<1>3. PICK n \in DOMAIN saved : \E b \in Nat, j \in Nat : pos = b + j /\ IsLineOf(text, saved, n, b, j)
  BY <1>1, <1>2, LineOf
<1>4. PICK b \in Nat, j \in Nat : pos = b + j /\ IsLineOf(text, saved, n, b, j)
  BY <1>3
<1> DEFINE size == Len(EntryLines(n, saved[n]))
<1>5. Stands(text, b, EntryLines(n, saved[n])) /\ j \in 1 .. size
  BY <1>4 DEF IsLineOf
<1>6. IsSectionAt(text, saved, n, b, size)
  BY <1>2, <1>5, SectionAt
<1> HIDE DEF size
<1>7. /\ size \in Nat /\ b + size <= Len(text) /\ text[b + 1].kind = "blank"
      /\ text[b + 2].kind = "section" /\ text[b + 2].key = "files"
      /\ \A i \in 3 .. size : text[b + i].kind = "pair"
  BY <1>6 DEF IsSectionAt
<1>8. j \in 3 .. size
  <2>1. text[b + j].kind = "pair"
    BY <1>4 DEF Line
  <2>2. j # 1 /\ j # 2
    BY <1>7, <2>1
  <2> QED BY <1>5, <1>7, <2>2
<1>9. b + 2 \in Before(text, pos)
  <2>1. b + 2 \in DOMAIN text /\ b + 2 < pos
    BY <1>2, <1>4, <1>7, <1>8
  <2> QED BY <1>7, <2>1 DEF Before
<1>10. b + 2 \notin Closed(text, pos)
  <2>1. ASSUME NEW k \in (b + 2) + 1 .. pos - 1 PROVE text[k].kind # "section"
    <3>1. k - b \in 3 .. size /\ b + (k - b) = k
      BY <1>4, <1>7, <1>8
    <3>2. text[b + (k - b)].kind = "pair"
      BY <1>7, <3>1
    <3> QED BY <3>1, <3>2
  <2> QED BY <2>1 DEF Closed, Undivided
<1>11. ~(Before(text, pos) \subseteq Closed(text, pos))
  BY <1>9, <1>10
<1> SUFFICES ASSUME section = Top PROVE FALSE
  OBVIOUS
<1>12. ~section.files
  BY DEF Top
<1> QED BY <1>11, <1>12 DEF SectionInv

LEMMA FirstLines ==
    ASSUME NEW lines, NEW d \in Ulids, NEW m, IsManifest(lines, d, m)
    PROVE  /\ Len(lines) \in Nat /\ Len(lines) >= 3
           /\ lines[1].kind = "pair" /\ lines[1].key = "version" /\ lines[1].value = <<"1">>
           /\ lines[2].kind = "pair" /\ lines[2].key = "directory_id" /\ Unquote(lines[2].value) = d
           /\ lines[3].kind = "pair" /\ lines[3].key = "generated_at" /\ Unquote(lines[3].value) = <<"now">>
<1>1. \A line, k, x : line = Pair(k, x) => line.kind = "pair" /\ line.key = k /\ line.value = x
  BY DEF Pair
<1>2. Len(lines) \in Nat /\ Len(lines) >= 3
  BY ListLength DEF IsManifest
<1>3. lines[1].kind = "pair" /\ lines[1].key = "version" /\ lines[1].value = <<"1">>
  <2>1. lines[1] = Pair("version", <<"1">>)
    BY DEF IsManifest
  <2> QED BY <1>1, <2>1, Zenon
<1>4. lines[2].kind = "pair" /\ lines[2].key = "directory_id" /\ Unquote(lines[2].value) = d
  <2>1. lines[2] = Pair("directory_id", Quote(d))
    BY DEF IsManifest
  <2>2. lines[2].kind = "pair" /\ lines[2].key = "directory_id" /\ lines[2].value = Quote(d)
    BY <1>1, <2>1
  <2>3. d \in Seq(Chars)
    BY StringsAssumption
  <2>4. Unquote(Quote(d)) = d
    BY <2>3, QuoteRead
  <2> QED BY <2>2, <2>4, Zenon
<1>5. lines[3].kind = "pair" /\ lines[3].key = "generated_at" /\ Unquote(lines[3].value) = <<"now">>
  <2>1. lines[3] = Pair("generated_at", Quote(<<"now">>))
    BY DEF IsManifest
  <2>2. lines[3].kind = "pair" /\ lines[3].key = "generated_at" /\ lines[3].value = Quote(<<"now">>)
    BY <1>1, <2>1
  <2> QED BY <2>2, HeaderRead, Zenon
<1> QED BY <1>2, <1>3, <1>4, <1>5

\* What a pair at the top is made of.
LEMMA HeaderSet ==
    ASSUME PairLine, section = Top, DOMAIN header = HeaderKeys, NEW k \in HeaderKeys, Line.key = k
    PROVE  /\ DOMAIN header' = HeaderKeys /\ header'[k] = HeaderValue(k, Line.value)
           /\ \A x \in HeaderKeys : x # k => header'[x] = header[x]
<1>1. header' = [header EXCEPT ![k] = HeaderValue(k, Line.value)]
  BY Zenon DEF PairLine
<1> DEFINE v == HeaderValue(k, Line.value)
<1> HIDE DEF v
<1>2. header' = [header EXCEPT ![k] = v]
  BY <1>1 DEF v
<1> QED BY <1>2 DEF v

LEMMA HeaderNames ==
    /\ "version" \in HeaderKeys /\ "directory_id" \in HeaderKeys /\ "generated_at" \in HeaderKeys
BY DEF HeaderKeys

\* A line of the header says what was written there.
LEMMA TopPair ==
    ASSUME SavedWritten, HeaderKnown, PairLine, pos \in 1 .. 3
    PROVE  HeaderKnown'
<1>1. PICK d \in Ulids : IsManifest(text, d, saved)
  BY DEF SavedWritten
<1>2. /\ text[1].key = "version" /\ text[1].value = <<"1">>
      /\ text[2].key = "directory_id" /\ Unquote(text[2].value) = d
      /\ text[3].key = "generated_at" /\ Unquote(text[3].value) = <<"now">>
  BY <1>1, FirstLines
<1>3. section = Top /\ DOMAIN header = HeaderKeys /\ section' = section /\ pos' = pos + 1
  BY DEF HeaderKnown, PairLine
<1>4. /\ pos >= 2 => header["version"] = <<"1">>
      /\ pos >= 3 => header["directory_id"] \in Ulids
  BY DEF HeaderKnown
<1>5. CASE pos = 1
  <2>1. Line.key = "version" /\ Line.value = <<"1">>
    BY <1>2, <1>5 DEF Line
  <2>2. DOMAIN header' = HeaderKeys /\ header'["version"] = HeaderValue("version", Line.value)
    BY <1>3, <2>1, HeaderNames, HeaderSet
  <2>3. HeaderValue("version", <<"1">>) = <<"1">>
    BY HeaderRead, Zenon DEF HeaderValue
  <2>4. header'["version"] = <<"1">>
    BY <2>1, <2>2, <2>3, Zenon
  <2>5. pos' = 2 /\ pos' <= 4 /\ ~(pos' >= 3) /\ ~(pos' >= 4)
    BY <1>3, <1>5
  <2> QED BY <1>3, <2>2, <2>4, <2>5, Zenon DEF HeaderKnown
<1>6. CASE pos = 2
  <2>1. Line.key = "directory_id" /\ Unquote(Line.value) = d
    BY <1>2, <1>6 DEF Line
  <2>2. /\ DOMAIN header' = HeaderKeys
        /\ header'["directory_id"] = HeaderValue("directory_id", Line.value)
        /\ \A x \in HeaderKeys : x # "directory_id" => header'[x] = header[x]
    BY <1>3, <2>1, HeaderNames, HeaderSet
  <2>3. HeaderValue("directory_id", Line.value) = Unquote(Line.value)
    BY DEF HeaderValue
  <2>4. header'["directory_id"] \in Ulids
    BY <2>1, <2>2, <2>3
  <2>5. header'["version"] = header["version"]
    BY <2>2, HeaderNames
  <2>6. pos' = 3 /\ pos' <= 4 /\ ~(pos' >= 4) /\ pos >= 2
    BY <1>3, <1>6
  <2>7. header'["version"] = <<"1">>
    BY <1>4, <2>5, <2>6, Zenon
  <2> QED BY <1>3, <2>2, <2>4, <2>6, <2>7, Zenon DEF HeaderKnown
<1>7. CASE pos = 3
  <2>1. Line.key = "generated_at" /\ Unquote(Line.value) = <<"now">>
    BY <1>2, <1>7 DEF Line
  <2>2. /\ DOMAIN header' = HeaderKeys
        /\ header'["generated_at"] = HeaderValue("generated_at", Line.value)
        /\ \A x \in HeaderKeys : x # "generated_at" => header'[x] = header[x]
    BY <1>3, <2>1, HeaderNames, HeaderSet
  <2>3. HeaderValue("generated_at", Line.value) = Unquote(Line.value)
    BY DEF HeaderValue
  <2>4. header'["generated_at"] = <<"now">>
    BY <2>1, <2>2, <2>3, Zenon
  <2>5. header'["version"] = header["version"] /\ header'["directory_id"] = header["directory_id"]
    BY <2>2, HeaderNames
  <2>6. pos' = 4 /\ pos' <= 4 /\ pos >= 2 /\ pos >= 3
    BY <1>3, <1>7
  <2>7. header'["version"] = <<"1">> /\ header'["directory_id"] \in Ulids
    BY <1>4, <2>5, <2>6, Zenon
  <2> QED BY <1>3, <2>2, <2>4, <2>6, <2>7, Zenon DEF HeaderKnown
<1> QED BY <1>5, <1>6, <1>7

LEMMA SavedLines ==
    ASSUME TypeInv, ReadInv, SavedInv, SkipLine \/ SectionLine \/ PairLine \/ EndOfText
    PROVE  SavedInv'
<1>1. pc = "lines" /\ UNCHANGED <<text, saved>>
  BY DEF SkipLine, SectionLine, PairLine, EndOfText, AtLine
<1> SUFFICES ASSUME saved # Edited
             PROVE  /\ pc' = "lines" => HeaderKnown'
                    /\ pc' # "refused"
  BY <1>1 DEF SavedInv, SavedWritten
<1>2. SavedWritten /\ HeaderKnown
  BY <1>1 DEF SavedInv
<1>3. PICK d \in Ulids : IsManifest(text, d, saved)
  BY <1>2 DEF SavedWritten
<1>4. /\ Len(text) \in Nat /\ Len(text) >= 3
      /\ text[1].kind = "pair" /\ text[2].kind = "pair" /\ text[3].kind = "pair"
  BY <1>3, FirstLines
<1>5. pos \in 1 .. Len(text) + 1
  BY DEF TypeInv, TypeOK
<1>6. ASSUME pos >= 4, UNCHANGED header, pos' = pos + 1 PROVE HeaderKnown'
  BY <1>2, <1>5, <1>6 DEF HeaderKnown
<1>7. CASE SkipLine \/ SectionLine
  <2>1. Line.kind # "pair" /\ UNCHANGED <<pc, header>> /\ pos' = pos + 1
    BY <1>7 DEF SkipLine, SectionLine
  <2>2. pos # 1 /\ pos # 2 /\ pos # 3
    BY <1>4, <2>1 DEF Line
  <2>3. pos >= 4
    BY <1>5, <2>2
  <2> QED BY <1>1, <1>6, <2>1, <2>3
<1>8. CASE PairLine
  <2>1. UNCHANGED pc /\ pos' = pos + 1 /\ pos <= Len(text) /\ Line.kind = "pair"
    BY <1>8 DEF PairLine, AtLine
  <2>2. CASE pos \in 1 .. 3
    BY <1>1, <1>2, <1>8, <2>1, <2>2, TopPair
  <2>3. CASE pos \notin 1 .. 3
    <3>1. pos \in 4 .. Len(text) /\ pos >= 4
      BY <1>4, <1>5, <2>1, <2>3
    <3>2. section # Top
      BY <1>1, <1>2, <2>1, <3>1, SectionOpen DEF ReadInv
    <3>3. UNCHANGED header
      BY <1>8, <3>2 DEF PairLine
    <3> QED BY <1>1, <1>6, <2>1, <3>1, <3>3
  <2> QED BY <2>2, <2>3
<1>9. CASE EndOfText
  <2>1. pos > Len(text)
    BY <1>9 DEF EndOfText
  <2>2. pos >= 2 /\ pos >= 3 /\ pos >= 4
    BY <1>4, <1>5, <2>1
  <2>3. header["version"] = <<"1">> /\ header["directory_id"] \in Ulids /\ header["generated_at"] = <<"now">>
    BY <1>2, <2>2, Zenon DEF HeaderKnown
  <2>4. header["generated_at"] # None
    BY <2>3, HeaderRead, Zenon
  <2>5. pc' = IF header["version"] = <<"1">> /\ header["directory_id"] \in Ulids /\ header["generated_at"] # None
                THEN "records" ELSE "refused"
    BY <1>9 DEF EndOfText
  <2>6. pc' = "records"
    BY <2>3, <2>4, <2>5, Zenon
  <2> QED BY <2>6
<1> QED BY <1>7, <1>8, <1>9

LEMMA SavedRecords ==
    ASSUME ReadInv, SavedInv, AddRecord \/ EndOfRecords
    PROVE  SavedInv'
<1>1. pc = "records" /\ UNCHANGED <<text, saved>>
  BY DEF AddRecord, EndOfRecords
<1> SUFFICES ASSUME saved # Edited, pc' = "refused"
             PROVE  \E n \in DOMAIN saved : saved[n].modified_ns < 0
  <2>1. pc' # "lines"
    BY <1>1 DEF AddRecord, EndOfRecords
  <2> QED BY <1>1, <2>1 DEF SavedInv, SavedWritten
<1>2. SavedWritten
  BY DEF SavedInv
<1>3. PICK d \in Ulids : IsManifest(text, d, saved)
  BY <1>2 DEF SavedWritten
<1>4. AreRecords(text, Before(text, Len(text) + 1), Len(text) + 1, records)
  BY <1>1 DEF ReadInv, RecordsInv
<1>5. /\ DOMAIN records = DOMAIN saved
      /\ \A n \in DOMAIN saved : records[n] = [k \in DOMAIN saved[n] |-> WrittenValue(k, saved[n][k])]
  BY <1>2, <1>3, <1>4, RecordsRead DEF SavedWritten
<1>6. PICK n \in DOMAIN records : ~Complete(n, records[n])
  BY <1>1 DEF AddRecord, EndOfRecords
<1>7. n \in DOMAIN saved /\ IsName(n) /\ GoodEntry(saved[n])
  BY <1>2, <1>5, <1>6 DEF SavedWritten, GoodMap
<1> DEFINE x == saved[n]["modified_ns"]
<1>8. ~(x >= 0)
  BY <1>5, <1>6, <1>7, CompleteRead
<1>9. x \in -9 .. 9
  BY <1>7, NumberFacts, NumberRange DEF GoodEntry
<1> HIDE DEF x
<1>10. x < 0
  BY <1>8, <1>9
<1> QED BY <1>7, <1>10 DEF x

LEMMA SavedInit == Init => SavedInv
BY DEF Init, SavedInv

LEMMA SavedStep == TypeInv /\ ReadInv /\ DataInv /\ SavedInv /\ [Next]_vars => SavedInv'
<1> SUFFICES ASSUME TypeInv, ReadInv, DataInv, SavedInv, [Next]_vars PROVE SavedInv'
  OBVIOUS
<1>1. CASE UNCHANGED vars
  BY <1>1 DEF vars, SavedInv, SavedWritten, HeaderKnown
<1>2. CASE Insert \/ Repeat \/ Delete
  BY <1>2 DEF Insert, Repeat, Delete, Change, SavedInv
<1>3. CASE Load
  <2>1. /\ pc' = "lines" /\ pos' = 1 /\ section' = Top /\ header' = [k \in HeaderKeys |-> None]
        /\ text' = text /\ saved' = saved
    BY <1>3 DEF Load
  <2>2. HeaderKnown'
    BY <2>1 DEF HeaderKnown
  <2> QED BY <2>1, <2>2 DEF SavedInv, SavedWritten
<1>4. CASE Parse
  BY <1>4, SavedLines, SavedRecords DEF Parse
<1>5. CASE SaveNew \/ SaveAgain
  BY <1>5, SaveDone DEF SavedInv, SavedWritten
<1>6. CASE Refuse
  BY <1>6 DEF Refuse, SavedInv, SavedWritten
<1> QED BY <1>1, <1>2, <1>3, <1>4, <1>5, <1>6 DEF Next

LEMMA ReadBackAsSaved == TypeInv /\ ReadInv /\ SavedInv => SavedReadBack
<1> SUFFICES ASSUME TypeInv, ReadInv, SavedInv, saved # Edited, pc = "loaded"
             PROVE  entries = [n \in DOMAIN saved |->
                      [k \in {k \in DOMAIN saved[n] : Survives(k, saved[n][k])} |-> saved[n][k]]]
  BY DEF SavedReadBack, SavedInv
<1>1. SavedWritten
  BY DEF SavedInv
<1>2. PICK d \in Ulids : IsManifest(text, d, saved)
  BY <1>1 DEF SavedWritten
<1>3. /\ AreRecords(text, Before(text, Len(text) + 1), Len(text) + 1, records)
      /\ entries = [n \in DOMAIN entries |-> EntryOf(records[n])] /\ DOMAIN entries = DOMAIN records
  BY DEF ReadInv, RecordsInv
<1>4. /\ DOMAIN records = DOMAIN saved
      /\ \A n \in DOMAIN saved : records[n] = [k \in DOMAIN saved[n] |-> WrittenValue(k, saved[n][k])]
  BY <1>1, <1>2, <1>3, RecordsRead DEF SavedWritten
<1>5. entries = [n \in DOMAIN saved |-> EntryOf(records[n])]
  BY <1>3, <1>4, Zenon
<1>6. ASSUME NEW n \in DOMAIN saved
      PROVE  EntryOf(records[n])
               = [k \in {k \in DOMAIN saved[n] : Survives(k, saved[n][k])} |-> saved[n][k]]
  <2> DEFINE e == saved[n]
             values == records[n]
             x == e["modified_ns"]
  <2>1. GoodEntry(e) /\ values = [k \in DOMAIN e |-> WrittenValue(k, e[k])]
    BY <1>1, <1>4 DEF SavedWritten, GoodMap
  <2>2. IsEntry(EntryOf(values))
    <3>1. n \in DOMAIN entries /\ entries[n] = EntryOf(values)
      BY <1>3, <1>4
    <3> HIDE DEF values
    <3> QED BY <3>1 DEF TypeInv, TypeOK
  <2> HIDE DEF e, values
  <2>3. "modified_ns" \in DOMAIN EntryOf(values)
    BY <2>2, NumberFacts DEF IsEntry
  <2>4. x >= 0
    BY <2>1, <2>3, NumberFacts, EntryRead, ZenonT(40)
  <2>5. EntryOf(values) = [k \in {k \in DOMAIN e : Survives(k, e[k])} |-> e[k]]
    BY <2>1, <2>4, EntryReadBack
  <2> QED BY <2>5 DEF e, values
<1> QED BY <1>5, <1>6, Zenon

\* Whatever is in names, titles and other strings: a text that nobody has edited since
\* it was saved is read back as the manifest that was saved, but for dates of creation
\* before 1970, and it is refused only if some date of modification lies before 1970
\* (toToml with quote, parse_manifest with unquote, of TomlManifestMapper).
THEOREM SavedIsReadBack == Spec => []SavedReadBack
<1>1. Init => TypeInv /\ ReadInv /\ DataInv /\ SavedInv
  BY TypeInit, ReadInit, DataInit, SavedInit
<1>2. (TypeInv /\ ReadInv /\ DataInv /\ SavedInv) /\ [Next]_vars
        => (TypeInv /\ ReadInv /\ DataInv /\ SavedInv)'
  BY TypeStep, ReadStep, DataStep, SavedStep
<1>3. TypeInv /\ ReadInv /\ DataInv /\ SavedInv => SavedReadBack
  BY ReadBackAsSaved
<1> QED BY <1>1, <1>2, <1>3, PTL DEF Spec
=============================================================================
