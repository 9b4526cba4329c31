------------------------------ MODULE SeqLemmas ------------------------------
(***************************************************************************)
(* Induction over the natural numbers in a form that the provers can use:  *)
(* as a fact about a set, from the least number outside of it.  With it,   *)
(* what FlattenSeq of the community modules, a recursive function, returns *)
(* for every input.  And how often members of a set come in a sequence.    *)
(***************************************************************************)
EXTENDS Integers, SequencesExt, SequenceTheorems, FiniteSetTheorems,
        WellFoundedInduction, TLAPS

\* A set of natural numbers has a least element.
LEMMA NatMin ==
    ASSUME NEW S \in SUBSET Nat, S # {}
    PROVE  \E x \in S : \A y \in S : x <= y
<1> DEFINE R == OpToRel(<, Nat)
<1>1. IsWellFoundedOn(R, Nat)
  BY NatLessThanWellFounded
<1>2. \E x \in S : \A y \in S : ~ (<<y, x>> \in R)
  <2> HIDE DEF R
  <2> QED BY <1>1, WFMin
<1>3. \A x, y \in Nat : x < y => <<x, y>> \in R
  BY DEF OpToRel
<1> HIDE DEF R
<1>4. \A x, y \in S : y < x => <<y, x>> \in R
  BY <1>3
<1>5. PICK x \in S : \A y \in S : ~ (<<y, x>> \in R)
  BY <1>2
<1>6. ASSUME NEW y \in S PROVE ~ (y < x)
  <2>1. y < x => <<y, x>> \in R
    BY <1>4
  <2> QED BY <2>1, <1>5
<1>7. \A y \in S : x <= y
  BY <1>6
<1> QED BY <1>7

\* Min is the least element.
LEMMA MinIs ==
    ASSUME NEW S \in SUBSET Nat, S # {}
    PROVE  Min(S) \in S /\ \A y \in S : Min(S) <= y
  BY NatMin DEF Min

\* A set that has 0, and with a number the next one, has all of them.
LEMMA NatInduct ==
    ASSUME NEW S, 0 \in S, \A n \in Nat : n \in S => n + 1 \in S
    PROVE  Nat \subseteq S
<1> SUFFICES ASSUME Nat \ S # {} PROVE FALSE
  OBVIOUS
<1>1. PICK m \in Nat \ S : \A y \in Nat \ S : m <= y
  BY NatMin
<1>2. m # 0 /\ m - 1 \in Nat /\ m - 1 \notin S
  BY <1>1
<1> QED BY <1>1, <1>2

\* f satisfies the recursion in FlattenSeq up to n.
FlattenIs(f, seqs, n) ==
    f = [i \in 1..n |-> IF i = 1 THEN seqs[i] ELSE f[i - 1] \o seqs[i]]
\* There is a function as the recursion in FlattenSeq wants it.
LEMMA FlattenExists ==
    ASSUME NEW seqs, NEW n \in Nat
    PROVE  \E f : FlattenIs(f, seqs, n)
<1> DEFINE S == {k \in Nat : \E f : FlattenIs(f, seqs, k)}
<1>1. 0 \in S
  <2>1. FlattenIs([i \in 1..0 |-> 0], seqs, 0)
    BY DEF FlattenIs
  <2> QED BY <2>1
<1>2. ASSUME NEW k \in Nat, k \in S PROVE k + 1 \in S
  <2>1. PICK f : FlattenIs(f, seqs, k)
    BY <1>2
  <2> DEFINE g == [i \in 1..(k + 1) |-> IF i <= k THEN f[i]
                      ELSE IF i = 1 THEN seqs[i] ELSE f[i - 1] \o seqs[i]]
  <2>2. FlattenIs(g, seqs, k + 1)
    <3>1. \A i \in 1..k : f[i] = IF i = 1 THEN seqs[i] ELSE f[i - 1] \o seqs[i]
      BY <2>1 DEF FlattenIs
    <3>2. \A i \in 1..k : g[i] = f[i]
      OBVIOUS
    <3>3. ASSUME NEW i \in 1..(k + 1)
          PROVE  g[i] = IF i = 1 THEN seqs[i] ELSE g[i - 1] \o seqs[i]
      <4>1. CASE i <= k
        <5>1. i = 1 \/ i - 1 \in 1..k
          BY <4>1
        <5> QED BY <3>1, <3>2, <4>1, <5>1
      <4>2. CASE i = k + 1
        <5>1. i = 1 \/ i - 1 \in 1..k
          BY <4>2
        <5>2. g[i] = IF i = 1 THEN seqs[i] ELSE f[i - 1] \o seqs[i]
          BY <4>2
        <5> QED BY <3>2, <5>1, <5>2
      <4> QED BY <4>1, <4>2
    <3> HIDE DEF g
    <3>4. g = [i \in 1..(k + 1) |-> g[i]]
      BY DEF g
    <3> QED BY <3>3, <3>4 DEF FlattenIs
  <2> QED BY <2>2
<1> HIDE DEF S
<1>3. Nat \subseteq S
  BY <1>1, <1>2, NatInduct
<1> QED BY <1>3 DEF S

\* FlattenSeq of sequences over T is a sequence over T.
LEMMA FlattenType ==
    ASSUME NEW T, NEW seqs \in Seq(Seq(T))
    PROVE  FlattenSeq(seqs) \in Seq(T)
<1>1. CASE Len(seqs) = 0
  <2>1. seqs = <<>>
    BY <1>1, EmptySeq
  <2> QED BY <1>1, <2>1 DEF FlattenSeq
<1>2. CASE Len(seqs) # 0
  <2> DEFINE f == CHOOSE f : FlattenIs(f, seqs, Len(seqs))
  <2>1. FlattenSeq(seqs) = f[Len(seqs)]
    BY <1>2 DEF FlattenSeq, FlattenIs
  <2>2. FlattenIs(f, seqs, Len(seqs))
    BY FlattenExists, LenProperties
  <2> HIDE DEF f
  <2> DEFINE S == {k \in Nat : k \in 1..Len(seqs) => f[k] \in Seq(T)}
  <2>3. 0 \in S
    OBVIOUS
  <2>4. ASSUME NEW k \in Nat, k \in S PROVE k + 1 \in S
    <3>1. SUFFICES ASSUME k + 1 \in 1..Len(seqs) PROVE f[k + 1] \in Seq(T)
      OBVIOUS
    <3>2. f[k + 1] = IF k + 1 = 1 THEN seqs[k + 1] ELSE f[(k + 1) - 1] \o seqs[k + 1]
      BY <2>2, <3>1 DEF FlattenIs
    <3>3. seqs[k + 1] \in Seq(T)
      BY <3>1, ElementOfSeq
    <3>4. CASE k = 0
      BY <3>2, <3>3, <3>4
    <3>5. CASE k # 0
      <4>1. f[k] \in Seq(T) /\ k + 1 - 1 = k
        BY <2>4, <3>1, <3>5
      <4> QED BY <3>2, <3>3, <3>5, <4>1
    <3> QED BY <3>4, <3>5
  <2> HIDE DEF S
  <2>5. Nat \subseteq S
    BY <2>3, <2>4, NatInduct
  <2>6. Len(seqs) \in Nat \ {0} /\ Len(seqs) \in 1..Len(seqs)
    BY <1>2, LenProperties
  <2> QED BY <2>1, <2>5, <2>6 DEF S
<1> QED BY <1>1, <1>2

Agree(s, t, n) == \A i \in 1..n : s[i] = t[i]

\* The recursion has one solution at most, and it goes on from a part of it.
LEMMA FlattenOne ==
    ASSUME NEW s, NEW t, NEW m \in Nat, NEW n \in Nat, NEW f, NEW g,
           FlattenIs(f, s, m), FlattenIs(g, t, n), m <= n, Agree(s, t, m)
    PROVE  Agree(f, g, m)
<1> DEFINE S == {k \in Nat : k \in 1..m => f[k] = g[k]}
<1>1. 0 \in S
  OBVIOUS
<1>2. ASSUME NEW k \in Nat, k \in S PROVE k + 1 \in S
  <2>1. SUFFICES ASSUME k + 1 \in 1..m PROVE f[k + 1] = g[k + 1]
    OBVIOUS
  <2>2. f[k + 1] = IF k + 1 = 1 THEN s[k + 1] ELSE f[(k + 1) - 1] \o s[k + 1]
    BY <2>1 DEF FlattenIs
  <2>3. g[k + 1] = IF k + 1 = 1 THEN t[k + 1] ELSE g[(k + 1) - 1] \o t[k + 1]
    <3>1. k + 1 \in 1..n
      BY <2>1
    <3> QED BY <3>1 DEF FlattenIs
  <2>4. s[k + 1] = t[k + 1] /\ (k + 1) - 1 = k
    BY <2>1 DEF Agree
  <2>5. k + 1 # 1 => f[k] = g[k]
    BY <1>2, <2>1
  <2> QED BY <2>2, <2>3, <2>4, <2>5
<1> HIDE DEF S
<1>3. Nat \subseteq S
  BY <1>1, <1>2, NatInduct
<1> QED BY <1>3 DEF S, Agree

\* One sequence more is one piece more at the end.
LEMMA FlattenAppend ==
    ASSUME NEW T, NEW seqs \in Seq(Seq(T)), NEW x \in Seq(T)
    PROVE  FlattenSeq(Append(seqs, x)) = FlattenSeq(seqs) \o x
<1> DEFINE more == Append(seqs, x)
           n == Len(seqs)
<1>1. n \in Nat /\ more \in Seq(Seq(T)) /\ Len(more) = n + 1
      /\ (\A i \in 1..n : more[i] = seqs[i]) /\ more[n + 1] = x
  BY AppendProperties, LenProperties
<1> DEFINE g == CHOOSE g : FlattenIs(g, more, n + 1)
<1>2. FlattenIs(g, more, n + 1)
  BY FlattenExists, <1>1
<1>3. FlattenSeq(more) = g[n + 1]
  <2>1. Len(more) # 0
    BY <1>1
  <2>2. FlattenSeq(more) = (CHOOSE h : FlattenIs(h, more, Len(more)))[Len(more)]
    BY <2>1 DEF FlattenSeq, FlattenIs
  <2> QED BY <1>1, <2>2
<1> HIDE DEF more, g
<1>4. g[n + 1] = IF n + 1 = 1 THEN more[n + 1] ELSE g[(n + 1) - 1] \o more[n + 1]
  <2>1. n + 1 \in 1..(n + 1)
    BY <1>1
  <2> QED BY <1>2, <2>1 DEF FlattenIs
<1>5. CASE n = 0
  <2>1. seqs = <<>>
    BY <1>5, EmptySeq
  <2>2. FlattenSeq(seqs) = <<>>
    BY <1>5, <2>1 DEF FlattenSeq
  <2>3. g[n + 1] = x
    BY <1>1, <1>4, <1>5
  <2>4. <<>> \o x = x
    BY ConcatEmptySeq
  <2> QED BY <1>3, <2>2, <2>3, <2>4 DEF more
<1>6. CASE n # 0
  <2> DEFINE f == CHOOSE f : FlattenIs(f, seqs, Len(seqs))
  <2>1. FlattenSeq(seqs) = f[n]
    BY <1>6 DEF FlattenSeq, FlattenIs
  <2>2. FlattenIs(f, seqs, n)
    BY FlattenExists, <1>1
  <2> HIDE DEF f
  <2>3. Agree(f, g, n)
    <3> HIDE DEF n
    <3> DEFINE m == n + 1
    <3>1. n \in Nat /\ m \in Nat /\ n <= m /\ Agree(seqs, more, n)
          /\ FlattenIs(g, more, m)
      BY <1>1, <1>2 DEF Agree
    <3> HIDE DEF m
    <3> QED BY <2>2, <3>1, FlattenOne
  <2>4. g[n + 1] = g[n] \o x
    BY <1>1, <1>4, <1>6
  <2>5. g[n] = f[n]
    <3>1. n \in 1..n
      BY <1>1, <1>6
    <3> HIDE DEF n
    <3> QED BY <2>3, <3>1 DEF Agree
  <2> QED BY <1>3, <2>1, <2>4, <2>5 DEF more
<1> QED BY <1>5, <1>6

\* A single sequence is itself.
LEMMA FlattenSingle ==
    ASSUME NEW T, NEW x \in Seq(T)
    PROVE  FlattenSeq(<<x>>) = x
<1>1. <<>> \in Seq(Seq(T))
  OBVIOUS
<1>2. FlattenSeq(Append(<<>>, x)) = FlattenSeq(<<>>) \o x
  BY <1>1, FlattenAppend
<1>3. FlattenSeq(<<>>) = <<>>
  BY DEF FlattenSeq
<1>4. <<>> \o x = x /\ Append(<<>>, x) = <<x>>
  BY ConcatEmptySeq
<1> QED
  BY <1>2, <1>3, <1>4

-----------------------------------------------------------------------------
(* How often the members of C come in a sequence.                          *)

Where(s, C)   == {i \in DOMAIN s : s[i] \in C}
HowMany(s, C) == Cardinality(Where(s, C))

\* It is a number, and none for the empty sequence.
LEMMA HowManyType ==
    ASSUME NEW S, NEW s \in Seq(S), NEW C
    PROVE  /\ IsFiniteSet(Where(s, C)) /\ HowMany(s, C) \in Nat
           /\ Where(s, C) = {i \in 1..Len(s) : s[i] \in C}
           /\ Where(s, C) \subseteq 1..Len(s)
           /\ s = <<>> => HowMany(s, C) = 0
<1>1. Len(s) \in Nat /\ DOMAIN s = 1..Len(s)
  BY LenProperties
<1>2. IsFiniteSet(1..Len(s))
  BY <1>1, FS_Interval
<1>3. Where(s, C) = {i \in 1..Len(s) : s[i] \in C}
  BY <1>1 DEF Where
<1>4. IsFiniteSet(Where(s, C))
  BY <1>2, <1>3, FS_Subset
<1>5. ASSUME s = <<>> PROVE HowMany(s, C) = 0
  <2>1. Where(s, C) = {}
    BY <1>5 DEF Where
  <2> QED
    BY <2>1, FS_EmptySet DEF HowMany
<1> QED
  BY <1>3, <1>4, <1>5, FS_CardinalityType DEF HowMany

\* A set that another one maps into is the smaller one.
LEMMA FewerByInjection ==
    ASSUME NEW A, NEW B, IsFiniteSet(B), NEW f \in [A -> B],
           \A x, y \in A : f[x] = f[y] => x = y
    PROVE  IsFiniteSet(A) /\ Cardinality(A) <= Cardinality(B)
<1>1. f \in Injection(A, B)
  BY DEF Injection, IsInjective
<1> QED
  BY <1>1, FS_Injection

\* In two sequences whose elements were all taken from different places of a
\* third one there are no more of them than in that one.
LEMMA HowManyTaken ==
    ASSUME NEW S, NEW C, NEW s \in Seq(S), NEW t \in Seq(S), NEW u \in Seq(S),
           NEW f \in [1..Len(t) -> 1..Len(s)], NEW g \in [1..Len(u) -> 1..Len(s)],
           \A i, j \in 1..Len(t) : f[i] = f[j] => i = j,
           \A i, j \in 1..Len(u) : g[i] = g[j] => i = j,
           \A i \in 1..Len(t), j \in 1..Len(u) : f[i] # g[j],
           \A i \in 1..Len(t) : t[i] \in C => s[f[i]] \in C,
           \A i \in 1..Len(u) : u[i] \in C => s[g[i]] \in C
    PROVE  HowMany(t, C) + HowMany(u, C) <= HowMany(s, C)
<1> DEFINE A == {f[i] : i \in Where(t, C)}
           B == {g[i] : i \in Where(u, C)}
<1>1. /\ Where(t, C) = {i \in 1..Len(t) : t[i] \in C}
      /\ Where(u, C) = {i \in 1..Len(u) : u[i] \in C}
      /\ Where(s, C) = {i \in 1..Len(s) : s[i] \in C}
      /\ IsFiniteSet(Where(s, C))
      /\ HowMany(t, C) \in Nat /\ HowMany(u, C) \in Nat /\ HowMany(s, C) \in Nat
  BY HowManyType
<1>2. A \subseteq Where(s, C) /\ B \subseteq Where(s, C) /\ A \cap B = {}
  BY <1>1
<1>3. IsFiniteSet(A) /\ IsFiniteSet(B) /\ IsFiniteSet(A \cup B)
      /\ Cardinality(A \cup B) <= Cardinality(Where(s, C))
  BY <1>1, <1>2, FS_Subset
<1>4. Cardinality(A \cup B) = Cardinality(A) + Cardinality(B)
  <2>1. Cardinality(A \cap B) = 0
    BY <1>2, FS_EmptySet
  <2>2. Cardinality(A) \in Nat /\ Cardinality(B) \in Nat
    BY <1>3, FS_CardinalityType
  <2>3. Cardinality(A \cup B) = Cardinality(A) + Cardinality(B) - Cardinality(A \cap B)
    BY <1>3, FS_Union
  <2> QED
    BY <2>1, <2>2, <2>3
<1>5. Cardinality(Where(t, C)) <= Cardinality(A)
  <2> DEFINE h == [i \in Where(t, C) |-> f[i]]
  <2>1. h \in [Where(t, C) -> A] /\ \A x, y \in Where(t, C) : h[x] = h[y] => x = y
    BY <1>1
  <2> QED
    BY <1>3, <2>1, FewerByInjection
<1>6. Cardinality(Where(u, C)) <= Cardinality(B)
  <2> DEFINE h == [i \in Where(u, C) |-> g[i]]
  <2>1. h \in [Where(u, C) -> B] /\ \A x, y \in Where(u, C) : h[x] = h[y] => x = y
    BY <1>1
  <2> QED
    BY <1>3, <2>1, FewerByInjection
<1>7. Cardinality(A) \in Nat /\ Cardinality(B) \in Nat
  BY <1>3, FS_CardinalityType
<1> HIDE DEF A, B
<1> QED
  BY <1>1, <1>3, <1>4, <1>5, <1>6, <1>7 DEF HowMany

\* In a sequence of the same length that has them in no other places there
\* are no more of them.
LEMMA HowManyMap ==
    ASSUME NEW S, NEW C, NEW s \in Seq(S), NEW t \in Seq(S), Len(t) = Len(s),
           \A i \in 1..Len(s) : t[i] \in C => s[i] \in C
    PROVE  HowMany(t, C) <= HowMany(s, C)
<1>1. /\ Where(t, C) = {i \in 1..Len(t) : t[i] \in C}
      /\ Where(s, C) = {i \in 1..Len(s) : s[i] \in C}
      /\ IsFiniteSet(Where(s, C))
  BY HowManyType
<1>2. Where(t, C) \subseteq Where(s, C)
  BY <1>1
<1> QED
  BY <1>1, <1>2, FS_Subset DEF HowMany

\* Behind each other there are no more of them than in both.
LEMMA HowManyConcat ==
    ASSUME NEW S, NEW C, NEW s \in Seq(S), NEW t \in Seq(S)
    PROVE  HowMany(s \o t, C) <= HowMany(s, C) + HowMany(t, C)
<1> DEFINE m == Len(s)
           st == s \o t
           B == {i \in Where(st, C) : i > m}
           h == [i \in B |-> i - m]
<1>1. /\ st \in Seq(S) /\ Len(st) = m + Len(t) /\ m \in Nat /\ Len(t) \in Nat
      /\ \A i \in 1..(m + Len(t)) : st[i] = IF i <= m THEN s[i] ELSE t[i - m]
  BY ConcatProperties, LenProperties
<1> HIDE DEF m, st
<1>2. /\ Where(st, C) = {i \in 1..Len(st) : st[i] \in C}
      /\ Where(s, C) = {i \in 1..m : s[i] \in C}
      /\ Where(t, C) = {i \in 1..Len(t) : t[i] \in C}
      /\ IsFiniteSet(Where(s, C)) /\ IsFiniteSet(Where(t, C))
      /\ HowMany(s, C) \in Nat /\ HowMany(t, C) \in Nat
  BY <1>1, HowManyType DEF m
<1>3. \A i \in B : i \in Int /\ i - m \in Where(t, C)
  BY <1>1, <1>2
<1>4. h \in [B -> Where(t, C)] /\ \A x, y \in B : h[x] = h[y] => x = y
  BY <1>1, <1>3
<1> HIDE DEF h
<1>5. IsFiniteSet(B) /\ Cardinality(B) <= HowMany(t, C)
  BY <1>2, <1>4, FewerByInjection DEF HowMany
<1>6. Where(st, C) \subseteq Where(s, C) \cup B
  BY <1>1, <1>2
<1> HIDE DEF B
<1>7. Cardinality(Where(s, C) \cup B) <= Cardinality(Where(s, C)) + Cardinality(B)
      /\ IsFiniteSet(Where(s, C) \cup B)
  <2>1. /\ IsFiniteSet(Where(s, C) \cup B)
        /\ Cardinality(Where(s, C) \cup B) =
             Cardinality(Where(s, C)) + Cardinality(B) - Cardinality(Where(s, C) \cap B)
    BY <1>2, <1>5, FS_Union
  <2>2. IsFiniteSet(Where(s, C) \cap B)
    BY <1>2, FS_Intersection
  <2>3. /\ Cardinality(Where(s, C)) \in Nat /\ Cardinality(B) \in Nat
        /\ Cardinality(Where(s, C) \cap B) \in Nat
    BY <1>2, <1>5, <2>2, FS_CardinalityType
  <2> QED
    BY <2>1, <2>3
<1>8. HowMany(st, C) <= Cardinality(Where(s, C) \cup B)
  BY <1>6, <1>7, FS_Subset DEF HowMany
<1>9. /\ Cardinality(Where(s, C)) \in Nat /\ Cardinality(B) \in Nat
      /\ Cardinality(Where(s, C) \cup B) \in Nat /\ HowMany(st, C) \in Nat
  BY <1>1, <1>2, <1>5, <1>7, FS_CardinalityType, HowManyType
<1>10. Cardinality(Where(s, C)) = HowMany(s, C)
  BY DEF HowMany
<1> HIDE DEF HowMany, Where
<1>11. HowMany(st, C) <= HowMany(s, C) + HowMany(t, C)
  BY <1>2, <1>5, <1>7, <1>8, <1>9, <1>10
<1> QED
  BY <1>11 DEF st

\* Cut in two, a sequence has no more of them in the two pieces.
LEMMA HowManyCut ==
    ASSUME NEW S, NEW C, NEW s \in Seq(S), NEW n \in 0..Len(s), NEW m \in n..Len(s)
    PROVE  HowMany(SubSeq(s, 1, n), C) + HowMany(SubSeq(s, n + 1, m), C) <= HowMany(s, C)
<1> DEFINE t == SubSeq(s, 1, n)
           u == SubSeq(s, n + 1, m)
           f == [i \in 1..n |-> i]
           g == [i \in 1..(m - n) |-> n + i]
<1>1. Len(s) \in Nat /\ n \in Nat /\ n + 1 \in Int /\ m \in Nat /\ n <= m /\ m <= Len(s)
      /\ \A i \in 1..Len(s) : s[i] \in S
  BY LenProperties, ElementOfSeq
<1>2. t \in Seq(S) /\ Len(t) = n /\ \A i \in 1..n : t[i] = s[i]
  <2>1. \A i \in 1..n : s[i] \in S
    BY <1>1
  <2> QED
    BY <1>1, <2>1, SubSeqProperties
<1>3. u \in Seq(S) /\ Len(u) = m - n /\ \A i \in 1..(m - n) : u[i] = s[n + i]
  <2>1. \A i \in (n + 1)..m : s[i] \in S
    BY <1>1
  <2>2. /\ u \in Seq(S) /\ Len(u) = IF n + 1 <= m THEN m - (n + 1) + 1 ELSE 0
        /\ \A i \in 1..(m - (n + 1) + 1) : u[i] = s[(n + 1) + i - 1]
    BY <1>1, <2>1, SubSeqProperties
  <2>3. Len(u) = m - n
    BY <1>1, <2>2
  <2>4. \A i \in 1..(m - n) : i \in 1..(m - (n + 1) + 1) /\ (n + 1) + i - 1 = n + i
    BY <1>1
  <2> HIDE DEF u
  <2> QED
    BY <2>2, <2>3, <2>4
<1> HIDE DEF t, u
<1>4. f \in [1..Len(t) -> 1..Len(s)] /\ g \in [1..Len(u) -> 1..Len(s)]
  BY <1>1, <1>2, <1>3
<1>5. /\ \A i, j \in 1..Len(t) : f[i] = f[j] => i = j
      /\ \A i, j \in 1..Len(u) : g[i] = g[j] => i = j
      /\ \A i \in 1..Len(t), j \in 1..Len(u) : f[i] # g[j]
      /\ \A i \in 1..Len(t) : t[i] \in C => s[f[i]] \in C
      /\ \A i \in 1..Len(u) : u[i] \in C => s[g[i]] \in C
  BY <1>1, <1>2, <1>3
<1> HIDE DEF f, g
<1> QED
  BY <1>2, <1>3, <1>4, <1>5, HowManyTaken DEF t, u

-----------------------------------------------------------------------------
(* Pieces: what stands behind one place and not behind another.            *)

\* A piece is as long as its places are apart, and its elements are counted
\* from the first.
LEMMA PieceIs ==
    ASSUME NEW S, NEW s \in Seq(S), NEW n \in 0..Len(s), NEW m \in 0..n
    PROVE  /\ SubSeq(s, m + 1, n) \in Seq(S) /\ Len(SubSeq(s, m + 1, n)) = n - m
           /\ \A i \in 1..(n - m) : SubSeq(s, m + 1, n)[i] = s[m + i]
<1>1. Len(s) \in Nat /\ n \in Nat /\ m \in Nat /\ m <= n /\ m + 1 \in Int /\ n \in Int
      /\ \A i \in (m + 1)..n : s[i] \in S
  BY LenProperties, ElementOfSeq
<1>2. /\ SubSeq(s, m + 1, n) \in Seq(S)
      /\ Len(SubSeq(s, m + 1, n)) = IF m + 1 <= n THEN n - (m + 1) + 1 ELSE 0
      /\ \A i \in 1..(n - (m + 1) + 1) : SubSeq(s, m + 1, n)[i] = s[(m + 1) + i - 1]
  BY <1>1, SubSeqProperties
<1>3. n - (m + 1) + 1 = n - m /\ \A i \in 1..(n - m) : (m + 1) + i - 1 = m + i
  BY <1>1
<1> QED
  BY <1>1, <1>2, <1>3

\* Two pieces, one behind the other, are one.
LEMMA PieceJoin ==
    ASSUME NEW S, NEW s \in Seq(S), NEW n \in 0..Len(s), NEW k \in 0..n, NEW m \in 0..k
    PROVE  SubSeq(s, m + 1, k) \o SubSeq(s, k + 1, n) = SubSeq(s, m + 1, n)
<1>1. Len(s) \in Nat /\ m + 1 \in 1..(Len(s) + 1) /\ k \in ((m + 1) - 1)..Len(s) /\ n \in k..Len(s)
  BY LenProperties
<1> QED
  BY <1>1, ConcatAdjacentSubSeq

\* Two parts of a sequence are the whole.
LEMMA PieceBoth ==
    ASSUME NEW S, NEW s \in Seq(S), NEW k \in 0..Len(s)
    PROVE  SubSeq(s, 1, k) \o SubSeq(s, k + 1, Len(s)) = s
<1>1. Len(s) \in Nat /\ k \in Nat /\ Len(s) \in 0..Len(s) /\ k \in 0..Len(s) /\ 0 \in 0..k
      /\ 0 + 1 = 1
  BY LenProperties
<1>2. SubSeq(s, 0 + 1, k) \o SubSeq(s, k + 1, Len(s)) = SubSeq(s, 0 + 1, Len(s))
  BY <1>1, PieceJoin
<1> QED
  BY <1>1, <1>2, SubSeqFull

\* A piece of the first of two sequences, and one that reaches into the second.
LEMMA PieceOfFirst ==
    ASSUME NEW S, NEW s \in Seq(S), NEW t \in Seq(S), NEW n \in 0..Len(s), NEW m \in 0..n
    PROVE  SubSeq(s \o t, m + 1, n) = SubSeq(s, m + 1, n)
<1> DEFINE st == s \o t
<1>1. Len(s) \in Nat /\ Len(t) \in Nat /\ n \in Nat /\ m \in Nat /\ m <= n /\ n <= Len(s)
  BY LenProperties
<1>2. st \in Seq(S) /\ Len(st) = Len(s) + Len(t)
      /\ \A i \in 1..(Len(s) + Len(t)) : st[i] = IF i <= Len(s) THEN s[i] ELSE t[i - Len(s)]
  BY ConcatProperties
<1>3. n \in 0..Len(st)
  BY <1>1, <1>2
<1> HIDE DEF st
<1>4. /\ SubSeq(st, m + 1, n) \in Seq(S) /\ Len(SubSeq(st, m + 1, n)) = n - m
      /\ \A i \in 1..(n - m) : SubSeq(st, m + 1, n)[i] = st[m + i]
  BY <1>2, <1>3, PieceIs
<1>5. /\ SubSeq(s, m + 1, n) \in Seq(S) /\ Len(SubSeq(s, m + 1, n)) = n - m
      /\ \A i \in 1..(n - m) : SubSeq(s, m + 1, n)[i] = s[m + i]
  BY PieceIs
<1>6. \A i \in 1..(n - m) : st[m + i] = s[m + i]
  BY <1>1, <1>2
<1>7. SubSeq(st, m + 1, n) = SubSeq(s, m + 1, n)
  BY <1>1, <1>4, <1>5, <1>6, SeqEqual
<1> QED
  BY <1>7 DEF st

LEMMA PieceAcross ==
    ASSUME NEW S, NEW s \in Seq(S), NEW t \in Seq(S), NEW k \in 0..Len(s)
    PROVE  SubSeq(s \o t, k + 1, Len(s \o t)) = SubSeq(s, k + 1, Len(s)) \o t
<1> DEFINE st == s \o t
           a == SubSeq(s, 1, k)
           b == SubSeq(s, k + 1, Len(s))
           c == SubSeq(st, k + 1, Len(st))
<1>1. Len(s) \in Nat /\ Len(t) \in Nat /\ k \in Nat /\ k <= Len(s) /\ 0 + 1 = 1 /\ 0 \in 0..k
      /\ Len(s) \in 0..Len(s) /\ k \in 0..Len(s)
  BY LenProperties
<1>2. st \in Seq(S) /\ Len(st) = Len(s) + Len(t)
  BY ConcatProperties
<1>3. k \in 0..Len(st) /\ Len(st) \in 0..Len(st)
  BY <1>1, <1>2
<1>4. a \in Seq(S) /\ b \in Seq(S)
  BY <1>1, PieceIs
<1>5. a \o b = s
  BY PieceBoth
<1>6. SubSeq(st, 1, k) = a
  BY <1>1, PieceOfFirst
<1> HIDE DEF st
<1>7. c \in Seq(S)
  BY <1>2, <1>3, PieceIs
<1>8. SubSeq(st, 1, k) \o c = st
  BY <1>2, <1>3, PieceBoth
<1> HIDE DEF a, b, c
<1>9. a \o (b \o t) = st
  <2>1. (a \o b) \o t = a \o (b \o t)
    BY <1>4, ConcatAssociative
  <2> QED
    BY <1>5, <2>1 DEF st
<1>10. b \o t \in Seq(S)
  BY <1>4, ConcatProperties
<1>11. a \o c = a \o (b \o t)
  BY <1>6, <1>8, <1>9
<1>12. c = b \o t
  BY <1>4, <1>7, <1>10, <1>11, ConcatSimplifications
<1> QED
  BY <1>12 DEF b, c, st

\* A sequence over two sets is cut into its first elements and the others in
\* one way only.
LEMMA TakeFirst ==
    ASSUME NEW S, NEW s \in Seq(S), NEW t \in Seq(S)
    PROVE  SubSeq(s \o t, 1, Len(s)) = s /\ SubSeq(s \o t, Len(s) + 1, Len(s \o t)) = t
<1>1. Len(s) \in Nat /\ Len(s) \in 0..Len(s) /\ 0 \in 0..Len(s) /\ 0 + 1 = 1
  BY LenProperties
<1>2. SubSeq(s \o t, 0 + 1, Len(s)) = SubSeq(s, 0 + 1, Len(s))
  BY <1>1, PieceOfFirst
<1>3. SubSeq(s, 1, Len(s)) = s
  BY SubSeqFull
<1>4. SubSeq(s \o t, Len(s) + 1, Len(s \o t)) = SubSeq(s, Len(s) + 1, Len(s)) \o t
  BY <1>1, PieceAcross
<1>5. SubSeq(s, Len(s) + 1, Len(s)) = <<>>
  BY <1>1, SubSeqEmpty
<1>6. <<>> \o t = t
  BY ConcatEmptySeq
<1> QED
  BY <1>1, <1>2, <1>3, <1>4, <1>5, <1>6

\* Flattening goes through a concatenation.
LEMMA FlattenConcat ==
    ASSUME NEW T, NEW s \in Seq(Seq(T)), NEW t \in Seq(Seq(T))
    PROVE  FlattenSeq(s \o t) = FlattenSeq(s) \o FlattenSeq(t)
<1> DEFINE P(u) == FlattenSeq(s \o u) = FlattenSeq(s) \o FlattenSeq(u)
           N == {n \in Nat : \A u \in Seq(Seq(T)) : Len(u) = n => P(u)}
<1>1. 0 \in N
  <2>1. ASSUME NEW u \in Seq(Seq(T)), Len(u) = 0 PROVE P(u)
    <3>1. u = <<>>
      BY <2>1, EmptySeq
    <3>2. FlattenSeq(u) = <<>>
      BY <2>1, <3>1 DEF FlattenSeq
    <3>3. FlattenSeq(s) \in Seq(T)
      BY FlattenType
    <3>4. s \o u = s /\ FlattenSeq(s) \o <<>> = FlattenSeq(s)
      BY <3>1, <3>3, ConcatEmptySeq
    <3> QED
      BY <3>2, <3>4
  <2> QED
    BY <2>1
<1>2. ASSUME NEW n \in Nat, n \in N PROVE n + 1 \in N
  <2>1. ASSUME NEW u \in Seq(Seq(T)), Len(u) = n + 1 PROVE P(u)
    <3> DEFINE v == SubSeq(u, 1, n)
               x == u[n + 1]
    <3>1. v \in Seq(Seq(T)) /\ Len(v) = n
      <4>1. n \in 0..Len(u) /\ 0 \in 0..n /\ 0 + 1 = 1 /\ n - 0 = n
        BY <2>1
      <4> QED
        BY <4>1, PieceIs
    <3>2. x \in Seq(T)
      <4>1. n + 1 \in 1..Len(u)
        BY <2>1
      <4> QED
        BY <4>1, ElementOfSeq
    <3>3. u = Append(v, x)
      <4> HIDE DEF v, x
      <4>1. Append(v, x) \in Seq(Seq(T)) /\ Len(Append(v, x)) = n + 1
            /\ (\A i \in 1..n : Append(v, x)[i] = v[i]) /\ Append(v, x)[n + 1] = x
        BY <3>1, <3>2, AppendProperties
      <4>2. \A i \in 1..n : v[i] = u[i]
        <5>1. n \in 0..Len(u) /\ 0 \in 0..n /\ 0 + 1 = 1 /\ n - 0 = n /\ \A i \in 1..n : 0 + i = i
          BY <2>1
        <5>2. \A i \in 1..(n - 0) : SubSeq(u, 0 + 1, n)[i] = u[0 + i]
          BY <5>1, PieceIs
        <5> QED
          BY <5>1, <5>2 DEF v
      <4>3. \A i \in 1..(n + 1) : Append(v, x)[i] = u[i]
        BY <4>1, <4>2 DEF x
      <4> QED
        BY <2>1, <4>1, <4>3, SeqEqual
    <3> HIDE DEF v, x
    <3>4. P(v)
      BY <1>2, <3>1
    <3>5. s \o Append(v, x) = Append(s \o v, x) /\ s \o v \in Seq(Seq(T))
      <4>1. /\ s \o v \in Seq(Seq(T)) /\ <<x>> \in Seq(Seq(T))
            /\ Append(v, x) = v \o <<x>> /\ Append(s \o v, x) = (s \o v) \o <<x>>
        BY <3>1, <3>2, ConcatProperties, AppendIsConcat
      <4> QED
        BY <3>1, <4>1, ConcatAssociative
    <3>6. /\ FlattenSeq(s) \in Seq(T) /\ FlattenSeq(v) \in Seq(T)
      BY <3>1, FlattenType
    <3>7. FlattenSeq(s \o u) = FlattenSeq(s \o v) \o x /\ FlattenSeq(u) = FlattenSeq(v) \o x
      BY <3>1, <3>2, <3>3, <3>5, FlattenAppend
    <3> QED
      BY <3>2, <3>4, <3>6, <3>7, ConcatAssociative
  <2> QED
    BY <2>1
<1> HIDE DEF N
<1>3. Nat \subseteq N
  BY <1>1, <1>2, NatInduct
<1>4. Len(t) \in N
  BY <1>3, LenProperties
<1> QED
  BY <1>4 DEF N

\* A piece of the second of two sequences.
LEMMA PieceOfSecond ==
    ASSUME NEW S, NEW s \in Seq(S), NEW t \in Seq(S), NEW n \in 0..Len(t), NEW m \in 0..n
    PROVE  SubSeq(s \o t, Len(s) + m + 1, Len(s) + n) = SubSeq(t, m + 1, n)
<1> DEFINE st == s \o t
           k  == Len(s)
           a  == k + m
           b  == k + n
<1>1. k \in Nat /\ Len(t) \in Nat /\ n \in Nat /\ m \in Nat /\ m <= n /\ n <= Len(t)
  BY LenProperties
<1>2. st \in Seq(S) /\ Len(st) = k + Len(t)
      /\ \A i \in 1..(k + Len(t)) : st[i] = IF i <= k THEN s[i] ELSE t[i - k]
  BY ConcatProperties
<1> HIDE DEF st, k
<1>3. b \in 0..Len(st) /\ a \in 0..b /\ b - a = n - m
  BY <1>1, <1>2
<1>4. \A i \in 1..(n - m) : st[a + i] = t[m + i]
  <2>1. ASSUME NEW i \in 1..(n - m) PROVE st[a + i] = t[m + i]
    <3>1. a + i \in 1..(k + Len(t)) /\ ~(a + i <= k) /\ (a + i) - k = m + i
      BY <1>1
    <3> HIDE DEF a
    <3> QED
      BY <1>2, <3>1
  <2> QED
    BY <2>1
<1> HIDE DEF a, b
<1>5. /\ SubSeq(st, a + 1, b) \in Seq(S) /\ Len(SubSeq(st, a + 1, b)) = b - a
      /\ \A i \in 1..(b - a) : SubSeq(st, a + 1, b)[i] = st[a + i]
  BY <1>2, <1>3, PieceIs
<1>6. /\ SubSeq(t, m + 1, n) \in Seq(S) /\ Len(SubSeq(t, m + 1, n)) = n - m
      /\ \A i \in 1..(n - m) : SubSeq(t, m + 1, n)[i] = t[m + i]
  BY PieceIs
<1> DEFINE x == SubSeq(st, a + 1, b)
           y == SubSeq(t, m + 1, n)
<1>7. x \in Seq(S) /\ y \in Seq(S) /\ Len(x) = n - m /\ Len(y) = n - m
      /\ \A i \in 1..(n - m) : x[i] = y[i]
  BY <1>3, <1>4, <1>5, <1>6
<1> HIDE DEF x, y
<1>8. x = y
  BY <1>7, SeqEqual
<1>9. SubSeq(st, a + 1, b) = SubSeq(t, m + 1, n)
  BY <1>8 DEF x, y
<1> QED
  BY <1>9 DEF a, b, st, k

\* A sequence that is one longer, as a function.
LEMMA FlattenLast ==
    ASSUME NEW T, NEW n \in Nat, NEW f \in [1..(n + 1) -> Seq(T)]
    PROVE  FlattenSeq(f) = FlattenSeq([i \in 1..n |-> f[i]]) \o f[n + 1]
<1> DEFINE v == [i \in 1..n |-> f[i]]
           x == f[n + 1]
<1>1. v \in Seq(Seq(T)) /\ Len(v) = n /\ x \in Seq(T) /\ \A i \in 1..n : v[i] = f[i]
  OBVIOUS
<1>2. f \in Seq(Seq(T)) /\ Len(f) = n + 1
  <2> DEFINE m == n + 1
  <2>1. m \in Nat /\ f \in [1..m -> Seq(T)]
    OBVIOUS
  <2> HIDE DEF m
  <2>2. f \in Seq(Seq(T)) /\ Len(f) = m
    BY <2>1
  <2> QED
    BY <2>2 DEF m
<1> HIDE DEF v
<1>3. Append(v, x) \in Seq(Seq(T)) /\ Len(Append(v, x)) = n + 1
      /\ (\A i \in 1..n : Append(v, x)[i] = v[i]) /\ Append(v, x)[n + 1] = x
  BY <1>1, AppendProperties
<1>4. \A i \in 1..(n + 1) : Append(v, x)[i] = f[i]
  <2>1. \A i \in 1..(n + 1) : i \in 1..n \/ i = n + 1
    OBVIOUS
  <2> QED
    BY <1>1, <1>3, <2>1
<1>5. f = Append(v, x)
  BY <1>2, <1>3, <1>4, SeqEqual
<1>6. FlattenSeq(Append(v, x)) = FlattenSeq(v) \o x
  BY <1>1, FlattenAppend
<1> QED
  BY <1>5, <1>6 DEF v

\* The pieces between cuts, one after the other, are all up to the last cut.
LEMMA FlattenPieces ==
    ASSUME NEW S, NEW s \in Seq(S), NEW n \in Nat, NEW c \in [0..n -> 0..Len(s)],
           c[0] = 0, \A i \in 1..n : c[i - 1] <= c[i]
    PROVE  FlattenSeq([i \in 1..n |-> SubSeq(s, c[i - 1] + 1, c[i])]) = SubSeq(s, 1, c[n])
<1> DEFINE piece(i) == SubSeq(s, c[i - 1] + 1, c[i])
           P(k) == FlattenSeq([i \in 1..k |-> piece(i)]) = SubSeq(s, 1, c[k])
           N == {k \in Nat : k <= n => P(k)}
<1>1. Len(s) \in Nat /\ \A i \in 0..n : c[i] \in 0..Len(s)
  BY LenProperties
<1>2. 0 \in N
  <2>1. SubSeq(s, 1, c[0]) = <<>>
    BY SubSeqEmpty
  <2>2. FlattenSeq([i \in 1..0 |-> piece(i)]) = <<>>
    <3>1. [i \in 1..0 |-> piece(i)] = <<>>
      OBVIOUS
    <3>2. FlattenSeq(<<>>) = <<>>
      BY DEF FlattenSeq
    <3> QED
      BY <3>1, <3>2
  <2> QED
    BY <2>1, <2>2
<1>3. ASSUME NEW k \in Nat, k \in N PROVE k + 1 \in N
  <2> HIDE DEF P
  <2>1. SUFFICES ASSUME k + 1 <= n PROVE P(k + 1)
    OBVIOUS
  <2>2. \A i \in 1..(k + 1) : piece(i) \in Seq(S)
    <3>1. ASSUME NEW i \in 1..(k + 1) PROVE piece(i) \in Seq(S)
      <4>1. i \in 1..n /\ i - 1 \in 0..n /\ i \in 0..n
        BY <2>1
      <4>2. c[i] \in 0..Len(s) /\ c[i - 1] \in 0..c[i]
        BY <1>1, <4>1
      <4> QED
        BY <4>2, PieceIs
    <3> QED
      BY <3>1
  <2>3. k \in 0..n /\ k + 1 \in 1..n /\ k + 1 \in 0..n /\ (k + 1) - 1 = k /\ 0 + 1 = 1
    BY <2>1
  <2>4. c[k + 1] \in 0..Len(s) /\ c[k] \in 0..c[k + 1] /\ 0 \in 0..c[k]
    BY <1>1, <2>3
  <2> DEFINE f == [i \in 1..(k + 1) |-> piece(i)]
  <2>5. f \in [1..(k + 1) -> Seq(S)] /\ f[k + 1] = piece(k + 1)
        /\ [i \in 1..k |-> f[i]] = [i \in 1..k |-> piece(i)]
    <3> HIDE DEF piece
    <3> QED
      BY <2>2
  <2> HIDE DEF f
  <2>6. FlattenSeq(f) = FlattenSeq([i \in 1..k |-> f[i]]) \o f[k + 1]
    BY <2>5, FlattenLast
  <2>7. FlattenSeq([i \in 1..k |-> piece(i)]) = SubSeq(s, 1, c[k])
    <3>1. P(k)
      BY <1>3, <2>3
    <3> QED
      BY <3>1 DEF P
  <2>8. SubSeq(s, 0 + 1, c[k]) \o SubSeq(s, c[k] + 1, c[k + 1]) = SubSeq(s, 0 + 1, c[k + 1])
    BY <2>4, PieceJoin
  <2>9. piece(k + 1) = SubSeq(s, c[k] + 1, c[k + 1])
    BY <2>3
  <2> HIDE DEF piece
  <2> QED
    BY <2>3, <2>5, <2>6, <2>7, <2>8, <2>9 DEF f, P
<1> HIDE DEF N, P
<1>4. Nat \subseteq N
  BY <1>2, <1>3, NatInduct
<1>5. P(n)
  BY <1>4 DEF N
<1> QED
  BY <1>5 DEF P

\* What holds of no elements, and of one more whenever it holds, holds of every
\* sequence; P is the set of the sequences of which it does.
LEMMA SeqInduct ==
    ASSUME NEW S, NEW P, <<>> \in P,
           \A s \in Seq(S) : s \in P => \A x \in S : s \o <<x>> \in P
    PROVE  Seq(S) \subseteq P
<1> DEFINE N == {n \in Nat : \A s \in Seq(S) : Len(s) = n => s \in P}
<1>1. 0 \in N
  <2>1. ASSUME NEW s \in Seq(S), Len(s) = 0 PROVE s \in P
    <3>1. s = <<>>
      BY <2>1, EmptySeq
    <3> QED
      BY <3>1
  <2> QED
    BY <2>1
<1>2. ASSUME NEW n \in Nat, n \in N PROVE n + 1 \in N
  <2>1. ASSUME NEW s \in Seq(S), Len(s) = n + 1 PROVE s \in P
    <3> DEFINE v == SubSeq(s, 1, n)
               x == s[n + 1]
               u == SubSeq(s, n + 1, n + 1)
    <3>1. n \in 0..Len(s) /\ n + 1 \in 0..Len(s) /\ n \in 0..(n + 1) /\ 0 \in 0..n /\ 0 + 1 = 1
          /\ n - 0 = n /\ (n + 1) - n = 1 /\ n + 1 \in 1..Len(s)
      BY <2>1
    <3>2. v \in Seq(S) /\ Len(v) = n /\ x \in S
      BY <3>1, PieceIs, ElementOfSeq
    <3>3. u = <<x>>
      <4>1. u \in Seq(S) /\ Len(u) = 1 /\ \A i \in 1..1 : u[i] = s[n + i]
        BY <3>1, PieceIs
      <4> HIDE DEF u
      <4>2. <<x>> \in Seq(S) /\ Len(<<x>>) = 1 /\ <<x>>[1] = x
        BY <3>2
      <4>3. \A i \in 1..1 : u[i] = <<x>>[i]
        BY <4>1, <4>2
      <4> QED
        BY <4>1, <4>2, <4>3, SeqEqual
    <3>4. v \o u = s
      BY <2>1, <3>1, PieceBoth
    <3> HIDE DEF v, x, u
    <3>5. v \in P
      BY <1>2, <3>2
    <3> QED
      BY <3>2, <3>3, <3>4, <3>5
  <2> QED
    BY <2>1
<1> HIDE DEF N
<1>3. Nat \subseteq N
  BY <1>1, <1>2, NatInduct
<1>4. \A s \in Seq(S) : Len(s) \in N
  BY <1>3, LenProperties
<1> QED
  BY <1>4 DEF N
==============================================================================
