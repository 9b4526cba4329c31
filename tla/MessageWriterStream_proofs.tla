----------------------- MODULE MessageWriterStream_proofs -----------------------
(***************************************************************************)
(* Proofs about what a reader of the format makes of what MessageWriter    *)
(* gives out, for every payload, size of portions, step of the cipher and  *)
(* cut into calls: packets, portions, layers, fields and armor fit         *)
(* together, so that the payload comes back in order, soon and to its end. *)
(***************************************************************************)
EXTENDS MessageWriter_proofs

-----------------------------------------------------------------------------
(* The reader of portions.  The recursion in Unframed goes on with what is *)
(* behind a portion, which is shorter, so there is a function like that.   *)

AnyCell == [depth : 0..2, kind : Kinds \cup {"junk"}, val : Nat]

Stops(s) == \/ s = <<>> \/ s[1].depth # 0 \/ s[1].kind \notin Lengths
            \/ 1 + s[1].val > Len(s)
            \/ s[1].kind = "last" /\ 1 + s[1].val < Len(s)
Ends(s)  == IF s = <<>> THEN <<>>
            ELSE IF s[1].depth # 0 \/ s[1].kind \notin Lengths THEN <<Junk>>
            ELSE IF 1 + s[1].val > Len(s) THEN Tail(s) ELSE <<Junk>>
Piece(s) == SubSeq(s, 2, 1 + s[1].val)
Rest(s)  == Drop(s, 1 + s[1].val)
Reading(u, s) == IF Stops(s) THEN Ends(s) ELSE Piece(s) \o u[Rest(s)]

Short(n) == {s \in Cells : Len(s) <= n}
Reader(u, n) == u = [s \in Short(n) |-> Reading(u, s)]

\* What is behind a portion is shorter.
LEMMA RestIs ==
    ASSUME NEW s \in Cells, ~Stops(s)
    PROVE  Rest(s) \in Cells /\ Len(Rest(s)) \in Nat /\ Len(Rest(s)) < Len(s)
<1>1. s # <<>> /\ ~(1 + s[1].val > Len(s)) /\ s \in Seq(AnyCell)
  BY DEF Stops, Cells, AnyCell
<1>2. Len(s) \in Nat \ {0}
  BY <1>1, EmptySeq
<1>3. s[1] \in AnyCell
  BY <1>1, <1>2, ElementOfSeq
<1> DEFINE k == 1 + s[1].val
<1>4. k \in 1..Len(s) /\ k \in 0..Len(s)
  BY <1>1, <1>2, <1>3 DEF AnyCell
<1> HIDE DEF k
<1>5. Drop(s, k) \in Seq(AnyCell) /\ Len(Drop(s, k)) = Len(s) - k
  BY <1>1, <1>4, DropIs
<1>6. Rest(s) = Drop(s, k)
  BY DEF Rest, k
<1> QED
  BY <1>2, <1>4, <1>5, <1>6 DEF Cells, AnyCell

\* There is a reader for octets up to every length,
LEMMA ReaderExists ==
    ASSUME NEW n \in Nat
    PROVE  \E u : Reader(u, n)
<1> DEFINE S == {k \in Nat : \E u : Reader(u, k)}
<1>1. 0 \in S
  <2> DEFINE u == [s \in Short(0) |-> Ends(s)]
  <2>1. ASSUME NEW s \in Short(0) PROVE Stops(s)
    <3>1. s \in Seq(AnyCell) /\ Len(s) <= 0
      BY DEF Short, Cells, AnyCell
    <3>2. s = <<>>
      BY <3>1, EmptySeq
    <3> QED
      BY <3>2 DEF Stops
  <2>2. u = [s \in Short(0) |-> Reading(u, s)]
    BY <2>1 DEF Reading
  <2>3. Reader(u, 0)
    BY <2>2 DEF Reader
  <2> QED
    BY <2>3
<1>2. \A k \in Nat : k \in S => k + 1 \in S
  <2> SUFFICES ASSUME NEW k \in Nat, NEW u, Reader(u, k) PROVE \E v : Reader(v, k + 1)
    OBVIOUS
  <2> DEFINE v == [s \in Short(k + 1) |-> Reading(u, s)]
  <2>1. ASSUME NEW s \in Short(k + 1) PROVE Reading(v, s) = Reading(u, s)
    <3>1. CASE Stops(s)
      BY <3>1 DEF Reading
    <3>2. CASE ~Stops(s)
      <4> DEFINE r == Rest(s)
      <4>1. s \in Cells /\ Len(s) <= k + 1 /\ Len(s) \in Nat
        <5>1. s \in Cells /\ Len(s) <= k + 1
          BY DEF Short
        <5> QED
          BY <5>1, LenProperties DEF Cells
      <4>2. r \in Cells /\ Len(r) \in Nat /\ Len(r) < Len(s)
        BY <3>2, <4>1, RestIs
      <4> HIDE DEF r
      <4>3. r \in Short(k) /\ r \in Short(k + 1)
        BY <4>1, <4>2 DEF Short
      <4>4. v[r] = Reading(u, r)
        BY <4>3
      <4>5. u[r] = Reading(u, r)
        <5>1. u = [x \in Short(k) |-> Reading(u, x)]
          BY DEF Reader
        <5> QED
          BY <4>3, <5>1
      <4> HIDE DEF v
      <4> QED
        BY <3>2, <4>4, <4>5 DEF Reading, r
    <3> QED
      BY <3>1, <3>2
  <2>2. v = [s \in Short(k + 1) |-> Reading(v, s)]
    BY <2>1
  <2>3. Reader(v, k + 1)
    BY <2>2 DEF Reader
  <2> QED
    BY <2>3
<1>3. Nat \subseteq S
  <2> HIDE DEF S
  <2> QED
    BY <1>1, <1>2, NatInduct
<1> QED
  BY <1>3

\* and only one, which does not depend on how far it goes.
LEMMA ReaderOne ==
    ASSUME NEW m \in Nat, NEW n \in Nat, NEW u, NEW v, Reader(u, m), Reader(v, n),
           NEW x \in Cells, Len(x) <= m, Len(x) <= n
    PROVE  u[x] = v[x]
<1> DEFINE Same(k) == \A s \in Cells : Len(s) <= k /\ Len(s) <= m /\ Len(s) <= n => u[s] = v[s]
           S == {k \in Nat : Same(k)}
<1>1. /\ \A s \in Short(m) : u[s] = Reading(u, s)
      /\ \A s \in Short(n) : v[s] = Reading(v, s)
  <2>1. u = [s \in Short(m) |-> Reading(u, s)] /\ v = [s \in Short(n) |-> Reading(v, s)]
    BY DEF Reader
  <2> QED
    BY <2>1
<1>2. \A s \in Cells : Len(s) \in Nat
  BY LenProperties DEF Cells
<1>3. 0 \in S
  <2>1. ASSUME NEW s \in Cells, Len(s) <= 0 PROVE u[s] = v[s]
    <3>1. s \in Seq(AnyCell)
      BY DEF Cells, AnyCell
    <3>2. s = <<>>
      BY <2>1, <3>1, EmptySeq
    <3>3. Stops(s) /\ s \in Short(m) /\ s \in Short(n)
      BY <1>2, <2>1, <3>2 DEF Stops, Short
    <3> QED
      BY <1>1, <3>3 DEF Reading
  <2> QED
    BY <2>1
<1>4. \A k \in Nat : k \in S => k + 1 \in S
  <2> SUFFICES ASSUME NEW k \in Nat, Same(k), NEW s \in Cells,
                      Len(s) <= k + 1, Len(s) <= m, Len(s) <= n
               PROVE  u[s] = v[s]
    OBVIOUS
  <2>1. s \in Short(m) /\ s \in Short(n)
    BY DEF Short
  <2>2. CASE Stops(s)
    BY <1>1, <2>1, <2>2 DEF Reading
  <2>3. CASE ~Stops(s)
    <3>1. Rest(s) \in Cells /\ Len(Rest(s)) \in Nat /\ Len(Rest(s)) < Len(s)
      BY <2>3, RestIs
    <3>2. Len(Rest(s)) <= k /\ Len(Rest(s)) <= m /\ Len(Rest(s)) <= n
      BY <1>2, <3>1
    <3>3. u[Rest(s)] = v[Rest(s)]
      BY <3>1, <3>2
    <3> HIDE DEF Same
    <3> QED
      BY <1>1, <2>1, <2>3, <3>3 DEF Reading
  <2> QED
    BY <2>2, <2>3
<1>5. Nat \subseteq S
  <2> HIDE DEF S
  <2> QED
    BY <1>3, <1>4, NatInduct
<1>6. Same(m)
  BY <1>5
<1> QED
  BY <1>2, <1>6

\* So the recursion is sound: Unframed is what its definition says.
LEMMA UnframedIs ==
    ASSUME NEW s \in Cells
    PROVE  Unframed[s] = Reading(Unframed, s)
<1> DEFINE R(n) == CHOOSE u : Reader(u, n)
           U == [x \in Cells |-> R(Len(x))[x]]
<1>1. \A n \in Nat : Reader(R(n), n)
  <2>1. ASSUME NEW n \in Nat PROVE Reader(R(n), n)
    <3>1. \E u : Reader(u, n)
      BY ReaderExists
    <3> QED
      BY <3>1
  <2> QED
    BY <2>1
<1> HIDE DEF R
<1>2. \A x \in Cells : Len(x) \in Nat
  BY LenProperties DEF Cells
<1>3. ASSUME NEW x \in Cells PROVE U[x] = Reading(U, x)
  <2> DEFINE n == Len(x)
             u == R(n)
  <2>1. n \in Nat /\ Reader(u, n)
    BY <1>1, <1>2
  <2>2. U[x] = u[x] /\ x \in Short(n)
    BY <2>1 DEF Short
  <2>3. u[x] = Reading(u, x)
    <3> HIDE DEF u
    <3>1. u = [y \in Short(n) |-> Reading(u, y)]
      BY <2>1 DEF Reader
    <3> QED
      BY <2>2, <3>1
  <2>4. CASE Stops(x)
    BY <2>2, <2>3, <2>4 DEF Reading
  <2>5. CASE ~Stops(x)
    <3> DEFINE r == Rest(x)
    <3>1. r \in Cells /\ Len(r) \in Nat /\ Len(r) < n
      BY <2>5, RestIs
    <3> HIDE DEF r
    <3>2. U[r] = R(Len(r))[r]
      BY <3>1
    <3>3. Reader(R(Len(r)), Len(r))
      BY <1>1, <3>1
    <3>4. u[r] = R(Len(r))[r]
      <4> DEFINE k == Len(r)
                 w == R(k)
      <4>1. k \in Nat /\ Reader(w, k) /\ Len(r) <= n /\ Len(r) <= k
        BY <2>1, <3>1, <3>3
      <4> HIDE DEF u, w, k, n
      <4>2. u[r] = w[r]
        BY <2>1, <3>1, <4>1, ReaderOne
      <4> QED
        BY <4>2 DEF w, k
    <3> HIDE DEF U, u
    <3>5. U[r] = u[r]
      BY <3>2, <3>4
    <3> QED
      BY <2>2, <2>3, <2>5, <3>5 DEF Reading, r
  <2> QED
    BY <2>4, <2>5
<1> HIDE DEF U
<1> DEFINE E(u, x) == IF x = <<>> THEN <<>>
                      ELSE LET size == x[1].val
                           IN  IF x[1].depth # 0 \/ x[1].kind \notin Lengths THEN <<Junk>>
                               ELSE IF 1 + size > Len(x) THEN Tail(x)
                               ELSE IF x[1].kind = "last" /\ 1 + size < Len(x) THEN <<Junk>>
                               ELSE SubSeq(x, 2, 1 + size) \o u[Drop(x, 1 + size)]
<1>4. \A u, x : E(u, x) = Reading(u, x)
  BY DEF Reading, Stops, Ends, Piece, Rest
<1>5. Unframed = CHOOSE u : u = [x \in Cells |-> E(u, x)]
  BY DEF Unframed
<1> HIDE DEF E
<1>6. U = [x \in Cells |-> E(U, x)]
  <2>1. U = [x \in Cells |-> U[x]]
    BY DEF U
  <2> QED
    BY <1>3, <1>4, <2>1
<1>7. Unframed = [x \in Cells |-> E(Unframed, x)]
  BY <1>5, <1>6
<1>8. Unframed[s] = E(Unframed, s)
  BY <1>7
<1> QED
  BY <1>4, <1>8

-----------------------------------------------------------------------------
(* A sequence that another starts with.                                    *)

Starts(s, t) == Len(s) <= Len(t) /\ \A i \in 1..Len(s) : s[i] = t[i]

\* Starts is IsPrefix, element by element.
LEMMA StartsIs ==
    ASSUME NEW S, NEW s \in Seq(S), NEW t \in Seq(S)
    PROVE  /\ Starts(s, s) /\ Starts(<<>>, s)
           /\ Starts(s, <<>>) => s = <<>>
           /\ Starts(s, t) /\ Len(s) = Len(t) => s = t
           /\ IsPrefix(s, t) <=> Starts(s, t)
<1>1. Len(s) \in Nat /\ Len(t) \in Nat
  BY LenProperties
<1>2. Starts(s, s) /\ Starts(<<>>, s)
  BY <1>1 DEF Starts
<1>3. Starts(s, <<>>) => s = <<>>
  BY <1>1, EmptySeq DEF Starts
<1>4. ASSUME Starts(s, t), Len(s) = Len(t) PROVE s = t
  BY <1>4, SeqEqual DEF Starts
<1>5. IsPrefix(s, t) <=> Starts(s, t)
  <2>1. CASE ~(Len(s) <= Len(t))
    BY <2>1 DEF IsPrefix, Starts
  <2>2. CASE Len(s) <= Len(t)
    <3> DEFINE n == Len(s)
               a == SubSeq(s, 1, n)
               b == SubSeq(t, 1, n)
    <3>1. n \in 0..Len(s) /\ n \in 0..Len(t)
      BY <1>1, <2>2
    <3>2. a = s
      BY SubSeqFull
    <3>3. b \in Seq(S) /\ Len(b) = n /\ \A i \in 1..n : b[i] = t[i]
      <4>1. Take(t, n) = b
        BY DEF Take
      <4>2. Take(t, n) \in Seq(S) /\ Len(Take(t, n)) = n /\ \A i \in 1..n : Take(t, n)[i] = t[i]
        BY <3>1, TakeIs
      <4> QED
        BY <4>1, <4>2
    <3>4. IsPrefix(s, t) <=> a = b
      BY <2>2 DEF IsPrefix
    <3>5. Starts(s, t) <=> \A i \in 1..n : s[i] = t[i]
      BY <2>2 DEF Starts
    <3> HIDE DEF a, b
    <3>6. (s = b) <=> \A i \in 1..n : s[i] = t[i]
      <4>1. ASSUME \A i \in 1..n : s[i] = t[i] PROVE s = b
        <5>1. \A i \in 1..Len(s) : s[i] = b[i]
          BY <3>3, <4>1
        <5> QED
          BY <3>3, <5>1, SeqEqual
      <4> QED
        BY <3>3, <4>1
    <3> QED
      BY <3>2, <3>4, <3>5, <3>6
  <2> QED
    BY <2>1, <2>2
<1> QED
  BY <1>2, <1>3, <1>4, <1>5

\* The start of a start.
LEMMA StartsTwice ==
    ASSUME NEW S, NEW s \in Seq(S), NEW t \in Seq(S), NEW u \in Seq(S),
           Starts(s, t), Starts(t, u)
    PROVE  Starts(s, u)
<1>1. Len(s) \in Nat /\ Len(t) \in Nat /\ Len(u) \in Nat
  BY LenProperties
<1> QED
  BY <1>1 DEF Starts

\* Of two parts at the start of a sequence the shorter starts the other.
LEMMA StartsBoth ==
    ASSUME NEW S, NEW s \in Seq(S), NEW t \in Seq(S), NEW u \in Seq(S),
           Starts(s, u), Starts(t, u), Len(s) <= Len(t)
    PROVE  Starts(s, t)
<1>1. Len(s) \in Nat /\ Len(t) \in Nat /\ Len(u) \in Nat
  BY LenProperties
<1> QED
  BY <1>1 DEF Starts

\* The starts of a concatenation.
LEMMA StartsConcat ==
    ASSUME NEW S, NEW a \in Seq(S), NEW b \in Seq(S), NEW x \in Seq(S)
    PROVE  /\ Starts(a, a \o b)
           /\ Starts(x, b) => Starts(a \o x, a \o b)
           /\ Starts(a \o x, a \o b) => Starts(x, b)
           /\ Starts(x, a) => Starts(x, a \o b)
           /\ Starts(x, a \o b) /\ Len(x) <= Len(a) => Starts(x, a)
<1> DEFINE m == Len(a)
           n == Len(b)
           k == Len(x)
           ab == a \o b
           ax == a \o x
<1>1. m \in Nat /\ n \in Nat /\ k \in Nat
  BY LenProperties
<1>2. ab \in Seq(S) /\ Len(ab) = m + n /\ \A i \in 1..(m + n) : ab[i] = IF i <= m THEN a[i] ELSE b[i - m]
  BY ConcatProperties
<1>3. ax \in Seq(S) /\ Len(ax) = m + k /\ \A i \in 1..(m + k) : ax[i] = IF i <= m THEN a[i] ELSE x[i - m]
  BY ConcatProperties
<1> HIDE DEF ab, ax
<1>4. Starts(a, ab)
  BY <1>1, <1>2 DEF Starts
<1> HIDE DEF m, n, k
<1>5. ASSUME Starts(x, b) PROVE Starts(ax, ab)
  <2>1. k <= n /\ \A i \in 1..k : x[i] = b[i]
    BY <1>5 DEF Starts, k, n
  <2>2. ASSUME NEW i \in 1..(m + k) PROVE ax[i] = ab[i]
    <3>1. i \in 1..(m + n) /\ (~(i <= m) => i - m \in 1..k)
      BY <1>1, <2>1
    <3> QED
      BY <1>2, <1>3, <2>1, <3>1
  <2>3. m + k <= m + n
    BY <1>1, <2>1
  <2> QED
    BY <1>2, <1>3, <2>2, <2>3 DEF Starts
<1>6. ASSUME Starts(ax, ab) PROVE Starts(x, b)
  <2>1. m + k <= m + n /\ \A i \in 1..(m + k) : ax[i] = ab[i]
    BY <1>2, <1>3, <1>6 DEF Starts
  <2>2. ASSUME NEW i \in 1..k PROVE x[i] = b[i]
    <3>1. m + i \in 1..(m + k) /\ m + i \in 1..(m + n) /\ ~(m + i <= m) /\ (m + i) - m = i
      BY <1>1, <2>1
    <3> QED
      BY <1>2, <1>3, <2>1, <3>1
  <2>3. k <= n
    BY <1>1, <2>1
  <2> QED
    BY <2>2, <2>3 DEF Starts, k, n
<1>7. ASSUME Starts(x, ab), k <= m PROVE Starts(x, a)
  BY <1>1, <1>2, <1>7 DEF Starts, k, m
<1>8. ASSUME Starts(x, a) PROVE Starts(x, ab)
  <2>1. k <= m /\ \A i \in 1..k : x[i] = a[i]
    BY <1>8 DEF Starts, k, m
  <2>2. \A i \in 1..k : i \in 1..(m + n) /\ i <= m
    BY <1>1, <2>1
  <2>3. k <= m + n
    BY <1>1, <2>1
  <2> QED
    BY <1>2, <2>1, <2>2, <2>3 DEF Starts, k
<1> QED
  BY <1>4, <1>5, <1>6, <1>7, <1>8 DEF ab, ax, k, m

\* A start that goes beyond the first part.
LEMMA StartsSplit ==
    ASSUME NEW S, NEW a \in Seq(S), NEW b \in Seq(S), NEW x \in Seq(S),
           Starts(x, a \o b), Len(a) <= Len(x)
    PROVE  \E y \in Seq(S) : x = a \o y /\ Starts(y, b)
<1> DEFINE m == Len(a)
           ab == a \o b
           y == Drop(x, m)
           p == Take(x, m)
<1>1. m \in 0..Len(x) /\ Len(x) \in Nat /\ Len(b) \in Nat
  BY LenProperties
<1>2. Len(ab) = m + Len(b) /\ \A i \in 1..(m + Len(b)) : ab[i] = IF i <= m THEN a[i] ELSE b[i - m]
  BY ConcatProperties
<1>3. y \in Seq(S) /\ p \in Seq(S) /\ Len(p) = m /\ p \o y = x
      /\ \A i \in 1..m : p[i] = x[i]
  BY <1>1, TakeIs, DropIs, TakeDrop
<1> HIDE DEF y, p, ab
<1>4. Len(x) <= Len(ab) /\ \A i \in 1..Len(x) : x[i] = ab[i]
  BY DEF Starts, ab
<1> HIDE DEF m
<1>5. \A i \in 1..m : p[i] = a[i]
  <2>1. \A i \in 1..m : i \in 1..Len(x) /\ i \in 1..(m + Len(b)) /\ i <= m
    BY <1>1, <1>2, <1>4
  <2> QED
    BY <1>2, <1>3, <1>4, <2>1
<1>6. p = a
  BY <1>3, <1>5, SeqEqual DEF m
<1>7. x = a \o y
  BY <1>3, <1>6
<1>8. Starts(a \o y, a \o b)
  BY <1>7
<1>9. Starts(y, b)
  BY <1>3, <1>8, StartsConcat
<1> QED
  BY <1>3, <1>7, <1>9

-----------------------------------------------------------------------------
(* Readers.  R makes came of went, and of every start of went a start of   *)
(* came that is at most k behind what is missing from went.                *)

Prompt(R, came, went, k) ==
    /\ \A x \in Cells : Starts(x, went) =>
          /\ R[x] \in Cells /\ Starts(R[x], came)
          /\ Len(came) - Len(R[x]) <= (Len(went) - Len(x)) + k
    /\ \A x, y \in Cells : Starts(x, y) /\ Starts(y, went) => Starts(R[x], R[y])

Then(Q, R) == [s \in Cells |-> R[Q[s]]]

\* Cells are sequences.
LEMMA CellsAre == Cells = Seq(AnyCell) /\ CellType \subseteq AnyCell /\ Junk \in AnyCell
                  /\ \A s \in Cells : Len(s) \in Nat
<1>1. Cells = Seq(AnyCell) /\ CellType \subseteq AnyCell
  BY DEF Cells, AnyCell, CellType
<1>2. Junk \in AnyCell
  BY DEF Junk, Cell, AnyCell
<1> QED
  BY <1>1, <1>2, LenProperties

\* One reader behind the other: what they keep back adds up.
LEMMA PromptThen ==
    ASSUME NEW Q, NEW R, NEW went \in Cells, NEW mid \in Cells, NEW came \in Cells,
           NEW j \in Nat, NEW k \in Nat, Prompt(Q, mid, went, j), Prompt(R, came, mid, k)
    PROVE  Prompt(Then(Q, R), came, went, j + k)
<1> DEFINE T == Then(Q, R)
<1>0. Len(mid) \in Nat /\ Len(came) \in Nat /\ Len(went) \in Nat /\ \A s \in Cells : Len(s) \in Nat
  BY CellsAre
<1>1. \A x \in Cells : T[x] = R[Q[x]]
  BY DEF Then
<1> HIDE DEF T
<1>2. ASSUME NEW x \in Cells, Starts(x, went)
      PROVE  /\ T[x] \in Cells /\ Starts(T[x], came)
             /\ Len(came) - Len(T[x]) <= (Len(went) - Len(x)) + (j + k)
  <2> DEFINE q == Q[x]
             r == R[q]
  <2>1. q \in Cells /\ Starts(q, mid) /\ Len(mid) - Len(q) <= (Len(went) - Len(x)) + j
    BY <1>2 DEF Prompt
  <2> HIDE DEF q
  <2>2. r \in Cells /\ Starts(r, came) /\ Len(came) - Len(r) <= (Len(mid) - Len(q)) + k
    BY <2>1 DEF Prompt
  <2>3. T[x] = r
    BY <1>1 DEF q
  <2> HIDE DEF r
  <2>4. Len(q) \in Nat /\ Len(r) \in Nat /\ Len(x) \in Nat
    BY <1>0, <2>1, <2>2
  <2>5. Len(came) - Len(r) <= (Len(went) - Len(x)) + (j + k)
    BY <1>0, <2>1, <2>2, <2>4
  <2> QED
    BY <2>2, <2>3, <2>5
<1>3. ASSUME NEW x \in Cells, NEW y \in Cells, Starts(x, y), Starts(y, went)
      PROVE  Starts(T[x], T[y])
  <2>1. Starts(x, went)
    BY <1>3, StartsTwice, CellsAre
  <2>2. Q[x] \in Cells /\ Q[y] \in Cells /\ Starts(Q[x], Q[y]) /\ Starts(Q[y], mid)
    BY <1>3, <2>1 DEF Prompt
  <2>3. Starts(R[Q[x]], R[Q[y]])
    BY <2>2 DEF Prompt
  <2> QED
    BY <1>1, <2>3
<1> QED
  BY <1>2, <1>3 DEF Prompt, T

\* Who keeps back little does not keep back more.
LEMMA PromptMore ==
    ASSUME NEW R, NEW came \in Cells, NEW went \in Cells, NEW j \in Nat, NEW k \in Nat, j <= k,
           Prompt(R, came, went, j)
    PROVE  Prompt(R, came, went, k)
<1>1. ASSUME NEW x \in Cells, R[x] \in Cells, Len(came) - Len(R[x]) <= (Len(went) - Len(x)) + j
      PROVE  Len(came) - Len(R[x]) <= (Len(went) - Len(x)) + k
  <2> DEFINE a == Len(came)
             b == Len(R[x])
             c == Len(went)
             d == Len(x)
  <2>1. a \in Nat /\ b \in Nat /\ c \in Nat /\ d \in Nat
    BY <1>1, CellsAre
  <2>2. a - b <= (c - d) + j
    BY <1>1
  <2> HIDE DEF a, b, c, d
  <2>3. a - b <= (c - d) + k
    BY <2>1, <2>2
  <2> QED
    BY <2>3 DEF a, b, c, d
<1> QED
  BY <1>1 DEF Prompt

\* Where nothing went nothing came.
LEMMA PromptNothing ==
    ASSUME NEW R, R[<<>>] = <<>>, NEW k \in Nat
    PROVE  Prompt(R, <<>>, <<>>, k)
<1>1. <<>> \in Cells
  BY CellsAre
<1>2. \A x \in Cells : Starts(x, <<>>) => x = <<>>
  BY StartsIs, CellsAre
<1>3. Starts(<<>>, <<>>)
  BY <1>1, StartsIs, CellsAre
<1> HIDE DEF Starts
<1>4. Len(<<>>) = 0 /\ 0 - 0 <= (0 - 0) + k
  OBVIOUS
<1>5. \A x \in Cells : Starts(x, <<>>) =>
          /\ R[x] \in Cells /\ Starts(R[x], <<>>)
          /\ Len(<<>>) - Len(R[x]) <= (Len(<<>>) - Len(x)) + k
  BY <1>1, <1>2, <1>3, <1>4
<1>6. \A x, y \in Cells : Starts(x, y) /\ Starts(y, <<>>) => Starts(R[x], R[y])
  <2>1. \A x, y \in Cells : Starts(x, y) /\ Starts(y, <<>>) => x = <<>> /\ y = <<>>
    BY <1>2
  <2> QED
    BY <1>3, <2>1
<1> QED
  BY <1>5, <1>6 DEF Prompt

\* What does not start with the fields yet is not read yet.
LEMMA BehindIs ==
    ASSUME NEW f \in Cells, NEW s \in Cells
    PROVE  /\ Behind(f)[f \o s] = s
           /\ s # f /\ Starts(s, f) => Behind(f)[s] = <<>>
           /\ Behind(f)[<<>>] = <<>>
<1>1. \A x \in Cells : Behind(f)[x] = IF IsPrefix(f, x) THEN Drop(x, Len(f))
                                      ELSE IF IsPrefix(x, f) THEN <<>> ELSE <<Junk>>
  BY DEF Behind
<1>2. f \in Seq(AnyCell) /\ s \in Seq(AnyCell) /\ Len(f) \in Nat /\ Len(s) \in Nat
  BY CellsAre
<1>3. Behind(f)[f \o s] = s
  <2> DEFINE fs == f \o s
  <2>1. fs \in Seq(AnyCell) /\ Starts(f, fs)
    BY <1>2, ConcatProperties, StartsConcat
  <2>2. SubSeq(fs, Len(f) + 1, Len(fs)) = s
    BY <1>2, TakeFirst
  <2> HIDE DEF fs
  <2>3. IsPrefix(f, fs) /\ fs \in Cells
    BY <1>2, <2>1, StartsIs, CellsAre
  <2> QED
    BY <1>1, <2>2, <2>3 DEF fs, Drop
<1>4. ASSUME NEW x \in Cells, x # f, Starts(x, f) PROVE Behind(f)[x] = <<>>
  <2>1. x \in Seq(AnyCell) /\ Len(x) \in Nat
    BY CellsAre
  <2>2. ~Starts(f, x)
    <3> SUFFICES ASSUME Starts(f, x) PROVE FALSE
      OBVIOUS
    <3>1. Len(x) = Len(f)
      BY <1>2, <1>4, <2>1 DEF Starts
    <3> QED
      BY <1>2, <1>4, <2>1, <3>1, StartsIs
  <2>3. ~IsPrefix(f, x) /\ IsPrefix(x, f)
    BY <1>2, <1>4, <2>1, <2>2, StartsIs
  <2> QED
    BY <1>1, <2>3
<1>5. Behind(f)[<<>>] = <<>>
  <2>1. <<>> \in Cells /\ Starts(<<>>, f)
    BY <1>2, StartsIs, CellsAre
  <2>2. CASE f = <<>>
    <3>1. Starts(f, <<>>)
      BY <2>1, <2>2
    <3>2. IsPrefix(f, <<>>)
      BY <1>2, <2>1, <3>1, StartsIs, CellsAre
    <3>3. Drop(<<>>, Len(f)) = <<>>
      BY <2>2, SubSeqEmpty DEF Drop
    <3> QED
      BY <1>1, <2>1, <3>2, <3>3
  <2>3. CASE f # <<>>
    BY <1>4, <2>1, <2>3
  <2> QED
    BY <2>2, <2>3
<1> QED
  BY <1>3, <1>4, <1>5

\* Taking the fields off keeps nothing back.
LEMMA BehindReads ==
    ASSUME NEW f \in Cells, NEW s \in Cells
    PROVE  Prompt(Behind(f), s, f \o s, 0)
<1> DEFINE fs == f \o s
           B == Behind(f)
<1>1. /\ f \in Seq(AnyCell) /\ s \in Seq(AnyCell) /\ fs \in Seq(AnyCell) /\ fs \in Cells
      /\ Len(f) \in Nat /\ Len(s) \in Nat /\ Len(fs) = Len(f) + Len(s)
      /\ <<>> \in Cells
  BY CellsAre, ConcatProperties
<1>2. \A x \in Cells : Len(x) \in Nat /\ x \in Seq(AnyCell)
  BY CellsAre
<1> HIDE DEF B
<1>3. ASSUME NEW x \in Cells, Starts(x, fs)
      PROVE  \/ /\ B[x] = <<>> /\ Len(x) <= Len(f)
             \/ \E y \in Cells : x = f \o y /\ Starts(y, s) /\ B[x] = y /\ Len(x) = Len(f) + Len(y)
  <2>1. CASE Len(f) <= Len(x)
    <3>1. PICK y \in Seq(AnyCell) : x = f \o y /\ Starts(y, s)
      BY <1>1, <1>2, <1>3, <2>1, StartsSplit
    <3>2. y \in Cells
      BY CellsAre
    <3>3. B[x] = y
      BY <3>1, <3>2, BehindIs DEF B
    <3>4. Len(x) = Len(f) + Len(y)
      BY <1>1, <3>1, ConcatProperties
    <3> QED
      BY <3>1, <3>2, <3>3, <3>4
  <2>2. CASE ~(Len(f) <= Len(x))
    <3>1. Starts(x, f) /\ x # f /\ Len(x) <= Len(f)
      <4>1. Len(x) <= Len(f) /\ x # f
        BY <1>1, <1>2, <2>2
      <4> QED
        BY <1>1, <1>2, <1>3, <4>1, StartsConcat
    <3>2. B[x] = <<>>
      BY <3>1, BehindIs DEF B
    <3> QED
      BY <3>1, <3>2
  <2> QED
    BY <2>1, <2>2
<1>4. ASSUME NEW x \in Cells, Starts(x, fs)
      PROVE  /\ B[x] \in Cells /\ Starts(B[x], s)
             /\ Len(s) - Len(B[x]) <= (Len(fs) - Len(x)) + 0
  <2>1. CASE B[x] = <<>> /\ Len(x) <= Len(f)
    <3>1. Starts(<<>>, s)
      BY <1>1, StartsIs
    <3>2. Len(s) - 0 <= (Len(fs) - Len(x)) + 0
      BY <1>1, <1>2, <2>1
    <3> HIDE DEF fs
    <3>3. Len(B[x]) = 0
      BY <2>1
    <3> QED
      BY <1>1, <2>1, <3>1, <3>2, <3>3
  <2>2. ASSUME NEW y \in Cells, Starts(y, s), B[x] = y, Len(x) = Len(f) + Len(y)
        PROVE  Len(s) - Len(B[x]) <= (Len(fs) - Len(x)) + 0
    <3>1. Len(y) \in Nat /\ Len(x) \in Nat
      BY <1>2
    <3> HIDE DEF fs
    <3>2. Len(s) - Len(y) <= (Len(fs) - Len(x)) + 0
      BY <1>1, <2>2, <3>1
    <3> QED
      BY <2>2, <3>2
  <2> HIDE DEF fs
  <2> QED
    BY <1>3, <1>4, <2>1, <2>2
<1>5. ASSUME NEW x \in Cells, NEW y \in Cells, Starts(x, y), Starts(y, fs)
      PROVE  Starts(B[x], B[y])
  <2>1. Starts(x, fs)
    BY <1>1, <1>2, <1>5, StartsTwice
  <2>2. CASE B[x] = <<>>
    <3>1. B[y] \in Seq(AnyCell)
      BY <1>4, <1>5, CellsAre
    <3>2. Starts(<<>>, B[y])
      BY <3>1, StartsIs
    <3> QED
      BY <2>2, <3>2
  <2>3. CASE B[x] # <<>>
    <3>1. PICK v \in Cells : x = f \o v /\ B[x] = v /\ Len(x) = Len(f) + Len(v)
      BY <1>3, <2>1, <2>3
    <3>2. Len(f) <= Len(y)
      <4>1. Len(x) <= Len(y) /\ Len(v) \in Nat /\ Len(x) \in Nat /\ Len(y) \in Nat
        BY <1>2, <1>5 DEF Starts
      <4> QED
        BY <1>1, <3>1, <4>1
    <3>3. PICK w \in Seq(AnyCell) : y = f \o w /\ Starts(w, s)
      BY <1>1, <1>2, <1>5, <3>2, StartsSplit
    <3>4. w \in Cells /\ B[y] = w
      BY <3>3, BehindIs, CellsAre DEF B
    <3>5. Starts(f \o v, f \o w)
      BY <1>5, <3>1, <3>3
    <3>6. Starts(v, w)
      BY <1>1, <1>2, <3>4, <3>5, StartsConcat
    <3> QED
      BY <3>1, <3>4, <3>6
  <2> QED
    BY <2>2, <2>3
<1> QED
  BY <1>4, <1>5 DEF Prompt, B

-----------------------------------------------------------------------------
(* The layer off.                                                          *)

\* One layer off leaves cells.
LEMMA PeeledIs ==
    ASSUME NEW s \in Cells
    PROVE  /\ Peeled[s] \in Cells /\ Len(Peeled[s]) = Len(s)
           /\ \A i \in 1..Len(s) : Peeled[s][i] = IF s[i].depth > 0
                                                  THEN [s[i] EXCEPT !.depth = @ - 1] ELSE Junk
<1>1. s \in Seq(AnyCell) /\ Len(s) \in Nat /\ DOMAIN s = 1..Len(s)
      /\ \A i \in 1..Len(s) : s[i] \in AnyCell
  BY CellsAre, LenProperties, ElementOfSeq
<1> DEFINE P == [i \in DOMAIN s |-> IF s[i].depth > 0
                                    THEN [s[i] EXCEPT !.depth = @ - 1] ELSE Junk]
<1>2. Peeled[s] = P
  BY DEF Peeled
<1>3. P \in Seq(AnyCell) /\ Len(P) = Len(s)
  <2>1. ASSUME NEW c \in AnyCell, c.depth > 0 PROVE [c EXCEPT !.depth = @ - 1] \in AnyCell
    BY <2>1 DEF AnyCell
  <2> QED
    BY <1>1, <2>1, CellsAre
<1> QED
  BY <1>1, <1>2, <1>3, CellsAre

\* Nothing read of nothing.
LEMMA PeeledNothing == Peeled[<<>>] = <<>>
<1>1. <<>> \in Cells
  BY CellsAre
<1>2. Peeled[<<>>] \in Cells /\ Len(Peeled[<<>>]) = 0
  BY <1>1, PeeledIs
<1> QED
  BY <1>2, EmptySeq, CellsAre

\* The layer off what it was put around.
LEMMA PeeledWrap ==
    ASSUME NEW z \in Seq(Within(1))
    PROVE  z \in Cells /\ Wrap(z) \in Cells /\ Len(Wrap(z)) = Len(z) /\ Peeled[Wrap(z)] = z
<1>1. z \in Cells /\ Wrap(z) \in Cells /\ Len(Wrap(z)) = Len(z)
  <2>1. Wrap(z) \in Seq(Within(2)) /\ Len(Wrap(z)) = Len(z)
    <3>1. Wrap(z) \in Seq(Within(1 + 1)) /\ Len(Wrap(z)) = Len(z)
      BY WrapIs
    <3>2. 1 + 1 = 2
      OBVIOUS
    <3> QED
      BY <3>1, <3>2
  <2>2. \A s \in Seq(Within(2)) : s \in Cells
    BY SeqMonotonic, WithinGrows, CellsAre
  <2>3. z \in Seq(Within(2))
    <3>1. z \in Seq(Within(1 + 1))
      BY WithinGrows
    <3>2. 1 + 1 = 2
      OBVIOUS
    <3> QED
      BY <3>1, <3>2
  <2> QED
    BY <2>1, <2>2, <2>3
<1> DEFINE w == Wrap(z)
           p == Peeled[w]
<1>2. /\ z \in Seq(AnyCell) /\ Len(z) \in Nat /\ DOMAIN z = 1..Len(z)
      /\ \A i \in 1..Len(z) : z[i] \in Within(1)
  BY <1>1, CellsAre, LenProperties, ElementOfSeq
<1>3. p \in Cells /\ Len(p) = Len(w)
      /\ \A i \in 1..Len(w) : p[i] = IF w[i].depth > 0
                                     THEN [w[i] EXCEPT !.depth = @ - 1] ELSE Junk
  BY <1>1, PeeledIs
<1>4. \A i \in 1..Len(z) : w[i] = [z[i] EXCEPT !.depth = @ + 1]
  BY <1>2 DEF Wrap
<1> HIDE DEF w, p
<1>5. ASSUME NEW i \in 1..Len(z) PROVE p[i] = z[i]
  <2> DEFINE c == z[i]
             d == w[i]
  <2>1. c \in [depth : 0..1, kind : Kinds, val : Nat] /\ d = [c EXCEPT !.depth = @ + 1]
    BY <1>2, <1>4 DEF Within
  <2> HIDE DEF c, d
  <2>2. c.depth \in 0..1 /\ c = [depth |-> c.depth, kind |-> c.kind, val |-> c.val]
    BY <2>1
  <2>3. d = [depth |-> c.depth + 1, kind |-> c.kind, val |-> c.val]
    BY <2>1, <2>2
  <2>4. d.depth > 0 /\ d.depth - 1 = c.depth
    BY <2>2, <2>3
  <2>5. [d EXCEPT !.depth = @ - 1] = c
    BY <2>2, <2>3, <2>4
  <2> QED
    BY <1>1, <1>3, <2>4, <2>5 DEF c, d, w
<1>6. p = z
  BY <1>1, <1>2, <1>3, <1>5, SeqEqual, CellsAre DEF w
<1> QED
  BY <1>1, <1>6 DEF p, w

\* Taking a layer off keeps nothing back.
LEMMA PeeledReads ==
    ASSUME NEW z \in Seq(Within(1))
    PROVE  Prompt(Peeled, z, Wrap(z), 0)
<1> DEFINE w == Wrap(z)
           P == Peeled
<1>1. z \in Cells /\ w \in Cells /\ Len(w) = Len(z) /\ P[w] = z
  BY PeeledWrap
<1> HIDE DEF w
<1>2. ASSUME NEW x \in Cells, NEW y \in Cells, Starts(x, y) PROVE Starts(P[x], P[y])
  <2>1. /\ P[x] \in Cells /\ Len(P[x]) = Len(x)
        /\ \A i \in 1..Len(x) : P[x][i] = IF x[i].depth > 0
                                          THEN [x[i] EXCEPT !.depth = @ - 1] ELSE Junk
    BY PeeledIs
  <2>2. /\ P[y] \in Cells /\ Len(P[y]) = Len(y)
        /\ \A i \in 1..Len(y) : P[y][i] = IF y[i].depth > 0
                                          THEN [y[i] EXCEPT !.depth = @ - 1] ELSE Junk
    BY PeeledIs
  <2>3. Len(x) \in Nat /\ Len(y) \in Nat
    BY CellsAre
  <2> DEFINE a == P[x]
             b == P[y]
  <2> HIDE DEF a, b
  <2>4. Len(x) <= Len(y) /\ \A i \in 1..Len(x) : i \in 1..Len(y) /\ x[i] = y[i]
    BY <1>2, <2>3 DEF Starts
  <2>5. \A i \in 1..Len(x) : a[i] = b[i]
    BY <2>1, <2>2, <2>4 DEF a, b
  <2>6. Starts(a, b)
    BY <2>1, <2>2, <2>4, <2>5 DEF Starts, a, b
  <2> QED
    BY <2>6 DEF a, b
<1>3. ASSUME NEW x \in Cells, Starts(x, w)
      PROVE  /\ P[x] \in Cells /\ Starts(P[x], z)
             /\ Len(z) - Len(P[x]) <= (Len(w) - Len(x)) + 0
  <2>1. P[x] \in Cells /\ Len(P[x]) = Len(x) /\ Starts(P[x], P[w])
    BY <1>1, <1>2, <1>3, PeeledIs
  <2>2. Len(z) \in Nat /\ Len(x) \in Nat
    BY <1>1, CellsAre
  <2>3. Len(z) - Len(P[x]) <= (Len(w) - Len(x)) + 0
    BY <1>1, <2>1, <2>2
  <2> QED
    BY <1>1, <2>1, <2>3
<1> QED
  BY <1>2, <1>3 DEF Prompt, w

-----------------------------------------------------------------------------
(* In front of a trailer.                                                  *)

\* A trailer is at the end, element by element.
LEMMA SuffixIs ==
    ASSUME NEW S, NEW r \in Seq(S), NEW s \in Seq(S)
    PROVE  IsSuffix(r, s) <=> /\ Len(r) <= Len(s)
                              /\ \A i \in 1..Len(r) : r[(Len(r) - i) + 1] = s[(Len(s) - i) + 1]
<1> DEFINE a == Reverse(r)
           b == Reverse(s)
           m == Len(r)
           n == Len(s)
<1>1. m \in Nat /\ n \in Nat
  BY LenProperties
<1>2. a = [i \in 1..m |-> r[(m - i) + 1]] /\ b = [i \in 1..n |-> s[(n - i) + 1]]
  BY DEF Reverse
<1>3. (\A i \in 1..m : (m - i) + 1 \in 1..m) /\ (\A i \in 1..n : (n - i) + 1 \in 1..n)
  BY <1>1
<1>4. (\A i \in 1..m : r[i] \in S) /\ (\A i \in 1..n : s[i] \in S)
  BY ElementOfSeq
<1>5. IsSuffix(r, s) <=> IsPrefix(a, b)
  BY DEF IsSuffix
<1> HIDE DEF a, b, m, n
<1>6. a \in Seq(S) /\ b \in Seq(S) /\ Len(a) = m /\ Len(b) = n
  <2>1. a \in [1..m -> S] /\ b \in [1..n -> S]
    BY <1>2, <1>3, <1>4
  <2>2. a \in Seq(S) /\ b \in Seq(S) /\ DOMAIN a = 1..m /\ DOMAIN b = 1..n
    BY <1>1, <2>1, SeqDef
  <2> QED
    BY <1>1, <2>2, LenProperties
<1>7. IsPrefix(a, b) <=> Starts(a, b)
  BY <1>6, StartsIs
<1>8. Starts(a, b) <=> m <= n /\ \A i \in 1..m : a[i] = b[i]
  BY <1>6 DEF Starts
<1>9. m <= n => \A i \in 1..m : a[i] = r[(m - i) + 1] /\ b[i] = s[(n - i) + 1]
  <2>1. m <= n => \A i \in 1..m : i \in 1..n
    BY <1>1
  <2> QED
    BY <1>2, <2>1
<1> QED
  BY <1>5, <1>7, <1>8, <1>9 DEF m, n

\* What is in front of the trailer.
LEMMA BeforeIs ==
    ASSUME NEW r \in Cells, NEW s \in Cells
    PROVE  Before(r)[s \o r] = s
<1> DEFINE sr == s \o r
           m == Len(s)
           n == Len(r)
<1>1. r \in Seq(AnyCell) /\ s \in Seq(AnyCell) /\ m \in Nat /\ n \in Nat
  BY CellsAre
<1>2. sr \in Seq(AnyCell) /\ Len(sr) = m + n
      /\ \A i \in 1..(m + n) : sr[i] = IF i <= m THEN s[i] ELSE r[i - m]
  BY <1>1, ConcatProperties
<1>3. SubSeq(sr, 1, m) = s
  BY <1>1, TakeFirst
<1> HIDE DEF sr
<1>4. IsSuffix(r, sr) <=> n <= Len(sr) /\ \A i \in 1..n : r[(n - i) + 1] = sr[(Len(sr) - i) + 1]
  BY <1>1, <1>2, SuffixIs
<1> HIDE DEF m, n
<1>5. ASSUME NEW i \in 1..n PROVE r[(n - i) + 1] = sr[(Len(sr) - i) + 1]
  <2> DEFINE j == ((m + n) - i) + 1
  <2>1. j \in 1..(m + n) /\ ~(j <= m) /\ j - m = (n - i) + 1
    BY <1>1
  <2> HIDE DEF j
  <2>2. sr[j] = r[(n - i) + 1]
    BY <1>2, <2>1
  <2> QED
    BY <1>2, <2>2 DEF j
<1>6. IsSuffix(r, sr) /\ Len(sr) - n = m
  BY <1>1, <1>2, <1>4, <1>5
<1>7. Before(r)[sr] = IF IsSuffix(r, sr) THEN Take(sr, Len(sr) - n) ELSE sr
  BY <1>2, CellsAre DEF Before, n
<1> QED
  BY <1>3, <1>6, <1>7 DEF Take, sr

\* Without what ends the trailer there is no trailer.
LEMMA BeforeNone ==
    ASSUME NEW r \in Cells, r # <<>>, NEW s \in Cells, \A i \in 1..Len(s) : s[i] # r[Len(r)]
    PROVE  Before(r)[s] = s
<1> DEFINE m == Len(s)
           n == Len(r)
<1>1. r \in Seq(AnyCell) /\ s \in Seq(AnyCell) /\ m \in Nat /\ n \in Nat \ {0}
  BY EmptySeq, CellsAre
<1>2. IsSuffix(r, s) => n <= m /\ \A i \in 1..n : r[(n - i) + 1] = s[(m - i) + 1]
  BY <1>1, SuffixIs
<1>3. \A i \in 1..m : s[i] # r[n]
  OBVIOUS
<1> HIDE DEF m, n
<1>4. ~IsSuffix(r, s)
  <2> SUFFICES ASSUME IsSuffix(r, s) PROVE FALSE
    OBVIOUS
  <2>1. 1 \in 1..n /\ (n - 1) + 1 = n /\ (m - 1) + 1 = m /\ m \in 1..m
    BY <1>1, <1>2
  <2>2. r[(n - 1) + 1] = s[(m - 1) + 1]
    BY <1>2, <2>1
  <2> QED
    BY <1>3, <2>1, <2>2
<1> QED
  BY <1>4 DEF Before

\* Taking a trailer off keeps nothing back while there is none.
LEMMA BeforeReads ==
    ASSUME NEW r \in Cells, r # <<>>, NEW s \in Cells, \A i \in 1..Len(s) : s[i] # r[Len(r)]
    PROVE  Prompt(Before(r), s, s, 0)
<1> DEFINE B == Before(r)
<1>1. ASSUME NEW x \in Cells, Starts(x, s) PROVE B[x] = x
  <2>1. Len(x) \in Nat /\ Len(s) \in Nat
    BY CellsAre
  <2>2. ASSUME NEW i \in 1..Len(x) PROVE x[i] # r[Len(r)]
    <3>1. i \in 1..Len(s) /\ x[i] = s[i]
      BY <1>1, <2>1 DEF Starts
    <3> QED
      BY <3>1
  <2> QED
    BY <2>2, BeforeNone
<1> HIDE DEF B
<1>2. ASSUME NEW x \in Cells, Starts(x, s)
      PROVE  /\ B[x] \in Cells /\ Starts(B[x], s)
             /\ Len(s) - Len(B[x]) <= (Len(s) - Len(x)) + 0
  <2>1. B[x] = x
    BY <1>1, <1>2
  <2>2. Len(x) \in Nat /\ Len(s) \in Nat
    BY CellsAre
  <2> QED
    BY <1>2, <2>1, <2>2
<1>3. ASSUME NEW x \in Cells, NEW y \in Cells, Starts(x, y), Starts(y, s)
      PROVE  Starts(B[x], B[y])
  <2>1. Starts(x, s)
    BY <1>3, StartsTwice, CellsAre
  <2> QED
    BY <1>1, <1>3, <2>1
<1> QED
  BY <1>2, <1>3 DEF Prompt, B

-----------------------------------------------------------------------------
(* Portions read.                                                          *)

\* A label and what follows it.
LEMMA HeadIs ==
    ASSUME NEW S, NEW h \in S, NEW q \in Seq(S)
    PROVE  LET x == <<h>> \o q
           IN  /\ x \in Seq(S) /\ Len(x) = 1 + Len(q) /\ x[1] = h /\ Tail(x) = q /\ x # <<>>
               /\ SubSeq(x, 2, Len(x)) = q
<1> DEFINE x == <<h>> \o q
<1>1. <<h>> \in Seq(S) /\ Len(<<h>>) = 1 /\ <<h>>[1] = h /\ Len(q) \in Nat
  BY LenProperties
<1>2. x \in Seq(S) /\ Len(x) = 1 + Len(q)
      /\ \A i \in 1..(1 + Len(q)) : x[i] = IF i <= 1 THEN <<h>>[i] ELSE q[i - 1]
  BY <1>1, ConcatProperties
<1>3. SubSeq(x, 1 + 1, Len(x)) = q
  BY <1>1, TakeFirst
<1> HIDE DEF x
<1>4. x[1] = h
  <2>1. 1 \in 1..(1 + Len(q)) /\ 1 <= 1
    BY <1>1
  <2> QED
    BY <1>1, <1>2, <2>1
<1>5. SubSeq(x, 2, Len(x)) = q
  <2>1. 1 + 1 = 2
    OBVIOUS
  <2> QED
    BY <1>3, <2>1
<1>6. x # <<>>
  BY <1>1, <1>2
<1>7. Tail(x) = q
  <2>1. Tail(x) \in Seq(S) /\ Len(Tail(x)) = Len(x) - 1
        /\ \A i \in 1..(Len(x) - 1) : Tail(x)[i] = x[i + 1]
    BY <1>2, <1>6, HeadTailProperties
  <2>2. Len(x) - 1 = Len(q)
    BY <1>1, <1>2
  <2>3. ASSUME NEW i \in 1..Len(q) PROVE Tail(x)[i] = q[i]
    <3>1. i + 1 \in 1..(1 + Len(q)) /\ ~(i + 1 <= 1) /\ (i + 1) - 1 = i
      BY <1>1
    <3> QED
      BY <1>2, <2>1, <2>2, <3>1
  <2> QED
    BY <2>1, <2>2, <2>3, SeqEqual
<1> QED
  BY <1>2, <1>4, <1>5, <1>6, <1>7 DEF x

\* Nothing read of nothing.
LEMMA UnframedNothing == Unframed[<<>>] = <<>>
<1>1. <<>> \in Cells
  BY CellsAre
<1> QED
  BY <1>1, UnframedIs DEF Reading, Stops, Ends

\* A portion, and what follows.
LEMMA UnframedPiece ==
    ASSUME NEW h \in AnyCell, h.depth = 0, h.kind \in Lengths, NEW p \in Cells, h.val = Len(p),
           NEW q \in Cells, h.kind = "last" => q = <<>>
    PROVE  Unframed[<<h>> \o (p \o q)] = p \o Unframed[q]
<1> DEFINE pq == p \o q
           x == <<h>> \o pq
           n == Len(p)
<1>1. p \in Seq(AnyCell) /\ q \in Seq(AnyCell) /\ n \in Nat /\ Len(q) \in Nat
  BY CellsAre
<1>2. pq \in Seq(AnyCell) /\ Len(pq) = n + Len(q) /\ SubSeq(pq, 1, n) = p
      /\ SubSeq(pq, n + 1, Len(pq)) = q
  BY <1>1, ConcatProperties, TakeFirst
<1> HIDE DEF pq
<1>3. <<h>> \in Seq(AnyCell) /\ Len(<<h>>) = 1
  OBVIOUS
<1>4. x \in Seq(AnyCell) /\ Len(x) = 1 + Len(pq) /\ x[1] = h /\ x # <<>>
  <2>1. LET y == <<h>> \o pq
        IN  /\ y \in Seq(AnyCell) /\ Len(y) = 1 + Len(pq) /\ y[1] = h /\ Tail(y) = pq /\ y # <<>>
            /\ SubSeq(y, 2, Len(y)) = pq
    BY <1>2, HeadIs
  <2> QED
    BY <2>1, Zenon
<1>5. SubSeq(x, 2, 1 + n) = p
  <2>1. n \in 0..Len(pq) /\ 0 \in 0..n
    BY <1>1, <1>2
  <2>2. SubSeq(<<h>> \o pq, Len(<<h>>) + 0 + 1, Len(<<h>>) + n) = SubSeq(pq, 0 + 1, n)
    BY <1>2, <1>3, <2>1, PieceOfSecond
  <2>3. Len(<<h>>) + 0 + 1 = 2 /\ Len(<<h>>) + n = 1 + n /\ 0 + 1 = 1
    BY <1>1, <1>3
  <2> QED
    BY <1>2, <2>2, <2>3
<1>6. Drop(x, 1 + n) = q
  <2> DEFINE k == Len(pq)
  <2>1. k \in 0..Len(pq) /\ n \in 0..k
    BY <1>1, <1>2
  <2>2. SubSeq(<<h>> \o pq, Len(<<h>>) + n + 1, Len(<<h>>) + k) = SubSeq(pq, n + 1, k)
    BY <1>2, <1>3, <2>1, PieceOfSecond
  <2>3. Len(<<h>>) + n + 1 = (1 + n) + 1 /\ Len(<<h>>) + k = Len(x)
    BY <1>1, <1>2, <1>3, <1>4
  <2> QED
    BY <1>2, <2>2, <2>3 DEF Drop
<1> HIDE DEF x
<1>7. x \in Cells
  BY <1>4, CellsAre
<1>8. ~Stops(x)
  <2>1. ~(1 + n > Len(x))
    BY <1>1, <1>2, <1>4
  <2>2. h.kind = "last" => ~(1 + n < Len(x))
    <3> SUFFICES ASSUME h.kind = "last" PROVE ~(1 + n < Len(x))
      OBVIOUS
    <3>1. Len(q) = 0
      OBVIOUS
    <3> QED
      BY <1>1, <1>2, <1>4, <3>1
  <2> QED
    BY <1>4, <2>1, <2>2 DEF Stops
<1>9. Piece(x) = p /\ Rest(x) = q
  BY <1>4, <1>5, <1>6 DEF Piece, Rest
<1> QED
  BY <1>7, <1>8, <1>9, UnframedIs DEF Reading, x, pq

\* A portion that is not complete is read as far as it goes.
LEMMA UnframedCut ==
    ASSUME NEW h \in AnyCell, h.depth = 0, h.kind \in Lengths, NEW q \in Cells, Len(q) < h.val
    PROVE  Unframed[<<h>> \o q] = q
<1> DEFINE x == <<h>> \o q
<1>1. x \in Cells /\ Len(x) = 1 + Len(q) /\ x[1] = h /\ x # <<>> /\ Tail(x) = q /\ Len(q) \in Nat
  BY HeadIs, CellsAre
<1> HIDE DEF x
<1>2. 1 + h.val > Len(x) /\ h.val \in Nat
  BY <1>1 DEF AnyCell
<1>3. Stops(x) /\ Ends(x) = q
  BY <1>1, <1>2 DEF Stops, Ends
<1> QED
  BY <1>1, <1>3, UnframedIs DEF Reading, x

\* What the labels say.
LEMMA LabelIs ==
    ASSUME cfg \in Configs
    PROVE  /\ Label \in AnyCell /\ Label.depth = 0 /\ Label.kind = "portion" /\ Label.val = Size
           /\ "portion" \in Lengths /\ "last" \in Lengths /\ Size \in Nat \ {0}
           /\ \A n \in Nat : /\ Cell("last", n) \in AnyCell /\ Cell("last", n).depth = 0
                             /\ Cell("last", n).kind = "last" /\ Cell("last", n).val = n
<1>1. Size \in Nat \ {0}
  BY PortionSize DEF Size
<1>2. "portion" \in Kinds /\ "last" \in Kinds
  BY KindsAre
<1>3. Label = [depth |-> 0, kind |-> "portion", val |-> Size]
  BY DEF Label, Cell, Size
<1>4. \A n \in Nat : Cell("last", n) = [depth |-> 0, kind |-> "last", val |-> n]
  BY DEF Cell
<1> HIDE DEF Size, Label, Cell, Kinds
<1>5. Label \in AnyCell
  BY <1>1, <1>2, <1>3 DEF AnyCell
<1>6. \A n \in Nat : Cell("last", n) \in AnyCell
  BY <1>2, <1>4 DEF AnyCell
<1> QED
  BY <1>1, <1>3, <1>4, <1>5, <1>6 DEF Lengths

\* What is read of a portion and what follows it, d being read as c.
LEMMA PieceStart ==
    ASSUME cfg \in Configs, NEW p \in Cells, NEW d \in Cells, Len(p) = Size,
           NEW x \in Cells, Starts(x, (<<Label>> \o p) \o d)
    PROVE  \/ \E q \in Cells : /\ Unframed[x] = q /\ Starts(q, p)
                               /\ Len(x) <= 1 + Len(q) /\ Len(x) <= Size
                               /\ (x = <<>> /\ q = <<>>) \/ x = <<Label>> \o q
           \/ \E y \in Cells : /\ x = (<<Label>> \o p) \o y /\ Starts(y, d)
                               /\ Unframed[x] = p \o Unframed[y]
<1> DEFINE h == Label
           hp == <<h>> \o p
<1>1. h \in AnyCell /\ h.depth = 0 /\ h.kind = "portion" /\ h.kind \in Lengths /\ h.val = Size
      /\ Size \in Nat \ {0}
  BY LabelIs
<1>2. p \in Seq(AnyCell) /\ d \in Seq(AnyCell) /\ x \in Seq(AnyCell) /\ Len(x) \in Nat
  BY CellsAre
<1> HIDE DEF h, Size
<1>3. hp \in Seq(AnyCell) /\ Len(hp) = 1 + Size /\ <<h>> \in Seq(AnyCell) /\ Len(<<h>>) = 1
  BY <1>1, <1>2, HeadIs
<1>4. CASE Len(hp) <= Len(x)
  <2>0. Starts(x, hp \o d)
    BY DEF h
  <2>1. PICK y \in Seq(AnyCell) : x = hp \o y /\ Starts(y, d)
    BY <1>2, <1>3, <1>4, <2>0, StartsSplit
  <2>2. hp \o y = <<h>> \o (p \o y) /\ y \in Cells
    BY <1>2, <1>3, ConcatAssociative, CellsAre
  <2>3. Unframed[<<h>> \o (p \o y)] = p \o Unframed[y]
    BY <1>1, <2>2, UnframedPiece
  <2> QED
    BY <2>1, <2>2, <2>3 DEF h
<1>5. CASE ~(Len(hp) <= Len(x))
  <2>1. Len(x) <= Size /\ Len(x) <= Len(hp)
    BY <1>1, <1>2, <1>3, <1>5
  <2>2. Starts(x, hp)
    <3>1. Starts(x, hp \o d)
      BY DEF h
    <3> QED
      BY <1>2, <1>3, <2>1, <3>1, StartsConcat
  <2>3. CASE x = <<>>
    <3>1. Unframed[x] = <<>> /\ Starts(<<>>, p) /\ <<>> \in Cells /\ Len(x) = 0
      BY <1>2, <2>3, UnframedNothing, StartsIs, CellsAre
    <3>2. Len(x) <= 1 + Len(<<>>)
      BY <3>1
    <3> QED
      BY <2>1, <2>3, <3>1, <3>2
  <2>4. CASE x # <<>>
    <3>1. Len(<<h>>) <= Len(x)
      BY <1>2, <1>3, <2>4, EmptySeq
    <3>2. PICK q \in Seq(AnyCell) : x = <<h>> \o q /\ Starts(q, p)
      BY <1>2, <1>3, <2>2, <3>1, StartsSplit
    <3>3. Len(x) = 1 + Len(q) /\ Len(q) \in Nat /\ q \in Cells
      BY <1>1, <3>2, HeadIs, CellsAre
    <3>4. Len(q) < h.val
      BY <1>1, <2>1, <3>3
    <3>5. Unframed[<<h>> \o q] = q
      BY <1>1, <3>3, <3>4, UnframedCut
    <3>6. Unframed[x] = q /\ Len(x) <= 1 + Len(q)
      BY <3>2, <3>3, <3>5
    <3> QED
      BY <2>1, <3>2, <3>3, <3>6 DEF h
  <2> QED
    BY <2>3, <2>4
<1> QED
  BY <1>4, <1>5

\* One more portion in front keeps back what the rest does.
LEMMA PieceReads ==
    ASSUME cfg \in Configs, NEW p \in Cells, NEW c \in Cells, NEW d \in Cells, Len(p) = Size,
           Prompt(Unframed, c, d, Size - 1)
    PROVE  Prompt(Unframed, p \o c, (<<Label>> \o p) \o d, Size - 1)
<1> DEFINE h == Label
           hp == <<h>> \o p
           W == hp \o d
           b == p \o c
           U == Unframed
<1>1. h \in AnyCell /\ Size \in Nat \ {0}
  BY LabelIs
<1>2. p \in Seq(AnyCell) /\ c \in Seq(AnyCell) /\ d \in Seq(AnyCell)
      /\ Len(c) \in Nat /\ Len(d) \in Nat /\ <<>> \in Cells
  BY CellsAre
<1>3. \A x \in Cells : Len(x) \in Nat /\ x \in Seq(AnyCell)
  BY CellsAre
<1> HIDE DEF h, Size
<1>4. hp \in Seq(AnyCell) /\ Len(hp) = 1 + Size /\ <<h>> \in Seq(AnyCell)
  BY <1>1, <1>2, HeadIs
<1>5. W \in Seq(AnyCell) /\ Len(W) = (1 + Size) + Len(d)
      /\ b \in Seq(AnyCell) /\ Len(b) = Size + Len(c)
  BY <1>2, <1>4, ConcatProperties, ZenonT(60)
<1>6. Len(c) <= Len(d) + (Size - 1)
  <2>1. Starts(<<>>, d)
    BY <1>2, StartsIs
  <2>2. Len(c) - Len(Unframed[<<>>]) <= (Len(d) - Len(<<>>)) + (Size - 1)
    BY <1>2, <2>1 DEF Prompt
  <2>3. Len(Unframed[<<>>]) = 0 /\ Len(<<>>) = 0
    BY UnframedNothing
  <2> QED
    BY <1>1, <1>2, <2>2, <2>3
<1> HIDE DEF hp, W, b, U, Starts
<1>7. ASSUME NEW x \in Cells, Starts(x, W)
      PROVE  \/ \E q \in Cells : /\ U[x] = q /\ Starts(q, p)
                                 /\ Len(x) <= 1 + Len(q) /\ Len(x) <= Size
                                 /\ (x = <<>> /\ q = <<>>) \/ x = <<h>> \o q
             \/ \E y \in Cells : x = hp \o y /\ Starts(y, d) /\ U[x] = p \o U[y]
  BY <1>7, PieceStart, ZenonT(60) DEF W, hp, h, U
<1>8. ASSUME NEW x \in Cells, Starts(x, W)
      PROVE  U[x] \in Cells /\ Starts(U[x], b) /\ Len(b) - Len(U[x]) <= (Len(W) - Len(x)) + (Size - 1)
  <2>1. ASSUME NEW q \in Cells, U[x] = q, Starts(q, p), Len(x) <= 1 + Len(q)
        PROVE  U[x] \in Cells /\ Starts(U[x], b) /\ Len(b) - Len(U[x]) <= (Len(W) - Len(x)) + (Size - 1)
    <3>1. Starts(q, b)
      BY <1>2, <1>3, <2>1, StartsConcat DEF b
    <3>2. Len(q) \in Nat /\ Len(x) \in Nat
      BY <1>3
    <3>3. Len(b) - Len(q) <= (Len(W) - Len(x)) + (Size - 1)
      <4> DEFINE lb == Len(b)
                 lw == Len(W)
                 lq == Len(q)
                 lx == Len(x)
                 lc == Len(c)
                 ld == Len(d)
      <4>1. /\ lb = Size + lc /\ lw = (1 + Size) + ld /\ lc <= ld + (Size - 1) /\ lx <= 1 + lq
            /\ lc \in Nat /\ ld \in Nat /\ lq \in Nat /\ lx \in Nat
        BY <1>2, <1>5, <1>6, <2>1, <3>2
      <4> HIDE DEF lb, lw, lq, lx, lc, ld
      <4>2. lb - lq <= (lw - lx) + (Size - 1)
        BY <1>1, <4>1
      <4> QED
        BY <4>2 DEF lb, lw, lq, lx
    <3> QED
      BY <2>1, <3>1, <3>3
  <2>2. ASSUME NEW y \in Cells, x = hp \o y, Starts(y, d), U[x] = p \o U[y]
        PROVE  U[x] \in Cells /\ Starts(U[x], b) /\ Len(b) - Len(U[x]) <= (Len(W) - Len(x)) + (Size - 1)
    <3> DEFINE v == U[y]
    <3>1. v \in Cells /\ Starts(v, c) /\ Len(c) - Len(v) <= (Len(d) - Len(y)) + (Size - 1)
      BY <2>2 DEF Prompt, U
    <3> HIDE DEF v
    <3>2. v \in Seq(AnyCell) /\ Len(v) \in Nat /\ y \in Seq(AnyCell) /\ Len(y) \in Nat
      BY <1>3, <3>1
    <3>3. p \o v \in Seq(AnyCell) /\ Len(p \o v) = Size + Len(v) /\ Len(x) = (1 + Size) + Len(y)
      BY <1>2, <1>4, <2>2, <3>2, ConcatProperties, ZenonT(60)
    <3>4. Starts(p \o v, b)
      BY <1>2, <3>1, <3>2, StartsConcat DEF b
    <3>5. U[x] = p \o v
      BY <2>2 DEF v
    <3>6. Len(b) - Len(U[x]) <= (Len(W) - Len(x)) + (Size - 1)
      <4>1. Len(U[x]) = Size + Len(v)
        BY <3>3, <3>5
      <4> QED
        BY <1>1, <1>2, <1>5, <3>1, <3>2, <3>3, <4>1
    <3> QED
      BY <3>3, <3>4, <3>5, <3>6, CellsAre
  <2> QED
    BY <1>7, <1>8, <2>1, <2>2
<1>9. ASSUME NEW x \in Cells, NEW y \in Cells, Starts(x, y), Starts(y, W)
      PROVE  Starts(U[x], U[y])
  <2>1. Starts(x, W) /\ Len(x) <= Len(y) /\ Len(x) \in Nat /\ Len(y) \in Nat
    <3>1. Starts(x, W)
      BY <1>3, <1>5, <1>9, StartsTwice
    <3> QED
      BY <1>3, <1>9, <3>1 DEF Starts
  <2>2. CASE x = <<>>
    <3>1. U[x] = <<>> /\ U[y] \in Seq(AnyCell)
      BY <1>3, <1>8, <1>9, <2>2, UnframedNothing DEF U
    <3> QED
      BY <3>1, StartsIs
  <2>3. ASSUME NEW q \in Cells, x = <<h>> \o q, U[x] = q, Starts(q, p)
        PROVE  Starts(U[x], U[y])
    <3>1. ASSUME NEW r \in Cells, U[y] = r, (y = <<>> /\ r = <<>>) \/ y = <<h>> \o r
          PROVE  Starts(q, r)
      <4>1. y # <<>>
        <5>1. Len(x) = 1 + Len(q) /\ Len(q) \in Nat
          BY <1>1, <1>3, <2>3, HeadIs
        <5>2. Len(y) # 0
          BY <2>1, <5>1
        <5> QED
          BY <5>2
      <4>2. Starts(<<h>> \o q, <<h>> \o r)
        BY <1>9, <2>3, <3>1, <4>1
      <4> QED
        BY <1>3, <1>4, <4>2, StartsConcat
    <3>2. ASSUME NEW r \in Cells, Starts(r, d), U[y] = p \o U[r]
          PROVE  Starts(q, U[y])
      <4>1. U[r] \in Seq(AnyCell)
        BY <1>3, <3>2 DEF Prompt, U
      <4> QED
        BY <1>2, <1>3, <2>3, <3>2, <4>1, StartsConcat
    <3> QED
      BY <1>7, <1>9, <2>3, <3>1, <3>2
  <2>4. ASSUME NEW q \in Cells, x = hp \o q, Starts(q, d), U[x] = p \o U[q]
        PROVE  Starts(U[x], U[y])
    <3>1. ~(Len(y) <= Size)
      <4>1. Len(x) = (1 + Size) + Len(q) /\ Len(q) \in Nat
        BY <1>3, <1>4, <2>4, ConcatProperties, ZenonT(60)
      <4> QED
        BY <1>1, <2>1, <4>1
    <3>2. PICK r \in Cells : y = hp \o r /\ Starts(r, d) /\ U[y] = p \o U[r]
      BY <1>7, <1>9, <3>1
    <3>3. Starts(hp \o q, hp \o r)
      BY <1>9, <2>4, <3>2
    <3>4. Starts(q, r)
      BY <1>3, <1>4, <3>3, StartsConcat
    <3>5. U[q] \in Seq(AnyCell) /\ U[r] \in Seq(AnyCell) /\ Starts(U[q], U[r])
      BY <1>3, <2>4, <3>2, <3>4 DEF Prompt, U
    <3>6. Starts(p \o U[q], p \o U[r])
      BY <1>2, <3>5, StartsConcat
    <3> QED
      BY <2>4, <3>2, <3>6
  <2> QED
    BY <1>7, <2>1, <2>2, <2>3, <2>4
<1>10. /\ \A x \in Cells : Starts(x, W) =>
             U[x] \in Cells /\ Starts(U[x], b) /\ Len(b) - Len(U[x]) <= (Len(W) - Len(x)) + (Size - 1)
       /\ \A x, y \in Cells : Starts(x, y) /\ Starts(y, W) => Starts(U[x], U[y])
  BY <1>8, <1>9
<1> QED
  BY <1>10 DEF Prompt, W, hp, h, b, U

\* Portions, all of them: what is read of some octets lags behind by less
\* than a portion, and with the last length it is all there.
LEMMA UnframedReads ==
    ASSUME cfg \in Configs, NEW s \in Cells
    PROVE  /\ PartialBlocks(s) \in Cells /\ Prompt(Unframed, s, PartialBlocks(s), Size - 1)
           /\ PartialBlocks(s) \o LastPortion(Unfinished(s)) \in Cells
           /\ Unframed[PartialBlocks(s) \o LastPortion(Unfinished(s))] = s
<1> DEFINE All(b) == PartialBlocks(b) \o LastPortion(Unfinished(b))
           Read(b) == /\ PartialBlocks(b) \in Cells /\ Prompt(Unframed, b, PartialBlocks(b), Size - 1)
                      /\ All(b) \in Cells /\ Unframed[All(b)] = b
           S == {k \in Nat : \A b \in Cells : Portions(b) = k => Read(b)}
<1>0. Size \in Nat \ {0} /\ Label \in AnyCell /\ <<>> \in Cells
  BY LabelIs, CellsAre
<1>1. 0 \in S
  <2> SUFFICES ASSUME NEW b \in Cells, Portions(b) = 0 PROVE Read(b)
    OBVIOUS
  <2>1. b \in Seq(AnyCell) /\ Len(b) \in Nat
    BY CellsAre
  <2>2. Len(b) < Size
    <3>1. Len(b) - Portions(b) * Size \in 0..(Size - 1)
      BY <2>1, PortionsAre
    <3>2. Portions(b) * Size = 0
      BY <1>0
    <3> QED
      BY <1>0, <2>1, <3>1, <3>2
  <2>3. PartialBlocks(b) = <<>> /\ Unfinished(b) = b
    BY <1>0, <2>1, <2>2, PortionsShort
  <2>4. Prompt(Unframed, b, <<>>, Size - 1)
    <3>1. ASSUME NEW x \in Cells, Starts(x, <<>>)
          PROVE  x = <<>> /\ Unframed[x] = <<>>
      BY <3>1, StartsIs, CellsAre, UnframedNothing
    <3>2. Starts(<<>>, b) /\ Starts(<<>>, <<>>)
      BY <1>0, <2>1, StartsIs, CellsAre
    <3> HIDE DEF Starts
    <3>3. Len(b) - 0 <= (0 - 0) + (Size - 1) /\ Len(<<>>) = 0
      BY <1>0, <2>1, <2>2
    <3>4. ASSUME NEW x \in Cells, Starts(x, <<>>)
          PROVE  /\ Unframed[x] \in Cells /\ Starts(Unframed[x], b)
                 /\ Len(b) - Len(Unframed[x]) <= (Len(<<>>) - Len(x)) + (Size - 1)
      BY <1>0, <3>1, <3>2, <3>3, <3>4
    <3>5. ASSUME NEW x \in Cells, NEW y \in Cells, Starts(x, y), Starts(y, <<>>)
          PROVE  Starts(Unframed[x], Unframed[y])
      <4>1. y = <<>> /\ Unframed[y] = <<>>
        BY <3>1, <3>5
      <4>2. x = <<>> /\ Unframed[x] = <<>>
        BY <3>1, <3>5, <4>1
      <4> QED
        BY <3>2, <4>1, <4>2
    <3> QED
      BY <3>4, <3>5 DEF Prompt
  <2>5. All(b) = LastPortion(b)
    <3>1. LastPortion(b) \in Seq(AnyCell)
      <4>1. Cell("last", Len(b)) \in AnyCell
        BY <2>1, LabelIs
      <4>2. <<Cell("last", Len(b))>> \o b \in Seq(AnyCell)
        BY <2>1, <4>1, HeadIs
      <4> QED
        BY <1>0, <4>2, CellsAre DEF LastPortion
    <3> QED
      BY <2>3, <3>1, ConcatEmptySeq
  <2>6. LastPortion(b) \in Cells /\ Unframed[LastPortion(b)] = b
    <3>1. CASE b = <<>>
      BY <1>0, <3>1, UnframedNothing DEF LastPortion
    <3>2. CASE b # <<>>
      <4> DEFINE h == Cell("last", Len(b))
      <4>1. h \in AnyCell /\ h.depth = 0 /\ h.kind = "last" /\ h.kind \in Lengths /\ h.val = Len(b)
        BY <2>1, LabelIs
      <4> HIDE DEF h
      <4>2. Unframed[<<h>> \o (b \o <<>>)] = b \o Unframed[<<>>]
        BY <1>0, <4>1, UnframedPiece
      <4>3. b \o <<>> = b
        BY <2>1, ConcatEmptySeq
      <4>4. LastPortion(b) = <<h>> \o b
        BY <3>2 DEF LastPortion, h
      <4>5. <<h>> \o b \in Cells
        BY <2>1, <4>1, HeadIs, CellsAre
      <4> QED
        BY <4>2, <4>3, <4>4, <4>5, UnframedNothing
    <3> QED
      BY <3>1, <3>2
  <2> QED
    BY <1>0, <2>3, <2>4, <2>5, <2>6
<1>2. \A k \in Nat : k \in S => k + 1 \in S
  <2> SUFFICES ASSUME NEW k \in Nat, \A b \in Cells : Portions(b) = k => Read(b),
                      NEW b \in Cells, Portions(b) = k + 1
               PROVE  Read(b)
    OBVIOUS
  <2> DEFINE p == Take(b, Size)
             c == Drop(b, Size)
  <2>1. b \in Seq(AnyCell) /\ Len(b) \in Nat
    BY CellsAre
  <2>2. Size \in 0..Len(b)
    <3> DEFINE n == Portions(b)
    <3>1. n * Size \in 0..Len(b) /\ n = k + 1
      BY <2>1, PortionsAre
    <3>2. (k + 1) * Size = k * Size + Size /\ k * Size \in Nat
      BY <1>0
    <3> HIDE DEF Size, n
    <3> QED
      BY <1>0, <2>1, <3>1, <3>2
  <2>3. /\ p \in Seq(AnyCell) /\ Len(p) = Size /\ c \in Seq(AnyCell) /\ p \o c = b
    BY <2>1, <2>2, TakeIs, DropIs, TakeDrop, SMTT(30)
  <2> HIDE DEF p, c
  <2>4. /\ PartialBlocks(p \o c) = PartialBlocks(p) \o PartialBlocks(c)
        /\ Unfinished(p \o c) = Unfinished(c) /\ Portions(p \o c) = 1 + Portions(c)
    <3> HIDE DEF S, Read
    <3>1. Len(p) = 1 * Size /\ 1 \in Nat
      BY <1>0, <2>3
    <3>2. cfg \in Configs /\ Label \in AnyCell /\ p \in Seq(AnyCell) /\ c \in Seq(AnyCell)
      BY <1>0, <2>3
    <3> QED
      BY <3>1, <3>2, PortionsConcat
  <2>5. PartialBlocks(p) = <<Label>> \o p
    BY <1>0, <2>3, PortionsShort
  <2>6. c \in Cells /\ p \in Cells /\ Portions(c) = k
    <3>1. Portions(c) \in Nat /\ 1 + Portions(c) = k + 1
      BY <2>3, <2>4, PortionsAre
    <3> QED
      BY <2>3, <3>1, CellsAre
  <2> HIDE DEF Read
  <2>7. Read(c)
    BY <2>6
  <2> DEFINE d == PartialBlocks(c)
             e == LastPortion(Unfinished(c))
             hp == <<Label>> \o p
  <2>8. /\ d \in Cells /\ Prompt(Unframed, c, d, Size - 1) /\ d \o e \in Cells /\ Unframed[d \o e] = c
    BY <2>7 DEF Read
  <2>9. e \in Seq(AnyCell)
    <3>1. Unfinished(c) \in Seq(AnyCell)
      BY <1>0, <2>3, FramesAre
    <3>2. Cell("last", Len(Unfinished(c))) \in AnyCell
      BY <3>1, LabelIs, LenProperties
    <3>3. <<Cell("last", Len(Unfinished(c)))>> \o Unfinished(c) \in Seq(AnyCell)
      BY <3>1, <3>2, HeadIs
    <3> QED
      BY <1>0, <3>3, CellsAre DEF LastPortion
  <2> HIDE DEF d, e
  <2>10. hp \in Seq(AnyCell)
    BY <1>0, <2>3, HeadIs
  <2>11. PartialBlocks(b) = hp \o d /\ Unfinished(b) = Unfinished(c)
    BY <2>3, <2>4, <2>5 DEF d
  <2>12. Prompt(Unframed, p \o c, (<<Label>> \o p) \o d, Size - 1)
    BY <2>3, <2>6, <2>8, PieceReads
  <2>13. PartialBlocks(b) \in Cells /\ Prompt(Unframed, b, PartialBlocks(b), Size - 1)
    <3>1. hp \o d \in Seq(AnyCell)
      BY <2>8, <2>10, ConcatProperties, CellsAre
    <3> QED
      BY <2>3, <2>11, <2>12, <3>1, CellsAre
  <2>14. All(b) = <<Label>> \o (p \o (d \o e))
    <3>1. d \in Seq(AnyCell) /\ d \o e \in Seq(AnyCell) /\ <<Label>> \in Seq(AnyCell)
      BY <1>0, <2>8, CellsAre
    <3>2. (hp \o d) \o e = hp \o (d \o e)
      BY <2>9, <2>10, <3>1, ConcatAssociative, SMTT(30)
    <3>3. (<<Label>> \o p) \o (d \o e) = <<Label>> \o (p \o (d \o e))
      <4> DEFINE de == d \o e
                 l == <<Label>>
      <4>1. de \in Seq(AnyCell) /\ l \in Seq(AnyCell) /\ p \in Seq(AnyCell)
        BY <2>3, <3>1
      <4> HIDE DEF de, l
      <4>2. (l \o p) \o de = l \o (p \o de)
        BY <4>1, ConcatAssociative, SMTT(30)
      <4> QED
        BY <4>2 DEF de, l
    <3> QED
      BY <2>11, <3>2, <3>3 DEF e
  <2>15. Unframed[<<Label>> \o (p \o (d \o e))] = p \o Unframed[d \o e]
    <3>1. Label.depth = 0 /\ Label.kind \in Lengths /\ Label.val = Len(p) /\ Label.kind # "last"
      BY <2>3, LabelIs
    <3> QED
      BY <1>0, <2>6, <2>8, <3>1, UnframedPiece
  <2>16. All(b) \in Cells
    <3>1. d \o e \in Seq(AnyCell)
      BY <2>8, CellsAre
    <3>2. p \o (d \o e) \in Seq(AnyCell)
      BY <2>3, <3>1, ConcatProperties
    <3> QED
      BY <1>0, <2>14, <3>2, HeadIs, CellsAre
  <2>17. Unframed[All(b)] = b
    BY <2>3, <2>8, <2>14, <2>15
  <2> QED
    BY <2>13, <2>16, <2>17 DEF Read
<1>3. Nat \subseteq S
  <2> HIDE DEF S
  <2> QED
    BY <1>1, <1>2, NatInduct
<1>4. Portions(s) \in Nat
  BY PortionsAre, CellsAre
<1>5. Read(s)
  BY <1>3, <1>4
<1> QED
  BY <1>5

-----------------------------------------------------------------------------
(* A packet read.                                                          *)

InnerOf(t) == Then(Then(Behind(<<Cell(t, 0)>>), Unframed), Behind(Fields(t)))
ReaderOf(t) ==
    IF t = "LIT" THEN InnerOf(t)
    ELSE IF t = "COMP" THEN Then(Then(InnerOf(t), Peeled), Before(Trailer(t)))
    ELSE Then(Then(Then(InnerOf(t), Peeled), Before(Trailer(t))), Behind(Start(t)))

\* What the writer of a packet may keep back.
Lag(t, w) == (Size - 1) + (IF t = "COMP" THEN Len(w.held)
                           ELSE IF t = "SEIPD" THEN Gran - 1 ELSE 0)

\* What a writer has taken and not given is kept back as well.
LEMMA PromptLonger ==
    ASSUME NEW R, NEW a \in Cells, NEW h \in Cells, NEW went \in Cells, NEW k \in Nat,
           Prompt(R, a, went, k)
    PROVE  Prompt(R, a \o h, went, k + Len(h))
<1> DEFINE b == a \o h
           n == Len(h)
<1>1. a \in Seq(AnyCell) /\ h \in Seq(AnyCell) /\ n \in Nat /\ Len(a) \in Nat /\ Len(went) \in Nat
      /\ b \in Seq(AnyCell) /\ Len(b) = Len(a) + n
  BY CellsAre, ConcatProperties
<1> HIDE DEF n
<1>2. ASSUME NEW x \in Cells, Starts(x, went)
      PROVE  /\ R[x] \in Cells /\ Starts(R[x], b)
             /\ Len(b) - Len(R[x]) <= (Len(went) - Len(x)) + (k + n)
  <2> DEFINE r == R[x]
  <2>1. r \in Cells /\ Starts(r, a) /\ Len(a) - Len(r) <= (Len(went) - Len(x)) + k
    BY <1>2 DEF Prompt
  <2> HIDE DEF r
  <2>2. Len(r) \in Nat /\ Len(x) \in Nat /\ r \in Seq(AnyCell)
    BY <2>1, CellsAre
  <2>3. Starts(r, b)
    BY <1>1, <2>1, <2>2, StartsConcat
  <2> HIDE DEF b
  <2>4. Len(b) - Len(r) <= (Len(went) - Len(x)) + (k + n)
    BY <1>1, <2>1, <2>2
  <2> QED
    BY <2>1, <2>3, <2>4 DEF r
<1>3. \A x, y \in Cells : Starts(x, y) /\ Starts(y, went) => Starts(R[x], R[y])
  BY DEF Prompt
<1> HIDE DEF b
<1>4. Prompt(R, b, went, k + n)
  BY <1>2, <1>3 DEF Prompt
<1> QED
  BY <1>4 DEF b, n

\* Fields, trailers and what is around them are cells.
LEMMA PartsAre ==
    /\ \A t \in WriterTypes : /\ Emits(t) \subseteq AnyCell /\ Takes(t) \subseteq AnyCell
                              /\ Keeps(t) \subseteq AnyCell /\ Keeps(t) \subseteq Within(1)
                              /\ \A s \in Seq(Keeps(t)) : s \in Seq(Within(1)) /\ s \in Cells
                              /\ \A s \in Seq(Emits(t)) : s \in Cells
                              /\ \A s \in Seq(Takes(t)) : s \in Cells
                              /\ Fields(t) \in Cells /\ <<Cell(t, 0)>> \in Cells
                              /\ Start(t) \in Cells /\ Trailer(t) \in Cells
    /\ Prefix \in Seq(Emits("COMP"))
<1>1. Within(0) \subseteq Within(1) /\ Within(1) \subseteq Within(2) /\ Within(2) \subseteq AnyCell
  BY DEF Within, AnyCell
<1>2. ASSUME NEW t \in WriterTypes
      PROVE  /\ Emits(t) \subseteq AnyCell /\ Takes(t) \subseteq AnyCell
             /\ Keeps(t) \subseteq AnyCell /\ Keeps(t) \subseteq Within(1)
  <2>1. /\ Emits(t) \subseteq Within(Out(t)) /\ Keeps(t) \subseteq Within(In(t))
        /\ Takes(t) \subseteq Keeps(t)
    BY SetsAre
  <2>2. In(t) \in {0, 1} /\ Out(t) \in {0, 1, 2}
    BY DEF In, Out, WriterTypes
  <2>3. Within(In(t)) \subseteq Within(1) /\ Within(Out(t)) \subseteq Within(2)
    BY <1>1, <2>2
  <2> QED
    BY <1>1, <2>1, <2>3
<1>3. ASSUME NEW t \in WriterTypes
      PROVE  /\ \A s \in Seq(Keeps(t)) : s \in Seq(Within(1)) /\ s \in Cells
             /\ \A s \in Seq(Emits(t)) : s \in Cells
             /\ \A s \in Seq(Takes(t)) : s \in Cells
  BY <1>2, SeqMonotonic, CellsAre
<1>4. \A k \in Kinds : Cell(k, 0) \in Within(1) /\ Cell(k, 0) \in AnyCell
  BY <1>1, CellIs
<1>5. ASSUME NEW t \in WriterTypes
      PROVE  Fields(t) \in Cells /\ <<Cell(t, 0)>> \in Cells
  <2>1. Fields(t) \in Seq(Emits(t)) /\ Cell(t, 0) \in Emits(t)
    BY SetsAre
  <2>2. <<Cell(t, 0)>> \in Seq(Emits(t))
    BY <2>1
  <2> QED
    BY <1>3, <2>1, <2>2
<1>6. ASSUME NEW t \in WriterTypes PROVE Start(t) \in Cells /\ Trailer(t) \in Cells
  <2>1. <<>> \in Cells /\ Prefix \in Cells /\ MDC \in Cells
    BY <1>3, SetsAre, CellsAre DEF WriterTypes
  <2>2. <<Cell("eoz", 0)>> \in Cells
    BY <1>4, KindsAre, CellsAre
  <2> QED
    BY <2>1, <2>2 DEF Start, Trailer
<1>7. Prefix \in Seq(Emits("COMP"))
  <2> DEFINE c == Cell("prefix", 0)
  <2>1. c \in Within(1) /\ c.kind = "prefix"
    BY <1>4, KindsAre DEF Cell
  <2>2. c \in Emits("COMP")
    <3>1. Out("COMP") = 1 /\ Trailers("COMP") = {"tag", "sha"}
      BY DEF Out, In, Trailers
    <3> HIDE DEF c
    <3> QED
      BY <2>1, <3>1 DEF Emits
  <2> HIDE DEF c
  <2>3. Prefix = [i \in 1..PrefixLen |-> c] /\ PrefixLen \in Nat
    BY WriterAssumption DEF Prefix, Fill, c, WriterAssumption
  <2> QED
    BY <2>2, <2>3
<1> QED
  BY <1>2, <1>3, <1>5, <1>6, <1>7

\* The octet at the end of the MDC packet is none of the octets in front.
LEMMA MDCEnd == MDC # <<>> /\ Len(MDC) = MDCLen /\ MDC[Len(MDC)].kind \in {"tag", "sha"}
<1> DEFINE a == <<Cell("tag", 0)>>
           b == Fill("sha", MDCLen - 1)
           n == MDCLen - 1
<1>1. n \in Nat /\ MDCLen \in Nat \ {0}
  BY WriterAssumption DEF WriterAssumption
<1>2. a \in Seq({Cell("tag", 0)}) /\ Len(a) = 1 /\ a[1] = Cell("tag", 0)
  OBVIOUS
<1> DEFINE S == {Cell("tag", 0), Cell("sha", 0)}
<1>3. b = [i \in 1..n |-> Cell("sha", 0)]
  BY DEF Fill
<1>4. a \in Seq(S) /\ b \in Seq(S) /\ Len(b) = n
  BY <1>1, <1>2, <1>3
<1>5. MDC = a \o b
  BY DEF MDC
<1>6. \A c \in S : c.kind \in {"tag", "sha"}
  BY DEF Cell
<1> HIDE DEF a, b, S
<1>7. MDC \in Seq(S) /\ Len(MDC) = 1 + n
  <2>1. a \o b \in Seq(S) /\ Len(a \o b) = Len(a) + Len(b)
    BY <1>4, ConcatProperties
  <2> QED
    BY <1>2, <1>4, <1>5, <2>1
<1>8. Len(MDC) = MDCLen /\ Len(MDC) \in 1..Len(MDC)
  BY <1>1, <1>7
<1>9. MDC[Len(MDC)] \in S
  BY <1>7, <1>8, ElementOfSeq
<1>10. MDC # <<>>
  <2>1. Len(MDC) # 0
    BY <1>1, <1>8
  <2> QED
    BY <2>1
<1> QED
  BY <1>6, <1>8, <1>9, <1>10

\* No octet in front of a trailer looks like its end.
LEMMA NoTrailer ==
    ASSUME NEW t \in WriterTypes, t # "LIT", NEW s \in Seq(Takes(t)) \cup Seq(Emits("COMP")),
           t = "COMP" => s \in Seq(Takes(t))
    PROVE  Trailer(t) # <<>> /\ \A i \in 1..Len(s) : s[i] # Trailer(t)[Len(Trailer(t))]
<1>1. CASE t = "COMP"
  <2>1. Trailer(t) = <<Cell("eoz", 0)>> /\ s \in Seq(Emits("LIT"))
    BY <1>1 DEF Trailer, Takes
  <2>2. Trailer(t) # <<>> /\ Trailer(t)[Len(Trailer(t))].kind = "eoz"
    BY <2>1 DEF Cell
  <2>3. \A c \in Emits("LIT") : c.kind # "eoz"
    BY DEF Emits, Trailers
  <2>4. \A i \in 1..Len(s) : s[i] \in Emits("LIT")
    BY <2>1, ElementOfSeq
  <2> QED
    BY <2>2, <2>3, <2>4
<1>2. CASE t = "SEIPD"
  <2>1. Trailer(t) = MDC /\ s \in Seq(Emits("COMP"))
    BY <1>2 DEF Trailer, Takes
  <2>2. \A c \in Emits("COMP") : c.kind \notin {"tag", "sha"}
    BY DEF Emits, Trailers
  <2>3. \A i \in 1..Len(s) : s[i] \in Emits("COMP")
    BY <2>1, ElementOfSeq
  <2> QED
    BY <2>1, <2>2, <2>3, MDCEnd
<1> QED
  BY <1>1, <1>2 DEF WriterTypes

\* The body of a packet that has not been finished, read.
LEMMA InnerReads ==
    ASSUME cfg \in Configs, NEW t \in WriterTypes, NEW z \in Seq(Keeps(t)), NEW went,
           went = <<Cell(t, 0)>> \o PartialBlocks(Fields(t) \o Layer(t, z))
    PROVE  went \in Cells /\ Prompt(InnerOf(t), Layer(t, z), went, Size - 1)
<1> DEFINE f == Fields(t)
           l == Layer(t, z)
           b == f \o l
           d == PartialBlocks(b)
           h == <<Cell(t, 0)>>
<1>1. f \in Cells /\ h \in Cells /\ l \in Cells
  <2>1. l \in Seq(Emits(t))
    BY LayerIs
  <2> QED
    BY <2>1, PartsAre
<1> HIDE DEF f, l, h
<1>2. f \in Seq(AnyCell) /\ l \in Seq(AnyCell) /\ h \in Seq(AnyCell)
  BY <1>1, CellsAre
<1>3. b \in Cells
  BY <1>2, ConcatProperties, CellsAre
<1>4. Prompt(Behind(f), l, b, 0)
  BY <1>1, BehindReads
<1> HIDE DEF b
<1>5. d \in Cells /\ Prompt(Unframed, b, d, Size - 1)
  BY <1>3, UnframedReads
<1>6. went = h \o d
  BY DEF b, f, l, h
<1> HIDE DEF d
<1>7. went \in Cells
  <2>1. d \in Seq(AnyCell)
    BY <1>5, CellsAre
  <2> QED
    BY <1>2, <1>6, <2>1, ConcatProperties, CellsAre
<1>8. Prompt(Behind(h), d, went, 0)
  BY <1>1, <1>5, <1>6, BehindReads
<1>9. Size - 1 \in Nat /\ 0 \in Nat /\ 0 + (Size - 1) = Size - 1 /\ (Size - 1) + 0 = Size - 1
  BY LabelIs
<1> DEFINE n == Size - 1
           Q == Then(Behind(h), Unframed)
<1> HIDE DEF n, Q
<1>10. Prompt(Q, b, went, 0 + n)
  <2>1. Prompt(Unframed, b, d, n) /\ n \in Nat /\ 0 \in Nat
    BY <1>5, <1>9 DEF n
  <2> QED
    BY <1>3, <1>5, <1>7, <1>8, <2>1, PromptThen DEF Q
<1>11. Prompt(Then(Q, Behind(f)), l, went, n + 0)
  <2>1. Prompt(Q, b, went, n) /\ n \in Nat /\ 0 \in Nat
    BY <1>9, <1>10 DEF n
  <2> QED
    BY <1>1, <1>3, <1>4, <1>7, <2>1, PromptThen
<1>12. n + 0 = Size - 1
  BY <1>9 DEF n
<1> QED
  BY <1>7, <1>11, <1>12 DEF InnerOf, Q, h, f, l

\* Nothing read of nothing.
LEMMA ReaderNothing ==
    ASSUME NEW t \in WriterTypes
    PROVE  ReaderOf(t)[<<>>] = <<>>
<1>1. <<>> \in Cells /\ Start(t) \in Cells /\ Trailer(t) \in Cells /\ Fields(t) \in Cells
      /\ <<Cell(t, 0)>> \in Cells
  BY PartsAre, CellsAre
<1>2. Behind(<<Cell(t, 0)>>)[<<>>] = <<>> /\ Behind(Fields(t))[<<>>] = <<>>
      /\ Behind(Start(t))[<<>>] = <<>>
  BY <1>1, BehindIs
<1>3. InnerOf(t)[<<>>] = <<>>
  BY <1>1, <1>2, UnframedNothing DEF InnerOf, Then
<1>4. ASSUME t # "LIT" PROVE Before(Trailer(t))[<<>>] = <<>>
  <2>1. Trailer(t) # <<>>
    <3>1. <<>> \in Seq(Takes(t))
      OBVIOUS
    <3> QED
      BY <1>4, <3>1, NoTrailer
  <2>2. \A i \in 1..Len(<<>>) : <<>>[i] # Trailer(t)[Len(Trailer(t))]
    OBVIOUS
  <2> QED
    BY <1>1, <2>1, <2>2, BeforeNone
<1> QED
  BY <1>1, <1>2, <1>3, <1>4, PeeledNothing DEF ReaderOf, Then

\* How much that is, as a number.
LEMMA LagIs ==
    ASSUME cfg \in Configs, NEW t \in WriterTypes, NEW w, WriterOK(t, w)
    PROVE  /\ Lag(t, w) \in Nat /\ Size - 1 \in Nat /\ Size - 1 <= Lag(t, w)
           /\ Len(w.held) \in Nat /\ Len(w.in) \in Nat /\ Gran - 1 \in Nat
           /\ w.held \in Cells /\ w.in \in Cells
<1>1. Size - 1 \in Nat /\ Gran - 1 \in Nat
  BY LabelIs, WriterAssumption DEF WriterAssumption
<1>2. w.held \in Seq(Within(0)) /\ w.in \in Seq(Within(In(t)))
  BY DEF WriterOK
<1>3. Len(w.held) \in Nat /\ Len(w.in) \in Nat
  BY <1>2, LenProperties
<1>4. w.held \in Cells /\ w.in \in Cells
  <2>1. Within(0) \subseteq AnyCell /\ Within(1) \subseteq AnyCell /\ In(t) \in {0, 1}
    BY DEF Within, AnyCell, In
  <2>2. Within(In(t)) \subseteq AnyCell
    BY <2>1
  <2> QED
    BY <1>2, <2>1, <2>2, SeqMonotonic, CellsAre
<1> DEFINE n == Size - 1
           k == IF t = "COMP" THEN Len(w.held) ELSE IF t = "SEIPD" THEN Gran - 1 ELSE 0
<1>5. k \in Nat /\ n \in Nat
  BY <1>1, <1>3
<1>6. Lag(t, w) = n + k
  BY DEF Lag
<1> HIDE DEF n, k
<1>7. n + k \in Nat /\ n <= n + k
  BY <1>5
<1> QED
  BY <1>1, <1>3, <1>4, <1>6, <1>7 DEF n

\* The three packets before they finish.
LEMMA LitReads ==
    ASSUME cfg \in Configs, NEW w, WriterOK("LIT", w), NEW came, NEW z, NEW went,
           Holding("LIT", w, came, z), Little("LIT", w),
           went = <<Cell("LIT", 0)>> \o PartialBlocks(Fields("LIT") \o Layer("LIT", z))
    PROVE  Prompt(ReaderOf("LIT"), came, went, Lag("LIT", w))
<1>0. "LIT" \in WriterTypes
  BY DEF WriterTypes
<1>1. z \in Seq(Keeps("LIT")) /\ came \in Seq(Takes("LIT"))
      /\ z \o (w.held \o w.in) = Start("LIT") \o came /\ w.held = <<>> /\ w.in = <<>>
  BY DEF Holding, Little
<1>2. z \in Seq(AnyCell) /\ came \in Seq(AnyCell)
  BY <1>0, <1>1, PartsAre, CellsAre
<1>3. z = came
  <2>1. <<>> \o <<>> = <<>> /\ z \o <<>> = z /\ <<>> \o came = came
    BY <1>2, ConcatEmptySeq
  <2> QED
    BY <1>1, <2>1 DEF Start
<1>4. Prompt(InnerOf("LIT"), Layer("LIT", z), went, Size - 1)
  BY <1>0, <1>1, InnerReads
<1>5. Lag("LIT", w) = Size - 1
  <2>1. Size - 1 \in Nat
    BY <1>0, LagIs
  <2>2. (Size - 1) + 0 = Size - 1
    BY <2>1
  <2> QED
    BY <2>2 DEF Lag
<1> QED
  BY <1>3, <1>4, <1>5 DEF ReaderOf, Layer

LEMMA CompReads ==
    ASSUME cfg \in Configs, NEW w, WriterOK("COMP", w), NEW came, NEW z, NEW went,
           Holding("COMP", w, came, z), Little("COMP", w),
           went = <<Cell("COMP", 0)>> \o PartialBlocks(Fields("COMP") \o Layer("COMP", z))
    PROVE  Prompt(ReaderOf("COMP"), came, went, Lag("COMP", w))
<1> DEFINE n == Size - 1
           h == w.held
           r == Trailer("COMP")
           P == Then(InnerOf("COMP"), Peeled)
<1>0. "COMP" \in WriterTypes
  BY DEF WriterTypes
<1>1. /\ z \in Seq(Keeps("COMP")) /\ came \in Seq(Takes("COMP")) /\ w.in = <<>>
      /\ z \o (h \o w.in) = Start("COMP") \o came
      /\ h \in Cells /\ n \in Nat /\ Len(h) \in Nat /\ r \in Cells
  BY <1>0, LagIs, PartsAre DEF Holding, Little
<1>2. z \in Cells /\ z \in Seq(Within(1)) /\ came \in Cells /\ Wrap(z) \in Cells
  BY <1>0, <1>1, PartsAre, PeeledWrap
<1>3. Lag("COMP", w) = n + Len(h)
  BY DEF Lag
<1>4. went \in Cells /\ Prompt(InnerOf("COMP"), Wrap(z), went, n)
  <2>1. Layer("COMP", z) = Wrap(z)
    BY DEF Layer
  <2> QED
    BY <1>0, <1>1, <2>1, InnerReads
<1> HIDE DEF h, r, n
<1>5. z \o h = came
  <2>1. h \in Seq(AnyCell) /\ came \in Seq(AnyCell)
    BY <1>1, <1>2, CellsAre
  <2>2. h \o <<>> = h /\ <<>> \o came = came
    BY <2>1, ConcatEmptySeq
  <2> QED
    BY <1>1, <2>2 DEF Start
<1>6. Prompt(P, z, went, n + 0)
  <2>1. Prompt(Peeled, z, Wrap(z), 0) /\ 0 \in Nat
    BY <1>2, PeeledReads
  <2> QED
    BY <1>1, <1>2, <1>4, <2>1, PromptThen
<1>7. Prompt(Before(r), z, z, 0)
  <2>1. z \in Seq(Takes("COMP"))
    BY <1>1, <1>2, <1>5, PartsOf, CellsAre
  <2>2. r # <<>> /\ \A i \in 1..Len(z) : z[i] # r[Len(r)]
    BY <1>0, <2>1, NoTrailer DEF r
  <2> QED
    BY <1>1, <1>2, <2>2, BeforeReads
<1> HIDE DEF P
<1>8. Prompt(Then(P, Before(r)), z, went, n + 0)
  <2>1. n + 0 \in Nat /\ 0 \in Nat /\ (n + 0) + 0 = n + 0
    BY <1>1
  <2>2. Prompt(Then(P, Before(r)), z, went, (n + 0) + 0)
    BY <1>2, <1>4, <1>6, <1>7, <2>1, PromptThen
  <2> QED
    BY <2>1, <2>2
<1>9. n + 0 = n
  BY <1>1
<1>10. Prompt(Then(P, Before(r)), z \o h, went, n + Len(h))
  BY <1>1, <1>2, <1>4, <1>8, <1>9, PromptLonger
<1>11. ReaderOf("COMP") = Then(P, Before(r))
  BY DEF ReaderOf, P, r
<1> QED
  BY <1>3, <1>5, <1>10, <1>11

LEMMA SeipdReads ==
    ASSUME cfg \in Configs, NEW w, WriterOK("SEIPD", w), NEW came, NEW z, NEW went,
           Holding("SEIPD", w, came, z), Little("SEIPD", w),
           went = <<Cell("SEIPD", 0)>> \o PartialBlocks(Fields("SEIPD") \o Layer("SEIPD", z))
    PROVE  Prompt(ReaderOf("SEIPD"), came, went, Lag("SEIPD", w))
<1> DEFINE n == Size - 1
           h == w.in
           r == Trailer("SEIPD")
           f == Start("SEIPD")
           P == Then(InnerOf("SEIPD"), Peeled)
           Q == Then(P, Before(r))
<1>0. "SEIPD" \in WriterTypes
  BY DEF WriterTypes
<1>1. /\ z \in Seq(Keeps("SEIPD")) /\ came \in Seq(Takes("SEIPD")) /\ w.held = <<>>
      /\ z \o (w.held \o h) = f \o came /\ Len(h) < Gran
      /\ h \in Cells /\ n \in Nat /\ Len(h) \in Nat /\ r \in Cells /\ f \in Cells
      /\ Gran - 1 \in Nat
  BY <1>0, LagIs, PartsAre DEF Holding, Little
<1>2. z \in Cells /\ z \in Seq(Within(1)) /\ came \in Cells /\ Wrap(z) \in Cells
  BY <1>0, <1>1, PartsAre, PeeledWrap
<1>3. Lag("SEIPD", w) = n + (Gran - 1)
  BY DEF Lag
<1>4. went \in Cells /\ Prompt(InnerOf("SEIPD"), Wrap(z), went, n)
  <2>1. Layer("SEIPD", z) = Wrap(z)
    BY DEF Layer
  <2> QED
    BY <1>0, <1>1, <2>1, InnerReads
<1>5. f \in Seq(Emits("COMP")) /\ came \in Seq(Emits("COMP")) /\ f = Prefix
  BY <1>1, PartsAre DEF Start, Takes
<1> HIDE DEF h, r, n, f
<1>6. z \o h = f \o came /\ f \o came \in Cells /\ f \o came \in Seq(Emits("COMP"))
  <2>1. h \in Seq(AnyCell) /\ came \in Seq(AnyCell) /\ f \in Seq(AnyCell)
    BY <1>1, <1>2, CellsAre
  <2>2. <<>> \o h = h
    BY <2>1, ConcatEmptySeq
  <2>3. f \o came \in Cells
    BY <2>1, ConcatProperties, CellsAre
  <2>4. f \o came \in Seq(Emits("COMP"))
    BY <1>5, ConcatProperties
  <2> QED
    BY <1>1, <2>2, <2>3, <2>4
<1>7. Prompt(P, z, went, n + 0)
  <2>1. Prompt(Peeled, z, Wrap(z), 0) /\ 0 \in Nat
    BY <1>2, PeeledReads
  <2> QED
    BY <1>1, <1>2, <1>4, <2>1, PromptThen
<1>8. Prompt(Before(r), z, z, 0)
  <2>1. z \in Seq(Emits("COMP"))
    BY <1>1, <1>2, <1>6, PartsOf, CellsAre
  <2>2. r # <<>> /\ \A i \in 1..Len(z) : z[i] # r[Len(r)]
    BY <1>0, <2>1, NoTrailer DEF r
  <2> QED
    BY <1>1, <1>2, <2>2, BeforeReads
<1> HIDE DEF P
<1>9. n + 0 = n /\ n \in Nat /\ 0 \in Nat
  BY <1>1
<1>10. Prompt(Q, z, went, n)
  <2>1. Prompt(Then(P, Before(r)), z, went, n + 0)
    BY <1>2, <1>4, <1>7, <1>8, <1>9, PromptThen
  <2> QED
    BY <1>9, <2>1
<1> HIDE DEF Q
<1>11. Prompt(Q, z \o h, went, n + Len(h))
  BY <1>1, <1>2, <1>4, <1>10, PromptLonger
<1>12. Prompt(Q, f \o came, went, n + (Gran - 1))
  <2> DEFINE j == n + Len(h)
             k == n + (Gran - 1)
  <2>1. j \in Nat /\ k \in Nat /\ j <= k
    <3>1. Gran \in Nat
      BY WriterAssumption DEF WriterAssumption
    <3> QED
      BY <1>1, <3>1
  <2>2. Prompt(Q, f \o came, went, j)
    BY <1>6, <1>11
  <2> HIDE DEF j, k
  <2>3. Prompt(Q, f \o came, went, k)
    BY <1>4, <1>6, <2>1, <2>2, PromptMore
  <2> QED
    BY <2>3 DEF k
<1>13. Prompt(Behind(f), came, f \o came, 0)
  BY <1>1, <1>2, BehindReads
<1>14. Prompt(Then(Q, Behind(f)), came, went, n + (Gran - 1))
  <2> DEFINE k == n + (Gran - 1)
  <2>1. k \in Nat /\ k + 0 = k
    BY <1>1
  <2> HIDE DEF k
  <2>2. Prompt(Q, f \o came, went, k)
    BY <1>12 DEF k
  <2>3. Prompt(Then(Q, Behind(f)), came, went, k + 0)
    BY <1>2, <1>4, <1>6, <1>9, <1>13, <2>1, <2>2, PromptThen
  <2> QED
    BY <2>1, <2>3 DEF k
<1>15. ReaderOf("SEIPD") = Then(Q, Behind(f))
  BY DEF ReaderOf, P, Q, r, f
<1> QED
  BY <1>3, <1>14, <1>15

\* Before it finishes a writer has given nearly all it has taken.
LEMMA LayerReads ==
    ASSUME cfg \in Configs, NEW t \in WriterTypes, NEW w, WriterOK(t, w), NEW came, NEW went,
           Wrote(t, w, came, went, FALSE)
    PROVE  came \in Cells /\ went \in Cells /\ Prompt(ReaderOf(t), came, went, Lag(t, w))
<1>1. came \in Cells /\ went \in Cells
  BY WroteType, PartsAre
<1>2. PICK z : /\ Holding(t, w, came, z) /\ Framed(t, w, BodyOf(t, w, z), went)
               /\ w.header = w.first /\ w.first \in BOOLEAN
               /\ IF w.first THEN came = <<>> ELSE Little(t, w)
  BY DEF Wrote, WriterOK
<1>3. CASE w.first
  <2>1. came = <<>> /\ went = <<>> \o PartialBlocks(<<>>)
    BY <1>2, <1>3 DEF Framed, BodyOf
  <2>2. PartialBlocks(<<>>) = <<>>
    <3>1. <<>> \in Seq(AnyCell) /\ Label \in AnyCell /\ Len(<<>>) < Size
      BY LabelIs
    <3> QED
      BY <3>1, PortionsShort
  <2>3. went = <<>>
    BY <2>1, <2>2
  <2>4. Lag(t, w) \in Nat
    BY LagIs
  <2>5. Prompt(ReaderOf(t), <<>>, <<>>, Lag(t, w))
    BY <2>4, ReaderNothing, PromptNothing
  <2> QED
    BY <1>1, <2>1, <2>3, <2>5
<1>4. CASE ~w.first
  <2>1. /\ Little(t, w)
        /\ went = <<Cell(t, 0)>> \o PartialBlocks(Fields(t) \o Layer(t, z))
    BY <1>2, <1>4 DEF Framed, BodyOf
  <2>2. CASE t = "LIT"
    BY <1>1, <1>2, <2>1, <2>2, LitReads
  <2>3. CASE t = "COMP"
    BY <1>1, <1>2, <2>1, <2>3, CompReads
  <2>4. CASE t = "SEIPD"
    BY <1>1, <1>2, <2>1, <2>4, SeipdReads
  <2> QED
    BY <2>2, <2>3, <2>4 DEF WriterTypes
<1> QED
  BY <1>2, <1>3, <1>4

\* When it has finished all of it can be read.
Whole(t, w, came, went) ==
    /\ came \in Cells /\ went \in Cells /\ ReaderOf(t)[went] = came
    /\ t = "SEIPD" => w.hashed = (Start(t) \o came) \o <<Cell("tag", 0)>>
    /\ t = "SEIPD" => Then(InnerOf(t), Peeled)[went] = (Start(t) \o came) \o MDC

LEMMA LayerWhole ==
    ASSUME cfg \in Configs, NEW t \in WriterTypes, NEW w, WriterOK(t, w), NEW came, NEW went,
           Wrote(t, w, came, went, TRUE)
    PROVE  Whole(t, w, came, went)
<1>1. came \in Cells /\ went \in Cells
  BY WroteType, PartsAre
<1>2. PICK z : Ended(t, w, came, z) /\ Closed(t, BodyOf(t, w, z), went)
  BY DEF Wrote
<1> DEFINE f == Fields(t)
           l == Layer(t, z)
           b == f \o l
           h == <<Cell(t, 0)>>
           s == Start(t)
           r == Trailer(t)
           a == PartialBlocks(b) \o LastPortion(Unfinished(b))
<1>3. /\ z \in Seq(Keeps(t)) /\ came \in Seq(Takes(t)) /\ z = (s \o came) \o r
      /\ went = (h \o PartialBlocks(b)) \o LastPortion(Unfinished(b))
  BY <1>2 DEF Ended, Closed, BodyOf
<1>4. f \in Cells /\ h \in Cells /\ l \in Cells /\ s \in Cells /\ r \in Cells
      /\ z \in Cells /\ z \in Seq(Within(1))
  <2>1. l \in Seq(Emits(t))
    BY <1>3, LayerIs
  <2> QED
    BY <1>3, <2>1, PartsAre
<1> HIDE DEF f, l, h, s, r
<1>5. f \in Seq(AnyCell) /\ l \in Seq(AnyCell) /\ h \in Seq(AnyCell) /\ s \in Seq(AnyCell)
      /\ r \in Seq(AnyCell) /\ came \in Seq(AnyCell)
  BY <1>1, <1>4, CellsAre
<1>6. b \in Seq(AnyCell) /\ b \in Cells /\ s \o came \in Cells
  BY <1>5, ConcatProperties, CellsAre
<1> HIDE DEF b
<1>7. a \in Cells /\ Unframed[a] = b
  BY <1>6, UnframedReads
<1>8. went = h \o a
  <2> DEFINE p == PartialBlocks(b)
             e == LastPortion(Unfinished(b))
  <2>1. p \in Seq(AnyCell) /\ e \in Seq(AnyCell)
    <3>1. Label \in AnyCell
      BY LabelIs
    <3>2. p \in Seq(AnyCell) /\ Unfinished(b) \in Seq(AnyCell)
      BY <1>6, <3>1, FramesAre
    <3>3. Cell("last", Len(Unfinished(b))) \in AnyCell
      BY <3>2, LabelIs, LenProperties
    <3>4. <<Cell("last", Len(Unfinished(b)))>> \o Unfinished(b) \in Seq(AnyCell)
      BY <3>2, <3>3, HeadIs
    <3>5. <<>> \in Seq(AnyCell)
      OBVIOUS
    <3> QED
      BY <3>2, <3>4, <3>5 DEF LastPortion
  <2> HIDE DEF p, e
  <2>2. (h \o p) \o e = h \o (p \o e)
    <3>1. h \in Seq(AnyCell) /\ p \in Seq(AnyCell) /\ e \in Seq(AnyCell)
      BY <1>5, <2>1
    <3> QED
      BY <3>1, Joined
  <2> QED
    BY <1>3, <2>2 DEF p, e
<1> HIDE DEF a
<1>9. InnerOf(t)[went] = l
  <2>1. Behind(h)[h \o a] = a
    BY <1>4, <1>7, BehindIs
  <2>2. Behind(f)[f \o l] = l
    BY <1>4, BehindIs
  <2> QED
    BY <1>1, <1>7, <1>8, <2>1, <2>2 DEF InnerOf, Then, b, f, h
<1>10. CASE t = "LIT"
  <2>1. l = z /\ s = <<>> /\ r = <<>>
    BY <1>10 DEF l, Layer, s, Start, r, Trailer
  <2>2. z = came
    <3>1. <<>> \o came = came /\ came \o <<>> = came
      BY <1>5, ConcatEmptySeq
    <3> QED
      BY <1>3, <2>1, <3>1
  <2> QED
    BY <1>1, <1>9, <1>10, <2>1, <2>2 DEF ReaderOf, Whole
<1>11. ASSUME t # "LIT"
       PROVE  Then(InnerOf(t), Peeled)[went] = z /\ Before(r)[z] = s \o came
  <2>1. l = Wrap(z) /\ Peeled[Wrap(z)] = z
    BY <1>4, <1>11, PeeledWrap DEF l, Layer
  <2>2. Before(r)[(s \o came) \o r] = s \o came
    BY <1>4, <1>6, BeforeIs
  <2> QED
    BY <1>1, <1>3, <1>9, <2>1, <2>2 DEF Then
<1>12. Behind(s)[s \o came] = came
  BY <1>1, <1>4, BehindIs
<1>13. CASE t = "COMP"
  <2>1. s = <<>> /\ <<>> \o came = came
    BY <1>5, <1>13, ConcatEmptySeq DEF s, Start
  <2>2. ReaderOf(t) = Then(Then(InnerOf(t), Peeled), Before(r))
    BY <1>13 DEF ReaderOf, r
  <2>3. t # "LIT"
    BY <1>13
  <2> QED
    BY <1>1, <1>11, <1>13, <2>1, <2>2, <2>3 DEF Then, Whole
<1>14. CASE t = "SEIPD"
  <2>1. ReaderOf(t) = Then(Then(Then(InnerOf(t), Peeled), Before(r)), Behind(s))
    BY <1>14 DEF ReaderOf, r, s
  <2>2. t # "LIT" /\ r = MDC
    BY <1>14 DEF r, Trailer
  <2>3. w.hashed = (Start(t) \o came) \o <<Cell("tag", 0)>>
    BY <1>2, <1>14 DEF Ended
  <2>4. Then(InnerOf(t), Peeled)[went] = (Start(t) \o came) \o MDC
    BY <1>3, <1>11, <2>2 DEF s
  <2>5. ReaderOf(t)[went] = came
    <3> DEFINE P == Then(InnerOf(t), Peeled)
               Q == Then(P, Before(r))
    <3>1. P[went] = z /\ Before(r)[z] = s \o came
      BY <1>11, <2>2
    <3> HIDE DEF P
    <3>2. Q[went] = Before(r)[P[went]]
      BY <1>1 DEF Then
    <3> HIDE DEF Q
    <3>3. Then(Q, Behind(s))[went] = Behind(s)[Q[went]]
      BY <1>1 DEF Then
    <3> QED
      BY <1>12, <2>1, <3>1, <3>2, <3>3 DEF Q, P
  <2> QED
    BY <1>1, <2>3, <2>4, <2>5 DEF Whole
<1> QED
  BY <1>10, <1>13, <1>14 DEF WriterTypes

\* Whatever is read, cells come out.
LEMMA UnframedType ==
    ASSUME NEW s \in Cells
    PROVE  Unframed[s] \in Cells
<1> DEFINE S == {k \in Nat : \A x \in Cells : Len(x) <= k => Unframed[x] \in Cells}
<1>1. 0 \in S
  <2>1. ASSUME NEW x \in Cells, Len(x) <= 0 PROVE Unframed[x] \in Cells
    <3>1. x = <<>>
      BY <2>1, EmptySeq, CellsAre
    <3> QED
      BY <3>1, UnframedNothing
  <2> QED
    BY <2>1
<1>2. \A k \in Nat : k \in S => k + 1 \in S
  <2> SUFFICES ASSUME NEW k \in Nat, \A x \in Cells : Len(x) <= k => Unframed[x] \in Cells,
                      NEW x \in Cells, Len(x) <= k + 1
               PROVE  Unframed[x] \in Cells
    OBVIOUS
  <2>1. x \in Seq(AnyCell) /\ Len(x) \in Nat
    BY CellsAre
  <2>2. CASE Stops(x)
    <3>1. Ends(x) \in Cells
      <4>1. <<>> \in Cells /\ <<Junk>> \in Cells
        BY CellsAre
      <4>2. x # <<>> => Tail(x) \in Cells
        BY <2>1, HeadTailProperties, CellsAre
      <4> QED
        BY <4>1, <4>2 DEF Ends
    <3> QED
      BY <2>2, <3>1, UnframedIs DEF Reading
  <2>3. CASE ~Stops(x)
    <3> DEFINE r == Rest(x)
    <3>1. r \in Cells /\ Len(r) \in Nat /\ Len(r) < Len(x)
      BY <2>3, RestIs
    <3> HIDE DEF r
    <3>2. Unframed[r] \in Cells
      BY <2>1, <3>1
    <3>3. Piece(x) \in Cells
      <4>1. x # <<>> /\ ~(1 + x[1].val > Len(x))
        BY <2>3 DEF Stops
      <4>2. Len(x) \in Nat \ {0}
        BY <2>1, <4>1, EmptySeq
      <4>3. x[1] \in AnyCell
        BY <2>1, <4>2, ElementOfSeq
      <4> DEFINE n == 1 + x[1].val
      <4>4. n \in 0..Len(x) /\ 1 \in 0..n
        BY <4>1, <4>2, <4>3 DEF AnyCell
      <4> HIDE DEF n
      <4>5. SubSeq(x, 1 + 1, n) \in Seq(AnyCell)
        BY <2>1, <4>4, PieceIs
      <4>6. 1 + 1 = 2
        OBVIOUS
      <4> QED
        BY <4>5, <4>6, CellsAre DEF Piece, n
    <3>4. Piece(x) \o Unframed[r] \in Cells
      <4>1. Piece(x) \in Seq(AnyCell) /\ Unframed[r] \in Seq(AnyCell)
        BY <3>2, <3>3, CellsAre
      <4> QED
        BY <4>1, ConcatProperties, CellsAre
    <3> QED
      BY <2>3, <3>4, UnframedIs DEF Reading, r
  <2> QED
    BY <2>2, <2>3
<1>3. Nat \subseteq S
  <2> HIDE DEF S
  <2> QED
    BY <1>1, <1>2, NatInduct
<1>4. Len(s) \in S
  BY <1>3, CellsAre
<1>5. Len(s) \in Nat
  BY CellsAre
<1> QED
  BY <1>4, <1>5

\* Whatever is in front or behind, cells come out.
LEMMA FieldsType ==
    ASSUME NEW f \in Cells, NEW s \in Cells
    PROVE  Behind(f)[s] \in Cells /\ Before(f)[s] \in Cells
<1>1. f \in Seq(AnyCell) /\ s \in Seq(AnyCell) /\ Len(f) \in Nat /\ Len(s) \in Nat
      /\ <<>> \in Cells /\ <<Junk>> \in Cells
  BY CellsAre
<1>2. ASSUME IsPrefix(f, s) PROVE Drop(s, Len(f)) \in Cells
  <2>1. Starts(f, s)
    BY <1>1, <1>2, StartsIs
  <2>2. Len(f) \in 0..Len(s)
    BY <1>1, <2>1 DEF Starts
  <2> QED
    BY <1>1, <2>2, DropIs, CellsAre
<1>3. ASSUME IsSuffix(f, s) PROVE Take(s, Len(s) - Len(f)) \in Cells
  <2>1. Len(f) <= Len(s)
    BY <1>1, <1>3, SuffixIs
  <2>2. Len(s) - Len(f) \in 0..Len(s)
    BY <1>1, <2>1
  <2> QED
    BY <1>1, <2>2, TakeIs, CellsAre
<1>4. Behind(f)[s] = IF IsPrefix(f, s) THEN Drop(s, Len(f))
                     ELSE IF IsPrefix(s, f) THEN <<>> ELSE <<Junk>>
  BY DEF Behind
<1>5. Before(f)[s] = IF IsSuffix(f, s) THEN Take(s, Len(s) - Len(f)) ELSE s
  BY DEF Before
<1> QED
  BY <1>1, <1>2, <1>3, <1>4, <1>5

\* The readers of the packets, applied one after the other.
LEMMA ReaderIs ==
    ASSUME NEW t \in WriterTypes, NEW s \in Cells
    PROVE  /\ ReaderOf(t)[s] \in Cells
           /\ InnerOf(t)[s] = Behind(Fields(t))[Opened(t, s)] /\ InnerOf(t)[s] \in Cells
           /\ Then(InnerOf(t), Peeled)[s] = Peeled[InnerOf(t)[s]]
           /\ t = "LIT" => ReaderOf(t)[s] = InnerOf(t)[s]
           /\ t = "COMP" => ReaderOf(t)[s] = Before(Trailer(t))[Peeled[InnerOf(t)[s]]]
           /\ t = "SEIPD" => ReaderOf(t)[s]
                               = Behind(Start(t))[Before(Trailer(t))[Peeled[InnerOf(t)[s]]]]
<1>1. Fields(t) \in Cells /\ <<Cell(t, 0)>> \in Cells /\ Start(t) \in Cells /\ Trailer(t) \in Cells
  BY PartsAre
<1> DEFINE a == Behind(<<Cell(t, 0)>>)[s]
           b == Unframed[a]
           i == Behind(Fields(t))[b]
           p == Peeled[i]
           r == Before(Trailer(t))[p]
           P == Then(InnerOf(t), Peeled)
           Q == Then(P, Before(Trailer(t)))
<1>2. a \in Cells
  BY <1>1, FieldsType
<1> HIDE DEF a
<1>3. b \in Cells
  BY <1>2, UnframedType
<1> HIDE DEF b
<1>4. i \in Cells
  BY <1>1, <1>3, FieldsType
<1> HIDE DEF i
<1>5. p \in Cells
  BY <1>4, PeeledIs
<1> HIDE DEF p
<1>6. r \in Cells
  BY <1>1, <1>5, FieldsType
<1> HIDE DEF r
<1>7. Behind(Start(t))[r] \in Cells
  BY <1>1, <1>6, FieldsType
<1>8. InnerOf(t)[s] = i /\ b = Opened(t, s)
  BY DEF InnerOf, Then, Opened, a, b, i
<1>9. P[s] = p
  BY <1>8 DEF Then, p
<1> HIDE DEF P
<1>10. Q[s] = r
  BY <1>9 DEF Then, r
<1> HIDE DEF Q
<1>11. Then(Q, Behind(Start(t)))[s] = Behind(Start(t))[r]
  BY <1>10 DEF Then
<1>12. ReaderOf(t) = IF t = "LIT" THEN InnerOf(t) ELSE IF t = "COMP" THEN Q
                     ELSE Then(Q, Behind(Start(t)))
  BY DEF ReaderOf, P, Q
<1>13. t = "LIT" \/ t = "COMP" \/ t = "SEIPD"
  BY DEF WriterTypes
<1>14. i = Behind(Fields(t))[Opened(t, s)]
  BY <1>8 DEF i
<1>15. p = Peeled[InnerOf(t)[s]] /\ r = Before(Trailer(t))[Peeled[InnerOf(t)[s]]]
  BY <1>8 DEF p, r
<1> QED
  BY <1>4, <1>6, <1>7, <1>8, <1>9, <1>10, <1>11, <1>12, <1>13, <1>14, <1>15 DEF P

-----------------------------------------------------------------------------
(* The message read.                                                       *)

Unlocked == Then(Behind(SessionKey), ReaderOf("SEIPD"))
Unpacked == IF cfg.compressed THEN Then(Then(Unlocked, ReaderOf("COMP")), ReaderOf("LIT"))
            ELSE Then(Unlocked, ReaderOf("LIT"))

\* The session key packet is octets.
LEMMA KeyType == SessionKey \in Seq(CellType) /\ SessionKey \in Cells
<1>1. <<Cell("ESK", 0)>> \in Seq(Within(2)) /\ Fill("esk", ESKLen) \in Seq(Within(2))
  BY CellIs, FillIs, KindsAre, WriterAssumption DEF WriterAssumption
<1>2. SessionKey \in Seq(CellType)
  BY <1>1, WithinGrows, ConcatProperties DEF SessionKey
<1> QED
  BY <1>2, SeqMonotonic, CellsAre

\* The definitions of Content and Plaintext are these readers in their order.
LEMMA ContentIs ==
    ASSUME Stream \in Cells
    PROVE  /\ Content = Unpacked[Stream]
           /\ Plaintext = Then(InnerOf("SEIPD"), Peeled)[Behind(SessionKey)[Stream]]
<1> DEFINE s == Stream
           k == Behind(SessionKey)[s]
           p == ReaderOf("SEIPD")[k]
           q == ReaderOf("COMP")[p]
<1>0. "LIT" \in WriterTypes /\ "COMP" \in WriterTypes /\ "SEIPD" \in WriterTypes
  BY DEF WriterTypes
<1> HIDE DEF s
<1>1. s \in Cells /\ k \in Cells
  BY KeyType, FieldsType DEF s
<1> HIDE DEF k
<1>2. p \in Cells
  BY <1>0, <1>1, ReaderIs
<1> HIDE DEF p
<1>3. q \in Cells
  BY <1>0, <1>2, ReaderIs
<1> HIDE DEF q
<1>4. Plaintext = Peeled[InnerOf("SEIPD")[k]]
      /\ Plaintext = Then(InnerOf("SEIPD"), Peeled)[k]
  <2>1. Fields("SEIPD") = <<Cell("version", 0)>>
    BY DEF Fields
  <2>2. Plaintext = Peeled[Behind(Fields("SEIPD"))[Opened("SEIPD", k)]]
    BY <2>1 DEF Plaintext, k, s
  <2>3. InnerOf("SEIPD")[k] = Behind(Fields("SEIPD"))[Opened("SEIPD", k)]
        /\ Then(InnerOf("SEIPD"), Peeled)[k] = Peeled[InnerOf("SEIPD")[k]]
    BY <1>0, <1>1, ReaderIs
  <2> QED
    BY <2>2, <2>3
<1>5. Protected = p
  <2>1. Start("SEIPD") = Prefix /\ Trailer("SEIPD") = MDC
    BY DEF Start, Trailer
  <2>2. p = Behind(Start("SEIPD"))[Before(Trailer("SEIPD"))[Peeled[InnerOf("SEIPD")[k]]]]
    BY <1>0, <1>1, ReaderIs DEF p
  <2> QED
    BY <1>4, <2>1, <2>2 DEF Protected
<1>6. Literal = IF cfg.compressed THEN q ELSE p
  <2>1. Fields("COMP") = <<Cell("algo", 0)>> /\ Trailer("COMP") = <<Cell("eoz", 0)>>
    BY DEF Fields, Trailer
  <2>2. q = Before(Trailer("COMP"))[Peeled[InnerOf("COMP")[p]]]
        /\ InnerOf("COMP")[p] = Behind(Fields("COMP"))[Opened("COMP", p)]
    BY <1>0, <1>2, ReaderIs DEF q
  <2> QED
    BY <1>5, <2>1, <2>2 DEF Literal
<1>7. Content = ReaderOf("LIT")[Literal]
  <2>1. Fields("LIT") = <<Cell("mode", 0), Cell("name", 0)>>
    BY DEF Fields
  <2>2. Literal \in Cells
    BY <1>2, <1>3, <1>6
  <2>3. ReaderOf("LIT")[Literal] = Behind(Fields("LIT"))[Opened("LIT", Literal)]
    BY <1>0, <2>2, ReaderIs
  <2> QED
    BY <2>1, <2>3 DEF Content
<1>8. Unlocked[s] = p
  BY <1>1 DEF Unlocked, Then, p, k
<1>9. Then(Unlocked, ReaderOf("COMP"))[s] = q
  BY <1>1, <1>8 DEF Then, q
<1>10. Content = Unpacked[s]
  <2> DEFINE A == Then(Unlocked, ReaderOf("COMP"))
             L == ReaderOf("LIT")
  <2>1. Unlocked[s] = p /\ A[s] = q /\ Content = L[IF cfg.compressed THEN q ELSE p]
    BY <1>6, <1>7, <1>8, <1>9
  <2> HIDE DEF A, L
  <2>2. Then(A, L)[s] = L[A[s]] /\ Then(Unlocked, L)[s] = L[Unlocked[s]]
    BY <1>1 DEF Then
  <2>3. Unpacked = IF cfg.compressed THEN Then(A, L) ELSE Then(Unlocked, L)
    BY DEF Unpacked, A, L
  <2> QED
    BY <2>1, <2>2, <2>3
<1> QED
  BY <1>4, <1>10 DEF s, k

\* The header of the armor carries no octet.
LEMMA HeaderIs == Text("header", <<>>) \in TextType /\ <<Text("header", <<>>)>> \in Seq(TextType)
                  /\ Octets(<<Text("header", <<>>)>>) = <<>>
<1>1. Text("header", <<>>) \in TextType /\ OctetsAt(Text("header", <<>>)) = <<>>
  BY DEF Text, TextType, OctetsAt
<1> HIDE DEF Text
<1>2. Octets(<<Text("header", <<>>)>>) = <<>>
  BY <1>1, OctetsOne
<1> QED
  BY <1>1, <1>2

\* What has gone out is octets.
LEMMA GivenIs ==
    ASSUME IInv, NEW c, FlowIs(c)
    PROVE  /\ Given \in Seq(CellType) /\ Given \in Cells /\ KeyOut \in Seq(CellType)
           /\ Gone(c) \in Seq(CellType) /\ c \in [1..(Len(Chain) + 1) -> Seq(CellType)]
<1> DEFINE N == Len(Chain)
           g == Gone(c)
           k == KeyOut
<1>1. c \in [1..(N + 1) -> Seq(CellType)] /\ Given = k \o g /\ g = c[N + 1]
  BY DEF FlowIs, Gone
<1>2. N \in {2, 3}
  BY ChainOrder
<1>3. g \in Seq(CellType)
  <2> HIDE DEF N, g
  <2>1. N + 1 \in 1..(N + 1)
    BY <1>2
  <2> QED
    BY <1>1, <2>1
<1>4. k \in Seq(CellType)
  <2>1. <<>> \in Seq(CellType)
    OBVIOUS
  <2> QED
    BY <2>1, KeyType DEF KeyOut
<1> HIDE DEF k, g
<1>5. Given \in Seq(CellType)
  BY <1>1, <1>3, <1>4, ConcatProperties
<1>6. Given \in Cells
  BY <1>5, SeqMonotonic, CellsAre
<1> QED
  BY <1>1, <1>3, <1>4, <1>5, <1>6 DEF g, k, N

\* What the caller has of what has been given.
LEMMA StreamIs ==
    IInv /\ FlowInv =>
        /\ Stream \in Cells /\ Given \in Cells
        /\ pc = "idle" => /\ Starts(Stream, Given)
                          /\ Len(Given) - Len(Stream) <= (IF cfg.armor THEN BlockLen - 1 ELSE 0)
        /\ pc = "finished" => Stream = Given
<1> SUFFICES ASSUME IInv, FlowInv
             PROVE  /\ Stream \in Cells /\ Given \in Cells
                    /\ pc = "idle" =>
                          /\ Starts(Stream, Given)
                          /\ Len(Given) - Len(Stream) <= (IF cfg.armor THEN BlockLen - 1 ELSE 0)
                    /\ pc = "finished" => Stream = Given
  OBVIOUS
<1>1. PICK c : FlowIs(c)
  BY DEF FlowInv
<1>2. Given \in Seq(CellType) /\ Given \in Cells
  BY <1>1, GivenIs
<1>3. pc # "running" => target = <<>>
  BY DEF IInv, ArmorInv
<1>4. CASE ~cfg.armor
  <2>1. Stream = output /\ Given = output \o target
    BY <1>4 DEF Stream, Given
  <2>2. output \in Seq(CellType \cup TextType) /\ target \in Seq(CellType \cup TextType)
    BY DEF IInv, TypeOK
  <2>3. output \in Seq(CellType)
    BY <1>2, <2>1, <2>2, PartsOf
  <2>4. Stream \in Cells /\ Stream \in Seq(CellType)
    BY <2>1, <2>3, SeqMonotonic, CellsAre
  <2>5. pc # "running" => Stream = Given
    BY <1>3, <2>1, <2>3, ConcatEmptySeq
  <2>6. Starts(Given, Given) /\ Len(Given) - Len(Given) <= 0
    BY <1>2, StartsIs, LenProperties
  <2> QED
    BY <1>2, <1>4, <2>4, <2>5, <2>6
<1>5. CASE cfg.armor
  <2>1. Stream = Octets(output) /\ Given = armor.crc \o armor.part /\ output \in Seq(TextType)
        /\ ArmorOK(armor)
    BY <1>5 DEF Stream, Given, IInv, ArmorInv
  <2>2. Stream \in Seq(CellType)
    BY <2>1, OctetsAre
  <2>3. Stream \in Cells
    BY <2>2, SeqMonotonic, CellsAre
  <2>4. armor.crc \in Seq(CellType) /\ armor.part \in Seq(CellType) /\ Len(armor.part) < BlockLen
    BY <2>1 DEF ArmorOK
  <2>5. ASSUME pc = "idle" PROVE Stream = armor.crc
    <3>1. output \o <<>> = output
      BY <2>1, ConcatEmptySeq
    <3>2. ArmorHolds(armor, output)
      BY <1>3, <1>5, <2>5, <3>1 DEF IInv, ArmorInv, TextSoFar
    <3>3. output = Begun(armor) \o Lines(armor.crc)
      BY <3>2 DEF ArmorHolds
    <3>4. Begun(armor) \in Seq(TextType) /\ Octets(Begun(armor)) = <<>>
      <4>1. <<>> \in Seq(TextType) /\ Octets(<<>>) = <<>>
        <5>1. Octets(Lines(<<>>)) = <<>>
          <6>1. <<>> \in Seq(CellType)
            OBVIOUS
          <6> QED
            BY <6>1, LinesAre
        <5> QED
          BY <5>1, NothingWritten
      <4> QED
        BY <4>1, HeaderIs DEF Begun
    <3>5. Lines(armor.crc) \in Seq(TextType) /\ Octets(Lines(armor.crc)) = armor.crc
      BY <2>4, LinesAre
    <3>6. Octets(output) = <<>> \o armor.crc
      BY <3>3, <3>4, <3>5, OctetsConcat
    <3>7. <<>> \o armor.crc = armor.crc
      BY <2>4, ConcatEmptySeq
    <3> QED
      BY <2>1, <3>6, <3>7
  <2>6. ASSUME pc = "finished" PROVE Stream = armor.crc /\ armor.part = <<>>
    <3>1. output = <<Text("header", <<>>)>> \o Lines(armor.crc) \o Footer(armor.crc)
          /\ armor.part = <<>>
      BY <1>5, <2>6 DEF IInv, ArmorInv, FlowInv
    <3> QED
      BY <2>1, <2>4, <3>1, ArmorAtOnce
  <2> DEFINE a == armor.crc
             b == armor.part
  <2>7. a \in Seq(CellType) /\ b \in Seq(CellType) /\ Len(b) < BlockLen /\ Given = a \o b
    BY <2>1, <2>4
  <2> HIDE DEF a, b
  <2>8. Starts(a, a \o b) /\ Len(a \o b) = Len(a) + Len(b) /\ Len(a) \in Nat /\ Len(b) \in Nat
    BY <2>7, StartsConcat, ConcatProperties, LenProperties
  <2>9. BlockLen \in Nat \ {0}
    BY ArmorAssumption DEF ArmorAssumption
  <2>10. Len(Given) - Len(a) <= BlockLen - 1
    BY <2>7, <2>8, <2>9
  <2>11. a \o <<>> = a
    BY <2>7, ConcatEmptySeq
  <2>12. pc = "idle" => Stream = a
    BY <2>5 DEF a
  <2>13. pc = "finished" => Stream = a /\ b = <<>>
    BY <2>6 DEF a, b
  <2> QED
    BY <1>2, <1>5, <2>3, <2>7, <2>8, <2>10, <2>11, <2>12, <2>13
<1> QED
  BY <1>4, <1>5

\* What the writers keep back, all together.
AllLag == IF cfg.compressed
          THEN ((0 + Lag("SEIPD", writers["SEIPD"])) + Lag("COMP", writers["COMP"]))
                 + Lag("LIT", writers["LIT"])
          ELSE (0 + Lag("SEIPD", writers["SEIPD"])) + Lag("LIT", writers["LIT"])

\* Between calls the readers give back the payload, but for what is kept back.
LEMMA IdleReads ==
    IInv /\ FlowInv /\ pc = "idle" =>
        AllLag \in Nat /\ Prompt(Unpacked, Payloads(cfg, fed), Given, AllLag)
<1> SUFFICES ASSUME IInv, FlowInv, pc = "idle"
             PROVE  AllLag \in Nat /\ Prompt(Unpacked, Payloads(cfg, fed), Given, AllLag)
  OBVIOUS
<1>1. PICK c : FlowIs(c)
  BY DEF FlowInv
<1> DEFINE N == Len(Chain)
           g == Gone(c)
           L(t) == Lag(t, writers[t])
<1>2. /\ c \in [1..(N + 1) -> Seq(CellType)] /\ cfg \in Configs /\ N \in {2, 3}
      /\ Given \in Cells /\ g \in Seq(CellType) /\ g = c[N + 1] /\ Given = KeyOut \o g
  BY <1>1, GivenIs, ChainOrder DEF IInv, TypeOK, FlowIs, Gone
<1>3. \A t \in WriterTypes : WriterOK(t, writers[t]) /\ L(t) \in Nat
  BY <1>2, LagIs DEF IInv, DepthInv
<1>4. "LIT" \in WriterTypes /\ "COMP" \in WriterTypes /\ "SEIPD" \in WriterTypes
  BY DEF WriterTypes
<1>5. buf = <<>> /\ finish = FALSE
  BY DEF FlowInv, IInv, TypeOK
<1>6. \A i \in 1..(N + 1) : c[i] \in Cells /\ c[i] \o <<>> = c[i]
  BY <1>2, ConcatEmptySeq, SeqMonotonic, CellsAre
<1>7. \A i : Pend(i) = <<>> /\ Done(i) = FALSE
  BY <1>5 DEF Pend, Done
<1>8. c[1] = Payloads(cfg, fed)
  <2>1. c[1] \o <<>> = Payloads(cfg, fed)
    BY <1>1, <1>7 DEF FlowIs
  <2>2. 1 \in 1..(N + 1)
    BY <1>2
  <2> QED
    BY <1>6, <2>1, <2>2
<1> HIDE DEF N, L, g
<1>9. ASSUME NEW i \in 1..N, NEW t \in WriterTypes, Chain[i] = t
      PROVE  c[i] \in Cells /\ c[i + 1] \in Cells /\ Prompt(ReaderOf(t), c[i], c[i + 1], L(t))
  <2>1. i \in 1..(N + 1) /\ i + 1 \in 1..(N + 1)
    BY <1>2
  <2>2. Wrote(t, writers[t], c[i], c[i + 1], FALSE)
    <3>1. Wrote(Chain[i], writers[Chain[i]], c[i], c[i + 1] \o Pend(i), Done(i))
      BY <1>1 DEF FlowIs, N
    <3>2. c[i + 1] \o Pend(i) = c[i + 1] /\ Done(i) = FALSE
      BY <1>6, <1>7, <2>1
    <3> QED
      BY <1>9, <3>1, <3>2
  <2>3. WriterOK(t, writers[t])
    BY <1>3
  <2>4. Prompt(ReaderOf(t), c[i], c[i + 1], L(t))
    BY <1>2, <2>2, <2>3, LayerReads DEF L
  <2> QED
    BY <1>6, <2>1, <2>4
<1>10. g \in Cells /\ Prompt(Behind(SessionKey), g, Given, 0)
  <2>1. g \in Cells
    BY <1>2, SeqMonotonic, CellsAre
  <2>2. CASE esk
    <3>1. g = <<>> /\ KeyOut = <<>>
      BY <1>1, <2>2 DEF FlowIs, KeyOut, g
    <3>2. Given = <<>>
      BY <1>2, <3>1
    <3>3. Behind(SessionKey)[<<>>] = <<>>
      BY <2>1, <3>1, KeyType, BehindIs
    <3>4. Prompt(Behind(SessionKey), <<>>, <<>>, 0)
      BY <3>3, PromptNothing
    <3> QED
      BY <2>1, <3>1, <3>2, <3>4
  <2>3. CASE ~esk
    <3>1. Given = SessionKey \o g
      BY <1>2, <2>3 DEF KeyOut
    <3> QED
      BY <2>1, <3>1, KeyType, BehindReads
  <2> QED
    BY <2>2, <2>3
<1>11. ASSUME NEW i \in 1..N, i = N, Chain[i] = "SEIPD"
       PROVE  c[i] \in Cells /\ Prompt(Unlocked, c[i], Given, 0 + L("SEIPD"))
  <2>1. c[i] \in Cells /\ Prompt(ReaderOf("SEIPD"), c[i], g, L("SEIPD"))
    BY <1>2, <1>4, <1>9, <1>11
  <2>2. L("SEIPD") \in Nat /\ 0 \in Nat
    BY <1>3, <1>4 DEF L
  <2>3. Prompt(Then(Behind(SessionKey), ReaderOf("SEIPD")), c[i], Given, 0 + L("SEIPD"))
    BY <1>2, <1>10, <2>1, <2>2, PromptThen
  <2> QED
    BY <2>1, <2>3 DEF Unlocked
<1>12. CASE cfg.compressed
  <2>1. N = 3 /\ Chain[1] = "LIT" /\ Chain[2] = "COMP" /\ Chain[3] = "SEIPD"
    BY <1>12, ChainOrder DEF N
  <2>2. 1 \in 1..N /\ 2 \in 1..N /\ 3 \in 1..N /\ 1 + 1 = 2 /\ 2 + 1 = 3
    BY <2>1
  <2>3. c[3] \in Cells /\ Prompt(Unlocked, c[3], Given, 0 + L("SEIPD"))
    BY <1>11, <2>1, <2>2
  <2>4. c[2] \in Cells /\ Prompt(ReaderOf("COMP"), c[2], c[3], L("COMP"))
    BY <1>4, <1>9, <2>1, <2>2
  <2>5. c[1] \in Cells /\ Prompt(ReaderOf("LIT"), c[1], c[2], L("LIT"))
    BY <1>4, <1>9, <2>1, <2>2
  <2> DEFINE x == 0 + L("SEIPD")
             y == x + L("COMP")
  <2>6. x \in Nat /\ y \in Nat /\ L("COMP") \in Nat /\ L("LIT") \in Nat /\ y + L("LIT") \in Nat
    BY <1>3, <1>4 DEF L
  <2> HIDE DEF x
  <2>7. Prompt(Then(Unlocked, ReaderOf("COMP")), c[2], Given, x + L("COMP"))
    <3>1. Prompt(Unlocked, c[3], Given, x)
      BY <2>3 DEF x
    <3> QED
      BY <1>2, <2>3, <2>4, <2>6, <3>1, PromptThen
  <2> DEFINE A == Then(Unlocked, ReaderOf("COMP"))
  <2>8. Prompt(A, c[2], Given, y)
    BY <2>7
  <2> HIDE DEF A, y
  <2>9. Prompt(Then(A, ReaderOf("LIT")), c[1], Given, y + L("LIT"))
    BY <1>2, <2>4, <2>5, <2>6, <2>8, PromptThen
  <2>10. AllLag = y + L("LIT") /\ Unpacked = Then(A, ReaderOf("LIT"))
    BY <1>12 DEF AllLag, Unpacked, A, y, x, L
  <2> QED
    BY <1>8, <2>6, <2>9, <2>10
<1>13. CASE ~cfg.compressed
  <2>1. N = 2 /\ Chain[1] = "LIT" /\ Chain[2] = "SEIPD"
    <3>1. N = 2
      BY <1>2, <1>13, ChainOrder DEF N
    <3> QED
      BY <3>1, ChainOrder DEF N
  <2>2. 1 \in 1..N /\ 2 \in 1..N /\ 1 + 1 = 2
    BY <2>1
  <2>3. c[2] \in Cells /\ Prompt(Unlocked, c[2], Given, 0 + L("SEIPD"))
    BY <1>11, <2>1, <2>2
  <2>4. c[1] \in Cells /\ Prompt(ReaderOf("LIT"), c[1], c[2], L("LIT"))
    BY <1>4, <1>9, <2>1, <2>2
  <2> DEFINE x == 0 + L("SEIPD")
  <2>5. x \in Nat /\ L("LIT") \in Nat /\ x + L("LIT") \in Nat
    BY <1>3, <1>4 DEF L
  <2> HIDE DEF x
  <2>6. Prompt(Then(Unlocked, ReaderOf("LIT")), c[1], Given, x + L("LIT"))
    <3>1. Prompt(Unlocked, c[2], Given, x)
      BY <2>3 DEF x
    <3> QED
      BY <1>2, <2>3, <2>4, <2>5, <3>1, PromptThen
  <2>7. AllLag = x + L("LIT") /\ Unpacked = Then(Unlocked, ReaderOf("LIT"))
    BY <1>13 DEF AllLag, Unpacked, x, L
  <2> QED
    BY <1>8, <2>5, <2>6, <2>7
<1> QED
  BY <1>12, <1>13

\* A start of the payload is the payload of a smaller size.
LEMMA PayloadsAre ==
    ASSUME NEW f, NEW m \in Nat
    PROVE  /\ Payloads(f, m) \in Cells /\ Len(Payloads(f, m)) = m
           /\ Payloads(f, 0) = <<>>
           /\ \A n \in 0..m : Starts(Payloads(f, n), Payloads(f, m))
           /\ \A s \in Cells : Starts(s, Payloads(f, m)) =>
                 s = Payloads(f, Len(s)) /\ Len(s) \in 0..m
<1>1. \A n \in Nat : Payloads(f, n) \in Cells /\ Len(Payloads(f, n)) = n
                     /\ \A i \in 1..n : Payloads(f, n)[i] = Cell("data", i)
  <2>1. ASSUME NEW n \in Nat
        PROVE  /\ Payloads(f, n) \in Cells /\ Len(Payloads(f, n)) = n
               /\ \A i \in 1..n : Payloads(f, n)[i] = Cell("data", i)
    <3>1. "LIT" \in WriterTypes
      BY DEF WriterTypes
    <3>2. Payloads(f, n) \in Seq(Emits("LIT")) /\ Len(Payloads(f, n)) = n
      BY PayloadType
    <3>3. Payloads(f, n) \in Cells
      BY <3>1, <3>2, PartsAre
    <3>4. \A i \in 1..n : Payloads(f, n)[i] = Cell("data", i)
      BY DEF Payloads
    <3> QED
      BY <3>2, <3>3, <3>4
  <2> QED
    BY <2>1
<1> HIDE DEF Payloads
<1>2. Payloads(f, 0) = <<>>
  <2>1. Payloads(f, 0) \in Seq(AnyCell) /\ Len(Payloads(f, 0)) = 0
    BY <1>1, CellsAre
  <2> QED
    BY <2>1, EmptySeq
<1>3. ASSUME NEW n \in 0..m PROVE Starts(Payloads(f, n), Payloads(f, m))
  BY <1>1 DEF Starts
<1>4. ASSUME NEW s \in Cells, Starts(s, Payloads(f, m))
      PROVE  s = Payloads(f, Len(s)) /\ Len(s) \in 0..m
  <2> DEFINE n == Len(s)
             p == Payloads(f, m)
             q == Payloads(f, n)
  <2>1. n \in Nat /\ s \in Seq(AnyCell)
    BY CellsAre
  <2>2. n <= m /\ \A i \in 1..n : s[i] = p[i]
    BY <1>1, <1>4 DEF Starts
  <2>3. q \in Seq(AnyCell) /\ Len(q) = n /\ \A i \in 1..n : q[i] = Cell("data", i)
    BY <1>1, <2>1, CellsAre
  <2>4. \A i \in 1..m : p[i] = Cell("data", i)
    BY <1>1
  <2>5. \A i \in 1..n : i \in 1..m
    BY <2>1, <2>2
  <2> HIDE DEF q, p
  <2>6. \A i \in 1..n : s[i] = q[i]
    BY <2>2, <2>3, <2>4, <2>5
  <2>7. s = q
    BY <2>1, <2>3, <2>6, SeqEqual
  <2> QED
    BY <2>1, <2>2, <2>7 DEF q
<1> QED
  BY <1>1, <1>2, <1>3, <1>4

\* What the reader behind the writer makes of the output.
LEMMA ContentReads == IInv /\ FlowInv => Content = Unpacked[Stream]
  BY StreamIs, ContentIs

\* Between calls the content is a beginning of the payload.
LEMMA IdleContent ==
    IInv /\ FlowInv /\ pc = "idle" =>
        /\ Content \in Cells /\ Starts(Content, Payloads(cfg, fed))
        /\ fed - Len(Content) <= AllLag + (IF cfg.armor THEN BlockLen - 1 ELSE 0)
<1> SUFFICES ASSUME IInv, FlowInv, pc = "idle"
             PROVE  /\ Content \in Cells /\ Starts(Content, Payloads(cfg, fed))
                    /\ fed - Len(Content) <= AllLag + (IF cfg.armor THEN BlockLen - 1 ELSE 0)
  OBVIOUS
<1> DEFINE p == Payloads(cfg, fed)
           more == IF cfg.armor THEN BlockLen - 1 ELSE 0
<1>1. /\ Stream \in Cells /\ Given \in Cells /\ Starts(Stream, Given)
      /\ Len(Given) - Len(Stream) <= more
  BY StreamIs
<1>2. AllLag \in Nat /\ Prompt(Unpacked, p, Given, AllLag)
  BY IdleReads
<1>3. Content = Unpacked[Stream]
  BY ContentReads
<1>4. fed \in Nat
  BY ConfigIs DEF IInv, TypeOK
<1>5. p \in Cells /\ Len(p) = fed
  BY <1>4, PayloadsAre
<1>6. more \in Nat
  BY ArmorAssumption DEF ArmorAssumption
<1> HIDE DEF p, more
<1>7. /\ Content \in Cells /\ Starts(Content, p)
      /\ Len(p) - Len(Content) <= (Len(Given) - Len(Stream)) + AllLag
  BY <1>1, <1>2, <1>3 DEF Prompt
<1>8. Len(Content) \in Nat /\ Len(Given) \in Nat /\ Len(Stream) \in Nat
  BY <1>1, <1>7, CellsAre
<1> DEFINE a == Len(Content)
           b == Len(Given)
           d == Len(Stream)
<1>9. a \in Nat /\ b \in Nat /\ d \in Nat /\ fed - a <= (b - d) + AllLag /\ b - d <= more
  BY <1>1, <1>5, <1>7, <1>8
<1> HIDE DEF a, b, d
<1>10. fed - a <= AllLag + more
  BY <1>2, <1>4, <1>6, <1>9
<1> QED
  BY <1>7, <1>10 DEF p, more, a

\* When all has been written all can be read, and the digest is right.
LEMMA FinalContent ==
    IInv /\ FlowInv /\ pc = "finished" =>
        /\ fed = cfg.size /\ Content = Payloads(cfg, cfg.size)
        /\ writers["SEIPD"].hashed = Take(Plaintext, Len(Plaintext) - (MDCLen - 1))
<1> SUFFICES ASSUME IInv, FlowInv, pc = "finished"
             PROVE  /\ fed = cfg.size /\ Content = Payloads(cfg, cfg.size)
                    /\ writers["SEIPD"].hashed = Take(Plaintext, Len(Plaintext) - (MDCLen - 1))
  OBVIOUS
<1>1. PICK c : FlowIs(c)
  BY DEF FlowInv
<1> DEFINE N == Len(Chain)
           g == Gone(c)
<1>2. /\ c \in [1..(N + 1) -> Seq(CellType)] /\ cfg \in Configs /\ N \in {2, 3}
      /\ Given \in Cells /\ g \in Seq(CellType) /\ g = c[N + 1] /\ Given = KeyOut \o g
  BY <1>1, GivenIs, ChainOrder DEF IInv, TypeOK, FlowIs, Gone
<1>3. \A t \in WriterTypes : WriterOK(t, writers[t])
  BY DEF IInv, DepthInv
<1>4. "LIT" \in WriterTypes /\ "COMP" \in WriterTypes /\ "SEIPD" \in WriterTypes
  BY DEF WriterTypes
<1>5. buf = <<>> /\ finish = TRUE /\ next = N /\ ~esk /\ fed = cfg.size
  BY DEF FlowInv, IInv, TypeOK
<1>6. \A i \in 1..(N + 1) : c[i] \in Cells /\ c[i] \o <<>> = c[i]
  BY <1>2, ConcatEmptySeq, SeqMonotonic, CellsAre
<1> HIDE DEF N, g
<1>7. (\A i : Pend(i) = <<>>) /\ \A i \in 1..N : Done(i) = TRUE
  <2>1. \A i \in 1..N : i <= next
    BY <1>2, <1>5
  <2> QED
    BY <1>5, <2>1 DEF Pend, Done
<1>8. c[1] = Payloads(cfg, fed)
  <2>1. c[1] \o <<>> = Payloads(cfg, fed)
    BY <1>1, <1>7 DEF FlowIs
  <2>2. 1 \in 1..(N + 1)
    BY <1>2
  <2> QED
    BY <1>6, <2>1, <2>2
<1>9. ASSUME NEW i \in 1..N, NEW t \in WriterTypes, Chain[i] = t
      PROVE  Wrote(t, writers[t], c[i], c[i + 1], TRUE)
  <2>1. i \in 1..(N + 1) /\ i + 1 \in 1..(N + 1)
    BY <1>2
  <2>2. Wrote(Chain[i], writers[Chain[i]], c[i], c[i + 1] \o Pend(i), Done(i))
    BY <1>1 DEF FlowIs, N
  <2>3. c[i + 1] \o Pend(i) = c[i + 1] /\ Done(i) = TRUE
    BY <1>6, <1>7, <2>1
  <2> QED
    BY <1>9, <2>2, <2>3
<1>10. ASSUME NEW i \in 1..N, NEW t \in WriterTypes, Chain[i] = t
       PROVE  c[i] \in Cells /\ c[i + 1] \in Cells /\ ReaderOf(t)[c[i + 1]] = c[i]
  <2>1. Wrote(t, writers[t], c[i], c[i + 1], TRUE)
    BY <1>9, <1>10
  <2>2. cfg \in Configs /\ WriterOK(t, writers[t])
    BY <1>2, <1>3
  <2> DEFINE w == writers[t]
             x == c[i]
             y == c[i + 1]
  <2> HIDE DEF w, x, y
  <2>3. Wrote(t, w, x, y, TRUE) /\ WriterOK(t, w)
    BY <2>1, <2>2 DEF w, x, y
  <2>4. x \in Cells /\ y \in Cells /\ ReaderOf(t)[y] = x
    <3>1. Whole(t, w, x, y)
      BY <2>2, <2>3, LayerWhole
    <3> QED
      BY <3>1 DEF Whole
  <2> QED
    BY <2>4 DEF x, y
<1>11. g \in Cells /\ Behind(SessionKey)[Stream] = g /\ Stream \in Cells
  <2>1. g \in Cells
    BY <1>2, SeqMonotonic, CellsAre
  <2>2. Stream = SessionKey \o g /\ Stream \in Cells
    BY <1>2, <1>5, StreamIs DEF KeyOut
  <2> QED
    BY <2>1, <2>2, KeyType, BehindIs
<1>12. Content = Unpacked[Stream] /\ Plaintext = Then(InnerOf("SEIPD"), Peeled)[g]
  BY <1>11, ContentIs
<1>13. Chain[N] = "SEIPD" /\ N \in 1..N /\ Chain[1] = "LIT" /\ 1 \in 1..N
  BY <1>2, ChainOrder DEF N
<1>14. Unlocked[Stream] = c[N]
  <2>1. ReaderOf("SEIPD")[g] = c[N]
    BY <1>2, <1>4, <1>10, <1>13
  <2> QED
    BY <1>11, <2>1 DEF Unlocked, Then
<1>15. Content = c[1]
  <2> DEFINE A == Then(Unlocked, ReaderOf("COMP"))
             L == ReaderOf("LIT")
  <2>1. L[c[2]] = c[1]
    <3>1. 1 + 1 = 2
      OBVIOUS
    <3> QED
      BY <1>4, <1>10, <1>13, <3>1
  <2>2. CASE cfg.compressed
    <3>0. N = 3 /\ Chain[2] = "COMP"
      BY <2>2, ChainOrder DEF N
    <3>1. N = 3 /\ Chain[2] = "COMP" /\ 2 \in 1..N /\ 2 + 1 = 3
      BY <3>0
    <3>2. ReaderOf("COMP")[c[3]] = c[2]
      BY <1>4, <1>10, <3>1
    <3>3. A[Stream] = c[2]
      BY <1>11, <1>14, <3>1, <3>2 DEF Then
    <3> HIDE DEF A, L
    <3>4. Then(A, L)[Stream] = c[1]
      BY <1>11, <2>1, <3>3 DEF Then
    <3> QED
      BY <1>12, <2>2, <3>4 DEF Unpacked, A, L
  <2>3. CASE ~cfg.compressed
    <3>1. N = 2
      BY <1>2, <2>3, ChainOrder DEF N
    <3> HIDE DEF L
    <3>2. Then(Unlocked, L)[Stream] = c[1]
      BY <1>11, <1>14, <2>1, <3>1 DEF Then
    <3> QED
      BY <1>12, <2>3, <3>2 DEF Unpacked, L
  <2> QED
    BY <2>2, <2>3
<1>16. writers["SEIPD"].hashed = Take(Plaintext, Len(Plaintext) - (MDCLen - 1))
  <2> DEFINE came == c[N]
             x == Start("SEIPD") \o came
             tag == <<Cell("tag", 0)>>
             sha == Fill("sha", MDCLen - 1)
             y == x \o tag
             n == MDCLen - 1
  <2>1. Wrote("SEIPD", writers["SEIPD"], came, g, TRUE)
    BY <1>2, <1>4, <1>9, <1>13
  <2>2. /\ writers["SEIPD"].hashed = x \o tag
        /\ Then(InnerOf("SEIPD"), Peeled)[g] = x \o MDC
        /\ came \in Cells
    <3> DEFINE w == writers["SEIPD"]
    <3>1. Wrote("SEIPD", w, came, g, TRUE) /\ WriterOK("SEIPD", w) /\ cfg \in Configs
      BY <1>2, <1>3, <1>4, <2>1
    <3> HIDE DEF w, came
    <3>2. /\ w.hashed = (Start("SEIPD") \o came) \o <<Cell("tag", 0)>>
          /\ Then(InnerOf("SEIPD"), Peeled)[g] = (Start("SEIPD") \o came) \o MDC
          /\ came \in Cells
      <4>1. Whole("SEIPD", w, came, g)
        BY <1>4, <3>1, LayerWhole
      <4> QED
        BY <4>1 DEF Whole
    <3> QED
      BY <3>2 DEF w
  <2>3. n \in Nat
    BY WriterAssumption DEF WriterAssumption
  <2>4. tag \in Seq(AnyCell) /\ sha \in Seq(AnyCell) /\ Len(sha) = n /\ x \in Seq(AnyCell)
    <3>1. tag \in Seq(Within(2)) /\ sha \in Seq(Within(2)) /\ Len(sha) = n
      <4>1. tag \in Seq(Within(2))
        BY CellIs, KindsAre
      <4> HIDE DEF n
      <4>2. Fill("sha", n) \in Seq(Within(2)) /\ Len(Fill("sha", n)) = n
        BY <2>3, FillIs, KindsAre
      <4> QED
        BY <4>1, <4>2 DEF n
    <3>2. Start("SEIPD") \in Seq(AnyCell) /\ came \in Seq(AnyCell)
      BY <1>4, <2>2, PartsAre, CellsAre
    <3>3. x \in Seq(AnyCell)
      BY <3>2, ConcatProperties
    <3>4. Within(2) \subseteq AnyCell
      BY WithinGrows, CellsAre
    <3> QED
      BY <3>1, <3>3, <3>4, SeqMonotonic
  <2>5. MDC = tag \o sha
    BY DEF MDC
  <2> HIDE DEF came, x, tag, sha, n
  <2>6. x \o (tag \o sha) = (x \o tag) \o sha /\ y \in Seq(AnyCell)
    <3>1. /\ x \in Seq(AnyCell)
          /\ tag \in Seq(AnyCell)
          /\ sha \in Seq(AnyCell)
      BY <2>4
    <3> HIDE DEF y
    <3>2. x \o (tag \o sha) = (x \o tag) \o sha /\ x \o tag \in Seq(AnyCell)
      BY <3>1, Joined, SMTT(30)
    <3> QED
      BY <3>2 DEF y
  <2> HIDE DEF y
  <2>7. Plaintext = y \o sha
    BY <1>12, <2>2, <2>5, <2>6 DEF y
  <2>8. Len(y \o sha) = Len(y) + n /\ Len(y) \in Nat
    BY <2>4, <2>6, ConcatProperties, LenProperties
  <2>9. Len(Plaintext) - n = Len(y)
    BY <2>3, <2>7, <2>8
  <2>10. SubSeq(y \o sha, 1, Len(y)) = y
    BY <2>4, <2>6, TakeFirst
  <2>11. Take(Plaintext, Len(Plaintext) - n) = y
    BY <2>7, <2>9, <2>10 DEF Take
  <2> QED
    BY <2>2, <2>11 DEF y, n
<1> QED
  BY <1>5, <1>8, <1>15, <1>16

-----------------------------------------------------------------------------
(* What the caller can read only grows.                                    *)

ReadInv == \E n \in 0..fed : Content = Payloads(cfg, n)

\* The same of the state after a step.
LEMMA NextReads ==
    (IInv /\ FlowInv /\ pc = "idle" =>
        AllLag \in Nat /\ Prompt(Unpacked, Payloads(cfg, fed), Given, AllLag))'
  BY IdleReads, PTL

LEMMA NextContent ==
    (IInv /\ FlowInv /\ pc = "idle" =>
        /\ Content \in Cells /\ Starts(Content, Payloads(cfg, fed))
        /\ fed - Len(Content) <= AllLag + (IF cfg.armor THEN BlockLen - 1 ELSE 0))'
  BY IdleContent, PTL

LEMMA NextFinal ==
    (IInv /\ FlowInv /\ pc = "finished" =>
        /\ fed = cfg.size /\ Content = Payloads(cfg, cfg.size)
        /\ writers["SEIPD"].hashed = Take(Plaintext, Len(Plaintext) - (MDCLen - 1)))'
  BY FinalContent, PTL

LEMMA NextStream ==
    (IInv /\ FlowInv =>
        /\ Stream \in Cells /\ Given \in Cells
        /\ pc = "idle" => /\ Starts(Stream, Given)
                          /\ Len(Given) - Len(Stream) <= (IF cfg.armor THEN BlockLen - 1 ELSE 0)
        /\ pc = "finished" => Stream = Given)'
  BY StreamIs, PTL

LEMMA NextContentReads == (IInv /\ FlowInv => Content = Unpacked[Stream])'
  BY ContentReads, PTL

\* Nothing to read changes while nothing goes out.
LEMMA SameReaders == cfg' = cfg => Unpacked' = Unpacked
  BY DEF Unpacked

LEMMA SameStream == cfg' = cfg /\ output' = output => Stream' = Stream
  BY DEF Stream, Octets

LEMMA SamePayloads == ASSUME NEW f, NEW n PROVE Payloads(f, n)' = Payloads(f', n')
  BY DEF Payloads

\* What the caller was given stays.
LEMMA StreamGrows ==
    ASSUME IInv, Return, ~finish
    PROVE  Starts(Stream, Stream')
<1> DEFINE armed == ArmorWrite(armor, buf, finish)
<1>1. /\ pc = "running" /\ cfg' = cfg /\ finish = FALSE
      /\ IF cfg.armor THEN armor' = armed.a /\ output' = output \o target \o armed.out
                      ELSE armor' = armor /\ output' = output \o target \o buf
  BY DEF Return, IInv, TypeOK
<1>2. buf \in Seq(CellType)
  BY DEF IInv, TypeOK
<1>3. CASE cfg.armor
  <2>1. output \in Seq(TextType) /\ target \in Seq(TextType)
    BY <1>3 DEF IInv, ArmorInv
  <2>2. armed.out \in Seq(TextType)
    <3>1. ArmorHolds(armor, TextSoFar)
      BY <1>1, <1>3 DEF IInv, ArmorInv
    <3> DEFINE r == ArmorWrite(armor, buf, FALSE)
    <3>2. r.out \in Seq(TextType)
      BY <1>2, <3>1, ArmorStep
    <3> QED
      BY <1>1, <3>2
  <2> DEFINE o == armed.out
  <2>3. output' = output \o target \o o
    BY <1>1, <1>3
  <2> HIDE DEF o
  <2>4. output \o target \in Seq(TextType) /\ o \in Seq(TextType)
    <3>1. output \o target \in Seq(TextType)
      BY <2>1, ConcatProperties
    <3>2. o \in Seq(TextType)
      BY <2>2 DEF o
    <3> QED
      BY <3>1, <3>2
  <2>5. Octets(output \o target \o o) = (Octets(output) \o Octets(target)) \o Octets(o)
    <3> DEFINE f == output \o target
    <3>1. Octets(f \o o) = Octets(f) \o Octets(o)
      <4>1. f \in Seq(TextType) /\ o \in Seq(TextType)
        BY <2>4
      <4> HIDE DEF f
      <4> QED
        BY <4>1, OctetsConcat
    <3>2. Octets(f) = Octets(output) \o Octets(target)
      <4>1. output \in Seq(TextType) /\ target \in Seq(TextType)
        BY <2>1
      <4> QED
        BY <4>1, OctetsConcat
    <3> QED
      BY <3>1, <3>2
  <2> DEFINE a == Octets(output)
             b == Octets(target)
             d == Octets(o)
  <2>6. a \in Seq(CellType) /\ b \in Seq(CellType) /\ d \in Seq(CellType)
    BY <2>1, <2>4, OctetsAre
  <2>7. Stream = a /\ Stream' = (a \o b) \o d
    <3>1. Stream = a
      BY <1>3 DEF Stream
    <3>2. Octets(output)' = Octets(output')
      BY DEF Octets
    <3>3. Stream' = Octets(output')
      BY <1>1, <1>3, <3>2 DEF Stream
    <3> QED
      BY <2>3, <2>5, <3>1, <3>3
  <2> HIDE DEF a, b, d
  <2>8. a \o b \in Seq(CellType) /\ (a \o b) \o d \in Seq(CellType)
    BY <2>6, ConcatProperties
  <2>9. Starts(a, a \o b) /\ Starts(a \o b, (a \o b) \o d)
    BY <2>6, <2>8, StartsConcat
  <2> QED
    BY <2>6, <2>7, <2>8, <2>9, StartsTwice
<1>4. CASE ~cfg.armor
  <2> DEFINE T == CellType \cup TextType
             a == output
             b == target
             d == buf
  <2>1. a \in Seq(T) /\ b \in Seq(T) /\ d \in Seq(T)
    BY <1>2, BothTypes DEF IInv, TypeOK
  <2>2. Stream = a /\ Stream' = (a \o b) \o d
    BY <1>1, <1>4 DEF Stream
  <2> HIDE DEF T, a, b, d
  <2>3. a \o b \in Seq(T) /\ (a \o b) \o d \in Seq(T)
    BY <2>1, ConcatProperties
  <2>4. Starts(a, a \o b) /\ Starts(a \o b, (a \o b) \o d)
    BY <2>1, <2>3, StartsConcat
  <2> QED
    BY <2>1, <2>2, <2>3, <2>4, StartsTwice
<1> QED
  BY <1>3, <1>4

\* So does what can be read of it.
LEMMA ContentGrows ==
    ASSUME IInv, FlowInv, IInv', FlowInv', Return, ~finish
    PROVE  Starts(Content, Content') /\ Starts(Content', Payloads(cfg, fed)) /\ Content' \in Cells
<1>1. pc' = "idle" /\ cfg' = cfg /\ fed' = fed
  BY DEF Return, IInv, TypeOK
<1>2. Payloads(cfg, fed)' = Payloads(cfg, fed)
  BY <1>1 DEF Payloads
<1>3. Starts(Content, Payloads(cfg, fed))' /\ (Content \in Cells)'
  BY <1>1, NextContent
<1>4. Prompt(Unpacked, Payloads(cfg, fed), Given, AllLag)'
  BY <1>1, NextReads
<1>5. Stream \in Cells /\ Stream' \in Cells /\ Starts(Stream, Stream') /\ Starts(Stream', Given')
  BY <1>1, NextStream, StreamIs, StreamGrows DEF Starts
<1>6. Starts(Unpacked'[Stream], Unpacked'[Stream'])
  BY <1>4, <1>5 DEF Prompt
<1>7. Content = Unpacked[Stream] /\ Content' = Unpacked'[Stream'] /\ Unpacked' = Unpacked
  BY <1>1, ContentReads, NextContentReads, SameReaders
<1>8. Starts(Content, Content')
  BY <1>6, <1>7
<1>9. Starts(Content', Payloads(cfg, fed)) /\ Content' \in Cells
  BY <1>2, <1>3 DEF Starts
<1> QED
  BY <1>8, <1>9

LEMMA SameContent ==
    ASSUME IInv, FlowInv, IInv', FlowInv', cfg' = cfg, output' = output
    PROVE  Content' = Content
  BY ContentReads, NextContentReads, SameReaders, SameStream

\* What is read is the payload up to some octet,
LEMMA ReadBetween ==
    ASSUME NEW f, NEW m \in Nat, NEW s \in Cells, Starts(s, Payloads(f, m))
    PROVE  \E n \in 0..m : s = Payloads(f, n)
  BY PayloadsAre

\* at first up to none,
LEMMA InitRead == Init => IInv /\ FlowInv /\ ReadInv /\ Content = <<>>
<1> SUFFICES ASSUME Init PROVE IInv /\ FlowInv /\ ReadInv /\ Content = <<>>
  OBVIOUS
<1>1. IInv /\ FlowInv
  BY InitInv, InitFlow
<1>2. pc = "idle" /\ fed = 0 /\ 0 \in Nat
  BY DEF Init
<1>3. Payloads(cfg, 0) = <<>> /\ Payloads(cfg, 0) \in Cells
  BY <1>2, PayloadsAre
<1>4. Content \in Cells /\ Starts(Content, <<>>)
  BY <1>1, <1>2, <1>3, IdleContent
<1>5. Content = <<>>
  BY <1>4, StartsIs, CellsAre
<1>6. 0 \in 0..fed
  BY <1>2
<1> QED
  BY <1>1, <1>3, <1>5, <1>6 DEF ReadInv

\* and so after every step.
LEMMA NextRead ==
    ASSUME IInv, FlowInv, ReadInv, [Next]_vars, IInv', FlowInv'
    PROVE  ReadInv'
<1>1. PICK n \in 0..fed : Content = Payloads(cfg, n)
  BY DEF ReadInv
<1>2. fed \in Nat /\ cfg.size \in Nat
  BY ConfigIs DEF IInv, TypeOK
<1>3. ASSUME cfg' = cfg, output' = output, fed' \in Nat, fed <= fed' PROVE ReadInv'
  <2>1. Content' = Content
    BY <1>3, SameContent
  <2>2. n \in 0..fed'
    BY <1>2, <1>3
  <2>3. Payloads(cfg, n)' = Payloads(cfg, n)
    BY <1>3 DEF Payloads
  <2>4. Content' = Payloads(cfg', n)
    BY <1>1, <1>3, <2>1
  <2>5. \E k \in 0..fed' : Content' = Payloads(cfg', k)
    BY <2>2, <2>4
  <2> QED
    BY <2>5 DEF ReadInv, Payloads
<1>4. CASE Update
  <2>1. PICK m \in 0..ChunkMax : fed' = fed + m
    BY <1>4 DEF Update
  <2>2. m \in Nat
    BY <2>1, WriterAssumption DEF WriterAssumption
  <2>3. fed' \in Nat /\ fed <= fed'
    BY <1>2, <2>1, <2>2
  <2> QED
    BY <1>3, <1>4, <2>3 DEF Update
<1>5. CASE PacketWriter
  BY <1>2, <1>3, <1>5 DEF PacketWriter
<1>6. CASE UNCHANGED vars
  BY <1>2, <1>3, <1>6 DEF vars
<1>7. CASE Return
  <2>1. cfg' = cfg /\ fed' = fed
    BY <1>7 DEF Return
  <2>2. CASE ~finish
    <3>1. Starts(Content', Payloads(cfg, fed)) /\ Content' \in Cells
      BY <1>7, <2>2, ContentGrows
    <3>2. \E k \in 0..fed : Content' = Payloads(cfg, k)
      BY <1>2, <3>1, ReadBetween
    <3> QED
      BY <2>1, <3>2 DEF ReadInv, Payloads
  <2>3. CASE finish
    <3>1. pc' = "finished"
      BY <1>7, <2>3 DEF Return
    <3>2. fed' = cfg'.size /\ Content' = Payloads(cfg, cfg.size)'
      BY <3>1, NextFinal
    <3>3. Content' = Payloads(cfg', fed')
      BY <2>1, <3>2 DEF Payloads
    <3>4. fed' \in 0..fed'
      BY <1>2, <2>1
    <3>5. \E k \in 0..fed' : Content' = Payloads(cfg', k)
      BY <3>3, <3>4
    <3> QED
      BY <3>5 DEF ReadInv, Payloads
  <2> QED
    BY <2>2, <2>3
<1> QED
  BY <1>4, <1>5, <1>6, <1>7 DEF Next, Loop

LEMMA AlwaysRead == Spec => [](IInv /\ FlowInv /\ ReadInv)
<1>1. Init => ReadInv
  BY InitRead
<1>2. IInv /\ FlowInv /\ (IInv /\ FlowInv)' /\ ReadInv /\ [Next]_vars => ReadInv'
  BY NextRead
<1> QED
  BY <1>1, <1>2, AlwaysFlow, PTL DEF Spec

-----------------------------------------------------------------------------
(* The layout: what has been written, without the lengths of portions.     *)

NoLength(c) == IF c.kind \in Lengths THEN <<>> ELSE <<c>>

\* What Bare does, cell by cell.
LEMMA BareIs ==
    ASSUME NEW S, NEW s \in Seq(S)
    PROVE  /\ [i \in DOMAIN s |-> NoLength(s[i])] \in Seq(Seq(S))
           /\ Len([i \in DOMAIN s |-> NoLength(s[i])]) = Len(s)
           /\ Bare(s) = FlattenSeq([i \in DOMAIN s |-> NoLength(s[i])])
           /\ Bare(s) \in Seq(S)
<1>1. Len(s) \in Nat /\ DOMAIN s = 1..Len(s)
  BY LenProperties
<1>2. \A x \in S : NoLength(x) \in Seq(S)
  <2>1. \A x \in S : <<>> \in Seq(S) /\ <<x>> \in Seq(S)
    OBVIOUS
  <2> QED
    BY <2>1 DEF NoLength
<1>3. \A i \in 1..Len(s) : NoLength(s[i]) \in Seq(S)
  BY <1>2, ElementOfSeq
<1>4. /\ [i \in DOMAIN s |-> NoLength(s[i])] \in Seq(Seq(S))
      /\ Len([i \in DOMAIN s |-> NoLength(s[i])]) = Len(s)
  BY <1>1, <1>3
<1>5. Bare(s) = FlattenSeq([i \in DOMAIN s |-> NoLength(s[i])])
  BY DEF Bare, NoLength
<1> QED
  BY <1>4, <1>5, FlattenType

\* It goes through a concatenation.
LEMMA BareConcat ==
    ASSUME NEW S, NEW s \in Seq(S), NEW t \in Seq(S)
    PROVE  Bare(s \o t) = Bare(s) \o Bare(t)
<1> DEFINE st == s \o t
           m == Len(s)
           n == Len(t)
           a == [i \in DOMAIN s |-> NoLength(s[i])]
           b == [i \in DOMAIN t |-> NoLength(t[i])]
           c == [i \in DOMAIN st |-> NoLength(st[i])]
           ab == a \o b
<1>1. m \in Nat /\ n \in Nat /\ DOMAIN s = 1..m /\ DOMAIN t = 1..n
  BY LenProperties
<1>2. st \in Seq(S) /\ Len(st) = m + n /\ DOMAIN st = 1..(m + n)
      /\ \A i \in 1..(m + n) : st[i] = IF i <= m THEN s[i] ELSE t[i - m]
  BY ConcatProperties, LenProperties
<1> HIDE DEF st
<1>3. /\ a \in Seq(Seq(S)) /\ Len(a) = m
      /\ b \in Seq(Seq(S)) /\ Len(b) = n
      /\ c \in Seq(Seq(S)) /\ Len(c) = m + n
      /\ Bare(s) = FlattenSeq(a) /\ Bare(t) = FlattenSeq(b) /\ Bare(st) = FlattenSeq(c)
  BY <1>2, BareIs
<1>4. /\ \A i \in 1..m : a[i] = NoLength(s[i])
      /\ \A i \in 1..n : b[i] = NoLength(t[i])
      /\ \A i \in 1..(m + n) : c[i] = NoLength(st[i])
  BY <1>1, <1>2
<1> HIDE DEF a, b, c, m, n
<1>5. ab \in Seq(Seq(S)) /\ Len(ab) = m + n
      /\ \A i \in 1..(m + n) : ab[i] = IF i <= m THEN a[i] ELSE b[i - m]
  <2>1. ab \in Seq(Seq(S)) /\ Len(ab) = Len(a) + Len(b)
        /\ \A i \in 1..(Len(a) + Len(b)) : ab[i] = IF i <= Len(a) THEN a[i] ELSE b[i - Len(a)]
    BY <1>3, ConcatProperties
  <2> HIDE DEF ab
  <2> QED
    BY <1>3, <2>1
<1> HIDE DEF ab
<1>6. ASSUME NEW i \in 1..(m + n) PROVE c[i] = ab[i]
  <2>1. i <= m => i \in 1..m
    BY <1>1
  <2>2. ~(i <= m) => i - m \in 1..n
    BY <1>1
  <2> QED
    BY <1>2, <1>4, <1>5, <2>1, <2>2
<1>7. c = ab
  BY <1>3, <1>5, <1>6, SeqEqual
<1>8. FlattenSeq(ab) = FlattenSeq(a) \o FlattenSeq(b)
  BY <1>3, FlattenConcat DEF ab
<1> QED
  BY <1>3, <1>7, <1>8 DEF st

\* Of no cell, and of one.
LEMMA BareOne ==
    ASSUME NEW S, NEW x \in S
    PROVE  Bare(<<>>) = <<>> /\ Bare(<<x>>) = NoLength(x) /\ <<x>> \in Seq(S) /\ <<>> \in Seq(S)
           /\ NoLength(x) \in Seq(S)
<1>1. <<x>> \in Seq(S) /\ Len(<<x>>) = 1 /\ <<x>>[1] = x /\ <<>> \in Seq(S) /\ Len(<<>>) = 0
  OBVIOUS
<1> DEFINE e == <<>>
           o == <<x>>
           f == [i \in DOMAIN e |-> NoLength(e[i])]
           g == [i \in DOMAIN o |-> NoLength(o[i])]
<1>2. f \in Seq(Seq(S)) /\ Len(f) = 0 /\ Bare(e) = FlattenSeq(f)
  BY <1>1, BareIs
<1>3. g \in Seq(Seq(S)) /\ Len(g) = 1 /\ Bare(o) = FlattenSeq(g) /\ DOMAIN o = 1..1
  BY <1>1, BareIs, LenProperties
<1>4. g[1] = NoLength(x)
  BY <1>1, <1>3
<1> HIDE DEF f, g
<1>5. Bare(e) = <<>>
  BY <1>2, EmptySeq DEF FlattenSeq
<1>6. NoLength(x) \in Seq(S)
  <2>1. g[1] \in Seq(S)
    BY <1>3, ElementOfSeq
  <2> QED
    BY <1>4, <2>1
<1>7. g = <<NoLength(x)>>
  <2> DEFINE y == NoLength(x)
  <2>1. <<y>> \in Seq(Seq(S)) /\ Len(<<y>>) = 1 /\ <<y>>[1] = y
    BY <1>6
  <2>2. \A i \in 1..1 : g[i] = <<y>>[i]
    BY <1>4, <2>1
  <2> HIDE DEF y
  <2>3. g = <<y>>
    BY <1>3, <2>1, <2>2, SeqEqual
  <2> QED
    BY <2>3 DEF y
<1>8. FlattenSeq(<<NoLength(x)>>) = NoLength(x)
  BY <1>6, FlattenSingle
<1> QED
  BY <1>1, <1>3, <1>5, <1>6, <1>7, <1>8

\* Cells of which none is a length.
LEMMA BareNone ==
    ASSUME NEW S, \A x \in S : x.kind \notin Lengths, NEW s \in Seq(S)
    PROVE  Bare(s) = s
<1> DEFINE P == {u \in Seq(S) : Bare(u) = u}
<1>1. <<>> \in P
  <2>1. <<>> \in Seq(S)
    OBVIOUS
  <2> DEFINE e == <<>>
             f == [i \in DOMAIN e |-> NoLength(e[i])]
  <2>2. f \in Seq(Seq(S)) /\ Len(f) = 0 /\ Bare(e) = FlattenSeq(f)
    BY <2>1, BareIs
  <2> HIDE DEF f
  <2>3. Bare(e) = <<>>
    BY <2>2, EmptySeq DEF FlattenSeq
  <2> QED
    BY <2>1, <2>3
<1>2. ASSUME NEW u \in Seq(S), u \in P, NEW x \in S PROVE u \o <<x>> \in P
  <2>1. Bare(<<x>>) = <<x>> /\ <<x>> \in Seq(S)
    <3>1. Bare(<<x>>) = NoLength(x) /\ <<x>> \in Seq(S)
      BY BareOne
    <3> QED
      BY <3>1 DEF NoLength
  <2>2. Bare(u \o <<x>>) = Bare(u) \o Bare(<<x>>) /\ u \o <<x>> \in Seq(S)
    BY <2>1, BareConcat, ConcatProperties
  <2>3. Bare(u) = u
    BY <1>2
  <2> QED
    BY <2>1, <2>2, <2>3
<1> HIDE DEF P
<1>3. Seq(S) \subseteq P
  BY <1>1, <1>2, SeqInduct
<1> QED
  BY <1>3 DEF P

\* A layer goes around what is left as it goes around all.
LEMMA BareWrap ==
    ASSUME NEW d \in Nat, NEW s \in Seq(Within(d))
    PROVE  Bare(Wrap(s)) = Wrap(Bare(s))
<1> DEFINE S == Within(d)
           T == Within(d + 1)
           P == {u \in Seq(S) : Bare(Wrap(u)) = Wrap(Bare(u))}
           Deep(x) == [x EXCEPT !.depth = @ + 1]
<1>1. Wrap(<<>>) = <<>> /\ Bare(<<>>) = <<>> /\ <<>> \in Seq(S)
  <2>1. Wrap(<<>>) \in Seq(T) /\ Len(Wrap(<<>>)) = 0 /\ <<>> \in Seq(S)
    <3>1. <<>> \in Seq(S) /\ Len(<<>>) = 0
      OBVIOUS
    <3> QED
      BY <3>1, WrapIs
  <2>2. Wrap(<<>>) = <<>>
    BY <2>1, EmptySeq
  <2>3. PICK x : x \in {0}
    OBVIOUS
  <2>4. Bare(<<>>) = <<>>
    BY <2>3, BareOne
  <2> QED
    BY <2>1, <2>2, <2>4
<1>2. <<>> \in P
  BY <1>1
<1>3. ASSUME NEW x \in S
      PROVE  /\ Wrap(<<x>>) = <<Deep(x)>> /\ <<x>> \in Seq(S)
             /\ Deep(x) \in T /\ Deep(x).kind = x.kind
  <2>1. Deep(x) \in T /\ Deep(x).kind = x.kind
    BY DEF Within
  <2> DEFINE o == <<x>>
             w == Wrap(o)
             v == <<Deep(x)>>
  <2>2. o \in Seq(S) /\ Len(o) = 1 /\ o[1] = x
    OBVIOUS
  <2>3. DOMAIN o = 1..1
    BY <2>2, LenProperties
  <2>4. v \in Seq(T) /\ Len(v) = 1 /\ v[1] = Deep(x)
    BY <2>1
  <2> HIDE DEF Deep
  <2>5. w[1] = Deep(x)
    BY <2>2, <2>3 DEF Wrap, Deep
  <2>6. w \in Seq(T) /\ Len(w) = 1
    BY <2>2, WrapIs
  <2> HIDE DEF o, w, v
  <2>7. \A i \in 1..1 : w[i] = v[i]
    BY <2>4, <2>5
  <2>8. w = v
    BY <2>4, <2>6, <2>7, SeqEqual
  <2> QED
    BY <2>1, <2>2, <2>8 DEF o, w, v
<1>4. ASSUME NEW u \in Seq(S), u \in P, NEW x \in S PROVE u \o <<x>> \in P
  <2> DEFINE o == <<x>>
  <2>1. o \in Seq(S) /\ Wrap(o) = <<Deep(x)>> /\ Deep(x) \in T /\ Deep(x).kind = x.kind
    BY <1>3
  <2> HIDE DEF Deep
  <2>2. Bare(o) = NoLength(x) /\ Bare(Wrap(o)) = NoLength(Deep(x))
    BY <2>1, BareOne
  <2>3. Bare(Wrap(o)) = Wrap(Bare(o))
    <3>1. CASE x.kind \in Lengths
      <4>1. Bare(o) = <<>> /\ Bare(Wrap(o)) = <<>>
        BY <2>1, <2>2, <3>1 DEF NoLength
      <4> QED
        BY <1>1, <4>1
    <3>2. CASE x.kind \notin Lengths
      <4>1. Bare(o) = o /\ Bare(Wrap(o)) = Wrap(o)
        BY <2>1, <2>2, <3>2 DEF NoLength, o
      <4> QED
        BY <4>1
    <3> QED
      BY <3>1, <3>2
  <2> HIDE DEF o
  <2>4. u \o o \in Seq(S) /\ Wrap(u \o o) = Wrap(u) \o Wrap(o)
        /\ Bare(u \o o) = Bare(u) \o Bare(o)
    BY <2>1, ConcatProperties, WrapConcat, BareConcat
  <2>5. Wrap(u) \in Seq(T) /\ Wrap(o) \in Seq(T) /\ Bare(u) \in Seq(S) /\ Bare(o) \in Seq(S)
    BY <2>1, WrapIs, BareIs
  <2>6. Bare(Wrap(u) \o Wrap(o)) = Bare(Wrap(u)) \o Bare(Wrap(o))
        /\ Wrap(Bare(u) \o Bare(o)) = Wrap(Bare(u)) \o Wrap(Bare(o))
    BY <2>5, BareConcat, WrapConcat
  <2>7. Bare(Wrap(u)) = Wrap(Bare(u))
    BY <1>4
  <2> QED
    BY <2>3, <2>4, <2>6, <2>7 DEF o
<1> HIDE DEF P
<1>5. Seq(S) \subseteq P
  BY <1>2, <1>4, SeqInduct
<1> QED
  BY <1>5 DEF P

\* A layer, of either depth or none.
LEMMA BareLayer ==
    ASSUME NEW t \in WriterTypes, NEW z \in Seq(Keeps(t))
    PROVE  Bare(Layer(t, z)) = Layer(t, Bare(z))
<1>1. 1 \in Nat /\ z \in Seq(Within(1))
  BY PartsAre
<1>2. Bare(Wrap(z)) = Wrap(Bare(z))
  BY <1>1, BareWrap
<1> QED
  BY <1>2 DEF Layer

\* What goes out in portions, without their lengths, is the portions.
LEMMA BareFrames ==
    ASSUME cfg \in Configs, NEW S, Label \in S, NEW s \in Seq(S)
    PROVE  Bare(PartialBlocks(s)) = Bare(SubSeq(s, 1, Portions(s) * Size))
<1> DEFINE n == Portions(s)
           F == Frames(s)
           f(k) == [i \in 1..k |-> F[i]]
           G(k) == FlattenSeq(f(k))
           P(k) == Bare(G(k)) = Bare(SubSeq(s, 1, k * Size))
           N == {k \in Nat : k <= n => P(k)}
<1>1. /\ Size \in Nat \ {0} /\ n \in Nat
      /\ \A i \in 1..n :
            /\ (i - 1) * Size \in 0..(i * Size) /\ i * Size \in 0..Len(s)
            /\ Portion(s, i) = SubSeq(s, (i - 1) * Size + 1, i * Size)
  BY PortionsAre
<1>2. F \in Seq(Seq(S)) /\ Len(F) = n /\ PartialBlocks(s) = FlattenSeq(F)
  BY FramesAre
<1>3. \A i \in 1..n : F[i] = <<Label>> \o Portion(s, i)
  BY DEF Frames
<1> HIDE DEF F, n
<1>4. \A i \in 1..n : F[i] \in Seq(S)
  BY <1>2, ElementOfSeq
<1>5. \A k \in Nat : k <= n => f(k) \in [1..k -> Seq(S)] /\ f(k) \in Seq(Seq(S)) /\ Len(f(k)) = k
  <2>1. ASSUME NEW k \in Nat, k <= n PROVE f(k) \in [1..k -> Seq(S)] /\ f(k) \in Seq(Seq(S)) /\ Len(f(k)) = k
    <3>1. \A i \in 1..k : i \in 1..n
      BY <1>1, <2>1
    <3>2. f(k) \in [1..k -> Seq(S)]
      BY <1>4, <3>1
    <3> HIDE DEF f
    <3> QED
      BY <2>1, <3>2
  <2> QED
    BY <2>1
<1>6. 0 \in N
  <2>1. 0 <= n
    BY <1>1
  <2>2. f(0) \in Seq(Seq(S)) /\ Len(f(0)) = 0
    BY <1>5, <2>1
  <2> HIDE DEF f
  <2>3. f(0) = <<>> /\ Len(<<>>) = 0
    BY <2>2, EmptySeq
  <2>4. G(0) = <<>>
    BY <2>3 DEF FlattenSeq
  <2>5. 0 * Size = 0
    BY <1>1
  <2>6. SubSeq(s, 1, 0) = <<>>
    <3>1. Len(s) \in Nat /\ 0 \in 0..Len(s) /\ 0 \in 0..0 /\ 0 + 1 = 1 /\ 0 - 0 = 0
      BY LenProperties
    <3>2. SubSeq(s, 1, 0) \in Seq(S) /\ Len(SubSeq(s, 1, 0)) = 0
      BY <3>1, PieceIs
    <3> QED
      BY <3>2, EmptySeq
  <2> QED
    BY <2>4, <2>5, <2>6
<1>7. ASSUME NEW k \in Nat, k \in N PROVE k + 1 \in N
  <2>1. SUFFICES ASSUME k + 1 <= n PROVE P(k + 1)
    BY <1>7
  <2> DEFINE j == k + 1
             a == k * Size
             b == j * Size
             p == SubSeq(s, a + 1, b)
             q == SubSeq(s, 1, a)
  <2>2. k <= n /\ j \in 1..n /\ j - 1 = k /\ j \in Nat /\ j <= n
    BY <1>1, <2>1
  <2>3. P(k)
    BY <1>7, <2>2
  <2>4. a \in 0..b /\ b \in 0..Len(s) /\ Portion(s, j) = p
    <3>1. (j - 1) * Size = a
      BY <2>2
    <3> HIDE DEF a, b, j
    <3> QED
      BY <1>1, <2>2, <3>1 DEF b
  <2> HIDE DEF a, b
  <2>5. p \in Seq(S) /\ q \in Seq(S) /\ q \o p = SubSeq(s, 1, b)
    <3>1. Len(s) \in Nat /\ a \in Nat /\ b \in Nat /\ a \in 0..Len(s) /\ 0 \in 0..a /\ 0 + 1 = 1
      BY <2>4, LenProperties
    <3>2. SubSeq(s, 0 + 1, a) \o SubSeq(s, a + 1, b) = SubSeq(s, 0 + 1, b)
      BY <2>4, <3>1, PieceJoin
    <3>3. SubSeq(s, 0 + 1, a) \in Seq(S) /\ SubSeq(s, a + 1, b) \in Seq(S)
      BY <2>4, <3>1, PieceIs
    <3> QED
      BY <3>1, <3>2, <3>3
  <2>6. F[j] = <<Label>> \o p
    BY <1>3, <2>2, <2>4
  <2>7. G(j) = G(k) \o F[j] /\ G(k) \in Seq(S)
    <3>1. f(j) \in [1..(k + 1) -> Seq(S)] /\ f(k) \in Seq(Seq(S))
      BY <1>5, <2>2
    <3>2. f(j)[k + 1] = F[j] /\ [i \in 1..k |-> f(j)[i]] = f(k)
      <4>1. \A i \in 1..k : i \in 1..j
        OBVIOUS
      <4>2. k + 1 \in 1..j
        OBVIOUS
      <4> QED
        BY <4>1, <4>2
    <3> DEFINE g == f(j)
               h == f(k)
    <3> HIDE DEF f, g, h
    <3>3. FlattenSeq(g) = FlattenSeq([i \in 1..k |-> g[i]]) \o g[k + 1]
      BY <3>1, FlattenLast DEF g
    <3>4. FlattenSeq(g) = FlattenSeq(h) \o F[j]
      BY <3>2, <3>3 DEF g, h
    <3>5. FlattenSeq(h) \in Seq(S)
      BY <3>1, FlattenType DEF h
    <3> QED
      BY <3>4, <3>5 DEF g, h
  <2> HIDE DEF G, p, q, j
  <2>8. Bare(<<Label>>) = <<>> /\ <<Label>> \in Seq(S)
    <3>1. Bare(<<Label>>) = NoLength(Label) /\ <<Label>> \in Seq(S)
      BY BareOne
    <3>2. Label.kind \in Lengths
      BY DEF Label, Cell, Lengths
    <3> QED
      BY <3>1, <3>2 DEF NoLength
  <2>9. Bare(F[j]) = Bare(p) /\ F[j] \in Seq(S)
    <3>1. Bare(<<Label>> \o p) = Bare(<<Label>>) \o Bare(p) /\ Bare(p) \in Seq(S)
      BY <2>5, <2>8, BareConcat, BareIs
    <3>2. <<>> \o Bare(p) = Bare(p)
      BY <3>1, ConcatEmptySeq
    <3>3. F[j] \in Seq(S)
      BY <1>4, <2>2
    <3> QED
      BY <2>6, <2>8, <3>1, <3>2, <3>3
  <2>10. Bare(G(j)) = Bare(G(k)) \o Bare(p)
    BY <2>7, <2>9, BareConcat
  <2>11. Bare(q \o p) = Bare(q) \o Bare(p)
    BY <2>5, BareConcat
  <2>12. Bare(G(k)) = Bare(q)
    BY <2>3 DEF q, a
  <2>13. Bare(G(j)) = Bare(SubSeq(s, 1, b))
    BY <2>5, <2>10, <2>11, <2>12
  <2> QED
    BY <2>13 DEF j, b
<1>8. P(n)
  <2> HIDE DEF N, P
  <2>1. Nat \subseteq N
    BY <1>6, <1>7, NatInduct
  <2>2. n \in N /\ n <= n
    BY <1>1, <2>1
  <2> QED
    BY <2>2 DEF N
<1>9. f(n) = F
  <2>1. F \in [1..n -> Seq(S)]
    BY <1>2
  <2> QED
    BY <2>1
<1> QED
  BY <1>2, <1>8, <1>9 DEF n

\* What a writer adds holds no length.
LEMMA BareParts ==
    ASSUME NEW t \in WriterTypes
    PROVE  /\ Start(t) \in Seq(Keeps(t)) /\ Trailer(t) \in Seq(Keeps(t))
           /\ Bare(Start(t)) = Start(t) /\ Bare(Trailer(t)) = Trailer(t)
           /\ Bare(Fields(t)) = Fields(t)
<1> DEFINE S == {c \in CellType : c.kind \notin Lengths}
<1>1. \A k \in {"mode", "name", "algo", "version", "eoz", "prefix", "tag", "sha"} :
         Cell(k, 0) \in S
  BY DEF Cell, CellType, Kinds, Lengths, WriterTypes
<1>2. \A k \in {"prefix", "sha"} : \A n \in Nat : Fill(k, n) \in Seq(S)
  BY <1>1 DEF Fill
<1>3. Fields(t) \in Seq(S)
  <2> HIDE DEF S
  <2>1. <<Cell("mode", 0), Cell("name", 0)>> \in Seq(S)
        /\ <<Cell("algo", 0)>> \in Seq(S) /\ <<Cell("version", 0)>> \in Seq(S)
    BY <1>1
  <2> QED
    BY <2>1 DEF Fields
<1>4. Start(t) \in Seq(S)
  <2>1. Prefix \in Seq(S)
    BY <1>2, WriterAssumption DEF Prefix, WriterAssumption
  <2> HIDE DEF S
  <2>2. <<>> \in Seq(S)
    OBVIOUS
  <2> QED
    BY <2>1, <2>2 DEF Start
<1>5. Trailer(t) \in Seq(S)
  <2>1. MDCLen - 1 \in Nat
    BY WriterAssumption DEF WriterAssumption
  <2>2. Fill("sha", MDCLen - 1) \in Seq(S) /\ <<Cell("tag", 0)>> \in Seq(S)
    <3>1. <<Cell("tag", 0)>> \in Seq(S)
      BY <1>1
    <3> QED
      BY <1>2, <2>1, <3>1
  <2> HIDE DEF S
  <2>3. MDC \in Seq(S)
    BY <2>2, ConcatProperties DEF MDC
  <2>4. <<>> \in Seq(S) /\ <<Cell("eoz", 0)>> \in Seq(S)
    BY <1>1
  <2> QED
    BY <2>3, <2>4 DEF Trailer
<1>6. \A c \in S : c.kind \notin Lengths
  OBVIOUS
<1> HIDE DEF S
<1>7. /\ Bare(Start(t)) = Start(t) /\ Bare(Trailer(t)) = Trailer(t) /\ Bare(Fields(t)) = Fields(t)
  BY <1>3, <1>4, <1>5, <1>6, BareNone
<1>8. Start(t) \in Seq(Keeps(t)) /\ Trailer(t) \in Seq(Keeps(t))
  <2>1. <<>> \in Seq(Keeps(t))
    OBVIOUS
  <2>2. t = "COMP" => <<Cell("eoz", 0)>> \in Seq(Keeps(t))
    <3>1. Cell("eoz", 0) \in Keeps("COMP")
      BY SetsAre
    <3> QED
      BY <3>1
  <2>3. t = "SEIPD" => Prefix \in Seq(Keeps(t)) /\ MDC \in Seq(Keeps(t))
    BY SetsAre
  <2> QED
    BY <2>1, <2>2, <2>3 DEF Start, Trailer, WriterTypes
<1> QED
  BY <1>7, <1>8

\* A whole packet, without lengths, is its header and its body.
LEMMA BareClosed ==
    ASSUME cfg \in Configs, NEW t \in WriterTypes, NEW body \in Seq(Emits(t)),
           NEW went, Closed(t, body, went)
    PROVE  Bare(went) = <<Cell(t, 0)>> \o Bare(body)
<1> DEFINE E == Emits(t)
           h == <<Cell(t, 0)>>
           p == PartialBlocks(body)
           u == Unfinished(body)
           l == LastPortion(u)
           v == SubSeq(body, 1, Portions(body) * Size)
<1>1. h \in Seq(E) /\ p \in Seq(E) /\ u \in Seq(E) /\ l \in Seq(E) /\ Label \in E
      /\ Cell(t, 0) \in E /\ \A k \in Nat : Cell("last", k) \in E
  BY FramedType, LabelIn, SetsAre
<1>2. went = (h \o p) \o l
  BY DEF Closed
<1>3. Portions(body) * Size \in 0..Len(body)
      /\ u = SubSeq(body, Portions(body) * Size + 1, Len(body))
  BY <1>1, PortionsAre, FramesAre
<1>4. v \o u = body
  BY <1>3, PieceBoth
<1>5. v \in Seq(E)
  <2> DEFINE m == Portions(body) * Size
  <2>1. m \in 0..Len(body) /\ 0 \in 0..m /\ 0 + 1 = 1
    BY <1>3
  <2> HIDE DEF m, E
  <2>2. SubSeq(body, 0 + 1, m) \in Seq(E)
    BY <2>1, PieceIs DEF E
  <2> QED
    BY <2>1, <2>2 DEF m
<1>6. Bare(p) = Bare(v)
  BY <1>1, BareFrames
<1>7. Bare(h) = h
  <2>1. Bare(<<Cell(t, 0)>>) = NoLength(Cell(t, 0))
    BY <1>1, BareOne
  <2>2. Cell(t, 0).kind \notin Lengths
    BY DEF Cell, Lengths, WriterTypes
  <2> QED
    BY <2>1, <2>2 DEF NoLength
<1>8. Bare(l) = Bare(u)
  <2> HIDE DEF E, u
  <2>1. CASE u = <<>>
    BY <2>1 DEF LastPortion
  <2>2. CASE u # <<>>
    <3> DEFINE c == Cell("last", Len(u))
    <3>1. c \in E /\ c.kind \in Lengths
      <4>1. Len(u) \in Nat
        BY <1>1, LenProperties
      <4> QED
        BY <1>1, <4>1 DEF Cell, Lengths
    <3>2. l = <<c>> \o u
      BY <2>2 DEF LastPortion
    <3> HIDE DEF c, l
    <3>3. Bare(<<c>>) = NoLength(c) /\ <<c>> \in Seq(E)
      BY <3>1, BareOne
    <3>4. Bare(<<c>> \o u) = Bare(<<c>>) \o Bare(u) /\ Bare(u) \in Seq(E)
      BY <1>1, <3>3, BareConcat, BareIs
    <3>5. NoLength(c) = <<>> /\ <<>> \o Bare(u) = Bare(u)
      BY <3>1, <3>4, ConcatEmptySeq DEF NoLength
    <3> QED
      BY <3>2, <3>3, <3>4, <3>5
  <2> QED
    BY <2>1, <2>2
<1> HIDE DEF E, h, p, u, l, v
<1>9. h \in Seq(E) /\ p \in Seq(E) /\ u \in Seq(E) /\ l \in Seq(E)
  BY <1>1
<1>10. h \o p \in Seq(E) /\ Bare(h \o p) = h \o Bare(v)
  <2>1. Bare(h \o p) = Bare(h) \o Bare(p)
    BY <1>9, BareConcat
  <2> QED
    BY <1>6, <1>7, <1>9, <2>1, ConcatProperties
<1>11. Bare(went) = (h \o Bare(v)) \o Bare(u)
  <2>1. Bare((h \o p) \o l) = Bare(h \o p) \o Bare(l)
    BY <1>9, <1>10, BareConcat
  <2> QED
    BY <1>2, <1>8, <1>10, <2>1
<1>12. Bare(body) = Bare(v) \o Bare(u) /\ Bare(v) \in Seq(E) /\ Bare(u) \in Seq(E)
  BY <1>4, <1>5, <1>9, BareConcat, BareIs
<1>13. (h \o Bare(v)) \o Bare(u) = h \o (Bare(v) \o Bare(u))
  <2> DEFINE e == Bare(v)
             f == Bare(u)
  <2>1. h \in Seq(E) /\ e \in Seq(E) /\ f \in Seq(E)
    BY <1>9, <1>12
  <2> HIDE DEF e, f
  <2>2. (h \o e) \o f = h \o (e \o f)
    BY <2>1, Joined, SMTT(30)
  <2> QED
    BY <2>2 DEF e, f
<1> QED
  BY <1>11, <1>12, <1>13 DEF h

\* The packet of a writer that has finished.
LEMMA BarePacket ==
    ASSUME cfg \in Configs, NEW t \in WriterTypes, NEW w, WriterOK(t, w), NEW came, NEW went,
           Wrote(t, w, came, went, TRUE)
    PROVE  /\ came \in Seq(Takes(t)) /\ Bare(came) \in Seq(Takes(t))
           /\ Bare(went) = <<Cell(t, 0)>> \o (Fields(t) \o Layer(t, (Start(t) \o Bare(came)) \o Trailer(t)))
<1>1. PICK z : Ended(t, w, came, z) /\ Closed(t, BodyOf(t, w, z), went)
  BY DEF Wrote
<1> DEFINE s == Start(t)
           r == Trailer(t)
           f == Fields(t)
           l == Layer(t, z)
           K == Keeps(t)
<1>2. /\ z \in Seq(K) /\ came \in Seq(Takes(t)) /\ z = (s \o came) \o r /\ BodyOf(t, w, z) = f \o l
  BY <1>1 DEF Ended, BodyOf
<1>3. l \in Seq(Emits(t)) /\ f \in Seq(Emits(t)) /\ came \in Seq(K) /\ Takes(t) \subseteq K
  BY <1>2, LayerIs, SetsAre, SeqMonotonic
<1>4. s \in Seq(K) /\ r \in Seq(K) /\ Bare(s) = s /\ Bare(r) = r
  BY BareParts
<1>5. Bare(f) = f
  BY BareParts
<1> HIDE DEF s, r, f, K
<1>6. Bare(came) \in Seq(Takes(t)) /\ Bare(came) \in Seq(K)
  BY <1>2, <1>3, BareIs, SeqMonotonic
<1>7. Bare(z) = (s \o Bare(came)) \o r
  <2>1. s \o came \in Seq(K) /\ Bare(s \o came) = s \o Bare(came)
    BY <1>3, <1>4, BareConcat, ConcatProperties
  <2>2. Bare((s \o came) \o r) = Bare(s \o came) \o Bare(r)
    BY <1>4, <2>1, BareConcat
  <2> QED
    BY <1>2, <1>4, <2>1, <2>2
<1>8. Bare(l) = Layer(t, Bare(z))
  BY <1>2, BareLayer DEF K
<1> HIDE DEF l
<1>9. Bare(f \o l) = f \o Bare(l) /\ f \o l \in Seq(Emits(t))
  BY <1>3, <1>5, BareConcat, ConcatProperties
<1>10. Bare(went) = <<Cell(t, 0)>> \o Bare(f \o l)
  BY <1>1, <1>2, <1>9, BareClosed
<1> QED
  BY <1>2, <1>6, <1>7, <1>8, <1>9, <1>10 DEF s, r, f

\* Two cells in a row.
LEMMA PairIs ==
    ASSUME NEW S, NEW x \in S, NEW y \in S
    PROVE  <<x, y>> = <<x>> \o <<y>> /\ <<x>> \in Seq(S) /\ <<y>> \in Seq(S)
<1> DEFINE a == <<x>>
           b == <<y>>
           d == <<x, y>>
           ab == a \o b
<1>1. /\ a \in Seq(S) /\ Len(a) = 1 /\ a[1] = x /\ b \in Seq(S) /\ Len(b) = 1 /\ b[1] = y
      /\ d \in Seq(S) /\ Len(d) = 2 /\ d[1] = x /\ d[2] = y
  OBVIOUS
<1> HIDE DEF a, b, d
<1>2. /\ ab \in Seq(S) /\ Len(ab) = Len(a) + Len(b)
      /\ \A i \in 1..(Len(a) + Len(b)) : ab[i] = IF i <= Len(a) THEN a[i] ELSE b[i - Len(a)]
  BY <1>1, ConcatProperties
<1> HIDE DEF ab
<1>3. ab \in Seq(S) /\ Len(ab) = 2 /\ ab[1] = x /\ ab[2] = y
  BY <1>1, <1>2
<1>4. \A i \in 1..2 : ab[i] = d[i]
  BY <1>1, <1>3
<1>5. ab = d
  BY <1>1, <1>3, <1>4, SeqEqual
<1> QED
  BY <1>1, <1>5 DEF a, b, d, ab

\* And three.
LEMMA TripleIs ==
    ASSUME NEW S, NEW x \in S, NEW y \in S, NEW z \in S
    PROVE  <<x, y, z>> = <<x>> \o <<y, z>> /\ <<x>> \in Seq(S) /\ <<y, z>> \in Seq(S)
<1> DEFINE a == <<x>>
           b == <<y, z>>
           d == <<x, y, z>>
           ab == a \o b
<1>1. /\ a \in Seq(S) /\ Len(a) = 1 /\ a[1] = x
      /\ b \in Seq(S) /\ Len(b) = 2 /\ b[1] = y /\ b[2] = z
      /\ d \in Seq(S) /\ Len(d) = 3 /\ d[1] = x /\ d[2] = y /\ d[3] = z
  OBVIOUS
<1> HIDE DEF a, b, d
<1>2. /\ ab \in Seq(S) /\ Len(ab) = Len(a) + Len(b)
      /\ \A i \in 1..(Len(a) + Len(b)) : ab[i] = IF i <= Len(a) THEN a[i] ELSE b[i - Len(a)]
  BY <1>1, ConcatProperties
<1> HIDE DEF ab
<1>3. ab \in Seq(S) /\ Len(ab) = 3 /\ ab[1] = x /\ ab[2] = y /\ ab[3] = z
  BY <1>1, <1>2
<1>4. \A i \in 1..3 : ab[i] = d[i]
  BY <1>1, <1>3
<1>5. ab = d
  BY <1>1, <1>3, <1>4, SeqEqual
<1> QED
  BY <1>1, <1>5 DEF a, b, d, ab

\* The layouts, packet by packet.
LEMMA LayoutIs ==
    ASSUME NEW n \in Nat
    PROVE  /\ Layout!Esk = SessionKey
           /\ Layout!Lit(n) = <<Cell("LIT", 0)>> \o (Fields("LIT") \o Payloads(cfg, n))
<1>1. \A k, v : Layout!PacketCell(0, k, v) = Cell(k, v)
  BY DEF Layout!PacketCell, Cell
<1>2. \A k, m : Layout!Run(0, k, m) = Fill(k, m)
  BY <1>1 DEF Layout!Run, Fill
<1>3. Layout!Esk = SessionKey
  BY <1>1, <1>2 DEF Layout!Esk, SessionKey
<1> DEFINE l == Cell("LIT", 0)
           m == Cell("mode", 0)
           a == Cell("name", 0)
           d == Payloads(cfg, n)
           S == AnyCell
<1>4. l \in S /\ m \in S /\ a \in S
  BY CellIs, KindsAre, WithinGrows, CellsAre
<1>5. d \in Seq(S)
  BY PayloadsAre, CellsAre
<1>6. [i \in 1..n |-> Layout!PacketCell(0, "data", i)] = d
  BY <1>1 DEF Payloads
<1>7. Layout!Lit(n) = <<l, m, a>> \o d
  BY <1>1, <1>6 DEF Layout!Lit
<1> HIDE DEF l, m, a, d, S
<1>8. <<l, m, a>> \o d = <<l>> \o (<<m, a>> \o d)
  <2>1. <<l>> \in Seq(S) /\ <<m, a>> \in Seq(S)
    BY <1>4, TripleIs
  <2>2. <<l, m, a>> = <<l>> \o <<m, a>>
    BY <1>4, TripleIs
  <2> QED
    BY <1>5, <2>1, <2>2, Joined
<1>9. Fields("LIT") = <<m, a>>
  BY DEF Fields, m, a
<1> QED
  BY <1>3, <1>7, <1>8, <1>9 DEF l, d

\* What lies inside a packet there is what a layer goes around here.
LEMMA NestedIs ==
    ASSUME NEW s
    PROVE  Layout!Nested(s) = Wrap(s)
  BY DEF Layout!Nested, Layout!Deeper, Wrap

\* A compressed packet around what the literal one has given.
LEMMA LayoutComp ==
    ASSUME NEW x \in Seq(Takes("COMP"))
    PROVE  Layout!Comp(x) = <<Cell("COMP", 0)>>
              \o (Fields("COMP") \o Layer("COMP", (Start("COMP") \o x) \o Trailer("COMP")))
<1> DEFINE h == Cell("COMP", 0)
           a == Cell("algo", 0)
           z == Cell("eoz", 0)
           S == AnyCell
<1>1. \A k, v : Layout!PacketCell(0, k, v) = Cell(k, v)
  BY DEF Layout!PacketCell, Cell
<1>2. h \in S /\ a \in S /\ z \in S
  BY CellIs, KindsAre, WithinGrows, CellsAre
<1>3. "COMP" \in WriterTypes
  BY DEF WriterTypes
<1>4. x \in Seq(S) /\ x \in Seq(Keeps("COMP")) /\ z \in Keeps("COMP")
  BY <1>3, PartsAre, SetsAre, SeqMonotonic
<1>5. Fields("COMP") = <<a>> /\ Start("COMP") = <<>> /\ Trailer("COMP") = <<z>>
  BY DEF Fields, Start, Trailer
<1>6. Layout!Comp(x) = <<h, a>> \o Wrap(Append(x, z))
  BY <1>1, NestedIs DEF Layout!Comp
<1> HIDE DEF h, a, z, S
<1>7. Append(x, z) = (<<>> \o x) \o <<z>>
  BY <1>2, <1>4, AppendIsConcat, ConcatEmptySeq
<1> DEFINE y == (<<>> \o x) \o <<z>>
<1>8. y \in Seq(Keeps("COMP"))
  <2>1. <<z>> \in Seq(Keeps("COMP")) /\ <<>> \o x = x
    BY <1>4, ConcatEmptySeq
  <2> QED
    BY <1>4, <2>1, ConcatProperties
<1> HIDE DEF y
<1>9. Layer("COMP", y) = Wrap(y) /\ Layer("COMP", y) \in Seq(Emits("COMP"))
  <2>1. Layer("COMP", y) = Wrap(y)
    BY DEF Layer
  <2>2. Layer("COMP", y) \in Seq(Emits("COMP"))
    BY <1>3, <1>8, LayerIs
  <2> QED
    BY <2>1, <2>2
<1> DEFINE w == Wrap(y)
<1>10. w \in Seq(S)
  BY <1>3, <1>9, PartsAre, SeqMonotonic DEF S
<1> HIDE DEF w, y
<1>11. <<h, a>> \o w = <<h>> \o (<<a>> \o w)
  <2>1. <<h>> \in Seq(S) /\ <<a>> \in Seq(S)
    BY <1>2
  <2>2. <<h, a>> = <<h>> \o <<a>>
    BY <1>2, PairIs
  <2> QED
    BY <1>10, <2>1, <2>2, Joined
<1> QED
  BY <1>5, <1>6, <1>7, <1>9, <1>11 DEF w, y, h

\* And the same for the encrypted packet.
LEMMA LayoutSeipd ==
    ASSUME NEW x \in Seq(Takes("SEIPD"))
    PROVE  Layout!Seipd(x, 0) = <<Cell("SEIPD", 0)>>
              \o (Fields("SEIPD") \o Layer("SEIPD", (Start("SEIPD") \o x) \o Trailer("SEIPD")))
<1> DEFINE h == Cell("SEIPD", 0)
           a == Cell("version", 0)
           g == <<Cell("tag", 0)>>
           d == Fill("sha", MDCLen - 1)
           p == Prefix
           S == AnyCell
           K == Keeps("SEIPD")
<1>1. /\ \A k, v : Layout!PacketCell(0, k, v) = Cell(k, v)
      /\ \A k, n : Layout!Run(0, k, n) = Fill(k, n)
  BY DEF Layout!PacketCell, Layout!Run, Cell, Fill
<1>2. h \in S /\ a \in S
  BY CellIs, KindsAre, WithinGrows, CellsAre
<1>3. "SEIPD" \in WriterTypes
  BY DEF WriterTypes
<1>4. x \in Seq(K) /\ p \in Seq(K)
  BY <1>3, SetsAre, SeqMonotonic
<1>5. g \in Seq(K) /\ d \in Seq(K) /\ MDC = g \o d
  <2>1. K = Within(1)
    BY DEF Keeps
  <2>2. MDCLen - 1 \in Nat
    BY WriterAssumption DEF WriterAssumption
  <2>3. d \in Seq(Within(1))
    BY <2>2, FillIs, KindsAre
  <2>4. g \in Seq(Within(1))
    BY CellIs, KindsAre
  <2> QED
    BY <2>1, <2>3, <2>4 DEF MDC
<1>6. Fields("SEIPD") = <<a>> /\ Start("SEIPD") = p /\ Trailer("SEIPD") = g \o d
  BY <1>5 DEF Fields, Start, Trailer
<1>7. Layout!Seipd(x, 0) = <<h, a>> \o Wrap(((p \o x) \o g) \o d)
  <2>1. [i \in 1..(MDCLen - 1) |-> Layout!PacketCell(0, "sha", 0)] = d
    BY <1>1 DEF Fill
  <2>2. Layout!Run(0, "prefix", PrefixLen) = p
    BY <1>1 DEF Prefix
  <2> HIDE DEF d, p
  <2>3. Layout!Seipd(x, 0) = <<h, a>> \o Layout!Nested(((p \o x) \o g) \o d)
    BY <1>1, <2>1, <2>2 DEF Layout!Seipd
  <2> QED
    BY <2>3, NestedIs
<1> HIDE DEF h, a, g, d, p, S, K
<1>8. ((p \o x) \o g) \o d = (p \o x) \o (g \o d) /\ (p \o x) \o (g \o d) \in Seq(K)
  <2>1. p \o x \in Seq(K)
    BY <1>4, ConcatProperties
  <2>2. g \in Seq(K) /\ d \in Seq(K) /\ p \o x \in Seq(K)
    BY <1>5, <2>1
  <2> DEFINE f == p \o x
  <2> HIDE DEF f
  <2>3. (f \o g) \o d = f \o (g \o d) /\ f \o (g \o d) \in Seq(K)
    BY <2>2, Joined, SMTT(30) DEF f
  <2> QED
    BY <2>3 DEF f
<1> DEFINE y == (p \o x) \o (g \o d)
           w == Wrap(y)
<1>9. Layer("SEIPD", y) = w /\ w \in Seq(S)
  <2>1. y \in Seq(Keeps("SEIPD"))
    BY <1>8 DEF K
  <2>2. Layer("SEIPD", y) = w
    BY DEF Layer
  <2>3. Layer("SEIPD", y) \in Seq(Emits("SEIPD"))
    BY <1>3, <2>1, LayerIs
  <2> QED
    BY <1>3, <2>2, <2>3, PartsAre, SeqMonotonic DEF S
<1> HIDE DEF y, w
<1>10. <<h, a>> \o w = <<h>> \o (<<a>> \o w)
  <2>1. <<h>> \in Seq(S) /\ <<a>> \in Seq(S)
    BY <1>2
  <2>2. <<h, a>> = <<h>> \o <<a>>
    BY <1>2, PairIs
  <2> QED
    BY <1>9, <2>1, <2>2, Joined
<1> QED
  BY <1>6, <1>7, <1>8, <1>9, <1>10 DEF w, y, h

\* What has been written when all is written, packet by packet.
LEMMA FinalPackets ==
    ASSUME IInv, FlowInv, pc = "finished", NEW c, FlowIs(c)
    PROVE  /\ c[1] = Payloads(cfg, cfg.size) /\ Stream = SessionKey \o c[Len(Chain) + 1]
           /\ c[Len(Chain) + 1] \in Seq(CellType)
           /\ \A i \in 1..Len(Chain) :
                 Wrote(Chain[i], writers[Chain[i]], c[i], c[i + 1], TRUE)
<1> DEFINE N == Len(Chain)
           g == Gone(c)
<1>2. /\ c \in [1..(N + 1) -> Seq(CellType)] /\ cfg \in Configs /\ N \in {2, 3}
      /\ Given \in Cells /\ g \in Seq(CellType) /\ g = c[N + 1] /\ Given = KeyOut \o g
  BY GivenIs, ChainOrder DEF IInv, TypeOK, FlowIs, Gone
<1>5. buf = <<>> /\ finish = TRUE /\ next = N /\ ~esk /\ fed = cfg.size
  BY DEF FlowInv, IInv, TypeOK
<1>6. \A i \in 1..(N + 1) : c[i] \o <<>> = c[i]
  BY <1>2, ConcatEmptySeq
<1> HIDE DEF N, g
<1>7. (\A i : Pend(i) = <<>>) /\ \A i \in 1..N : Done(i) = TRUE
  <2>1. \A i \in 1..N : i <= next
    BY <1>2, <1>5
  <2> QED
    BY <1>5, <2>1 DEF Pend, Done
<1>8. c[1] = Payloads(cfg, cfg.size)
  <2>1. c[1] \o <<>> = Payloads(cfg, fed)
    BY <1>7 DEF FlowIs
  <2>2. 1 \in 1..(N + 1)
    BY <1>2
  <2> QED
    BY <1>5, <1>6, <2>1, <2>2
<1>9. ASSUME NEW i \in 1..N
      PROVE  Wrote(Chain[i], writers[Chain[i]], c[i], c[i + 1], TRUE)
  <2>1. i + 1 \in 1..(N + 1)
    BY <1>2
  <2>2. Wrote(Chain[i], writers[Chain[i]], c[i], c[i + 1] \o Pend(i), Done(i))
    BY DEF FlowIs, N
  <2>3. c[i + 1] \o Pend(i) = c[i + 1] /\ Done(i) = TRUE
    BY <1>6, <1>7, <2>1
  <2> QED
    BY <2>2, <2>3
<1>10. Stream = SessionKey \o g
  BY <1>2, <1>5, StreamIs DEF KeyOut
<1> QED
  BY <1>2, <1>8, <1>9, <1>10 DEF N, g

\* From the payload outwards every packet is the one of the layout.
LEMMA FinalLayout == IInv /\ FlowInv => WritesLayout
<1> SUFFICES ASSUME IInv, FlowInv, pc = "finished"
             PROVE  Bare(Stream) = Layout!Esk
                      \o Layout!Seipd(IF cfg.compressed THEN Layout!Comp(Layout!Lit(cfg.size))
                                      ELSE Layout!Lit(cfg.size), 0)
  BY DEF WritesLayout
<1>1. PICK c : FlowIs(c)
  BY DEF FlowInv
<1> DEFINE N == Len(Chain)
           d == Payloads(cfg, cfg.size)
           B(i) == Bare(c[i])
<1>2. /\ c[1] = d /\ Stream = SessionKey \o c[N + 1] /\ c[N + 1] \in Seq(CellType)
      /\ \A i \in 1..N : Wrote(Chain[i], writers[Chain[i]], c[i], c[i + 1], TRUE)
  BY <1>1, FinalPackets
<1>3. cfg \in Configs /\ cfg.size \in Nat /\ \A t \in WriterTypes : WriterOK(t, writers[t])
  BY ConfigIs DEF IInv, DepthInv, TypeOK
<1>4. /\ N \in {2, 3} /\ Chain[1] = "LIT" /\ Chain[N] = "SEIPD"
      /\ (N = 3 => Chain[2] = "COMP") /\ (N = 3 <=> cfg.compressed)
      /\ "LIT" \in WriterTypes /\ "COMP" \in WriterTypes /\ "SEIPD" \in WriterTypes
  BY ChainOrder DEF WriterTypes
<1> HIDE DEF N, d
<1>5. ASSUME NEW i \in 1..N, NEW t \in WriterTypes, Chain[i] = t
      PROVE  /\ B(i) \in Seq(Takes(t))
             /\ B(i + 1) = <<Cell(t, 0)>> \o (Fields(t) \o Layer(t, (Start(t) \o B(i)) \o Trailer(t)))
  <2> DEFINE w == writers[t]
             x == c[i]
             y == c[i + 1]
  <2>1. Wrote(t, w, x, y, TRUE) /\ WriterOK(t, w)
    BY <1>2, <1>3, <1>5
  <2> HIDE DEF w, x, y
  <2>2. /\ Bare(x) \in Seq(Takes(t))
        /\ Bare(y) = <<Cell(t, 0)>> \o (Fields(t) \o Layer(t, (Start(t) \o Bare(x)) \o Trailer(t)))
    BY <1>3, <2>1, BarePacket
  <2> QED
    BY <2>2 DEF x, y
<1>6. B(1) = d
  <2>1. d \in Seq(Emits("LIT"))
    BY <1>3, PayloadType DEF d
  <2> DEFINE S == {Cell("data", i) : i \in 1..cfg.size}
  <2>2. d \in Seq(S)
    BY <1>3 DEF d, Payloads
  <2>3. \A e \in S : e.kind \notin Lengths
    BY DEF Cell, Lengths
  <2> HIDE DEF S
  <2>4. Bare(d) = d
    BY <2>2, <2>3, BareNone
  <2> QED
    BY <1>2, <2>4
<1>7. B(2) = Layout!Lit(cfg.size)
  <2>1. 1 \in 1..N /\ 1 + 1 = 2
    BY <1>4
  <2>2. /\ d \in Seq(Takes("LIT"))
        /\ B(2) = <<Cell("LIT", 0)>>
                   \o (Fields("LIT") \o Layer("LIT", (Start("LIT") \o d) \o Trailer("LIT")))
    BY <1>4, <1>5, <1>6, <2>1
  <2>3. Layer("LIT", (Start("LIT") \o d) \o Trailer("LIT")) = d
    <3>1. (<<>> \o d) \o <<>> = d
      BY <2>2, ConcatEmptySeq
    <3> QED
      BY <3>1 DEF Layer, Start, Trailer
  <2> QED
    BY <1>3, <2>2, <2>3, LayoutIs DEF d
<1>8. B(N) = (IF cfg.compressed THEN Layout!Comp(Layout!Lit(cfg.size)) ELSE Layout!Lit(cfg.size))
  <2>1. CASE N = 2
    BY <1>4, <1>7, <2>1
  <2>2. CASE N = 3
    <3>1. 2 \in 1..N /\ 2 + 1 = 3
      BY <2>2
    <3>2. /\ B(2) \in Seq(Takes("COMP"))
          /\ B(3) = <<Cell("COMP", 0)>>
                \o (Fields("COMP") \o Layer("COMP", (Start("COMP") \o B(2)) \o Trailer("COMP")))
      BY <1>4, <1>5, <2>2, <3>1
    <3>3. B(3) = Layout!Comp(B(2))
      BY <3>2, LayoutComp
    <3> QED
      BY <1>4, <1>7, <2>2, <3>3
  <2> QED
    BY <1>4, <2>1, <2>2
<1>9. B(N + 1) = Layout!Seipd(B(N), 0)
  <2>1. N \in 1..N
    BY <1>4
  <2>2. /\ B(N) \in Seq(Takes("SEIPD"))
        /\ B(N + 1) = <<Cell("SEIPD", 0)>>
              \o (Fields("SEIPD") \o Layer("SEIPD", (Start("SEIPD") \o B(N)) \o Trailer("SEIPD")))
    BY <1>4, <1>5, <2>1
  <2> QED
    BY <2>2, LayoutSeipd
<1>10. Bare(Stream) = SessionKey \o B(N + 1)
  <2>1. Bare(SessionKey) = SessionKey
    <3> DEFINE S == {e \in CellType : e.kind \notin Lengths}
    <3>1. <<Cell("ESK", 0)>> \in Seq(S)
      BY DEF Cell, CellType, Kinds, Lengths, WriterTypes
    <3>2. Fill("esk", ESKLen) \in Seq(S)
      BY WriterAssumption DEF Fill, Cell, CellType, Kinds, Lengths, WriterTypes, WriterAssumption
    <3>3. \A e \in S : e.kind \notin Lengths
      OBVIOUS
    <3> HIDE DEF S
    <3>4. SessionKey \in Seq(S)
      BY <3>1, <3>2, ConcatProperties DEF SessionKey
    <3> QED
      BY <3>3, <3>4, BareNone
  <2> DEFINE k == SessionKey
             g == c[N + 1]
  <2>2. k \in Seq(CellType) /\ g \in Seq(CellType)
    BY <1>2, KeyType
  <2> HIDE DEF k, g
  <2>3. Bare(k \o g) = Bare(k) \o Bare(g)
    BY <2>2, BareConcat
  <2> QED
    BY <1>2, <2>1, <2>3 DEF k, g
<1>11. Layout!Esk = SessionKey
  BY <1>3, LayoutIs
<1> QED
  BY <1>8, <1>9, <1>10, <1>11

-----------------------------------------------------------------------------
(* Theorems.                                                               *)

\* What the hash of the MDC packet saw when the writer has finished is what a
\* reader finds in front of the digest, the tag included: for every payload
\* size, every portion size and cipher step, every prefix and digest length and
\* all ways to hand the payload over.
THEOREM DigestRight == Spec => []DigestCovers
<1>1. IInv /\ FlowInv => DigestCovers
  BY FinalContent DEF DigestCovers
<1> QED
  BY <1>1, AlwaysFlow, PTL

\* Without the lengths of its portions the finished message is the layout that
\* MessageReader is checked on, every header, field and trailer once and at its
\* place: for every payload, portion size and cipher step, compressed or not,
\* armored or not, and all ways to hand the payload over.
THEOREM LayoutWritten == Spec => []WritesLayout
<1>1. IInv /\ FlowInv => WritesLayout
  BY FinalLayout
<1> QED
  BY <1>1, AlwaysFlow, PTL

\* Between calls the writers keep back less than a portion per packet, a cipher
\* step and a block of armor, besides what the compressor keeps, however the
\* payload was handed over.
THEOREM Streams == Spec => []HoldsBackLittle
<1>1. IInv /\ FlowInv => HoldsBackLittle
  <2> SUFFICES ASSUME IInv, FlowInv, pc = "idle"
               PROVE  fed - Len(Content) <= Len(Chain) * (2 ^ cfg.power - 1) + (Gran - 1)
                              + Len(writers["COMP"].held)
                              + (IF cfg.armor THEN BlockLen - 1 ELSE 0)
    BY DEF HoldsBackLittle
  <2> DEFINE a == IF cfg.armor THEN BlockLen - 1 ELSE 0
             h == Len(writers["COMP"].held)
             n == 2 ^ cfg.power - 1
             g == Gran - 1
             l == Len(Content)
             N == Len(Chain)
  <2>1. fed - l <= AllLag + a
    BY IdleContent
  <2>2. /\ a \in Nat /\ g \in Nat /\ l \in Nat /\ fed \in Nat
        /\ cfg \in Configs /\ Size - 1 = n
    BY ArmorAssumption, WriterAssumption, IdleContent, CellsAre, ConfigIs
       DEF ArmorAssumption, WriterAssumption, IInv, TypeOK, Size
  <2>3. h \in Nat /\ n \in Nat
    <3>1. "COMP" \in WriterTypes
      BY DEF WriterTypes
    <3>2. WriterOK("COMP", writers["COMP"])
      BY <3>1 DEF IInv, DepthInv
    <3> QED
      BY <2>2, <3>1, <3>2, LagIs
  <2>4. /\ Lag("SEIPD", writers["SEIPD"]) = n + g
        /\ Lag("COMP", writers["COMP"]) = n + h
        /\ Lag("LIT", writers["LIT"]) = n + 0
    BY <2>2 DEF Lag
  <2>5. /\ cfg.compressed => N = 3
        /\ ~cfg.compressed => N = 2
    BY DEF Chain
  <2>6. AllLag = IF cfg.compressed THEN ((0 + (n + g)) + (n + h)) + (n + 0)
                 ELSE (0 + (n + g)) + (n + 0)
    BY <2>4 DEF AllLag
  <2> HIDE DEF a, h, n, g, l, N
  <2>7. AllLag <= N * n + g + h
    <3>1. CASE cfg.compressed
      <4>1. AllLag = ((0 + (n + g)) + (n + h)) + (n + 0) /\ N = 3
        BY <2>5, <2>6, <3>1
      <4>2. AllLag = 3 * n + g + h
        BY <2>2, <2>3, <4>1
      <4> QED
        BY <2>2, <2>3, <4>1, <4>2
    <3>2. CASE ~cfg.compressed
      <4>1. AllLag = (0 + (n + g)) + (n + 0) /\ N = 2
        BY <2>5, <2>6, <3>2
      <4>2. AllLag = 2 * n + g
        BY <2>2, <2>3, <4>1
      <4> QED
        BY <2>2, <2>3, <4>1, <4>2
    <3> QED
      BY <3>1, <3>2
  <2> DEFINE m == N * n
  <2>8. m \in Nat
    <3>1. m = 3 * n \/ m = 2 * n
      BY <2>5
    <3> QED
      BY <2>3, <3>1
  <2>9. AllLag \in Nat
    BY IdleReads
  <2> HIDE DEF m
  <2>10. AllLag <= m + g + h
    BY <2>7 DEF m
  <2>11. fed - l <= m + g + h + a
    BY <2>1, <2>2, <2>3, <2>8, <2>9, <2>10
  <2> QED
    BY <2>11 DEF m, N, n, g, h, a, l
<1> QED
  BY <1>1, AlwaysFlow, PTL

\* The IsPrefix of StreamDecoder is the one used here.
LEMMA PrefixThrough ==
    ASSUME NEW s \in Cells, NEW t \in Cells, Starts(s, t)
    PROVE  Through!IsPrefix(s, t)
<1>1. IsPrefix(s, t)
  BY StartsIs, CellsAre
<1> QED
  BY <1>1 DEF IsPrefix, Through!IsPrefix

\* Every step of Update is a step of the decoder that StreamDecoder describes,
\* or none.
LEMMA ThroughStep ==
    ASSUME IInv, FlowInv, ReadInv, [Next]_vars, IInv', FlowInv', ReadInv'
    PROVE  [Through!Next]_(Through!decoder)
<1>1. fed \in Nat /\ cfg.size \in Nat /\ pc \in {"idle", "running", "finished"}
  BY ConfigIs DEF IInv, TypeOK
<1>2. CASE Update
  <2>1. /\ pc = "idle" /\ pc' = "running" /\ cfg' = cfg /\ output' = output
    BY <1>2 DEF Update
  <2>2. PICK m \in 0..ChunkMax : fed + m <= cfg.size /\ fed' = fed + m
    BY <1>2 DEF Update
  <2>3. m \in Nat
    BY <2>2, WriterAssumption DEF WriterAssumption
  <2>4. fed' \in fed..cfg.size
    BY <1>1, <2>2, <2>3
  <2>5. Content' = Content
    BY <2>1, SameContent
  <2>6. Mode = "open" /\ Mode' = "busy"
    BY <2>1 DEF Mode
  <2>7. Through!Call
    BY <2>1, <2>4, <2>5, <2>6 DEF Through!Call, PayloadSize
  <2> QED
    BY <2>7 DEF Through!Next
<1>3. CASE PacketWriter \/ UNCHANGED vars
  <2>1. cfg' = cfg /\ fed' = fed /\ pc' = pc /\ output' = output
    BY <1>3 DEF PacketWriter, vars
  <2>2. Content' = Content /\ Mode' = Mode
    BY <2>1, SameContent DEF Mode
  <2> QED
    BY <2>1, <2>2 DEF Through!decoder
<1>4. CASE Return
  <2>1. pc = "running" /\ cfg' = cfg /\ fed' = fed
        /\ pc' = IF finish THEN "finished" ELSE "idle"
    BY <1>4 DEF Return
  <2>2. Mode = "busy" /\ Mode' = IF finish THEN "done" ELSE "open"
    BY <2>1 DEF Mode
  <2>3. CASE ~finish
    <3>1. /\ Starts(Content, Content') /\ Starts(Content', Payloads(cfg, fed))
          /\ Content' \in Cells
      BY <1>4, <2>3, ContentGrows
    <3>2. Content \in Cells /\ Payloads(cfg, fed) \in Cells
      BY <1>1, PayloadsAre DEF ReadInv
    <3>3. Through!IsPrefix(Content, Content') /\ Through!IsPrefix(Content', Payloads(cfg, fed))
      BY <3>1, <3>2, PrefixThrough
    <3>4. Through!Reply
      BY <2>1, <2>2, <2>3, <3>3 DEF Through!Reply, Through!Give
    <3> QED
      BY <3>4 DEF Through!Next
  <2>4. CASE finish
    <3>1. /\ fed' = cfg'.size /\ Content' = Payloads(cfg, cfg.size)'
      BY <2>1, <2>4, NextFinal
    <3>2. fed = cfg.size /\ Content' = Payloads(cfg, fed)
      BY <2>1, <3>1 DEF Payloads
    <3>3. PICK n \in 0..fed : Content = Payloads(cfg, n)
      BY DEF ReadInv
    <3>4. Content \in Cells /\ Content' \in Cells
          /\ Starts(Content, Content') /\ Starts(Content', Content')
      BY <1>1, <3>2, <3>3, PayloadsAre
    <3>5. Through!IsPrefix(Content, Content') /\ Through!IsPrefix(Content', Payloads(cfg, fed))
      BY <3>2, <3>4, PrefixThrough
    <3>6. Through!Close
      BY <2>1, <2>2, <2>4, <3>2, <3>5 DEF Through!Close, Through!Give, PayloadSize
    <3> QED
      BY <3>6 DEF Through!Next
  <2> QED
    BY <2>3, <2>4
<1> QED
  BY <1>2, <1>3, <1>4 DEF Next, Loop

\* The writer with a reader that waits for everything behind it is a decoder
\* as message_decryption.h promises one: what the reader makes of the output is
\* at all times a beginning of the payload handed over so far, never shrinks,
\* and is all of it when the finishing call returns.  So headers, portions,
\* layers, trailers and lines fit together for every configuration.
THEOREM Delivers == Spec => KeepsPromise
<1>1. Init => Through!Init
  BY InitRead DEF Init, Through!Init, Mode
<1>2. IInv /\ FlowInv /\ ReadInv /\ (IInv /\ FlowInv /\ ReadInv)' /\ [Next]_vars
        => [Through!Next]_(Through!decoder)
  BY ThroughStep
<1> QED
  BY <1>1, <1>2, AlwaysRead, PTL DEF Spec, KeepsPromise, Through!Spec
=================================================================================
