------------------------- MODULE InBufferStream_proofs -------------------------
(***************************************************************************)
(* Proofs about the codec of PacketParsers, for every length a size field  *)
(* can hold, and about InBufferStream, for bodies of every size, portions  *)
(* longer than what a length takes with it, and every cut into pushes and  *)
(* reads: the octets of the body come out exactly, the count is never      *)
(* below zero, and Push gets further in every turn.                        *)
(***************************************************************************)
EXTENDS InBufferStream, SeqLemmas

-----------------------------------------------------------------------------
(* The header codec, for every length a size field can hold.               *)

\* The lengths that four octets can hold: those below 2^32.
Lengths == {len \in Nat : ((len \div 256) \div 256) \div 256 < 256}

\* Dividing by 256 and putting the remainder back.
LEMMA OneDigit ==
    ASSUME NEW n \in Nat
    PROVE  n \div 256 \in Nat /\ n % 256 \in Octet /\ (n \div 256) * 256 + (n % 256) = n
  BY SMT DEF Octet

\* The four octets of a length give it back.
LEMMA DigitsBack ==
    ASSUME NEW len \in Lengths
    PROVE  /\ \A n \in 0..3 : Digit(len, n) \in Octet
           /\ Number(Digit(len, 3), Digit(len, 2), Digit(len, 1), Digit(len, 0)) = len
<1> DEFINE a == len \div 256
           b == a \div 256
           c == b \div 256
<1>1. len \in Nat
  BY DEF Lengths
<1>2. a \in Nat /\ len % 256 \in Octet /\ a * 256 + (len % 256) = len
  BY <1>1, OneDigit
<1>3. b \in Nat /\ a % 256 \in Octet /\ b * 256 + (a % 256) = a
  BY <1>2, OneDigit
<1>4. c \in Nat /\ b % 256 \in Octet /\ c * 256 + (b % 256) = b
  BY <1>3, OneDigit
<1>5. c \in Octet /\ c % 256 = c
  <2>1. c < 256
    BY DEF Lengths
  <2> HIDE DEF a, b, c
  <2> QED
    BY SMT, <1>4, <2>1 DEF Octet
<1>6. /\ Digit(len, 3) = c % 256 /\ Digit(len, 2) = b % 256
      /\ Digit(len, 1) = a % 256 /\ Digit(len, 0) = len % 256
  BY SMT DEF Digit
<1> HIDE DEF a, b, c
<1>7. Number(c % 256, b % 256, a % 256, len % 256) = len
  BY <1>2, <1>3, <1>4, <1>5 DEF Number
<1>8. \A n \in 0..3 : Digit(len, n) \in Octet
  <2>1. \A n \in 0..3 : n = 0 \/ n = 1 \/ n = 2 \/ n = 3
    BY SMT
  <2> QED
    BY <1>2, <1>3, <1>4, <1>5, <1>6, <2>1
<1> QED
  BY <1>6, <1>7, <1>8

\* ReadLength of two octets.
LEMMA ReadTwo ==
    ASSUME NEW s, NEW a \in Octet, NEW b \in Octet, NEW len \in Nat,
           s[1] = a, s[2] = b, 192 <= a, a < 224, (a - 192) * 256 + b + 192 = len
    PROVE  ReadLength(s) = [len |-> len, partial |-> FALSE, size |-> 2]
<1>1. ~IsOneOctet(a) /\ IsPartial(a) = FALSE /\ LengthSize(a) = 2
  BY SMT DEF IsOneOctet, IsPartial, LengthSize, Octet
<1> QED
  BY <1>1, Zenon DEF ReadLength

\* ReadLength of five octets.
LEMMA ReadFive ==
    ASSUME NEW s, NEW a, NEW b, NEW c, NEW d, NEW len,
           s[1] = 255, s[2] = a, s[3] = b, s[4] = c, s[5] = d, Number(a, b, c, d) = len
    PROVE  ReadLength(s) = [len |-> len, partial |-> FALSE, size |-> 5]
<1> DEFINE e == 255
<1>1. ~IsOneOctet(e) /\ IsPartial(e) = FALSE /\ LengthSize(e) = 5 /\ ~(e < 224)
  BY SMT DEF IsOneOctet, IsPartial, LengthSize
<1>2. s[1] = e
  OBVIOUS
<1> HIDE DEF e
<1> QED
  BY <1>1, <1>2, Zenon DEF ReadLength

\* WriteLength of a length that takes five.
LEMMA WriteFive ==
    ASSUME NEW len, ~(len < 192), ~(len < 8384)
    PROVE  WriteLength(len)
             = <<255, Digit(len, 3), Digit(len, 2), Digit(len, 1), Digit(len, 0)>>
  BY SMT DEF WriteLength

\* A length of one octet is read as it was written, whatever follows.
LEMMA OneOctetBack ==
    ASSUME NEW len \in Nat, len < 192, NEW more \in Seq(Octet)
    PROVE  ReadLength(WriteLength(len) \o more)
             = [len |-> len, partial |-> FALSE, size |-> Len(WriteLength(len))]
<1>1. WriteLength(len) = <<len>> /\ len \in Octet
  BY SMT DEF WriteLength, Octet
<1> DEFINE s == <<len>> \o more
<1>2. s[1] = len /\ Len(<<len>>) = 1
  BY <1>1
<1> HIDE DEF s
<1>3. IsOneOctet(len) /\ IsPartial(len) = FALSE /\ LengthSize(len) = 1
  BY SMT DEF IsOneOctet, IsPartial, LengthSize
<1>4. ReadLength(s) = [len |-> len, partial |-> FALSE, size |-> 1]
  BY <1>2, <1>3, Zenon DEF ReadLength
<1> QED
  BY <1>1, <1>2, <1>4 DEF s

\* So is one of two octets.
LEMMA TwoOctetsBack ==
    ASSUME NEW len \in Nat, 192 <= len, len < 8384, NEW more \in Seq(Octet)
    PROVE  ReadLength(WriteLength(len) \o more)
             = [len |-> len, partial |-> FALSE, size |-> Len(WriteLength(len))]
<1> DEFINE n == len - 192
           a == (n \div 256) + 192
           b == n % 256
<1>1. WriteLength(len) = <<a, b>>
  BY SMT DEF WriteLength
<1>2. n \in Nat /\ n < 8192 /\ len = n + 192
  BY SMT
<1> HIDE DEF n
<1>3. (n \div 256) * 256 + b = n /\ b \in Octet /\ n \div 256 \in Nat
  BY <1>2, OneDigit
<1>4. a \in Octet /\ 192 <= a /\ a < 224 /\ a - 192 = n \div 256
  BY SMT, <1>2, <1>3 DEF Octet
<1>5. (a - 192) * 256 + b + 192 = len
  BY SMT, <1>2, <1>3, <1>4 DEF Octet
<1> HIDE DEF a, b
<1> DEFINE s == <<a, b>> \o more
<1>6. s \in Seq(Octet) /\ s[1] = a /\ s[2] = b /\ Len(<<a, b>>) = 2
  BY <1>3, <1>4
<1> HIDE DEF s
<1>7. ReadLength(s) = [len |-> len, partial |-> FALSE, size |-> 2]
  BY ReadTwo, <1>3, <1>4, <1>5, <1>6
<1> QED
  BY <1>1, <1>6, <1>7 DEF s

\* So is one of five octets.
LEMMA FiveOctetsBack ==
    ASSUME NEW len \in Lengths, 8384 <= len, NEW more \in Seq(Octet)
    PROVE  ReadLength(WriteLength(len) \o more)
             = [len |-> len, partial |-> FALSE, size |-> Len(WriteLength(len))]
<1> DEFINE a == Digit(len, 3)
           b == Digit(len, 2)
           c == Digit(len, 1)
           d == Digit(len, 0)
           w == <<255, a, b, c, d>>
<1>1. WriteLength(len) = w
  <2>1. ~(len < 192) /\ ~(len < 8384)
    BY SMT DEF Lengths
  <2> QED
    BY <2>1, WriteFive
<1>2. a \in Octet /\ b \in Octet /\ c \in Octet /\ d \in Octet
      /\ Number(a, b, c, d) = len
  <2>1. 0 \in 0..3 /\ 1 \in 0..3 /\ 2 \in 0..3 /\ 3 \in 0..3
    BY SMT
  <2> QED
    BY <2>1, DigitsBack
<1> HIDE DEF a, b, c, d
<1> DEFINE s == w \o more
<1>3. 255 \in Octet
  BY SMT DEF Octet
<1>4. s \in Seq(Octet) /\ s[1] = 255 /\ s[2] = a /\ s[3] = b /\ s[4] = c /\ s[5] = d /\ Len(w) = 5
  BY <1>2, <1>3
<1> HIDE DEF s, w
<1>5. ReadLength(s) = [len |-> len, partial |-> FALSE, size |-> 5]
  BY ReadFive, <1>2, <1>4
<1> QED
  BY <1>1, <1>2, <1>4, <1>5 DEF s

\* A length is read as it was written, whatever follows it, and takes as many
\* octets as were written: for every length that four octets can hold.
THEOREM LengthReadBack ==
    ASSUME NEW len \in Lengths, NEW more \in Seq(Octet)
    PROVE  ReadLength(WriteLength(len) \o more)
             = [len |-> len, partial |-> FALSE, size |-> Len(WriteLength(len))]
<1>1. len \in Nat
  BY DEF Lengths
<1>2. len < 192 \/ (192 <= len /\ len < 8384) \/ 8384 <= len
  BY SMT, <1>1
<1> QED
  BY <1>1, <1>2, OneOctetBack, TwoOctetsBack, FiveOctetsBack

-----------------------------------------------------------------------------
(* Pieces of a sequence of cells.                                          *)

\* What stands behind the first a cells, up to the b-th.
Stretch(s, a, b) == SubSeq(s, a + 1, b)

LEMMA StretchIs ==
    ASSUME NEW s \in Seq(Cell), NEW a \in Nat, NEW b \in Nat, a <= b, b <= Len(s)
    PROVE  /\ Stretch(s, a, b) \in Seq(Cell) /\ Len(Stretch(s, a, b)) = b - a
           /\ \A i \in 1..(b - a) : Stretch(s, a, b)[i] = s[a + i]
<1>1. Len(s) \in Nat /\ \A i \in (a + 1)..b : s[i] \in Cell
  BY LenProperties, ElementOfSeq
<1>2. /\ SubSeq(s, a + 1, b) \in Seq(Cell)
      /\ Len(SubSeq(s, a + 1, b)) = IF a + 1 <= b THEN b - (a + 1) + 1 ELSE 0
      /\ \A i \in 1..(b - (a + 1) + 1) : SubSeq(s, a + 1, b)[i] = s[(a + 1) + i - 1]
  BY <1>1, SubSeqProperties
<1> QED BY <1>2 DEF Stretch

\* A stretch that begins another one, and what is left of that.
LEMMA StretchCut ==
    ASSUME NEW s \in Seq(Cell), NEW a \in Nat, NEW b \in Nat, a <= b, b <= Len(s),
           NEW k \in 0..(b - a)
    PROVE  /\ Take(Stretch(s, a, b), k) = Stretch(s, a, a + k)
           /\ Drop(Stretch(s, a, b), k) = Stretch(s, a + k, b)
<1> DEFINE t == Stretch(s, a, b)
           c == a + k
<1>1. c \in Nat /\ a <= c /\ c <= b /\ c <= Len(s) /\ Len(s) \in Nat
  BY LenProperties
<1>2. t \in Seq(Cell) /\ Len(t) = b - a /\ \A i \in 1..(b - a) : t[i] = s[a + i]
  BY StretchIs
<1>3. Stretch(s, a, c) \in Seq(Cell) /\ Len(Stretch(s, a, c)) = k
      /\ \A i \in 1..k : Stretch(s, a, c)[i] = s[a + i]
  <2>1. c - a = k
    OBVIOUS
  <2> HIDE DEF c
  <2> QED BY <1>1, <2>1, StretchIs
<1>4. Stretch(s, c, b) \in Seq(Cell) /\ Len(Stretch(s, c, b)) = b - c
      /\ \A i \in 1..(b - c) : Stretch(s, c, b)[i] = s[c + i]
  <2> HIDE DEF c
  <2> QED BY <1>1, StretchIs
<1> HIDE DEF t
<1>5. Take(t, k) \in Seq(Cell) /\ Len(Take(t, k)) = k /\ \A i \in 1..k : Take(t, k)[i] = t[i]
  <2>1. \A i \in 1..k : t[i] \in Cell
    BY <1>2, ElementOfSeq
  <2> QED BY <2>1, SubSeqProperties DEF Take
<1>6. Drop(t, k) \in Seq(Cell) /\ Len(Drop(t, k)) = b - c
      /\ \A i \in 1..(b - c) : Drop(t, k)[i] = t[k + i]
  <2>1. \A i \in (k + 1)..Len(t) : t[i] \in Cell
    BY <1>2, ElementOfSeq
  <2>2. /\ SubSeq(t, k + 1, Len(t)) \in Seq(Cell)
        /\ Len(SubSeq(t, k + 1, Len(t))) = IF k + 1 <= Len(t) THEN Len(t) - (k + 1) + 1 ELSE 0
        /\ \A i \in 1..(Len(t) - (k + 1) + 1) : SubSeq(t, k + 1, Len(t))[i] = t[(k + 1) + i - 1]
    <3>1. k + 1 \in Int /\ Len(t) \in Int
      BY <1>2
    <3> QED BY <2>1, <3>1, SubSeqProperties
  <2> QED BY <2>2, <1>2 DEF Drop
<1>7. Take(t, k) = Stretch(s, a, c)
  <2>1. \A i \in 1..k : t[i] = s[a + i]
    BY <1>2
  <2> QED BY <1>3, <1>5, <2>1, SeqEqual
<1>8. Drop(t, k) = Stretch(s, c, b)
  <2>1. \A i \in 1..(b - c) : t[k + i] = s[c + i]
    BY <1>2
  <2> QED BY <1>4, <1>6, <2>1, SeqEqual
<1> QED BY <1>7, <1>8 DEF t

\* Two stretches next to each other.
LEMMA StretchJoin ==
    ASSUME NEW s \in Seq(Cell), NEW a \in Nat, NEW b \in Nat, NEW c \in Nat,
           a <= b, b <= c, c <= Len(s)
    PROVE  Stretch(s, a, b) \o Stretch(s, b, c) = Stretch(s, a, c)
<1>1. Len(s) \in Nat
  BY LenProperties
<1>2. a + 1 \in 1..(Len(s) + 1) /\ b \in ((a + 1) - 1)..Len(s) /\ c \in b..Len(s)
  BY <1>1
<1>3. SubSeq(s, a + 1, b) \o SubSeq(s, b + 1, c) = SubSeq(s, a + 1, c)
  BY <1>2, ConcatAdjacentSubSeq
<1> QED BY <1>3 DEF Stretch

-----------------------------------------------------------------------------
(* The octets of the body among some cells.                                *)

Kept(c) == IF IsBody(c) THEN <<c>> ELSE <<>>
Keeps(s) == [i \in DOMAIN s |-> Kept(s[i])]

LEMMA KeptType == ASSUME NEW c \in Cell PROVE Kept(c) \in Seq(Cell)
  BY DEF Kept

LEMMA KeepsType ==
    ASSUME NEW s \in Seq(Cell)
    PROVE  Keeps(s) \in Seq(Seq(Cell)) /\ Len(Keeps(s)) = Len(s) /\ Body(s) = FlattenSeq(Keeps(s))
           /\ \A i \in 1..Len(s) : Keeps(s)[i] = Kept(s[i])
<1>1. Len(s) \in Nat /\ DOMAIN s = 1..Len(s) /\ \A i \in 1..Len(s) : s[i] \in Cell
  BY LenProperties, ElementOfSeq
<1>2. \A i \in 1..Len(s) : Keeps(s)[i] = Kept(s[i]) /\ Kept(s[i]) \in Seq(Cell)
  BY <1>1, KeptType DEF Keeps
<1>3. Keeps(s) = [i \in 1..Len(s) |-> Keeps(s)[i]]
  BY <1>1 DEF Keeps
<1>4. Keeps(s) \in Seq(Seq(Cell)) /\ Len(Keeps(s)) = Len(s)
  BY <1>1, <1>2, <1>3, IsASeq
<1>5. Body(s) = FlattenSeq(Keeps(s))
  BY DEF Body, Keeps, Kept
<1> QED BY <1>2, <1>4, <1>5

LEMMA BodyType == ASSUME NEW s \in Seq(Cell) PROVE Body(s) \in Seq(Cell)
  BY KeepsType, FlattenType

LEMMA BodyEmpty == Body(<<>>) = <<>>
<1>1. <<>> \in Seq(Cell)
  OBVIOUS
<1>2. Keeps(<<>>) \in Seq(Seq(Cell)) /\ Len(Keeps(<<>>)) = 0 /\ Body(<<>>) = FlattenSeq(Keeps(<<>>))
  BY <1>1, KeepsType
<1>3. Keeps(<<>>) = <<>>
  BY <1>2, EmptySeq
<1> QED BY <1>2, <1>3 DEF FlattenSeq

LEMMA BodyAppend ==
    ASSUME NEW s \in Seq(Cell), NEW c \in Cell
    PROVE  Body(Append(s, c)) = Body(s) \o Kept(c)
<1> DEFINE t == Append(s, c)
<1>1. t \in Seq(Cell) /\ Len(t) = Len(s) + 1 /\ (\A i \in 1..Len(s) : t[i] = s[i]) /\ t[Len(s) + 1] = c
      /\ Len(s) \in Nat
  BY AppendProperties, LenProperties
<1> HIDE DEF t
<1>2. Keeps(t) \in Seq(Seq(Cell)) /\ Len(Keeps(t)) = Len(s) + 1 /\ Body(t) = FlattenSeq(Keeps(t))
      /\ \A i \in 1..(Len(s) + 1) : Keeps(t)[i] = Kept(t[i])
  BY <1>1, KeepsType
<1>3. Keeps(s) \in Seq(Seq(Cell)) /\ Len(Keeps(s)) = Len(s) /\ Body(s) = FlattenSeq(Keeps(s))
      /\ \A i \in 1..Len(s) : Keeps(s)[i] = Kept(s[i])
  BY KeepsType
<1>4. Kept(c) \in Seq(Cell)
  BY KeptType
<1> DEFINE u == Append(Keeps(s), Kept(c))
<1>5. u \in Seq(Seq(Cell)) /\ Len(u) = Len(s) + 1 /\ (\A i \in 1..Len(s) : u[i] = Keeps(s)[i])
      /\ u[Len(s) + 1] = Kept(c)
  BY <1>3, <1>4, AppendProperties
<1>6. FlattenSeq(u) = FlattenSeq(Keeps(s)) \o Kept(c)
  BY <1>3, <1>4, FlattenAppend
<1> HIDE DEF u
<1>7. ASSUME NEW i \in 1..(Len(s) + 1) PROVE Keeps(t)[i] = u[i]
  <2>1. CASE i <= Len(s)
    BY <1>1, <1>2, <1>3, <1>5, <2>1
  <2>2. CASE i = Len(s) + 1
    BY <1>1, <1>2, <1>5, <2>2
  <2> QED BY <1>1, <2>1, <2>2
<1>8. Keeps(t) = u
  BY <1>2, <1>5, <1>7, SeqEqual
<1> QED BY <1>2, <1>3, <1>6, <1>8 DEF t

LEMMA ConcatThree ==
    ASSUME NEW x \in Seq(Cell), NEW y \in Seq(Cell), NEW z \in Seq(Cell)
    PROVE  (x \o y) \o z = x \o (y \o z)
  BY ConcatAssociative

\* The body of two parts is that of the one and that of the other.
LEMMA BodyConcat ==
    ASSUME NEW s \in Seq(Cell), NEW t \in Seq(Cell)
    PROVE  Body(s \o t) = Body(s) \o Body(t)
<1> DEFINE S == {n \in Nat : \A u \in Seq(Cell) : Len(u) = n => Body(s \o u) = Body(s) \o Body(u)}
<1>1. 0 \in S
  <2>1. SUFFICES ASSUME NEW u \in Seq(Cell), Len(u) = 0 PROVE Body(s \o u) = Body(s) \o Body(u)
    OBVIOUS
  <2>2. u = <<>>
    BY <2>1, EmptySeq
  <2>3. s \o <<>> = s /\ Body(s) \o <<>> = Body(s)
    BY BodyType, ConcatEmptySeq
  <2> QED BY <2>2, <2>3, BodyEmpty
<1>2. ASSUME NEW n \in Nat, n \in S PROVE n + 1 \in S
  <2>1. SUFFICES ASSUME NEW u \in Seq(Cell), Len(u) = n + 1 PROVE Body(s \o u) = Body(s) \o Body(u)
    OBVIOUS
  <2>2. u # <<>>
    BY <2>1
  <2>3. PICK v \in Seq(Cell), c \in Cell : u = Append(v, c)
    BY <2>2, SequenceEmptyOrAppend
  <2>4. Len(v) = n /\ Len(v) \in Nat
    BY <2>1, <2>3, AppendProperties, LenProperties
  <2>5. Body(s \o v) = Body(s) \o Body(v)
    BY <1>2, <2>4
  <2>6. s \o v \in Seq(Cell) /\ <<c>> \in Seq(Cell)
    BY ConcatProperties
  <2>7. s \o u = Append(s \o v, c)
    <3>1. u = v \o <<c>> /\ Append(s \o v, c) = (s \o v) \o <<c>>
      BY <2>3, <2>6, AppendIsConcat
    <3>2. (s \o v) \o <<c>> = s \o (v \o <<c>>)
      <4> DEFINE w == <<c>>
      <4>1. w \in Seq(Cell)
        BY <2>6
      <4> HIDE DEF w
      <4>2. (s \o v) \o w = s \o (v \o w)
        BY <4>1, ConcatAssociative
      <4> QED BY <4>2 DEF w
    <3> QED BY <3>1, <3>2
  <2>8. Body(s \o u) = (Body(s) \o Body(v)) \o Kept(c)
    BY <2>5, <2>6, <2>7, BodyAppend
  <2>9. Body(u) = Body(v) \o Kept(c)
    BY <2>3, BodyAppend
  <2>10. (Body(s) \o Body(v)) \o Kept(c) = Body(s) \o (Body(v) \o Kept(c))
    <3>1. Body(s) \in Seq(Cell) /\ Body(v) \in Seq(Cell) /\ Kept(c) \in Seq(Cell)
      BY BodyType, KeptType
    <3>2. \A x, y, z \in Seq(Cell) : (x \o y) \o z = x \o (y \o z)
      BY ConcatThree
    <3> QED BY <3>1, <3>2, SMTT(60)
  <2> QED BY <2>8, <2>9, <2>10
<1> HIDE DEF S
<1>3. Nat \subseteq S
  BY <1>1, <1>2, NatInduct
<1>4. Len(t) \in Nat
  BY LenProperties
<1> QED BY <1>3, <1>4 DEF S

\* Cells that are all of the body are its body, and cells of lengths have none.
LEMMA BodyAll ==
    ASSUME NEW s \in Seq(Cell), \A i \in 1..Len(s) : IsBody(s[i])
    PROVE  Body(s) = s
<1> DEFINE P(u) == \A i \in 1..Len(u) : IsBody(u[i])
           S == {n \in Nat : \A u \in Seq(Cell) : Len(u) = n /\ P(u) => Body(u) = u}
<1>1. 0 \in S
  <2>1. SUFFICES ASSUME NEW u \in Seq(Cell), Len(u) = 0 PROVE Body(u) = u
    OBVIOUS
  <2>2. u = <<>>
    BY <2>1, EmptySeq
  <2> QED BY <2>2, BodyEmpty
<1>2. ASSUME NEW n \in Nat, n \in S PROVE n + 1 \in S
  <2>1. SUFFICES ASSUME NEW u \in Seq(Cell), Len(u) = n + 1, P(u) PROVE Body(u) = u
    OBVIOUS
  <2>2. u # <<>>
    BY <2>1
  <2>3. PICK v \in Seq(Cell), c \in Cell : u = Append(v, c)
    BY <2>2, SequenceEmptyOrAppend
  <2>4. Len(v) = n /\ (\A i \in 1..n : u[i] = v[i]) /\ u[n + 1] = c
    BY <2>1, <2>3, AppendProperties, LenProperties
  <2>5. P(v) /\ IsBody(c)
    BY <2>1, <2>4
  <2>6. Body(v) = v
    BY <1>2, <2>4, <2>5
  <2>7. Body(u) = v \o <<c>>
    BY <2>3, <2>5, <2>6, BodyAppend DEF Kept
  <2> QED BY <2>3, <2>7, AppendIsConcat
<1> HIDE DEF S
<1>3. Nat \subseteq S
  BY <1>1, <1>2, NatInduct
<1>4. Len(s) \in Nat
  BY LenProperties
<1> QED BY <1>3, <1>4 DEF S

LEMMA BodyNone ==
    ASSUME NEW s \in Seq(Cell), \A i \in 1..Len(s) : ~IsBody(s[i])
    PROVE  Body(s) = <<>>
<1> DEFINE P(u) == \A i \in 1..Len(u) : ~IsBody(u[i])
           S == {n \in Nat : \A u \in Seq(Cell) : Len(u) = n /\ P(u) => Body(u) = <<>>}
<1>1. 0 \in S
  <2>1. SUFFICES ASSUME NEW u \in Seq(Cell), Len(u) = 0 PROVE Body(u) = <<>>
    OBVIOUS
  <2>2. u = <<>>
    BY <2>1, EmptySeq
  <2> QED BY <2>2, BodyEmpty
<1>2. ASSUME NEW n \in Nat, n \in S PROVE n + 1 \in S
  <2>1. SUFFICES ASSUME NEW u \in Seq(Cell), Len(u) = n + 1, P(u) PROVE Body(u) = <<>>
    OBVIOUS
  <2>2. u # <<>>
    BY <2>1
  <2>3. PICK v \in Seq(Cell), c \in Cell : u = Append(v, c)
    BY <2>2, SequenceEmptyOrAppend
  <2>4. Len(v) = n /\ (\A i \in 1..n : u[i] = v[i]) /\ u[n + 1] = c
    BY <2>1, <2>3, AppendProperties, LenProperties
  <2>5. P(v) /\ ~IsBody(c)
    BY <2>1, <2>4
  <2>6. Body(v) = <<>>
    BY <1>2, <2>4, <2>5
  <2>7. Body(u) = <<>> \o <<>>
    BY <2>3, <2>5, <2>6, BodyAppend DEF Kept
  <2> QED BY <2>7
<1> HIDE DEF S
<1>3. Nat \subseteq S
  BY <1>1, <1>2, NatInduct
<1>4. Len(s) \in Nat
  BY LenProperties
<1> QED BY <1>3, <1>4 DEF S

-----------------------------------------------------------------------------
(* What is left of a buffer.                                               *)

LEMMA TakeIs ==
    ASSUME NEW s \in Seq(Cell), NEW k \in 0..Len(s)
    PROVE  Take(s, k) = Stretch(s, 0, k) /\ Take(s, k) \in Seq(Cell) /\ Len(Take(s, k)) = k
<1>1. Len(s) \in Nat /\ k \in Nat /\ k <= Len(s) /\ k - 0 = k /\ 0 + 1 = 1
  BY LenProperties
<1>2. Take(s, k) = Stretch(s, 0, k)
  BY <1>1 DEF Take, Stretch
<1>3. Stretch(s, 0, k) \in Seq(Cell) /\ Len(Stretch(s, 0, k)) = k - 0
  BY <1>1, StretchIs
<1> QED BY <1>1, <1>2, <1>3

LEMMA DropIs ==
    ASSUME NEW s \in Seq(Cell), NEW k \in 0..Len(s)
    PROVE  /\ Drop(s, k) = Stretch(s, k, Len(s)) /\ Drop(s, k) \in Seq(Cell)
           /\ Len(Drop(s, k)) = Len(s) - k /\ \A i \in 1..(Len(s) - k) : Drop(s, k)[i] = s[k + i]
<1> DEFINE n == Len(s)
<1>1. n \in Nat /\ k \in Nat /\ k <= n /\ n <= Len(s)
  BY LenProperties
<1>2. Drop(s, k) = Stretch(s, k, n)
  BY DEF Drop, Stretch
<1> HIDE DEF n
<1>3. Stretch(s, k, n) \in Seq(Cell) /\ Len(Stretch(s, k, n)) = n - k
      /\ \A i \in 1..(n - k) : Stretch(s, k, n)[i] = s[k + i]
  BY <1>1, StretchIs
<1> QED BY <1>2, <1>3 DEF n

\* What is added to a buffer is behind what was not read of it.
LEMMA DropConcat ==
    ASSUME NEW s \in Seq(Cell), NEW t \in Seq(Cell), NEW k \in 0..Len(s)
    PROVE  Drop(s \o t, k) = Drop(s, k) \o t
<1> DEFINE st == s \o t
           d == Drop(st, k)
           e == Drop(s, k)
           f == e \o t
           m == Len(s)
           n == Len(t)
<1>1. m \in Nat /\ n \in Nat /\ k \in Nat /\ k <= m
  BY LenProperties
<1>2. st \in Seq(Cell) /\ Len(st) = m + n
      /\ \A i \in 1..(m + n) : st[i] = IF i <= m THEN s[i] ELSE t[i - m]
  BY ConcatProperties
<1>3. e \in Seq(Cell) /\ Len(e) = m - k /\ \A i \in 1..(m - k) : e[i] = s[k + i]
  BY DropIs
<1> HIDE DEF st, e
<1>4. d \in Seq(Cell) /\ Len(d) = m + n - k /\ \A i \in 1..(m + n - k) : d[i] = st[k + i]
  <2>1. k \in 0..Len(st)
    BY <1>1, <1>2
  <2>2. d \in Seq(Cell) /\ Len(d) = Len(st) - k /\ \A i \in 1..(Len(st) - k) : d[i] = st[k + i]
    BY <1>2, <2>1, DropIs
  <2>3. Len(st) - k = m + n - k
    BY <1>2
  <2> HIDE DEF d
  <2> QED BY <2>2, <2>3, Zenon
<1>5. f \in Seq(Cell) /\ Len(f) = (m - k) + n
      /\ \A i \in 1..((m - k) + n) : f[i] = IF i <= m - k THEN e[i] ELSE t[i - (m - k)]
  <2>1. f \in Seq(Cell) /\ Len(f) = Len(e) + n
        /\ \A i \in 1..(Len(e) + n) : f[i] = IF i <= Len(e) THEN e[i] ELSE t[i - Len(e)]
    BY <1>3, ConcatProperties
  <2> HIDE DEF f, m, n
  <2> QED BY <1>3, <2>1
<1> HIDE DEF d, f, m, n
<1>6. (m - k) + n = m + n - k
  BY <1>1
<1>7. ASSUME NEW i \in 1..(m + n - k) PROVE d[i] = f[i]
  <2>1. k + i \in 1..(m + n) /\ i \in Nat
    BY <1>1
  <2>2. CASE i <= m - k
    <3>1. k + i <= m /\ i \in 1..(m - k)
      BY <1>1, <2>1, <2>2
    <3> QED BY <1>2, <1>3, <1>4, <1>5, <1>6, <2>1, <2>2, <3>1
  <2>3. CASE ~(i <= m - k)
    <3>1. ~(k + i <= m) /\ (k + i) - m = i - (m - k)
      BY <1>1, <2>1, <2>3
    <3> QED BY <1>2, <1>4, <1>5, <1>6, <2>1, <2>3, <3>1
  <2> QED BY <2>2, <2>3
<1>8. d = f
  BY <1>4, <1>5, <1>6, <1>7, SeqEqual
<1> QED BY <1>8 DEF d, e, f, st

\* What is read and what is left of the buffer are what was left of it.
LEMMA ReadOn ==
    ASSUME NEW s \in Seq(Cell), NEW g \in Seq(Cell), NEW k \in 0..Len(s), NEW n \in 0..(Len(s) - k)
    PROVE  /\ SubSeq(s, k + 1, k + n) \in Seq(Cell) /\ k + n \in 0..Len(s)
           /\ (g \o SubSeq(s, k + 1, k + n)) \o Drop(s, k + n) = g \o Drop(s, k)
<1> DEFINE c == k + n
           l == Len(s)
           x == Stretch(s, k, c)
           y == Stretch(s, c, l)
<1>1. l \in Nat /\ c \in Nat /\ k \in Nat /\ k <= c /\ c <= l /\ c \in 0..l /\ l <= Len(s)
  BY LenProperties
<1>2. Drop(s, k) = Stretch(s, k, l) /\ Drop(s, c) = y
  BY <1>1, DropIs
<1> HIDE DEF c, l
<1>3. x \in Seq(Cell) /\ y \in Seq(Cell) /\ x \o y = Stretch(s, k, l)
  <2>1. c <= Len(s) /\ k <= l
    BY <1>1
  <2>2. x \in Seq(Cell)
    BY <1>1, <2>1, StretchIs
  <2>3. y \in Seq(Cell)
    BY <1>1, <2>1, StretchIs
  <2>4. x \o y = Stretch(s, k, l)
    BY <1>1, <2>1, StretchJoin
  <2> QED BY <2>2, <2>3, <2>4
<1> HIDE DEF x, y
<1>4. (g \o x) \o y = g \o (x \o y)
  BY <1>3, ConcatThree
<1>5. x = SubSeq(s, k + 1, k + n)
  BY DEF x, c, Stretch
<1> QED BY <1>1, <1>2, <1>3, <1>4, <1>5 DEF c, l

-----------------------------------------------------------------------------
(* The invariant.                                                          *)

\* Where the stream stands in the cells of s when it has looked at c of them:
\* n octets of a portion to come, in front of the next length; or b of a length
\* that is not complete; or in the last portion, which never runs out.
Standing(s, c, n, more, b) ==
    /\ Len(b) <= c /\ b = Stretch(s.cells, c - Len(b), c)
    /\ b # <<>> => /\ more /\ n = 0
                   /\ c - Len(b) + 1 \in Starts(s) /\ ~IsOneOctet(b[1].octet)
    /\ more /\ b = <<>> =>
          /\ \A i \in (c + 1)..Len(s.cells) : i <= c + n => IsBody(s.cells[i])
          /\ c + n < Len(s.cells) => c + n + 1 \in Starts(s)
    /\ ~more => /\ b = <<>>
                /\ \A i \in (c + 1)..Len(s.cells) : IsBody(s.cells[i])
                /\ c < Len(s.cells) => n > 0

\* How many cells were looked at.
Cur == pos - Len(rest)

IInv ==
    /\ TypeOK
    /\ pc # "aborted" /\ (pc = "idle" <=> rest = <<>>)
    /\ Len(rest) <= pos /\ rest = Stretch(scn.cells, Cur, pos)
    /\ Standing(scn, Cur, count, partial, lenbuf)
    /\ got \o Unread = Body(Stretch(scn.cells, 0, Cur - Len(lenbuf)))

LEMMA ScnType ==
    ASSUME TypeOK
    PROVE  /\ scn.cells \in Seq(Cell) /\ Len(scn.cells) \in Nat /\ scn.first \in 0..(Wrap - 1)
           /\ pos \in Nat /\ pos <= Len(scn.cells)
<1>1. scn.cells \in Seq(Cell) /\ scn.first \in 0..(Wrap - 1)
  BY StreamAssumption DEF TypeOK
<1>2. Len(scn.cells) \in Nat
  BY <1>1, LenProperties
<1> QED BY <1>1, <1>2 DEF TypeOK

\* More cells that are all of the body, or that all are not.
LEMMA BodyStep ==
    ASSUME NEW s \in Seq(Cell), NEW a \in Nat, NEW b \in Nat, a <= b, b <= Len(s),
           \A i \in (a + 1)..b : IsBody(s[i])
    PROVE  Body(Stretch(s, 0, b)) = Body(Stretch(s, 0, a)) \o Stretch(s, a, b)
<1> DEFINE x == Stretch(s, 0, a)
           y == Stretch(s, a, b)
<1>1. Len(s) \in Nat /\ 0 \in Nat /\ 0 <= a /\ a <= Len(s)
  BY LenProperties
<1>2. x \in Seq(Cell)
  BY <1>1, StretchIs
<1>3. y \in Seq(Cell) /\ Len(y) = b - a /\ \A i \in 1..(b - a) : y[i] = s[a + i]
  BY StretchIs
<1>4. Stretch(s, 0, b) = x \o y
  BY <1>1, StretchJoin
<1> HIDE DEF x, y
<1>5. \A i \in 1..Len(y) : IsBody(y[i])
  <2>1. ASSUME NEW i \in 1..Len(y) PROVE IsBody(y[i])
    <3>1. i \in 1..(b - a) /\ a + i \in (a + 1)..b
      BY <1>3
    <3> QED BY <1>3, <3>1
  <2> QED BY <2>1
<1>6. Body(y) = y
  BY <1>3, <1>5, BodyAll
<1>7. Body(x \o y) = Body(x) \o Body(y)
  BY <1>2, <1>3, BodyConcat
<1> QED BY <1>4, <1>6, <1>7 DEF x, y

LEMMA BodySkip ==
    ASSUME NEW s \in Seq(Cell), NEW a \in Nat, NEW b \in Nat, a <= b, b <= Len(s),
           \A i \in (a + 1)..b : ~IsBody(s[i])
    PROVE  Body(Stretch(s, 0, b)) = Body(Stretch(s, 0, a)) /\ Body(Stretch(s, a, b)) = <<>>
<1> DEFINE x == Stretch(s, 0, a)
           y == Stretch(s, a, b)
<1>1. Len(s) \in Nat /\ 0 \in Nat /\ 0 <= a /\ a <= Len(s)
  BY LenProperties
<1>2. x \in Seq(Cell)
  BY <1>1, StretchIs
<1>3. y \in Seq(Cell) /\ Len(y) = b - a /\ \A i \in 1..(b - a) : y[i] = s[a + i]
  BY StretchIs
<1>4. Stretch(s, 0, b) = x \o y
  BY <1>1, StretchJoin
<1> HIDE DEF x, y
<1>5. \A i \in 1..Len(y) : ~IsBody(y[i])
  <2>1. ASSUME NEW i \in 1..Len(y) PROVE ~IsBody(y[i])
    <3>1. i \in 1..(b - a) /\ a + i \in (a + 1)..b
      BY <1>3
    <3> QED BY <1>3, <3>1
  <2> QED BY <2>1
<1>6. Body(y) = <<>>
  BY <1>3, <1>5, BodyNone
<1>7. Body(x \o y) = Body(x) \o Body(y)
  BY <1>2, <1>3, BodyConcat
<1>8. Body(x) \o <<>> = Body(x)
  BY <1>2, BodyType, ConcatEmptySeq
<1> QED BY <1>4, <1>6, <1>7, <1>8 DEF x, y

LEMMA InitOK ==
    ASSUME \A s \in Scenarios : Framed(s), Init
    PROVE  IInv
<1> DEFINE cs == scn.cells
<1>1. scn \in Scenarios /\ scn.first \in 0..(Wrap - 1) /\ cs \in Seq(Cell) /\ Len(cs) \in Nat
  BY StreamAssumption, LenProperties DEF Init
<1>2. Framed(scn) /\ pos = 0 /\ rest = <<>> /\ count = scn.first /\ partial = TRUE /\ lenbuf = <<>>
      /\ buffer = <<>> /\ at = 0 /\ got = <<>> /\ pc = "idle" /\ Len(rest) = 0 /\ Len(lenbuf) = 0
  BY DEF Init
<1>3. TypeOK
  BY <1>1, <1>2, StreamAssumption DEF TypeOK
<1>4. Stretch(cs, 0, 0) = <<>>
  BY <1>1, StretchIs, EmptySeq
<1>5. Cur = 0 /\ Cur - Len(lenbuf) = 0
  <2>1. pos = 0 /\ Len(rest) = 0 /\ Len(lenbuf) = 0
    BY <1>2
  <2>2. Cur = 0
    BY <2>1 DEF Cur
  <2> QED BY <2>1, <2>2
<1>6. Standing(scn, 0, count, TRUE, <<>>)
  <2>1. \A i \in 1..Len(cs) : i <= scn.first => IsBody(cs[i])
    BY <1>1, <1>2 DEF Framed, Least
  <2>2. scn.first < Len(cs) => scn.first + 1 \in Starts(scn)
    BY <1>2 DEF Framed
  <2> QED BY <1>1, <1>2, <1>4, <2>1, <2>2 DEF Standing
<1>7. got \o Unread = <<>>
  <2>1. Drop(<<>>, 0) = <<>>
    BY DEF Drop
  <2> QED BY <1>2, <2>1 DEF Unread
<1> QED BY <1>2, <1>3, <1>4, <1>5, <1>6, <1>7, BodyEmpty DEF IInv

\* A push and a read leave the standing alone.
LEMMA PushOK ==
    ASSUME IInv, Push
    PROVE  IInv'
<1> DEFINE cs == scn.cells
<1>1. cs \in Seq(Cell) /\ Len(cs) \in Nat /\ pos \in Nat /\ pos < Len(cs) /\ rest = <<>> /\ pc = "idle"
  BY ScnType DEF IInv, Push
<1>2. PICK n \in 1..Least(ChunkMax, Len(cs) - pos) : rest' = SubSeq(cs, pos + 1, pos + n) /\ pos' = pos + n
  BY DEF Push
<1>3. n \in Nat /\ n > 0 /\ pos + n <= Len(cs)
  BY <1>1, StreamAssumption DEF Least
<1>4. scn' = scn /\ count' = count /\ partial' = partial /\ lenbuf' = lenbuf /\ got' = got /\ pc' = "pushing"
      /\ buffer' = Drop(buffer, at) /\ at' = 0
  BY DEF Push, Forget
<1>5. rest' = Stretch(cs, pos, pos') /\ pos' \in Nat /\ pos' <= Len(cs) /\ pos <= pos' /\ pos' - pos = n
  BY <1>1, <1>2, <1>3 DEF Stretch
<1>6. rest' \in Seq(Cell) /\ Len(rest') = n
  BY <1>1, <1>5, StretchIs
<1>7. Cur = pos /\ Cur' = pos /\ rest' # <<>>
  <2>1. Len(rest) = 0
    BY <1>1
  <2>2. pos' - Len(rest') = pos /\ rest' # <<>>
    <3>1. Len(rest') = n /\ pos' = pos + n
      BY <1>2, <1>6
    <3>2. pos + n - n = pos
      BY <1>1, <1>3
    <3>3. Len(<<>>) = 0 /\ n # 0
      BY <1>3
    <3>4. rest' # <<>>
      BY <3>1, <3>3
    <3>5. pos' - Len(rest') = pos
      BY <1>1, <1>3, <3>1
    <3> QED BY <3>4, <3>5
  <2> QED BY <1>1, <2>1, <2>2 DEF Cur
<1>8. buffer' \in Seq(Cell) /\ Len(buffer') \in Nat
  <2>1. buffer \in Seq(Cell) /\ at \in 0..Len(buffer)
    BY DEF IInv, TypeOK
  <2> QED BY <1>4, <2>1, DropIs, LenProperties
<1>9. Unread' = Unread
  <2> DEFINE b == Drop(buffer, at)
  <2>1. b \in Seq(Cell)
    BY <1>4, <1>8
  <2>2. b = Drop(b, 0)
    <3> HIDE DEF b
    <3>1. Len(b) \in Nat /\ 0 \in 0..Len(b)
      BY <2>1, LenProperties
    <3>2. Drop(b, 0) \in Seq(Cell) /\ Len(Drop(b, 0)) = Len(b) /\ \A i \in 1..Len(b) : Drop(b, 0)[i] = b[i]
      BY <2>1, <3>1, DropIs
    <3> QED BY <2>1, <3>1, <3>2, SeqEqual
  <2> QED BY <1>4, <2>2 DEF Unread
<1>10. TypeOK'
  <2>1. pos' \in 0..Len(scn'.cells) /\ rest' \in Seq(Cell)
    BY <1>4, <1>5, <1>6
  <2>2. buffer' \in Seq(Cell) /\ at' \in 0..Len(buffer')
    BY <1>4, <1>8
  <2> QED BY <1>4, <2>1, <2>2 DEF IInv, TypeOK
<1>11. Standing(scn, Cur, count, partial, lenbuf)' /\ (got \o Unread = Body(Stretch(scn.cells, 0, Cur - Len(lenbuf))))'
  BY <1>4, <1>7, <1>9 DEF IInv
<1>12. Len(rest') <= pos' /\ rest' = Stretch(scn'.cells, Cur', pos')
  BY <1>1, <1>2, <1>4, <1>5, <1>6, <1>7
<1> QED BY <1>4, <1>7, <1>10, <1>11, <1>12 DEF IInv

LEMMA AdvanceOK ==
    ASSUME IInv, NEW n \in 0..GetCount, Advance(n)
    PROVE  IInv'
<1>1. scn' = scn /\ pos' = pos /\ rest' = rest /\ count' = count /\ partial' = partial
      /\ lenbuf' = lenbuf /\ buffer' = buffer /\ pc' = pc
      /\ got' = got \o SubSeq(buffer, at + 1, at + n) /\ at' = at + n
  BY DEF Advance
<1>2. buffer \in Seq(Cell) /\ at \in 0..Len(buffer) /\ got \in Seq(Cell) /\ n \in 0..(Len(buffer) - at)
  BY DEF IInv, TypeOK, GetCount
<1>3. SubSeq(buffer, at + 1, at + n) \in Seq(Cell) /\ at' \in 0..Len(buffer) /\ got' \o Drop(buffer, at') = got \o Unread
  BY <1>1, <1>2, ReadOn DEF Unread
<1>4. got' \in Seq(Cell)
  BY <1>1, <1>2, <1>3, ConcatProperties
<1>5. (got \o Unread)' = got \o Unread
  BY <1>1, <1>3 DEF Unread
<1>6. TypeOK'
  BY <1>1, <1>3, <1>4 DEF IInv, TypeOK
<1>7. Cur' = Cur
  BY <1>1 DEF Cur
<1> QED BY <1>1, <1>5, <1>6, <1>7 DEF IInv

LEMMA ReadersOK ==
    ASSUME IInv, Get \/ Read \/ ReadAll
    PROVE  IInv'
<1>1. GetCount \in Nat
  <2>1. Len(buffer) \in Nat /\ at \in 0..Len(buffer)
    BY LenProperties DEF IInv, TypeOK
  <2> QED BY <2>1 DEF GetCount
<1>2. scn.ask \in Int
  BY StreamAssumption DEF IInv, TypeOK
<1>3. CASE Get
  <2>1. 1 \in 0..GetCount
    BY <1>1, <1>3 DEF Get, Advance
  <2> QED BY <1>3, <2>1, AdvanceOK DEF Get
<1>4. CASE Read
  <2>1. Least(scn.ask, GetCount) \in 0..GetCount
    BY <1>1, <1>2, <1>4 DEF Read, Least
  <2> QED BY <1>4, <2>1, AdvanceOK DEF Read
<1>5. CASE ReadAll
  <2>1. GetCount \in 0..GetCount
    BY <1>1
  <2> QED BY <1>5, <2>1, AdvanceOK DEF ReadAll
<1> QED BY <1>3, <1>4, <1>5

-----------------------------------------------------------------------------
(* A turn of the loop.                                                     *)

\* What the turn takes of what was pushed.
LEMMA TakenIs ==
    ASSUME IInv
    PROVE  /\ Cur \in Nat /\ Cur <= pos /\ pos <= Len(scn.cells) /\ Len(rest) = pos - Cur
           /\ Taken \in Nat /\ Taken <= pos - Cur /\ Taken <= count /\ count \in Nat
           /\ Taken = count \/ Taken = pos - Cur
           /\ Take(rest, Taken) = Stretch(scn.cells, Cur, Cur + Taken)
           /\ Untaken = Stretch(scn.cells, Cur + Taken, pos) /\ Len(Untaken) = pos - (Cur + Taken)
           /\ Untaken \in Seq(Cell)
<1> DEFINE cs == scn.cells
           t == Taken
           c == Cur
<1>1. cs \in Seq(Cell) /\ Len(cs) \in Nat /\ pos \in Nat /\ pos <= Len(cs)
  BY ScnType DEF IInv
<1>2. rest \in Seq(Cell) /\ Len(rest) \in Nat /\ Len(rest) <= pos
  BY LenProperties DEF IInv, TypeOK
<1>3. c \in Nat /\ c <= pos /\ Len(rest) = pos - c
  BY <1>1, <1>2 DEF Cur
<1>4. count \in Nat
  BY StreamAssumption DEF IInv, TypeOK
<1>5. t \in Nat /\ t <= pos - c /\ t <= count /\ (t = count \/ t = pos - c)
  BY <1>2, <1>3, <1>4 DEF Taken, Least
<1>6. rest = Stretch(cs, c, pos)
  BY DEF IInv
<1> HIDE DEF t, c
<1>7. t \in 0..(pos - c)
  BY <1>1, <1>3, <1>5
<1>8. Take(rest, t) = Stretch(cs, c, c + t) /\ Drop(rest, t) = Stretch(cs, c + t, pos)
  BY <1>1, <1>3, <1>6, <1>7, StretchCut
<1>9. t \in 0..Len(rest)
  BY <1>3, <1>7
<1>10. Drop(rest, t) \in Seq(Cell) /\ Len(Drop(rest, t)) = Len(rest) - t
  BY <1>2, <1>9, DropIs
<1>11. Len(rest) - t = pos - (c + t)
  BY <1>1, <1>3, <1>5
<1> QED BY <1>1, <1>3, <1>4, <1>5, <1>8, <1>10, <1>11 DEF t, c, Untaken

\* Outside of a length: the octets of the portion that came.
LEMMA TakenBody ==
    ASSUME IInv, lenbuf = <<>>
    PROVE  /\ \A i \in (Cur + 1)..(Cur + Taken) : IsBody(scn.cells[i])
           /\ (got \o Unread) \o Take(rest, Taken) = Body(Stretch(scn.cells, 0, Cur + Taken))
<1> DEFINE cs == scn.cells
           t == Taken
           c == Cur
           b == c + t
<1>1. cs \in Seq(Cell) /\ Len(cs) \in Nat /\ pos \in Nat
  BY ScnType DEF IInv
<1>2. /\ c \in Nat /\ c <= pos /\ pos <= Len(cs) /\ t \in Nat /\ t <= pos - c /\ t <= count /\ count \in Nat
      /\ Take(rest, t) = Stretch(cs, c, b)
  BY TakenIs
<1>3. Standing(scn, c, count, partial, <<>>) /\ partial \in BOOLEAN
  BY DEF IInv, TypeOK
<1>4. got \o Unread = Body(Stretch(cs, 0, c))
  <2>1. Len(lenbuf) = 0
    OBVIOUS
  <2>2. c - 0 = c
    BY <1>2
  <2>3. got \o Unread = Body(Stretch(cs, 0, c - Len(lenbuf)))
    BY DEF IInv
  <2> QED BY <2>1, <2>2, <2>3
<1> HIDE DEF t, c
<1>5. b \in Nat /\ c <= b /\ b <= Len(cs)
  BY <1>1, <1>2
<1>6. \A i \in (c + 1)..b : IsBody(cs[i])
  <2>1. ASSUME NEW i \in (c + 1)..b PROVE IsBody(cs[i])
    <3>1. i \in (c + 1)..Len(cs) /\ i <= c + count
      BY <1>1, <1>2, <1>5
    <3> QED BY <1>3, <3>1 DEF Standing
  <2> QED BY <2>1
<1> HIDE DEF b
<1>7. Body(Stretch(cs, 0, b)) = Body(Stretch(cs, 0, c)) \o Stretch(cs, c, b)
  BY <1>1, <1>2, <1>5, <1>6, BodyStep
<1> QED BY <1>2, <1>4, <1>6, <1>7 DEF b, t, c

\* At a length: q cells stand in front of it, and what came of it is collected
\* up to e.
LEMMA LengthPlace ==
    ASSUME IInv, AtLength,
           NEW q, NEW e, q = (Cur + Taken) - Len(lenbuf), e = Cur + Taken + Fill
    PROVE  /\ q \in Nat /\ e \in Nat /\ q <= e /\ e <= pos /\ e - q <= LenMax
           /\ Filled = Stretch(scn.cells, q, e) /\ Filled \in Seq(Cell) /\ Len(Filled) = e - q
           /\ Drop(Untaken, Fill) = Stretch(scn.cells, e, pos)
           /\ e < pos => Len(Filled) = LenMax
           /\ q < Len(scn.cells) => q + 1 \in Starts(scn)
           /\ (got \o Unread) \o Take(rest, Taken) = Body(Stretch(scn.cells, 0, q))
           /\ Missing = 0 /\ partial
<1> DEFINE cs == scn.cells
           t == Taken
           c == Cur
           f == Fill
           l == Len(lenbuf)
           b == c + t
<1>1. cs \in Seq(Cell) /\ Len(cs) \in Nat /\ pos \in Nat
  BY ScnType DEF IInv
<1>2. /\ c \in Nat /\ c <= pos /\ pos <= Len(cs) /\ t \in Nat /\ t <= pos - c /\ t <= count /\ count \in Nat
      /\ Take(rest, t) = Stretch(cs, c, b) /\ Untaken = Stretch(cs, b, pos) /\ Len(Untaken) = pos - b
      /\ Untaken \in Seq(Cell)
  BY TakenIs
<1>3. lenbuf \in Seq(Cell) /\ l \in Nat /\ l < LenMax /\ LenMax \in Nat
  BY LenProperties, StreamAssumption DEF IInv, TypeOK
<1>4. partial /\ Missing = 0 /\ count - t = 0
  BY DEF AtLength, Missing
<1>5. Standing(scn, c, count, partial, lenbuf)
  BY DEF IInv
<1>6. l <= c /\ lenbuf = Stretch(cs, c - l, c)
  BY <1>5 DEF Standing
<1>7. f \in Nat /\ f <= pos - b /\ f <= LenMax - l /\ (f = pos - b \/ f = LenMax - l)
  BY <1>1, <1>2, <1>3 DEF Fill, Least
<1> HIDE DEF t, c, f, l
<1>8. b \in Nat /\ b <= pos /\ b <= Len(cs) /\ q = b - l /\ e = b + f
  BY <1>1, <1>2 DEF l, t, c, f
<1>9. ASSUME l = 0
      PROVE  Filled = Stretch(cs, q, e) /\ Drop(Untaken, Fill) = Stretch(cs, e, pos)
             /\ (q < Len(cs) => q + 1 \in Starts(scn))
             /\ (got \o Unread) \o Take(rest, Taken) = Body(Stretch(cs, 0, q))
  <2>1. lenbuf = <<>>
    BY <1>3, <1>9, EmptySeq DEF l
  <2>2. q = b
    BY <1>8, <1>9
  <2>3. (got \o Unread) \o Take(rest, Taken) = Body(Stretch(cs, 0, q))
    BY <2>1, <2>2, TakenBody DEF t, c
  <2>4. q < Len(cs) => q + 1 \in Starts(scn)
    <3>1. q = c + count
      BY <1>2, <1>4, <2>2
    <3> QED BY <1>4, <1>5, <2>1, <3>1 DEF Standing
  <2> HIDE DEF b
  <2>5. f \in 0..(pos - b)
    BY <1>1, <1>7, <1>8
  <2>6. Take(Untaken, f) = Stretch(cs, b, b + f) /\ Drop(Untaken, f) = Stretch(cs, b + f, pos)
    BY <1>1, <1>2, <1>8, <2>5, StretchCut
  <2>7. Filled = Stretch(cs, q, e)
    <3>1. e \in Nat /\ b <= e /\ e <= Len(cs)
      BY <1>1, <1>2, <1>7, <1>8
    <3>2. Stretch(cs, b, e) \in Seq(Cell)
      BY <1>1, <1>8, <3>1, StretchIs
    <3>3. <<>> \o Stretch(cs, b, e) = Stretch(cs, b, e)
      BY <3>2, ConcatEmptySeq
    <3>4. Filled = <<>> \o Take(Untaken, f)
      BY <2>1 DEF Filled, f
    <3> QED BY <1>8, <2>2, <2>6, <3>3, <3>4
  <2> QED BY <1>8, <2>2, <2>3, <2>4, <2>6, <2>7 DEF f
<1>10. ASSUME l # 0
       PROVE  Filled = Stretch(cs, q, e) /\ Drop(Untaken, Fill) = Stretch(cs, e, pos)
             /\ (q < Len(cs) => q + 1 \in Starts(scn))
             /\ (got \o Unread) \o Take(rest, Taken) = Body(Stretch(cs, 0, q))
  <2>1. lenbuf # <<>>
    BY <1>10 DEF l
  <2>2. count = 0 /\ c - l + 1 \in Starts(scn)
    BY <1>5, <2>1 DEF Standing, l
  <2>3. t = 0 /\ b = c /\ q = c - l
    BY <1>2, <1>8, <2>2
  <2>4. q + 1 \in Starts(scn)
    BY <2>2, <2>3
  <2>5. (got \o Unread) \o Take(rest, Taken) = Body(Stretch(cs, 0, q))
    <3>1. got \o Unread = Body(Stretch(cs, 0, q))
      BY <2>3 DEF IInv, c, l
    <3>2. Take(rest, Taken) = <<>>
      <4>1. Take(rest, 0) = <<>>
        BY DEF Take
      <4> QED BY <2>3, <4>1 DEF t
    <3>3. got \in Seq(Cell) /\ Unread \in Seq(Cell)
      BY DropIs DEF IInv, TypeOK, Unread
    <3>4. got \o Unread \in Seq(Cell)
      BY <3>3, ConcatProperties
    <3>5. (got \o Unread) \o <<>> = got \o Unread
      BY <3>4, ConcatEmptySeq
    <3> QED BY <3>1, <3>2, <3>5
  <2>6. f \in 0..(pos - c)
    BY <1>1, <1>2, <1>7, <2>3
  <2>7. Take(Untaken, f) = Stretch(cs, c, c + f) /\ Drop(Untaken, f) = Stretch(cs, c + f, pos)
    <3>1. Untaken = Stretch(cs, c, pos)
      BY <1>2, <2>3
    <3> QED BY <1>1, <1>2, <2>6, <3>1, StretchCut
  <2>8. e = c + f
    BY <1>8, <2>3
  <2>9. Filled = Stretch(cs, q, e)
    <3>1. q \in Nat /\ e \in Nat /\ q <= c /\ c <= e /\ e <= Len(cs)
      BY <1>1, <1>2, <1>3, <1>6, <1>7, <2>3, <2>8
    <3>2. Stretch(cs, q, c) \o Stretch(cs, c, e) = Stretch(cs, q, e)
      BY <1>1, <1>2, <3>1, StretchJoin, SMTT(30)
    <3>3. Filled = Stretch(cs, q, c) \o Take(Untaken, f)
      BY <1>6, <2>3 DEF Filled, f
    <3> QED BY <2>7, <2>8, <3>2, <3>3
  <2> QED BY <2>4, <2>5, <2>7, <2>8, <2>9 DEF f
<1>11. q \in Nat /\ e \in Nat /\ q <= e /\ e <= pos /\ e <= Len(cs) /\ e - q <= LenMax
       /\ (e < pos => e - q = LenMax)
  <2>1. c - l \in Nat
    BY <1>2, <1>3, <1>6
  <2> HIDE DEF b
  <2>2. q = (c - l) + t
    BY <1>2, <1>3, <1>8 DEF b
  <2>3. q \in Nat /\ e \in Nat /\ e <= pos
    BY <1>1, <1>2, <1>7, <1>8, <2>1, <2>2
  <2>4. e - q = f + l
    BY <1>3, <1>7, <1>8
  <2>5. f + l <= LenMax /\ f + l >= 0
    BY <1>3, <1>7
  <2>6. e < pos => f + l = LenMax
    BY <1>1, <1>3, <1>7, <1>8
  <2> QED BY <1>1, <1>2, <2>3, <2>4, <2>5, <2>6
<1>12. Stretch(cs, q, e) \in Seq(Cell) /\ Len(Stretch(cs, q, e)) = e - q
  BY <1>1, <1>11, StretchIs
<1> QED BY <1>4, <1>9, <1>10, <1>11, <1>12

\* What a turn has to leave behind: x goes to the buffer and c cells are looked at.
LEMMA TurnOK ==
    ASSUME IInv, Turn, NEW c \in Nat, c <= pos, rest' = Stretch(scn.cells, c, pos),
           count' \in 0..(Wrap - 1), partial' \in BOOLEAN, lenbuf' \in Seq(Cell), Len(lenbuf') < LenMax,
           NEW x \in Seq(Cell), buffer' = buffer \o x,
           Standing(scn, c, count', partial', lenbuf'),
           (got \o Unread) \o x = Body(Stretch(scn.cells, 0, c - Len(lenbuf'))),
           rest' # <<>> => count' # 0 \/ Taken # 0
    PROVE  IInv'
<1>1. scn.cells \in Seq(Cell) /\ Len(scn.cells) \in Nat /\ pos \in Nat /\ pos <= Len(scn.cells)
  BY ScnType DEF IInv
<1>2. scn' = scn /\ pos' = pos /\ at' = at /\ got' = got
      /\ pc' = IF rest' = <<>> THEN "idle" ELSE IF count' # 0 \/ Taken # 0 THEN "pushing" ELSE "aborted"
  BY DEF Turn, EndTurn
<1>3. rest' \in Seq(Cell) /\ Len(rest') = pos - c
  BY <1>1, StretchIs
<1>4. Cur' = c
  <2>1. pos - (pos - c) = c
    BY <1>1
  <2> QED BY <1>2, <1>3, <2>1 DEF Cur
<1>5. buffer \in Seq(Cell) /\ at \in 0..Len(buffer) /\ got \in Seq(Cell)
  BY DEF IInv, TypeOK
<1>6. buffer' \in Seq(Cell) /\ Len(buffer') = Len(buffer) + Len(x) /\ Len(buffer) \in Nat /\ Len(x) \in Nat
  BY <1>5, ConcatProperties, LenProperties
<1>7. (got \o Unread)' = (got \o Unread) \o x
  <2>1. Drop(buffer \o x, at) = Drop(buffer, at) \o x /\ Drop(buffer, at) \in Seq(Cell)
    BY <1>5, DropConcat, DropIs
  <2>2. (got \o Drop(buffer, at)) \o x = got \o (Drop(buffer, at) \o x)
    <3> DEFINE d == Drop(buffer, at)
    <3>1. d \in Seq(Cell)
      BY <2>1
    <3> HIDE DEF d
    <3>2. (got \o d) \o x = got \o (d \o x)
      BY <1>5, <3>1, ConcatThree
    <3> QED BY <3>2 DEF d
  <2> QED BY <1>2, <2>1, <2>2 DEF Unread
<1>8. TypeOK'
  <2>1. at' \in 0..Len(buffer')
    BY <1>2, <1>5, <1>6
  <2>2. pos' \in 0..Len(scn'.cells) /\ scn' \in Scenarios
    BY <1>1, <1>2 DEF IInv, TypeOK
  <2>3. pc' \in {"idle", "pushing", "aborted"} /\ got' \in Seq(Cell)
    BY <1>2, <1>5
  <2> QED BY <1>3, <1>6, <2>1, <2>2, <2>3 DEF TypeOK
<1>9. pc' # "aborted" /\ (pc' = "idle" <=> rest' = <<>>)
  BY <1>2
<1>10. Len(rest') <= pos' /\ rest' = Stretch(scn'.cells, Cur', pos')
  BY <1>1, <1>2, <1>3, <1>4
<1>11. Standing(scn, Cur, count, partial, lenbuf)'
  BY <1>2, <1>4
<1>12. (got \o Unread = Body(Stretch(scn.cells, 0, Cur - Len(lenbuf))))'
  BY <1>2, <1>4, <1>7
<1> QED BY <1>8, <1>9, <1>10, <1>11, <1>12 DEF IInv

LEMMA TakeBodyOK ==
    ASSUME IInv, TakeBody
    PROVE  IInv'
<1> DEFINE cs == scn.cells
           t == Taken
           c == Cur
           b == c + t
           m == Missing
<1>1. cs \in Seq(Cell) /\ Len(cs) \in Nat /\ pos \in Nat
  BY ScnType DEF IInv
<1>2. /\ c \in Nat /\ c <= pos /\ pos <= Len(cs) /\ t \in Nat /\ t <= pos - c /\ t <= count /\ count \in Nat
      /\ Take(rest, t) = Stretch(cs, c, b) /\ Untaken = Stretch(cs, b, pos) /\ Len(Untaken) = pos - b
  BY TakenIs
<1>3. Standing(scn, c, count, partial, lenbuf) /\ partial \in BOOLEAN /\ count \in 0..(Wrap - 1)
  BY DEF IInv, TypeOK
<1>4. ~AtLength /\ rest' = Untaken /\ count' = m /\ buffer' = buffer \o Take(rest, t)
      /\ partial' = partial /\ lenbuf' = lenbuf /\ Turn
  BY DEF TakeBody
<1>5. (partial => m = count - t) /\ (~partial => m = count) /\ (partial => m # 0)
  BY <1>4 DEF Missing, AtLength
<1>6. lenbuf = <<>>
  <2>1. SUFFICES ASSUME lenbuf # <<>> PROVE FALSE
    OBVIOUS
  <2>2. partial /\ count = 0
    BY <1>3, <2>1 DEF Standing
  <2> QED BY <1>2, <1>5, <2>2
<1>7. (\A i \in (c + 1)..b : IsBody(cs[i])) /\ (got \o Unread) \o Take(rest, t) = Body(Stretch(cs, 0, b))
  BY <1>6, TakenBody
<1> HIDE DEF t, c, m
<1>8. b \in Nat /\ c <= b /\ b <= pos /\ b <= Len(cs) /\ m \in 0..(Wrap - 1)
  <2>1. b \in Nat /\ c <= b /\ b <= pos /\ b <= Len(cs)
    BY <1>1, <1>2
  <2>2. m \in 0..(Wrap - 1)
    <3>1. Wrap - 1 \in Int /\ (m = count - t \/ m = count)
      BY <1>3, <1>5, StreamAssumption
    <3> QED BY <1>2, <1>3, <3>1
  <2> QED BY <2>1, <2>2
<1> HIDE DEF b
<1>9. Take(rest, t) \in Seq(Cell)
  BY <1>1, <1>2, <1>8, StretchIs
<1>10. b + m = c + count \/ ~partial
  BY <1>1, <1>2, <1>5 DEF b
<1>11. Standing(scn, b, m, partial, <<>>)
  <2>1. <<>> = Stretch(cs, b, b)
    BY <1>1, <1>8, StretchIs, EmptySeq
  <2>2. Len(<<>>) = 0 /\ b - 0 = b
    BY <1>8
  <2>3. ASSUME partial
        PROVE  /\ \A i \in (b + 1)..Len(cs) : i <= b + m => IsBody(cs[i])
               /\ b + m < Len(cs) => b + m + 1 \in Starts(scn)
    <3>1. \A i \in (c + 1)..Len(cs) : i <= c + count => IsBody(cs[i])
      BY <1>3, <1>6, <2>3 DEF Standing
    <3>2. c + count < Len(cs) => c + count + 1 \in Starts(scn)
      BY <1>3, <1>6, <2>3 DEF Standing
    <3>3. b + m = c + count
      BY <1>10, <2>3
    <3>4. \A i \in (b + 1)..Len(cs) : i \in (c + 1)..Len(cs)
      BY <1>1, <1>2, <1>8
    <3> QED BY <3>1, <3>2, <3>3, <3>4
  <2>4. ASSUME ~partial
        PROVE  (\A i \in (b + 1)..Len(cs) : IsBody(cs[i])) /\ (b < Len(cs) => m > 0)
    <3>1. (\A i \in (c + 1)..Len(cs) : IsBody(cs[i])) /\ (c < Len(cs) => count > 0)
      BY <1>3, <2>4 DEF Standing
    <3>2. \A i \in (b + 1)..Len(cs) : i \in (c + 1)..Len(cs)
      BY <1>1, <1>2, <1>8
    <3>3. b < Len(cs) => c < Len(cs)
      BY <1>1, <1>2, <1>8
    <3> QED BY <1>5, <2>4, <3>1, <3>2, <3>3
  <2> QED BY <1>8, <2>1, <2>2, <2>3, <2>4 DEF Standing
<1>12. rest' # <<>> => m # 0
  <2>1. ASSUME rest' # <<>>, ~partial PROVE m # 0
    <3>1. Len(Untaken) # 0
      BY <1>4, <2>1, TakenIs, EmptySeq
    <3>2. b < Len(cs)
      BY <1>1, <1>2, <1>8, <3>1
    <3>3. m > 0
      BY <1>11, <2>1, <3>2 DEF Standing
    <3> QED BY <1>8, <3>3
  <2> QED BY <1>5, <2>1
<1>13. (got \o Unread) \o Take(rest, t) = Body(Stretch(cs, 0, b - Len(lenbuf'))) /\ Len(lenbuf') = 0
  <2>1. Len(lenbuf') = 0 /\ b - 0 = b
    BY <1>4, <1>6, <1>8
  <2> QED BY <1>7, <2>1 DEF b, c, t
<1>14. 0 < LenMax /\ lenbuf' \in Seq(Cell)
  BY <1>4, <1>6, StreamAssumption
<1>15. Standing(scn, b, count', partial', lenbuf') /\ rest' = Stretch(cs, b, pos) /\ count' \in 0..(Wrap - 1)
       /\ partial' \in BOOLEAN /\ Len(lenbuf') < LenMax /\ (rest' # <<>> => count' # 0)
  BY <1>2, <1>3, <1>4, <1>6, <1>8, <1>11, <1>12, <1>13, <1>14
<1> QED BY <1>4, <1>8, <1>9, <1>13, <1>14, <1>15, TurnOK

\* A length that goes on in the next push.
LEMMA FillLengthOK ==
    ASSUME IInv, FillLength
    PROVE  IInv'
<1> DEFINE cs == scn.cells
           q == (Cur + Taken) - Len(lenbuf)
           e == Cur + Taken + Fill
<1>1. cs \in Seq(Cell) /\ Len(cs) \in Nat /\ pos \in Nat /\ pos <= Len(cs)
  BY ScnType DEF IInv
<1>2. /\ AtLength /\ ~CanReadLength /\ rest' = Drop(Untaken, Fill) /\ count' = Missing /\ lenbuf' = Filled
      /\ buffer' = buffer \o Take(rest, Taken) /\ partial' = partial /\ Turn
  BY DEF FillLength
<1>3. Take(rest, Taken) \in Seq(Cell)
  <2>1. rest \in Seq(Cell) /\ Taken \in 0..Len(rest)
    BY TakenIs DEF IInv, TypeOK
  <2> QED BY <2>1, TakeIs
<1> HIDE DEF q, e
<1>4. /\ q \in Nat /\ e \in Nat /\ q <= e /\ e <= pos /\ e - q <= LenMax
      /\ Filled = Stretch(cs, q, e) /\ Filled \in Seq(Cell) /\ Len(Filled) = e - q
      /\ Drop(Untaken, Fill) = Stretch(cs, e, pos)
      /\ e < pos => Len(Filled) = LenMax
      /\ q < Len(cs) => q + 1 \in Starts(scn)
      /\ (got \o Unread) \o Take(rest, Taken) = Body(Stretch(cs, 0, q))
      /\ Missing = 0 /\ partial
  BY <1>2, LengthPlace DEF q, e
<1>5. Len(Filled) # LenMax /\ ~(Filled # <<>> /\ IsOneOctet(Filled[1].octet))
  BY <1>2 DEF CanReadLength
<1>6. Len(Filled) < LenMax /\ LenMax \in Nat
  BY <1>4, <1>5, StreamAssumption
<1>7. ~(e < pos) /\ e = pos
  BY <1>1, <1>4, <1>5
<1>8. e - Len(Filled) = q
  BY <1>4
<1>9. Standing(scn, e, 0, TRUE, Filled)
  <2>1. Len(Filled) <= e /\ Filled = Stretch(cs, e - Len(Filled), e)
    BY <1>4, <1>8
  <2>2. ASSUME Filled # <<>>
        PROVE  e - Len(Filled) + 1 \in Starts(scn) /\ ~IsOneOctet(Filled[1].octet)
    <3>1. Len(Filled) # 0
      BY <1>4, <2>2, EmptySeq
    <3>2. q < Len(cs)
      BY <1>1, <1>4, <3>1
    <3> QED BY <1>4, <1>5, <1>8, <2>2, <3>2
  <2>3. ASSUME Filled = <<>>
        PROVE  /\ \A i \in (e + 1)..Len(cs) : i <= e + 0 => IsBody(cs[i])
               /\ e + 0 < Len(cs) => e + 0 + 1 \in Starts(scn)
    <3>1. e = q
      <4>1. Len(Filled) = 0
        BY <2>3
      <4> QED BY <1>4, <4>1
    <3>2. e + 0 = e /\ \A i \in (e + 1)..Len(cs) : ~(i <= e)
      BY <1>1, <1>4
    <3> QED BY <1>4, <3>1, <3>2
  <2> QED BY <2>1, <2>2, <2>3 DEF Standing
<1>10. rest' = <<>>
  <2>1. Stretch(cs, e, e) = <<>>
    <3>1. e \in Nat /\ e <= e /\ e <= Len(cs) /\ e - e = 0
      BY <1>1, <1>4, <1>7
    <3>2. Stretch(cs, e, e) \in Seq(Cell) /\ Len(Stretch(cs, e, e)) = e - e
      BY <1>1, <3>1, StretchIs
    <3> QED BY <3>1, <3>2, EmptySeq
  <2> QED BY <1>2, <1>4, <1>7, <2>1
<1>11. /\ Standing(scn, e, count', partial', lenbuf') /\ rest' = Stretch(cs, e, pos)
       /\ count' \in 0..(Wrap - 1) /\ partial' \in BOOLEAN /\ lenbuf' \in Seq(Cell) /\ Len(lenbuf') < LenMax
  <2>1. 0 \in 0..(Wrap - 1) /\ partial \in BOOLEAN
    BY StreamAssumption DEF IInv, TypeOK
  <2>2. partial' = TRUE
    BY <1>2, <1>4, <2>1
  <2> QED BY <1>2, <1>4, <1>6, <1>9, <2>1, <2>2
<1>12. (got \o Unread) \o Take(rest, Taken) = Body(Stretch(cs, 0, e - Len(lenbuf')))
  BY <1>2, <1>4, <1>8
<1> QED BY <1>2, <1>3, <1>4, <1>10, <1>11, <1>12, TurnOK

\* What a framed body has behind q cells, with k of it to read the length from.
LEMMA LengthIs ==
    ASSUME NEW s, Framed(s), s.cells \in Seq(Cell), NEW q \in Nat, NEW e \in Nat, q < e, e <= Len(s.cells),
           q + 1 \in Starts(s), e - q <= LenMax, NEW b, b = Stretch(s.cells, q, e),
           e - q = LenMax \/ IsOneOctet(b[1].octet)
    PROVE  ReadLength(Octets(b)).size \in 1..(e - q) /\ InPlace(s, q + 1, ReadLength(Octets(b)))
<1> DEFINE p == q + 1
           k == e - q
           cs == s.cells
<1>1. Len(cs) \in Nat /\ LenMax \in Nat
  BY LenProperties, StreamAssumption
<1>2. p \in Starts(s) /\ k \in 1..Least(LenMax, Len(cs) + 1 - p)
  <2> DEFINE n == Len(cs)
  <2>1. n \in Nat /\ q + 1 <= n /\ e <= n
    BY <1>1
  <2> HIDE DEF n
  <2>2. n + 1 - p = n - q /\ k \in Nat /\ k >= 1 /\ k <= LenMax /\ k <= n - q
    BY <1>1, <2>1
  <2>3. k \in 1..LenMax /\ k \in 1..(n + 1 - p)
    BY <1>1, <2>1, <2>2
  <2>4. k \in 1..Least(LenMax, n + 1 - p)
    BY <2>3, Zenon DEF Least
  <2> QED BY <2>4, Zenon DEF n
<1>3. p + k - 1 = e /\ b = SubSeq(cs, p, p + k - 1)
  BY DEF Stretch
<1>4. LengthAt(s, p, k) = ReadLength(Octets(b))
  BY <1>3 DEF LengthAt
<1>5. b[1] = cs[p]
  <2>1. 1 \in 1..(e - q) /\ q <= e
    OBVIOUS
  <2>2. Stretch(cs, q, e)[1] = cs[q + 1]
    BY <2>1, StretchIs
  <2> QED BY <2>2
<1> HIDE DEF p, k
<1>6. k = LenMax \/ IsOneOctet(cs[p].octet)
  BY <1>5 DEF k
<1>7. LengthAt(s, p, k).size \in 1..k /\ InPlace(s, p, LengthAt(s, p, k))
  BY <1>2, <1>6 DEF Framed
<1> QED BY <1>4, <1>7 DEF p, k

LEMMA TakeLengthOK ==
    ASSUME \A s \in Scenarios : Framed(s), IInv, TakeLength
    PROVE  IInv'
<1> DEFINE cs == scn.cells
           q == (Cur + Taken) - Len(lenbuf)
           e == Cur + Taken + Fill
           length == ReadLength(Octets(Filled))
           size == length.size
           len == length.len
           left == Drop(Filled, size)
           b == q + size
           taken == Take(rest, Taken)
<1>1. cs \in Seq(Cell) /\ Len(cs) \in Nat /\ pos \in Nat /\ pos <= Len(cs) /\ scn \in Scenarios
  BY ScnType DEF IInv, TypeOK
<1>2. /\ AtLength /\ CanReadLength /\ count' = (len - Len(left)) % Wrap /\ partial' = length.partial
      /\ buffer' = buffer \o taken \o left /\ rest' = Drop(Untaken, Fill) /\ lenbuf' = <<>> /\ Turn
  BY DEF TakeLength, LeaveRest
<1>3. taken \in Seq(Cell)
  <2>1. rest \in Seq(Cell) /\ Taken \in 0..Len(rest)
    BY TakenIs DEF IInv, TypeOK
  <2> QED BY <2>1, TakeIs
<1> HIDE DEF q, e
<1>4. /\ q \in Nat /\ e \in Nat /\ q <= e /\ e <= pos /\ e - q <= LenMax
      /\ Filled = Stretch(cs, q, e) /\ Filled \in Seq(Cell) /\ Len(Filled) = e - q
      /\ Drop(Untaken, Fill) = Stretch(cs, e, pos)
      /\ q < Len(cs) => q + 1 \in Starts(scn)
      /\ (got \o Unread) \o taken = Body(Stretch(cs, 0, q))
  BY <1>2, LengthPlace DEF q, e
<1> HIDE DEF taken
<1>5. LenMax \in Nat \ {0} /\ Wrap \in Nat \ {0}
  BY StreamAssumption
<1>6. q < e /\ e <= Len(cs) /\ q + 1 \in Starts(scn) /\ (e - q = LenMax \/ IsOneOctet(Filled[1].octet))
  <2>1. Len(Filled) = LenMax \/ (Filled # <<>> /\ IsOneOctet(Filled[1].octet))
    BY <1>2 DEF CanReadLength
  <2>2. Len(Filled) # 0
    BY <1>4, <1>5, <2>1, EmptySeq
  <2> QED BY <1>1, <1>4, <2>1, <2>2
<1>7. size \in 1..(e - q) /\ InPlace(scn, q + 1, length)
  BY <1>1, <1>4, <1>6, LengthIs
<1>8. length.partial \in BOOLEAN
  BY DEF ReadLength, IsPartial
<1> HIDE DEF length, size, len
<1>9. /\ len \in 0..(Wrap - 1)
      /\ \A i \in (q + 1)..(q + 1 + size - 1) : ~IsBody(cs[i])
      /\ \A i \in (q + 1 + size)..Least(Len(cs), q + 1 + size + len - 1) : IsBody(cs[i])
      /\ length.partial => /\ len > LenMax - size
                           /\ q + 1 + size + len - 1 < Len(cs) => q + 1 + size + len - 1 + 1 \in Starts(scn)
      /\ ~length.partial => Len(cs) <= q + 1 + size + len - 1
  BY <1>7 DEF InPlace, size, len
<1>10. /\ q + 1 + size - 1 = b /\ q + 1 + size = b + 1 /\ q + 1 + size + len - 1 = b + len
       /\ b \in Nat /\ b + len \in Nat /\ b <= e /\ q <= b /\ b <= Len(cs)
       /\ q + 1 + size + len - 1 + 1 = b + len + 1
  BY <1>4, <1>6, <1>7, <1>9
<1>11. (\A i \in (q + 1)..b : ~IsBody(cs[i])) /\ \A i \in (b + 1)..Len(cs) : i <= b + len => IsBody(cs[i])
  BY <1>1, <1>9, <1>10 DEF Least
<1>12. /\ length.partial => len > LenMax - size /\ (b + len < Len(cs) => b + len + 1 \in Starts(scn))
       /\ ~length.partial => Len(cs) <= b + len
  BY <1>9, <1>10
<1> HIDE DEF b
<1>13. e <= b + len /\ (length.partial => e < b + len)
  <2>1. CASE length.partial
    <3>1. len > LenMax - size
      BY <1>12, <2>1
    <3>2. e - q <= LenMax /\ b = q + size
      BY <1>4 DEF b
    <3> QED BY <1>4, <1>5, <1>7, <1>9, <3>1, <3>2
  <2>2. CASE ~length.partial
    BY <1>1, <1>4, <1>6, <1>10, <1>12, <2>2
  <2> QED BY <1>8, <2>1, <2>2
<1>14. left = Stretch(cs, b, e) /\ left \in Seq(Cell) /\ Len(left) = e - b
  <2>1. size \in 0..(e - q) /\ q <= e /\ e <= Len(cs)
    BY <1>4, <1>6, <1>7
  <2>2. left = Stretch(cs, b, e)
    BY <1>1, <1>4, <2>1, StretchCut DEF b
  <2>3. Stretch(cs, b, e) \in Seq(Cell) /\ Len(Stretch(cs, b, e)) = e - b
    BY <1>1, <1>4, <1>6, <1>10, StretchIs
  <2> QED BY <2>2, <2>3
<1> HIDE DEF left
<1>15. count' = (b + len) - e /\ count' \in 0..(Wrap - 1)
  <2> DEFINE n == len - Len(left)
  <2>1. n = (b + len) - e
    BY <1>4, <1>9, <1>10, <1>14
  <2>2. n \in 0..(Wrap - 1)
    BY <1>4, <1>5, <1>9, <1>10, <1>13, <1>14
  <2> HIDE DEF n
  <2>3. n % Wrap = n
    BY <1>5, <2>2
  <2> QED BY <1>2, <2>1, <2>2, <2>3 DEF n
<1>16. e + count' = b + len
  BY <1>4, <1>10, <1>15
<1>17. Standing(scn, e, count', partial', <<>>)
  <2>1. <<>> = Stretch(cs, e, e)
    <3>1. e \in Nat /\ e <= e /\ e <= Len(cs) /\ e - e = 0
      BY <1>4, <1>6
    <3>2. Stretch(cs, e, e) \in Seq(Cell) /\ Len(Stretch(cs, e, e)) = e - e
      BY <1>1, <3>1, StretchIs
    <3> QED BY <3>1, <3>2, EmptySeq
  <2>2. Len(<<>>) = 0 /\ e - 0 = e
    BY <1>4
  <2>3. \A i \in (e + 1)..Len(cs) : i \in (b + 1)..Len(cs)
    BY <1>1, <1>4, <1>10
  <2>4. \A i \in (e + 1)..Len(cs) : i <= e + count' => IsBody(cs[i])
    BY <1>11, <1>16, <2>3
  <2>5. length.partial => (e + count' < Len(cs) => e + count' + 1 \in Starts(scn))
    BY <1>12, <1>16
  <2>6. ASSUME ~length.partial
        PROVE  (\A i \in (e + 1)..Len(cs) : IsBody(cs[i])) /\ (e < Len(cs) => count' > 0)
    <3>1. Len(cs) <= b + len
      BY <1>12, <2>6
    <3>2. \A i \in (e + 1)..Len(cs) : i <= b + len
      BY <1>1, <1>4, <1>10, <3>1
    <3>3. e < Len(cs) => (b + len) - e > 0
      BY <1>1, <1>4, <1>10, <3>1
    <3> QED BY <1>15, <1>16, <2>4, <3>2, <3>3
  <2>7. partial' = length.partial /\ Len(<<>>) <= e
    BY <1>2, <1>4, <2>2
  <2> QED BY <2>1, <2>2, <2>4, <2>5, <2>6, <2>7 DEF Standing
<1> DEFINE x == taken \o left
<1>18. x \in Seq(Cell) /\ buffer' = buffer \o x
  <2>1. buffer \in Seq(Cell)
    BY DEF IInv, TypeOK
  <2>2. (buffer \o taken) \o left = buffer \o (taken \o left)
    BY <1>3, <1>14, <2>1, ConcatThree DEF taken
  <2> QED BY <1>2, <1>3, <1>14, <2>2, ConcatProperties DEF taken
<1>19. (got \o Unread) \o x = Body(Stretch(cs, 0, e))
  <2> DEFINE g == got \o Unread
  <2>1. g \in Seq(Cell) /\ taken \in Seq(Cell)
    BY <1>3, DropIs, ConcatProperties DEF IInv, TypeOK, Unread, taken
  <2>2. g \o taken = Body(Stretch(cs, 0, q))
    BY <1>4
  <2> HIDE DEF g
  <2>3. (g \o taken) \o left = g \o (taken \o left)
    BY <1>14, <2>1, ConcatThree
  <2>4. Body(Stretch(cs, 0, b)) = Body(Stretch(cs, 0, q))
    BY <1>1, <1>4, <1>10, <1>11, BodySkip
  <2>5. \A i \in (b + 1)..e : IsBody(cs[i])
    <3>1. \A i \in (b + 1)..e : i \in (b + 1)..Len(cs) /\ i <= b + len
      BY <1>1, <1>4, <1>6, <1>10, <1>13
    <3> QED BY <1>11, <3>1
  <2>6. Body(Stretch(cs, 0, e)) = Body(Stretch(cs, 0, b)) \o Stretch(cs, b, e)
    BY <1>1, <1>4, <1>6, <1>10, <2>5, BodyStep
  <2> QED BY <1>14, <2>2, <2>3, <2>4, <2>6 DEF g
<1> HIDE DEF x
<1>20. rest' = Stretch(cs, e, pos) /\ (rest' # <<>> => count' # 0)
  <2>1. rest' = Stretch(cs, e, pos)
    BY <1>2, <1>4
  <2>2. ASSUME rest' # <<>> PROVE count' # 0
    <3>1. Stretch(cs, e, pos) \in Seq(Cell) /\ Len(Stretch(cs, e, pos)) = pos - e
      BY <1>1, <1>4, StretchIs
    <3>2. pos - e # 0
      BY <2>1, <2>2, <3>1, EmptySeq
    <3>3. e < Len(cs)
      BY <1>1, <1>4, <3>2
    <3>4. CASE length.partial
      BY <1>4, <1>10, <1>13, <1>15, <3>4
    <3>5. CASE ~length.partial
      BY <1>1, <1>4, <1>10, <1>12, <1>15, <3>3, <3>5
    <3> QED BY <1>8, <3>4, <3>5
  <2> QED BY <2>1, <2>2
<1>21. lenbuf' \in Seq(Cell) /\ Len(lenbuf') < LenMax /\ e - Len(lenbuf') = e /\ partial' \in BOOLEAN
  <2>1. Len(<<>>) = 0 /\ 0 < LenMax /\ e - 0 = e
    BY <1>4, <1>5
  <2> QED BY <1>2, <1>8, <2>1
<1>22. Standing(scn, e, count', partial', lenbuf') /\ (got \o Unread) \o x = Body(Stretch(cs, 0, e - Len(lenbuf')))
  BY <1>2, <1>17, <1>19, <1>21
<1>23. Turn /\ e <= pos /\ e \in Nat
  BY <1>2, <1>4
<1> QED BY <1>15, <1>18, <1>20, <1>21, <1>22, <1>23, TurnOK

-----------------------------------------------------------------------------
(* What holds of every run.                                                *)

\* No step leaves the invariant, when every scenario is a framed body.
LEMMA StepOK ==
    ASSUME \A s \in Scenarios : Framed(s), IInv, [Next]_vars
    PROVE  IInv'
<1>1. CASE Push
  BY <1>1, PushOK
<1>2. CASE TakeBody
  BY <1>2, TakeBodyOK
<1>3. CASE FillLength
  BY <1>3, FillLengthOK
<1>4. CASE TakeLength
  BY <1>4, TakeLengthOK
<1>5. CASE Get \/ Read \/ ReadAll
  BY <1>5, ReadersOK
<1>6. CASE UNCHANGED vars
  BY <1>6 DEF vars, IInv, TypeOK, Cur, Unread, Standing
<1> QED BY <1>1, <1>2, <1>3, <1>4, <1>5, <1>6 DEF Next, Loop

LEMMA Invariant ==
    ASSUME \A s \in Scenarios : Framed(s)
    PROVE  Spec => []IInv
<1>1. Init => IInv
  BY InitOK
<1>2. IInv /\ [Next]_vars => IInv'
  BY StepOK
<1> QED BY <1>1, <1>2, PTL DEF Spec

\* InBufferStream only ever has values of their types; the count in particular
\* never goes below zero, which would be close to Wrap.
THEOREM Types ==
    ASSUME \A s \in Scenarios : Framed(s)
    PROVE  Spec => []TypeOK
<1>1. IInv => TypeOK
  BY DEF IInv
<1> QED BY <1>1, Invariant, PTL

\* The assert of Push's loop holds in every turn.
THEOREM AssertHoldsAlways ==
    ASSUME \A s \in Scenarios : Framed(s)
    PROVE  Spec => []AssertHolds
<1>1. IInv => AssertHolds
  BY DEF IInv, AssertHolds
<1> QED BY <1>1, Invariant, PTL

\* Exactly the octets of the body come out of Push, in order, for bodies of
\* every size, every portion size and every cut.
THEOREM UnframedAlways ==
    ASSUME \A s \in Scenarios : Framed(s)
    PROVE  Spec => []Unframed
<1>1. IInv => Unframed
  <2>1. SUFFICES ASSUME IInv PROVE Unframed
    OBVIOUS
  <2> DEFINE cs == scn.cells
             l == Len(lenbuf)
             q == Cur - l
             c == Cur
             x == Stretch(cs, 0, q)
             y == Stretch(cs, q, c)
  <2>2. cs \in Seq(Cell) /\ c \in Nat /\ c <= Len(cs) /\ Len(cs) \in Nat /\ pos \in Nat
    BY <2>1, ScnType, TakenIs DEF IInv
  <2>3. l \in Nat /\ l <= c /\ lenbuf = y
    BY <2>1, LenProperties DEF IInv, TypeOK, Standing
  <2>4. got \o Unread = Body(x)
    BY <2>1 DEF IInv
  <2> HIDE DEF l, c
  <2>5. q \in Nat /\ q <= c /\ 0 \in Nat /\ 0 <= q /\ q <= Len(cs)
    BY <2>2, <2>3 DEF c
  <2> HIDE DEF q
  <2>6. x \in Seq(Cell)
    BY <2>2, <2>5, StretchIs
  <2>7. y \in Seq(Cell)
    BY <2>2, <2>5, StretchIs
  <2>8. x \o y = Stretch(cs, 0, c)
    BY <2>2, <2>5, StretchJoin
  <2> HIDE DEF x, y
  <2>9. Body(x \o y) = Body(x) \o Body(y)
    BY <2>6, <2>7, BodyConcat
  <2>10. Take(cs, c) = Stretch(cs, 0, c)
    BY <2>2, TakeIs
  <2>11. (got \o Unread) \o Body(lenbuf) = Body(Take(cs, c))
    BY <2>3, <2>4, <2>8, <2>9, <2>10
  <2>12. c = pos - Len(rest)
    BY DEF c, Cur
  <2> QED BY <2>11, <2>12 DEF Unframed
<1> QED BY <1>1, Invariant, PTL

\* A later push goes on as if there had been no cut.
THEOREM CutForgottenAlways ==
    ASSUME \A s \in Scenarios : Framed(s)
    PROVE  Spec => []CutForgotten
<1>1. IInv => CutForgotten
  <2>1. SUFFICES ASSUME IInv, pc = "idle", partial, lenbuf = <<>>, pos < Len(scn.cells),
                        NEW i \in 1..(Len(scn.cells) - pos)
                 PROVE  i <= count <=> \A j \in 1..i : IsBody(scn.cells[pos + j])
    BY DEF CutForgotten
  <2> DEFINE cs == scn.cells
             n == Len(cs)
  <2>2. cs \in Seq(Cell) /\ n \in Nat /\ pos \in Nat
    BY <2>1, ScnType DEF IInv
  <2>3. Cur = pos /\ count \in Nat
    <3>1. rest = <<>>
      BY <2>1 DEF IInv
    <3>2. Len(rest) = 0 /\ pos - 0 = pos
      BY <2>2, <3>1
    <3> QED BY <2>1, <3>2, TakenIs DEF Cur
  <2>4. /\ \A k \in (pos + 1)..n : k <= pos + count => IsBody(cs[k])
        /\ pos + count < n => pos + count + 1 \in Starts(scn)
    BY <2>1, <2>3 DEF IInv, Standing
  <2> HIDE DEF n
  <2>5. ASSUME i <= count, NEW j \in 1..i PROVE IsBody(cs[pos + j])
    <3>1. pos + j \in (pos + 1)..n /\ pos + j <= pos + count
      BY <2>1, <2>2, <2>3, <2>5 DEF n
    <3> QED BY <2>4, <3>1
  <2>6. ASSUME ~(i <= count) PROVE ~(\A j \in 1..i : IsBody(cs[pos + j]))
    <3>1. count + 1 \in 1..i /\ pos + count < n /\ pos + count + 1 = pos + (count + 1)
      BY <2>1, <2>2, <2>3, <2>6 DEF n
    <3>2. ~IsBody(cs[pos + (count + 1)])
      BY <2>4, <3>1 DEF Starts
    <3> QED BY <3>1, <3>2
  <2> QED BY <2>5, <2>6
<1> QED BY <1>1, Invariant, PTL

\* When everything was pushed, all of the body can be read: only octets of a
\* length are ever waiting.
THEOREM NothingWaitsAlways ==
    ASSUME \A s \in Scenarios : Framed(s) /\ Whole(s)
    PROVE  Spec => []NothingWaits
<1>1. IInv => NothingWaits
  <2>1. SUFFICES ASSUME IInv, pc = "idle", pos = Len(scn.cells)
                 PROVE  got \o Unread = Body(scn.cells)
    BY DEF NothingWaits
  <2> DEFINE cs == scn.cells
             l == Len(lenbuf)
             q == Cur - l
  <2>2. cs \in Seq(Cell) /\ pos \in Nat /\ Len(cs) = pos /\ Whole(scn)
    BY <2>1, ScnType DEF IInv, TypeOK
  <2>3. Cur = pos
    <3>1. rest = <<>>
      BY <2>1 DEF IInv
    <3>2. Len(rest) = 0 /\ pos - 0 = pos
      BY <2>2, <3>1
    <3> QED BY <3>2 DEF Cur
  <2>4. l \in Nat /\ l <= pos /\ l < LenMax /\ LenMax \in Nat /\ lenbuf = Stretch(cs, pos - l, pos)
    BY <2>1, <2>3, LenProperties, StreamAssumption DEF IInv, TypeOK, Standing
  <2>5. got \o Unread = Body(Stretch(cs, 0, q))
    BY <2>1 DEF IInv
  <2>6. lenbuf # <<>> => pos - l + 1 \in Starts(scn) /\ ~IsOneOctet(lenbuf[1].octet)
    BY <2>1, <2>3 DEF IInv, Standing
  <2>7. l # 0 => lenbuf # <<>>
    OBVIOUS
  <2> HIDE DEF l
  <2>8. q = pos - l /\ q \in Nat /\ q <= pos /\ pos <= Len(cs)
    BY <2>2, <2>3, <2>4
  <2> HIDE DEF q
  <2>9. \A i \in (q + 1)..pos : ~IsBody(cs[i])
    <3>1. CASE l = 0
      BY <2>2, <2>8, <3>1
    <3>2. CASE l # 0
      <4>1. q + 1 \in Starts(scn) /\ ~IsOneOctet(lenbuf[1].octet)
        BY <2>6, <2>7, <2>8, <3>2
      <4>2. lenbuf[1] = cs[q + 1]
        <5>1. 1 \in 1..(pos - q) /\ lenbuf = Stretch(cs, q, pos)
          BY <2>2, <2>4, <2>8, <3>2
        <5> QED BY <2>2, <2>8, <5>1, StretchIs
      <4>3. q + 1 + LenMax - 1 > Len(cs)
        BY <2>2, <2>4, <2>8
      <4> QED BY <2>2, <4>1, <4>2, <4>3 DEF Whole
    <3> QED BY <3>1, <3>2
  <2>10. Body(Stretch(cs, 0, pos)) = Body(Stretch(cs, 0, q))
    BY <2>2, <2>8, <2>9, BodySkip
  <2>11. Stretch(cs, 0, pos) = cs
    <3>1. 0 \in Nat /\ 0 <= pos /\ pos - 0 = pos
      BY <2>2
    <3>2. /\ Stretch(cs, 0, pos) \in Seq(Cell) /\ Len(Stretch(cs, 0, pos)) = pos - 0
          /\ \A i \in 1..(pos - 0) : Stretch(cs, 0, pos)[i] = cs[0 + i]
      BY <2>2, <2>8, <3>1, StretchIs
    <3>3. \A i \in 1..pos : 0 + i = i
      BY <2>2
    <3>4. \A i \in 1..pos : Stretch(cs, 0, pos)[i] = cs[i]
      BY <3>1, <3>2, <3>3
    <3> QED BY <2>2, <3>1, <3>2, <3>4, SeqEqual
  <2> QED BY <2>5, <2>10, <2>11
<1>2. \A s \in Scenarios : Framed(s)
  OBVIOUS
<1> QED BY <1>1, <1>2, Invariant, PTL

================================================================================
