----------------------- MODULE SymIntegReader_proofs -----------------------
(***************************************************************************)
(* Proofs about SymIntegReader: for every length of prefix, MDC, cipher    *)
(* step and payload, and for every cut, the window is exact and a verified *)
(* body is the whole body.                                                 *)
(***************************************************************************)
EXTENDS SymIntegReader, SequenceTheorems, TLAPS

-----------------------------------------------------------------------------
(* Stretches of consecutive positions.                                     *)

\* A stretch is a sequence of numbers with the obvious length.
LEMMA SegType ==
    ASSUME NEW a \in Nat, NEW b \in Nat, a <= b
    PROVE  /\ Seg(a, b) \in Seq(Nat)
           /\ Len(Seg(a, b)) = b - a
           /\ \A i \in 1..(b - a) : Seg(a, b)[i] = a + i
<1>1. b - a \in Nat /\ \A i \in 1..(b - a) : a + i \in Nat
  OBVIOUS
<1> QED
  BY <1>1 DEF Seg

\* The empty stretch.
LEMMA SegEmpty ==
    ASSUME NEW a \in Nat
    PROVE  Seg(a, a) = <<>>
  BY SegType, EmptySeq

\* Two stretches that meet are one.
LEMMA SegConcat ==
    ASSUME NEW a \in Nat, NEW b \in Nat, NEW c \in Nat, a <= b, b <= c
    PROVE  Seg(a, b) \o Seg(b, c) = Seg(a, c)
<1>1. /\ Seg(a, b) \in Seq(Nat) /\ Len(Seg(a, b)) = b - a
      /\ \A i \in 1..(b - a) : Seg(a, b)[i] = a + i
  BY SegType
<1>2. /\ Seg(b, c) \in Seq(Nat) /\ Len(Seg(b, c)) = c - b
      /\ \A i \in 1..(c - b) : Seg(b, c)[i] = b + i
  BY SegType
<1>3. /\ Seg(a, c) \in Seq(Nat) /\ Len(Seg(a, c)) = c - a
      /\ \A i \in 1..(c - a) : Seg(a, c)[i] = a + i
  BY SegType
<1> DEFINE l == Seg(a, b)
           r == Seg(b, c)
<1>4. /\ l \o r \in Seq(Nat) /\ Len(l \o r) = Len(l) + Len(r)
      /\ \A i \in 1..(Len(l) + Len(r)) :
            (l \o r)[i] = IF i <= Len(l) THEN l[i] ELSE r[i - Len(l)]
  BY <1>1, <1>2, ConcatProperties
<1> HIDE DEF l, r
<1>5. \A i \in 1..(c - a) : (l \o r)[i] = a + i
  <2> TAKE i \in 1..(c - a)
  <2>1. Len(l) + Len(r) = c - a
    BY <1>1, <1>2 DEF l, r
  <2>2. CASE i <= b - a
    BY <1>1, <1>4, <2>1, <2>2 DEF l
  <2>3. CASE ~(i <= b - a)
    <3>1. i - (b - a) \in 1..(c - b)
      BY <2>3
    <3>2. (l \o r)[i] = r[i - (b - a)]
      BY <1>1, <1>4, <2>1, <2>3 DEF l
    <3> QED
      BY <1>2, <3>1, <3>2 DEF r
  <2> QED
    BY <2>2, <2>3
<1>6. Len(l \o r) = Len(Seg(a, c))
  BY <1>1, <1>2, <1>3, <1>4 DEF l, r
<1>7. \A i \in 1..Len(l \o r) : (l \o r)[i] = Seg(a, c)[i]
  BY <1>3, <1>5, <1>6
<1>8. l \o r = Seg(a, c)
  BY <1>3, <1>4, <1>6, <1>7, SeqEqual
<1> QED
  BY <1>8 DEF l, r

\* A part of a stretch is a stretch.
LEMMA SegSub ==
    ASSUME NEW a \in Nat, NEW b \in Nat, NEW x \in Nat, NEW y \in Nat,
           a <= x, x <= y, y <= b
    PROVE  SubSeq(Seg(a, b), x - a + 1, y - a) = Seg(x, y)
<1>1. /\ Seg(a, b) \in Seq(Nat) /\ Len(Seg(a, b)) = b - a
      /\ \A k \in 1..(b - a) : Seg(a, b)[k] = a + k
  BY SegType
<1>2. /\ Seg(x, y) \in Seq(Nat)
      /\ Len(Seg(x, y)) = y - x
      /\ \A k \in 1..(y - x) : Seg(x, y)[k] = x + k
  BY SegType
<1> DEFINE s == Seg(a, b)
           i == x - a + 1
           j == y - a
<1>3. /\ i \in Nat \ {0} /\ j \in Nat /\ i <= j + 1 /\ j <= b - a
      /\ j - i + 1 = y - x /\ a + i - 1 = x
  OBVIOUS
<1> HIDE DEF s, i, j
<1>4. /\ SubSeq(s, i, j) \in Seq(Nat)
      /\ Len(SubSeq(s, i, j)) = j - i + 1
      /\ \A k \in 1..(j - i + 1) : SubSeq(s, i, j)[k] = s[i + k - 1]
  BY <1>1, <1>3 DEF s
<1>5. \A k \in 1..(y - x) : SubSeq(s, i, j)[k] = x + k
  <2> TAKE k \in 1..(y - x)
  <2>1. i + k - 1 \in 1..(b - a) /\ a + (i + k - 1) = x + k
    BY <1>3
  <2>2. SubSeq(s, i, j)[k] = s[i + k - 1]
    BY <1>3, <1>4
  <2> QED
    BY <1>1, <2>1, <2>2 DEF s
<1>6. \A k \in 1..Len(SubSeq(s, i, j)) : SubSeq(s, i, j)[k] = Seg(x, y)[k]
  BY <1>2, <1>3, <1>4, <1>5
<1>7. SubSeq(s, i, j) = Seg(x, y)
  BY <1>2, <1>3, <1>4, <1>6, SeqEqual
<1> QED
  BY <1>7 DEF s, i, j

\* Two stretches of one length that are equal and not empty end alike.
LEMMA SegEnd ==
    ASSUME NEW a \in Nat, NEW b \in Nat, NEW n \in Nat \ {0},
           Seg(a, a + n) = Seg(b, b + n)
    PROVE  a = b
<1>1. \A c \in Nat : Seg(c, c + n)[1] = c + 1
  <2> TAKE c \in Nat
  <2>1. c + n \in Nat /\ c <= c + n /\ 1 \in 1..((c + n) - c)
    OBVIOUS
  <2> QED
    BY <2>1, SegType
<1> QED
  BY <1>1

-----------------------------------------------------------------------------
(* The inductive invariant.  WindowExact alone is not inductive: a step     *)
(* needs to know that a full window means that the prefix was completed and *)
(* accepted, that an empty one means that nothing was decrypted yet, and    *)
(* that the digest is one stretch.                                          *)

Refused == {"undefined", "InvalidSurrogateIV"}

WindowInv ==
    /\ prefix = IF taken < PrefixLen THEN taken ELSE PrefixLen
    /\ mdc = <<>> => out = <<>> /\ hashed = <<>> /\ (pc \notin Refused => taken = 0)
    /\ mdc # <<>> => /\ taken >= PrefixLen + MDCLen /\ opens
                     /\ mdc = Seg(taken - MDCLen, taken)
                     /\ out = Seg(PrefixLen, taken - MDCLen)
                     /\ hashed = Seg(0, taken - MDCLen)
    /\ pc = "verified" => mdc # <<>> /\ DigestMatches

IInv == TypeOK /\ WindowInv

\* How much one call decrypts.
LEMMA StepBound ==
    ASSUME NEW c \in Nat, NEW fin \in BOOLEAN
    PROVE  /\ Step(c, fin) \in 0..c
           /\ fin => Step(c, fin) = c
           /\ ~fin /\ Step(c, fin) > 0 => Step(c, fin) >= PrefixLen + MDCLen
<1>1. PrefixLen \in Nat /\ MDCLen \in Nat /\ Gran \in Nat \ {0}
  BY WindowAssumption
<1>2. (c \div Gran) * Gran \in 0..c
  <2>1. c \div Gran \in Nat /\ (c \div Gran) * Gran <= c
    BY <1>1, Z3
  <2>2. (c \div Gran) * Gran \in Nat
    BY <2>1, <1>1
  <2> QED
    BY <2>1, <2>2
<1> DEFINE whole == (c \div Gran) * Gran
<1>3. whole \in 0..c
  BY <1>2
<1>4. Step(c, fin) = IF fin THEN c ELSE IF whole < PrefixLen + MDCLen THEN 0 ELSE whole
  BY DEF Step
<1> HIDE DEF whole
<1> QED
  BY <1>1, <1>3, <1>4

\* A long buffer, the octets from t to u: all but its end, and its end.
LEMMA LongSlide ==
    ASSUME NEW t \in Nat, NEW u \in Nat, t + MDCLen <= u
    PROVE  LET buf == Seg(t, u)
           IN  /\ Len(buf) >= MDCLen
               /\ SubSeq(buf, 1, Len(buf) - MDCLen) = Seg(t, u - MDCLen)
               /\ SubSeq(buf, Len(buf) - MDCLen + 1, Len(buf)) = Seg(u - MDCLen, u)
<1>1. MDCLen \in Nat \ {0} /\ t <= u
  BY WindowAssumption
<1> DEFINE w == u - MDCLen
<1>2. /\ w \in Nat /\ t <= w /\ w <= u
      /\ t - t + 1 = 1 /\ w - t = u - t - MDCLen
      /\ w - t + 1 = u - t - MDCLen + 1
  BY <1>1
<1>3. Len(Seg(t, u)) = u - t
  BY <1>1, SegType
<1> HIDE DEF w
<1>4. SubSeq(Seg(t, u), t - t + 1, w - t) = Seg(t, w)
  BY <1>1, <1>2, SegSub
<1>5. SubSeq(Seg(t, u), w - t + 1, u - t) = Seg(w, u)
  BY <1>1, <1>2, SegSub
<1>6. SubSeq(Seg(t, u), 1, u - t - MDCLen) = Seg(t, w)
  BY <1>2, <1>4
<1>7. SubSeq(Seg(t, u), u - t - MDCLen + 1, u - t) = Seg(w, u)
  BY <1>2, <1>5
<1> QED
  BY <1>1, <1>3, <1>6, <1>7 DEF w

\* A short buffer of n octets takes as many out of the window that ends at t.
LEMMA ShortSlide ==
    ASSUME NEW t \in Nat, NEW n \in Nat, n < MDCLen, MDCLen <= t
    PROVE  LET window == Seg(t - MDCLen, t)
           IN  /\ SubSeq(window, 1, n) = Seg(t - MDCLen, t + n - MDCLen)
               /\ SubSeq(window, n + 1, MDCLen) = Seg(t + n - MDCLen, t)
<1>1. MDCLen \in Nat \ {0}
  BY WindowAssumption
<1> DEFINE a == t - MDCLen
           w == t + n - MDCLen
<1>2. a \in Nat /\ w \in Nat /\ a <= w /\ w <= t /\ a <= t
  BY <1>1
<1>3. a - a + 1 = 1 /\ w - a = n /\ t - a = MDCLen
  BY <1>1
<1> HIDE DEF a, w
<1>4. SubSeq(Seg(a, t), a - a + 1, w - a) = Seg(a, w)
  BY <1>2, SegSub
<1>5. SubSeq(Seg(a, t), w - a + 1, t - a) = Seg(w, t)
  BY <1>2, SegSub
<1>6. SubSeq(Seg(a, t), 1, n) = Seg(a, w) /\ SubSeq(Seg(a, t), n + 1, MDCLen) = Seg(w, t)
  BY <1>3, <1>4, <1>5
<1> QED
  BY <1>6 DEF a, w

-----------------------------------------------------------------------------
(* The steps.                                                              *)

\* Initially nothing was read.
LEMMA InitStep == Init => IInv
<1> SUFFICES ASSUME Init PROVE IInv
  OBVIOUS
<1>1. PrefixLen \in Nat \ {0} /\ MDCLen \in Nat \ {0} /\ PayloadMax \in Nat
  BY WindowAssumption
<1>2. sealed \in Nat /\ sealed >= PrefixLen + MDCLen /\ total \in 0..sealed
  BY <1>1 DEF Init
<1>3. <<>> \in Seq(Nat)
  OBVIOUS
<1>4. TypeOK
  BY <1>1, <1>2, <1>3 DEF Init, TypeOK
<1>5. WindowInv
  BY <1>1 DEF Init, WindowInv
<1> QED
  BY <1>4, <1>5 DEF IInv

\* The prefix of n more octets.
LEMMA PrefixStep ==
    ASSUME IInv, NEW n \in Nat
    PROVE  /\ ForPrefix(n) \in 0..n
           /\ prefix + ForPrefix(n) = IF taken + n < PrefixLen THEN taken + n ELSE PrefixLen
           /\ taken = 0 /\ n >= PrefixLen => ForPrefix(n) = PrefixLen /\ CompletesPrefix(n)
           /\ taken = 0 /\ n < PrefixLen => ForPrefix(n) = n
           /\ taken >= PrefixLen => ForPrefix(n) = 0 /\ ~CompletesPrefix(n)
  BY WindowAssumption DEF IInv, TypeOK, WindowInv, ForPrefix, CompletesPrefix

\* The call that fills the window for the first time.
LEMMA FirstSlide ==
    ASSUME IInv, pc = "open", mdc = <<>>, NEW n \in Nat, NEW fin \in BOOLEAN,
           Slides(n, fin)
    PROVE  /\ taken + n >= PrefixLen + MDCLen /\ opens /\ mdc' # <<>>
           /\ mdc'    = Seg(taken + n - MDCLen, taken + n)
           /\ out'    = Seg(PrefixLen, taken + n - MDCLen)
           /\ hashed' = Seg(0, taken + n - MDCLen)
<1>1. PrefixLen \in Nat \ {0} /\ MDCLen \in Nat \ {0}
  BY WindowAssumption
<1>2. taken = 0 /\ out = <<>> /\ hashed = <<>>
  BY DEF IInv, WindowInv, Refused
<1> DEFINE f   == ForPrefix(n)
           buf == Seg(taken + f, taken + n)
           u   == taken + n
<1>3. f \in 0..n /\ u = n /\ u \in Nat
  BY <1>2, PrefixStep
<1>4. SlideLong(buf, Hashed(n))
  BY DEF Slides, SlideShort
<1>5. Len(buf) = n - f
  <2> DEFINE v == taken + f
  <2>1. v \in Nat /\ v <= u /\ u - v = n - f
    BY <1>2, <1>3
  <2> HIDE DEF v, u, f
  <2>2. Len(Seg(v, u)) = u - v
    BY <1>3, <2>1, SegType
  <2> QED
    BY <2>1, <2>2 DEF v, u
<1>6. Len(buf) >= MDCLen
  BY <1>4 DEF SlideLong
<1>7. f = PrefixLen /\ CompletesPrefix(n) /\ n >= PrefixLen + MDCLen
  <2>1. n >= PrefixLen => f = PrefixLen /\ CompletesPrefix(n)
    BY <1>2, PrefixStep
  <2>2. n < PrefixLen => f = n
    BY <1>2, PrefixStep
  <2> HIDE DEF f, buf
  <2>3. n - f >= MDCLen
    BY <1>5, <1>6
  <2> QED
    BY <1>1, <2>1, <2>2, <2>3
<1>8. opens
  BY <1>7 DEF Slides
<1>9. buf = Seg(PrefixLen, u) /\ Hashed(n) = Seg(0, PrefixLen)
  <2>1. Seg(0, PrefixLen) \in Seq(Nat)
    BY <1>1, SegType
  <2>2. <<>> \o Seg(0, PrefixLen) = Seg(0, PrefixLen)
    BY <2>1, ConcatEmptySeq
  <2>3. Hashed(n) = Seg(0, PrefixLen)
    BY <1>2, <1>7, <2>2 DEF Hashed
  <2>4. taken + f = PrefixLen
    BY <1>1, <1>2, <1>7
  <2> HIDE DEF f
  <2> QED
    BY <2>3, <2>4
<1> HIDE DEF f, buf, u
<1> DEFINE w == u - MDCLen
<1>10. /\ PrefixLen + MDCLen <= u /\ w \in Nat
       /\ PrefixLen <= w /\ 0 <= PrefixLen /\ w < u
  BY <1>1, <1>3, <1>7
<1>11. /\ SubSeq(buf, 1, Len(buf) - MDCLen) = Seg(PrefixLen, w)
       /\ SubSeq(buf, Len(buf) - MDCLen + 1, Len(buf)) = Seg(w, u)
  BY <1>1, <1>3, <1>9, <1>10, LongSlide
<1> HIDE DEF w
<1>12. out' = <<>> \o <<>> \o Seg(PrefixLen, w)
       /\ hashed' = Seg(0, PrefixLen) \o <<>> \o Seg(PrefixLen, w)
       /\ mdc' = Seg(w, u)
  BY <1>2, <1>4, <1>9, <1>11 DEF SlideLong
<1>13. Seg(PrefixLen, w) \in Seq(Nat) /\ Seg(0, PrefixLen) \in Seq(Nat)
       /\ Seg(w, u) \in Seq(Nat) /\ Len(Seg(w, u)) = u - w
  <2>1. 0 \in Nat /\ PrefixLen \in Nat /\ w <= u
    BY <1>1, <1>3, <1>10
  <2>2. Seg(PrefixLen, w) \in Seq(Nat)
    BY <2>1, <1>10, SegType
  <2>3. Seg(0, PrefixLen) \in Seq(Nat)
    BY <2>1, <1>10, SegType
  <2>4. Seg(w, u) \in Seq(Nat) /\ Len(Seg(w, u)) = u - w
    BY <2>1, <1>3, <1>10, SegType
  <2> QED
    BY <2>2, <2>3, <2>4
<1>14. <<>> \o <<>> \o Seg(PrefixLen, w) = Seg(PrefixLen, w)
       /\ Seg(0, PrefixLen) \o <<>> = Seg(0, PrefixLen)
  BY <1>13, ConcatEmptySeq
<1>15. out' = Seg(PrefixLen, w) /\ hashed' = Seg(0, w)
  <2>1. out' = Seg(PrefixLen, w)
    BY <1>12, <1>14
  <2>2. hashed' = Seg(0, PrefixLen) \o Seg(PrefixLen, w)
    BY <1>12, <1>14
  <2>3. Seg(0, PrefixLen) \o Seg(PrefixLen, w) = Seg(0, w)
    BY <1>1, <1>10, SegConcat
  <2> QED
    BY <2>1, <2>2, <2>3
<1>16. mdc' # <<>>
  BY <1>3, <1>10, <1>12, <1>13, EmptySeq
<1> QED
  BY <1>2, <1>3, <1>7, <1>8, <1>10, <1>12, <1>15, <1>16 DEF u, w

\* A call that finds a full window and moves it on.
LEMMA NextSlide ==
    ASSUME IInv, pc = "open", mdc # <<>>, NEW n \in Nat, NEW fin \in BOOLEAN,
           Slides(n, fin)
    PROVE  /\ taken + n >= PrefixLen + MDCLen /\ opens /\ mdc' # <<>>
           /\ mdc'    = Seg(taken + n - MDCLen, taken + n)
           /\ out'    = Seg(PrefixLen, taken + n - MDCLen)
           /\ hashed' = Seg(0, taken + n - MDCLen)
<1> DEFINE u == taken + n
           w == u - MDCLen
           a == taken - MDCLen
           buf == Seg(taken, u)
<1>1. PrefixLen \in Nat \ {0} /\ MDCLen \in Nat \ {0}
  BY WindowAssumption
<1>2. /\ taken \in Nat /\ taken >= PrefixLen + MDCLen /\ opens
      /\ mdc = Seg(a, taken)
      /\ out = Seg(PrefixLen, a)
      /\ hashed = Seg(0, a)
  BY DEF IInv, TypeOK, WindowInv, Refused
<1>3. /\ u \in Nat /\ w \in Nat /\ a \in Nat /\ taken <= u /\ w < u /\ a <= taken
      /\ PrefixLen <= a /\ PrefixLen <= w /\ 0 \in Nat /\ a <= w /\ 0 <= a /\ 0 <= w
      /\ u - w = MDCLen
  BY <1>1, <1>2
<1>4. ForPrefix(n) = 0 /\ ~CompletesPrefix(n)
  BY <1>1, <1>2, PrefixStep
<1>5. Hashed(n) = hashed /\ Seg(taken + ForPrefix(n), taken + n) = buf
  <2>1. hashed \in Seq(Nat)
    BY DEF IInv, TypeOK
  <2>2. hashed \o <<>> = hashed
    BY <2>1, ConcatEmptySeq
  <2>3. taken + ForPrefix(n) = taken
    BY <1>2, <1>4
  <2> QED
    BY <1>4, <2>2, <2>3 DEF Hashed
<1>6. SlideLong(buf, hashed) \/ SlideShort(buf, hashed)
  BY <1>5 DEF Slides
<1>7. Len(buf) = n
  <2>1. u - taken = n
    BY <1>2
  <2> HIDE DEF u
  <2> QED
    BY <1>2, <1>3, <2>1, SegType
<1>8. /\ Seg(PrefixLen, a) \o Seg(a, taken) = Seg(PrefixLen, taken)
      /\ Seg(0, a) \o Seg(a, taken) = Seg(0, taken)
  <2> HIDE DEF a
  <2> QED
    BY <1>1, <1>2, <1>3, SegConcat
<1>9. u = taken + n /\ w = taken + n - MDCLen /\ a = taken - MDCLen
  BY <1>1, <1>2
<1> HIDE DEF u, w, a, buf
<1>10. ASSUME SlideLong(buf, hashed)
      PROVE  mdc' = Seg(w, u) /\ out' = Seg(PrefixLen, w) /\ hashed' = Seg(0, w)
  <2>1. n >= MDCLen
    BY <1>7, <1>10 DEF SlideLong
  <2>2. taken <= w /\ taken + MDCLen <= u /\ PrefixLen <= taken /\ 0 <= taken
    BY <1>1, <1>2, <2>1 DEF u, w
  <2>3. /\ SubSeq(buf, 1, Len(buf) - MDCLen) = Seg(taken, w)
        /\ SubSeq(buf, Len(buf) - MDCLen + 1, Len(buf)) = Seg(w, u)
    BY <1>2, <1>3, <2>2, LongSlide DEF buf, w
  <2>4. /\ out' = Seg(PrefixLen, taken) \o Seg(taken, w)
        /\ hashed' = Seg(0, taken) \o Seg(taken, w)
        /\ mdc' = Seg(w, u)
    BY <1>2, <1>8, <1>10, <2>3 DEF SlideLong
  <2>5. /\ Seg(PrefixLen, taken) \o Seg(taken, w) = Seg(PrefixLen, w)
        /\ Seg(0, taken) \o Seg(taken, w) = Seg(0, w)
    BY <1>1, <1>2, <1>3, <2>2, SegConcat
  <2> QED
    BY <2>4, <2>5
<1>11. ASSUME SlideShort(buf, hashed)
       PROVE  mdc' = Seg(w, u) /\ out' = Seg(PrefixLen, w) /\ hashed' = Seg(0, w)
  <2>1. n < MDCLen /\ MDCLen <= taken /\ w <= taken
    <3>1. n < MDCLen
      BY <1>7, <1>11 DEF SlideShort
    <3> QED
      BY <1>1, <1>2, <3>1 DEF u, w
  <2>2. SubSeq(mdc, 1, n) = Seg(a, w) /\ SubSeq(mdc, n + 1, MDCLen) = Seg(w, taken)
    <3>1. /\ SubSeq(Seg(taken - MDCLen, taken), 1, n)
               = Seg(taken - MDCLen, taken + n - MDCLen)
          /\ SubSeq(Seg(taken - MDCLen, taken), n + 1, MDCLen)
               = Seg(taken + n - MDCLen, taken)
      BY <1>2, <2>1, ShortSlide
    <3> QED
      BY <1>2, <1>9, <3>1
  <2>3. /\ out' = Seg(PrefixLen, a) \o Seg(a, w)
        /\ hashed' = Seg(0, a) \o Seg(a, w)
        /\ mdc' = Seg(w, taken) \o Seg(taken, u)
    BY <1>2, <1>7, <1>11, <2>2 DEF SlideShort, buf
  <2>4. /\ Seg(PrefixLen, a) \o Seg(a, w) = Seg(PrefixLen, w)
        /\ Seg(0, a) \o Seg(a, w) = Seg(0, w)
        /\ Seg(w, taken) \o Seg(taken, u) = Seg(w, u)
    BY <1>1, <1>2, <1>3, <2>1, SegConcat
  <2> QED
    BY <2>3, <2>4
<1>12. mdc' = Seg(w, u) /\ out' = Seg(PrefixLen, w) /\ hashed' = Seg(0, w)
  BY <1>6, <1>10, <1>11
<1>13. mdc' # <<>>
  <2>1. Seg(w, u) \in Seq(Nat) /\ Len(Seg(w, u)) = u - w
    BY <1>3, SegType
  <2> QED
    BY <1>1, <1>3, <1>12, <2>1, EmptySeq
<1>14. taken + n >= PrefixLen + MDCLen
  BY <1>1, <1>2
<1> QED
  BY <1>2, <1>12, <1>13, <1>14, <1>9

\* A call of DoRead, whatever it decrypts.
LEMMA ReadStep ==
    ASSUME IInv, NEW fin \in BOOLEAN, DoRead(fin)
    PROVE  IInv'
<1>1. PrefixLen \in Nat \ {0} /\ MDCLen \in Nat \ {0}
  BY WindowAssumption
<1>2. pc = "open" /\ UNCHANGED <<sealed, total, genuine, opens>>
  BY DEF DoRead, body
<1> PICK k \in 0..(total - fed) :
      /\ fin => fed + k = total
      /\ fed' = fed + k
      /\ taken' = taken + Step(fed + k - taken, fin)
      /\ prefix' = prefix + ForPrefix(Step(fed + k - taken, fin))
      /\ \/ DecryptsNothing(Step(fed + k - taken, fin), fin)
         \/ RefusesPrefix(Step(fed + k - taken, fin))
         \/ Slides(Step(fed + k - taken, fin), fin)
         \/ MovesNoWindow(Step(fed + k - taken, fin))
  BY DEF DoRead
<1> DEFINE n == Step(fed + k - taken, fin)
<1>3. /\ sealed \in Nat /\ total \in 0..sealed /\ fed \in 0..total /\ taken \in 0..fed
      /\ fed + k - taken \in Nat
  BY DEF IInv, TypeOK
<1>4. n \in 0..(fed + k - taken)
  BY <1>3, StepBound
<1> HIDE DEF n
<1>5. /\ fed' = fed + k /\ taken' = taken + n /\ prefix' = prefix + ForPrefix(n)
      /\ DecryptsNothing(n, fin) \/ RefusesPrefix(n) \/ Slides(n, fin)
         \/ MovesNoWindow(n)
  BY DEF n
<1>6. n \in Nat /\ fed' \in 0..total' /\ taken' \in 0..fed' /\ total' \in 0..sealed'
      /\ sealed' = sealed
  BY <1>2, <1>3, <1>4, <1>5
<1>7. prefix' = (IF taken' < PrefixLen THEN taken' ELSE PrefixLen)
      /\ prefix' \in 0..PrefixLen
  BY <1>1, <1>3, <1>5, <1>6, PrefixStep
<1>8. SUFFICES /\ mdc' \in Seq(Nat) /\ out' \in Seq(Nat) /\ hashed' \in Seq(Nat)
               /\ pc' \in {"open", "read"} \cup Ends
               /\ pc' # "verified"
               /\ mdc' = <<>> => /\ out' = <<>> /\ hashed' = <<>>
                                 /\ pc' \notin Refused => taken' = 0
               /\ mdc' # <<>> => /\ taken' >= PrefixLen + MDCLen /\ opens'
                                 /\ mdc' = Seg(taken' - MDCLen, taken')
                                 /\ out' = Seg(PrefixLen, taken' - MDCLen)
                                 /\ hashed' = Seg(0, taken' - MDCLen)
  <2>1. TypeOK'
    BY <1>2, <1>6, <1>7, <1>8 DEF IInv, TypeOK
  <2>2. WindowInv'
    BY <1>7, <1>8 DEF WindowInv, Refused
  <2> QED
    BY <2>1, <2>2 DEF IInv
<1>9. /\ mdc \in Seq(Nat) /\ out \in Seq(Nat) /\ hashed \in Seq(Nat)
      /\ mdc = <<>> => out = <<>> /\ hashed = <<>> /\ taken = 0
      /\ mdc # <<>> => /\ taken >= PrefixLen + MDCLen /\ opens
                       /\ mdc = Seg(taken - MDCLen, taken)
                       /\ out = Seg(PrefixLen, taken - MDCLen)
                       /\ hashed = Seg(0, taken - MDCLen)
  BY <1>2 DEF IInv, TypeOK, WindowInv, Refused
<1>10. CASE DecryptsNothing(n, fin)
  <2>1. n = 0 /\ pc' \in {"open", "read"} /\ UNCHANGED <<mdc, out, hashed>>
    BY <1>2, <1>10 DEF DecryptsNothing
  <2>2. taken' = taken
    BY <1>3, <1>5, <2>1
  <2> QED
    BY <1>2, <1>9, <2>1, <2>2
<1>11. CASE RefusesPrefix(n)
  <2>1. pc' = "InvalidSurrogateIV" /\ UNCHANGED <<mdc, out, hashed>>
    BY <1>11 DEF RefusesPrefix
  <2>2. mdc = <<>>
    BY <1>1, <1>3, <1>6, <1>9, <1>11, PrefixStep DEF RefusesPrefix
  <2> QED
    BY <1>9, <2>1, <2>2 DEF Refused, Ends
<1>12. CASE Slides(n, fin)
  <2>1. pc' \in {"open", "read"}
    BY <1>2, <1>12 DEF Slides
  <2>2. /\ taken + n >= PrefixLen + MDCLen /\ opens /\ mdc' # <<>>
        /\ mdc'    = Seg(taken + n - MDCLen, taken + n)
        /\ out'    = Seg(PrefixLen, taken + n - MDCLen)
        /\ hashed' = Seg(0, taken + n - MDCLen)
    BY <1>2, <1>6, <1>12, FirstSlide, NextSlide
  <2>3. taken + n - MDCLen = taken' - MDCLen
    BY <1>1, <1>3, <1>5, <1>6
  <2>4. /\ taken' >= PrefixLen + MDCLen
        /\ mdc'    = Seg(taken' - MDCLen, taken')
        /\ out'    = Seg(PrefixLen, taken' - MDCLen)
        /\ hashed' = Seg(0, taken' - MDCLen)
    BY <1>5, <2>2, <2>3
  <2>5. mdc' \in Seq(Nat) /\ out' \in Seq(Nat) /\ hashed' \in Seq(Nat)
    <3> DEFINE t == taken'
               w == t - MDCLen
    <3>1. t \in Nat /\ w \in Nat /\ PrefixLen <= w /\ 0 <= w /\ w <= t /\ 0 \in Nat
      BY <1>1, <1>3, <1>5, <1>6, <2>4
    <3> HIDE DEF t, w
    <3>2. Seg(w, t) \in Seq(Nat)
      BY <3>1, SegType
    <3>3. Seg(PrefixLen, w) \in Seq(Nat)
      BY <1>1, <3>1, SegType
    <3>4. Seg(0, w) \in Seq(Nat)
      BY <3>1, SegType
    <3> QED
      BY <2>4, <3>2, <3>3, <3>4 DEF t, w
  <2> QED
    BY <1>2, <2>1, <2>2, <2>4, <2>5
<1>13. CASE MovesNoWindow(n)
  <2>1. mdc = <<>> /\ pc' = "undefined" /\ UNCHANGED <<mdc, out, hashed>>
    BY <1>13 DEF MovesNoWindow
  <2> QED
    BY <1>9, <2>1 DEF Refused, Ends
<1> QED
  BY <1>5, <1>10, <1>11, <1>12, <1>13

\* Finish only decides how the session ends.
LEMMA FinishStep ==
    ASSUME IInv, DoFinish
    PROVE  IInv'
<1>1. pc = "read" /\ UNCHANGED <<sealed, total, genuine, opens, fed, taken, prefix,
                                 mdc, out, hashed>>
  BY DEF DoFinish, body
<1>2. pc' \in {"UnexpectedFormat", "MDCError", "verified"}
      /\ (pc' = "verified" => mdc # <<>> /\ DigestMatches)
  <2> PICK tag \in TagFound :
        pc' = IF ~tag THEN "UnexpectedFormat"
              ELSE IF ~DigestMatches THEN "MDCError" ELSE "verified"
    BY DEF DoFinish
  <2>1. mdc = <<>> => ~tag
    BY DEF TagFound
  <2> QED
    BY <2>1
<1>3. DigestMatches' <=> DigestMatches
  BY <1>1 DEF DigestMatches
<1>4. TypeOK'
  BY <1>1, <1>2 DEF IInv, TypeOK, Ends
<1>5. WindowInv'
  BY <1>1, <1>2, <1>3 DEF IInv, WindowInv, Refused
<1> QED
  BY <1>4, <1>5 DEF IInv

\* The invariant is kept by every step.
LEMMA NextStep ==
    ASSUME IInv, [Next]_vars
    PROVE  IInv'
<1>1. CASE DoRead(FALSE)
  BY <1>1, ReadStep
<1>2. CASE DoRead(TRUE)
  BY <1>2, ReadStep
<1>3. CASE DoFinish
  BY <1>3, FinishStep
<1>4. CASE UNCHANGED vars
  BY <1>4 DEF vars, body, IInv, TypeOK, WindowInv, DigestMatches
<1> QED
  BY <1>1, <1>2, <1>3, <1>4 DEF Next

\* The invariant holds in every reachable state.
THEOREM Invariance == Spec => []IInv
<1>1. Init => IInv
  BY InitStep
<1>2. IInv /\ [Next]_vars => IInv'
  BY NextStep
<1> QED
  BY <1>1, <1>2, PTL DEF Spec

-----------------------------------------------------------------------------
(* What it gives.                                                          *)

\* The reader keeps its types: prefix_ never grows past prefix_len, and no
\* octet is taken that was not pushed.
THEOREM TypeCorrect == Spec => []TypeOK
<1>1. IInv => TypeOK
  BY DEF IInv
<1> QED
  BY <1>1, Invariance, PTL

\* Whatever the lengths and the cut, the window is the last MDCLen octets read
\* and everything between the prefix and the window was written out, once and
\* in order.
THEOREM WindowCorrect == Spec => []WindowExact
<1>1. IInv => WindowExact
  BY DEF IInv, WindowInv, WindowExact
<1> QED
  BY <1>1, Invariance, PTL

\* The digest is over the prefix and exactly what was written out.
THEOREM HashCorrect == Spec => []HashCoversOutput
<1>1. IInv => HashCoversOutput
  <2> SUFFICES ASSUME IInv PROVE HashCoversOutput
    OBVIOUS
  <2>1. CASE mdc = <<>>
    <3>1. <<>> \o <<>> = <<>>
      OBVIOUS
    <3> QED
      BY <2>1, <3>1 DEF IInv, WindowInv, HashCoversOutput
  <2>2. CASE mdc # <<>>
    <3> DEFINE w == taken - MDCLen
    <3>1. PrefixLen \in Nat /\ w \in Nat /\ PrefixLen <= w /\ 0 <= PrefixLen /\ 0 \in Nat
          /\ out = Seg(PrefixLen, w) /\ hashed = Seg(0, w)
      BY <2>2, WindowAssumption DEF IInv, TypeOK, WindowInv
    <3> HIDE DEF w
    <3>2. Seg(0, PrefixLen) \o Seg(PrefixLen, w) = Seg(0, w)
      BY <3>1, SegConcat
    <3> QED
      BY <2>2, <3>1, <3>2 DEF HashCoversOutput
  <2> QED
    BY <2>1, <2>2
<1> QED
  BY <1>1, Invariance, PTL

\* A session that ends verified has had the whole sealed body with the right
\* key, and has written out its whole payload and nothing of the MDC.
THEOREM VerifiedCorrect == Spec => []VerifiedIsWhole
<1>1. IInv => VerifiedIsWhole
  <2> SUFFICES ASSUME IInv, pc = "verified"
               PROVE  genuine /\ opens /\ total = sealed
                      /\ out = Seg(PrefixLen, sealed - MDCLen)
    BY DEF VerifiedIsWhole
  <2>1. MDCLen \in Nat \ {0} /\ PrefixLen \in Nat
    BY WindowAssumption
  <2>2. mdc # <<>> /\ genuine /\ mdc = Seg(sealed - MDCLen, sealed)
    BY DEF IInv, WindowInv, DigestMatches
  <2>3. opens /\ taken >= PrefixLen + MDCLen /\ mdc = Seg(taken - MDCLen, taken)
        /\ out = Seg(PrefixLen, taken - MDCLen)
    BY <2>2 DEF IInv, WindowInv
  <2>4. sealed \in Nat /\ sealed >= PrefixLen + MDCLen
        /\ total \in 0..sealed /\ fed \in 0..total /\ taken \in 0..fed
    BY DEF IInv, TypeOK
  <2> DEFINE a == taken - MDCLen
             b == sealed - MDCLen
  <2>5. a \in Nat /\ b \in Nat /\ taken = a + MDCLen /\ sealed = b + MDCLen
    BY <2>1, <2>3, <2>4
  <2> HIDE DEF a, b
  <2>6. Seg(a, a + MDCLen) = Seg(b, b + MDCLen)
    BY <2>2, <2>3, <2>5 DEF a, b
  <2>7. a = b
    BY <2>1, <2>5, <2>6, SegEnd
  <2>8. taken = sealed
    BY <2>5, <2>7
  <2>9. total = sealed
    BY <2>4, <2>8
  <2> QED
    BY <2>2, <2>3, <2>8, <2>9
<1> QED
  BY <1>1, Invariance, PTL

-----------------------------------------------------------------------------
(* How far the reader gets.  Between two calls less than a cipher step is  *)
(* left over, the finishing call leaves nothing, and only a body that is   *)
(* too short for a window makes the code move one that is not there.       *)

ProgressInv ==
    /\ pc = "open" => fed - taken < PrefixLen + MDCLen + Gran
    /\ pc = "read" => taken = total
    /\ pc = "undefined" => total < PrefixLen + MDCLen
    /\ pc = "InvalidSurrogateIV" => ~opens
    /\ pc \in {"UnexpectedFormat", "MDCError"} => ~genuine \/ total # sealed

FullInv == IInv /\ ProgressInv

\* What whole cipher steps leave over is less than one of them.
LEMMA StepLeaves ==
    ASSUME NEW c \in Nat
    PROVE  c - Step(c, FALSE) < PrefixLen + MDCLen + Gran
<1>1. PrefixLen \in Nat /\ MDCLen \in Nat /\ Gran \in Nat \ {0}
  BY WindowAssumption
<1>2. c - (c \div Gran) * Gran < Gran
  BY <1>1, Z3
<1> DEFINE whole == (c \div Gran) * Gran
<1>3. whole \in Int
  <2>1. c \div Gran \in Int
    BY <1>1, Z3
  <2> QED
    BY <1>1, <2>1
<1>4. Step(c, FALSE) = IF whole < PrefixLen + MDCLen THEN 0 ELSE whole
  BY DEF Step
<1>5. c - whole < Gran
  BY <1>2
<1> DEFINE n == Step(c, FALSE)
<1>6. n = IF whole < PrefixLen + MDCLen THEN 0 ELSE whole
  BY <1>4
<1> HIDE DEF whole, n
<1>7. c - n < PrefixLen + MDCLen + Gran
  BY <1>1, <1>3, <1>5, <1>6
<1> QED
  BY <1>7 DEF n

\* A call of DoRead.
LEMMA ReadProgress ==
    ASSUME FullInv, NEW fin \in BOOLEAN, DoRead(fin)
    PROVE  ProgressInv'
<1>1. PrefixLen \in Nat \ {0} /\ MDCLen \in Nat \ {0} /\ Gran \in Nat \ {0}
  BY WindowAssumption
<1>2. pc = "open" /\ UNCHANGED <<sealed, total, genuine, opens>>
  BY DEF DoRead, body
<1> PICK k \in 0..(total - fed) :
      /\ fin => fed + k = total
      /\ fed' = fed + k
      /\ taken' = taken + Step(fed + k - taken, fin)
      /\ \/ DecryptsNothing(Step(fed + k - taken, fin), fin)
         \/ RefusesPrefix(Step(fed + k - taken, fin))
         \/ Slides(Step(fed + k - taken, fin), fin)
         \/ MovesNoWindow(Step(fed + k - taken, fin))
  BY DEF DoRead
<1> DEFINE c == fed + k - taken
           n == Step(c, fin)
<1>3. /\ total \in Nat /\ fed \in 0..total /\ taken \in 0..fed /\ c \in Nat
  BY DEF FullInv, IInv, TypeOK
<1>4. n \in 0..c /\ (fin => n = c) /\ (~fin /\ n > 0 => n >= PrefixLen + MDCLen)
  <2> HIDE DEF c
  <2> QED
    BY <1>3, StepBound
<1>5. ~fin => c - n < PrefixLen + MDCLen + Gran
  <2> HIDE DEF c
  <2> QED
    BY <1>3, StepLeaves
<1>6. fed' - taken' = c - n /\ (fin => taken' = total')
  BY <1>2, <1>3, <1>4
<1>7. DecryptsNothing(n, fin) \/ RefusesPrefix(n) \/ Slides(n, fin) \/ MovesNoWindow(n)
  OBVIOUS
<1>8. n \in Nat
  BY <1>3, <1>4
<1>9. ASSUME MovesNoWindow(n) PROVE total < PrefixLen + MDCLen
  <2>1. n > 0 /\ mdc = <<>> /\ n - ForPrefix(n) < MDCLen
    BY <1>9 DEF MovesNoWindow
  <2>2. taken = 0
    BY <1>2, <2>1 DEF FullInv, IInv, WindowInv, Refused
  <2>3. n >= PrefixLen => ForPrefix(n) = PrefixLen
    BY <1>8, <2>2, PrefixStep DEF FullInv
  <2> HIDE DEF n
  <2>4. n < PrefixLen + MDCLen
    BY <1>1, <1>8, <2>1, <2>3
  <2>5. fin
    BY <1>1, <1>4, <2>1, <2>4
  <2> QED
    BY <1>3, <1>4, <2>2, <2>4, <2>5
<1> HIDE DEF n, c
<1>10. CASE DecryptsNothing(n, fin) \/ Slides(n, fin)
  <2>1. pc' = IF fin THEN "read" ELSE "open"
    BY <1>2, <1>10 DEF DecryptsNothing, Slides
  <2> QED
    BY <1>5, <1>6, <2>1 DEF ProgressInv
<1>11. CASE RefusesPrefix(n)
  <2>1. pc' = "InvalidSurrogateIV" /\ ~opens'
    BY <1>2, <1>11 DEF RefusesPrefix
  <2> QED
    BY <2>1 DEF ProgressInv
<1>12. CASE MovesNoWindow(n)
  <2>1. pc' = "undefined"
    BY <1>12 DEF MovesNoWindow
  <2> QED
    BY <1>2, <1>9, <1>12, <2>1 DEF ProgressInv
<1> QED
  BY <1>7, <1>10, <1>11, <1>12

\* Finish accepts a genuine body that came whole.
LEMMA FinishProgress ==
    ASSUME FullInv, DoFinish
    PROVE  ProgressInv'
<1>1. pc = "read" /\ UNCHANGED <<sealed, total, genuine, opens, taken>>
  BY DEF DoFinish, body
<1>2. PICK tag \in TagFound :
        pc' = IF ~tag THEN "UnexpectedFormat"
              ELSE IF ~DigestMatches THEN "MDCError" ELSE "verified"
  BY DEF DoFinish
<1>3. ASSUME genuine, total = sealed PROVE tag /\ DigestMatches
  <2>1. taken = sealed /\ sealed > 0
    BY <1>1, <1>3, WindowAssumption DEF FullInv, ProgressInv, IInv, TypeOK
  <2>2. mdc # <<>>
    BY <1>1, <2>1 DEF FullInv, IInv, WindowInv, Refused
  <2>3. mdc = Seg(sealed - MDCLen, sealed) /\ hashed = Seg(0, sealed - MDCLen)
    BY <2>1, <2>2 DEF FullInv, IInv, WindowInv
  <2> QED
    BY <1>3, <2>2, <2>3 DEF TagFound, DigestMatches
<1> QED
  BY <1>1, <1>2, <1>3 DEF ProgressInv

LEMMA FullStep ==
    ASSUME FullInv, [Next]_vars
    PROVE  FullInv'
<1>1. IInv'
  BY NextStep DEF FullInv
<1>2. CASE DoRead(FALSE)
  BY <1>1, <1>2, ReadProgress DEF FullInv
<1>3. CASE DoRead(TRUE)
  BY <1>1, <1>3, ReadProgress DEF FullInv
<1>4. CASE DoFinish
  BY <1>1, <1>4, FinishProgress DEF FullInv
<1>5. CASE UNCHANGED vars
  BY <1>1, <1>5 DEF vars, body, FullInv, ProgressInv
<1> QED
  BY <1>2, <1>3, <1>4, <1>5 DEF Next

LEMMA FullInvariance == Spec => []FullInv
<1>1. Init => FullInv
  <2> SUFFICES ASSUME Init PROVE FullInv
    OBVIOUS
  <2>1. IInv
    BY InitStep
  <2>2. ProgressInv
    BY WindowAssumption DEF Init, ProgressInv
  <2> QED
    BY <2>1, <2>2 DEF FullInv
<1>2. FullInv /\ [Next]_vars => FullInv'
  BY FullStep
<1> QED
  BY <1>1, <1>2, PTL DEF Spec

\* A whole, unaltered body is never refused when the key fits, wherever it is
\* cut and however short its payload is.
THEOREM WholeAccepted == Spec => []WholeIsVerified
<1>1. FullInv => WholeIsVerified
  BY WindowAssumption DEF FullInv, IInv, TypeOK, ProgressInv, WholeIsVerified, Ends
<1> QED
  BY <1>1, FullInvariance, PTL

\* Between two calls in_ holds less than prefix, MDC and one cipher step.
THEOREM LittleHeldBack == Spec => []HoldsBackLittle
<1>1. FullInv => HoldsBackLittle
  BY DEF FullInv, ProgressInv, HoldsBackLittle
<1> QED
  BY <1>1, FullInvariance, PTL

\* DoRead moves octets of a window that is not there only when the whole body
\* is shorter than prefix and MDC; every longer one leaves the window full.
THEOREM UndefinedOnlyShort == Spec => [](pc = "undefined" => total < PrefixLen + MDCLen)
<1>1. FullInv => (pc = "undefined" => total < PrefixLen + MDCLen)
  BY DEF FullInv, ProgressInv
<1> QED
  BY <1>1, FullInvariance, PTL
=============================================================================
