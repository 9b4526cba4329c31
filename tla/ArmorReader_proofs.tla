-------------------------- MODULE ArmorReader_proofs --------------------------
(***************************************************************************)
(* Proofs about ArmorReader, for every text, line length, block size and   *)
(* cut into calls: its types, that its machine fails only on a wrong       *)
(* format and never waits in CRC, that the tail is accepted only behind    *)
(* the right checksum and label, and that a regular text is decoded line   *)
(* by line, no more and no less, wherever it is cut.                       *)
(***************************************************************************)
EXTENDS ArmorReader, SeqLemmas

-----------------------------------------------------------------------------
(* The control invariant: which results the handler of a state can have    *)
(* left, and that the line of the checksum is there before CRC is entered. *)

Outcome == [Start       |-> {"None"},
            Unknown     |-> {"Pending", "Success", "Disabled"},
            Disabled    |-> {"Disabled"},
            BeginHeader |-> {"Pending", "Success", "UnexpectedFormat"},
            Header      |-> {"Pending", "Success", "UnexpectedFormat"},
            Payload     |-> {"Pending", "Success", "UnexpectedFormat"},
            CRC         |-> {"Success", "UnexpectedFormat"},
            Tail        |-> {"Pending", "Success", "UnexpectedFormat"},
            TailFound   |-> {"Success"},
            Fail        |-> {"UnexpectedFormat"}]

ControlInv ==
    /\ looping => st \in {"Header", "Payload"} /\ pc \in {"running", "thrown"}
    /\ ~looping => result \in Outcome[st]
    /\ failed <=> st = "Fail"
    /\ pc \in {"idle", "done"} => st \in {"Start", "TailFound", "Disabled"} \/ result = "Pending"
    /\ st = "Payload" /\ ~looping /\ result = "Success" => HasLine(Held)
    /\ emsg # "UnexpectedFormat"

IInv == TypeOK /\ ControlInv

-----------------------------------------------------------------------------
(* Lines.                                                                  *)

\* Pieces of a sequence are sequences.
LEMMA PieceType ==
    ASSUME NEW S, NEW s \in Seq(S), NEW n \in Nat
    PROVE  /\ Drop(s, n) \in Seq(S)
           /\ n <= Len(s) => Take(s, n) \in Seq(S) /\ Len(Take(s, n)) = n
           /\ n <= Len(s) => Len(Drop(s, n)) = Len(s) - n
<1>1. Len(s) \in Nat
  BY LenProperties
<1> QED
  BY <1>1, SubSeqProperties DEF Take, Drop

\* What is left is as it was, counted from the cut.
LEMMA DropIs ==
    ASSUME NEW S, NEW s \in Seq(S), NEW n \in Nat, n <= Len(s)
    PROVE  \A i \in 1..(Len(s) - n) : Drop(s, n)[i] = s[n + i]
<1> DEFINE k == Len(s)
<1>1. k \in Nat /\ n + 1 \in Int /\ k \in Int /\ \A i \in (n + 1)..k : s[i] \in S
  BY LenProperties, ElementOfSeq
<1>2. k - (n + 1) + 1 = k - n /\ \A i \in 1..(k - n) : (n + 1) + i - 1 = n + i
  BY <1>1
<1> HIDE DEF k
<1>3. \A i \in 1..(k - (n + 1) + 1) : SubSeq(s, n + 1, k)[i] = s[(n + 1) + i - 1]
  BY <1>1, SubSeqProperties
<1>4. \A i \in 1..(k - n) : SubSeq(s, n + 1, k)[i] = s[n + i]
  BY <1>2, <1>3
<1> QED
  BY <1>4 DEF k, Drop

\* The end of the first line is a place in the text, and no place in front of
\* it ends a line.
LEMMA LineEndIs ==
    ASSUME NEW b \in Seq(Char), Ends(b) # {}
    PROVE  /\ LineEnd(b) \in 1..Len(b) /\ b[LineEnd(b)].ch \in {"cr", "lf"}
           /\ \A i \in 1..(LineEnd(b) - 1) : b[i].ch \notin {"cr", "lf"}
<1>1. Len(b) \in Nat /\ DOMAIN b = 1..Len(b)
  BY LenProperties
<1>2. Ends(b) \in SUBSET Nat /\ Ends(b) \subseteq 1..Len(b)
  BY <1>1 DEF Ends
<1>3. Min(Ends(b)) \in Ends(b) /\ \A y \in Ends(b) : Min(Ends(b)) <= y
  BY <1>2, MinIs
<1>4. LineEnd(b) \in Ends(b) /\ \A y \in Ends(b) : LineEnd(b) <= y
  BY <1>3 DEF LineEnd
<1>5. LineEnd(b) \in 1..Len(b) /\ b[LineEnd(b)].ch \in {"cr", "lf"}
  BY <1>2, <1>4 DEF Ends
<1>6. ASSUME NEW i \in 1..(LineEnd(b) - 1), b[i].ch \in {"cr", "lf"} PROVE FALSE
  <2>1. i \in Ends(b) /\ i < LineEnd(b)
    BY <1>1, <1>5, <1>6 DEF Ends
  <2> QED
    BY <1>4, <1>5, <2>1
<1> QED
  BY <1>5, <1>6

\* A line and what is behind it.
LEMMA LineType ==
    ASSUME NEW b \in Seq(Char), HasLine(b)
    PROVE  Line(b) \in Seq(Char) /\ Rest(b) \in Seq(Char)
<1>1. LineEnd(b) \in 1..Len(b) /\ Len(b) \in Nat
  BY LineEndIs, LenProperties DEF HasLine
<1>2. LineEnd(b) - 1 \in Nat /\ LineEnd(b) - 1 <= Len(b) /\ LineEnd(b) \in Nat /\ LineEnd(b) + 1 \in Nat
  BY <1>1
<1> QED
  BY <1>2, PieceType DEF Line, Rest

\* A line that is put back with its end is the first line again.
LEMMA PutBackLine ==
    ASSUME NEW l \in Seq(Char), NEW r \in Seq(Char),
           \A i \in 1..Len(l) : l[i].ch \notin {"cr", "lf"}
    PROVE  LET c == Append(l, Plain("lf")) \o r
           IN  c \in Seq(Char) /\ HasLine(c) /\ Line(c) = l /\ Rest(c) = r
<1> DEFINE c == Append(l, Plain("lf")) \o r
<1>1. Plain("lf") \in Char
  BY DEF Plain, Char, Roles
<1>2. Append(l, Plain("lf")) \in Seq(Char) /\ Len(Append(l, Plain("lf"))) = Len(l) + 1
      /\ Len(l) \in Nat /\ Len(r) \in Nat
  BY <1>1, AppendProperties, LenProperties
<1>3. c \in Seq(Char) /\ Len(c) = Len(l) + 1 + Len(r) /\ DOMAIN c = 1..Len(c)
  BY <1>1, <1>2, ConcatProperties, LenProperties
<1>4. c[Len(l) + 1] = Plain("lf") /\ \A i \in 1..Len(l) : c[i] = l[i]
  BY <1>1, <1>2, ConcatProperties, AppendProperties
<1>5. Len(l) + 1 \in Ends(c)
  BY <1>2, <1>3, <1>4 DEF Ends, Plain
<1>6. LineEnd(c) \in 1..Len(c) /\ c[LineEnd(c)].ch \in {"cr", "lf"}
      /\ \A i \in 1..(LineEnd(c) - 1) : c[i].ch \notin {"cr", "lf"}
  BY <1>3, <1>5, LineEndIs
<1>7. \A i \in 1..Len(r) : c[Len(l) + 1 + i] = r[i]
  BY <1>2, ConcatProperties
<1> HIDE DEF c
<1>8. LineEnd(c) = Len(l) + 1
  BY <1>2, <1>4, <1>6 DEF Plain
<1>9. HasLine(c) /\ c[LineEnd(c)].ch = "lf"
  BY <1>4, <1>5, <1>8 DEF Plain, HasLine
<1>10. Line(c) = l
  <2>1. Line(c) = SubSeq(c, 1, Len(l))
    BY <1>2, <1>8 DEF Line, Take
  <2>2. SubSeq(c, 1, Len(l)) \in Seq(Char) /\ Len(SubSeq(c, 1, Len(l))) = Len(l)
        /\ \A i \in 1..Len(l) : SubSeq(c, 1, Len(l))[i] = c[i]
    BY <1>2, <1>3, SubSeqProperties
  <2> QED
    BY <1>4, <2>1, <2>2, SeqEqual
<1>11. Rest(c) = r
  <2>1. Rest(c) = SubSeq(c, Len(l) + 2, Len(c))
    BY <1>2, <1>8, <1>9 DEF Rest, Drop
  <2>2. SubSeq(c, Len(l) + 2, Len(c)) \in Seq(Char) /\ Len(SubSeq(c, Len(l) + 2, Len(c))) = Len(r)
        /\ \A i \in 1..Len(r) : SubSeq(c, Len(l) + 2, Len(c))[i] = c[Len(l) + 1 + i]
    BY <1>2, <1>3, SubSeqProperties
  <2> QED
    BY <1>7, <2>1, <2>2, SeqEqual
<1> QED
  BY <1>3, <1>9, <1>10, <1>11 DEF c

\* A line holds no line end.
LEMMA LineClean ==
    ASSUME NEW b \in Seq(Char), HasLine(b)
    PROVE  /\ Len(Line(b)) = LineEnd(b) - 1
           /\ \A i \in 1..Len(Line(b)) : Line(b)[i] = b[i] /\ Line(b)[i].ch \notin {"cr", "lf"}
<1>1. LineEnd(b) \in 1..Len(b) /\ Len(b) \in Nat /\ \A i \in 1..(LineEnd(b) - 1) : b[i].ch \notin {"cr", "lf"}
  BY LineEndIs, LenProperties DEF HasLine
<1>2. Len(Line(b)) = LineEnd(b) - 1 /\ \A i \in 1..Len(Line(b)) : Line(b)[i] = b[i]
  BY <1>1, SubSeqProperties DEF Line, Take
<1> QED
  BY <1>1, <1>2

\* What is put back of the checksum has a line.
LEMMA PutBackHasLine ==
    ASSUME NEW b \in Seq(Char), HasLine(b)
    PROVE  HasLine(Append(Line(b), Plain("lf")) \o Rest(b))
  BY LineType, LineClean, PutBackLine

\* The whole blocks of a line stand for octets.
LEMMA DecodeType ==
    ASSUME NEW line \in Seq(Char)
    PROVE  Decode(line) \in Seq(Nat)
<1> DEFINE k == Len(line) \div Quad
           piece(i) == SubSeq(line, (i - 1) * Quad + 1, i * Quad)
<1>1. Quad \in Nat \ {0} /\ Len(line) \in Nat
  BY ArmorReaderAssumption, LenProperties
<1>2. k \in Nat /\ k * Quad <= Len(line)
  BY <1>1
<1>3. ASSUME NEW i \in 1..k PROVE DecodeBlock(piece(i)) \in Seq(Nat)
  <2>1. (i - 1) * Quad + 1 \in 1..Len(line) /\ i * Quad \in 1..Len(line)
        /\ (i - 1) * Quad + 1 <= i * Quad
    <3>1. (i - 1) * Quad \in Nat /\ i * Quad = (i - 1) * Quad + Quad
      BY <1>1, <1>2
    <3>2. i * Quad <= k * Quad
      BY <1>1, <1>2
    <3>3. i * Quad \in Nat /\ k * Quad \in Nat
      BY <1>1, <1>2
    <3> HIDE DEF k
    <3> QED
      BY <1>1, <1>2, <3>1, <3>2, <3>3
  <2>2. piece(i) \in Seq(Char) /\ Len(piece(i)) > 0 /\ piece(i)[1] \in Char
    BY <2>1, <1>1, SubSeqProperties, ElementOfSeq
  <2>3. piece(i)[1].block \in Seq(Nat)
    BY <2>2 DEF Char
  <2>4. <<0>> \in Seq(Nat)
    OBVIOUS
  <2> QED
    BY <2>3, <2>4 DEF DecodeBlock
<1>4. [i \in 1..k |-> DecodeBlock(piece(i))] \in Seq(Seq(Nat))
  <2>1. k \in Nat
    BY <1>2
  <2> HIDE DEF k, piece
  <2> QED
    BY <1>3, <2>1
<1> QED
  BY <1>4, FlattenType DEF Decode

\* Octets of values are characters.
LEMMA OctetsType ==
    ASSUME NEW values \in Seq(Nat)
    PROVE  Octets(values) \in Seq(Char) /\ Len(Octets(values)) = Len(values)
<1>1. Len(values) \in Nat /\ DOMAIN values = 1..Len(values)
  BY LenProperties
<1>2. \A i \in DOMAIN values : Octet(values[i]) \in Char
  BY ElementOfSeq, <1>1 DEF Octet, Char, Roles
<1> QED
  BY <1>1, <1>2 DEF Octets

-----------------------------------------------------------------------------
(* Pieces of the text.                                                     *)

\* A piece of what stands between two places of a text occurs in it.
LEMMA PieceOccurs ==
    ASSUME NEW text \in Seq(Char), NEW n \in Nat, NEW p \in Nat, n <= p, p <= Len(text),
           NEW k \in Nat, NEW m \in Nat, k + m <= p - n
    PROVE  Occurs(SubSeq(SubSeq(text, n + 1, p), k + 1, k + m), Take(text, p))
<1> DEFINE b == SubSeq(text, n + 1, p)
           t == Take(text, p)
           x == SubSeq(b, k + 1, k + m)
           y == SubSeq(t, (n + k) + 1, (n + k) + m)
<1>1. Len(text) \in Nat
  BY LenProperties
<1>2. b \in Seq(Char) /\ Len(b) = p - n /\ \A i \in 1..(p - n) : b[i] = text[n + i]
  BY <1>1, SubSeqProperties
<1>3. t \in Seq(Char) /\ Len(t) = p /\ \A i \in 1..p : t[i] = text[i]
  BY <1>1, SubSeqProperties DEF Take
<1> HIDE DEF b, t
<1>4. x \in Seq(Char) /\ Len(x) = m /\ \A i \in 1..m : x[i] = b[k + i]
  BY <1>1, <1>2, SubSeqProperties
<1>5. y \in Seq(Char) /\ Len(y) = m /\ \A i \in 1..m : y[i] = t[n + k + i]
  BY <1>1, <1>3, SubSeqProperties
<1> HIDE DEF x, y
<1>6. ASSUME NEW i \in 1..m PROVE x[i] = y[i]
  <2>1. k + i \in 1..(p - n) /\ n + k + i \in 1..p /\ n + (k + i) = n + k + i
    OBVIOUS
  <2> QED
    BY <1>2, <1>3, <1>4, <1>5, <2>1, SMTT(30)
<1>7. x = y
  BY <1>4, <1>5, <1>6, SeqEqual
<1>8. n + k \in 0..(Len(t) - Len(x)) /\ SubSeq(t, (n + k) + 1, (n + k) + Len(x)) = x
  BY <1>3, <1>4, <1>7 DEF y
<1> QED
  BY <1>8 DEF Occurs, x, b, t

\* What occurs in the text that was seen occurs in it later.
LEMMA OccursGrows ==
    ASSUME NEW text \in Seq(Char), NEW p \in Nat, NEW q \in Nat, p <= q, q <= Len(text),
           NEW s \in Seq(Char), Occurs(s, Take(text, p))
    PROVE  Occurs(s, Take(text, q))
<1>1. Len(text) \in Nat /\ Len(s) \in Nat
  BY LenProperties
<1>2. Take(text, p) \in Seq(Char) /\ Len(Take(text, p)) = p /\ \A i \in 1..p : Take(text, p)[i] = text[i]
  BY <1>1, SubSeqProperties DEF Take
<1>3. Take(text, q) \in Seq(Char) /\ Len(Take(text, q)) = q /\ \A i \in 1..q : Take(text, q)[i] = text[i]
  BY <1>1, SubSeqProperties DEF Take
<1>4. PICK i \in 0..(p - Len(s)) : SubSeq(Take(text, p), i + 1, i + Len(s)) = s
  BY <1>2 DEF Occurs
<1> DEFINE x == SubSeq(Take(text, p), i + 1, i + Len(s))
           y == SubSeq(Take(text, q), i + 1, i + Len(s))
<1>5. x \in Seq(Char) /\ Len(x) = Len(s) /\ \A j \in 1..Len(s) : x[j] = text[i + j]
  BY <1>1, <1>2, <1>4, SubSeqProperties
<1>6. y \in Seq(Char) /\ Len(y) = Len(s) /\ \A j \in 1..Len(s) : y[j] = text[i + j]
  BY <1>1, <1>3, <1>4, SubSeqProperties
<1> HIDE DEF x, y
<1>7. x = y
  BY <1>5, <1>6, SeqEqual
<1>8. i \in 0..(Len(Take(text, q)) - Len(s)) /\ SubSeq(Take(text, q), i + 1, i + Len(s)) = s
  BY <1>1, <1>3, <1>4, <1>7 DEF x, y
<1> QED
  BY <1>8 DEF Occurs

\* The tail of what occurs occurs.
LEMMA OccursTail ==
    ASSUME NEW t \in Seq(Char), NEW s \in Seq(Char), s # <<>>, Occurs(s, t)
    PROVE  Occurs(Tail(s), t)
<1>1. Len(t) \in Nat /\ Len(s) \in Nat \ {0}
  BY LenProperties, EmptySeq
<1>2. Tail(s) \in Seq(Char) /\ Len(Tail(s)) = Len(s) - 1 /\ \A j \in 1..(Len(s) - 1) : Tail(s)[j] = s[j + 1]
  BY <1>1, HeadTailProperties
<1>3. PICK i \in 0..(Len(t) - Len(s)) : SubSeq(t, i + 1, i + Len(s)) = s
  BY DEF Occurs
<1>4. \A j \in 1..Len(s) : s[j] = t[i + j]
  <2>1. \A j \in 1..Len(s) : SubSeq(t, i + 1, i + Len(s))[j] = t[i + j]
    BY <1>1, SubSeqProperties
  <2> QED
    BY <1>3, <2>1
<1> DEFINE y == SubSeq(t, (i + 1) + 1, (i + 1) + Len(Tail(s)))
<1>5. y \in Seq(Char) /\ Len(y) = Len(s) - 1 /\ \A j \in 1..(Len(s) - 1) : y[j] = t[i + 1 + j]
  BY <1>1, <1>2, SubSeqProperties
<1> HIDE DEF y
<1>6. ASSUME NEW j \in 1..(Len(s) - 1) PROVE y[j] = Tail(s)[j]
  <2>1. j + 1 \in 1..Len(s) /\ i + (j + 1) = i + 1 + j
    BY <1>1
  <2> QED
    BY <1>2, <1>4, <1>5, <2>1
<1>7. y = Tail(s)
  BY <1>2, <1>5, <1>6, SeqEqual
<1>8. i + 1 \in 0..(Len(t) - Len(Tail(s)))
  BY <1>1, <1>2
<1> QED
  BY <1>7, <1>8 DEF Occurs, y

\* What is behind the first line is a rest of the text, like the whole was.
Eaten(b) == IF b[LineEnd(b)].ch = "cr" THEN LineEnd(b) + 1 ELSE LineEnd(b)
LEMMA RestIs ==
    ASSUME NEW text \in Seq(Char), NEW n \in Nat, NEW p \in Nat, n <= p, p <= Len(text),
           HasLine(SubSeq(text, n + 1, p))
    PROVE  /\ Eaten(SubSeq(text, n + 1, p)) \in 1..(p - n)
           /\ Rest(SubSeq(text, n + 1, p))
                = SubSeq(text, (n + Eaten(SubSeq(text, n + 1, p))) + 1, p)
<1> DEFINE b == SubSeq(text, n + 1, p)
           e == Eaten(b)
           x == SubSeq(b, e + 1, Len(b))
           y == SubSeq(text, (n + e) + 1, p)
<1>1. Len(text) \in Nat
  BY LenProperties
<1>2. b \in Seq(Char) /\ Len(b) = p - n /\ \A i \in 1..(p - n) : b[i] = text[n + i]
  BY <1>1, SubSeqProperties
<1> HIDE DEF b
<1>3. LineEnd(b) \in 1..Len(b) /\ HasLine(b)
  BY <1>2, LineEndIs DEF HasLine, b
<1>4. e \in 1..Len(b)
  BY <1>2, <1>3, SMTT(30) DEF HasLine, Eaten
<1> HIDE DEF e
<1>5. x \in Seq(Char) /\ Len(x) = Len(b) - e /\ \A i \in 1..(Len(b) - e) : x[i] = b[e + i]
  BY <1>2, <1>4, SubSeqProperties
<1>6. y \in Seq(Char) /\ Len(y) = p - n - e /\ \A i \in 1..(p - n - e) : y[i] = text[n + e + i]
  BY <1>1, <1>2, <1>4, SubSeqProperties
<1> HIDE DEF x, y
<1>7. ASSUME NEW i \in 1..(p - n - e) PROVE x[i] = y[i]
  <2>1. e + i \in 1..(p - n) /\ n + (e + i) = n + e + i /\ i \in 1..(Len(b) - e)
    BY <1>2, <1>4
  <2> QED
    BY <1>2, <1>5, <1>6, <2>1
<1>8. x = y
  BY <1>2, <1>5, <1>6, <1>7, SeqEqual
<1>9. Rest(b) = x
  BY DEF Rest, Drop, Eaten, e, x
<1>10. e \in 1..(p - n)
  BY <1>2, <1>4
<1> QED
  BY <1>8, <1>9, <1>10 DEF y, b, e

LEMMA RestOfText ==
    ASSUME NEW text \in Seq(Char), NEW n \in Nat, NEW p \in Nat, n <= p, p <= Len(text),
           HasLine(SubSeq(text, n + 1, p))
    PROVE  \E k \in 0..p : Rest(SubSeq(text, n + 1, p)) = SubSeq(text, k + 1, p)
<1> DEFINE k == n + Eaten(SubSeq(text, n + 1, p))
<1>1. k \in 0..p /\ Rest(SubSeq(text, n + 1, p)) = SubSeq(text, k + 1, p)
  <2>1. Eaten(SubSeq(text, n + 1, p)) \in 1..(p - n)
    BY RestIs
  <2>2. k \in 0..p
    BY <2>1
  <2> QED
    BY <2>2, RestIs
<1> QED
  BY <1>1

-----------------------------------------------------------------------------
(* The machine.                                                            *)

\* From where a state is entered, and with what result.
LEMMA EntersFrom ==
    ASSUME IInv, NEW s \in States, Enters(s)
    PROVE  /\ pc = "running" /\ ~looping /\ CanEnter(s) /\ st \notin {"TailFound", "Disabled"}
           /\ s = "Unknown"     => st \in {"Start", "Unknown"}
           /\ s = "Disabled"    => st = "Unknown" /\ result = "Disabled"
           /\ s = "BeginHeader" => st = "BeginHeader" \/ (st = "Unknown" /\ result = "Success")
           /\ s = "Header"      => st = "Header" \/ (st = "BeginHeader" /\ result = "Success")
           /\ s = "Payload"     => st = "Payload" \/ (st = "Header" /\ result = "Success")
           /\ s = "CRC"         => st = "Payload" /\ result = "Success"
           /\ s = "Tail"        => st = "Tail" \/ (st = "CRC" /\ result = "Success")
           /\ s = "TailFound"   => st = "Tail" /\ result = "Success"
           /\ s \notin {"Start", "Fail"}
<1>1. st \in States /\ Machine /\ CanExit(st) /\ CanEnter(s)
      /\ \E i \in DOMAIN Links[st] : Links[st][i] = s
  BY DEF IInv, TypeOK, Enters
<1>2. pc = "running" /\ ~looping /\ st \notin {"TailFound", "Disabled"}
  BY <1>1 DEF Machine, CanExit
<1> QED
  BY <1>1, <1>2 DEF States, Links, CanEnter, SharedCanEnter

\* The machine is stuck only on a wrong format.
LEMMA StuckOn ==
    ASSUME IInv, Stuck
    PROVE  pc = "running" /\ ~looping /\ result = "UnexpectedFormat"
<1>1. pc = "running" /\ ~looping /\ st \in States /\ result \in Outcome[st]
      /\ CanExit(st) /\ st # "Fail" /\ \A i \in DOMAIN Links[st] : ~CanEnter(Links[st][i])
  BY DEF IInv, TypeOK, ControlInv, Stuck, Machine
<1>2. st \notin {"TailFound", "Disabled"}
  BY <1>1 DEF CanExit
<1>3. CASE st = "Start"
  <2>1. 1 \in DOMAIN Links[st] /\ Links[st][1] = "Unknown"
    BY <1>3 DEF Links
  <2> QED
    BY <1>1, <1>3, <2>1 DEF CanEnter, Outcome
<1>4. CASE st = "Unknown"
  <2>1. /\ 1 \in DOMAIN Links[st] /\ Links[st][1] = "Unknown"
        /\ 2 \in DOMAIN Links[st] /\ Links[st][2] = "Disabled"
        /\ 3 \in DOMAIN Links[st] /\ Links[st][3] = "BeginHeader"
    BY <1>4 DEF Links
  <2> QED
    BY <1>1, <1>4, <2>1 DEF CanEnter, SharedCanEnter, Outcome
<1>5. CASE st \in {"BeginHeader", "Header", "Payload", "Tail"}
  <2>1. /\ 1 \in DOMAIN Links[st] /\ Links[st][1] = st
        /\ 2 \in DOMAIN Links[st] /\ Links[st][2] \notin {st, "Unknown", "Disabled"}
    BY <1>5 DEF Links
  <2> QED
    BY <1>1, <1>5, <2>1 DEF CanEnter, SharedCanEnter, Outcome
<1>6. CASE st = "CRC"
  <2>1. 1 \in DOMAIN Links[st] /\ Links[st][1] = "Tail"
    BY <1>6 DEF Links
  <2> QED
    BY <1>1, <1>6, <2>1 DEF CanEnter, SharedCanEnter, Outcome
<1> QED
  BY <1>1, <1>2, <1>3, <1>4, <1>5, <1>6 DEF States, Links

\* The turns of a handler.
LEMMA TurnFrom ==
    ASSUME IInv, NEW s \in States, Turn(s)
    PROVE  /\ pc = "running" /\ st' = s
           /\ (~looping /\ Enters(s)) \/ (looping /\ st = s /\ s \in {"Header", "Payload"})
           /\ st # "Fail"
<1>1. CASE Enters(s)
  BY <1>1, EntersFrom DEF Turn, IInv, ControlInv, Enters, States, Links
<1>2. CASE pc = "running" /\ looping /\ st = s
  BY <1>2 DEF Turn, IInv, ControlInv
<1> QED
  BY <1>1, <1>2 DEF Turn

LEMMA HeldType ==
    ASSUME TypeOK
    PROVE  Held \in Seq(Char) /\ in \in Seq(Char) /\ buf \in Seq(Char) /\ <<>> \in Seq(Char)
  BY ConcatProperties DEF TypeOK, Held

\* NextLine without a line, and with one.
LEMMA NoLineKeeps ==
    ASSUME TypeOK, NoLine
    PROVE  /\ ~HasLine(Held) /\ buf' \in Seq(Char) /\ in' \in Seq(Char)
           /\ looping' = FALSE /\ result' \in {"Pending", "UnexpectedFormat"}
           /\ UNCHANGED <<label, crc, out>>
  BY HeldType DEF NoLine, Report

LEMMA ReadLineKeeps ==
    ASSUME TypeOK, ReadLine
    PROVE  /\ Line(Held) \in Seq(Char) /\ Rest(Held) \in Seq(Char)
           /\ in' \in Seq(Char) /\ (Skip => buf' \in Seq(Char))
  BY HeldType, LineType DEF ReadLine, Skip

-----------------------------------------------------------------------------
(* Every step keeps the invariant.                                         *)

LEMMA InitInv == Init => IInv
<1> SUFFICES ASSUME Init PROVE IInv
  OBVIOUS
<1>1. scn.text \in Seq(Char) /\ Len(scn.text) \in Nat
  BY ArmorReaderAssumption, LenProperties DEF Init
<1>2. <<>> \in Seq(Char) /\ <<>> \in Seq(Nat) /\ 0 \in 0..Len(scn.text) /\ "Start" \in States
  BY <1>1, EmptySeq DEF States, Links
<1>3. TypeOK
  BY <1>2 DEF Init, TypeOK
<1>4. ControlInv
  BY DEF Init, ControlInv, Outcome
<1> QED
  BY <1>3, <1>4 DEF IInv

\* What an entered state needs to leave behind, besides the types of what
\* its handler changes.
LEMMA EnteredInv ==
    ASSUME IInv, pc = "running", st # "Fail", failed = FALSE,
           UNCHANGED <<scn, pos, failed, finish, emsg, given>>,
           st' \in States \ {"Fail", "Start"}, pc' \in {"running", "thrown"},
           in' \in Seq(Char), buf' \in Seq(Char), label' \in Seq(Char),
           crc' \in Seq(Nat), out' \in Seq(Char),
           status' \in {"Unknown", "Enabled", "Disabled"},
           result' \in {"None", "Pending", "Disabled", "UnexpectedFormat", "Success"},
           looping' \in BOOLEAN,
           looping' => st' \in {"Header", "Payload"},
           ~looping' => result' \in Outcome[st'],
           st' = "Payload" /\ ~looping' /\ result' = "Success" => HasLine(Held)'
    PROVE  IInv'
<1>1. TypeOK'
  BY DEF IInv, TypeOK
<1>2. ControlInv'
  BY DEF IInv, ControlInv
<1> QED
  BY <1>1, <1>2 DEF IInv

LEMMA UnknownInv == ASSUME IInv, EnterUnknown PROVE IInv'
<1>1. pc = "running" /\ ~looping /\ st # "Fail" /\ failed = FALSE
  BY EntersFrom DEF EnterUnknown, States, Links, IInv, ControlInv, TypeOK
<1>2. in' \in Seq(Char) /\ buf' \in Seq(Char)
  BY HeldType DEF EnterUnknown, GiveBack, IInv
<1>3. looping' = FALSE /\ result' \in {"Pending", "Disabled", "Success"}
  BY DEF EnterUnknown, Report
<1>4. st' = "Unknown" /\ UNCHANGED <<scn, pos, pc, failed, finish, status, label, crc, out, emsg, given>>
  BY DEF EnterUnknown
<1> QED
  BY <1>1, <1>2, <1>3, <1>4, EnteredInv DEF IInv, TypeOK, Outcome, States, Links

LEMMA DisabledInv == ASSUME IInv, EnterDisabled PROVE IInv'
<1>1. pc = "running" /\ ~looping /\ st # "Fail" /\ failed = FALSE /\ result = "Disabled"
  BY EntersFrom DEF EnterDisabled, States, Links, IInv, ControlInv, TypeOK
<1>2. st' = "Disabled" /\ status' = "Disabled"
      /\ UNCHANGED <<scn, pos, pc, looping, failed, finish, in, buf, result, label, crc, out, emsg, given>>
  BY DEF EnterDisabled
<1> QED
  BY <1>1, <1>2, EnteredInv DEF IInv, TypeOK, Outcome, States, Links

LEMMA TailFoundInv == ASSUME IInv, EnterTailFound PROVE IInv'
<1>1. pc = "running" /\ ~looping /\ st # "Fail" /\ failed = FALSE /\ result = "Success"
  BY EntersFrom DEF EnterTailFound, States, Links, IInv, ControlInv, TypeOK
<1>2. st' = "TailFound"
      /\ UNCHANGED <<scn, pos, pc, looping, failed, finish, in, buf, result, status, label, crc, out, emsg, given>>
  BY DEF EnterTailFound
<1> QED
  BY <1>1, <1>2, EnteredInv DEF IInv, TypeOK, Outcome, States, Links

LEMMA BeginHeaderInv == ASSUME IInv, EnterBeginHeader PROVE IInv'
<1>1. pc = "running" /\ st # "Fail" /\ failed = FALSE /\ st' = "BeginHeader" /\ status' = "Enabled"
      /\ UNCHANGED <<scn, pos, pc, failed, finish, emsg, given>>
  BY TurnFrom DEF EnterBeginHeader, States, Links, IInv, ControlInv, TypeOK
<1>2. /\ in' \in Seq(Char) /\ buf' \in Seq(Char) /\ label' \in Seq(Char)
      /\ looping' = FALSE /\ result' \in {"Pending", "Success", "UnexpectedFormat"}
      /\ UNCHANGED <<crc, out>>
  <2>1. CASE NoLine
    BY <2>1, NoLineKeeps DEF IInv, TypeOK
  <2>2. CASE ReadBeginHeader
    <3>1. Line(Held) \in Seq(Char) /\ in' \in Seq(Char) /\ buf' \in Seq(Char)
      BY <2>2, ReadLineKeeps DEF ReadBeginHeader, IInv
    <3>2. looping' = FALSE /\ result' \in {"Success", "UnexpectedFormat"} /\ UNCHANGED <<crc, out>>
      BY <2>2 DEF ReadBeginHeader, Report, Check
    <3>3. label' \in Seq(Char)
      <4> DEFINE line == Line(Held)
                 size == LabelLen(line)
      <4>1. CASE label' = label
        BY <4>1 DEF IInv, TypeOK
      <4>2. CASE size >= 0 /\ label' = Take(Drop(line, Len(MinHeader)), size)
        <5>1. Len(line) \in Nat /\ Len(MinHeader) \in Nat /\ Len(Separator) \in Nat
          BY <3>1, LenProperties, ArmorReaderAssumption
        <5>2. size \in Nat /\ Len(MinHeader) <= Len(line) /\ size <= Len(line) - Len(MinHeader)
          BY <5>1, <4>2 DEF LabelLen
        <5>3. Drop(line, Len(MinHeader)) \in Seq(Char)
              /\ Len(Drop(line, Len(MinHeader))) = Len(line) - Len(MinHeader)
          BY <3>1, <5>1, <5>2, PieceType
        <5> HIDE DEF size, line
        <5> QED
          BY <4>2, <5>2, <5>3, PieceType
      <4>3. size \in Int
        BY <3>1, LenProperties, ArmorReaderAssumption DEF LabelLen
      <4>4. label' = label \/ (~(size < 0) /\ label' = Take(Drop(line, Len(MinHeader)), size))
        BY <2>2 DEF ReadBeginHeader
      <4> HIDE DEF size, line
      <4> QED
        BY <4>1, <4>2, <4>3, <4>4
    <3> QED
      BY <3>1, <3>2, <3>3
  <2> QED
    BY <2>1, <2>2 DEF EnterBeginHeader
<1> QED
  BY <1>1, <1>2, EnteredInv DEF IInv, TypeOK, Outcome, States, Links

LEMMA HeaderInv == ASSUME IInv, EnterHeader PROVE IInv'
<1>1. pc = "running" /\ st # "Fail" /\ failed = FALSE /\ st' = "Header"
      /\ UNCHANGED <<scn, pos, pc, failed, finish, status, emsg, given>>
  BY TurnFrom DEF EnterHeader, States, Links, IInv, ControlInv, TypeOK
<1>2. /\ in' \in Seq(Char) /\ buf' \in Seq(Char)
      /\ looping' \in BOOLEAN
      /\ result' \in {"None", "Pending", "Disabled", "UnexpectedFormat", "Success"}
      /\ ~looping' => result' \in {"Pending", "Success", "UnexpectedFormat"}
      /\ UNCHANGED <<label, crc, out>>
  <2>1. CASE NoLine
    BY <2>1, NoLineKeeps DEF IInv, TypeOK
  <2>2. CASE ReadHeader
    BY <2>2, ReadLineKeeps DEF ReadHeader, Report, Loop, IInv, TypeOK
  <2> QED
    BY <2>1, <2>2 DEF EnterHeader
<1> QED
  BY <1>1, <1>2, EnteredInv DEF IInv, TypeOK, Outcome, States, Links

LEMMA PayloadInv == ASSUME IInv, EnterPayload PROVE IInv'
<1>1. pc = "running" /\ st # "Fail" /\ failed = FALSE /\ st' = "Payload"
      /\ UNCHANGED <<scn, pos, failed, finish, status, emsg, given>>
  BY TurnFrom DEF EnterPayload, States, Links, IInv, ControlInv, TypeOK
<1>2. /\ in' \in Seq(Char) /\ buf' \in Seq(Char) /\ label' \in Seq(Char)
      /\ crc' \in Seq(Nat) /\ out' \in Seq(Char) /\ pc' \in {"running", "thrown"}
      /\ looping' \in BOOLEAN
      /\ result' \in {"None", "Pending", "Disabled", "UnexpectedFormat", "Success"}
      /\ ~looping' => result' \in {"Pending", "Success", "UnexpectedFormat"}
      /\ ~looping' /\ result' = "Success" => HasLine(Held)'
  <2>1. CASE NoLine /\ UNCHANGED pc
    BY <1>1, <2>1, NoLineKeeps DEF IInv, TypeOK
  <2>2. CASE ReadPayload
    <3> DEFINE line == Line(Held)
    <3>1. HasLine(Held) /\ line \in Seq(Char) /\ Rest(Held) \in Seq(Char) /\ in' = <<>>
          /\ in' \in Seq(Char) /\ (Skip => buf' \in Seq(Char)) /\ Held \in Seq(Char)
          /\ UNCHANGED label
      BY <2>2, ReadLineKeeps, HeldType DEF ReadPayload, ReadLine, IInv
    <3>2. CASE PutBack(line) /\ Report("Success") /\ UNCHANGED <<pc, crc, out>>
      <4>1. Plain("lf") \in Char
        BY DEF Plain, Char, Roles
      <4>2. buf' = Append(line, Plain("lf")) \o Rest(Held)
        BY <3>2 DEF PutBack
      <4>3. buf' \in Seq(Char)
        BY <3>1, <4>1, <4>2, AppendProperties, ConcatProperties
      <4>4. Held' = buf'
        BY <3>1, <4>3, ConcatEmptySeq DEF Held
      <4>5. HasLine(Held)'
        BY <3>1, <4>2, <4>4, PutBackHasLine DEF HasLine, Ends, LineEnd
      <4> QED
        BY <1>1, <3>1, <3>2, <4>3, <4>5 DEF Report, IInv, TypeOK
    <3>3. CASE Skip /\ Report("UnexpectedFormat") /\ UNCHANGED <<pc, crc, out>>
      BY <1>1, <3>1, <3>3 DEF Report, IInv, TypeOK
    <3>4. CASE Skip /\ Loop /\ CountSum(Decode(line)) /\ out' = out \o Octets(Decode(line)) /\ UNCHANGED pc
      <4>1. Decode(line) \in Seq(Nat) /\ Octets(Decode(line)) \in Seq(Char)
        BY <3>1, DecodeType, OctetsType
      <4>2. crc' \in Seq(Nat) /\ out' \in Seq(Char)
        BY <3>4, <4>1, ConcatProperties DEF CountSum, IInv, TypeOK
      <4> QED
        BY <1>1, <3>1, <3>4, <4>2 DEF Loop, IInv, TypeOK
    <3>5. CASE Skip /\ Loop /\ pc' = "thrown" /\ UNCHANGED <<crc, out>>
      BY <3>1, <3>5 DEF Loop, IInv, TypeOK
    <3> QED
      BY <2>2, <3>2, <3>3, <3>4, <3>5 DEF ReadPayload
  <2> QED
    BY <2>1, <2>2 DEF EnterPayload
<1> QED
  BY <1>1, <1>2, EnteredInv DEF IInv, TypeOK, Outcome, States, Links

\* The line of the checksum is there: CRC ends with success or a wrong format.
LEMMA CRCInv == ASSUME IInv, EnterCRC PROVE IInv'
<1>1. pc = "running" /\ st # "Fail" /\ failed = FALSE /\ st' = "CRC"
      /\ UNCHANGED <<scn, pos, pc, failed, finish, status, emsg, given>>
  BY TurnFrom DEF EnterCRC, States, Links, IInv, ControlInv, TypeOK
<1>2. HasLine(Held)
  <2>1. ~looping /\ Enters("CRC")
    BY TurnFrom DEF EnterCRC, States, Links
  <2>2. st = "Payload" /\ result = "Success"
    BY <2>1, EntersFrom DEF States, Links
  <2> QED
    BY <2>1, <2>2 DEF IInv, ControlInv
<1>3. ReadCRC
  BY <1>2, NoLineKeeps DEF EnterCRC, IInv
<1>4. /\ in' \in Seq(Char) /\ buf' \in Seq(Char) /\ looping' = FALSE
      /\ result' \in {"Success", "UnexpectedFormat"} /\ UNCHANGED <<label, crc, out>>
  BY <1>3, ReadLineKeeps DEF ReadCRC, Check, Report, IInv
<1> QED
  BY <1>1, <1>4, EnteredInv DEF IInv, TypeOK, Outcome, States, Links

LEMMA TailInv == ASSUME IInv, EnterTail PROVE IInv'
<1>1. pc = "running" /\ st # "Fail" /\ failed = FALSE /\ st' = "Tail"
      /\ UNCHANGED <<scn, pos, pc, failed, finish, status, emsg, given>>
  BY TurnFrom DEF EnterTail, States, Links, IInv, ControlInv, TypeOK
<1>2. /\ in' \in Seq(Char) /\ buf' \in Seq(Char) /\ looping' = FALSE
      /\ result' \in {"Pending", "Success", "UnexpectedFormat"} /\ UNCHANGED <<label, crc, out>>
  <2>1. CASE NoLine
    BY <2>1, NoLineKeeps DEF IInv, TypeOK
  <2>2. CASE ReadTail
    BY <2>2, ReadLineKeeps DEF ReadTail, Check, Report, IInv
  <2> QED
    BY <2>1, <2>2 DEF EnterTail
<1> QED
  BY <1>1, <1>2, EnteredInv DEF IInv, TypeOK, Outcome, States, Links

LEMMA FailInv == ASSUME IInv, EnterFail PROVE IInv'
<1>1. pc = "running" /\ ~looping /\ result = "UnexpectedFormat"
  BY StuckOn DEF EnterFail
<1>2. st' = "Fail" /\ failed' = TRUE
      /\ UNCHANGED <<scn, pos, pc, looping, finish, in, buf, result, status, label, crc, out, emsg, given>>
  BY DEF EnterFail
<1>3. TypeOK'
  BY <1>2 DEF IInv, TypeOK, States, Links
<1>4. ControlInv'
  BY <1>1, <1>2 DEF IInv, ControlInv, Outcome
<1> QED
  BY <1>3, <1>4 DEF IInv

LEMMA FeedInv ==
    ASSUME IInv, NEW n \in 0..(Len(scn.text) - pos), Feed(n), finish' \in BOOLEAN
    PROVE  IInv'
<1>1. scn.text \in Seq(Char) /\ Len(scn.text) \in Nat /\ pos \in 0..Len(scn.text)
  BY ArmorReaderAssumption, LenProperties DEF IInv, TypeOK
<1>2. SubSeq(scn.text, pos + 1, pos + n) \in Seq(Char) /\ pos' \in 0..Len(scn.text)
  BY <1>1, SubSeqProperties DEF Feed
<1>3. in' \in Seq(Char)
  BY <1>2, HeldType, ConcatProperties DEF Feed, IInv
<1>4. pc = "idle" /\ pc' = "running"
      /\ UNCHANGED <<scn, looping, st, failed, buf, result, status, label, crc, out, emsg, given>>
  BY DEF Feed
<1>5. TypeOK'
  BY <1>2, <1>3, <1>4 DEF IInv, TypeOK
<1>6. ControlInv'
  BY <1>4 DEF IInv, ControlInv
<1> QED
  BY <1>5, <1>6 DEF IInv

\* The results with which the machine stops.
LEMMA StopsWith ==
    ASSUME IInv, Returning
    PROVE  /\ pc = "running" /\ ~looping
           /\ ~Refused => result \in {"Pending", "Success", "Disabled"} /\ ~failed
           /\ ~Refused => st \in {"TailFound", "Disabled"} \/ result = "Pending"
           /\ Reported \in {"Success", "Pending", "UnexpectedError"}
<1>1. pc = "running" /\ ~looping /\ st \in States /\ result \in Outcome[st] /\ (failed <=> st = "Fail")
      /\ (~CanExit(st) \/ st = "Fail")
  BY DEF IInv, TypeOK, ControlInv, Returning, Machine
<1>2. CASE st = "Fail"
  BY <1>1, <1>2 DEF Refused, Reported
<1>3. CASE st \in {"TailFound", "Disabled"}
  BY <1>1, <1>3 DEF Refused, Reported, Outcome
<1>4. CASE st \notin {"TailFound", "Disabled", "Fail"}
  BY <1>1, <1>4 DEF Refused, Reported, CanExit
<1> QED
  BY <1>1, <1>2, <1>3, <1>4

LEMMA RefuseInv == ASSUME IInv, Refuse PROVE IInv'
<1>1. Reported \in {"Success", "Pending", "UnexpectedError"} /\ ~looping /\ pc' = "failed" /\ emsg' = Reported
      /\ UNCHANGED <<scn, pos, looping, finish, st, failed, in, buf, result, status, label, crc, out, given>>
  BY StopsWith DEF Refuse, reader
<1>2. TypeOK'
  BY <1>1 DEF IInv, TypeOK
<1>3. ControlInv'
  BY <1>1 DEF IInv, ControlInv, HasLine, Held, LineEnd, Ends
<1> QED
  BY <1>2, <1>3 DEF IInv

LEMMA ReturnInv == ASSUME IInv, Return PROVE IInv'
<1>1. /\ result \in {"Pending", "Success", "Disabled"} /\ ~looping
      /\ st \in {"TailFound", "Disabled"} \/ result = "Pending"
      /\ emsg' \in {"Success", "Pending", "UnexpectedError"}
      /\ pc' \in {"done", "idle"}
      /\ UNCHANGED <<scn, pos, looping, finish, st, failed, buf, result, status, label, crc>>
  BY StopsWith DEF Return
<1>2. Passed \in Seq(Char) /\ in' \in Seq(Char) /\ out' \in Seq(Char)
  BY HeldType DEF Passed, Return, IInv
<1>3. given' \in Seq(Char)
  BY <1>2, ConcatProperties DEF Return, IInv, TypeOK
<1>4. TypeOK'
  BY <1>1, <1>2, <1>3 DEF IInv, TypeOK
<1>5. ControlInv'
  BY <1>1 DEF IInv, ControlInv
<1> QED
  BY <1>4, <1>5 DEF IInv

LEMMA NextInv == IInv /\ [Next]_vars => IInv'
<1> SUFFICES ASSUME IInv, [Next]_vars PROVE IInv'
  OBVIOUS
<1>1. CASE Step
  BY <1>1, UnknownInv, DisabledInv, BeginHeaderInv, HeaderInv, PayloadInv, CRCInv,
     TailInv, TailFoundInv, FailInv, RefuseInv, ReturnInv DEF Step
<1>2. CASE Read
  <2>1. PICK n \in 1..(Len(scn.text) - pos) : Feed(n) /\ UNCHANGED finish
    BY <1>2 DEF Read
  <2>2. n \in 0..(Len(scn.text) - pos) /\ finish' \in BOOLEAN
    BY <2>1 DEF IInv, TypeOK
  <2> QED
    BY <2>1, <2>2, FeedInv
<1>3. CASE Finish
  <2>1. Len(scn.text) \in Nat /\ pos \in 0..Len(scn.text)
    BY ArmorReaderAssumption, LenProperties DEF IInv, TypeOK
  <2>2. Len(scn.text) - pos \in 0..(Len(scn.text) - pos)
    BY <2>1
  <2> QED
    BY <1>3, <2>2, FeedInv DEF Finish
<1>4. CASE UNCHANGED vars
  <2>1. TypeOK'
    BY <1>4 DEF IInv, TypeOK, vars, reader
  <2>2. ControlInv'
    BY <1>4 DEF IInv, ControlInv, vars, reader, HasLine, Held, LineEnd, Ends
  <2> QED
    BY <2>1, <2>2 DEF IInv
<1> QED
  BY <1>1, <1>2, <1>3, <1>4 DEF Next

LEMMA AlwaysInv == Spec => []IInv
  BY InitInv, NextInv, PTL DEF Spec

-----------------------------------------------------------------------------
(* The text invariant: where what the reader holds stands in the text, and *)
(* what must have been seen of the text before a state is reached.         *)

Seen      == Take(scn.text, pos)
Behind(b) == \E n \in 0..pos : b = SubSeq(scn.text, n + 1, pos)
PutBackOf(b) ==
    \E n \in 0..pos, l \in Seq(Char) :
        /\ b = Append(l, Plain("lf")) \o SubSeq(scn.text, n + 1, pos)
        /\ \A i \in 1..Len(l) : l[i].ch \notin {"cr", "lf"}
        /\ Occurs(l, Seen)

FirstLine == MinHeader \o label \o Separator
LastLine  == MinTail \o label \o Separator
SumOf     == [i \in 1..Quad |-> Sum(crc, i)]

InArmor == {"BeginHeader", "Header", "Payload", "CRC", "Tail", "TailFound"}

PlaceInv ==
    /\ looping => result \in {"Pending", "Success"}
    /\ result # "Disabled" =>
           IF st = "Payload" /\ ~looping /\ result = "Success" THEN PutBackOf(Held)
           ELSE Behind(Held)
PrefixInv ==
    (st = "Unknown" /\ result = "Success") \/ (st = "BeginHeader" /\ result = "Pending") =>
        IsPrefix(MinHeader, Held)
LabelInv ==
    (st = "BeginHeader" /\ result = "Success") \/ st \in InArmor \ {"BeginHeader"} =>
        Occurs(FirstLine, Seen)
SumInv ==
    (st = "CRC" /\ result = "Success") \/ st \in {"Tail", "TailFound"} => Occurs(SumOf, Seen)
EndInv ==
    (st = "Tail" /\ result = "Success") \/ st = "TailFound" => Occurs(LastLine, Seen)
GivenInv ==
    /\ status = "Disabled" <=> st = "Disabled"
    /\ pc \in {"idle", "done"} => out = <<>>
    /\ st \in {"Start", "Unknown"} => given = <<>> /\ out = <<>> /\ crc = <<>>
    /\ st \in InArmor => given \o out = Octets(crc)

TextInv == PlaceInv /\ PrefixInv /\ LabelInv /\ SumInv /\ EndInv /\ GivenInv

LEMMA SeenType ==
    ASSUME TypeOK
    PROVE  /\ scn.text \in Seq(Char) /\ Len(scn.text) \in Nat /\ pos \in Nat /\ pos <= Len(scn.text)
           /\ Seen \in Seq(Char)
<1>1. scn.text \in Seq(Char) /\ Len(scn.text) \in Nat /\ pos \in Nat /\ pos <= Len(scn.text)
  BY ArmorReaderAssumption, LenProperties DEF TypeOK
<1> QED
  BY <1>1, PieceType DEF Seen

\* The first line of what is held occurs in the text, and the rest is behind.
LEMMA LineSeen ==
    ASSUME TypeOK, HasLine(Held), Behind(Held) \/ PutBackOf(Held)
    PROVE  Occurs(Line(Held), Seen) /\ Behind(Rest(Held))
<1>1. CASE Behind(Held)
  <2>1. PICK n \in 0..pos : Held = SubSeq(scn.text, n + 1, pos)
    BY <1>1 DEF Behind
  <2>2. n \in Nat /\ n <= pos
    BY <2>1, SeenType
  <2>3. Behind(Rest(Held))
    BY <2>1, <2>2, SeenType, RestOfText DEF Behind
  <2>4. Len(Held) = pos - n /\ LineEnd(Held) \in 1..Len(Held)
    <3>1. Len(SubSeq(scn.text, n + 1, pos)) = pos - n
      BY <2>2, SeenType, SubSeqProperties
    <3>2. LineEnd(Held) \in 1..Len(Held)
      BY HeldType, LineEndIs DEF HasLine
    <3> QED
      BY <2>1, <3>1, <3>2
  <2>5. LineEnd(Held) - 1 \in Nat /\ 0 + (LineEnd(Held) - 1) <= pos - n
    BY <2>2, <2>4, SeenType
  <2>6. Occurs(SubSeq(SubSeq(scn.text, n + 1, pos), 0 + 1, 0 + (LineEnd(Held) - 1)), Take(scn.text, pos))
    BY <2>2, <2>5, SeenType, PieceOccurs
  <2>7. Line(Held) = SubSeq(SubSeq(scn.text, n + 1, pos), 0 + 1, 0 + (LineEnd(Held) - 1))
    <3>1. Line(Held) = SubSeq(Held, 1, LineEnd(Held) - 1)
      BY DEF Line, Take
    <3>2. 0 + 1 = 1 /\ 0 + (LineEnd(Held) - 1) = LineEnd(Held) - 1
      BY <2>5
    <3> QED
      BY <2>1, <3>1, <3>2
  <2> QED
    BY <2>3, <2>6, <2>7 DEF Seen
<1>2. CASE PutBackOf(Held)
  <2>1. PICK n \in 0..pos, l \in Seq(Char) :
           /\ Held = Append(l, Plain("lf")) \o SubSeq(scn.text, n + 1, pos)
           /\ \A i \in 1..Len(l) : l[i].ch \notin {"cr", "lf"}
           /\ Occurs(l, Seen)
    BY <1>2 DEF PutBackOf
  <2>2. SubSeq(scn.text, n + 1, pos) \in Seq(Char)
    BY <2>1, SeenType, SubSeqProperties
  <2>3. Line(Held) = l /\ Rest(Held) = SubSeq(scn.text, n + 1, pos)
    BY <2>1, <2>2, PutBackLine
  <2> QED
    BY <2>1, <2>3 DEF Behind
<1> QED
  BY <1>1, <1>2

\* What is behind stays behind when the next piece of the text comes.
LEMMA BehindGrows ==
    ASSUME NEW text \in Seq(Char), NEW n \in Nat, NEW p \in Nat, NEW q \in Nat,
           n <= p, p <= q, q <= Len(text)
    PROVE  SubSeq(text, n + 1, p) \o SubSeq(text, p + 1, q) = SubSeq(text, n + 1, q)
<1> DEFINE a == SubSeq(text, n + 1, p)
           b == SubSeq(text, p + 1, q)
           c == SubSeq(text, n + 1, q)
<1>1. Len(text) \in Nat
  BY LenProperties
<1>2. a \in Seq(Char) /\ Len(a) = p - n /\ \A i \in 1..(p - n) : a[i] = text[n + i]
  BY <1>1, SubSeqProperties
<1>3. b \in Seq(Char) /\ Len(b) = q - p /\ \A i \in 1..(q - p) : b[i] = text[p + i]
  BY <1>1, SubSeqProperties
<1>4. c \in Seq(Char) /\ Len(c) = q - n /\ \A i \in 1..(q - n) : c[i] = text[n + i]
  BY <1>1, SubSeqProperties
<1> HIDE DEF a, b, c
<1>5. a \o b \in Seq(Char) /\ Len(a \o b) = q - n
      /\ \A i \in 1..(q - n) : (a \o b)[i] = IF i <= p - n THEN a[i] ELSE b[i - (p - n)]
  <2>1. a \o b \in Seq(Char) /\ Len(a \o b) = Len(a) + Len(b)
        /\ \A i \in 1..(Len(a) + Len(b)) : (a \o b)[i] = IF i <= Len(a) THEN a[i] ELSE b[i - Len(a)]
    BY <1>2, <1>3, ConcatProperties
  <2>2. Len(a) + Len(b) = q - n /\ Len(a) = p - n
    BY <1>2, <1>3
  <2> QED
    BY <2>1, <2>2
<1>6. ASSUME NEW i \in 1..(q - n) PROVE (a \o b)[i] = c[i]
  <2>1. CASE i <= p - n
    <3>1. i \in 1..(p - n)
      BY <2>1
    <3> QED
      BY <1>2, <1>4, <1>5, <2>1, <3>1
  <2>2. CASE ~(i <= p - n)
    <3>1. i - (p - n) \in 1..(q - p) /\ p + (i - (p - n)) = n + i
      BY <2>2
    <3> QED
      BY <1>3, <1>4, <1>5, <2>2, <3>1
  <2> QED
    BY <2>1, <2>2
<1>7. a \o b = c
  BY <1>4, <1>5, <1>6, SeqEqual
<1> QED
  BY <1>7 DEF a, b, c

LEMMA OctetsConcat ==
    ASSUME NEW s \in Seq(Nat), NEW t \in Seq(Nat)
    PROVE  Octets(s \o t) = Octets(s) \o Octets(t)
<1>1. s \o t \in Seq(Nat) /\ Len(s \o t) = Len(s) + Len(t) /\ Len(s) \in Nat /\ Len(t) \in Nat
      /\ \A i \in 1..(Len(s) + Len(t)) : (s \o t)[i] = IF i <= Len(s) THEN s[i] ELSE t[i - Len(s)]
  BY ConcatProperties, LenProperties
<1>2. \A u \in Seq(Nat) : \A i \in 1..Len(u) : Octets(u)[i] = Octet(u[i])
  BY LenProperties DEF Octets
<1>3. Octets(s) \in Seq(Char) /\ Len(Octets(s)) = Len(s) /\ Octets(t) \in Seq(Char) /\ Len(Octets(t)) = Len(t)
      /\ Octets(s \o t) \in Seq(Char) /\ Len(Octets(s \o t)) = Len(s) + Len(t)
  BY <1>1, OctetsType
<1>4. Octets(s) \o Octets(t) \in Seq(Char) /\ Len(Octets(s) \o Octets(t)) = Len(s) + Len(t)
      /\ \A i \in 1..(Len(s) + Len(t)) : (Octets(s) \o Octets(t))[i] =
             IF i <= Len(s) THEN Octets(s)[i] ELSE Octets(t)[i - Len(s)]
  <2> DEFINE a == Octets(s)
             b == Octets(t)
  <2>1. a \in Seq(Char) /\ b \in Seq(Char) /\ Len(a) = Len(s) /\ Len(b) = Len(t)
    BY <1>3
  <2> HIDE DEF a, b
  <2>2. a \o b \in Seq(Char) /\ Len(a \o b) = Len(a) + Len(b)
        /\ \A i \in 1..(Len(a) + Len(b)) : (a \o b)[i] = IF i <= Len(a) THEN a[i] ELSE b[i - Len(a)]
    BY <2>1, ConcatProperties
  <2>3. a \o b \in Seq(Char) /\ Len(a \o b) = Len(s) + Len(t)
        /\ \A i \in 1..(Len(s) + Len(t)) : (a \o b)[i] = IF i <= Len(s) THEN a[i] ELSE b[i - Len(s)]
    BY <2>1, <2>2
  <2> QED
    BY <2>3 DEF a, b
<1>5. ASSUME NEW i \in 1..(Len(s) + Len(t)) PROVE Octets(s \o t)[i] = (Octets(s) \o Octets(t))[i]
  <2>1. Octets(s \o t)[i] = Octet((s \o t)[i])
    BY <1>1, <1>2
  <2>2. CASE i <= Len(s)
    <3>1. i \in 1..Len(s)
      BY <2>2, <1>1
    <3> QED
      BY <1>1, <1>2, <1>4, <2>1, <2>2, <3>1
  <2>3. CASE ~(i <= Len(s))
    <3>1. i - Len(s) \in 1..Len(t)
      BY <2>3, <1>1
    <3> QED
      BY <1>1, <1>2, <1>4, <2>1, <2>3, <3>1
  <2> QED
    BY <2>2, <2>3
<1> QED
  BY <1>3, <1>4, <1>5, SeqEqual

LEMMA TextInit == Init => TextInv
<1> SUFFICES ASSUME Init PROVE TextInv
  OBVIOUS
<1>1. IInv
  BY InitInv
<1>2. Held = <<>> /\ SubSeq(scn.text, 0 + 1, pos) = <<>> /\ 0 \in 0..pos
  <2>1. scn.text \in Seq(Char) /\ Len(scn.text) \in Nat /\ pos = 0
    BY <1>1, SeenType DEF Init, IInv
  <2>2. SubSeq(scn.text, 1, 0) = <<>>
    BY <2>1, SubSeqProperties, EmptySeq
  <2> QED
    BY <2>1, <2>2 DEF Init, Held
<1>3. Behind(Held)
  BY <1>2 DEF Behind
<1>4. PlaceInv
  BY <1>3 DEF Init, PlaceInv
<1>5. PrefixInv /\ LabelInv /\ SumInv /\ EndInv /\ GivenInv
  BY DEF Init, PrefixInv, LabelInv, SumInv, EndInv, GivenInv, InArmor
<1> QED
  BY <1>4, <1>5 DEF TextInv

\* What is known when a turn of a handler begins.
LEMMA TurnKnows ==
    ASSUME IInv, TextInv, NEW s \in {"BeginHeader", "Header", "Payload", "CRC", "Tail"}, Turn(s)
    PROVE  /\ result \in {"Pending", "Success"} /\ st # "Disabled"
           /\ s = "CRC" => PutBackOf(Held)
           /\ s # "CRC" => Behind(Held)
           /\ s = "BeginHeader" => IsPrefix(MinHeader, Held)
           /\ s # "BeginHeader" => Occurs(FirstLine, Seen)
           /\ s = "Tail" => Occurs(SumOf, Seen)
           /\ given \o out = Octets(crc)
<1>1. s \in States /\ st' = s /\ pc = "running"
      /\ ((~looping /\ Enters(s)) \/ (looping /\ st = s /\ s \in {"Header", "Payload"}))
  BY TurnFrom DEF States, Links
<1>2. /\ result \in {"Pending", "Success"}
      /\ s = "CRC" => ~looping /\ st = "Payload" /\ result = "Success"
      /\ s # "CRC" => ~(st = "Payload" /\ ~looping /\ result = "Success")
      /\ s = "BeginHeader" => (st = "Unknown" /\ result = "Success") \/ (st = "BeginHeader" /\ result = "Pending")
      /\ s # "BeginHeader" => (st = "BeginHeader" /\ result = "Success") \/ st \in InArmor \ {"BeginHeader"}
      /\ s = "Tail" => (st = "CRC" /\ result = "Success") \/ st = "Tail"
      /\ st \in InArmor \/ st = "Unknown"
  <2>1. CASE ~looping /\ Enters(s)
    <3>1. CanEnter(s) /\ (s = "BeginHeader" => st = "BeginHeader" \/ (st = "Unknown" /\ result = "Success"))
          /\ (s = "Header" => st = "Header" \/ (st = "BeginHeader" /\ result = "Success"))
          /\ (s = "Payload" => st = "Payload" \/ (st = "Header" /\ result = "Success"))
          /\ (s = "CRC" => st = "Payload" /\ result = "Success")
          /\ (s = "Tail" => st = "Tail" \/ (st = "CRC" /\ result = "Success"))
      BY <1>1, <2>1, EntersFrom
    <3>2. result = IF st = s THEN "Pending" ELSE "Success"
      BY <3>1 DEF CanEnter, SharedCanEnter
    <3> QED
      BY <2>1, <3>1, <3>2 DEF InArmor
  <2>2. CASE looping /\ st = s /\ s \in {"Header", "Payload"}
    BY <2>2 DEF TextInv, PlaceInv, InArmor
  <2> QED
    BY <1>1, <2>1, <2>2
<1>3. given \o out = Octets(crc)
  <2>1. CASE st \in InArmor
    BY <2>1 DEF TextInv, GivenInv
  <2>2. CASE st = "Unknown"
    <3>1. given = <<>> /\ out = <<>> /\ crc = <<>>
      BY <2>2 DEF TextInv, GivenInv
    <3>2. <<>> \in Seq(Nat) /\ Len(<<>>) = 0
      BY EmptySeq
    <3>3. Octets(<<>>) \in Seq(Char) /\ Len(Octets(<<>>)) = 0
      BY <3>2, OctetsType
    <3>4. Octets(<<>>) = <<>>
      BY <3>3, EmptySeq
    <3> QED
      BY <3>1, <3>4
  <2> QED
    BY <1>2, <2>1, <2>2
<1> QED
  BY <1>2, <1>3 DEF TextInv, PlaceInv, PrefixInv, LabelInv, SumInv, InArmor

\* The text and what was seen of it do not change inside a call.
LEMMA SeenKeeps ==
    ASSUME UNCHANGED <<scn, pos>>
    PROVE  /\ Seen' = Seen
           /\ label' = label => FirstLine' = FirstLine /\ LastLine' = LastLine
           /\ crc' = crc => SumOf' = SumOf
           /\ \A b : Behind(b) => (Held' = b => Behind(Held)')
           /\ \A b : PutBackOf(b) => (Held' = b => PutBackOf(Held)')
  BY DEF Seen, FirstLine, LastLine, SumOf, Behind, PutBackOf

\* A turn in a state of the armor keeps the invariant when it keeps these.
LEMMA TurnText ==
    ASSUME IInv, TextInv, NEW s \in {"BeginHeader", "Header", "Payload", "CRC", "Tail"}, Turn(s),
           UNCHANGED <<scn, pos, given>>,
           status' = (IF s = "BeginHeader" THEN "Enabled" ELSE status),
           pc' \in {"running", "thrown"},
           PlaceInv', PrefixInv', LabelInv', SumInv', EndInv', (given \o out = Octets(crc))'
    PROVE  TextInv'
<1>1. st' = s /\ st # "Disabled"
  BY TurnKnows DEF Turn
<1>2. status # "Disabled"
  BY <1>1 DEF TextInv, GivenInv
<1>3. GivenInv'
  BY <1>1, <1>2 DEF GivenInv, InArmor
<1> QED
  BY <1>3 DEF TextInv

\* NextLine changes only where the held text stands.
LEMMA NoLineHeld ==
    ASSUME IInv, NoLine
    PROVE  Held' = Held
  BY HeldType, ConcatEmptySeq DEF NoLine, Held, IInv

LEMMA SkipHeld ==
    ASSUME IInv, ReadLine, Skip
    PROVE  Held' = Rest(Held)
  BY HeldType, LineType, ConcatEmptySeq DEF ReadLine, Skip, Held, IInv

LEMMA DropEnd ==
    ASSUME NEW line \in Seq(Char), NEW m \in Nat, NEW e \in Nat, Len(line) = m + e
    PROVE  \A i \in 1..e : Drop(line, m)[i] = line[m + i]
<1>1. m <= Len(line) /\ Len(line) - m = e
  OBVIOUS
<1> QED
  BY <1>1, DropIs

\* The label is what stands between the two ends of the first line.
LEMMA LabelCut ==
    ASSUME NEW line \in Seq(Char), NEW size \in Nat,
           size = LabelLen(line), IsPrefix(MinHeader, line),
           Drop(line, Len(MinHeader) + size) = Separator
    PROVE  line = MinHeader \o Take(Drop(line, Len(MinHeader)), size) \o Separator
<1> DEFINE h == Len(MinHeader)
           d == Drop(line, h)
           l == Take(d, size)
           a == MinHeader \o l
           c == a \o Separator
<1>1. Len(line) \in Nat /\ h \in Nat /\ Len(Separator) \in Nat /\ MinHeader \in Seq(Char) /\ Separator \in Seq(Char)
      /\ Len(line) = h + size + Len(Separator)
  BY LenProperties, ArmorReaderAssumption DEF LabelLen
<1>2. \A i \in 1..h : MinHeader[i] = line[i]
  <2>1. SubSeq(MinHeader, 1, h) = SubSeq(line, 1, h)
    BY DEF IsPrefix
  <2>2. \A i \in 1..h : SubSeq(MinHeader, 1, h)[i] = MinHeader[i] /\ SubSeq(line, 1, h)[i] = line[i]
    BY <1>1, SubSeqProperties
  <2> QED
    BY <2>1, <2>2
<1>3. d \in Seq(Char) /\ Len(d) = size + Len(Separator) /\ \A i \in 1..(size + Len(Separator)) : d[i] = line[h + i]
  <2> DEFINE k == Len(line)
  <2>1. h + 1 \in Nat /\ k \in Nat /\ k = h + (size + Len(Separator)) /\ size + Len(Separator) \in Nat
    BY <1>1
  <2>2. d = SubSeq(line, h + 1, k)
    BY DEF Drop
  <2> HIDE DEF d, h, k
  <2>3. SubSeq(line, h + 1, k) \in Seq(Char) /\ Len(SubSeq(line, h + 1, k)) = k - h
        /\ \A i \in 1..(k - h) : SubSeq(line, h + 1, k)[i] = line[h + i]
    <3>1. h + 1 \in Int /\ k \in Int /\ h \in Nat /\ h <= k
      BY <1>1, <2>1
    <3>2. \A i \in (h + 1)..k : line[i] \in Char
      BY <1>1, ElementOfSeq DEF k
    <3>3. k - (h + 1) + 1 = k - h /\ \A i \in 1..(k - h) : h + 1 + i - 1 = h + i
      BY <3>1
    <3> HIDE DEF k, h
    <3>4. SubSeq(line, h + 1, k) \in Seq(Char)
          /\ Len(SubSeq(line, h + 1, k)) = (IF h + 1 <= k THEN k - (h + 1) + 1 ELSE 0)
          /\ \A i \in 1..(k - (h + 1) + 1) : SubSeq(line, h + 1, k)[i] = line[h + 1 + i - 1]
      BY <3>1, <3>2, SubSeqProperties
    <3> QED
      BY <3>1, <3>3, <3>4
  <2>4. k - h = size + Len(Separator)
    BY <1>1, <2>1
  <2> QED
    BY <2>2, <2>3, <2>4
<1>4. \A i \in 1..Len(Separator) : Separator[i] = line[h + size + i]
  <2>1. \A i \in 1..Len(Separator) : Drop(line, h + size)[i] = line[h + size + i]
    <3>1. h + size \in Nat
      BY <1>1
    <3>2. Len(line) = (h + size) + Len(Separator)
      BY <1>1
    <3> DEFINE m == h + size
    <3> HIDE DEF m
    <3>3. m \in Nat /\ Len(Separator) \in Nat /\ Len(line) = m + Len(Separator)
      BY <1>1, <3>1, <3>2 DEF m
    <3>4. \A i \in 1..Len(Separator) : Drop(line, m)[i] = line[m + i]
      BY <3>3, DropEnd
    <3> QED
      BY <3>4 DEF m
  <2> QED
    BY <2>1
<1> HIDE DEF d
<1>5. l \in Seq(Char) /\ Len(l) = size /\ \A i \in 1..size : l[i] = d[i]
  BY <1>1, <1>3, SubSeqProperties, SMTT(30) DEF Take
<1> HIDE DEF l
<1>6. a \in Seq(Char) /\ Len(a) = h + size /\ \A i \in 1..(h + size) : a[i] = line[i]
  <2>1. a \in Seq(Char) /\ Len(a) = h + size
        /\ \A i \in 1..(h + size) : a[i] = IF i <= h THEN MinHeader[i] ELSE l[i - h]
    BY <1>1, <1>5, ConcatProperties
  <2>2. ASSUME NEW i \in 1..(h + size) PROVE a[i] = line[i]
    <3>1. CASE i <= h
      BY <1>1, <1>2, <2>1, <3>1
    <3>2. CASE ~(i <= h)
      <4>1. i - h \in 1..size /\ i - h \in 1..(size + Len(Separator)) /\ h + (i - h) = i
        BY <1>1, <3>2
      <4> QED
        BY <1>3, <1>5, <2>1, <3>2, <4>1
    <3> QED
      BY <3>1, <3>2
  <2> QED
    BY <2>1, <2>2
<1> HIDE DEF a
<1>7. c \in Seq(Char) /\ Len(c) = Len(line) /\ \A i \in 1..Len(line) : c[i] = line[i]
  <2>1. c \in Seq(Char) /\ Len(c) = Len(a) + Len(Separator)
        /\ \A i \in 1..(Len(a) + Len(Separator)) : c[i] = IF i <= Len(a) THEN a[i] ELSE Separator[i - Len(a)]
    BY <1>1, <1>6, ConcatProperties, ZenonT(30)
  <2>2. Len(a) = h + size /\ Len(a) + Len(Separator) = Len(line)
    BY <1>1, <1>6
  <2> HIDE DEF c
  <2>3. ASSUME NEW i \in 1..Len(line) PROVE c[i] = line[i]
    <3>1. CASE i <= h + size
      BY <1>1, <1>6, <2>1, <2>2, <3>1
    <3>2. CASE ~(i <= h + size)
      <4>1. i - (h + size) \in 1..Len(Separator) /\ h + size + (i - (h + size)) = i
        BY <1>1, <3>2, SMTT(30)
      <4> QED
        BY <1>1, <1>4, <2>1, <2>2, <3>2, <4>1, ZenonT(30)
    <3> QED
      BY <3>1, <3>2
  <2> QED
    BY <2>1, <2>2, <2>3
<1> HIDE DEF c
<1>8. c = line
  BY <1>7, SeqEqual
<1> QED
  BY <1>8 DEF c, a, l, d, h

\* A text that begins with the header has it in its first line.
LEMMA HeaderInLine ==
    ASSUME NEW b \in Seq(Char), HasLine(b), IsPrefix(MinHeader, b), LabelLen(Line(b)) >= 0
    PROVE  IsPrefix(MinHeader, Line(b))
<1> DEFINE l == Line(b)
           h == Len(MinHeader)
<1>1. MinHeader \in Seq(Char) /\ h \in Nat /\ Len(Separator) \in Nat
  BY LenProperties, ArmorReaderAssumption
<1>2. l \in Seq(Char) /\ Len(l) \in Nat /\ h <= Len(l) /\ \A i \in 1..Len(l) : l[i] = b[i]
  BY <1>1, LineType, LineClean, LenProperties DEF LabelLen
<1>3. SubSeq(MinHeader, 1, h) = SubSeq(b, 1, h) /\ h <= Len(b) /\ Len(b) \in Nat
  BY LenProperties DEF IsPrefix
<1> HIDE DEF l
<1>4. SubSeq(b, 1, h) \in Seq(Char) /\ Len(SubSeq(b, 1, h)) = h /\ \A i \in 1..h : SubSeq(b, 1, h)[i] = b[i]
  BY <1>1, <1>3, SubSeqProperties
<1>5. SubSeq(l, 1, h) \in Seq(Char) /\ Len(SubSeq(l, 1, h)) = h /\ \A i \in 1..h : SubSeq(l, 1, h)[i] = l[i]
  BY <1>1, <1>2, SubSeqProperties
<1>6. SubSeq(l, 1, h) = SubSeq(b, 1, h)
  BY <1>1, <1>2, <1>4, <1>5, SeqEqual
<1> QED
  BY <1>1, <1>2, <1>3, <1>6 DEF IsPrefix, l

LEMMA UnknownText == ASSUME IInv, TextInv, EnterUnknown PROVE TextInv'
<1>1. st \in {"Start", "Unknown"} /\ result \in {"None", "Pending"} /\ ~looping /\ pc = "running"
  BY EntersFrom DEF EnterUnknown, CanEnter, States, Links
<1>2. /\ st' = "Unknown" /\ pc' = "running" /\ looping' = FALSE /\ result' # "None"
      /\ UNCHANGED <<scn, pos, status, label, crc, out, given>>
  BY <1>1 DEF EnterUnknown, Report
<1>3. Behind(Held) /\ given = <<>> /\ out = <<>> /\ crc = <<>> /\ status # "Disabled"
  BY <1>1 DEF TextInv, PlaceInv, GivenInv
<1>4. result' # "Disabled" => Held' = Held
  <2>1. Held \in Seq(Char) /\ Held \o <<>> = Held /\ <<>> \o Held = Held
    BY HeldType, ConcatEmptySeq DEF IInv
  <2>2. \/ buf' = Held /\ in' = <<>>
        \/ result' = "Disabled"
        \/ in' = Held /\ buf' = <<>>
    BY DEF EnterUnknown, GiveBack, Report
  <2>3. Held' = buf' \o in'
    BY DEF Held
  <2> QED
    BY <2>1, <2>2, <2>3
<1>5. result' = "Success" => IsPrefix(MinHeader, Held)
  BY DEF EnterUnknown, Report
<1>6. PlaceInv'
  BY <1>2, <1>3, <1>4, SeenKeeps DEF PlaceInv
<1>7. PrefixInv'
  BY <1>2, <1>4, <1>5 DEF PrefixInv, IsPrefix
<1>8. LabelInv' /\ SumInv' /\ EndInv' /\ GivenInv'
  BY <1>2, <1>3 DEF LabelInv, SumInv, EndInv, GivenInv, InArmor
<1> QED
  BY <1>6, <1>7, <1>8 DEF TextInv

LEMMA BeginHeaderText == ASSUME IInv, TextInv, EnterBeginHeader PROVE TextInv'
<1>1. Turn("BeginHeader") /\ st' = "BeginHeader" /\ status' = "Enabled" /\ pc' = "running"
      /\ UNCHANGED <<scn, pos, given>>
  BY TurnFrom DEF EnterBeginHeader, States, Links
<1>2. Behind(Held) /\ IsPrefix(MinHeader, Held) /\ given \o out = Octets(crc)
  BY <1>1, TurnKnows
<1>3. CASE NoLine
  <2>1. Held' = Held /\ looping' = FALSE /\ result' \in {"Pending", "UnexpectedFormat"} /\ UNCHANGED <<crc, out>>
    BY <1>3, NoLineHeld, NoLineKeeps DEF IInv
  <2>2. PlaceInv' /\ PrefixInv'
    BY <1>1, <1>2, <2>1, SeenKeeps DEF PlaceInv, PrefixInv, IsPrefix
  <2>3. LabelInv' /\ SumInv' /\ EndInv' /\ (given \o out = Octets(crc))'
    BY <1>1, <1>2, <2>1 DEF LabelInv, SumInv, EndInv, InArmor, Octets
  <2> QED
    BY <1>1, <2>2, <2>3, TurnText
<1>4. CASE ReadBeginHeader
  <2> DEFINE line == Line(Held)
             size == LabelLen(line)
  <2>1. /\ Held' = Rest(Held) /\ looping' = FALSE /\ result' \in {"Success", "UnexpectedFormat"}
        /\ UNCHANGED <<crc, out>> /\ HasLine(Held) /\ Held \in Seq(Char)
    BY <1>4, SkipHeld, HeldType DEF ReadBeginHeader, Report, Check, ReadLine, IInv
  <2>2. Occurs(line, Seen) /\ Behind(Rest(Held)) /\ line \in Seq(Char)
    BY <1>2, <2>1, LineSeen, LineType DEF IInv
  <2>3. result' = "Success" => line = FirstLine'
    <3> SUFFICES ASSUME result' = "Success" PROVE line = FirstLine'
      OBVIOUS
    <3>1. ~(size < 0) /\ label' = Take(Drop(line, Len(MinHeader)), size)
          /\ Drop(line, Len(MinHeader) + size) = Separator
      BY <1>4 DEF ReadBeginHeader, Report, Check
    <3>2. size \in Nat
      BY <2>2, <3>1, LenProperties, ArmorReaderAssumption DEF LabelLen
    <3>3. IsPrefix(MinHeader, line)
      BY <1>2, <2>1, <3>2, HeaderInLine
    <3> HIDE DEF line
    <3>4. line = MinHeader \o Take(Drop(line, Len(MinHeader)), size) \o Separator
      BY <2>2, <3>1, <3>2, <3>3, LabelCut
    <3> QED
      BY <3>1, <3>4 DEF FirstLine
  <2>4. PlaceInv' /\ PrefixInv'
    BY <1>1, <2>1, <2>2, SeenKeeps DEF PlaceInv, PrefixInv
  <2>5. LabelInv'
    BY <1>1, <2>2, <2>3, SeenKeeps DEF LabelInv, InArmor
  <2>6. SumInv' /\ EndInv' /\ (given \o out = Octets(crc))'
    BY <1>1, <1>2, <2>1 DEF SumInv, EndInv, Octets
  <2> QED
    BY <1>1, <2>4, <2>5, <2>6, TurnText
<1> QED
  BY <1>3, <1>4 DEF EnterBeginHeader

LEMMA HeaderText == ASSUME IInv, TextInv, EnterHeader PROVE TextInv'
<1>1. Turn("Header") /\ st' = "Header" /\ pc' = "running" /\ UNCHANGED <<scn, pos, given, status>>
  BY TurnFrom DEF EnterHeader, States, Links
<1>2. Behind(Held) /\ Occurs(FirstLine, Seen) /\ given \o out = Octets(crc) /\ result \in {"Pending", "Success"}
  BY <1>1, TurnKnows
<1>3. /\ Behind(Held') /\ (looping' => result' \in {"Pending", "Success"})
      /\ UNCHANGED <<label, crc, out>>
  <2>1. CASE NoLine
    BY <1>2, <2>1, NoLineHeld, NoLineKeeps DEF IInv
  <2>2. CASE ReadHeader
    <3>1. Held' = Rest(Held) /\ HasLine(Held) /\ UNCHANGED <<label, crc, out>>
          /\ (looping' => result' \in {"Pending", "Success"})
      BY <1>2, <2>2, SkipHeld DEF ReadHeader, ReadLine, Report, Loop
    <3> QED
      BY <1>2, <3>1, LineSeen DEF IInv
  <2> QED
    BY <2>1, <2>2 DEF EnterHeader
<1>4. PlaceInv' /\ PrefixInv'
  BY <1>1, <1>3, SeenKeeps DEF PlaceInv, PrefixInv
<1>5. LabelInv' /\ SumInv' /\ EndInv' /\ (given \o out = Octets(crc))'
  BY <1>1, <1>2, <1>3, SeenKeeps DEF LabelInv, SumInv, EndInv, Octets
<1> QED
  BY <1>1, <1>4, <1>5, TurnText

LEMMA PayloadText == ASSUME IInv, TextInv, EnterPayload PROVE TextInv'
<1>1. Turn("Payload") /\ st' = "Payload" /\ UNCHANGED <<scn, pos, given, status>>
      /\ pc = "running" /\ IInv'
  BY TurnFrom, PayloadInv DEF EnterPayload, States, Links
<1>2. Behind(Held) /\ Occurs(FirstLine, Seen) /\ given \o out = Octets(crc) /\ result \in {"Pending", "Success"}
  BY <1>1, TurnKnows
<1>3. /\ pc' \in {"running", "thrown"} /\ UNCHANGED label
      /\ (looping' => result' \in {"Pending", "Success"})
      /\ (~looping' /\ result' = "Success" => PutBackOf(Held'))
      /\ (looping' \/ result' # "Success" => Behind(Held'))
      /\ (given \o out = Octets(crc))'
  <2>1. CASE NoLine /\ UNCHANGED pc
    BY <1>1, <1>2, <2>1, NoLineHeld, NoLineKeeps DEF IInv, Octets
  <2>2. CASE ReadPayload
    <3> DEFINE line == Line(Held)
    <3>1. HasLine(Held) /\ Held \in Seq(Char) /\ ReadLine /\ UNCHANGED label
      BY <2>2, HeldType DEF ReadPayload, ReadLine, IInv
    <3>2. Occurs(line, Seen) /\ Behind(Rest(Held)) /\ line \in Seq(Char) /\ Rest(Held) \in Seq(Char)
      BY <1>2, <3>1, LineSeen, LineType DEF IInv
    <3>3. CASE PutBack(line) /\ Report("Success") /\ UNCHANGED <<pc, crc, out>>
      <4>1. buf' = Append(line, Plain("lf")) \o Rest(Held) /\ in' = <<>>
        BY <3>1, <3>3 DEF PutBack, ReadLine
      <4>2. Held' = Append(line, Plain("lf")) \o Rest(Held)
        <5>1. buf' \in Seq(Char)
          BY <1>1 DEF IInv, TypeOK
        <5> QED
          BY <4>1, <5>1, ConcatEmptySeq DEF Held
      <4>3. \A i \in 1..Len(line) : line[i].ch \notin {"cr", "lf"}
        BY <3>1, LineClean
      <4> HIDE DEF line
      <4>4. PutBackOf(Held')
        BY <3>2, <4>2, <4>3 DEF PutBackOf, Behind
      <4> QED
        BY <1>1, <1>2, <3>1, <3>3, <4>4 DEF Report, Octets
    <3>4. CASE Skip /\ Report("UnexpectedFormat") /\ UNCHANGED <<pc, crc, out>>
      BY <1>1, <1>2, <3>1, <3>2, <3>4, SkipHeld DEF Report, Octets
    <3>5. CASE Skip /\ Loop /\ CountSum(Decode(line)) /\ out' = out \o Octets(Decode(line)) /\ UNCHANGED pc
      <4>1. Decode(line) \in Seq(Nat) /\ Octets(Decode(line)) \in Seq(Char)
        BY <3>2, DecodeType, OctetsType
      <4>2. given \in Seq(Char) /\ out \in Seq(Char) /\ crc \in Seq(Nat)
        BY DEF IInv, TypeOK
      <4>3. given' \o out' = (given \o out) \o Octets(Decode(line))
        <5> DEFINE x == Octets(Decode(line))
        <5>1. x \in Seq(Char) /\ given' = given /\ out' = out \o x
          BY <1>1, <3>5, <4>1
        <5> HIDE DEF x
        <5>2. given \o (out \o x) = (given \o out) \o x
          BY <4>2, <5>1, ConcatAssociative, SMTT(30)
        <5> QED
          BY <5>1, <5>2 DEF x
      <4>4. Octets(crc') = Octets(crc) \o Octets(Decode(line))
        BY <3>5, <4>1, <4>2, OctetsConcat DEF CountSum
      <4>5. (given \o out = Octets(crc))'
        BY <1>2, <4>3, <4>4 DEF Octets
      <4> QED
        BY <1>1, <1>2, <3>1, <3>2, <3>5, <4>5, SkipHeld DEF Loop
    <3>6. CASE Skip /\ Loop /\ pc' = "thrown" /\ UNCHANGED <<crc, out>>
      BY <1>1, <1>2, <3>1, <3>2, <3>6, SkipHeld DEF Loop, Octets
    <3> QED
      BY <2>2, <3>3, <3>4, <3>5, <3>6 DEF ReadPayload
  <2> QED
    BY <2>1, <2>2 DEF EnterPayload
<1>4. PlaceInv'
  BY <1>1, <1>3, SeenKeeps DEF PlaceInv
<1>5. PrefixInv' /\ LabelInv' /\ SumInv' /\ EndInv'
  BY <1>1, <1>2, <1>3, SeenKeeps DEF PrefixInv, LabelInv, SumInv, EndInv
<1> QED
  BY <1>1, <1>3, <1>4, <1>5, TurnText

LEMMA CRCText == ASSUME IInv, TextInv, EnterCRC PROVE TextInv'
<1>1. Turn("CRC") /\ st' = "CRC" /\ pc' = "running" /\ UNCHANGED <<scn, pos, given, status>>
  BY TurnFrom DEF EnterCRC, States, Links
<1>2. PutBackOf(Held) /\ Occurs(FirstLine, Seen) /\ given \o out = Octets(crc)
  BY <1>1, TurnKnows
<1>3. HasLine(Held)
  <2>1. ~looping /\ Enters("CRC")
    BY <1>1, TurnFrom DEF States, Links
  <2> QED
    BY <2>1, EntersFrom DEF IInv, ControlInv, States, Links
<1>4. ReadCRC
  BY <1>3 DEF EnterCRC, NoLine
<1> DEFINE line == Line(Held)
<1>5. /\ Held' = Rest(Held) /\ looping' = FALSE /\ result' \in {"Success", "UnexpectedFormat"}
      /\ UNCHANGED <<label, crc, out>>
  BY <1>4, SkipHeld DEF ReadCRC, Report, Check
<1>6. Occurs(line, Seen) /\ Behind(Rest(Held)) /\ line \in Seq(Char) /\ Seen \in Seq(Char)
  BY <1>2, <1>3, LineSeen, LineType, HeldType, SeenType DEF IInv
<1>7. result' = "Success" => Occurs(SumOf, Seen)
  <2> SUFFICES ASSUME result' = "Success" PROVE Occurs(SumOf, Seen)
    OBVIOUS
  <2>1. IsSumLine(line) /\ ValidateCRC(Tail(line))
    BY <1>4 DEF ReadCRC, Report, Check
  <2>2. line # <<>> /\ Tail(line) = SumOf
    BY <2>1 DEF IsSumLine, ValidateCRC, SumOf
  <2> HIDE DEF line
  <2>3. Occurs(Tail(line), Seen)
    BY <1>6, <2>2, OccursTail
  <2> QED
    BY <2>2, <2>3
<1>8. PlaceInv' /\ PrefixInv'
  BY <1>1, <1>5, <1>6, SeenKeeps DEF PlaceInv, PrefixInv
<1>9. LabelInv' /\ SumInv' /\ EndInv' /\ (given \o out = Octets(crc))'
  BY <1>1, <1>2, <1>5, <1>7, SeenKeeps DEF LabelInv, SumInv, EndInv, Octets
<1> QED
  BY <1>1, <1>8, <1>9, TurnText

LEMMA TailText == ASSUME IInv, TextInv, EnterTail PROVE TextInv'
<1>1. Turn("Tail") /\ st' = "Tail" /\ pc' = "running" /\ UNCHANGED <<scn, pos, given, status>>
  BY TurnFrom DEF EnterTail, States, Links
<1>2. Behind(Held) /\ Occurs(FirstLine, Seen) /\ Occurs(SumOf, Seen) /\ given \o out = Octets(crc)
  BY <1>1, TurnKnows
<1>3. /\ Behind(Held') /\ looping' = FALSE
      /\ UNCHANGED <<label, crc, out>>
      /\ (result' = "Success" => Occurs(LastLine, Seen))
  <2>1. CASE NoLine
    BY <1>2, <2>1, NoLineHeld, NoLineKeeps DEF IInv
  <2>2. CASE ReadTail
    <3>1. Held' = Rest(Held) /\ HasLine(Held) /\ UNCHANGED <<label, crc, out>> /\ looping' = FALSE
          /\ (result' = "Success" => Line(Held) = LastLine)
      BY <2>2, SkipHeld DEF ReadTail, ReadLine, Report, Check, LastLine
    <3>2. Occurs(Line(Held), Seen) /\ Behind(Rest(Held))
      BY <1>2, <3>1, LineSeen DEF IInv
    <3> QED
      BY <3>1, <3>2
  <2> QED
    BY <2>1, <2>2 DEF EnterTail
<1>4. PlaceInv' /\ PrefixInv'
  BY <1>1, <1>3, SeenKeeps DEF PlaceInv, PrefixInv
<1>5. LabelInv' /\ SumInv' /\ EndInv' /\ (given \o out = Octets(crc))'
  BY <1>1, <1>2, <1>3, SeenKeeps DEF LabelInv, SumInv, EndInv, Octets
<1> QED
  BY <1>1, <1>4, <1>5, TurnText

LEMMA TailFoundText == ASSUME IInv, TextInv, EnterTailFound PROVE TextInv'
<1>1. st = "Tail" /\ result = "Success" /\ pc = "running" /\ ~looping
  BY EntersFrom DEF EnterTailFound, States, Links
<1>2. st' = "TailFound"
      /\ UNCHANGED <<scn, pos, pc, looping, failed, finish, in, buf, result, status, label, crc, out, emsg, given>>
  BY DEF EnterTailFound
<1>3. Held' = Held
  BY <1>2 DEF Held
<1>4. Behind(Held) /\ Occurs(FirstLine, Seen) /\ Occurs(SumOf, Seen) /\ Occurs(LastLine, Seen)
      /\ given \o out = Octets(crc) /\ status # "Disabled"
  BY <1>1 DEF TextInv, PlaceInv, LabelInv, SumInv, EndInv, GivenInv, InArmor
<1>5. PlaceInv' /\ PrefixInv'
  BY <1>1, <1>2, <1>3, <1>4, SeenKeeps DEF PlaceInv, PrefixInv
<1>6. LabelInv' /\ SumInv' /\ EndInv' /\ GivenInv'
  BY <1>1, <1>2, <1>4, SeenKeeps DEF LabelInv, SumInv, EndInv, GivenInv, Octets
<1> QED
  BY <1>5, <1>6 DEF TextInv

LEMMA DisabledText == ASSUME IInv, TextInv, EnterDisabled PROVE TextInv'
<1>1. st = "Unknown" /\ result = "Disabled" /\ pc = "running" /\ ~looping
  BY EntersFrom DEF EnterDisabled, States, Links
<1>2. st' = "Disabled" /\ status' = "Disabled" /\ UNCHANGED <<pc, looping, result>>
  BY DEF EnterDisabled
<1> QED
  BY <1>1, <1>2 DEF TextInv, PlaceInv, PrefixInv, LabelInv, SumInv, EndInv, GivenInv, InArmor

LEMMA FailText == ASSUME IInv, TextInv, EnterFail PROVE TextInv'
<1>1. pc = "running" /\ ~looping /\ result = "UnexpectedFormat" /\ CanExit(st)
  BY StuckOn DEF EnterFail, Stuck
<1>2. st' = "Fail"
      /\ UNCHANGED <<scn, pos, pc, looping, finish, in, buf, result, status, label, crc, out, emsg, given>>
  BY DEF EnterFail
<1>3. Held' = Held /\ Behind(Held) /\ status # "Disabled"
  BY <1>1, <1>2 DEF TextInv, PlaceInv, GivenInv, Held, CanExit
<1>4. PlaceInv'
  BY <1>1, <1>2, <1>3, SeenKeeps DEF PlaceInv
<1>5. PrefixInv' /\ LabelInv' /\ SumInv' /\ EndInv' /\ GivenInv'
  BY <1>1, <1>2, <1>3 DEF PrefixInv, LabelInv, SumInv, EndInv, GivenInv, InArmor
<1> QED
  BY <1>4, <1>5 DEF TextInv

LEMMA FeedText ==
    ASSUME IInv, TextInv, NEW n \in 0..(Len(scn.text) - pos), Feed(n)
    PROVE  TextInv'
<1>1. /\ pc = "idle" /\ pc' = "running" /\ pos' = pos + n
      /\ in' = in \o SubSeq(scn.text, pos + 1, pos + n)
      /\ UNCHANGED <<scn, looping, st, failed, buf, result, status, label, crc, out, emsg, given>>
  BY DEF Feed
<1>2. /\ scn.text \in Seq(Char) /\ Len(scn.text) \in Nat /\ pos \in Nat
      /\ pos + n \in Nat /\ pos <= pos + n /\ pos + n <= Len(scn.text)
  BY SeenType DEF IInv
<1> DEFINE new == SubSeq(scn.text, pos + 1, pos + n)
<1>3. new \in Seq(Char) /\ in \in Seq(Char) /\ buf \in Seq(Char)
  BY <1>2, HeldType, SubSeqProperties DEF IInv
<1>4. Held' = Held \o new
  <2> HIDE DEF new
  <2>1. buf \o (in \o new) = (buf \o in) \o new
    BY <1>3, ConcatAssociative, SMTT(30)
  <2> QED
    BY <1>1, <2>1 DEF Held, new
<1>5. Behind(Held) => Behind(Held)'
  <2> SUFFICES ASSUME Behind(Held) PROVE Behind(Held)'
    OBVIOUS
  <2>1. PICK k \in 0..pos : Held = SubSeq(scn.text, k + 1, pos)
    BY DEF Behind
  <2>2. k \in Nat /\ k <= pos /\ k \in 0..(pos + n)
    BY <1>2, <2>1
  <2>3. SubSeq(scn.text, k + 1, pos) \o SubSeq(scn.text, pos + 1, pos + n) = SubSeq(scn.text, k + 1, pos + n)
    BY <1>2, <2>2, BehindGrows
  <2>4. Held' = SubSeq(scn.text, k + 1, pos + n)
    BY <1>4, <2>1, <2>3
  <2> QED
    BY <1>1, <2>2, <2>4 DEF Behind
<1>6. ~(st = "Payload" /\ ~looping /\ result = "Success")
  BY <1>1 DEF IInv, ControlInv
<1>7. PlaceInv'
  BY <1>1, <1>5, <1>6 DEF TextInv, PlaceInv
<1>8. PrefixInv'
  <2> SUFFICES ASSUME IsPrefix(MinHeader, Held) PROVE IsPrefix(MinHeader, Held')
    BY <1>1 DEF TextInv, PrefixInv, IsPrefix
  <2> HIDE DEF new
  <2>1. Held \in Seq(Char) /\ Len(MinHeader) \in Nat /\ Len(Held) \in Nat /\ Len(new) \in Nat
        /\ Len(MinHeader) <= Len(Held)
    BY <1>3, HeldType, LenProperties, ArmorReaderAssumption DEF IInv, IsPrefix
  <2>2. Held \o new \in Seq(Char) /\ Len(Held \o new) = Len(Held) + Len(new)
        /\ \A i \in 1..Len(Held) : (Held \o new)[i] = Held[i]
    BY <1>3, <2>1, ConcatProperties
  <2>3. SubSeq(Held \o new, 1, Len(MinHeader)) = SubSeq(Held, 1, Len(MinHeader))
    <3> DEFINE x == SubSeq(Held \o new, 1, Len(MinHeader))
               y == SubSeq(Held, 1, Len(MinHeader))
    <3>1. x \in Seq(Char) /\ Len(x) = Len(MinHeader) /\ \A i \in 1..Len(MinHeader) : x[i] = (Held \o new)[i]
      BY <2>1, <2>2, SubSeqProperties
    <3>2. y \in Seq(Char) /\ Len(y) = Len(MinHeader) /\ \A i \in 1..Len(MinHeader) : y[i] = Held[i]
      BY <2>1, SubSeqProperties
    <3> HIDE DEF x, y
    <3>3. \A i \in 1..Len(MinHeader) : x[i] = y[i]
      BY <2>1, <2>2, <3>1, <3>2
    <3>4. x = y
      BY <3>1, <3>2, <3>3, SeqEqual
    <3> QED
      BY <3>4 DEF x, y
  <2> QED
    BY <1>4, <2>1, <2>2, <2>3 DEF IsPrefix
<1>9. ASSUME NEW s \in Seq(Char), Occurs(s, Seen) PROVE Occurs(s, Seen')
  BY <1>1, <1>2, <1>9, OccursGrows DEF Seen
<1>10. FirstLine \in Seq(Char) /\ LastLine \in Seq(Char) /\ SumOf \in Seq(Char)
  <2>1. FirstLine \in Seq(Char) /\ LastLine \in Seq(Char)
    BY ConcatProperties, ArmorReaderAssumption DEF FirstLine, LastLine, IInv, TypeOK
  <2>2. \A i \in 1..Quad : Sum(crc, i) \in Char
    BY ArmorReaderAssumption DEF Sum, Char, Roles, IInv, TypeOK
  <2> QED
    BY <2>1, <2>2, ArmorReaderAssumption DEF SumOf
<1>11. FirstLine' = FirstLine /\ LastLine' = LastLine /\ SumOf' = SumOf
  BY <1>1 DEF FirstLine, LastLine, SumOf
<1>12. LabelInv' /\ SumInv' /\ EndInv'
  BY <1>1, <1>9, <1>10, <1>11 DEF TextInv, LabelInv, SumInv, EndInv
<1>13. GivenInv'
  BY <1>1 DEF TextInv, GivenInv, Octets
<1> QED
  BY <1>7, <1>8, <1>12, <1>13 DEF TextInv

LEMMA RefuseText == ASSUME IInv, TextInv, Refuse PROVE TextInv'
<1>1. pc' = "failed"
      /\ UNCHANGED <<scn, pos, looping, finish, st, failed, in, buf, result, status, label, crc, out, given>>
  BY DEF Refuse, reader
<1> QED
  BY <1>1, ZenonT(30) DEF TextInv, PlaceInv, PrefixInv, LabelInv, SumInv, EndInv, GivenInv, Held, Seen,
              Behind, PutBackOf, FirstLine, LastLine, SumOf, Octets, IsPrefix, Occurs, Take

LEMMA ReturnText == ASSUME IInv, TextInv, Return PROVE TextInv'
<1>1. /\ pc' \in {"done", "idle"} /\ out' = <<>> /\ given' = given \o Passed \o out
      /\ in' = (IF status = "Disabled" THEN <<>> ELSE in)
      /\ UNCHANGED <<scn, pos, looping, st, failed, buf, result, status, label, crc>>
  BY DEF Return
<1>2. CASE status = "Disabled"
  <2>1. st = "Disabled" /\ result = "Disabled"
    <3>1. st = "Disabled"
      BY <1>2 DEF TextInv, GivenInv
    <3> QED
      BY <3>1 DEF IInv, ControlInv, Outcome
  <2> QED
    BY <1>1, <1>2, <2>1 DEF TextInv, PlaceInv, PrefixInv, LabelInv, SumInv, EndInv, GivenInv, InArmor
<1>3. CASE status # "Disabled"
  <2>1. in' = in /\ Passed = <<>> /\ given \in Seq(Char) /\ out \in Seq(Char)
    BY <1>1, <1>3 DEF Passed, IInv, TypeOK
  <2>2. given' = given \o out /\ given' \o out' = given \o out
    BY <1>1, <2>1, ConcatEmptySeq, ConcatProperties
  <2>3. Held' = Held
    BY <1>1, <2>1 DEF Held
  <2>4. PlaceInv'
    BY <1>1, <2>3, SeenKeeps DEF TextInv, PlaceInv
  <2>5. PrefixInv' /\ LabelInv' /\ SumInv' /\ EndInv'
    BY <1>1, <2>3, SeenKeeps DEF TextInv, PrefixInv, LabelInv, SumInv, EndInv, IsPrefix
  <2>6. GivenInv'
    BY <1>1, <1>3, <2>1, <2>2, ConcatEmptySeq DEF TextInv, GivenInv, Octets
  <2> QED
    BY <2>4, <2>5, <2>6 DEF TextInv
<1> QED
  BY <1>2, <1>3

LEMMA NextText == IInv /\ TextInv /\ [Next]_vars => TextInv'
<1> SUFFICES ASSUME IInv, TextInv, [Next]_vars PROVE TextInv'
  OBVIOUS
<1>1. CASE Step
  BY <1>1, UnknownText, DisabledText, BeginHeaderText, HeaderText, PayloadText, CRCText,
     TailText, TailFoundText, FailText, RefuseText, ReturnText DEF Step
<1>2. Len(scn.text) \in Nat /\ pos \in Nat /\ pos <= Len(scn.text)
  BY SeenType DEF IInv
<1>3. CASE Read
  BY <1>2, <1>3, FeedText DEF Read
<1>4. CASE Finish
  <2>1. Len(scn.text) - pos \in 0..(Len(scn.text) - pos)
    BY <1>2
  <2> QED
    BY <1>4, <2>1, FeedText DEF Finish
<1>5. CASE UNCHANGED vars
  BY <1>5, ZenonT(30) DEF vars, reader, TextInv, PlaceInv, PrefixInv, LabelInv, SumInv, EndInv, GivenInv, Held, Seen,
              Behind, PutBackOf, FirstLine, LastLine, SumOf, Octets, IsPrefix, Occurs, Take
<1> QED
  BY <1>1, <1>3, <1>4, <1>5 DEF Next

LEMMA AlwaysText == Spec => []TextInv
  BY InitInv, NextInv, TextInit, NextText, PTL DEF Spec

-----------------------------------------------------------------------------
(* What a stretch of text decodes to.                                      *)

\* The octets that one character brings.
Worth(c) == IF BlockEnd(c) THEN c.block ELSE <<>>
Worths(t) == [i \in DOMAIN t |-> Worth(t[i])]

LEMMA ValuesType ==
    ASSUME NEW t \in Seq(Char)
    PROVE  /\ Values(t) = FlattenSeq(Worths(t)) /\ Values(t) \in Seq(Nat)
           /\ Worths(t) \in Seq(Seq(Nat)) /\ Len(Worths(t)) = Len(t)
           /\ \A i \in 1..Len(t) : Worths(t)[i] = Worth(t[i])
<1>1. Len(t) \in Nat /\ DOMAIN t = 1..Len(t)
  BY LenProperties
<1>2. \A i \in 1..Len(t) : t[i] \in Char
  BY ElementOfSeq
<1>3. \A c \in Char : Worth(c) \in Seq(Nat)
  BY EmptySeq DEF Char, Worth
<1>4. Worths(t) \in [1..Len(t) -> Seq(Nat)] /\ \A i \in 1..Len(t) : Worths(t)[i] = Worth(t[i])
  BY <1>1, <1>2, <1>3 DEF Worths
<1>5. Worths(t) \in Seq(Seq(Nat)) /\ Len(Worths(t)) = Len(t)
  BY <1>1, <1>4, IsASeq, LenProperties
<1>6. Values(t) = FlattenSeq(Worths(t))
  BY DEF Values, Worths, Worth
<1> QED
  BY <1>4, <1>5, <1>6, FlattenType

LEMMA ValuesConcat ==
    ASSUME NEW s \in Seq(Char), NEW t \in Seq(Char)
    PROVE  Values(s \o t) = Values(s) \o Values(t)
<1> DEFINE u == s \o t
           a == Worths(s)
           b == Worths(t)
           c == Worths(u)
<1>1. /\ u \in Seq(Char) /\ Len(u) = Len(s) + Len(t) /\ Len(s) \in Nat /\ Len(t) \in Nat
      /\ \A i \in 1..(Len(s) + Len(t)) : u[i] = IF i <= Len(s) THEN s[i] ELSE t[i - Len(s)]
  BY ConcatProperties, LenProperties
<1> HIDE DEF u
<1>2. /\ a \in Seq(Seq(Nat)) /\ Len(a) = Len(s) /\ \A i \in 1..Len(s) : a[i] = Worth(s[i])
      /\ b \in Seq(Seq(Nat)) /\ Len(b) = Len(t) /\ \A i \in 1..Len(t) : b[i] = Worth(t[i])
      /\ c \in Seq(Seq(Nat)) /\ Len(c) = Len(u) /\ \A i \in 1..Len(u) : c[i] = Worth(u[i])
      /\ Values(s) = FlattenSeq(a) /\ Values(t) = FlattenSeq(b) /\ Values(u) = FlattenSeq(c)
  BY <1>1, ValuesType
<1> HIDE DEF a, b, c
<1>3. /\ a \o b \in Seq(Seq(Nat)) /\ Len(a \o b) = Len(s) + Len(t)
      /\ \A i \in 1..(Len(s) + Len(t)) : (a \o b)[i] = IF i <= Len(s) THEN a[i] ELSE b[i - Len(s)]
  <2> DEFINE S == Seq(Nat)
  <2>1. a \in Seq(S) /\ b \in Seq(S)
    BY <1>2
  <2> HIDE DEF S
  <2>2. /\ a \o b \in Seq(S) /\ Len(a \o b) = Len(a) + Len(b)
        /\ \A i \in 1..(Len(a) + Len(b)) : (a \o b)[i] = IF i <= Len(a) THEN a[i] ELSE b[i - Len(a)]
    BY <2>1, ConcatProperties
  <2> QED
    BY <1>2, <2>2 DEF S
<1>4. ASSUME NEW i \in 1..(Len(s) + Len(t)) PROVE (a \o b)[i] = c[i]
  <2>1. CASE i <= Len(s)
    <3>1. i \in 1..Len(s) /\ i \in 1..Len(u)
      BY <1>1, <2>1
    <3> QED
      BY <1>1, <1>2, <1>3, <2>1, <3>1
  <2>2. CASE ~(i <= Len(s))
    <3>1. i - Len(s) \in 1..Len(t) /\ i \in 1..Len(u)
      BY <1>1, <2>2
    <3> QED
      BY <1>1, <1>2, <1>3, <2>2, <3>1
  <2> QED
    BY <2>1, <2>2
<1>5. a \o b = c
  BY <1>1, <1>2, <1>3, <1>4, SeqEqual
<1>6. FlattenSeq(a \o b) = FlattenSeq(a) \o FlattenSeq(b)
  BY <1>2, FlattenConcat
<1> QED
  BY <1>2, <1>5, <1>6 DEF u

\* Nothing comes from characters that end no block.
LEMMA ValuesNone ==
    ASSUME NEW t \in Seq(Char), \A i \in 1..Len(t) : ~BlockEnd(t[i])
    PROVE  Values(t) = <<>>
<1> DEFINE none(n) == [i \in 1..n |-> <<>>]
           N == {n \in Nat : FlattenSeq(none(n)) = <<>>}
<1>1. <<>> \in Seq(Nat)
  BY EmptySeq
<1>2. FlattenSeq(<<>>) = <<>>
  <2>1. <<>> \in Seq(Seq(Nat)) /\ <<>> \o <<>> = <<>>
    BY EmptySeq, ConcatEmptySeq
  <2>2. FlattenSeq(<<>>) \in Seq(Nat) /\ FlattenSeq(<<>>) = FlattenSeq(<<>>) \o FlattenSeq(<<>>)
    BY <2>1, FlattenType, FlattenConcat
  <2> DEFINE f == FlattenSeq(<<>>)
  <2>3. f \in Seq(Nat) /\ f = f \o f
    BY <2>2
  <2> HIDE DEF f
  <2>4. Len(f) = 0
    <3>1. Len(f) = Len(f) + Len(f) /\ Len(f) \in Nat
      BY <2>3, ConcatProperties, LenProperties
    <3> QED
      BY <3>1
  <2>5. f = <<>>
    BY <2>3, <2>4, EmptySeq
  <2> QED
    BY <2>5 DEF f
<1>3. none(0) = <<>>
  OBVIOUS
<1>4. ASSUME NEW n \in Nat, FlattenSeq(none(n)) = <<>>
      PROVE  FlattenSeq(none(n + 1)) = <<>>
  <2> DEFINE f == none(n + 1)
  <2>1. f \in [1..(n + 1) -> Seq(Nat)] /\ f[n + 1] = <<>> /\ [i \in 1..n |-> f[i]] = none(n)
    BY <1>1
  <2> HIDE DEF f, none
  <2>2. FlattenSeq(f) = FlattenSeq([i \in 1..n |-> f[i]]) \o f[n + 1]
    BY <2>1, FlattenLast
  <2>3. FlattenSeq(f) = <<>> \o <<>>
    BY <1>4, <2>1, <2>2
  <2> QED
    BY <1>1, <2>3, ConcatEmptySeq DEF f
<1>5. 0 \in N /\ \A n \in Nat : n \in N => n + 1 \in N
  BY <1>2, <1>3, <1>4
<1>6. Len(t) \in N
  <2> HIDE DEF N
  <2> QED
    BY <1>5, NatInduct, LenProperties
<1>7. Worths(t) = none(Len(t))
  BY LenProperties DEF Worths, Worth
<1> QED
  BY <1>6, <1>7, ValuesType

\* A whole block stands for its octets.
LEMMA ValuesBlock ==
    ASSUME NEW s \in Seq(Char), Len(s) = Quad, NEW v \in Seq(Nat),
           \A i \in 1..Quad : s[i] = Symbol(v, i)
    PROVE  Values(s) = v
<1>1. Quad \in Nat \ {0} /\ Quad - 1 \in Nat /\ Quad - 1 \in 0..Len(s) /\ (Quad - 1) + 1 = Quad
  BY ArmorReaderAssumption
<1> DEFINE a == SubSeq(s, 1, Quad - 1)
           b == SubSeq(s, (Quad - 1) + 1, Len(s))
<1>2. a \o b = s
  BY <1>1, PieceBoth
<1>3. a \in Seq(Char) /\ Len(a) = Quad - 1 /\ \A i \in 1..(Quad - 1) : a[i] = s[i]
  <2>1. \A i \in 1..(Quad - 1) : s[i] \in Char
    BY <1>1, ElementOfSeq
  <2> QED
    BY <1>1, <2>1, SubSeqProperties
<1>4. b = <<s[Quad]>> /\ s[Quad] \in Char
  <2>1. s[Quad] \in Char
    BY <1>1, ElementOfSeq
  <2>2. /\ b \in Seq(Char) /\ Len(b) = Len(s) - (Quad - 1)
        /\ \A i \in 1..(Len(s) - (Quad - 1)) : b[i] = s[(Quad - 1) + i]
    BY <1>1, PieceIs
  <2> HIDE DEF b
  <2>3. Len(b) = 1 /\ b[1] = s[Quad]
    BY <1>1, <2>2
  <2>4. <<s[Quad]>> \in Seq(Char) /\ Len(<<s[Quad]>>) = 1 /\ <<s[Quad]>>[1] = s[Quad]
    BY <2>1
  <2>5. \A i \in 1..Len(b) : b[i] = <<s[Quad]>>[i]
    BY <2>3, <2>4
  <2> QED
    BY <2>1, <2>2, <2>3, <2>4, <2>5, SeqEqual
<1> HIDE DEF a, b
<1>5. Values(a) = <<>>
  <2>1. \A i \in 1..Len(a) : ~BlockEnd(a[i])
    BY <1>1, <1>3, SMTT(30) DEF BlockEnd, Symbol
  <2> QED
    BY <1>3, <2>1, ValuesNone
<1>6. Values(b) = v
  <2>1. Worth(s[Quad]) = v
    BY <1>1 DEF Worth, BlockEnd, Symbol
  <2>2. b \in Seq(Char) /\ Worths(b) = <<v>>
    BY <1>4, <2>1 DEF Worths
  <2>3. FlattenSeq(<<v>>) = v
    BY FlattenSingle
  <2> QED
    BY <2>2, <2>3, ValuesType
<1>7. Values(s) = Values(a) \o Values(b)
  <2>1. b \in Seq(Char)
    BY <1>4
  <2> QED
    BY <1>2, <1>3, <2>1, ValuesConcat
<1> QED
  BY <1>5, <1>6, <1>7, ConcatEmptySeq

\* What base64_decode makes of a line of whole blocks.
LEMMA DecodeWhole ==
    ASSUME NEW line \in Seq(Char), Len(line) % Quad = 0, WholeBlocks(line)
    PROVE  Decode(line) = Values(line)
<1> DEFINE k == Len(line) \div Quad
           c(i) == i * Quad
           piece(i) == SubSeq(line, (i - 1) * Quad + 1, i * Quad)
           d(i) == DecodeBlock(piece(i))
           N == {n \in Nat : n <= k => FlattenSeq([i \in 1..n |-> d(i)]) = Values(SubSeq(line, 1, c(n)))}
<1>1. Quad \in Nat \ {0} /\ Len(line) \in Nat
  BY ArmorReaderAssumption, LenProperties
<1>2. k \in Nat /\ k * Quad = Len(line)
  <2>1. k \in Nat
    BY <1>1
  <2>2. k * Quad = Len(line)
    BY <1>1, Z3
  <2> QED
    BY <2>1, <2>2
<1>3. /\ c(0) = 0 /\ c(k) = Len(line)
      /\ \A i \in Nat : c(i) \in Nat /\ c(i + 1) = c(i) + Quad /\ (i <= k => c(i) <= c(k))
  <2>1. ASSUME NEW i \in Nat PROVE c(i) \in Nat /\ c(i + 1) = c(i) + Quad
    BY <1>1
  <2>2. ASSUME NEW i \in Nat, i <= k PROVE c(i) <= c(k)
    <3> HIDE DEF k
    <3>1. k - i \in Nat /\ (k - i) * Quad \in Nat /\ k * Quad = i * Quad + (k - i) * Quad
      BY <1>1, <1>2, <2>2
    <3>2. i * Quad \in Nat
      BY <1>1
    <3> QED
      BY <3>1, <3>2
  <2>3. c(0) = 0
    BY <1>1
  <2>4. c(k) = Len(line)
    BY <1>2
  <2> HIDE DEF c, k
  <2> QED
    BY <2>1, <2>2, <2>3, <2>4
<1>4. \A i \in 1..k : piece(i) = SubSeq(line, c(i - 1) + 1, c(i))
  OBVIOUS
<1>5. \A i \in 1..k : \A j \in 1..Quad : piece(i)[j] = Symbol(piece(i)[1].block, j)
  BY DEF WholeBlocks
<1> HIDE DEF c, k
<1>6. ASSUME NEW i \in 1..k
      PROVE  /\ piece(i) \in Seq(Char) /\ d(i) = Values(piece(i)) /\ d(i) \in Seq(Nat)
             /\ SubSeq(line, 1, c(i - 1)) \o piece(i) = SubSeq(line, 1, c(i))
  <2> DEFINE p == SubSeq(line, c(i - 1) + 1, c(i))
  <2>1. p = piece(i) /\ i - 1 \in Nat /\ i \in Nat /\ (i - 1) + 1 = i /\ i <= k
    <3>1. p = piece(i)
      BY <1>4
    <3>2. i - 1 \in Nat /\ i \in Nat /\ (i - 1) + 1 = i /\ i <= k
      BY <1>2
    <3> HIDE DEF p, piece
    <3> QED
      BY <3>1, <3>2
  <2>2. c(i - 1) \in Nat /\ c(i) = c(i - 1) + Quad /\ c(i) <= Len(line) /\ c(i) \in Nat
    BY <1>3, <2>1
  <2>3. c(i) \in 0..Len(line) /\ c(i - 1) \in 0..c(i) /\ 0 \in 0..c(i - 1)
    BY <1>1, <2>2
  <2>4. p \in Seq(Char) /\ Len(p) = c(i) - c(i - 1)
    BY <2>3, PieceIs
  <2>5. SubSeq(line, 0 + 1, c(i - 1)) \o p = SubSeq(line, 0 + 1, c(i))
    BY <2>3, PieceJoin
  <2>6. Len(p) = Quad /\ \A j \in 1..Quad : p[j] = Symbol(p[1].block, j)
    <3> HIDE DEF p, piece
    <3>1. Len(p) = Quad
      BY <1>1, <2>2, <2>4
    <3>2. \A j \in 1..Quad : p[j] = Symbol(p[1].block, j)
      BY <1>5, <2>1
    <3> QED
      BY <3>1, <3>2
  <2> HIDE DEF p, piece
  <2>7. p[1] \in Char /\ DOMAIN p = 1..Quad
    BY <1>1, <2>4, <2>6, ElementOfSeq, LenProperties
  <2>8. p[1].block \in Seq(Nat)
    BY <2>7 DEF Char
  <2>9. Values(p) = p[1].block
    BY <2>4, <2>6, <2>8, ValuesBlock
  <2>10. DecodeBlock(p) = p[1].block
    BY <2>6, <2>7 DEF DecodeBlock
  <2>11. d(i) = Values(piece(i)) /\ d(i) \in Seq(Nat) /\ piece(i) \in Seq(Char)
    BY <2>1, <2>4, <2>8, <2>9, <2>10
  <2>12. SubSeq(line, 1, c(i - 1)) \o piece(i) = SubSeq(line, 1, c(i))
    <3>1. 0 + 1 = 1
      OBVIOUS
    <3> QED
      BY <2>1, <2>5, <3>1
  <2> QED
    BY <2>11, <2>12
<1>7. 0 \in N
  <2>1. [i \in 1..0 |-> d(i)] = <<>> /\ SubSeq(line, 1, 0) = <<>>
    BY SubSeqEmpty
  <2>2. Values(<<>>) = FlattenSeq(<<>>)
    BY DEF Values
  <2> QED
    BY <1>3, <2>1, <2>2
<1>8. ASSUME NEW n \in Nat, n \in N PROVE n + 1 \in N
  <2> SUFFICES ASSUME n + 1 <= k
               PROVE  FlattenSeq([i \in 1..(n + 1) |-> d(i)]) = Values(SubSeq(line, 1, c(n + 1)))
    OBVIOUS
  <2> DEFINE f == [i \in 1..(n + 1) |-> d(i)]
  <2>1. n + 1 \in 1..k /\ (n + 1) - 1 = n /\ n <= k /\ \A i \in 1..(n + 1) : i \in 1..k
    BY <1>2
  <2>2. f \in [1..(n + 1) -> Seq(Nat)]
    BY <1>6, <2>1
  <2>3. [i \in 1..n |-> f[i]] = [i \in 1..n |-> d(i)] /\ f[n + 1] = d(n + 1)
    <3>1. \A i \in 1..n : f[i] = d(i)
      <4> HIDE DEF d
      <4> QED
        OBVIOUS
    <3> HIDE DEF d
    <3> QED
      BY <3>1
  <2>4. FlattenSeq([i \in 1..n |-> d(i)]) = Values(SubSeq(line, 1, c(n)))
    BY <1>8, <2>1
  <2> HIDE DEF f, d
  <2>5. FlattenSeq(f) = FlattenSeq([i \in 1..n |-> f[i]]) \o f[n + 1]
    BY <2>2, FlattenLast, ZenonT(30)
  <2>6. /\ piece(n + 1) \in Seq(Char) /\ d(n + 1) = Values(piece(n + 1))
        /\ SubSeq(line, 1, c(n)) \o piece(n + 1) = SubSeq(line, 1, c(n + 1))
    BY <1>6, <2>1
  <2>7. SubSeq(line, 1, c(n)) \in Seq(Char)
    <3>1. c(n) \in 0..Len(line)
      BY <1>1, <1>3, <2>1
    <3> QED
      BY <3>1, PieceType DEF Take
  <2> HIDE DEF piece
  <2>8. Values(SubSeq(line, 1, c(n)) \o piece(n + 1))
          = Values(SubSeq(line, 1, c(n))) \o Values(piece(n + 1))
    BY <2>6, <2>7, ValuesConcat
  <2> QED
    BY <2>3, <2>4, <2>5, <2>6, <2>8 DEF f
<1>9. k \in N
  <2> HIDE DEF N
  <2> QED
    BY <1>2, <1>7, <1>8, NatInduct
<1>10. Decode(line) = FlattenSeq([i \in 1..k |-> d(i)])
  BY DEF Decode, k
<1>11. SubSeq(line, 1, c(k)) = line
  BY <1>3, SubSeqFull
<1>12. FlattenSeq([i \in 1..k |-> d(i)]) = Values(SubSeq(line, 1, c(k)))
  BY <1>2, <1>9
<1> HIDE DEF d, N
<1> QED
  BY <1>10, <1>11, <1>12

-----------------------------------------------------------------------------
(* Lines of a regular text.                                                *)

\* The line of text behind place n is l, and the next one begins behind m.
LineIn(text, n, l, m) ==
    /\ l \in Seq(Char) /\ n + Len(l) < m /\ m <= Len(text) /\ text[m].ch = "lf"
    /\ \A i \in 1..Len(l) : text[n + i] = l[i] /\ l[i].ch \notin {"cr", "lf"}
    /\ \A i \in (n + Len(l) + 1)..m : text[i].ch \in {"cr", "lf"}
    /\ \A i \in (n + 1)..(m - 1) : text[i].ch # "lf"

\* NextLine reads a line of the text.
LEMMA LineOfText ==
    ASSUME NEW text \in Seq(Char), Regular(text),
           NEW p \in 0..Len(text), NEW n \in 0..p, NEW b, b = SubSeq(text, n + 1, p), HasLine(b)
    PROVE  \E m \in (n + 1)..p : LineIn(text, n, Line(b), m) /\ Rest(b) = SubSeq(text, m + 1, p)
<1> DEFINE e == Eaten(b)
           m == n + e
           x == LineEnd(b)
           l == Line(b)
<1>1. Len(text) \in Nat /\ p \in Nat /\ n \in Nat /\ n <= p /\ p <= Len(text)
  BY LenProperties
<1>2. b \in Seq(Char) /\ Len(b) = p - n /\ \A i \in 1..(p - n) : b[i] = text[n + i]
  BY PieceIs
<1>3. e \in 1..(p - n) /\ Rest(b) = SubSeq(text, m + 1, p)
  BY <1>1, RestIs
<1>4. /\ x \in 1..(p - n) /\ b[x].ch \in {"cr", "lf"}
      /\ e = IF b[x].ch = "cr" THEN x + 1 ELSE x
  BY <1>2, LineEndIs DEF HasLine, Eaten
<1>5. l \in Seq(Char) /\ Len(l) = x - 1 /\ \A i \in 1..Len(l) : l[i] = b[i] /\ l[i].ch \notin {"cr", "lf"}
  BY <1>2, LineType, LineClean
<1> HIDE DEF x, l, e
<1>6. m \in (n + 1)..p /\ n + Len(l) < m /\ m <= Len(text)
  BY <1>1, <1>3, <1>4, <1>5
<1>7. ASSUME NEW i \in 1..Len(l) PROVE text[n + i] = l[i] /\ l[i].ch \notin {"cr", "lf"}
  <2>1. i \in 1..(p - n)
    BY <1>1, <1>4, <1>5
  <2> QED
    BY <1>2, <1>5, <2>1
<1>8. text[n + x].ch \in {"cr", "lf"} /\ text[n + x] = b[x]
  BY <1>2, <1>4
<1>9. b[x].ch = "cr" => text[n + x + 1].ch = "lf"
  <2> SUFFICES ASSUME b[x].ch = "cr" PROVE text[n + x + 1].ch = "lf"
    OBVIOUS
  <2>1. e = x + 1
    BY <1>4
  <2>2. n + x \in 1..(Len(text) - 1)
    BY <1>1, <1>3, <1>4, <2>1
  <2> QED
    BY <1>8, <2>2 DEF Regular
<1>10. text[m].ch = "lf"
  BY <1>1, <1>4, <1>8, <1>9
<1>11. ASSUME NEW i \in (n + Len(l) + 1)..m PROVE text[i].ch \in {"cr", "lf"}
  <2>1. i = n + x \/ i = m
    BY <1>1, <1>4, <1>5
  <2> QED
    BY <1>8, <1>10, <2>1
<1>12. ASSUME NEW i \in (n + 1)..(m - 1) PROVE text[i].ch # "lf"
  <2>1. CASE i - n \in 1..Len(l)
    <3>1. n + (i - n) = i
      BY <1>1
    <3> QED
      BY <1>7, <2>1, <3>1
  <2>2. CASE i - n \notin 1..Len(l)
    <3>1. i = n + x /\ b[x].ch = "cr"
      BY <1>1, <1>4, <1>5, <2>2
    <3> QED
      BY <1>8, <3>1
  <2> QED
    BY <2>1, <2>2
<1> QED
  BY <1>3, <1>5, <1>6, <1>7, <1>10, <1>11, <1>12 DEF LineIn, l

\* Reading a line gets from one line end to the next, over what it says.
LEMMA LineAdds ==
    ASSUME NEW text \in Seq(Char), NEW n \in 0..Len(text), n \in LineEnds(text),
           NEW l, NEW m \in (n + 1)..Len(text), LineIn(text, n, l, m)
    PROVE  /\ LineAt(text, n, n + Len(l)) /\ SubSeq(text, n + 1, n + Len(l)) = l
           /\ m \in LineEnds(text) /\ Take(text, n) \in Seq(Char) /\ Take(text, m) \in Seq(Char)
           /\ Values(Take(text, m)) = Values(Take(text, n)) \o Values(l)
<1> DEFINE k == n + Len(l)
           a == SubSeq(text, n + 1, k)
           b == SubSeq(text, k + 1, m)
<1>1. /\ Len(text) \in Nat /\ DOMAIN text = 1..Len(text) /\ l \in Seq(Char) /\ Len(l) \in Nat
      /\ n \in Nat /\ m \in Nat /\ k < m
      /\ text[m].ch = "lf" /\ \A i \in 1..Len(l) : text[n + i] = l[i] /\ l[i].ch \notin {"cr", "lf"}
      /\ \A i \in (k + 1)..m : text[i].ch \in {"cr", "lf"}
  BY LenProperties DEF LineIn
<1>2. k \in 0..m /\ m \in 0..Len(text) /\ k \in 0..Len(text) /\ n \in 0..k
  BY <1>1
<1>3. a \in Seq(Char) /\ Len(a) = k - n /\ \A i \in 1..(k - n) : a[i] = text[n + i]
  BY <1>2, PieceIs
<1>4. b \in Seq(Char) /\ Len(b) = m - k /\ \A i \in 1..(m - k) : b[i] = text[k + i]
  BY <1>2, PieceIs
<1>5. a = l
  <2>1. k - n = Len(l)
    BY <1>1
  <2> HIDE DEF a
  <2>2. Len(a) = Len(l) /\ \A i \in 1..Len(a) : a[i] = l[i]
    BY <1>1, <1>3, <2>1
  <2> QED
    BY <1>1, <1>3, <2>2, SeqEqual
<1>6. LineAt(text, n, k)
  <2>1. k \in n..(Len(text) - 1) /\ text[k + 1].ch \in {"cr", "lf"}
    BY <1>1, <1>2
  <2>2. ASSUME NEW i \in (n + 1)..k PROVE text[i].ch \notin {"cr", "lf"}
    <3>1. i - n \in 1..Len(l) /\ n + (i - n) = i
      BY <1>1
    <3> QED
      BY <1>1, <3>1
  <2> QED
    BY <2>1, <2>2 DEF LineAt
<1>7. m \in LineEnds(text)
  BY <1>1, <1>2 DEF LineEnds
<1>8. Values(b) = <<>>
  <2> HIDE DEF b
  <2>1. \A i \in 1..(m - k) : k + i \in (k + 1)..m
    BY <1>1
  <2>2. \A i \in 1..Len(b) : b[i].ch \in {"cr", "lf"}
    BY <1>1, <1>4, <2>1
  <2> QED
    BY <1>4, <2>2, ValuesNone DEF BlockEnd
<1>9. Take(text, n) \in Seq(Char) /\ Take(text, k) \in Seq(Char) /\ Take(text, m) \in Seq(Char)
  BY <1>1, <1>2, PieceType
<1>10. Take(text, n) \o a = Take(text, k) /\ Take(text, k) \o b = Take(text, m)
  <2>0. 0 \in 0..n /\ 0 \in 0..k
    BY <1>1
  <2>1. SubSeq(text, 0 + 1, n) \o a = SubSeq(text, 0 + 1, k)
    BY <1>2, <2>0, PieceJoin
  <2>2. SubSeq(text, 0 + 1, k) \o b = SubSeq(text, 0 + 1, m)
    BY <1>2, <2>0, PieceJoin
  <2>3. 0 + 1 = 1
    OBVIOUS
  <2> QED
    BY <2>1, <2>2, <2>3 DEF Take
<1> HIDE DEF k, a, b
<1>11. Values(Take(text, k)) = Values(Take(text, n)) \o Values(l)
  BY <1>1, <1>5, <1>9, <1>10, ValuesConcat
<1>12. Values(Take(text, m)) = Values(Take(text, k)) \o <<>>
  BY <1>4, <1>8, <1>9, <1>10, ValuesConcat
<1>13. Values(Take(text, m)) = Values(Take(text, k))
  BY <1>9, <1>12, ValuesType, ConcatEmptySeq
<1> QED
  BY <1>5, <1>6, <1>7, <1>9, <1>11, <1>13 DEF a, k

\* A stretch of text without a tail, and one whose armor headers go on.
Untailed(text, n) == \A i \in 1..n : text[i].ch # "tail"
Unblank(text, n)  == \A a \in 1..n, b \in 1..(n - 1) :
                         LineAt(text, a, b) => ~Blank(SubSeq(text, a + 1, b))

\* While the armor headers go on, no line brings base64 or a tail.
LEMMA HeadersAreQuiet ==
    ASSUME NEW text \in Seq(Char), Regular(text), NEW n \in 0..Len(text), Unblank(text, n),
           NEW l, NEW m \in (n + 1)..Len(text), LineIn(text, n, l, m)
    PROVE  \A i \in 1..Len(l) : l[i].ch \notin {"b64", "tail"}
<1> SUFFICES ASSUME NEW i \in 1..Len(l), l[i].ch \in {"b64", "tail"} PROVE FALSE
  OBVIOUS
<1>1. /\ Len(text) \in Nat /\ DOMAIN text = 1..Len(text) /\ Len(l) \in Nat
      /\ n \in Nat /\ m \in Nat /\ n + Len(l) < m
      /\ \A j \in 1..Len(l) : text[n + j] = l[j] /\ l[j].ch \notin {"cr", "lf"}
  BY LenProperties DEF LineIn
<1>2. n + i \in DOMAIN text /\ text[n + i].ch \in {"b64", "tail"}
  BY <1>1
<1>3. PICK a, b \in 1..((n + i) - 2) : LineAt(text, a, b) /\ Blank(SubSeq(text, a + 1, b))
  BY <1>2 DEF Regular
<1>4. text[b + 1].ch \in {"cr", "lf"} /\ a <= b
  BY <1>3 DEF LineAt
<1>5. CASE b + 1 <= n
  <2>1. a \in 1..n /\ b \in 1..(n - 1)
    BY <1>1, <1>3, <1>4, <1>5, SMTT(30)
  <2> QED
    BY <1>3, <2>1 DEF Unblank
<1>6. CASE ~(b + 1 <= n)
  <2>1. (b + 1) - n \in 1..Len(l) /\ n + ((b + 1) - n) = b + 1
    BY <1>1, <1>3, <1>6
  <2> QED
    BY <1>1, <1>4, <2>1
<1> QED
  BY <1>5, <1>6

\* The armor headers go on behind the first line, and behind one that is not
\* blank.
LEMMA HeadersGoOn ==
    ASSUME NEW text \in Seq(Char), NEW n \in 0..Len(text), n \in LineEnds(text), Unblank(text, n),
           NEW l, NEW m \in (n + 1)..Len(text), LineIn(text, n, l, m), n = 0 \/ ~Blank(l)
    PROVE  Unblank(text, m)
<1> SUFFICES ASSUME NEW a \in 1..m, NEW b \in 1..(m - 1), LineAt(text, a, b),
                    Blank(SubSeq(text, a + 1, b))
             PROVE  FALSE
  BY DEF Unblank
<1>1. /\ Len(text) \in Nat /\ Len(l) \in Nat /\ n \in Nat /\ m \in Nat /\ n + Len(l) < m
      /\ \A j \in 1..Len(l) : text[n + j] = l[j] /\ l[j].ch \notin {"cr", "lf"}
      /\ \A i \in (n + Len(l) + 1)..m : text[i].ch \in {"cr", "lf"}
      /\ \A i \in (n + 1)..(m - 1) : text[i].ch # "lf"
  BY LenProperties DEF LineIn
<1>2. /\ a \in LineEnds(text) /\ a <= b /\ b <= Len(text) - 1 /\ text[b + 1].ch \in {"cr", "lf"}
      /\ \A i \in (a + 1)..b : text[i].ch \notin {"cr", "lf"}
  BY DEF LineAt
<1>3. text[a].ch = "lf" /\ (n > 0 => text[n].ch = "lf")
  BY <1>1, <1>2 DEF LineEnds
<1>4. a <= n
  <2> SUFFICES ASSUME a > n PROVE FALSE
    BY <1>1
  <2>1. a \in (n + 1)..(m - 1)
    BY <1>1, <1>2
  <2> QED
    BY <1>1, <1>3, <2>1
<1>5. b >= n
  <2> SUFFICES ASSUME b < n PROVE FALSE
    BY <1>1
  <2>1. b \in 1..(n - 1) /\ a \in 1..n
    BY <1>1, <1>4
  <2> QED
    BY <2>1 DEF Unblank
<1>6. a = n
  <2> SUFFICES ASSUME a < n PROVE FALSE
    BY <1>1, <1>4
  <2>1. n \in (a + 1)..b /\ n > 0
    BY <1>1, <1>5
  <2> QED
    BY <1>2, <1>3, <2>1
<1>7. b = n + Len(l)
  <2>1. ~(b < n + Len(l))
    <3> SUFFICES ASSUME b < n + Len(l) PROVE FALSE
      OBVIOUS
    <3>1. (b + 1) - n \in 1..Len(l) /\ n + ((b + 1) - n) = b + 1
      BY <1>1, <1>5
    <3> QED
      BY <1>1, <1>2, <3>1
  <2>2. ~(b > n + Len(l))
    <3> SUFFICES ASSUME b > n + Len(l) PROVE FALSE
      OBVIOUS
    <3>1. n + Len(l) + 1 \in (a + 1)..b /\ n + Len(l) + 1 \in (n + Len(l) + 1)..m
      BY <1>1, <1>6
    <3> QED
      BY <1>1, <1>2, <3>1
  <2> QED
    BY <1>1, <2>1, <2>2
<1>8. SubSeq(text, n + 1, n + Len(l)) = l
  BY LineAdds
<1>9. n # 0 /\ Blank(l)
  <2>1. SubSeq(text, a + 1, b) = l
    BY <1>6, <1>7, <1>8
  <2>2. Blank(l)
    BY <2>1
  <2>3. n # 0
    BY <1>6
  <2> QED
    BY <2>2, <2>3
<1> QED
  BY <1>9

-----------------------------------------------------------------------------
(* Where the reader stands in a regular text: what lies before place n is  *)
(* decoded, and n is the end of a line.                                    *)

At(n) ==
    /\ n \in 0..pos /\ n \in LineEnds(scn.text) /\ Untailed(scn.text, n)
    /\ crc = Values(Take(scn.text, n))
HeldFrom(n) == Held = SubSeq(scn.text, n + 1, pos)
PutBackFrom(n) ==
    \E l, m : /\ m \in (n + 1)..pos /\ LineIn(scn.text, n, l, m)
              /\ Held = Append(l, Plain("lf")) \o SubSeq(scn.text, m + 1, pos)

InLines == InArmor \ {"TailFound"}

StartInv ==
    st \in {"Start", "Unknown"} =>
        status = "Unknown" /\ (result # "Disabled" => HeldFrom(0))
ReadingInv ==
    /\ pc # "thrown" /\ st \in InLines /\ result \in {"Pending", "Success"}
    /\ ~(st = "Tail" /\ result = "Success")
    => \E n : /\ At(n)
              /\ IF st = "Payload" /\ ~looping /\ result = "Success"
                 THEN PutBackFrom(n) ELSE HeldFrom(n)
              /\ st = "BeginHeader" /\ result = "Pending" => n = 0
              /\ st = "BeginHeader" \/ (st = "Header" /\ (looping \/ result = "Pending")) =>
                     Unblank(scn.text, n)
AtTailInv ==
    (st = "Tail" /\ result = "Success") \/ st = "TailFound" =>
        \E n, m : /\ At(n) /\ scn.text[n + 1].ch = "tail"
                  /\ m \in (n + 1)..pos /\ m \in LineEnds(scn.text)
WaitInv ==
    /\ st \in InLines /\ ~looping /\ result = "Pending" => ~HasLine(buf)
    /\ st \in InLines /\ pc \in {"idle", "done"} => in = <<>>

ExactInv == StartInv /\ ReadingInv /\ AtTailInv /\ WaitInv

\* The state and the result with which a turn of a handler begins.
LEMMA TurnBegins ==
    ASSUME IInv, TextInv, NEW s \in {"BeginHeader", "Header", "Payload", "CRC", "Tail"}, Turn(s)
    PROVE  /\ pc = "running" /\ st' = s
           /\ s = "BeginHeader" => \/ st = "Unknown" /\ result = "Success"
                                   \/ st = "BeginHeader" /\ result = "Pending"
           /\ s = "Header" => \/ st = "BeginHeader" /\ result = "Success"
                              \/ st = "Header" /\ result \in {"Pending", "Success"}
                                 /\ (looping \/ result = "Pending")
           /\ s = "Payload" => \/ st = "Header" /\ result = "Success"
                               \/ st = "Payload" /\ result \in {"Pending", "Success"}
                                  /\ (looping \/ result = "Pending")
           /\ s = "CRC" => st = "Payload" /\ ~looping /\ result = "Success"
           /\ s = "Tail" => \/ st = "CRC" /\ result = "Success"
                            \/ st = "Tail" /\ result = "Pending"
<1>1. s \in States /\ st' = s /\ pc = "running"
      /\ ((~looping /\ Enters(s)) \/ (looping /\ st = s /\ s \in {"Header", "Payload"}))
  BY TurnFrom DEF States, Links
<1>2. CASE ~looping /\ Enters(s)
  <2>1. CanEnter(s) /\ (s = "BeginHeader" => st = "BeginHeader" \/ (st = "Unknown" /\ result = "Success"))
        /\ (s = "Header" => st = "Header" \/ (st = "BeginHeader" /\ result = "Success"))
        /\ (s = "Payload" => st = "Payload" \/ (st = "Header" /\ result = "Success"))
        /\ (s = "CRC" => st = "Payload" /\ result = "Success")
        /\ (s = "Tail" => st = "Tail" \/ (st = "CRC" /\ result = "Success"))
    BY <1>1, <1>2, EntersFrom
  <2>2. result = IF st = s THEN "Pending" ELSE "Success"
    BY <2>1 DEF CanEnter, SharedCanEnter
  <2> QED
    BY <1>1, <1>2, <2>1, <2>2
<1>3. CASE looping /\ st = s /\ s \in {"Header", "Payload"}
  BY <1>1, <1>3 DEF TextInv, PlaceInv
<1> QED
  BY <1>1, <1>2, <1>3

\* Nothing is read yet at the beginning.
LEMMA AtStart ==
    ASSUME TypeOK, crc = <<>>
    PROVE  At(0) /\ Unblank(scn.text, 0)
<1>1. scn.text \in Seq(Char) /\ pos \in Nat /\ 0 \in 0..pos /\ 0 \in LineEnds(scn.text)
  BY SeenType DEF LineEnds
<1>2. Take(scn.text, 0) = <<>>
  BY <1>1, SubSeqEmpty DEF Take
<1>3. Values(<<>>) = <<>>
  <2>1. <<>> \in Seq(Char) /\ Len(<<>>) = 0
    BY EmptySeq
  <2>2. \A i \in 1..Len(<<>>) : ~BlockEnd(<<>>[i])
    BY <2>1
  <2> QED
    BY <2>1, <2>2, ValuesNone
<1> QED
  BY <1>1, <1>2, <1>3 DEF At, Untailed, Unblank

\* Where the reader stands when a turn of a handler begins.
LEMMA TurnFinds ==
    ASSUME IInv, TextInv, ExactInv,
           NEW s \in {"BeginHeader", "Header", "Payload", "CRC", "Tail"}, Turn(s)
    PROVE  \E n : /\ At(n)
                  /\ s = "CRC" => PutBackFrom(n)
                  /\ s # "CRC" => HeldFrom(n)
                  /\ s = "BeginHeader" => n = 0
                  /\ s \in {"BeginHeader", "Header"} => Unblank(scn.text, n)
<1>1. CASE s = "BeginHeader" /\ st = "Unknown" /\ result = "Success"
  <2>1. crc = <<>> /\ HeldFrom(0)
    BY <1>1 DEF TextInv, GivenInv, ExactInv, StartInv
  <2> QED
    BY <1>1, <2>1, AtStart DEF IInv
<1>2. CASE ~(s = "BeginHeader" /\ st = "Unknown" /\ result = "Success")
  <2>1. /\ pc = "running" /\ st \in InLines /\ result \in {"Pending", "Success"}
        /\ ~(st = "Tail" /\ result = "Success")
        /\ s = "CRC" <=> st = "Payload" /\ ~looping /\ result = "Success"
        /\ s = "BeginHeader" => st = "BeginHeader" /\ result = "Pending"
        /\ s = "Header" => st = "BeginHeader" \/ (st = "Header" /\ (looping \/ result = "Pending"))
    BY <1>2, TurnBegins DEF InLines, InArmor
  <2>2. PICK n : /\ At(n)
                 /\ IF st = "Payload" /\ ~looping /\ result = "Success"
                    THEN PutBackFrom(n) ELSE HeldFrom(n)
                 /\ st = "BeginHeader" /\ result = "Pending" => n = 0
                 /\ st = "BeginHeader" \/ (st = "Header" /\ (looping \/ result = "Pending")) =>
                        Unblank(scn.text, n)
    BY <2>1 DEF ExactInv, ReadingInv
  <2> QED
    BY <2>1, <2>2
<1> QED
  BY <1>1, <1>2

\* The reader stays where it is as long as it decodes nothing.
LEMMA AtKeeps ==
    ASSUME UNCHANGED <<scn, pos, crc>>
    PROVE  \A n : /\ At(n) => At(n)'
                  /\ HeldFrom(n) /\ Held' = Held => HeldFrom(n)'
                  /\ Unblank(scn.text, n) => Unblank(scn.text, n)'
<1> SUFFICES ASSUME NEW n
             PROVE  /\ At(n) => At(n)'
                    /\ HeldFrom(n) /\ Held' = Held => HeldFrom(n)'
                    /\ Unblank(scn.text, n) => Unblank(scn.text, n)'
  OBVIOUS
<1>1. scn' = scn /\ pos' = pos /\ crc' = crc
  OBVIOUS
<1>2. At(n) => At(n)'
  BY <1>1 DEF At, LineEnds, Untailed, Values, Take, BlockEnd
<1>3. HeldFrom(n) /\ Held' = Held => HeldFrom(n)'
  BY <1>1 DEF HeldFrom
<1>4. Unblank(scn.text, n) => Unblank(scn.text, n)'
  BY <1>1 DEF Unblank, LineAt, LineEnds, Blank
<1> QED
  BY <1>2, <1>3, <1>4

\* The line that is read is one of the text.
LEMMA ReadsLine ==
    ASSUME IInv, Regular(scn.text), NEW n, At(n), HeldFrom(n), HasLine(Held)
    PROVE  \E m \in (n + 1)..pos : /\ LineIn(scn.text, n, Line(Held), m)
                                   /\ Rest(Held) = SubSeq(scn.text, m + 1, pos)
<1>1. scn.text \in Seq(Char) /\ pos \in 0..Len(scn.text) /\ n \in 0..pos
      /\ Held = SubSeq(scn.text, n + 1, pos)
  BY SeenType DEF IInv, At, HeldFrom
<1> QED
  BY <1>1, LineOfText

\* Behind a line the reader stands at its end.
LEMMA AtAdvances ==
    ASSUME IInv, NEW n, At(n), NEW l, NEW m \in (n + 1)..pos, LineIn(scn.text, n, l, m),
           UNCHANGED <<scn, pos>>, crc' = crc \o Values(l),
           \A i \in 1..Len(l) : l[i].ch # "tail"
    PROVE  At(m)'
<1>1. /\ scn.text \in Seq(Char) /\ Len(scn.text) \in Nat /\ pos \in Nat /\ pos <= Len(scn.text)
      /\ n \in 0..pos /\ n \in LineEnds(scn.text) /\ Untailed(scn.text, n)
      /\ crc = Values(Take(scn.text, n))
  BY SeenType DEF IInv, At
<1>2. n \in 0..Len(scn.text) /\ m \in (n + 1)..Len(scn.text) /\ m \in 0..pos
  BY <1>1
<1>3. m \in LineEnds(scn.text) /\ Values(Take(scn.text, m)) = Values(Take(scn.text, n)) \o Values(l)
  <2> DEFINE t == scn.text
  <2>1. t \in Seq(Char) /\ n \in 0..Len(t) /\ m \in (n + 1)..Len(t) /\ n \in LineEnds(t) /\ LineIn(t, n, l, m)
    BY <1>1, <1>2
  <2> HIDE DEF t
  <2>2. m \in LineEnds(t) /\ Values(Take(t, m)) = Values(Take(t, n)) \o Values(l)
    BY <2>1, LineAdds
  <2> QED
    BY <2>2 DEF t
<1>4. Untailed(scn.text, m)
  <2> SUFFICES ASSUME NEW i \in 1..m, scn.text[i].ch = "tail" PROVE FALSE
    BY DEF Untailed
  <2>1. /\ Len(l) \in Nat /\ n + Len(l) < m
        /\ \A j \in 1..Len(l) : scn.text[n + j] = l[j]
        /\ \A j \in (n + Len(l) + 1)..m : scn.text[j].ch \in {"cr", "lf"}
    BY LenProperties DEF LineIn
  <2>2. CASE i <= n
    <3>1. i \in 1..n
      BY <1>1, <2>2
    <3> QED
      BY <1>1, <3>1 DEF Untailed
  <2>3. CASE i > n /\ i <= n + Len(l)
    <3>1. i - n \in 1..Len(l) /\ n + (i - n) = i
      BY <1>1, <2>1, <2>3
    <3> QED
      BY <2>1, <3>1
  <2>4. CASE i > n + Len(l)
    <3>1. i \in (n + Len(l) + 1)..m
      BY <1>1, <2>1, <2>4
    <3> QED
      BY <2>1, <3>1
  <2> QED
    BY <1>1, <2>1, <2>2, <2>3, <2>4
<1>5. crc' = Values(Take(scn.text, m))
  BY <1>1, <1>3
<1> QED
  BY <1>2, <1>3, <1>4, <1>5 DEF At, LineEnds, Untailed, Values, Take, BlockEnd

\* A line without base64 is passed and brings nothing.
LEMMA AtPasses ==
    ASSUME IInv, NEW n, At(n), NEW l, NEW m \in (n + 1)..pos, LineIn(scn.text, n, l, m),
           UNCHANGED <<scn, pos, crc>>,
           \A i \in 1..Len(l) : l[i].ch \notin {"b64", "tail"}
    PROVE  At(m)'
<1>1. l \in Seq(Char)
  BY DEF LineIn
<1>2. Values(l) = <<>>
  BY <1>1, ValuesNone DEF BlockEnd
<1>3. crc' = crc \o Values(l)
  BY <1>2, ConcatEmptySeq DEF IInv, TypeOK
<1> QED
  BY <1>3, AtAdvances

\* A turn of a handler keeps the invariant when it keeps these.
LEMMA TurnExact ==
    ASSUME NEW s \in {"BeginHeader", "Header", "Payload", "CRC", "Tail"},
           st' = s, pc' \in {"running", "thrown"}, ReadingInv', AtTailInv',
           (~looping /\ result = "Pending" => ~HasLine(buf))'
    PROVE  ExactInv'
<1>1. StartInv'
  BY DEF StartInv
<1>2. WaitInv'
  BY DEF WaitInv
<1> QED
  BY <1>1, <1>2 DEF ExactInv

LEMMA InitExact == ASSUME Init PROVE ExactInv
<1>1. IInv /\ st = "Start" /\ status = "Unknown" /\ Held = <<>> /\ pos = 0
  BY InitInv, ConcatEmptySeq, EmptySeq DEF Init, Held
<1>2. HeldFrom(0)
  <2>1. scn.text \in Seq(Char)
    BY <1>1, SeenType DEF IInv
  <2>2. SubSeq(scn.text, 0 + 1, pos) = <<>>
    BY <1>1, <2>1, SubSeqEmpty
  <2> QED
    BY <1>1, <2>2 DEF HeldFrom
<1> QED
  BY <1>1, <1>2 DEF ExactInv, StartInv, ReadingInv, AtTailInv, WaitInv, InLines, InArmor

LEMMA UnknownExact == ASSUME IInv, TextInv, ExactInv, EnterUnknown PROVE ExactInv'
<1>1. st \in {"Start", "Unknown"} /\ result \in {"None", "Pending"}
  BY EntersFrom DEF EnterUnknown, CanEnter, States, Links
<1>2. st' = "Unknown" /\ UNCHANGED <<scn, pos, status>>
  BY DEF EnterUnknown
<1>3. HeldFrom(0) /\ status = "Unknown"
  BY <1>1 DEF ExactInv, StartInv
<1>4. result' # "Disabled" => Held' = Held
  <2>1. Held \in Seq(Char) /\ Held \o <<>> = Held /\ <<>> \o Held = Held
    BY HeldType, ConcatEmptySeq DEF IInv
  <2>2. \/ buf' = Held /\ in' = <<>>
        \/ result' = "Disabled"
        \/ in' = Held /\ buf' = <<>>
    BY DEF EnterUnknown, GiveBack, Report
  <2>3. Held' = buf' \o in'
    BY DEF Held
  <2> QED
    BY <2>1, <2>2, <2>3
<1>5. StartInv'
  BY <1>2, <1>3, <1>4 DEF StartInv, HeldFrom
<1> QED
  BY <1>2, <1>5 DEF ExactInv, ReadingInv, AtTailInv, WaitInv, InLines, InArmor

LEMMA BeginHeaderExact ==
    ASSUME IInv, TextInv, ExactInv, Regular(scn.text), EnterBeginHeader
    PROVE  ExactInv'
<1>1. Turn("BeginHeader") /\ st' = "BeginHeader" /\ pc' = "running" /\ UNCHANGED <<scn, pos>>
  BY TurnFrom DEF EnterBeginHeader, States, Links
<1>2. At(0) /\ HeldFrom(0) /\ Unblank(scn.text, 0)
  <2>1. PICK n : At(n) /\ HeldFrom(n) /\ n = 0 /\ Unblank(scn.text, n)
    BY <1>1, TurnFinds
  <2> QED
    BY <2>1
<1>3. CASE NoLine
  <2>1. Held' = Held /\ looping' = FALSE /\ result' \in {"Pending", "UnexpectedFormat"}
        /\ UNCHANGED crc /\ buf' = Held /\ ~HasLine(Held)
    BY <1>3, NoLineHeld, NoLineKeeps DEF IInv, NoLine
  <2>2. At(0)' /\ HeldFrom(0)' /\ Unblank(scn.text, 0)'
    BY <1>1, <1>2, <2>1, AtKeeps
  <2>3. ReadingInv'
    BY <1>1, <2>1, <2>2 DEF ReadingInv
  <2>4. (~looping /\ result = "Pending" => ~HasLine(buf))'
    BY <2>1 DEF HasLine, LineEnd, Ends
  <2> QED
    BY <1>1, <2>3, <2>4, TurnExact DEF AtTailInv
<1>4. CASE ReadBeginHeader
  <2>1. /\ Held' = Rest(Held) /\ looping' = FALSE /\ result' \in {"Success", "UnexpectedFormat"}
        /\ UNCHANGED crc /\ HasLine(Held)
    BY <1>4, SkipHeld DEF ReadBeginHeader, Report, Check, ReadLine
  <2>2. PICK m \in (0 + 1)..pos : /\ LineIn(scn.text, 0, Line(Held), m)
                                  /\ Rest(Held) = SubSeq(scn.text, m + 1, pos)
    BY <1>2, <2>1, ReadsLine
  <2>3. /\ scn.text \in Seq(Char) /\ 0 \in 0..Len(scn.text) /\ m \in (0 + 1)..Len(scn.text)
        /\ 0 \in LineEnds(scn.text)
    BY <1>2, SeenType DEF IInv, At
  <2>4. \A i \in 1..Len(Line(Held)) : Line(Held)[i].ch \notin {"b64", "tail"}
    BY <1>2, <2>2, <2>3, HeadersAreQuiet
  <2>5. At(m)'
    BY <1>1, <1>2, <2>1, <2>2, <2>4, AtPasses
  <2>6. Unblank(scn.text, m)
    BY <1>2, <2>2, <2>3, HeadersGoOn
  <2>7. HeldFrom(m)' /\ Unblank(scn.text, m)'
    BY <1>1, <2>1, <2>2, <2>6 DEF HeldFrom, Unblank, LineAt, LineEnds, Blank
  <2>8. ReadingInv'
    BY <1>1, <2>1, <2>5, <2>7 DEF ReadingInv
  <2>9. AtTailInv' /\ (~looping /\ result = "Pending" => ~HasLine(buf))'
    BY <1>1, <2>1 DEF AtTailInv
  <2> QED
    BY <1>1, <2>8, <2>9, TurnExact
<1> QED
  BY <1>3, <1>4 DEF EnterBeginHeader

LEMMA HeaderExact ==
    ASSUME IInv, TextInv, ExactInv, Regular(scn.text), EnterHeader
    PROVE  ExactInv'
<1>1. Turn("Header") /\ st' = "Header" /\ pc' = "running" /\ UNCHANGED <<scn, pos>>
  BY TurnFrom DEF EnterHeader, States, Links
<1>2. PICK n : At(n) /\ HeldFrom(n) /\ Unblank(scn.text, n)
  BY <1>1, TurnFinds
<1>3. CASE NoLine
  <2>1. Held' = Held /\ looping' = FALSE /\ result' \in {"Pending", "UnexpectedFormat"}
        /\ UNCHANGED crc /\ buf' = Held /\ ~HasLine(Held)
    BY <1>3, NoLineHeld, NoLineKeeps DEF IInv, NoLine
  <2>2. At(n)' /\ HeldFrom(n)' /\ Unblank(scn.text, n)'
    BY <1>1, <1>2, <2>1, AtKeeps
  <2>3. ReadingInv'
    BY <1>1, <2>1, <2>2 DEF ReadingInv
  <2>4. (~looping /\ result = "Pending" => ~HasLine(buf))'
    BY <2>1 DEF HasLine, LineEnd, Ends
  <2> QED
    BY <1>1, <2>3, <2>4, TurnExact DEF AtTailInv
<1>4. CASE ReadHeader
  <2>1. /\ Held' = Rest(Held) /\ UNCHANGED crc /\ HasLine(Held)
        /\ IF Blank(Line(Held)) THEN result' = "Success" /\ looping' = FALSE ELSE looping' = TRUE
    BY <1>4, SkipHeld DEF ReadHeader, Report, Loop, ReadLine
  <2>2. PICK m \in (n + 1)..pos : /\ LineIn(scn.text, n, Line(Held), m)
                                  /\ Rest(Held) = SubSeq(scn.text, m + 1, pos)
    BY <1>2, <2>1, ReadsLine
  <2>3. /\ scn.text \in Seq(Char) /\ n \in 0..Len(scn.text) /\ m \in (n + 1)..Len(scn.text)
        /\ n \in LineEnds(scn.text)
    BY <1>2, SeenType DEF IInv, At
  <2>4. \A i \in 1..Len(Line(Held)) : Line(Held)[i].ch \notin {"b64", "tail"}
    BY <1>2, <2>2, <2>3, HeadersAreQuiet
  <2>5. At(m)' /\ HeldFrom(m)'
    BY <1>1, <1>2, <2>1, <2>2, <2>4, AtPasses DEF HeldFrom
  <2>6. ~Blank(Line(Held)) => Unblank(scn.text, m)
    BY <1>2, <2>2, <2>3, HeadersGoOn
  <2>7. ~Blank(Line(Held)) => Unblank(scn.text, m)'
    BY <1>1, <2>6 DEF Unblank, LineAt, LineEnds, Blank
  <2>8. ReadingInv'
    BY <1>1, <2>1, <2>5, <2>7 DEF ReadingInv
  <2>9. AtTailInv' /\ (~looping /\ result = "Pending" => ~HasLine(buf))'
    BY <1>1, <2>1 DEF AtTailInv
  <2> QED
    BY <1>1, <2>8, <2>9, TurnExact
<1> QED
  BY <1>3, <1>4 DEF EnterHeader

LEMMA PayloadExact ==
    ASSUME IInv, TextInv, ExactInv, Regular(scn.text), EnterPayload
    PROVE  ExactInv'
<1>1. Turn("Payload") /\ st' = "Payload" /\ pc = "running" /\ UNCHANGED <<scn, pos>> /\ IInv'
  BY TurnFrom, PayloadInv DEF EnterPayload, States, Links
<1>2. PICK n : At(n) /\ HeldFrom(n)
  BY <1>1, TurnFinds
<1>3. AtTailInv'
  BY <1>1 DEF AtTailInv
<1>4. CASE NoLine /\ UNCHANGED pc
  <2>1. Held' = Held /\ looping' = FALSE /\ result' \in {"Pending", "UnexpectedFormat"}
        /\ UNCHANGED crc /\ buf' = Held /\ ~HasLine(Held)
    BY <1>4, NoLineHeld, NoLineKeeps DEF IInv, NoLine
  <2>2. At(n)' /\ HeldFrom(n)'
    BY <1>1, <1>2, <2>1, AtKeeps
  <2>3. ReadingInv'
    BY <1>1, <2>1, <2>2 DEF ReadingInv
  <2>4. (~looping /\ result = "Pending" => ~HasLine(buf))'
    BY <2>1 DEF HasLine, LineEnd, Ends
  <2> QED
    BY <1>1, <1>3, <1>4, <2>3, <2>4, TurnExact
<1>5. CASE ReadPayload
  <2> DEFINE line == Line(Held)
  <2>1. HasLine(Held) /\ Held \in Seq(Char) /\ ReadLine
    BY <1>5, HeldType DEF ReadPayload, ReadLine, IInv
  <2>2. PICK m \in (n + 1)..pos : /\ LineIn(scn.text, n, line, m)
                                  /\ Rest(Held) = SubSeq(scn.text, m + 1, pos)
    BY <1>2, <2>1, ReadsLine
  <2>3. /\ scn.text \in Seq(Char) /\ Len(scn.text) \in Nat /\ pos \in Nat /\ pos <= Len(scn.text)
        /\ n \in 0..pos /\ n \in LineEnds(scn.text) /\ m \in 0..pos
        /\ n \in 0..Len(scn.text) /\ m \in (n + 1)..Len(scn.text)
    BY <1>2, SeenType DEF IInv, At
  <2>4. line \in Seq(Char) /\ Len(line) \in Nat /\ n + Len(line) < m
        /\ \A i \in 1..Len(line) : line[i].ch \notin {"cr", "lf"}
    BY <2>2, LenProperties DEF LineIn
  <2>5. CASE PutBack(line) /\ Report("Success") /\ UNCHANGED <<pc, crc>>
    <3>1. Held' = Append(line, Plain("lf")) \o SubSeq(scn.text, m + 1, pos)
      <4>1. buf' \in Seq(Char) /\ buf' = Append(line, Plain("lf")) \o Rest(Held) /\ in' = <<>>
        BY <1>1, <2>1, <2>5 DEF PutBack, ReadLine, IInv, TypeOK
      <4>2. Held' = buf'
        BY <4>1, ConcatEmptySeq DEF Held
      <4> QED
        BY <2>2, <4>1, <4>2
    <3> HIDE DEF line
    <3>2. PutBackFrom(n)'
      BY <1>1, <2>2, <3>1 DEF PutBackFrom, LineIn
    <3>3. At(n)'
      BY <1>1, <1>2, <2>5, AtKeeps
    <3>4. result' = "Success" /\ looping' = FALSE /\ pc' = pc
      BY <2>5 DEF Report
    <3>5. ReadingInv'
      BY <1>1, <3>2, <3>3, <3>4 DEF ReadingInv
    <3> QED
      BY <1>1, <1>3, <3>4, <3>5, TurnExact
  <2>6. CASE Report("UnexpectedFormat") /\ UNCHANGED pc
    <3>1. ReadingInv' /\ result' # "Pending"
      BY <2>6 DEF ReadingInv, Report
    <3> QED
      BY <1>1, <1>3, <2>6, <3>1, TurnExact
  <2>7. CASE /\ Len(line) % Quad = 0 /\ \A i \in DOMAIN line : IsBase64(line[i])
             /\ Skip /\ Loop /\ CountSum(Decode(line)) /\ UNCHANGED pc
    <3>1. Held' = Rest(Held) /\ looping' = TRUE /\ result' = result /\ pc' = pc
      BY <2>1, <2>7, SkipHeld DEF Loop
    <3>2. \A i \in 1..Len(line) : line[i].ch \in {"b64", "sum"}
      BY <2>4, <2>7, LenProperties DEF IsBase64
    <3> HIDE DEF line
    <3>3. LineAt(scn.text, n, n + Len(line)) /\ SubSeq(scn.text, n + 1, n + Len(line)) = line
      BY <2>2, <2>3, LineAdds
    <3>4. WholeBlocks(line)
      <4>1. n \in 0..Len(scn.text) /\ n + Len(line) \in 0..Len(scn.text) /\ (n + Len(line)) - n = Len(line)
        BY <2>3, <2>4
      <4>2. ASSUME NEW i \in (n + 1)..(n + Len(line)) PROVE IsBase64(scn.text[i])
        <5>1. i - n \in 1..Len(line) /\ n + (i - n) = i
          BY <2>3, <2>4
        <5>2. scn.text[i] = line[i - n]
          BY <2>2, <5>1 DEF LineIn
        <5> QED
          BY <3>2, <5>1, <5>2 DEF IsBase64
      <4>3. WholeBlocks(SubSeq(scn.text, n + 1, n + Len(line)))
        BY <2>7, <3>3, <4>1, <4>2 DEF Regular
      <4> QED
        BY <3>3, <4>3
    <3>5. crc' = crc \o Values(line)
      BY <2>4, <2>7, <3>4, DecodeWhole DEF CountSum
    <3>6. At(m)' /\ HeldFrom(m)'
      BY <1>1, <1>2, <2>2, <3>1, <3>2, <3>5, AtAdvances DEF HeldFrom
    <3>7. ReadingInv'
      BY <1>1, <3>1, <3>6 DEF ReadingInv
    <3> QED
      BY <1>1, <1>3, <3>1, <3>7, TurnExact
  <2>8. CASE Loop /\ pc' = "thrown"
    <3>1. ReadingInv' /\ looping' = TRUE
      BY <2>8 DEF ReadingInv, Loop
    <3> QED
      BY <1>1, <1>3, <2>8, <3>1, TurnExact
  <2> QED
    BY <1>5, <2>5, <2>6, <2>7, <2>8 DEF ReadPayload
<1> QED
  BY <1>4, <1>5 DEF EnterPayload

LEMMA CRCExact ==
    ASSUME IInv, TextInv, ExactInv, Regular(scn.text), EnterCRC
    PROVE  ExactInv'
<1>1. Turn("CRC") /\ st' = "CRC" /\ pc' = "running" /\ UNCHANGED <<scn, pos>>
  BY TurnFrom DEF EnterCRC, States, Links
<1>2. PICK n : At(n) /\ PutBackFrom(n)
  BY <1>1, TurnFinds
<1>3. PICK l, m : /\ m \in (n + 1)..pos /\ LineIn(scn.text, n, l, m)
                  /\ Held = Append(l, Plain("lf")) \o SubSeq(scn.text, m + 1, pos)
  BY <1>2 DEF PutBackFrom
<1>4. HasLine(Held) /\ Line(Held) = l /\ Rest(Held) = SubSeq(scn.text, m + 1, pos) /\ l \in Seq(Char)
  <2>1. l \in Seq(Char) /\ \A i \in 1..Len(l) : l[i].ch \notin {"cr", "lf"}
    BY <1>3 DEF LineIn
  <2>2. SubSeq(scn.text, m + 1, pos) \in Seq(Char)
    <3>1. scn.text \in Seq(Char) /\ pos \in 0..Len(scn.text) /\ m \in 0..pos
      BY <1>2, <1>3, SeenType DEF IInv, At
    <3> QED
      BY <3>1, PieceIs
  <2> QED
    BY <1>3, <2>1, <2>2, PutBackLine
<1>5. ReadCRC
  BY <1>4 DEF EnterCRC, NoLine
<1>6. /\ Held' = Rest(Held) /\ looping' = FALSE /\ result' \in {"Success", "UnexpectedFormat"}
      /\ UNCHANGED crc
  BY <1>5, SkipHeld DEF ReadCRC, Report, Check
<1>7. result' = "Success" => At(m)' /\ HeldFrom(m)'
  <2> SUFFICES ASSUME result' = "Success" PROVE At(m)' /\ HeldFrom(m)'
    OBVIOUS
  <2>1. IsSumLine(l) /\ Len(l) = Quad + 1 /\ Tail(l) = [i \in 1..Quad |-> Sum(crc, i)]
    BY <1>4, <1>5 DEF ReadCRC, Report, Check, ValidateCRC
  <2>2. ASSUME NEW i \in 1..Len(l) PROVE l[i].ch \notin {"b64", "tail"}
    <3>1. CASE i = 1
      BY <2>1, <3>1 DEF IsSumLine
    <3>2. CASE i # 1
      <4>1. i - 1 \in 1..Quad /\ (i - 1) + 1 = i
        BY <2>1, <3>2, ArmorReaderAssumption
      <4>2. Tail(l)[i - 1] = l[i]
        <5>1. Tail(l)[i - 1] = l[(i - 1) + 1]
          BY <1>4, <2>1, <4>1, ArmorReaderAssumption, HeadTailProperties, EmptySeq DEF IsSumLine
        <5> QED
          BY <4>1, <5>1
      <4>3. l[i] = Sum(crc, i - 1)
        BY <2>1, <4>1, <4>2
      <4> QED
        BY <4>3 DEF Sum
    <3> QED
      BY <3>1, <3>2
  <2> QED
    BY <1>1, <1>2, <1>3, <1>4, <1>6, <2>2, AtPasses DEF HeldFrom
<1>8. ReadingInv'
  BY <1>1, <1>6, <1>7 DEF ReadingInv
<1>9. AtTailInv'
  BY <1>1 DEF AtTailInv
<1> QED
  BY <1>1, <1>6, <1>8, <1>9, TurnExact

LEMMA TailExact ==
    ASSUME IInv, TextInv, ExactInv, Regular(scn.text), EnterTail
    PROVE  ExactInv'
<1>1. Turn("Tail") /\ st' = "Tail" /\ pc' = "running" /\ UNCHANGED <<scn, pos>>
  BY TurnFrom DEF EnterTail, States, Links
<1>2. PICK n : At(n) /\ HeldFrom(n)
  BY <1>1, TurnFinds
<1>3. CASE NoLine
  <2>1. Held' = Held /\ looping' = FALSE /\ result' \in {"Pending", "UnexpectedFormat"}
        /\ UNCHANGED crc /\ buf' = Held /\ ~HasLine(Held)
    BY <1>3, NoLineHeld, NoLineKeeps DEF IInv, NoLine
  <2>2. At(n)' /\ HeldFrom(n)'
    BY <1>1, <1>2, <2>1, AtKeeps
  <2>3. ReadingInv' /\ AtTailInv'
    BY <1>1, <2>1, <2>2 DEF ReadingInv, AtTailInv
  <2>4. (~looping /\ result = "Pending" => ~HasLine(buf))'
    BY <2>1 DEF HasLine, LineEnd, Ends
  <2> QED
    BY <1>1, <2>3, <2>4, TurnExact
<1>4. CASE ReadTail
  <2>1. /\ looping' = FALSE /\ result' \in {"Success", "UnexpectedFormat"} /\ HasLine(Held)
        /\ UNCHANGED crc /\ (result' = "Success" => Line(Held) = MinTail \o label \o Separator)
    BY <1>4 DEF ReadTail, ReadLine, Report, Check
  <2>2. PICK m \in (n + 1)..pos : LineIn(scn.text, n, Line(Held), m)
    BY <1>2, <2>1, ReadsLine
  <2>3. m \in LineEnds(scn.text)
    BY <1>2, <2>2, SeenType, LineAdds DEF IInv, At
  <2>4. result' = "Success" => scn.text[n + 1].ch = "tail"
    <3> SUFFICES ASSUME result' = "Success" PROVE scn.text[n + 1].ch = "tail"
      OBVIOUS
    <3> DEFINE rest == label \o Separator
    <3>1. MinTail \in Seq(Char) /\ MinTail # <<>> /\ MinTail[1].ch = "tail" /\ Len(MinTail) \in Nat
          /\ rest \in Seq(Char) /\ Len(rest) \in Nat
      <4>1. rest \in Seq(Char)
        BY ArmorReaderAssumption, ConcatProperties DEF IInv, TypeOK
      <4> HIDE DEF rest
      <4> QED
        BY <4>1, ArmorReaderAssumption, LenProperties
    <3>2. (MinTail \o label) \o Separator = MinTail \o rest
      <4>1. MinTail \in Seq(Char) /\ label \in Seq(Char) /\ Separator \in Seq(Char)
        BY ArmorReaderAssumption DEF IInv, TypeOK
      <4> QED
        BY <4>1, ConcatAssociative
    <3> HIDE DEF rest
    <3>3. Len(MinTail) >= 1
      BY <3>1, EmptySeq
    <3>4. (MinTail \o rest)[1] = MinTail[1] /\ Len(MinTail \o rest) >= 1
      BY <3>1, <3>3, ConcatProperties
    <3>5. 1 \in 1..Len(Line(Held)) /\ Line(Held)[1].ch = "tail"
      BY <2>1, <3>1, <3>2, <3>3, <3>4, ConcatProperties
    <3> QED
      BY <2>2, <3>5 DEF LineIn
  <2>5. At(n)'
    BY <1>1, <1>2, <2>1, AtKeeps
  <2>6. AtTailInv'
    BY <1>1, <2>1, <2>2, <2>3, <2>4, <2>5 DEF AtTailInv, LineEnds
  <2>7. ReadingInv'
    BY <1>1, <2>1 DEF ReadingInv
  <2> QED
    BY <1>1, <2>1, <2>6, <2>7, TurnExact
<1> QED
  BY <1>3, <1>4 DEF EnterTail

LEMMA TailFoundExact == ASSUME IInv, TextInv, ExactInv, EnterTailFound PROVE ExactInv'
<1>1. st = "Tail" /\ result = "Success"
  BY EntersFrom DEF EnterTailFound, States, Links
<1>2. st' = "TailFound" /\ UNCHANGED <<scn, pos, crc>>
  BY DEF EnterTailFound
<1>3. AtTailInv'
  <2>1. PICK n, m : /\ At(n) /\ scn.text[n + 1].ch = "tail"
                    /\ m \in (n + 1)..pos /\ m \in LineEnds(scn.text)
    BY <1>1 DEF ExactInv, AtTailInv
  <2>2. At(n)'
    BY <1>2, <2>1, AtKeeps
  <2> QED
    BY <1>2, <2>1, <2>2 DEF AtTailInv, LineEnds
<1> QED
  BY <1>2, <1>3 DEF ExactInv, StartInv, ReadingInv, WaitInv, InLines, InArmor

LEMMA LeavesExact ==
    ASSUME st' \in {"Disabled", "Fail"}
    PROVE  ExactInv'
  BY DEF ExactInv, StartInv, ReadingInv, AtTailInv, WaitInv, InLines, InArmor

LEMMA FeedExact ==
    ASSUME IInv, TextInv, ExactInv, NEW n \in 0..(Len(scn.text) - pos), Feed(n)
    PROVE  ExactInv'
<1>1. /\ pc = "idle" /\ pc' = "running" /\ pos' = pos + n
      /\ in' = in \o SubSeq(scn.text, pos + 1, pos + n)
      /\ UNCHANGED <<scn, looping, st, buf, result, status, crc>>
  BY DEF Feed
<1>2. /\ scn.text \in Seq(Char) /\ Len(scn.text) \in Nat /\ pos \in Nat
      /\ pos + n \in Nat /\ pos <= pos + n /\ pos + n <= Len(scn.text)
  BY SeenType DEF IInv
<1> DEFINE new == SubSeq(scn.text, pos + 1, pos + n)
<1>3. new \in Seq(Char) /\ in \in Seq(Char) /\ buf \in Seq(Char)
  BY <1>2, HeldType, SubSeqProperties DEF IInv
<1>4. Held' = Held \o new
  <2> HIDE DEF new
  <2>1. buf \o (in \o new) = (buf \o in) \o new
    BY <1>3, ConcatAssociative, SMTT(30)
  <2> QED
    BY <1>1, <2>1 DEF Held, new
<1>5. ASSUME NEW k \in 0..pos, HeldFrom(k) PROVE HeldFrom(k)'
  <2>1. k \in Nat /\ k <= pos
    BY <1>2
  <2>2. SubSeq(scn.text, k + 1, pos) \o SubSeq(scn.text, pos + 1, pos + n) = SubSeq(scn.text, k + 1, pos + n)
    BY <1>2, <2>1, BehindGrows
  <2> QED
    BY <1>1, <1>4, <1>5, <2>2 DEF HeldFrom
<1>6. ASSUME NEW k, At(k) PROVE At(k)' /\ k \in 0..pos
  <2>1. k \in 0..pos /\ k \in 0..(pos + n)
    BY <1>2, <1>6 DEF At
  <2> QED
    BY <1>1, <1>6, <2>1 DEF At, LineEnds, Untailed, Values, Take, BlockEnd
<1>7. StartInv'
  <2>1. 0 \in 0..pos
    BY <1>2
  <2> QED
    BY <1>1, <1>5, <2>1 DEF ExactInv, StartInv
<1>8. ReadingInv'
  <2> SUFFICES ASSUME st \in InLines, result \in {"Pending", "Success"},
                      ~(st = "Tail" /\ result = "Success")
               PROVE  ReadingInv'
    BY <1>1 DEF ReadingInv
  <2>1. ~(st = "Payload" /\ ~looping /\ result = "Success")
    BY <1>1 DEF IInv, ControlInv
  <2>2. PICK k : /\ At(k) /\ HeldFrom(k)
                 /\ st = "BeginHeader" /\ result = "Pending" => k = 0
                 /\ st = "BeginHeader" \/ (st = "Header" /\ (looping \/ result = "Pending")) =>
                        Unblank(scn.text, k)
    BY <1>1, <2>1 DEF ExactInv, ReadingInv
  <2>3. At(k)' /\ HeldFrom(k)'
    BY <1>5, <1>6, <2>2
  <2>4. Unblank(scn.text, k) => Unblank(scn.text, k)'
    BY <1>1 DEF Unblank, LineAt, LineEnds, Blank
  <2> QED
    BY <1>1, <2>1, <2>2, <2>3, <2>4 DEF ReadingInv
<1>9. AtTailInv'
  <2> SUFFICES ASSUME (st = "Tail" /\ result = "Success") \/ st = "TailFound"
               PROVE  AtTailInv'
    BY <1>1 DEF AtTailInv
  <2>1. PICK k, m : /\ At(k) /\ scn.text[k + 1].ch = "tail"
                    /\ m \in (k + 1)..pos /\ m \in LineEnds(scn.text)
    BY DEF ExactInv, AtTailInv
  <2>2. At(k)' /\ k \in 0..pos
    BY <1>6, <2>1
  <2>3. m \in (k + 1)..(pos + n)
    BY <1>2, <2>1, <2>2
  <2> QED
    BY <1>1, <2>1, <2>2, <2>3 DEF AtTailInv, LineEnds
<1>10. WaitInv'
  BY <1>1 DEF ExactInv, WaitInv, HasLine, LineEnd, Ends
<1> QED
  BY <1>7, <1>8, <1>9, <1>10 DEF ExactInv

\* What is left as it was when a call ends.
LEMMA EndExact ==
    ASSUME IInv, TextInv, ExactInv, pc' # "thrown" => pc # "thrown",
           UNCHANGED <<scn, pos, looping, st, buf, in, result, status, crc>>,
           st \in InLines /\ pc' \in {"idle", "done"} => in = <<>>
    PROVE  ExactInv'
<1>1. Held' = Held
  BY DEF Held
<1>2. StartInv'
  BY <1>1 DEF ExactInv, StartInv, HeldFrom
<1>3. ReadingInv'
  <2> SUFFICES ASSUME pc # "thrown", st \in InLines, result \in {"Pending", "Success"},
                      ~(st = "Tail" /\ result = "Success")
               PROVE  ReadingInv'
    BY DEF ReadingInv
  <2>1. PICK n : /\ At(n)
                 /\ IF st = "Payload" /\ ~looping /\ result = "Success"
                    THEN PutBackFrom(n) ELSE HeldFrom(n)
                 /\ st = "BeginHeader" /\ result = "Pending" => n = 0
                 /\ st = "BeginHeader" \/ (st = "Header" /\ (looping \/ result = "Pending")) =>
                        Unblank(scn.text, n)
    BY DEF ExactInv, ReadingInv
  <2>2. /\ At(n)' /\ (HeldFrom(n) => HeldFrom(n)')
        /\ (Unblank(scn.text, n) => Unblank(scn.text, n)')
    BY <1>1, <2>1, AtKeeps
  <2>3. PutBackFrom(n) => PutBackFrom(n)'
    BY <1>1 DEF PutBackFrom, LineIn
  <2> QED
    BY <2>1, <2>2, <2>3 DEF ReadingInv
<1>4. AtTailInv'
  <2> SUFFICES ASSUME (st = "Tail" /\ result = "Success") \/ st = "TailFound"
               PROVE  AtTailInv'
    BY DEF AtTailInv
  <2>1. PICK n, m : /\ At(n) /\ scn.text[n + 1].ch = "tail"
                    /\ m \in (n + 1)..pos /\ m \in LineEnds(scn.text)
    BY DEF ExactInv, AtTailInv
  <2>2. At(n)'
    BY <2>1, AtKeeps
  <2> QED
    BY <2>1, <2>2 DEF AtTailInv, LineEnds
<1>5. WaitInv'
  BY DEF ExactInv, WaitInv, HasLine, LineEnd, Ends
<1> QED
  BY <1>2, <1>3, <1>4, <1>5 DEF ExactInv

LEMMA RefuseExact == ASSUME IInv, TextInv, ExactInv, Refuse PROVE ExactInv'
  BY EndExact DEF Refuse, Returning, Machine, reader

LEMMA ReturnExact == ASSUME IInv, TextInv, ExactInv, Return PROVE ExactInv'
<1>1. /\ pc = "running" /\ pc' \in {"done", "idle"} /\ (~CanExit(st) \/ st = "Fail")
      /\ in' = (IF status = "Disabled" THEN <<>> ELSE in)
      /\ UNCHANGED <<scn, pos, looping, st, buf, result, status, crc>>
  BY DEF Return, Returning, Machine
<1>2. CASE status = "Disabled"
  <2>1. st' = "Disabled"
    BY <1>1, <1>2 DEF TextInv, GivenInv
  <2> QED
    BY <2>1, LeavesExact
<1>3. CASE status # "Disabled"
  <2>1. st \in InLines => in = <<>>
    BY <1>1 DEF InLines, InArmor, CanExit
  <2> QED
    BY <1>1, <1>3, <2>1, EndExact
<1> QED
  BY <1>2, <1>3

LEMMA NextExact ==
    IInv /\ TextInv /\ (Regular(scn.text) => ExactInv) /\ [Next]_vars
        => (Regular(scn.text) => ExactInv)'
<1>1. [Next]_vars => UNCHANGED scn
  BY DEF Next, Step, Read, Finish, Feed, EnterUnknown, EnterDisabled, EnterBeginHeader,
         EnterHeader, EnterPayload, EnterCRC, EnterTail, EnterTailFound, EnterFail,
         Refuse, Return, vars
<1>2. UNCHANGED scn => (Regular(scn.text)' <=> Regular(scn.text))
  BY DEF Regular, LineAt, LineEnds, IsBase64, WholeBlocks, Blank, Symbol
<1> SUFFICES ASSUME IInv, TextInv, Regular(scn.text), ExactInv, [Next]_vars PROVE ExactInv'
  BY <1>1, <1>2
<1>3. CASE Step
  <2>1. CASE EnterDisabled \/ EnterFail
    BY <2>1, LeavesExact DEF EnterDisabled, EnterFail
  <2> QED
    BY <1>3, <2>1, UnknownExact, BeginHeaderExact, HeaderExact, PayloadExact, CRCExact,
       TailExact, TailFoundExact, RefuseExact, ReturnExact DEF Step
<1>4. Len(scn.text) \in Nat /\ pos \in Nat /\ pos <= Len(scn.text)
  BY SeenType DEF IInv
<1>5. CASE Read
  BY <1>4, <1>5, FeedExact DEF Read
<1>6. CASE Finish
  <2>1. Len(scn.text) - pos \in 0..(Len(scn.text) - pos)
    BY <1>4
  <2> QED
    BY <1>6, <2>1, FeedExact DEF Finish
<1>7. CASE UNCHANGED vars
  <2>1. UNCHANGED <<scn, pos, pc, looping, st, buf, in, result, status, crc>>
    BY <1>7 DEF vars, reader
  <2>2. st \in InLines /\ pc' \in {"idle", "done"} => in = <<>>
    BY <2>1 DEF ExactInv, WaitInv
  <2> QED
    BY <2>1, <2>2, EndExact
<1> QED
  BY <1>3, <1>5, <1>6, <1>7 DEF Next

LEMMA AlwaysExact == Spec => [](Regular(scn.text) => ExactInv)
<1>1. Init => (Regular(scn.text) => ExactInv)
  BY InitExact
<1> QED
  BY <1>1, AlwaysInv, AlwaysText, NextExact, PTL DEF Spec

\* The last line end that was seen is where the reader stands.
LEMMA MaxIs ==
    ASSUME NEW S \in SUBSET Nat, NEW x \in S, \A y \in S : y <= x
    PROVE  Max(S) = x
<1>1. \A y \in S : x >= y
  OBVIOUS
<1>2. PICK z \in S : z = Max(S) /\ \A y \in S : z >= y
  BY <1>1 DEF Max
<1>3. x = z
  BY <1>1, <1>2
<1> QED
  BY <1>2, <1>3

\* A set of numbers that is bounded has a greatest one.
LEMMA GreatestIs ==
    ASSUME NEW n \in Nat, NEW S \in SUBSET (0..n), S # {}
    PROVE  \E x \in S : \A y \in S : y <= x
<1> DEFINE B == {b \in Nat : \A y \in S : y <= b}
<1>1. S \subseteq Nat /\ n \in B
  OBVIOUS
<1>2. PICK b \in B : \A c \in B : b <= c
  BY <1>1, NatMin
<1>3. CASE b \in S
  BY <1>2, <1>3
<1>4. CASE b \notin S
  <2>1. b # 0
    <3>1. PICK y \in S : y \in Nat
      BY <1>1
    <3>2. y <= b /\ y # b /\ b \in Nat
      BY <1>2, <1>4, <3>1
    <3> QED
      BY <3>1, <3>2
  <2>2. b - 1 \in B
    BY <1>1, <1>2, <1>4, <2>1
  <2> QED
    BY <1>2, <2>2
<1> QED
  BY <1>3, <1>4

\* Without a tail all of a text can be content; behind a tail nothing is.
LEMMA UntailedContent ==
    ASSUME NEW text \in Seq(Char), NEW n \in 0..Len(text), Untailed(text, n)
    PROVE  /\ Content(Take(text, n)) = Octets(Values(Take(text, n)))
           /\ \A m \in (n + 1)..Len(text) : text[n + 1].ch = "tail" =>
                 Content(Take(text, m)) = Octets(Values(Take(text, n)))
<1> DEFINE Tails(t) == {i \in DOMAIN t : t[i].ch = "tail"}
           Cuts(t)  == {i - 1 : i \in Tails(t)} \cup {Len(t)}
<1>1. Len(text) \in Nat /\ n \in Nat /\ n <= Len(text)
  BY LenProperties
<1>2. ASSUME NEW m \in n..Len(text)
      PROVE  /\ Take(text, m) \in Seq(Char) /\ Len(Take(text, m)) = m /\ DOMAIN Take(text, m) = 1..m
             /\ \A i \in 1..m : Take(text, m)[i] = text[i]
             /\ Take(Take(text, m), n) = Take(text, n)
  <2>1. m \in Nat /\ m <= Len(text)
    BY <1>1
  <2>2. \A i \in 1..m : text[i] \in Char
    BY <2>1, <1>1, ElementOfSeq
  <2>3. Take(text, m) \in Seq(Char) /\ Len(Take(text, m)) = m /\ \A i \in 1..m : Take(text, m)[i] = text[i]
    BY <1>1, <2>1, <2>2, SubSeqProperties DEF Take
  <2> DEFINE t == Take(text, m)
  <2>4. t \in Seq(Char) /\ Len(t) = m /\ \A i \in 1..m : t[i] = text[i]
    BY <2>3
  <2> HIDE DEF t
  <2>5. Take(t, n) \in Seq(Char) /\ Len(Take(t, n)) = n /\ \A i \in 1..n : Take(t, n)[i] = t[i]
    <3>1. \A i \in 1..n : t[i] \in Char
      BY <1>1, <2>1, <2>4, ElementOfSeq
    <3> QED
      BY <1>1, <2>1, <2>4, <3>1, SubSeqProperties DEF Take
  <2>6. Take(text, n) \in Seq(Char) /\ Len(Take(text, n)) = n /\ \A i \in 1..n : Take(text, n)[i] = text[i]
    <3>1. \A i \in 1..n : text[i] \in Char
      BY <1>1, ElementOfSeq
    <3> QED
      BY <1>1, <3>1, SubSeqProperties DEF Take
  <2>7. \A i \in 1..n : Take(t, n)[i] = Take(text, n)[i]
    BY <1>1, <2>1, <2>4, <2>5, <2>6
  <2>8. Take(t, n) = Take(text, n)
    BY <2>5, <2>6, <2>7, SeqEqual
  <2> QED
    BY <2>3, <2>8, LenProperties DEF t
<1>3. ASSUME NEW m \in n..Len(text), m = n \/ text[n + 1].ch = "tail"
      PROVE  BeforeTail(Take(text, m)) = Take(text, n)
  <2> DEFINE t == Take(text, m)
  <2>1. t \in Seq(Char) /\ Len(t) = m /\ DOMAIN t = 1..m /\ Take(t, n) = Take(text, n)
        /\ \A i \in 1..m : t[i] = text[i]
    BY <1>2
  <2>2. BeforeTail(t) = Take(t, Min(Cuts(t)))
    BY DEF BeforeTail
  <2> HIDE DEF t
  <2>3. Tails(t) = {i \in 1..m : text[i].ch = "tail"}
    BY <2>1
  <2>4. m \in Nat /\ n <= m
    BY <1>1
  <2>5. \A i \in Tails(t) : i \in Nat /\ i - 1 \in Nat /\ n <= i - 1
    <3> SUFFICES ASSUME NEW i \in Tails(t) PROVE i \in Nat /\ i - 1 \in Nat /\ n <= i - 1
      OBVIOUS
    <3>1. i \in 1..m /\ text[i].ch = "tail"
      BY <2>3
    <3>2. i \notin 1..n
      BY <3>1 DEF Untailed
    <3> QED
      BY <1>1, <2>4, <3>1, <3>2
  <2>6. n \in Cuts(t)
    <3>1. CASE m = n
      BY <2>1, <3>1
    <3>2. CASE m # n
      <4>1. n + 1 \in Tails(t) /\ (n + 1) - 1 = n
        BY <1>1, <1>3, <2>3, <2>4, <3>2
      <4> HIDE DEF Tails
      <4> QED
        BY <4>1
    <3> QED
      BY <3>1, <3>2
  <2>7. Cuts(t) \in SUBSET Nat /\ \A y \in Cuts(t) : n <= y
    <3> HIDE DEF Tails
    <3> QED
      BY <2>1, <2>4, <2>5
  <2> HIDE DEF Cuts
  <2>8. Min(Cuts(t)) = n
    <3>1. Min(Cuts(t)) \in Cuts(t) /\ Min(Cuts(t)) <= n
      BY <2>6, <2>7, MinIs
    <3> QED
      BY <1>1, <2>7, <3>1
  <2> QED
    BY <2>1, <2>2, <2>8 DEF t
<1>4. n \in n..Len(text) /\ \A m \in (n + 1)..Len(text) : m \in n..Len(text)
  BY <1>1
<1> QED
  BY <1>3, <1>4 DEF Content

-----------------------------------------------------------------------------
(* Theorems.                                                               *)

\* The variables keep their types: in particular the label is cut out of a
\* line within its bounds, and only whole blocks are decoded.
THEOREM TypeCorrect == Spec => []TypeOK
<1>1. IInv => TypeOK
  BY DEF IInv
<1> QED
  BY <1>1, AlwaysInv, PTL

\* CRC, which has no link to itself, never has to wait: the line that sends
\* the machine there was put back whole.
THEOREM CRCNever == Spec => []CRCNeverWaits
<1>1. IInv => CRCNeverWaits
  BY DEF IInv, ControlInv, CRCNeverWaits, Outcome
<1> QED
  BY <1>1, AlwaysInv, PTL

\* The machine fails only on a wrong format.
THEOREM FailsOnlyOnFormat == Spec => []FailsOnFormat
<1>1. IInv => FailsOnFormat
  BY DEF IInv, ControlInv, FailsOnFormat, Outcome
<1> QED
  BY <1>1, AlwaysInv, PTL

\* A wrong format is never reported as such, but as an unexpected error.
THEOREM FormatNeverReported == Spec => []FormatBecomesError
<1>1. IInv => FormatBecomesError
  BY DEF IInv, ControlInv, FormatBecomesError
<1> QED
  BY <1>1, AlwaysInv, PTL

\* Whatever text comes, with whatever label, line length and cuts: when its
\* tail is accepted, what was given out are the octets under a checksum that
\* stands in the text, and the label in the tail is the one in the header.
THEOREM AcceptsOnlyChecked == Spec => []AcceptedIsChecked
<1>1. IInv /\ TextInv => AcceptedIsChecked
  <2> SUFFICES ASSUME IInv, TextInv, pc \in {"idle", "done"}, st = "TailFound"
               PROVE  /\ Occurs(SumOf, Seen) /\ given = Octets(crc)
                      /\ Occurs(LastLine, Seen) /\ Occurs(FirstLine, Seen)
    BY DEF AcceptedIsChecked, SumOf, Seen, LastLine, FirstLine
  <2>1. given = given \o out
    BY ConcatEmptySeq DEF IInv, TypeOK, TextInv, GivenInv
  <2> QED
    BY <2>1 DEF TextInv, LabelInv, SumInv, EndInv, GivenInv, InArmor
<1> QED
  BY <1>1, AlwaysInv, AlwaysText, PTL
\* A text whose characters are where the format has them is decoded exactly
\* and promptly, in whatever pieces it comes: at the end of each call the
\* octets of all complete lines were given out, and nothing else.
THEOREM ExactForRegular == Spec => [](Regular(scn.text) => PromptAndExact)
<1>1. ASSUME IInv, TextInv, ExactInv, pc = "idle", status = "Enabled"
      PROVE  given = Content(Take(scn.text, Max(LineEnds(Take(scn.text, pos)))))
  <2>1. /\ scn.text \in Seq(Char) /\ Len(scn.text) \in Nat /\ pos \in Nat /\ pos <= Len(scn.text)
        /\ Seen \in Seq(Char) /\ Len(Seen) = pos /\ DOMAIN Seen = 1..pos
        /\ \A i \in 1..pos : Seen[i] = scn.text[i]
    <3>1. /\ scn.text \in Seq(Char) /\ Len(scn.text) \in Nat /\ pos \in Nat /\ pos <= Len(scn.text)
          /\ Seen \in Seq(Char)
      BY <1>1, SeenType DEF IInv
    <3>2. \A i \in 1..pos : scn.text[i] \in Char
      BY <3>1, ElementOfSeq
    <3>3. Len(Seen) = pos /\ \A i \in 1..pos : Seen[i] = scn.text[i]
      BY <3>1, <3>2, SubSeqProperties DEF Seen, Take
    <3> QED
      BY <3>1, <3>3, LenProperties
  <2> DEFINE E == LineEnds(Seen)
             M == Max(E)
  <2>2. E = {0} \cup {i \in 1..pos : scn.text[i].ch = "lf"}
    BY <2>1 DEF LineEnds
  <2>3. E \in SUBSET Nat /\ E \subseteq 0..pos
    BY <2>1, <2>2
  <2>4. \A i \in 0..pos : i \in LineEnds(scn.text) => i \in E
    <3>1. DOMAIN scn.text = 1..Len(scn.text)
      BY <2>1, LenProperties
    <3> QED
      BY <2>1, <2>2, <3>1 DEF LineEnds
  <2>5. given = Octets(crc) /\ st \in InArmor
    <3>1. st \notin {"Start", "Unknown", "Disabled"}
      BY <1>1 DEF ExactInv, StartInv, TextInv, GivenInv
    <3>2. st # "Fail"
      BY <1>1 DEF IInv, ControlInv, Outcome
    <3>3. st \in InArmor
      BY <1>1, <3>1, <3>2 DEF InArmor, IInv, TypeOK, States, Links
    <3>4. given \o out = Octets(crc) /\ out = <<>> /\ given \in Seq(Char)
      BY <1>1, <3>3 DEF TextInv, GivenInv, IInv, TypeOK
    <3> QED
      BY <3>3, <3>4, ConcatEmptySeq
  <2>6. CASE st # "TailFound"
    <3>1. st \in InLines /\ result = "Pending" /\ ~looping
      BY <1>1, <2>5, <2>6 DEF InLines, InArmor, IInv, ControlInv
    <3>2. PICK n : At(n) /\ HeldFrom(n)
      BY <1>1, <3>1 DEF ExactInv, ReadingInv
    <3>3. ~HasLine(Held)
      <4>1. in = <<>> /\ ~HasLine(buf) /\ buf \in Seq(Char)
        BY <1>1, <3>1 DEF ExactInv, WaitInv, IInv, TypeOK
      <4>2. Held = buf
        BY <4>1, ConcatEmptySeq DEF Held
      <4> QED
        BY <4>1, <4>2
    <3>4. n \in 0..pos /\ n \in E /\ Untailed(scn.text, n) /\ crc = Values(Take(scn.text, n))
      BY <2>4, <3>2 DEF At
    <3>5. ASSUME NEW i \in (n + 1)..pos, scn.text[i].ch = "lf" PROVE FALSE
      <4>1. /\ Held \in Seq(Char) /\ Len(Held) = pos - n /\ DOMAIN Held = 1..(pos - n)
            /\ \A j \in 1..(pos - n) : Held[j] = scn.text[n + j]
        <5>1. Held = SubSeq(scn.text, n + 1, pos) /\ pos \in 0..Len(scn.text)
          BY <2>1, <3>2 DEF HeldFrom
        <5>2. Held \in Seq(Char) /\ Len(Held) = pos - n /\ \A j \in 1..(pos - n) : Held[j] = scn.text[n + j]
          BY <2>1, <3>4, <5>1, PieceIs
        <5> QED
          BY <5>2, LenProperties
      <4>2. i - n \in 1..(pos - n) /\ n + (i - n) = i
        BY <2>1, <3>4
      <4>3. Held[i - n].ch = "lf" /\ i - n \in Ends(Held)
        BY <3>5, <4>1, <4>2 DEF Ends
      <4>4. LineEnd(Held) \in 1..(pos - n) /\ \A j \in 1..(LineEnd(Held) - 1) : Held[j].ch \notin {"cr", "lf"}
        BY <4>1, <4>3, LineEndIs
      <4>5. LineEnd(Held) <= i - n
        <5> SUFFICES ASSUME i - n < LineEnd(Held) PROVE FALSE
          BY <4>2, <4>4
        <5>1. i - n \in 1..(LineEnd(Held) - 1)
          BY <4>2, <4>4
        <5> QED
          BY <4>3, <4>4, <5>1
      <4>6. Held[LineEnd(Held)].ch = "cr" => LineEnd(Held) # i - n
        BY <4>3
      <4> QED
        BY <3>3, <4>1, <4>2, <4>3, <4>4, <4>5, <4>6 DEF HasLine
    <3>6. \A y \in E : y <= n
      <4> SUFFICES ASSUME NEW y \in E, y > n PROVE FALSE
        BY <2>3, <3>4
      <4>1. y \in (n + 1)..pos /\ scn.text[y].ch = "lf"
        BY <2>1, <2>2, <3>4
      <4> QED
        BY <3>5, <4>1
    <3> HIDE DEF E
    <3>7. M = n
      BY <2>3, <3>4, <3>6, MaxIs
    <3>8. Content(Take(scn.text, n)) = Octets(Values(Take(scn.text, n)))
      <4>1. n \in 0..Len(scn.text)
        BY <2>1, <3>4
      <4> QED
        BY <2>1, <3>4, <4>1, UntailedContent
    <3> QED
      BY <2>5, <3>4, <3>7, <3>8 DEF E, Seen
  <2>7. CASE st = "TailFound"
    <3>1. PICK n, m : /\ At(n) /\ scn.text[n + 1].ch = "tail"
                      /\ m \in (n + 1)..pos /\ m \in LineEnds(scn.text)
      BY <1>1, <2>7 DEF ExactInv, AtTailInv
    <3>2. n \in 0..pos /\ Untailed(scn.text, n) /\ crc = Values(Take(scn.text, n))
      BY <3>1 DEF At
    <3>3. m \in E
      <4>1. m \in 0..pos
        BY <2>1, <3>1, <3>2
      <4> QED
        BY <2>4, <3>1, <4>1
    <3> HIDE DEF E
    <3>4. M \in E /\ m <= M
      <4>1. \E x \in E : \A y \in E : y <= x
        BY <2>1, <2>3, <3>3, GreatestIs
      <4>2. PICK x \in E : \A y \in E : y <= x
        BY <4>1
      <4>3. M = x
        BY <2>3, <4>2, MaxIs
      <4> QED
        BY <3>3, <4>2, <4>3
    <3>5. M \in (n + 1)..Len(scn.text) /\ n \in 0..Len(scn.text)
      <4>1. M \in 0..pos
        BY <2>3, <3>4
      <4> HIDE DEF M
      <4> QED
        BY <2>1, <3>1, <3>2, <3>4, <4>1
    <3>6. Content(Take(scn.text, M)) = Octets(Values(Take(scn.text, n)))
      <4> HIDE DEF M
      <4> QED
        BY <2>1, <3>1, <3>2, <3>5, UntailedContent
    <3> QED
      BY <2>5, <3>2, <3>6 DEF E, Seen
  <2> QED
    BY <2>6, <2>7
<1>2. IInv /\ TextInv /\ (Regular(scn.text) => ExactInv) => (Regular(scn.text) => PromptAndExact)
  BY <1>1 DEF PromptAndExact
<1> QED
  BY <1>2, AlwaysInv, AlwaysText, AlwaysExact, PTL
===============================================================================
