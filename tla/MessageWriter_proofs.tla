-------------------------- MODULE MessageWriter_proofs --------------------------
(***************************************************************************)
(* Proofs about MessageWriter, for every payload, size of portions, step   *)
(* of the cipher, length of a line and cut into calls: its types, that the *)
(* armor does not show where the calls were, and what each writer of the   *)
(* chain has given for what it has taken.                                  *)
(***************************************************************************)
EXTENDS MessageWriter, SeqLemmas

-----------------------------------------------------------------------------
(* Types.  Cells are in as many layers as there are packets around them,   *)
(* so that no packet gets more layers than CellType has.                   *)

Within(d) == [depth : 0..d, kind : Kinds, val : Nat]
In(t)  == IF t = "SEIPD" THEN 1 ELSE 0
Out(t) == IF t = "LIT" THEN 0 ELSE In(t) + 1

WriterOK(t, w) ==
    w \in [header : BOOLEAN, first : BOOLEAN, in : Seq(Within(In(t))),
           out : Seq(Within(Out(t))), held : Seq(Within(0)), hashed : Seq(Within(1))]

DepthInv ==
    /\ \A t \in WriterTypes : WriterOK(t, writers[t])
    /\ pc = "running" /\ next < Len(Chain) => buf \in Seq(Within(In(Chain[next + 1])))

\* The size of a portion is a number.  Nothing but the powers themselves tells
\* the provers so.
LEMMA PowerIs ==
    ASSUME NEW p \in 0..30
    PROVE  2 ^ p \in Nat \ {0}
<1>1. CASE p \in 0..5
  <2>1. p = 0 \/ p = 1 \/ p = 2 \/ p = 3 \/ p = 4 \/ p = 5
    BY <1>1, SMT
  <2>2. /\ 2 ^ 0 \in Nat \ {0} /\ 2 ^ 1 \in Nat \ {0} /\ 2 ^ 2 \in Nat \ {0}
        /\ 2 ^ 3 \in Nat \ {0} /\ 2 ^ 4 \in Nat \ {0} /\ 2 ^ 5 \in Nat \ {0}
    BY SMT
  <2> QED
    BY <2>1, <2>2, Zenon
<1>2. CASE p \in 6..11
  <2>1. p = 6 \/ p = 7 \/ p = 8 \/ p = 9 \/ p = 10 \/ p = 11
    BY <1>2, SMT
  <2>2. /\ 2 ^ 6 \in Nat \ {0} /\ 2 ^ 7 \in Nat \ {0} /\ 2 ^ 8 \in Nat \ {0}
        /\ 2 ^ 9 \in Nat \ {0} /\ 2 ^ 10 \in Nat \ {0} /\ 2 ^ 11 \in Nat \ {0}
    BY SMT
  <2> QED
    BY <2>1, <2>2, Zenon
<1>3. CASE p \in 12..17
  <2>1. p = 12 \/ p = 13 \/ p = 14 \/ p = 15 \/ p = 16 \/ p = 17
    BY <1>3, SMT
  <2>2. /\ 2 ^ 12 \in Nat \ {0} /\ 2 ^ 13 \in Nat \ {0} /\ 2 ^ 14 \in Nat \ {0}
        /\ 2 ^ 15 \in Nat \ {0} /\ 2 ^ 16 \in Nat \ {0} /\ 2 ^ 17 \in Nat \ {0}
    BY SMT
  <2> QED
    BY <2>1, <2>2, Zenon
<1>4. CASE p \in 18..23
  <2>1. p = 18 \/ p = 19 \/ p = 20 \/ p = 21 \/ p = 22 \/ p = 23
    BY <1>4, SMT
  <2>2. /\ 2 ^ 18 \in Nat \ {0} /\ 2 ^ 19 \in Nat \ {0} /\ 2 ^ 20 \in Nat \ {0}
        /\ 2 ^ 21 \in Nat \ {0} /\ 2 ^ 22 \in Nat \ {0} /\ 2 ^ 23 \in Nat \ {0}
    BY SMT
  <2> QED
    BY <2>1, <2>2, Zenon
<1>5. CASE p \in 24..30
  <2>1. p = 24 \/ p = 25 \/ p = 26 \/ p = 27 \/ p = 28 \/ p = 29 \/ p = 30
    BY <1>5, SMT
  <2>2. /\ 2 ^ 24 \in Nat \ {0} /\ 2 ^ 25 \in Nat \ {0} /\ 2 ^ 26 \in Nat \ {0}
        /\ 2 ^ 27 \in Nat \ {0} /\ 2 ^ 28 \in Nat \ {0} /\ 2 ^ 29 \in Nat \ {0}
        /\ 2 ^ 30 \in Nat \ {0}
    BY SMT
  <2> QED
    BY <2>1, <2>2, Zenon
<1>6. p \in 0..5 \/ p \in 6..11 \/ p \in 12..17 \/ p \in 18..23 \/ p \in 24..30
  BY SMT
<1> QED
  BY <1>1, <1>2, <1>3, <1>4, <1>5, <1>6, Zenon

LEMMA PortionSize ==
    ASSUME cfg \in Configs
    PROVE  2 ^ cfg.power \in Nat \ {0}
<1>1. cfg.power \in 0..30
  BY WriterAssumption DEF WriterAssumption
<1> QED
  BY <1>1, PowerIs

\* What is taken and what is left of a sequence.
LEMMA TakeIs ==
    ASSUME NEW S, NEW s \in Seq(S), NEW n \in 0..Len(s)
    PROVE  /\ Take(s, n) \in Seq(S) /\ Len(Take(s, n)) = n
           /\ \A i \in 1..n : Take(s, n)[i] = s[i]
<1>1. Len(s) \in Nat /\ 0 \in 0..n /\ 0 + 1 = 1 /\ n - 0 = n /\ \A i \in 1..n : 0 + i = i
  BY LenProperties
<1>2. /\ SubSeq(s, 0 + 1, n) \in Seq(S) /\ Len(SubSeq(s, 0 + 1, n)) = n - 0
      /\ \A i \in 1..(n - 0) : SubSeq(s, 0 + 1, n)[i] = s[0 + i]
  BY <1>1, PieceIs
<1> QED
  BY <1>1, <1>2 DEF Take

LEMMA DropIs ==
    ASSUME NEW S, NEW s \in Seq(S), NEW n \in 0..Len(s)
    PROVE  /\ Drop(s, n) \in Seq(S) /\ Len(Drop(s, n)) = Len(s) - n
           /\ \A i \in 1..(Len(s) - n) : Drop(s, n)[i] = s[n + i]
<1>1. Len(s) \in Nat /\ Len(s) \in 0..Len(s) /\ n \in 0..Len(s)
  BY LenProperties
<1> QED
  BY <1>1, PieceIs DEF Drop

LEMMA TakeDrop ==
    ASSUME NEW S, NEW s \in Seq(S), NEW n \in 0..Len(s)
    PROVE  Take(s, n) \o Drop(s, n) = s
  BY PieceBoth DEF Take, Drop

LEMMA TakeNone ==
    ASSUME NEW s
    PROVE  Take(s, 0) = <<>>
  BY SubSeqEmpty DEF Take

\* Whole steps of a length are no more than it, and leave less than a step.
LEMMA WholeSteps ==
    ASSUME NEW n \in Nat, NEW k \in Nat \ {0}
    PROVE  /\ n \div k \in Nat /\ (n \div k) * k \in 0..n
           /\ n - (n \div k) * k \in 0..(k - 1)
<1>1. n \div k \in Nat /\ n = k * (n \div k) + (n % k) /\ n % k \in 0..(k - 1)
  OBVIOUS
<1> DEFINE q == n \div k
           r == n % k
<1>2. q \in Nat /\ r \in Nat /\ n = k * q + r /\ r <= k - 1
  BY <1>1
<1> HIDE DEF q, r
<1>3. k * q = q * k /\ q * k \in Nat
  BY <1>2
<1>4. q \in Nat /\ q * k \in 0..n /\ n - q * k \in 0..(k - 1)
  BY <1>2, <1>3
<1> QED
  BY <1>4 DEF q

-----------------------------------------------------------------------------
(* Types of the pieces.                                                    *)

LEMMA WithinGrows ==
    /\ \A t \in WriterTypes : In(t) \in 0..1 /\ Out(t) \in 0..2
    /\ \A d \in Nat : \A s \in Seq(Within(d)) : s \in Seq(Within(d + 1))
    /\ Within(2) = CellType
<1>1. ASSUME NEW d \in Nat, NEW s \in Seq(Within(d)) PROVE s \in Seq(Within(d + 1))
  <2>1. Within(d) \subseteq Within(d + 1)
    BY DEF Within
  <2> QED
    BY <2>1, SeqMonotonic
<1>2. Within(2) = CellType
  BY DEF Within, CellType
<1>3. \A t \in WriterTypes : In(t) \in 0..1 /\ Out(t) \in 0..2
  BY DEF In, Out
<1> QED
  BY <1>1, <1>2, <1>3

LEMMA WithinAll ==
    ASSUME NEW d \in 0..2, NEW s \in Seq(Within(d))
    PROVE  s \in Seq(CellType)
<1>1. Within(d) \subseteq CellType
  BY DEF Within, CellType
<1> QED
  BY <1>1, SeqMonotonic

LEMMA CellIs ==
    ASSUME NEW d \in Nat, NEW k \in Kinds, NEW v \in Nat
    PROVE  Cell(k, v) \in Within(d)
  BY DEF Cell, Within

LEMMA FillIs ==
    ASSUME NEW k \in Kinds, NEW n \in Nat, NEW d \in Nat
    PROVE  Fill(k, n) \in Seq(Within(d)) /\ Len(Fill(k, n)) = n
  BY CellIs DEF Fill

\* A layer is put around every cell.
LEMMA WrapIs ==
    ASSUME NEW d \in Nat, NEW s \in Seq(Within(d))
    PROVE  Wrap(s) \in Seq(Within(d + 1)) /\ Len(Wrap(s)) = Len(s)
<1>1. Len(s) \in Nat /\ DOMAIN s = 1..Len(s)
  BY LenProperties
<1>2. \A i \in 1..Len(s) : [s[i] EXCEPT !.depth = @ + 1] \in Within(d + 1)
  <2>1. ASSUME NEW c \in Within(d) PROVE [c EXCEPT !.depth = @ + 1] \in Within(d + 1)
    BY DEF Within
  <2> QED
    BY <2>1, ElementOfSeq
<1> QED
  BY <1>1, <1>2 DEF Wrap

LEMMA KindsAre ==
    /\ \A k \in {"LIT", "COMP", "SEIPD", "portion", "last", "ESK", "esk", "version", "prefix",
                 "tag", "sha", "algo", "eoz", "mode", "name", "data"} : k \in Kinds
    /\ WriterTypes \subseteq Kinds
  BY DEF Kinds, WriterTypes, Lengths

LEMMA OnceType ==
    ASSUME NEW S, NEW field \in Seq(S), NEW w
    PROVE  Once(w, field) \in Seq(S)
  BY DEF Once

\* Portions are cut off the front; what is left is shorter than one.
LEMMA BlocksType ==
    ASSUME cfg \in Configs, NEW d \in Nat, NEW s \in Seq(Within(d))
    PROVE  /\ PartialBlocks(s) \in Seq(Within(d)) /\ Unfinished(s) \in Seq(Within(d))
           /\ Len(Unfinished(s)) < 2 ^ cfg.power
<1> DEFINE P == 2 ^ cfg.power
           k == Len(s) \div P
           block(i) == <<Cell("portion", P)>> \o Take(Drop(s, (i - 1) * P), P)
<1>1. P \in Nat \ {0}
  BY PortionSize
<1>2. PartialBlocks(s) = FlattenSeq([i \in 1..k |-> block(i)]) /\ Unfinished(s) = Drop(s, k * P)
  BY DEF PartialBlocks, Unfinished, Portions, Portion
<1>3. Len(s) \in Nat
  BY LenProperties
<1> HIDE DEF P
<1>4. k \in Nat /\ k * P \in 0..Len(s) /\ Len(s) - k * P \in 0..(P - 1)
  BY <1>1, <1>3, WholeSteps
<1>5. Unfinished(s) \in Seq(Within(d)) /\ Len(Unfinished(s)) = Len(s) - k * P
  BY <1>2, <1>4, DropIs
<1>6. ASSUME NEW i \in 1..k PROVE block(i) \in Seq(Within(d))
  <2>1. (i - 1) * P \in 0..Len(s) /\ P \in 0..(Len(s) - (i - 1) * P)
    <3> HIDE DEF k
    <3>1. (i - 1) * P \in Nat /\ i * P = (i - 1) * P + P /\ i * P <= k * P /\ i * P \in Nat
      BY <1>1, <1>4
    <3> DEFINE a == (i - 1) * P
               b == i * P
               c == k * P
    <3>2. a \in Nat /\ b = a + P /\ b <= c /\ c <= Len(s) /\ c \in Nat /\ b \in Nat
      BY <1>4, <3>1
    <3> HIDE DEF a, b, c
    <3>3. a \in 0..Len(s) /\ P \in 0..(Len(s) - a)
      BY <1>1, <1>3, <3>2
    <3> QED
      BY <3>3 DEF a
  <2> DEFINE rest == Drop(s, (i - 1) * P)
  <2>2. rest \in Seq(Within(d)) /\ Len(rest) = Len(s) - (i - 1) * P
    BY <2>1, DropIs
  <2> HIDE DEF rest
  <2>3. Take(rest, P) \in Seq(Within(d))
    BY <2>1, <2>2, TakeIs
  <2>4. <<Cell("portion", P)>> \in Seq(Within(d))
    BY <1>1, CellIs, KindsAre
  <2> QED
    BY <2>3, <2>4, ConcatProperties DEF rest
<1>7. [i \in 1..k |-> block(i)] \in Seq(Seq(Within(d)))
  <2>1. k \in Nat
    BY <1>4
  <2> HIDE DEF k, block
  <2> QED
    BY <1>6, <2>1
<1>8. PartialBlocks(s) \in Seq(Within(d))
  BY <1>2, <1>7, FlattenType
<1> QED
  BY <1>1, <1>3, <1>4, <1>5, <1>8 DEF P

-----------------------------------------------------------------------------
(* Types of the writers.                                                   *)

LEMMA LitType ==
    ASSUME NEW w, WriterOK("LIT", w), NEW b \in WriteLIT(w)
    PROVE  WriterOK("LIT", b.w) /\ b.body \in Seq(Within(Out("LIT")))
<1> DEFINE field == <<Cell("mode", 0), Cell("name", 0)>>
<1>1. /\ b.w = [w EXCEPT !.first = FALSE, !.in = <<>>]
      /\ b.body = Once(w, field) \o w.in
  <2>1. b = [w    |-> [w EXCEPT !.first = FALSE, !.in = <<>>],
             body |-> Once(w, field) \o w.in]
    BY DEF WriteLIT, Body
  <2> QED
    BY <2>1
<1>2. w.in \in Seq(Within(0)) /\ <<>> \in Seq(Within(0))
  BY DEF WriterOK, In
<1>3. field \in Seq(Within(0))
  BY CellIs, KindsAre
<1> HIDE DEF field
<1>4. b.body \in Seq(Within(0))
  BY <1>1, <1>2, <1>3, OnceType, ConcatProperties
<1> QED
  BY <1>1, <1>2, <1>4 DEF WriterOK, In, Out

LEMMA CompType ==
    ASSUME NEW w, WriterOK("COMP", w), NEW done \in BOOLEAN, NEW b \in WriteCOMP(w, done)
    PROVE  WriterOK("COMP", b.w) /\ b.body \in Seq(Within(Out("COMP")))
<1> DEFINE held == w.held \o w.in
<1>1. PICK z \in Deflate(held, done) :
         /\ b.w = [w EXCEPT !.first = FALSE, !.in = <<>>, !.held = z.held]
         /\ b.body = Once(w, <<Cell("algo", 0)>>) \o Wrap(z.out)
  <2>1. PICK z \in Deflate(held, done) :
           b = [w    |-> [w EXCEPT !.first = FALSE, !.in = <<>>, !.held = z.held],
                body |-> Once(w, <<Cell("algo", 0)>>) \o Wrap(z.out)]
    BY DEF WriteCOMP, Body
  <2> QED
    BY <2>1
<1>2. held \in Seq(Within(0)) /\ <<>> \in Seq(Within(0))
  BY ConcatProperties DEF WriterOK, In
<1> HIDE DEF held
<1>3. z.out \in Seq(Within(0)) /\ z.held \in Seq(Within(0))
  <2>1. CASE done
    <3>1. Append(held, Cell("eoz", 0)) \in Seq(Within(0))
      BY <1>2, CellIs, KindsAre, AppendProperties
    <3>2. z = [out |-> Append(held, Cell("eoz", 0)), held |-> <<>>]
      BY <2>1 DEF Deflate
    <3> QED
      BY <1>2, <3>1, <3>2
  <2>2. CASE ~done
    <3>1. PICK n \in {0, Len(held)} : z = [out |-> Take(held, n), held |-> Drop(held, n)]
      BY <2>2 DEF Deflate
    <3>2. n \in 0..Len(held)
      BY <1>2, LenProperties
    <3> QED
      BY <1>2, <3>1, <3>2, TakeIs, DropIs
  <2> QED
    BY <2>1, <2>2
<1>4. Wrap(z.out) \in Seq(Within(1))
  BY <1>3, WrapIs
<1>5. <<Cell("algo", 0)>> \in Seq(Within(1))
  BY CellIs, KindsAre
<1>6. b.body \in Seq(Within(1))
  <2>1. Once(w, <<Cell("algo", 0)>>) \in Seq(Within(1))
    BY <1>5, OnceType
  <2> QED
    BY <1>1, <1>4, <2>1, ConcatProperties
<1>7. WriterOK("COMP", b.w)
  BY <1>1, <1>2, <1>3 DEF WriterOK, In, Out
<1> QED
  BY <1>6, <1>7 DEF In, Out

LEMMA EncryptableIs ==
    ASSUME NEW n \in Nat, NEW done \in BOOLEAN
    PROVE  /\ Encryptable(n, done) \in 0..n
           /\ done => Encryptable(n, done) = n
           /\ n - Encryptable(n, done) < Gran
<1>1. Gran \in Nat \ {0}
  BY WriterAssumption DEF WriterAssumption
<1>2. (n \div Gran) * Gran \in 0..n /\ n - (n \div Gran) * Gran \in 0..(Gran - 1)
  BY <1>1, WholeSteps
<1> DEFINE m == (n \div Gran) * Gran
<1>3. m \in 0..n /\ n - m \in 0..(Gran - 1) /\ Encryptable(n, done) = IF done THEN n ELSE m
  BY <1>2 DEF Encryptable
<1> HIDE DEF m
<1> QED
  BY <1>1, <1>3

LEMMA MDCType == MDC \in Seq(Within(1)) /\ Len(MDC) = MDCLen
<1>1. MDCLen \in Nat \ {0}
  BY WriterAssumption DEF WriterAssumption
<1>2. <<Cell("tag", 0)>> \in Seq(Within(1)) /\ Len(<<Cell("tag", 0)>>) = 1
  BY CellIs, KindsAre
<1>3. Fill("sha", MDCLen - 1) \in Seq(Within(1)) /\ Len(Fill("sha", MDCLen - 1)) = MDCLen - 1
  BY <1>1, FillIs, KindsAre
<1> QED
  BY <1>1, <1>2, <1>3, ConcatProperties DEF MDC

LEMMA SeipdType ==
    ASSUME NEW w, WriterOK("SEIPD", w), NEW done \in BOOLEAN, NEW b \in WriteSEIPD(w, done)
    PROVE  WriterOK("SEIPD", b.w) /\ b.body \in Seq(Within(Out("SEIPD")))
<1> DEFINE n     == Encryptable(Len(w.in), done)
           plain == Take(w.in, n)
           rest  == Drop(w.in, n)
           hash  == w.hashed \o plain
           body  == IF done THEN plain \o MDC ELSE plain
<1>1. /\ b.w = [w EXCEPT !.first = FALSE, !.in = rest,
                         !.hashed = IF done THEN Digest(hash) ELSE hash]
      /\ b.body = Once(w, <<Cell("version", 0)>>) \o Wrap(body)
  <2>1. b = [w    |-> [w EXCEPT !.first = FALSE, !.in = rest,
                                !.hashed = IF done THEN Digest(hash) ELSE hash],
             body |-> Once(w, <<Cell("version", 0)>>) \o Wrap(body)]
    BY DEF WriteSEIPD, Body
  <2> QED
    BY <2>1
<1>2. w.in \in Seq(Within(1)) /\ w.hashed \in Seq(Within(1))
  BY DEF WriterOK, In
<1>3. n \in 0..Len(w.in)
  BY <1>2, EncryptableIs, LenProperties
<1>4. plain \in Seq(Within(1)) /\ rest \in Seq(Within(1))
  BY <1>2, <1>3, TakeIs, DropIs
<1> HIDE DEF n, plain, rest
<1>5. hash \in Seq(Within(1)) /\ body \in Seq(Within(1))
  BY <1>2, <1>4, MDCType, ConcatProperties
<1> HIDE DEF hash, body
<1>6. Digest(hash) \in Seq(Within(1))
  <2>1. Cell("tag", 0) \in Within(1)
    BY CellIs, KindsAre
  <2> QED
    BY <1>5, <2>1, AppendProperties DEF Digest
<1>7. Wrap(body) \in Seq(Within(2))
  BY <1>5, WrapIs
<1>8. <<Cell("version", 0)>> \in Seq(Within(2))
  BY CellIs, KindsAre
<1>9. b.body \in Seq(Within(2))
  <2>1. Once(w, <<Cell("version", 0)>>) \in Seq(Within(2))
    BY <1>8, OnceType
  <2> QED
    BY <1>1, <1>7, <2>1, ConcatProperties
<1>10. (IF done THEN Digest(hash) ELSE hash) \in Seq(Within(1))
  BY <1>5, <1>6
<1>11. WriterOK("SEIPD", b.w)
  BY <1>1, <1>4, <1>10 DEF WriterOK, In, Out
<1> QED
  BY <1>9, <1>11 DEF In, Out

LEMMA DoWriteType ==
    ASSUME NEW t \in WriterTypes, NEW w, WriterOK(t, w), NEW done \in BOOLEAN,
           NEW b \in DoWrite(t, w, done)
    PROVE  WriterOK(t, b.w) /\ b.body \in Seq(Within(Out(t)))
<1>1. CASE t = "LIT"
  BY <1>1, LitType DEF DoWrite
<1>2. CASE t = "COMP"
  BY <1>2, CompType DEF DoWrite
<1>3. CASE t = "SEIPD"
  BY <1>3, SeipdType DEF DoWrite
<1> QED
  BY <1>1, <1>2, <1>3 DEF WriterTypes

\* What goes through out_ leaves less than a portion there.
LEMMA EmitType ==
    ASSUME cfg \in Configs, NEW t \in WriterTypes, NEW w, WriterOK(t, w),
           NEW body \in Seq(Within(Out(t)))
    PROVE  /\ WriterOK(t, Emit(w, body).w) /\ Emit(w, body).out \in Seq(Within(Out(t)))
           /\ Len(Emit(w, body).w.out) < 2 ^ cfg.power
<1> DEFINE all == w.out \o body
<1>1. Out(t) \in Nat
  BY WithinGrows
<1>2. all \in Seq(Within(Out(t)))
  BY ConcatProperties DEF WriterOK
<1> HIDE DEF all
<1>3. /\ PartialBlocks(all) \in Seq(Within(Out(t))) /\ Unfinished(all) \in Seq(Within(Out(t)))
      /\ Len(Unfinished(all)) < 2 ^ cfg.power
  BY <1>1, <1>2, BlocksType
<1>4. Emit(w, body) = [w |-> [w EXCEPT !.out = Unfinished(all)], out |-> PartialBlocks(all)]
  BY DEF Emit, all
<1>5. /\ Emit(w, body).w = [w EXCEPT !.out = Unfinished(all)]
      /\ Emit(w, body).out = PartialBlocks(all)
  BY <1>4
<1>6. Emit(w, body).w.out = Unfinished(all)
  BY <1>5 DEF WriterOK
<1>7. WriterOK(t, Emit(w, body).w)
  BY <1>3, <1>5 DEF WriterOK
<1> QED
  BY <1>3, <1>5, <1>6, <1>7

LEMMA WriteType ==
    ASSUME cfg \in Configs, NEW t \in WriterTypes, NEW w, WriterOK(t, w), NEW r \in Write(t, w)
    PROVE  /\ WriterOK(t, r.w) /\ r.out \in Seq(Within(Out(t)))
           /\ Len(r.w.out) < 2 ^ cfg.power
<1>1. PICK b \in DoWrite(t, w, FALSE) :
         LET e == Emit([b.w EXCEPT !.header = FALSE], b.body)
         IN  r = [w |-> e.w, out |-> PacketHeader(t, w) \o e.out]
  BY DEF Write
<1> DEFINE v == [b.w EXCEPT !.header = FALSE]
           e == Emit(v, b.body)
<1>2. WriterOK(t, b.w) /\ b.body \in Seq(Within(Out(t)))
  BY DoWriteType
<1>3. WriterOK(t, v)
  BY <1>2 DEF WriterOK
<1> HIDE DEF v
<1>4. WriterOK(t, e.w) /\ e.out \in Seq(Within(Out(t))) /\ Len(e.w.out) < 2 ^ cfg.power
  BY <1>2, <1>3, EmitType
<1>5. r.w = e.w /\ r.out = PacketHeader(t, w) \o e.out
  BY <1>1 DEF v
<1> HIDE DEF e
<1>6. PacketHeader(t, w) \in Seq(Within(Out(t)))
  <2>1. Cell(t, 0) \in Within(Out(t))
    BY CellIs, KindsAre, WithinGrows
  <2> QED
    BY <2>1 DEF PacketHeader
<1>7. r.out \in Seq(Within(Out(t)))
  BY <1>4, <1>5, <1>6, ConcatProperties
<1> QED
  BY <1>4, <1>5, <1>7, Zenon

LEMMA FinishType ==
    ASSUME cfg \in Configs, NEW t \in WriterTypes, NEW w, WriterOK(t, w), NEW r \in Finish(t, w)
    PROVE  /\ WriterOK(t, r.w) /\ r.out \in Seq(Within(Out(t)))
           /\ Len(r.w.out) < 2 ^ cfg.power
<1>1. PICK u \in Write(t, w) :
         \E b \in DoWrite(t, u.w, TRUE) :
            LET e == Emit(b.w, b.body)
            IN  r = [w   |-> [e.w EXCEPT !.out = <<>>],
                     out |-> u.out \o e.out \o LastPortion(e.w.out)]
  BY DEF Finish
<1>0. PICK b \in DoWrite(t, u.w, TRUE) :
         LET e == Emit(b.w, b.body)
         IN  r = [w   |-> [e.w EXCEPT !.out = <<>>],
                  out |-> u.out \o e.out \o LastPortion(e.w.out)]
  BY <1>1
<1>2. WriterOK(t, u.w) /\ u.out \in Seq(Within(Out(t)))
  BY WriteType
<1>3. WriterOK(t, b.w) /\ b.body \in Seq(Within(Out(t)))
  BY <1>2, DoWriteType
<1> DEFINE e == Emit(b.w, b.body)
<1>4. WriterOK(t, e.w) /\ e.out \in Seq(Within(Out(t)))
  BY <1>3, EmitType
<1>5. r.w = [e.w EXCEPT !.out = <<>>] /\ r.out = u.out \o e.out \o LastPortion(e.w.out)
  BY <1>0
<1> HIDE DEF e
<1>6. WriterOK(t, r.w) /\ r.w.out = <<>>
  <2>1. <<>> \in Seq(Within(Out(t)))
    OBVIOUS
  <2> QED
    BY <1>4, <1>5, <2>1 DEF WriterOK
<1>7. LastPortion(e.w.out) \in Seq(Within(Out(t)))
  <2>1. e.w.out \in Seq(Within(Out(t))) /\ Len(e.w.out) \in Nat
    BY <1>4, LenProperties DEF WriterOK
  <2>2. <<Cell("last", Len(e.w.out))>> \in Seq(Within(Out(t)))
    BY <2>1, CellIs, KindsAre, WithinGrows
  <2> QED
    BY <2>1, <2>2, ConcatProperties DEF LastPortion
<1>8. r.out \in Seq(Within(Out(t)))
  <2>1. u.out \o e.out \in Seq(Within(Out(t)))
    BY <1>2, <1>4, ConcatProperties
  <2> QED
    BY <1>5, <1>7, <2>1, ConcatProperties
<1>9. Len(r.w.out) < 2 ^ cfg.power
  <2>1. Len(r.w.out) = 0
    BY <1>6
  <2>2. 2 ^ cfg.power \in Nat \ {0}
    BY PortionSize
  <2> DEFINE P == 2 ^ cfg.power
  <2>3. P \in Nat \ {0}
    BY <2>2
  <2> HIDE DEF P
  <2>4. 0 < P
    BY <2>3
  <2> QED
    BY <2>1, <2>4 DEF P
<1> QED
  BY <1>6, <1>8, <1>9

-----------------------------------------------------------------------------
(* Arithmetic of lines and blocks.                                         *)

\* A number is a quotient and a remainder in one way only.
LEMMA OneQuotient ==
    ASSUME NEW k \in Nat \ {0}, NEW q \in Int, NEW r \in 0..(k - 1), NEW n \in Int,
           n = k * q + r
    PROVE  n \div k = q /\ n % k = r
<1> DEFINE u == n \div k
           v == n % k
<1>1. u \in Int /\ v \in 0..(k - 1) /\ n = k * u + v
  OBVIOUS
<1> HIDE DEF u, v
<1>2. k * u + v = k * q + r
  BY <1>1
<1>3. CASE u > q
  <2>1. k * u >= k * q + k
    <3>1. k * u - k * q = k * (u - q) /\ u - q >= 1
      BY <1>1, <1>3
    <3> DEFINE d == u - q
    <3>2. d \in Nat /\ d >= 1
      BY <1>1, <1>3
    <3> HIDE DEF d
    <3>3. k * d >= k
      BY <3>2
    <3>4. k * u \in Int /\ k * q \in Int /\ k * d \in Int
      BY <1>1, <3>2
    <3> QED
      BY <3>1, <3>3, <3>4 DEF d
  <2>2. k * u \in Int /\ k * q \in Int
    BY <1>1
  <2> QED
    BY <1>1, <1>2, <2>1, <2>2
<1>4. CASE u < q
  <2>1. k * q >= k * u + k
    <3>1. k * q - k * u = k * (q - u) /\ q - u >= 1
      BY <1>1, <1>4
    <3> DEFINE d == q - u
    <3>2. d \in Nat /\ d >= 1
      BY <1>1, <1>4
    <3> HIDE DEF d
    <3>3. k * d >= k
      BY <3>2
    <3>4. k * u \in Int /\ k * q \in Int /\ k * d \in Int
      BY <1>1, <3>2
    <3> QED
      BY <3>1, <3>3, <3>4 DEF d
  <2>2. k * u \in Int /\ k * q \in Int
    BY <1>1
  <2> QED
    BY <1>1, <1>2, <2>1, <2>2
<1>5. u = q /\ v = r
  BY <1>1, <1>2, <1>3, <1>4
<1> QED
  BY <1>5 DEF u, v

\* Multiples change the quotient and not the remainder.
LEMMA AddMultiple ==
    ASSUME NEW k \in Nat \ {0}, NEW q \in Int, NEW y \in Int
    PROVE  (k * q + y) \div k = q + (y \div k) /\ (k * q + y) % k = y % k
<1> DEFINE u == y \div k
           v == y % k
           n == k * q + y
<1>1. u \in Int /\ v \in 0..(k - 1) /\ y = k * u + v
  OBVIOUS
<1> HIDE DEF u, v
<1>2. n = k * (q + u) + v /\ q + u \in Int /\ n \in Int
  BY <1>1
<1> HIDE DEF n
<1>3. n \div k = q + u /\ n % k = v
  BY <1>1, <1>2, OneQuotient
<1> QED
  BY <1>3 DEF n, u, v

\* How many blocks some octets take.
BlockCount(n) == (n + BlockLen - 1) \div BlockLen
LEMMA BlockCountIs ==
    ASSUME NEW n \in Nat
    PROVE  /\ BlockCount(n) \in Nat
           /\ n <= BlockCount(n) * BlockLen
           /\ BlockCount(n) * BlockLen < n + BlockLen
<1>1. BlockLen \in Nat \ {0}
  BY ArmorAssumption
<1> DEFINE m == n + BlockLen - 1
           q == m \div BlockLen
           r == m % BlockLen
<1>2. m \in Nat
  BY <1>1
<1>3. q \in Nat /\ r \in 0..(BlockLen - 1) /\ m = BlockLen * q + r
  <2> HIDE DEF m
  <2> QED
    BY <1>1, <1>2
<1> HIDE DEF q, r
<1>4. BlockLen * q = q * BlockLen /\ q * BlockLen \in Nat
  BY <1>1, <1>3
<1>5. q \in Nat /\ n <= q * BlockLen /\ q * BlockLen < n + BlockLen
  BY <1>1, <1>3, <1>4
<1> QED
  BY <1>5 DEF q, BlockCount

LEMMA BlockCountAdd ==
    ASSUME NEW k \in Nat, NEW n \in Nat
    PROVE  BlockCount(k * BlockLen + n) = k + BlockCount(n)
<1>1. BlockLen \in Nat \ {0}
  BY ArmorAssumption
<1>2. (k * BlockLen + n) + BlockLen - 1 = BlockLen * k + (n + BlockLen - 1)
  <2>1. k * BlockLen = BlockLen * k /\ k * BlockLen \in Nat
    BY <1>1
  <2> QED
    BY <1>1, <2>1
<1> DEFINE y == n + BlockLen - 1
<1>3. y \in Int
  BY <1>1
<1> HIDE DEF y
<1>4. (BlockLen * k + y) \div BlockLen = k + (y \div BlockLen)
  BY <1>1, <1>3, AddMultiple
<1> QED
  BY <1>2, <1>4 DEF BlockCount, y

\* What is free in the last line: some place, counted on from call to call.
LEMMA SlotsIs ==
    ASSUME NEW slots \in 1..LineBlocks, NEW n \in Nat
    PROVE  /\ Slots(slots, n) \in 1..LineBlocks
           /\ \E q \in Nat : n - slots = LineBlocks * q - Slots(slots, n)
<1>1. LineBlocks \in Nat \ {0}
  BY ArmorAssumption
<1> DEFINE x == LineBlocks - slots + n
           q == x \div LineBlocks
           r == x % LineBlocks
<1>2. x \in Nat
  BY <1>1
<1>3. q \in Nat /\ r \in 0..(LineBlocks - 1) /\ x = LineBlocks * q + r
  <2> HIDE DEF x
  <2> QED
    BY <1>1, <1>2
<1>4. Slots(slots, n) = LineBlocks - r
  BY DEF Slots
<1> HIDE DEF q, r
<1>5. LineBlocks * q \in Nat
  BY <1>1, <1>3
<1>6. n - slots = LineBlocks * q - (LineBlocks - r)
  BY <1>1, <1>3, <1>5
<1>7. LineBlocks - r \in 1..LineBlocks
  BY <1>1, <1>3
<1> QED
  BY <1>3, <1>4, <1>6, <1>7

\* A line ends behind a block that is counted from the last call as it does
\* counted from all of them.
LEMMA SlotsLater ==
    ASSUME NEW slots \in 1..LineBlocks, NEW n \in Nat, NEW j \in Nat \ {0}
    PROVE  (n + j >= slots /\ ((n + j) - slots) % LineBlocks = 0)
             <=> (j >= Slots(slots, n) /\ (j - Slots(slots, n)) % LineBlocks = 0)
<1> DEFINE later == Slots(slots, n)
           y == j - later
<1>1. LineBlocks \in Nat \ {0}
  BY ArmorAssumption
<1>2. later \in 1..LineBlocks
  BY SlotsIs
<1>3. PICK q \in Nat : n - slots = LineBlocks * q - later
  BY SlotsIs
<1> HIDE DEF later
<1>4. q \in Int /\ LineBlocks * q \in Nat /\ y \in Int /\ y > - LineBlocks
  BY <1>1, <1>2
<1>5. n + j - slots = LineBlocks * q + y
  BY <1>2, <1>3, <1>4
<1>6. (LineBlocks * q + y) % LineBlocks = y % LineBlocks
  <2> HIDE DEF y
  <2> QED
    BY <1>1, <1>4, AddMultiple
<1>7. CASE y >= 0
  <2>1. n + j >= slots /\ j >= later
    BY <1>2, <1>4, <1>5, <1>7
  <2> QED
    BY <1>5, <1>6, <2>1 DEF later
<1>8. CASE y < 0
  <2>1. ~(j >= later)
    BY <1>2, <1>8
  <2>2. y % LineBlocks # 0
    <3> DEFINE r == LineBlocks + y
    <3>1. r \in 0..(LineBlocks - 1) /\ r # 0 /\ y = LineBlocks * (-1) + r
      BY <1>1, <1>4, <1>8
    <3> HIDE DEF y, r
    <3>2. y % LineBlocks = r
      BY <1>1, <1>4, <3>1, OneQuotient
    <3> QED
      BY <3>1, <3>2
  <2> QED
    BY <1>5, <1>6, <2>1, <2>2 DEF later
<1> QED
  BY <1>4, <1>7, <1>8

LEMMA SlotsAdd ==
    ASSUME NEW slots \in 1..LineBlocks, NEW m \in Nat, NEW n \in Nat
    PROVE  Slots(Slots(slots, m), n) = Slots(slots, m + n)
<1> DEFINE s1 == Slots(slots, m)
<1>1. LineBlocks \in Nat \ {0}
  BY ArmorAssumption
<1>2. s1 \in 1..LineBlocks
  BY SlotsIs
<1>3. PICK q \in Nat : m - slots = LineBlocks * q - s1
  BY SlotsIs
<1> HIDE DEF s1
<1> DEFINE y == LineBlocks - s1 + n
<1>4. y \in Int /\ q \in Int /\ LineBlocks * q \in Nat
  BY <1>1, <1>2
<1>5. LineBlocks - slots + (m + n) = LineBlocks * q + y
  BY <1>1, <1>2, <1>3, <1>4
<1> HIDE DEF y
<1>6. (LineBlocks * q + y) % LineBlocks = y % LineBlocks
  BY <1>1, <1>4, AddMultiple
<1> QED
  BY <1>5, <1>6 DEF Slots, s1, y

-----------------------------------------------------------------------------
(* Blocks of octets.                                                       *)

LEMMA MinOf ==
    ASSUME NEW a \in Nat, NEW b \in Nat
    PROVE  Min({a, b}) = IF a <= b THEN a ELSE b
<1>1. {a, b} \in SUBSET Nat /\ {a, b} # {}
  OBVIOUS
<1>2. Min({a, b}) \in {a, b} /\ \A y \in {a, b} : Min({a, b}) <= y
  BY <1>1, MinIs
<1> QED
  BY <1>2

\* Where the first i blocks of n octets end.
BlockEnd(n, i) == IF i * BlockLen <= n THEN i * BlockLen ELSE n

LEMMA BlockEndIs ==
    ASSUME NEW n \in Nat, NEW i \in 1..BlockCount(n)
    PROVE  /\ (i - 1) * BlockLen = BlockEnd(n, i - 1)
           /\ BlockEnd(n, i) \in 0..n /\ BlockEnd(n, i - 1) \in 0..BlockEnd(n, i)
           /\ BlockEnd(n, i) = Min({i * BlockLen, n})
           /\ i < BlockCount(n) => BlockEnd(n, i) - BlockEnd(n, i - 1) = BlockLen
<1> DEFINE k == BlockCount(n)
           a == (i - 1) * BlockLen
           b == i * BlockLen
           c == k * BlockLen
<1>1. BlockLen \in Nat \ {0} /\ k \in Nat /\ c < n + BlockLen
  BY ArmorAssumption, BlockCountIs
<1>2. i \in Nat /\ i <= k
  BY <1>1
<1> HIDE DEF k
<1>3. a \in Nat /\ b = a + BlockLen /\ b \in Nat /\ c \in Nat
  BY <1>1, <1>2
<1>4. b <= c
  BY <1>1, <1>2
<1>5. i < k => b + BlockLen <= c
  <2>1. SUFFICES ASSUME i < k PROVE b + BlockLen <= c
    OBVIOUS
  <2>2. (i + 1) * BlockLen <= k * BlockLen /\ (i + 1) * BlockLen = b + BlockLen
    BY <1>1, <1>2, <2>1
  <2> QED
    BY <2>2
<1>6. BlockEnd(n, i) = (IF b <= n THEN b ELSE n) /\ BlockEnd(n, i - 1) = IF a <= n THEN a ELSE n
  BY DEF BlockEnd
<1>7. Min({b, n}) = IF b <= n THEN b ELSE n
  BY <1>3, MinOf
<1> HIDE DEF a, b, c
<1>8. a <= n /\ (i < k => b <= n)
  BY <1>1, <1>3, <1>4, <1>5
<1>9. /\ a = BlockEnd(n, i - 1)
      /\ BlockEnd(n, i) \in 0..n /\ BlockEnd(n, i - 1) \in 0..BlockEnd(n, i)
      /\ BlockEnd(n, i) = Min({b, n})
      /\ i < k => BlockEnd(n, i) - BlockEnd(n, i - 1) = BlockLen
  BY <1>1, <1>3, <1>6, <1>7, <1>8
<1> QED
  BY <1>9 DEF a, b, k

\* A block is the octets between two ends.
LEMMA BlocksAre ==
    ASSUME NEW s \in Seq(CellType)
    PROVE  /\ Blocks(s) \in Seq(TextType) /\ Len(Blocks(s)) = BlockCount(Len(s))
           /\ \A i \in 1..BlockCount(Len(s)) :
                 /\ Blocks(s)[i].kind = "block"
                 /\ Blocks(s)[i].octets
                      = SubSeq(s, BlockEnd(Len(s), i - 1) + 1, BlockEnd(Len(s), i))
                 /\ i < BlockCount(Len(s)) => Len(Blocks(s)[i].octets) = BlockLen
<1> DEFINE n == Len(s)
           k == BlockCount(n)
           piece(i) == SubSeq(s, BlockEnd(n, i - 1) + 1, BlockEnd(n, i))
           block(i) == Text("block", piece(i))
<1>1. n \in Nat /\ k \in Nat
  BY LenProperties, BlockCountIs
<1>2. ASSUME NEW i \in 1..k
      PROVE  /\ Text("block", SubSeq(s, (i - 1) * BlockLen + 1, Min({i * BlockLen, n}))) = block(i)
             /\ piece(i) \in Seq(CellType)
             /\ i < k => Len(piece(i)) = BlockLen
  <2>1. /\ (i - 1) * BlockLen = BlockEnd(n, i - 1)
        /\ BlockEnd(n, i) \in 0..n /\ BlockEnd(n, i - 1) \in 0..BlockEnd(n, i)
        /\ BlockEnd(n, i) = Min({i * BlockLen, n})
        /\ i < k => BlockEnd(n, i) - BlockEnd(n, i - 1) = BlockLen
    BY <1>1, BlockEndIs
  <2>2. piece(i) \in Seq(CellType) /\ Len(piece(i)) = BlockEnd(n, i) - BlockEnd(n, i - 1)
    BY <2>1, PieceIs, ZenonT(60)
  <2> QED
    BY <2>1, <2>2
<1>3. Blocks(s) = [i \in 1..k |-> block(i)]
  <2>1. Blocks(s) = [i \in 1..k |->
           Text("block", SubSeq(s, (i - 1) * BlockLen + 1, Min({i * BlockLen, n})))]
    BY DEF Blocks, BlockCount
  <2> QED
    BY <1>2, <2>1
<1> HIDE DEF n, k, piece
<1>4. \A i \in 1..k : block(i) \in TextType /\ block(i).kind = "block" /\ block(i).octets = piece(i)
  BY <1>2 DEF Text, TextType
<1> HIDE DEF block
<1>5. /\ Blocks(s) \in Seq(TextType) /\ Len(Blocks(s)) = k
      /\ \A i \in 1..k : Blocks(s)[i] = block(i)
  BY <1>1, <1>3, <1>4
<1>6. \A i \in 1..k : /\ Blocks(s)[i].kind = "block" /\ Blocks(s)[i].octets = piece(i)
                      /\ i < k => Len(Blocks(s)[i].octets) = BlockLen
  BY <1>2, <1>4, <1>5
<1> QED
  BY <1>5, <1>6 DEF n, k, piece

\* What follows whole blocks has blocks of its own.
LEMMA BlocksConcat ==
    ASSUME NEW s \in Seq(CellType), NEW t \in Seq(CellType), NEW k \in Nat,
           Len(s) = k * BlockLen
    PROVE  Blocks(s \o t) = Blocks(s) \o Blocks(t) /\ Len(Blocks(s)) = k
<1> DEFINE st == s \o t
           m  == Len(s)
           n  == Len(t)
           j  == BlockCount(n)
<1>1. BlockLen \in Nat \ {0} /\ m \in Nat /\ n \in Nat /\ j \in Nat
  BY ArmorAssumption, LenProperties, BlockCountIs
<1>2. st \in Seq(CellType) /\ Len(st) = m + n
  BY ConcatProperties
<1>3. BlockCount(m) = k /\ BlockCount(m + n) = k + j
  <2>1. BlockCount(k * BlockLen + n) = k + BlockCount(n)
    BY <1>1, BlockCountAdd
  <2>2. BlockCount(k * BlockLen + 0) = k + BlockCount(0)
    BY BlockCountAdd
  <2>3. BlockCount(0) = 0
    <3>1. (0 + BlockLen - 1) \div BlockLen = 0
      <4>1. BlockLen - 1 \in 0..(BlockLen - 1) /\ 0 + BlockLen - 1 = BlockLen * 0 + (BlockLen - 1)
            /\ 0 + BlockLen - 1 \in Int
        BY <1>1
      <4> QED
        BY <1>1, <4>1, OneQuotient
    <3> QED
      BY <3>1 DEF BlockCount
  <2>4. k * BlockLen + 0 = k * BlockLen
    BY <1>1
  <2> QED
    BY <2>1, <2>2, <2>3, <2>4
<1> HIDE DEF st, j
<1>4. /\ Blocks(s) \in Seq(TextType) /\ Len(Blocks(s)) = k
      /\ Blocks(t) \in Seq(TextType) /\ Len(Blocks(t)) = j
      /\ Blocks(st) \in Seq(TextType) /\ Len(Blocks(st)) = k + j
  BY <1>2, <1>3, BlocksAre DEF j
<1> DEFINE both == Blocks(s) \o Blocks(t)
<1>5. both \in Seq(TextType) /\ Len(both) = k + j
      /\ \A i \in 1..(k + j) : both[i] = IF i <= k THEN Blocks(s)[i] ELSE Blocks(t)[i - k]
  BY <1>4, ConcatProperties
<1> HIDE DEF both
<1>6. \A u \in Seq(CellType) : \A i \in 1..BlockCount(Len(u)) :
         Blocks(u)[i] = Text("block", SubSeq(u, BlockEnd(Len(u), i - 1) + 1, BlockEnd(Len(u), i)))
  <2>1. ASSUME NEW u \in Seq(CellType), NEW i \in 1..BlockCount(Len(u))
        PROVE  Blocks(u)[i]
                 = Text("block", SubSeq(u, BlockEnd(Len(u), i - 1) + 1, BlockEnd(Len(u), i)))
    <3>1. BlockCount(Len(u)) \in Nat /\ Len(u) \in Nat
      BY LenProperties, BlockCountIs
    <3>2. /\ (i - 1) * BlockLen = BlockEnd(Len(u), i - 1)
          /\ BlockEnd(Len(u), i) = Min({i * BlockLen, Len(u)})
      BY <3>1, BlockEndIs
    <3>3. Blocks(u)[i] = Text("block", SubSeq(u, (i - 1) * BlockLen + 1,
                                              Min({i * BlockLen, Len(u)})))
      BY DEF Blocks, BlockCount
    <3> QED
      BY <3>2, <3>3
  <2> QED
    BY <2>1
<1>7. ASSUME NEW i \in 1..(k + j) PROVE Blocks(st)[i] = both[i]
  <2>1. Blocks(st)[i] = Text("block", SubSeq(st, BlockEnd(m + n, i - 1) + 1, BlockEnd(m + n, i)))
    BY <1>2, <1>3, <1>6
  <2>2. CASE i <= k
    <3>1. i \in 1..k /\ i - 1 \in 0..k
      BY <2>2
    <3>2. both[i] = Text("block", SubSeq(s, BlockEnd(m, i - 1) + 1, BlockEnd(m, i)))
      BY <1>3, <1>5, <1>6, <2>2, <3>1
    <3>3. /\ BlockEnd(m, i) \in 0..m /\ BlockEnd(m, i - 1) \in 0..BlockEnd(m, i)
      BY <1>1, <1>3, <3>1, BlockEndIs
    <3>4. BlockEnd(m + n, i) = BlockEnd(m, i) /\ BlockEnd(m + n, i - 1) = BlockEnd(m, i - 1)
      <4>1. \A h \in 0..k : h * BlockLen \in Nat /\ h * BlockLen <= m
        BY <1>1
      <4> QED
        BY <1>1, <3>1, <4>1 DEF BlockEnd
    <3>5. SubSeq(st, BlockEnd(m, i - 1) + 1, BlockEnd(m, i))
            = SubSeq(s, BlockEnd(m, i - 1) + 1, BlockEnd(m, i))
      BY <3>3, PieceOfFirst DEF st
    <3> QED
      BY <2>1, <3>2, <3>4, <3>5
  <2>3. CASE i > k
    <3> DEFINE h == i - k
    <3>1. h \in 1..j /\ h - 1 \in Nat /\ h \in Nat
      BY <2>3, <1>1
    <3>2. both[i] = Text("block", SubSeq(t, BlockEnd(n, h - 1) + 1, BlockEnd(n, h)))
      BY <1>4, <1>5, <1>6, <2>3, <3>1 DEF j
    <3>3. /\ BlockEnd(n, h) \in 0..n /\ BlockEnd(n, h - 1) \in 0..BlockEnd(n, h)
      BY <1>1, <3>1, BlockEndIs DEF j
    <3>4. \A g \in Nat : BlockEnd(m + n, k + g) = m + BlockEnd(n, g)
      <4>1. ASSUME NEW g \in Nat PROVE BlockEnd(m + n, k + g) = m + BlockEnd(n, g)
        <5> DEFINE x == g * BlockLen
                   y == (k + g) * BlockLen
        <5>1. x \in Nat /\ y = m + x
          BY <1>1
        <5>2. /\ BlockEnd(m + n, k + g) = IF y <= m + n THEN y ELSE m + n
              /\ BlockEnd(n, g) = IF x <= n THEN x ELSE n
          BY DEF BlockEnd
        <5> HIDE DEF x, y, m, n
        <5>3. (IF y <= m + n THEN y ELSE m + n) = m + (IF x <= n THEN x ELSE n)
          BY <1>1, <5>1
        <5> QED
          BY <5>2, <5>3
      <4> QED
        BY <4>1
    <3>5. i = k + h /\ i - 1 = k + (h - 1)
      BY <1>1
    <3> HIDE DEF h
    <3>6. BlockEnd(m + n, i) = m + BlockEnd(n, h) /\ BlockEnd(m + n, i - 1) = m + BlockEnd(n, h - 1)
      BY <3>1, <3>4, <3>5
    <3>7. SubSeq(st, m + BlockEnd(n, h - 1) + 1, m + BlockEnd(n, h))
            = SubSeq(t, BlockEnd(n, h - 1) + 1, BlockEnd(n, h))
      BY <3>3, PieceOfSecond DEF st
    <3> QED
      BY <2>1, <3>2, <3>6, <3>7
  <2> QED
    BY <1>1, <2>2, <2>3
<1>8. Blocks(st) = both
  BY <1>4, <1>5, <1>7, SeqEqual
<1> QED
  BY <1>4, <1>8 DEF st, both

-----------------------------------------------------------------------------
(* Lines of blocks.                                                        *)

\* A block with the end of its line, if that is there.
Lined(slots, i, x) ==
    IF i >= slots /\ (i - slots) % LineBlocks = 0 THEN <<x, EndOfLine>> ELSE <<x>>
LinesOf(slots, blocks) == [i \in DOMAIN blocks |-> Lined(slots, i, blocks[i])]

LEMMA LinedType ==
    ASSUME NEW slots, NEW i, NEW x \in TextType
    PROVE  Lined(slots, i, x) \in Seq(TextType)
<1>1. EndOfLine \in TextType
  BY DEF EndOfLine, Text, TextType
<1> QED
  BY <1>1 DEF Lined

LEMMA LinedSame ==
    ASSUME NEW s1 \in Int, NEW s2 \in Int, NEW i \in Int, NEW j \in Int, NEW x,
           (i >= s1 /\ (i - s1) % LineBlocks = 0) <=> (j >= s2 /\ (j - s2) % LineBlocks = 0)
    PROVE  Lined(s1, i, x) = Lined(s2, j, x)
  BY DEF Lined

LEMMA LinesType ==
    ASSUME NEW slots, NEW blocks \in Seq(TextType)
    PROVE  /\ LinesOf(slots, blocks) \in Seq(Seq(TextType))
           /\ Len(LinesOf(slots, blocks)) = Len(blocks)
           /\ FormatLines(slots, blocks) = FlattenSeq(LinesOf(slots, blocks))
           /\ FormatLines(slots, blocks) \in Seq(TextType)
<1>1. Len(blocks) \in Nat /\ DOMAIN blocks = 1..Len(blocks)
  BY LenProperties
<1>2. \A i \in 1..Len(blocks) : Lined(slots, i, blocks[i]) \in Seq(TextType)
  BY LinedType, ElementOfSeq
<1>3. /\ LinesOf(slots, blocks) \in Seq(Seq(TextType))
      /\ Len(LinesOf(slots, blocks)) = Len(blocks)
  BY <1>1, <1>2 DEF LinesOf
<1>4. FormatLines(slots, blocks) = FlattenSeq(LinesOf(slots, blocks))
  BY DEF FormatLines, LinesOf, Lined
<1> QED
  BY <1>3, <1>4, FlattenType

\* Lines go on where the last call left them.
LEMMA LinesConcat ==
    ASSUME NEW slots \in 1..LineBlocks, NEW b \in Seq(TextType), NEW c \in Seq(TextType)
    PROVE  FormatLines(slots, b \o c) = FormatLines(slots, b) \o FormatLines(Slots(slots, Len(b)), c)
<1> DEFINE bc == b \o c
           m  == Len(b)
           n  == Len(c)
           l1 == LinesOf(slots, b)
           l2 == LinesOf(Slots(slots, m), c)
           l3 == LinesOf(slots, bc)
           l  == l1 \o l2
<1>1. m \in Nat /\ n \in Nat /\ DOMAIN b = 1..m /\ DOMAIN c = 1..n
  BY LenProperties
<1>2. bc \in Seq(TextType) /\ Len(bc) = m + n /\ DOMAIN bc = 1..(m + n)
      /\ \A i \in 1..(m + n) : bc[i] = IF i <= m THEN b[i] ELSE c[i - m]
  BY ConcatProperties, LenProperties
<1> HIDE DEF bc
<1>3. /\ l1 \in Seq(Seq(TextType)) /\ Len(l1) = m
      /\ l2 \in Seq(Seq(TextType)) /\ Len(l2) = n
      /\ l3 \in Seq(Seq(TextType)) /\ Len(l3) = m + n
  BY <1>2, LinesType
<1>4. /\ \A i \in 1..m : l1[i] = Lined(slots, i, b[i])
      /\ \A i \in 1..n : l2[i] = Lined(Slots(slots, m), i, c[i])
      /\ \A i \in 1..(m + n) : l3[i] = Lined(slots, i, bc[i])
  BY <1>1, <1>2 DEF LinesOf
<1> HIDE DEF l1, l2, l3, m, n
<1>5. l \in Seq(Seq(TextType)) /\ Len(l) = m + n
      /\ \A i \in 1..(m + n) : l[i] = IF i <= m THEN l1[i] ELSE l2[i - m]
  <2>1. l \in Seq(Seq(TextType)) /\ Len(l) = Len(l1) + Len(l2)
        /\ \A i \in 1..(Len(l1) + Len(l2)) : l[i] = IF i <= Len(l1) THEN l1[i] ELSE l2[i - Len(l1)]
    BY <1>3, ConcatProperties
  <2> HIDE DEF l
  <2> QED
    BY <1>3, <2>1
<1> HIDE DEF l
<1>6. ASSUME NEW i \in 1..(m + n) PROVE l3[i] = l[i]
  <2>1. CASE i <= m
    <3>1. i \in 1..m
      BY <2>1
    <3> QED
      BY <1>2, <1>4, <1>5, <2>1, <3>1
  <2>2. CASE i > m
    <3> DEFINE j == i - m
    <3>1. j \in 1..n /\ j \in Nat \ {0} /\ i = m + j
      BY <1>1, <2>2
    <3>2. l[i] = Lined(Slots(slots, m), j, c[j])
      <4>1. ~(i <= m)
        BY <1>1, <2>2
      <4>2. l[i] = l2[j]
        BY <1>5, <4>1
      <4> HIDE DEF j
      <4> QED
        BY <1>4, <3>1, <4>2
    <3>3. l3[i] = Lined(slots, i, c[j])
      BY <1>1, <1>2, <1>4, <2>2
    <3> HIDE DEF j
    <3>4. (m + j >= slots /\ ((m + j) - slots) % LineBlocks = 0)
             <=> (j >= Slots(slots, m) /\ (j - Slots(slots, m)) % LineBlocks = 0)
      BY <1>1, <3>1, SlotsLater
    <3>5. Lined(slots, m + j, c[j]) = Lined(Slots(slots, m), j, c[j])
      <4>1. m + j \in Int /\ j \in Int /\ slots \in Int /\ Slots(slots, m) \in Int
        <5>1. Slots(slots, m) \in 1..LineBlocks
          BY <1>1, SlotsIs
        <5> QED
          BY <1>1, <3>1, <5>1, ArmorAssumption
      <4> DEFINE g == m + j
                 s == Slots(slots, m)
                 x == c[j]
      <4>2. /\ g \in Int /\ j \in Int /\ slots \in Int /\ s \in Int
            /\ (g >= slots /\ (g - slots) % LineBlocks = 0)
                 <=> (j >= s /\ (j - s) % LineBlocks = 0)
        BY <3>4, <4>1
      <4> HIDE DEF g, s, x
      <4>3. Lined(slots, g, x) = Lined(s, j, x)
        BY <4>2, LinedSame
      <4> QED
        BY <4>3 DEF g, s, x
    <3> QED
      BY <3>1, <3>2, <3>3, <3>5
  <2> QED
    BY <1>1, <2>1, <2>2
<1>7. l3 = l
  BY <1>3, <1>5, <1>6, SeqEqual
<1>8. FlattenSeq(l) = FlattenSeq(l1) \o FlattenSeq(l2)
  BY <1>3, FlattenConcat DEF l
<1> QED
  BY <1>2, <1>7, <1>8, LinesType DEF bc, l1, l2, l3, m

-----------------------------------------------------------------------------
(* Octets of a text.                                                       *)

OctetsAt(x) == IF x.kind = "block" THEN x.octets ELSE <<>>

LEMMA OctetsAre ==
    ASSUME NEW text \in Seq(TextType)
    PROVE  /\ [i \in DOMAIN text |-> OctetsAt(text[i])] \in Seq(Seq(CellType))
           /\ Len([i \in DOMAIN text |-> OctetsAt(text[i])]) = Len(text)
           /\ Octets(text) = FlattenSeq([i \in DOMAIN text |-> OctetsAt(text[i])])
           /\ Octets(text) \in Seq(CellType)
<1>1. Len(text) \in Nat /\ DOMAIN text = 1..Len(text)
  BY LenProperties
<1>2. \A x \in TextType : OctetsAt(x) \in Seq(CellType)
  <2>1. <<>> \in Seq(CellType)
    OBVIOUS
  <2> QED
    BY <2>1 DEF OctetsAt, TextType
<1>3. \A i \in 1..Len(text) : OctetsAt(text[i]) \in Seq(CellType)
  BY <1>2, ElementOfSeq
<1>4. /\ [i \in DOMAIN text |-> OctetsAt(text[i])] \in Seq(Seq(CellType))
      /\ Len([i \in DOMAIN text |-> OctetsAt(text[i])]) = Len(text)
  BY <1>1, <1>3
<1>5. Octets(text) = FlattenSeq([i \in DOMAIN text |-> OctetsAt(text[i])])
  BY DEF Octets, OctetsAt
<1> QED
  BY <1>4, <1>5, FlattenType

LEMMA OctetsConcat ==
    ASSUME NEW s \in Seq(TextType), NEW t \in Seq(TextType)
    PROVE  Octets(s \o t) = Octets(s) \o Octets(t)
<1> DEFINE st == s \o t
           m == Len(s)
           n == Len(t)
           a == [i \in DOMAIN s |-> OctetsAt(s[i])]
           b == [i \in DOMAIN t |-> OctetsAt(t[i])]
           c == [i \in DOMAIN st |-> OctetsAt(st[i])]
           ab == a \o b
<1>1. m \in Nat /\ n \in Nat /\ DOMAIN s = 1..m /\ DOMAIN t = 1..n
  BY LenProperties
<1>2. st \in Seq(TextType) /\ Len(st) = m + n /\ DOMAIN st = 1..(m + n)
      /\ \A i \in 1..(m + n) : st[i] = IF i <= m THEN s[i] ELSE t[i - m]
  BY ConcatProperties, LenProperties
<1> HIDE DEF st
<1>3. /\ a \in Seq(Seq(CellType)) /\ Len(a) = m
      /\ b \in Seq(Seq(CellType)) /\ Len(b) = n
      /\ c \in Seq(Seq(CellType)) /\ Len(c) = m + n
      /\ Octets(s) = FlattenSeq(a) /\ Octets(t) = FlattenSeq(b) /\ Octets(st) = FlattenSeq(c)
  BY <1>2, OctetsAre
<1>4. /\ \A i \in 1..m : a[i] = OctetsAt(s[i])
      /\ \A i \in 1..n : b[i] = OctetsAt(t[i])
      /\ \A i \in 1..(m + n) : c[i] = OctetsAt(st[i])
  BY <1>1, <1>2
<1> HIDE DEF a, b, c, m, n
<1>5. ab \in Seq(Seq(CellType)) /\ Len(ab) = m + n
      /\ \A i \in 1..(m + n) : ab[i] = IF i <= m THEN a[i] ELSE b[i - m]
  <2>1. ab \in Seq(Seq(CellType)) /\ Len(ab) = Len(a) + Len(b)
        /\ \A i \in 1..(Len(a) + Len(b)) : ab[i] = IF i <= Len(a) THEN a[i] ELSE b[i - Len(a)]
    BY <1>3, ConcatProperties
  <2> HIDE DEF ab
  <2> QED
    BY <1>3, <2>1
<1> HIDE DEF ab
<1>6. ASSUME NEW i \in 1..(m + n) PROVE c[i] = ab[i]
  <2>1. i <= m => i \in 1..m
    BY <1>1
  <2>2. ~(i <= m) => i - m \in 1..n
    BY <1>1
  <2> QED
    BY <1>2, <1>4, <1>5, <2>1, <2>2
<1>7. c = ab
  BY <1>3, <1>5, <1>6, SeqEqual
<1>8. FlattenSeq(ab) = FlattenSeq(a) \o FlattenSeq(b)
  BY <1>3, FlattenConcat DEF ab
<1> QED
  BY <1>3, <1>7, <1>8 DEF st

\* A text of one piece.
LEMMA OctetsOne ==
    ASSUME NEW x \in TextType
    PROVE  Octets(<<x>>) = OctetsAt(x)
<1>1. <<x>> \in Seq(TextType) /\ OctetsAt(x) \in Seq(CellType)
  <2>1. <<>> \in Seq(CellType)
    OBVIOUS
  <2> QED
    BY <2>1 DEF OctetsAt, TextType
<1> DEFINE f == [i \in DOMAIN <<x>> |-> OctetsAt(<<x>>[i])]
           y == OctetsAt(x)
<1>2. f = <<y>> /\ Octets(<<x>>) = FlattenSeq(f)
  <2>1. Octets(<<x>>) = FlattenSeq(f)
    BY <1>1, OctetsAre
  <2>2. f = <<y>>
    <3>1. <<x>>[1] = x /\ DOMAIN <<x>> = {1} /\ DOMAIN <<y>> = {1} /\ <<y>>[1] = y
      OBVIOUS
    <3>2. f = [i \in {1} |-> y]
      BY <3>1
    <3> HIDE DEF y
    <3>3. <<y>> = [i \in {1} |-> y]
      OBVIOUS
    <3> QED
      BY <3>2, <3>3
  <2> QED
    BY <2>1, <2>2
<1> HIDE DEF f, y
<1>3. FlattenSeq(<<y>>) = y
  BY <1>1, FlattenSingle DEF y
<1> QED
  BY <1>2, <1>3 DEF y

\* A line end has no octets, so lines have those of their blocks.
LEMMA LinedOctets ==
    ASSUME NEW slots, NEW i, NEW x \in TextType
    PROVE  Octets(Lined(slots, i, x)) = OctetsAt(x)
<1>1. EndOfLine \in TextType /\ OctetsAt(EndOfLine) = <<>>
  BY DEF EndOfLine, Text, TextType, OctetsAt
<1>2. Octets(<<x>>) = OctetsAt(x) /\ Octets(<<EndOfLine>>) = <<>>
  BY <1>1, OctetsOne
<1>3. <<x, EndOfLine>> = <<x>> \o <<EndOfLine>>
  OBVIOUS
<1>4. Octets(<<x>> \o <<EndOfLine>>) = Octets(<<x>>) \o Octets(<<EndOfLine>>)
  <2>1. <<x>> \in Seq(TextType) /\ <<EndOfLine>> \in Seq(TextType)
    BY <1>1
  <2> QED
    BY <2>1, OctetsConcat
<1>5. Octets(<<x>>) \o <<>> = Octets(<<x>>)
  <2>1. <<x>> \in Seq(TextType)
    OBVIOUS
  <2>2. Octets(<<x>>) \in Seq(CellType)
    BY <2>1, OctetsAre
  <2> QED
    BY <2>2, ConcatEmptySeq
<1>6. Octets(<<x, EndOfLine>>) = OctetsAt(x)
  BY <1>2, <1>3, <1>4, <1>5
<1> QED
  BY <1>2, <1>6 DEF Lined

LEMMA LinesOne ==
    ASSUME NEW slots, NEW x \in TextType
    PROVE  FormatLines(slots, <<x>>) = Lined(slots, 1, x)
<1> DEFINE y == Lined(slots, 1, x)
<1>1. y \in Seq(TextType)
  BY LinedType
<1>2. FormatLines(slots, <<x>>) = FlattenSeq(LinesOf(slots, <<x>>))
  <2>1. <<x>> \in Seq(TextType)
    OBVIOUS
  <2> QED
    BY <2>1, LinesType
<1>3. LinesOf(slots, <<x>>) = <<y>>
  <2>1. DOMAIN <<x>> = {1} /\ <<x>>[1] = x
    OBVIOUS
  <2>2. LinesOf(slots, <<x>>) = [i \in {1} |-> Lined(slots, i, <<x>>[i])]
    BY <2>1 DEF LinesOf
  <2>3. [i \in {1} |-> Lined(slots, i, <<x>>[i])] = [i \in {1} |-> y]
    BY <2>1
  <2> HIDE DEF y
  <2>4. <<y>> = [i \in {1} |-> y]
    OBVIOUS
  <2> QED
    BY <2>2, <2>3, <2>4
<1> HIDE DEF y
<1>4. FlattenSeq(<<y>>) = y
  BY <1>1, FlattenSingle DEF y
<1> QED
  BY <1>2, <1>3, <1>4 DEF y

LEMMA LinesOctets ==
    ASSUME NEW slots \in 1..LineBlocks, NEW b \in Seq(TextType)
    PROVE  Octets(FormatLines(slots, b)) = Octets(b)
<1> DEFINE P(u) == Octets(FormatLines(slots, u)) = Octets(u)
           N == {n \in Nat : \A u \in Seq(TextType) : Len(u) = n => P(u)}
<1>1. 0 \in N
  <2>1. ASSUME NEW u \in Seq(TextType), Len(u) = 0 PROVE P(u)
    <3>1. u = <<>>
      BY <2>1, EmptySeq
    <3>2. LinesOf(slots, u) = <<>>
      BY <3>1 DEF LinesOf
    <3>3. FormatLines(slots, u) = <<>>
      BY <3>2, LinesType DEF FlattenSeq
    <3> QED
      BY <3>1, <3>3
  <2> QED
    BY <2>1
<1>2. ASSUME NEW n \in Nat, n \in N PROVE n + 1 \in N
  <2>1. ASSUME NEW u \in Seq(TextType), Len(u) = n + 1 PROVE P(u)
    <3> DEFINE v == SubSeq(u, 1, n)
               x == u[n + 1]
               z == Slots(slots, n)
    <3>1. n \in 0..Len(u) /\ n + 1 \in 1..Len(u)
      BY <2>1
    <3>2. v \in Seq(TextType) /\ Len(v) = n /\ x \in TextType
      BY <3>1, TakeIs, ElementOfSeq DEF Take
    <3>3. u = v \o <<x>>
      <4>1. v \o SubSeq(u, n + 1, n + 1) = u
        BY <2>1, <3>1, PieceBoth
      <4>2. SubSeq(u, n + 1, n + 1) = <<x>>
        <5> DEFINE w == SubSeq(u, n + 1, n + 1)
        <5>1. n + 1 \in 0..Len(u) /\ n \in 0..(n + 1) /\ (n + 1) - n = 1
          BY <2>1
        <5>2. w \in Seq(TextType) /\ Len(w) = 1 /\ w[1] = u[n + 1]
          BY <5>1, PieceIs
        <5> HIDE DEF w, x
        <5>3. <<x>> \in Seq(TextType) /\ Len(<<x>>) = 1 /\ <<x>>[1] = x
          BY <3>2
        <5>4. \A i \in 1..1 : w[i] = <<x>>[i]
          BY <5>2, <5>3 DEF x
        <5>5. w = <<x>>
          BY <5>2, <5>3, <5>4, SeqEqual
        <5> QED
          BY <5>5 DEF w
      <4> QED
        BY <4>1, <4>2
    <3> HIDE DEF v, x, z
    <3>4. P(v)
      BY <1>2, <3>2
    <3>5. FormatLines(slots, u) = FormatLines(slots, v) \o FormatLines(z, <<x>>)
      <4>1. <<x>> \in Seq(TextType)
        BY <3>2
      <4> QED
        BY <3>2, <3>3, <4>1, LinesConcat DEF z
    <3>6. Octets(FormatLines(z, <<x>>)) = Octets(<<x>>)
      BY <3>2, LinesOne, LinedOctets, OctetsOne
    <3>7. <<x>> \in Seq(TextType) /\ FormatLines(z, <<x>>) \in Seq(TextType)
          /\ FormatLines(slots, v) \in Seq(TextType)
      <4>1. <<x>> \in Seq(TextType)
        BY <3>2
      <4> QED
        BY <3>2, <4>1, LinesType
    <3>8. Octets(FormatLines(slots, v) \o FormatLines(z, <<x>>))
            = Octets(FormatLines(slots, v)) \o Octets(FormatLines(z, <<x>>))
      BY <3>7, OctetsConcat
    <3>9. Octets(v \o <<x>>) = Octets(v) \o Octets(<<x>>)
      BY <3>2, <3>7, OctetsConcat
    <3> QED
      BY <3>3, <3>4, <3>5, <3>6, <3>8, <3>9
  <2> QED
    BY <2>1
<1> HIDE DEF N
<1>3. Nat \subseteq N
  BY <1>1, <1>2, NatInduct
<1>4. Len(b) \in N
  BY <1>3, LenProperties
<1> QED
  BY <1>4 DEF N

\* The blocks of octets have just these.
LEMMA BlocksOctets ==
    ASSUME NEW s \in Seq(CellType)
    PROVE  Octets(Blocks(s)) = s
<1> DEFINE n == Len(s)
           k == BlockCount(n)
           b == Blocks(s)
           c == [i \in 0..k |-> BlockEnd(n, i)]
           piece(i) == SubSeq(s, c[i - 1] + 1, c[i])
<1>1. n \in Nat /\ k \in Nat /\ BlockLen \in Nat \ {0} /\ n <= k * BlockLen
  <2>1. n \in Nat /\ BlockLen \in Nat \ {0}
    BY ArmorAssumption, LenProperties
  <2> HIDE DEF n
  <2> QED
    BY <2>1, BlockCountIs
<1>2. /\ b \in Seq(TextType) /\ Len(b) = k
      /\ \A i \in 1..k : b[i].kind = "block"
                         /\ b[i].octets = SubSeq(s, BlockEnd(n, i - 1) + 1, BlockEnd(n, i))
  BY BlocksAre
<1>3. DOMAIN b = 1..k
  BY <1>2, LenProperties
<1>4. Octets(b) = FlattenSeq([i \in DOMAIN b |-> OctetsAt(b[i])])
  BY <1>2, OctetsAre
<1>5. \A i \in 0..k : BlockEnd(n, i) \in 0..n
  <2>1. ASSUME NEW i \in 0..k PROVE BlockEnd(n, i) \in 0..n
    <3>1. i * BlockLen \in Nat
      BY <1>1
    <3> QED
      BY <1>1, <3>1 DEF BlockEnd
  <2> QED
    BY <2>1
<1>6. c \in [0..k -> 0..n] /\ \A i \in 0..k : c[i] = BlockEnd(n, i)
  <2> HIDE DEF k, n
  <2> QED
    BY <1>5
<1>7. c[0] = 0 /\ c[k] = n
  <2>1. 0 \in 0..k /\ k \in 0..k /\ 0 * BlockLen = 0
    BY <1>1
  <2>2. BlockEnd(n, 0) = 0
    BY <1>1, <2>1 DEF BlockEnd
  <2>3. BlockEnd(n, k) = n
    <3> DEFINE x == k * BlockLen
    <3>1. BlockEnd(n, k) = IF x <= n THEN x ELSE n
      BY DEF BlockEnd
    <3>2. x \in Nat /\ x >= n
      <4> HIDE DEF k
      <4> QED
        BY <1>1
    <3> HIDE DEF x, k, n
    <3> QED
      BY <1>1, <3>1, <3>2
  <2> QED
    BY <1>6, <2>1, <2>2, <2>3
<1>8. \A i \in 1..k : c[i - 1] <= c[i]
  <2>1. ASSUME NEW i \in 1..k PROVE c[i - 1] <= c[i]
    <3>1. i \in 0..k /\ i - 1 \in 0..k
      BY <1>1
    <3>2. BlockEnd(n, i) \in 0..n /\ BlockEnd(n, i - 1) \in 0..BlockEnd(n, i)
      BY <1>1, BlockEndIs
    <3>3. c[i - 1] = BlockEnd(n, i - 1) /\ c[i] = BlockEnd(n, i)
      BY <1>6, <3>1
    <3> HIDE DEF c
    <3> QED
      BY <3>2, <3>3
  <2> QED
    BY <2>1
<1>9. ASSUME NEW i \in 1..k PROVE OctetsAt(b[i]) = piece(i)
  <2>1. i \in 0..k /\ i - 1 \in 0..k
    BY <1>1
  <2>2. c[i - 1] = BlockEnd(n, i - 1) /\ c[i] = BlockEnd(n, i)
    BY <1>6, <2>1
  <2> HIDE DEF c, b
  <2> QED
    BY <1>2, <2>2 DEF OctetsAt
<1> HIDE DEF b, c, k
<1>10. [i \in DOMAIN b |-> OctetsAt(b[i])] = [i \in 1..k |-> piece(i)]
  <2> HIDE DEF piece
  <2> QED
    BY <1>3, <1>9
<1>11. FlattenSeq([i \in 1..k |-> piece(i)]) = SubSeq(s, 1, c[k])
  BY <1>1, <1>6, <1>7, <1>8, FlattenPieces
<1>12. SubSeq(s, 1, n) = s
  BY SubSeqFull
<1> QED
  BY <1>4, <1>7, <1>10, <1>11, <1>12 DEF b

\* What comes out of lines is what was put into them.
LEMMA LinesHold ==
    ASSUME NEW slots \in 1..LineBlocks, NEW s \in Seq(CellType)
    PROVE  Octets(FormatLines(slots, Blocks(s))) = s
  BY BlocksAre, LinesOctets, BlocksOctets

-----------------------------------------------------------------------------
(* The armor writer.  What it has written is the header and the lines of   *)
(* the octets its checksum has seen, which are whole blocks while it runs. *)

ArmorOK(a) ==
    a \in [status : {"Header", "Payload", "Finished"}, part : Seq(CellType),
           slots : 1..LineBlocks, crc : Seq(CellType)]
    /\ Len(a.part) < BlockLen

Lines(octets) == FormatLines(LineBlocks, Blocks(octets))
Begun(a) == IF a.status = "Header" THEN <<>> ELSE <<Text("header", <<>>)>>

ArmorHolds(a, text) ==
    /\ ArmorOK(a)
    /\ \E k \in Nat : Len(a.crc) = k * BlockLen /\ a.slots = Slots(LineBlocks, k)
    /\ a.status = "Header" => a.crc = <<>>
    /\ text = Begun(a) \o Lines(a.crc)

LEMMA LinesAre ==
    ASSUME NEW s \in Seq(CellType)
    PROVE  Lines(s) \in Seq(TextType) /\ Octets(Lines(s)) = s
<1>1. LineBlocks \in 1..LineBlocks
  BY ArmorAssumption
<1> QED
  BY <1>1, BlocksAre, LinesType, LinesHold DEF Lines

\* Lines of more octets go on from whole blocks.
LEMMA LinesMore ==
    ASSUME NEW s \in Seq(CellType), NEW t \in Seq(CellType), NEW k \in Nat,
           Len(s) = k * BlockLen
    PROVE  Lines(s \o t) = Lines(s) \o FormatLines(Slots(LineBlocks, k), Blocks(t))
<1>1. LineBlocks \in 1..LineBlocks
  BY ArmorAssumption
<1>2. Blocks(s \o t) = Blocks(s) \o Blocks(t) /\ Len(Blocks(s)) = k
  BY BlocksConcat
<1>3. Blocks(s) \in Seq(TextType) /\ Blocks(t) \in Seq(TextType)
  BY BlocksAre
<1>4. FormatLines(LineBlocks, Blocks(s) \o Blocks(t))
        = FormatLines(LineBlocks, Blocks(s)) \o FormatLines(Slots(LineBlocks, k), Blocks(t))
  BY <1>1, <1>2, <1>3, LinesConcat
<1> QED
  BY <1>2, <1>4 DEF Lines

LEMMA NothingWritten ==
    /\ Blocks(<<>>) = <<>> /\ Lines(<<>>) = <<>>
    /\ Slots(LineBlocks, 0) = LineBlocks
    /\ ArmorHolds(Started, <<>>)
<1>1. BlockLen \in Nat \ {0} /\ LineBlocks \in Nat \ {0} /\ <<>> \in Seq(CellType)
  BY ArmorAssumption
<1>2. Blocks(<<>>) = <<>>
  <2>1. <<>> \in Seq(CellType) /\ Len(<<>>) = 0 /\ 0 = 0 * BlockLen
    BY <1>1
  <2>2. Len(Blocks(<<>>)) = 0
    BY <2>1, BlocksConcat
  <2> QED
    BY <1>1, <2>2, BlocksAre, EmptySeq
<1>3. Lines(<<>>) = <<>>
  <2>1. FormatLines(LineBlocks, <<>>) = FlattenSeq(<<>>)
    BY DEF FormatLines
  <2>2. FlattenSeq(<<>>) = <<>>
    BY DEF FlattenSeq
  <2> QED
    BY <1>2, <2>1, <2>2 DEF Lines
<1>4. Slots(LineBlocks, 0) = LineBlocks
  <2>1. LineBlocks - LineBlocks + 0 = LineBlocks * 0 + 0 /\ 0 \in 0..(LineBlocks - 1)
        /\ LineBlocks - LineBlocks + 0 \in Int
    BY <1>1
  <2>2. (LineBlocks - LineBlocks + 0) % LineBlocks = 0
    BY <1>1, <2>1, OneQuotient
  <2> QED
    BY <1>1, <2>2 DEF Slots
<1>5. ArmorOK(Started) /\ Started.crc = <<>> /\ Started.status = "Header"
      /\ Started.slots = LineBlocks
  <2>1. Len(<<>>) = 0 /\ LineBlocks \in 1..LineBlocks
    BY <1>1
  <2> QED
    BY <1>1, <2>1 DEF ArmorOK, Started
<1>6. \E k \in Nat : Len(Started.crc) = k * BlockLen /\ Started.slots = Slots(LineBlocks, k)
  <2>1. Len(<<>>) = 0 * BlockLen /\ 0 \in Nat
    BY <1>1
  <2> QED
    BY <1>4, <1>5, <2>1
<1>7. Begun(Started) \o Lines(Started.crc) = <<>>
  <2>1. <<>> \o <<>> = <<>>
    BY <1>1, ConcatEmptySeq
  <2> QED
    BY <1>3, <1>5, <2>1 DEF Begun
<1> QED
  BY <1>2, <1>3, <1>4, <1>5, <1>6, <1>7 DEF ArmorHolds

\* The text so far and that of one more piece are one text.
LEMMA ArmorGoesOn ==
    ASSUME NEW a, NEW text, ArmorHolds(a, text), NEW taken \in Seq(CellType)
    PROVE  /\ text \o (Header(a) \o FormatLines(a.slots, Blocks(taken)))
                = <<Text("header", <<>>)>> \o Lines(a.crc \o taken)
           /\ FormatLines(a.slots, Blocks(taken)) \in Seq(TextType)
           /\ text \in Seq(TextType) /\ Header(a) \in Seq(TextType)
<1> DEFINE hdr == <<Text("header", <<>>)>>
           f   == FormatLines(a.slots, Blocks(taken))
<1>1. PICK k \in Nat : Len(a.crc) = k * BlockLen /\ a.slots = Slots(LineBlocks, k)
  BY DEF ArmorHolds
<1>2. a.crc \in Seq(CellType) /\ text = Begun(a) \o Lines(a.crc)
  BY DEF ArmorHolds, ArmorOK
<1>3. Lines(a.crc \o taken) = Lines(a.crc) \o f
  BY <1>1, <1>2, LinesMore
<1>4. f \in Seq(TextType)
  BY BlocksAre, LinesType
<1>5. hdr \in Seq(TextType)
  BY DEF Text, TextType
<1>6. Lines(a.crc) \in Seq(TextType)
  BY <1>2, LinesAre
<1> HIDE DEF hdr, f
<1>7. CASE a.status = "Header"
  <2>1. a.crc = <<>> /\ Begun(a) = <<>> /\ Header(a) = hdr /\ Lines(a.crc) = <<>>
    BY <1>7, NothingWritten DEF ArmorHolds, Begun, Header, hdr
  <2>2. text = <<>> /\ <<>> \in Seq(TextType)
    BY <1>2, <2>1, ConcatEmptySeq
  <2>3. Lines(a.crc \o taken) = f
    BY <1>3, <1>4, <2>1, ConcatEmptySeq
  <2>4. text \o (Header(a) \o f) = hdr \o f
    <3>1. hdr \o f \in Seq(TextType)
      BY <1>4, <1>5, ConcatProperties
    <3> QED
      BY <2>1, <2>2, <3>1, ConcatEmptySeq
  <2> QED
    BY <1>4, <1>5, <2>1, <2>2, <2>3, <2>4 DEF hdr, f
<1>8. CASE a.status # "Header"
  <2>1. Begun(a) = hdr /\ Header(a) = <<>>
    BY <1>8 DEF Begun, Header, hdr
  <2>2. text = hdr \o Lines(a.crc) /\ text \in Seq(TextType)
    BY <1>2, <1>5, <1>6, <2>1, ConcatProperties
  <2>3. Header(a) \o f = f
    BY <1>4, <2>1, ConcatEmptySeq
  <2>4. (hdr \o Lines(a.crc)) \o f = hdr \o (Lines(a.crc) \o f)
    BY <1>4, <1>5, <1>6, ConcatAssociative
  <2>5. Header(a) \in Seq(TextType)
    BY <2>1
  <2> QED
    BY <1>3, <1>4, <2>2, <2>3, <2>4, <2>5 DEF hdr, f
<1> QED
  BY <1>7, <1>8

\* A Write that does not finish.
LEMMA ArmorStep ==
    ASSUME NEW a, NEW text, ArmorHolds(a, text), NEW octets \in Seq(CellType)
    PROVE  LET r == ArmorWrite(a, octets, FALSE)
           IN  /\ ArmorHolds(r.a, text \o r.out) /\ r.out \in Seq(TextType)
               /\ a.status # "Finished" => r.a.status # "Finished"
<1> DEFINE r == ArmorWrite(a, octets, FALSE)
           buffer == Payload(a, octets)
           size   == Encodable(buffer, FALSE)
           taken  == Take(buffer, size)
           f      == FormatLines(a.slots, Blocks(taken))
           q      == Len(buffer) \div BlockLen
           Goal(x) == /\ ArmorHolds(x.a, text \o x.out) /\ x.out \in Seq(TextType)
                      /\ a.status # "Finished" => x.a.status # "Finished"
<1> SUFFICES Goal(r)
  OBVIOUS
<1>1. a.part \in Seq(CellType) /\ a.crc \in Seq(CellType) /\ BlockLen \in Nat \ {0}
      /\ a.slots \in 1..LineBlocks
  BY ArmorAssumption DEF ArmorHolds, ArmorOK
<1>2. buffer \in Seq(CellType) /\ Len(buffer) \in Nat
  BY <1>1, ConcatProperties, LenProperties DEF Payload
<1> HIDE DEF buffer
<1>3. q \in Nat /\ size = q * BlockLen /\ size \in 0..Len(buffer)
      /\ Len(buffer) - size \in 0..(BlockLen - 1)
  BY <1>1, <1>2, WholeSteps DEF Encodable
<1> HIDE DEF q, size
<1>4. taken \in Seq(CellType) /\ Len(taken) = size
  BY <1>2, <1>3, TakeIs
<1>5. Drop(buffer, size) \in Seq(CellType) /\ Len(Drop(buffer, size)) < BlockLen
  BY <1>1, <1>2, <1>3, DropIs
<1>6. CASE octets = <<>>
  <2>1. r = [a |-> a, out |-> <<>>]
    BY <1>6 DEF ArmorWrite
  <2> HIDE DEF r
  <2>2. text \in Seq(TextType) /\ <<>> \in Seq(TextType)
    BY <1>4, ArmorGoesOn
  <2>3. text \o <<>> = text
    BY <2>2, ConcatEmptySeq
  <2>4. r.a = a /\ r.out = <<>>
    BY <2>1
  <2> QED
    BY <2>2, <2>3, <2>4
<1>7. CASE octets # <<>>
  <2> DEFINE n == Len(Blocks(taken))
             more == Header(a) \o f
  <2>1. r = [a   |-> [status |-> "Payload", part |-> Drop(buffer, Len(taken)),
                      slots |-> Slots(a.slots, n), crc |-> a.crc \o taken],
             out |-> Header(a) \o f \o <<>>]
    BY <1>7 DEF ArmorWrite, buffer, size
  <2>2. more \in Seq(TextType) /\ text \in Seq(TextType)
        /\ text \o more = <<Text("header", <<>>)>> \o Lines(a.crc \o taken)
    BY <1>4, ArmorGoesOn, ConcatProperties
  <2>3. Header(a) \o f \o <<>> = more
    <3> HIDE DEF more
    <3>1. more \o <<>> = more
      BY <2>2, ConcatEmptySeq
    <3> QED
      BY <3>1 DEF more
  <2>4. n = q
    <3>1. <<>> \in Seq(CellType)
      OBVIOUS
    <3> HIDE DEF taken
    <3> QED
      BY <1>3, <1>4, <3>1, BlocksConcat
  <2>5. a.crc \o taken \in Seq(CellType) /\ Len(a.crc \o taken) = Len(a.crc) + size
    BY <1>1, <1>4, ConcatProperties
  <2>6. PICK k \in Nat : Len(a.crc) = k * BlockLen /\ a.slots = Slots(LineBlocks, k)
    BY DEF ArmorHolds
  <2>7. LineBlocks \in 1..LineBlocks
    BY ArmorAssumption
  <2>8. Slots(a.slots, n) = Slots(LineBlocks, k + q)
    BY <1>3, <2>4, <2>6, <2>7, SlotsAdd
  <2>9. Slots(a.slots, n) \in 1..LineBlocks
    BY <1>1, <1>3, <2>4, SlotsIs
  <2> HIDE DEF taken, f, n, more, r
  <2>10. k + q \in Nat /\ Len(a.crc \o taken) = (k + q) * BlockLen
    BY <1>1, <1>3, <2>5, <2>6
  <2> DEFINE b == [status |-> "Payload", part |-> Drop(buffer, Len(taken)),
                   slots |-> Slots(a.slots, n), crc |-> a.crc \o taken]
  <2>11. ArmorOK(b) /\ b.status = "Payload" /\ b.crc = a.crc \o taken
         /\ b.slots = Slots(LineBlocks, k + q)
    BY <1>4, <1>5, <2>5, <2>8, <2>9 DEF ArmorOK
  <2>12. r.a = b /\ r.out = more
    BY <2>1, <2>3
  <2> HIDE DEF b
  <2>13. ArmorHolds(b, text \o more)
    BY <2>2, <2>10, <2>11 DEF ArmorHolds, Begun
  <2> QED
    BY <2>2, <2>11, <2>12, <2>13
<1> QED
  BY <1>6, <1>7

\* The end of the text has no octets.
LEMMA FooterIs ==
    ASSUME NEW crc \in Seq(CellType)
    PROVE  Footer(crc) \in Seq(TextType) /\ Octets(Footer(crc)) = <<>>
<1> DEFINE Silent(t) == t \in Seq(TextType) /\ Octets(t) = <<>>
           c == Text("crc", crc)
           e == Text("footer", <<>>)
<1>1. ASSUME NEW t, NEW x \in TextType, Silent(t), OctetsAt(x) = <<>>
      PROVE  Silent(Append(t, x))
  <2>1. t \in Seq(TextType) /\ Octets(t) = <<>> /\ <<x>> \in Seq(TextType)
    BY <1>1
  <2>2. Append(t, x) = t \o <<x>> /\ t \o <<x>> \in Seq(TextType)
    BY <1>1, <2>1, AppendIsConcat, ConcatProperties
  <2>3. Octets(t \o <<x>>) = Octets(t) \o Octets(<<x>>)
    BY <2>1, OctetsConcat
  <2>4. Octets(<<x>>) = <<>>
    BY <1>1, OctetsOne
  <2>5. <<>> \o <<>> = <<>>
    BY <2>1, ConcatEmptySeq
  <2> QED
    BY <2>1, <2>2, <2>3, <2>4, <2>5
<1>2. /\ EndOfLine \in TextType /\ OctetsAt(EndOfLine) = <<>>
      /\ c \in TextType /\ OctetsAt(c) = <<>>
      /\ e \in TextType /\ OctetsAt(e) = <<>>
  <2>1. <<>> \in Seq(CellType)
    OBVIOUS
  <2> QED
    BY <2>1 DEF EndOfLine, Text, TextType, OctetsAt
<1>3. Silent(<<>>)
  <2>1. Octets(<<>>) = FlattenSeq(<<>>)
    BY DEF Octets
  <2>2. FlattenSeq(<<>>) = <<>>
    BY DEF FlattenSeq
  <2> QED
    BY <2>1, <2>2
<1>4. Footer(crc) = Append(Append(Append(Append(Append(<<>>, EndOfLine), c), EndOfLine), e),
                           EndOfLine)
  BY DEF Footer
<1> HIDE DEF Silent, c, e
<1>5. Silent(Append(Append(<<>>, EndOfLine), c))
  BY <1>1, <1>2, <1>3
<1>6. Silent(Append(Append(Append(Append(<<>>, EndOfLine), c), EndOfLine), e))
  BY <1>1, <1>2, <1>5
<1>7. Silent(Footer(crc))
  BY <1>1, <1>2, <1>4, <1>6
<1> QED
  BY <1>7 DEF Silent

\* The Write that finishes.
LEMMA ArmorEnd ==
    ASSUME NEW a, NEW text, ArmorHolds(a, text), NEW octets \in Seq(CellType)
    PROVE  LET r == ArmorWrite(a, octets, TRUE)
           IN  /\ ArmorOK(r.a) /\ r.out \in Seq(TextType)
               /\ r.a.status = "Finished"
               /\ text \o r.out = <<Text("header", <<>>)>> \o Lines(r.a.crc) \o Footer(r.a.crc)
<1> DEFINE r == ArmorWrite(a, octets, TRUE)
           hdr    == <<Text("header", <<>>)>>
           Goal(x) == /\ ArmorOK(x.a) /\ x.out \in Seq(TextType)
                      /\ x.a.status = "Finished"
                      /\ text \o x.out = hdr \o Lines(x.a.crc) \o Footer(x.a.crc)
           buffer == Payload(a, octets)
           f      == FormatLines(a.slots, Blocks(buffer))
           crc    == a.crc \o buffer
           n      == Len(Blocks(buffer))
           more   == Header(a) \o f
           end    == Footer(crc)
<1> SUFFICES Goal(r)
  OBVIOUS
<1>1. a.part \in Seq(CellType) /\ a.crc \in Seq(CellType) /\ BlockLen \in Nat \ {0}
      /\ a.slots \in 1..LineBlocks
  BY ArmorAssumption DEF ArmorHolds, ArmorOK
<1>2. buffer \in Seq(CellType) /\ Len(buffer) \in Nat
  BY <1>1, ConcatProperties, LenProperties DEF Payload
<1>3. Encodable(buffer, TRUE) = Len(buffer) /\ Take(buffer, Len(buffer)) = buffer
  BY <1>2, SubSeqFull DEF Encodable, Take
<1>4. r = [a   |-> [status |-> "Finished", part |-> Drop(buffer, Len(buffer)),
                    slots |-> Slots(a.slots, n), crc |-> crc],
           out |-> Header(a) \o f \o end]
  BY <1>3 DEF ArmorWrite
<1> HIDE DEF buffer
<1>5. Drop(buffer, Len(buffer)) \in Seq(CellType) /\ Len(Drop(buffer, Len(buffer))) = 0
  <2>1. Len(buffer) \in 0..Len(buffer) /\ Len(buffer) - Len(buffer) = 0
    BY <1>2
  <2> QED
    BY <1>2, <2>1, DropIs
<1>6. Slots(a.slots, n) \in 1..LineBlocks
  <2>1. n \in Nat
    BY <1>2, BlocksAre, LenProperties
  <2> HIDE DEF n
  <2> QED
    BY <1>1, <2>1, SlotsIs
<1>7. crc \in Seq(CellType)
  BY <1>1, <1>2, ConcatProperties
<1>8. f \in Seq(TextType) /\ text \in Seq(TextType) /\ Header(a) \in Seq(TextType)
      /\ text \o more = hdr \o Lines(crc)
  BY <1>2, ArmorGoesOn
<1>9. end \in Seq(TextType)
  BY <1>7, FooterIs
<1> HIDE DEF f, crc, n, end
<1>10. more \in Seq(TextType)
  BY <1>8, ConcatProperties
<1> HIDE DEF r
<1>11. /\ r.a = [status |-> "Finished", part |-> Drop(buffer, Len(buffer)),
                 slots |-> Slots(a.slots, n), crc |-> crc]
       /\ r.out = more \o end
  BY <1>4
<1> HIDE DEF more, hdr
<1>12. ArmorOK(r.a) /\ r.a.status = "Finished" /\ r.a.crc = crc
  BY <1>1, <1>5, <1>6, <1>7, <1>11 DEF ArmorOK
<1>13. more \o end \in Seq(TextType)
  BY <1>9, <1>10, ConcatProperties
<1>14. text \o (more \o end) = (text \o more) \o end
  <2>1. text \in Seq(TextType)
    BY <1>8
  <2> QED
    BY <1>9, <1>10, <2>1, ConcatAssociative, SMTT(30)
<1> QED
  BY <1>8, <1>11, <1>12, <1>13, <1>14 DEF end, crc

\* All at once.
LEMMA ArmorAtOnce ==
    ASSUME NEW s \in Seq(CellType)
    PROVE  /\ ArmorWrite(Started, s, TRUE).out
                = <<Text("header", <<>>)>> \o Lines(s) \o Footer(s)
           /\ <<Text("header", <<>>)>> \o Lines(s) \o Footer(s) \in Seq(TextType)
           /\ Octets(<<Text("header", <<>>)>> \o Lines(s) \o Footer(s)) = s
<1> DEFINE hdr == <<Text("header", <<>>)>>
           text == hdr \o Lines(s) \o Footer(s)
<1>1. /\ Lines(s) \in Seq(TextType) /\ Octets(Lines(s)) = s
      /\ Footer(s) \in Seq(TextType) /\ Octets(Footer(s)) = <<>>
  BY LinesAre, FooterIs
<1>2. hdr \in Seq(TextType) /\ Octets(hdr) = <<>>
  <2>1. Text("header", <<>>) \in TextType /\ OctetsAt(Text("header", <<>>)) = <<>>
    BY DEF Text, TextType, OctetsAt
  <2> QED
    BY <2>1, OctetsOne
<1> HIDE DEF hdr
<1>3. hdr \o Lines(s) \in Seq(TextType) /\ text \in Seq(TextType)
  BY <1>1, <1>2, ConcatProperties
<1>4. Octets(hdr \o Lines(s)) = Octets(hdr) \o Octets(Lines(s))
  BY <1>1, <1>2, OctetsConcat
<1>5. Octets((hdr \o Lines(s)) \o Footer(s)) = Octets(hdr \o Lines(s)) \o Octets(Footer(s))
  BY <1>1, <1>3, OctetsConcat
<1>6. <<>> \o s = s /\ s \o <<>> = s
  BY ConcatEmptySeq
<1>7. Octets(text) = s
  BY <1>1, <1>2, <1>4, <1>5, <1>6
<1>8. ArmorWrite(Started, s, TRUE).out = text
  <2>1. Payload(Started, s) = s /\ Started.crc \o s = s
    BY <1>6 DEF Payload, Started
  <2>2. Encodable(s, TRUE) = Len(s) /\ Take(s, Len(s)) = s
    BY SubSeqFull DEF Encodable, Take
  <2>3. Header(Started) = hdr /\ Started.slots = LineBlocks
    BY DEF Header, Started, hdr
  <2>4. ArmorWrite(Started, s, TRUE).out
          = Header(Started) \o FormatLines(Started.slots, Blocks(s)) \o Footer(s)
    BY <2>1, <2>2 DEF ArmorWrite
  <2> QED
    BY <2>3, <2>4 DEF Lines
<1> QED
  BY <1>3, <1>7, <1>8 DEF hdr

-----------------------------------------------------------------------------
(* The invariant.  The caller has the text up to the running call, target  *)
(* what that call has added; together they are what the armor writer has   *)
(* written, until it finishes.                                             *)

TextSoFar == output \o target

ArmorInv ==
    /\ ArmorOK(armor)
    /\ pc # "running" => target = <<>>
    /\ cfg.armor => output \in Seq(TextType) /\ target \in Seq(TextType)
    /\ cfg.armor /\ pc # "finished" => ArmorHolds(armor, TextSoFar)
    /\ cfg.armor /\ pc = "finished" =>
          output = <<Text("header", <<>>)>> \o Lines(armor.crc) \o Footer(armor.crc)

IInv == TypeOK /\ DepthInv /\ ArmorInv

LEMMA ConfigIs ==
    ASSUME cfg \in Configs
    PROVE  cfg.size \in Nat /\ cfg.compressed \in BOOLEAN /\ cfg.armor \in BOOLEAN
  BY WriterAssumption DEF WriterAssumption

LEMMA ChainIs ==
    /\ Len(Chain) \in Nat /\ \A i \in 1..Len(Chain) : Chain[i] \in WriterTypes
    /\ Chain[1] = "LIT"
    /\ \A i \in 1..(Len(Chain) - 1) : In(Chain[i + 1]) \in {Out(Chain[i]), Out(Chain[i]) + 1}
<1>1. CASE cfg.compressed
  BY <1>1 DEF Chain, WriterTypes, In, Out
<1>2. CASE ~cfg.compressed
  BY <1>2 DEF Chain, WriterTypes, In, Out
<1> QED
  BY <1>1, <1>2

LEMMA BothTypes ==
    /\ \A s \in Seq(CellType) : s \in Seq(CellType \cup TextType)
    /\ \A s \in Seq(TextType) : s \in Seq(CellType \cup TextType)
<1>1. CellType \subseteq CellType \cup TextType /\ TextType \subseteq CellType \cup TextType
  OBVIOUS
<1> QED
  BY <1>1, SeqMonotonic

LEMMA InitInv == Init => IInv
<1> SUFFICES ASSUME Init PROVE IInv
  OBVIOUS
<1> USE DEF Init
<1>1. 2 ^ cfg.power \in Nat \ {0} /\ cfg.size \in Nat
  BY PortionSize, ConfigIs
<1>2. Prefix \in Seq(Within(1)) /\ <<>> \in Seq(Within(0)) /\ <<>> \in Seq(Within(1))
      /\ <<>> \in Seq(Within(2)) /\ <<>> \in Seq(TextType) /\ <<>> \in Seq(CellType)
  BY WriterAssumption, FillIs, KindsAre DEF Prefix
<1>3. \A t \in WriterTypes : WriterOK(t, writers[t])
  <2>1. ASSUME NEW t \in WriterTypes PROVE WriterOK(t, writers[t])
    <3>1. CASE t = "SEIPD"
      BY <1>2, <3>1 DEF WriterOK, Writer, In, Out
    <3>2. CASE t = "LIT"
      BY <1>2, <3>2 DEF WriterOK, Writer, In, Out
    <3>3. CASE t = "COMP"
      BY <1>2, <3>3 DEF WriterOK, Writer, In, Out
    <3> QED
      BY <3>1, <3>2, <3>3 DEF WriterTypes
  <2> QED
    BY <2>1
<1>4. DepthInv
  BY <1>3 DEF DepthInv
<1>5. ArmorOK(armor) /\ ArmorHolds(armor, <<>>)
  BY NothingWritten DEF ArmorHolds
<1>6. ArmorInv
  <2>1. <<>> \o <<>> = <<>>
    BY <1>2, ConcatEmptySeq
  <2> QED
    BY <1>2, <1>5, <2>1 DEF ArmorInv, TextSoFar
<1>7. TypeOK
  <2>1. writers \in [WriterTypes -> WriterType]
    <3>1. ASSUME NEW t \in WriterTypes PROVE writers[t] \in WriterType
      <4>1. Prefix \in Seq(CellType)
        BY <1>2, WithinAll
      <4> QED
        BY <1>2, <4>1 DEF Writer, WriterType
    <3>2. writers = [t \in WriterTypes |-> writers[t]]
      OBVIOUS
    <3> QED
      BY <3>1, <3>2
  <2>2. \A t \in WriterTypes : Len(writers[t].out) < 2 ^ cfg.power
    BY <1>1 DEF Writer
  <2>3. fed \in 0..cfg.size /\ next \in 0..Len(Chain)
    BY <1>1, ChainIs
  <2>4. <<>> \in Seq(CellType \cup TextType)
    OBVIOUS
  <2> QED
    BY <1>2, <1>5, <2>1, <2>2, <2>3, <2>4 DEF TypeOK, ArmorOK
<1> QED
  BY <1>4, <1>6, <1>7 DEF IInv

\* Update: the armor writer gets the session key packet.
LEMMA NextUpdate == IInv /\ Update => IInv'
<1> SUFFICES ASSUME IInv, Update PROVE IInv'
  OBVIOUS
<1>1. PICK n \in 0..ChunkMax :
         /\ fed + n <= cfg.size /\ fed' = fed + n
         /\ finish' \in BOOLEAN
         /\ WriteESK([i \in 1..n |-> Cell("data", fed + i)])
  BY DEF Update
<1> DEFINE piece  == [i \in 1..n |-> Cell("data", fed + i)]
           packet == IF esk THEN <<Cell("ESK", 0)>> \o Fill("esk", ESKLen) ELSE <<>>
           armed  == ArmorWrite(armor, packet, FALSE)
<1>2. /\ pc = "idle" /\ pc' = "running" /\ next' = 0 /\ esk' = FALSE /\ buf' = piece
      /\ cfg' = cfg /\ writers' = writers /\ output' = output
      /\ IF cfg.armor THEN armor' = armed.a /\ target' = armed.out
                      ELSE armor' = armor /\ target' = packet
  BY <1>1 DEF Update, WriteESK
<1>3. cfg \in Configs /\ fed \in Nat /\ n \in Nat /\ fed' \in 0..cfg'.size
  BY <1>1, <1>2, WriterAssumption, ConfigIs DEF IInv, TypeOK
<1>4. piece \in Seq(Within(0)) /\ piece \in Seq(CellType)
  <2>1. \A i \in 1..n : fed + i \in Nat
    BY <1>3
  <2>2. \A i \in 1..n : Cell("data", fed + i) \in Within(0)
    BY <2>1, CellIs, KindsAre
  <2>3. piece \in Seq(Within(0))
    BY <1>3, <2>2
  <2> HIDE DEF piece
  <2> QED
    BY <2>3, WithinAll
<1>5. packet \in Seq(CellType)
  <2>1. <<Cell("ESK", 0)>> \in Seq(Within(0))
    BY CellIs, KindsAre
  <2>2. Fill("esk", ESKLen) \in Seq(Within(0))
    BY WriterAssumption, FillIs, KindsAre
  <2>3. <<Cell("ESK", 0)>> \o Fill("esk", ESKLen) \in Seq(Within(0))
    BY <2>1, <2>2, ConcatProperties
  <2>4. packet \in Seq(Within(0))
    BY <2>3
  <2> HIDE DEF packet
  <2> QED
    BY <2>4, WithinAll
<1> HIDE DEF piece, packet
<1>6. cfg.armor => /\ ArmorHolds(armed.a, output \o armed.out) /\ armed.out \in Seq(TextType)
                   /\ ArmorOK(armed.a)
  <2> SUFFICES ASSUME cfg.armor
               PROVE  ArmorHolds(armed.a, output \o armed.out) /\ armed.out \in Seq(TextType)
    BY DEF ArmorHolds
  <2>1. target = <<>> /\ output \in Seq(TextType) /\ ArmorHolds(armor, TextSoFar)
    BY <1>2 DEF IInv, ArmorInv
  <2>2. TextSoFar = output
    BY <2>1, ConcatEmptySeq DEF TextSoFar
  <2> QED
    BY <1>5, <2>1, <2>2, ArmorStep
<1> HIDE DEF armed
<1>7. ArmorOK(armor') /\ target' \in Seq(CellType \cup TextType)
  BY <1>2, <1>5, <1>6, BothTypes DEF IInv, ArmorInv
<1>8. ArmorInv'
  <2>1. cfg'.armor => /\ output' \in Seq(TextType) /\ target' \in Seq(TextType)
                      /\ ArmorHolds(armor', output' \o target')
    BY <1>2, <1>6 DEF IInv, ArmorInv
  <2> QED
    BY <1>2, <1>7, <2>1 DEF ArmorInv, TextSoFar
<1>9. DepthInv'
  <2>1. Chain[1] = "LIT"
    BY ChainIs
  <2>2. Chain' = Chain /\ 0 + 1 = 1
    BY <1>2 DEF Chain
  <2>3. In("LIT") = 0
    BY DEF In
  <2>4. buf' \in Seq(Within(In(Chain'[next' + 1])))
    BY <1>2, <1>4, <2>1, <2>2, <2>3
  <2>5. \A t \in WriterTypes : WriterOK(t, writers'[t])
    BY <1>2 DEF IInv, DepthInv
  <2> QED
    BY <1>2, <2>4, <2>5 DEF DepthInv
<1>10. TypeOK'
  <2>1. next' \in 0..Len(Chain')
    BY <1>2, ChainIs DEF Chain
  <2>2. /\ cfg' \in Configs /\ pc' \in {"idle", "running", "finished"} /\ finish' \in BOOLEAN
        /\ esk' \in BOOLEAN /\ buf' \in Seq(CellType)
        /\ output' \in Seq(CellType \cup TextType) /\ writers' \in [WriterTypes -> WriterType]
        /\ \A t \in WriterTypes : Len(writers'[t].out) < 2 ^ cfg'.power
    BY <1>1, <1>2, <1>4 DEF IInv, TypeOK
  <2>3. /\ armor'.status \in {"Header", "Payload", "Finished"}
        /\ armor'.slots \in 1..LineBlocks /\ armor'.part \in Seq(CellType)
        /\ Len(armor'.part) < BlockLen /\ armor'.crc \in Seq(CellType)
    BY <1>7 DEF ArmorOK
  <2> QED
    BY <1>3, <1>7, <2>1, <2>2, <2>3 DEF TypeOK
<1> QED
  BY <1>8, <1>9, <1>10 DEF IInv

\* One packet writer: what it gives has the depth the next one takes.
LEMMA NextPacketWriter == IInv /\ PacketWriter => IInv'
<1> SUFFICES ASSUME IInv, PacketWriter PROVE IInv'
  OBVIOUS
<1> DEFINE t == Chain[next + 1]
           w == [writers[t] EXCEPT !.in = @ \o buf]
<1>1. PICK r \in (IF finish THEN Finish(t, w) ELSE Write(t, w)) :
         writers' = [writers EXCEPT ![t] = r.w] /\ buf' = r.out
  BY DEF PacketWriter
<1>2. /\ pc = "running" /\ next < Len(Chain) /\ next' = next + 1
      /\ cfg' = cfg /\ fed' = fed /\ pc' = pc /\ finish' = finish /\ target' = target
      /\ esk' = esk /\ armor' = armor /\ output' = output
  BY DEF PacketWriter
<1>3. next \in Nat /\ next + 1 \in 1..Len(Chain) /\ Len(Chain) \in Nat /\ cfg \in Configs
      /\ finish \in BOOLEAN
  BY <1>2, ChainIs DEF IInv, TypeOK
<1>4. t \in WriterTypes
  BY <1>3, ChainIs
<1>5. buf \in Seq(Within(In(t))) /\ WriterOK(t, writers[t])
  BY <1>2, <1>4 DEF IInv, DepthInv
<1> HIDE DEF t
<1>6. WriterOK(t, w)
  <2>1. writers[t].in \o buf \in Seq(Within(In(t)))
    BY <1>5, ConcatProperties DEF WriterOK
  <2> QED
    BY <1>5, <2>1 DEF WriterOK
<1> HIDE DEF w
<1>7. WriterOK(t, r.w) /\ r.out \in Seq(Within(Out(t))) /\ Len(r.w.out) < 2 ^ cfg.power
  <2>1. CASE finish
    <3>1. r \in Finish(t, w)
      BY <1>1, <2>1
    <3> QED
      BY <1>3, <1>4, <1>6, <3>1, FinishType
  <2>2. CASE ~finish
    <3>1. r \in Write(t, w)
      BY <1>1, <2>2
    <3> QED
      BY <1>3, <1>4, <1>6, <3>1, WriteType
  <2> QED
    BY <1>3, <2>1, <2>2
<1>8. writers \in [WriterTypes -> WriterType]
  BY DEF IInv, TypeOK
<1>9. \A u \in WriterTypes : WriterOK(u, writers'[u]) /\ Len(writers'[u].out) < 2 ^ cfg'.power
  <2>1. ASSUME NEW u \in WriterTypes
        PROVE  WriterOK(u, writers'[u]) /\ Len(writers'[u].out) < 2 ^ cfg'.power
    <3>1. writers'[u] = IF u = t THEN r.w ELSE writers[u]
      BY <1>1, <1>4, <1>8, <2>1
    <3> QED
      BY <1>2, <1>7, <3>1 DEF IInv, TypeOK, DepthInv
  <2> QED
    BY <2>1
<1>10. \A u \in WriterTypes : \A v : WriterOK(u, v) => v \in WriterType
  <2>1. ASSUME NEW u \in WriterTypes, NEW v, WriterOK(u, v) PROVE v \in WriterType
    <3>1. In(u) \in 0..2 /\ Out(u) \in 0..2 /\ 0 \in 0..2 /\ 1 \in 0..2
      BY WithinGrows
    <3>2. /\ v.in \in Seq(CellType) /\ v.out \in Seq(CellType)
          /\ v.held \in Seq(CellType) /\ v.hashed \in Seq(CellType)
      BY <2>1, <3>1, WithinAll DEF WriterOK
    <3> QED
      BY <2>1, <3>2 DEF WriterOK, WriterType
  <2> QED
    BY <2>1
<1>11. writers' \in [WriterTypes -> WriterType]
  BY <1>1, <1>4, <1>7, <1>8, <1>10
<1>12. buf' \in Seq(CellType)
  BY <1>1, <1>4, <1>7, WithinGrows, WithinAll
<1>13. DepthInv'
  <2>1. Chain' = Chain
    BY <1>2 DEF Chain
  <2>2. ASSUME next' < Len(Chain) PROVE buf' \in Seq(Within(In(Chain[next' + 1])))
    <3>1. next + 1 \in 1..(Len(Chain) - 1)
      BY <1>2, <1>3, <2>2
    <3>2. In(Chain[(next + 1) + 1]) \in {Out(t), Out(t) + 1}
      BY <3>1, ChainIs DEF t
    <3>3. Out(t) \in Nat /\ r.out \in Seq(Within(Out(t) + 1))
      BY <1>4, <1>7, WithinGrows
    <3> QED
      BY <1>1, <1>2, <1>7, <3>2, <3>3
  <2> QED
    BY <1>2, <1>9, <2>1, <2>2 DEF DepthInv
<1>14. TypeOK'
  <2>1. Chain' = Chain /\ next' \in 0..Len(Chain')
    BY <1>2, <1>3 DEF Chain
  <2> QED
    BY <1>2, <1>9, <1>11, <1>12, <2>1 DEF IInv, TypeOK
<1>15. ArmorInv'
  BY <1>2 DEF IInv, ArmorInv, TextSoFar
<1> QED
  BY <1>13, <1>14, <1>15 DEF IInv

\* The end of Update: the armor writer gets the packets.
LEMMA NextReturn == IInv /\ Return => IInv'
<1> SUFFICES ASSUME IInv, Return PROVE IInv'
  OBVIOUS
<1> DEFINE armed == ArmorWrite(armor, buf, finish)
<1>1. /\ pc = "running" /\ next = Len(Chain)
      /\ pc' = IF finish THEN "finished" ELSE "idle"
      /\ buf' = <<>> /\ target' = <<>>
      /\ cfg' = cfg /\ fed' = fed /\ finish' = finish /\ next' = next /\ esk' = esk
      /\ writers' = writers
      /\ IF cfg.armor THEN armor' = armed.a /\ output' = output \o target \o armed.out
                      ELSE armor' = armor /\ output' = output \o target \o buf
  BY DEF Return
<1>2. buf \in Seq(CellType) /\ finish \in BOOLEAN
      /\ target \in Seq(CellType \cup TextType) /\ output \in Seq(CellType \cup TextType)
  BY DEF IInv, TypeOK
<1>3. <<>> \in Seq(CellType) /\ <<>> \in Seq(TextType) /\ <<>> \in Seq(CellType \cup TextType)
  OBVIOUS
<1>4. ASSUME cfg.armor
      PROVE  /\ ArmorOK(armor') /\ output' \in Seq(TextType)
             /\ ~finish => ArmorHolds(armor', output')
             /\ finish => output' = <<Text("header", <<>>)>> \o Lines(armor'.crc)
                                      \o Footer(armor'.crc)
  <2>1. /\ ArmorHolds(armor, TextSoFar) /\ TextSoFar \in Seq(TextType)
        /\ armor' = armed.a /\ output' = TextSoFar \o armed.out
    <3>1. output \o target \in Seq(TextType)
      BY <1>4, ConcatProperties DEF IInv, ArmorInv
    <3> QED
      BY <1>1, <1>4, <3>1 DEF IInv, ArmorInv, TextSoFar
  <2>2. CASE finish
    <3>1. /\ ArmorOK(armed.a) /\ armed.out \in Seq(TextType)
          /\ TextSoFar \o armed.out = <<Text("header", <<>>)>> \o Lines(armed.a.crc)
                                        \o Footer(armed.a.crc)
      BY <1>2, <2>1, <2>2, ArmorEnd
    <3> HIDE DEF armed
    <3>2. TextSoFar \o armed.out \in Seq(TextType)
      BY <2>1, <3>1, ConcatProperties
    <3> QED
      BY <2>1, <2>2, <3>1, <3>2
  <2>3. CASE ~finish
    <3>1. ArmorHolds(armed.a, TextSoFar \o armed.out) /\ armed.out \in Seq(TextType)
      BY <1>2, <2>1, <2>3, ArmorStep
    <3> HIDE DEF armed
    <3>2. TextSoFar \o armed.out \in Seq(TextType) /\ ArmorOK(armed.a)
      BY <2>1, <3>1, ConcatProperties DEF ArmorHolds
    <3> QED
      BY <2>1, <2>3, <3>1, <3>2
  <2> QED
    BY <2>2, <2>3
<1> HIDE DEF armed
<1>5. ArmorOK(armor') /\ output' \in Seq(CellType \cup TextType)
  <2>1. CASE cfg.armor
    BY <1>4, <2>1, BothTypes
  <2>2. CASE ~cfg.armor
    <3>1. armor' = armor /\ output' = output \o target \o buf
      BY <1>1, <2>2
    <3>2. buf \in Seq(CellType \cup TextType)
      BY <1>2, BothTypes
    <3>3. output \o target \in Seq(CellType \cup TextType)
      BY <1>2, ConcatProperties
    <3>4. output \o target \o buf \in Seq(CellType \cup TextType)
      BY <3>2, <3>3, ConcatProperties
    <3> QED
      BY <3>1, <3>4 DEF IInv, ArmorInv
  <2> QED
    BY <2>1, <2>2
<1>6. ArmorInv'
  <2>1. cfg'.armor /\ pc' # "finished" => ArmorHolds(armor', output' \o target')
    <3> SUFFICES ASSUME cfg.armor, ~finish PROVE ArmorHolds(armor', output' \o target')
      BY <1>1
    <3>1. output' \o <<>> = output'
      BY <1>4, ConcatEmptySeq
    <3> QED
      BY <1>1, <1>4, <3>1
  <2> QED
    BY <1>1, <1>3, <1>4, <1>5, <2>1 DEF ArmorInv, TextSoFar
<1>7. DepthInv'
  <2>1. pc' # "running" /\ \A t \in WriterTypes : WriterOK(t, writers'[t])
    BY <1>1 DEF IInv, DepthInv
  <2> QED
    BY <2>1 DEF DepthInv
<1>8. TypeOK'
  <2>1. Chain' = Chain /\ pc' \in {"idle", "running", "finished"}
    BY <1>1, <1>2 DEF Chain
  <2>2. /\ armor'.status \in {"Header", "Payload", "Finished"}
        /\ armor'.slots \in 1..LineBlocks /\ armor'.part \in Seq(CellType)
        /\ Len(armor'.part) < BlockLen /\ armor'.crc \in Seq(CellType)
    BY <1>5 DEF ArmorOK
  <2> QED
    BY <1>1, <1>3, <1>5, <2>1, <2>2 DEF IInv, TypeOK
<1> QED
  BY <1>6, <1>7, <1>8 DEF IInv

LEMMA NextInv == IInv /\ [Next]_vars => IInv'
<1>1. CASE UNCHANGED vars
  BY <1>1 DEF vars, IInv, TypeOK, DepthInv, ArmorInv, TextSoFar, Chain
<1> QED
  BY <1>1, NextUpdate, NextPacketWriter, NextReturn DEF Next, Loop

LEMMA AlwaysInv == Spec => []IInv
  BY InitInv, NextInv, PTL DEF Spec

-----------------------------------------------------------------------------
(* Theorems.                                                               *)

\* The variables keep their types: in particular no writer ever keeps as much
\* as a portion in out_, nor the armor writer as much as a block in part_, and
\* no cell is in more layers than there are packets to put around it.
THEOREM TypeCorrect == Spec => []TypeOK
<1>1. IInv => TypeOK
  BY DEF IInv
<1> QED
  BY <1>1, AlwaysInv, PTL

\* Whatever the payload, the portions, the length of a line and the calls: the
\* text of an armored message is the one the armor writer makes of all octets
\* at once.
THEOREM ArmorInOnePiece == Spec => []ArmorUncut
<1>1. IInv => ArmorUncut
  <2> SUFFICES ASSUME IInv, pc = "finished", cfg.armor
               PROVE  /\ output = ArmorWrite(Started, Stream, TRUE).out
                      /\ \A i \in DOMAIN Blocks(Stream) :
                            i < Len(Blocks(Stream)) => Len(Blocks(Stream)[i].octets) = BlockLen
    BY DEF ArmorUncut
  <2> DEFINE crc == armor.crc
  <2>1. output = <<Text("header", <<>>)>> \o Lines(crc) \o Footer(crc) /\ crc \in Seq(CellType)
    BY DEF IInv, ArmorInv, ArmorOK
  <2> HIDE DEF crc
  <2>2. Stream = crc
    BY <2>1, ArmorAtOnce DEF Stream
  <2>3. output = ArmorWrite(Started, Stream, TRUE).out
    BY <2>1, <2>2, ArmorAtOnce
  <2>4. /\ DOMAIN Blocks(crc) = 1..BlockCount(Len(crc)) /\ Len(Blocks(crc)) = BlockCount(Len(crc))
        /\ \A i \in 1..BlockCount(Len(crc)) :
              i < BlockCount(Len(crc)) => Len(Blocks(crc)[i].octets) = BlockLen
    <3>1. Blocks(crc) \in Seq(TextType) /\ Len(Blocks(crc)) = BlockCount(Len(crc))
      BY <2>1, BlocksAre
    <3>2. DOMAIN Blocks(crc) = 1..Len(Blocks(crc))
      BY <3>1, LenProperties
    <3> QED
      BY <2>1, <3>1, <3>2, BlocksAre
  <2> QED
    BY <2>2, <2>3, <2>4
<1> QED
  BY <1>1, AlwaysInv, PTL

-----------------------------------------------------------------------------
(* Portions.  S is any set of cells that has the length of a portion.      *)

Size == 2 ^ cfg.power
Label == Cell("portion", 2 ^ cfg.power)
Frames(s) == [i \in 1..Portions(s) |-> <<Label>> \o Portion(s, i)]

\* A piece behind a place.
LEMMA TakeOfDrop ==
    ASSUME NEW S, NEW s \in Seq(S), NEW a \in Nat, NEW n \in Nat, a + n <= Len(s)
    PROVE  Take(Drop(s, a), n) = SubSeq(s, a + 1, a + n)
<1> DEFINE d == Drop(s, a)
           x == Take(d, n)
           b == a + n
           y == SubSeq(s, a + 1, b)
<1>1. Len(s) \in Nat /\ a \in 0..Len(s) /\ n \in 0..(Len(s) - a) /\ b \in 0..Len(s)
      /\ a \in 0..b /\ b - a = n
  BY LenProperties
<1>2. d \in Seq(S) /\ Len(d) = Len(s) - a /\ \A i \in 1..(Len(s) - a) : d[i] = s[a + i]
  BY <1>1, DropIs
<1>3. y \in Seq(S) /\ Len(y) = n /\ \A i \in 1..n : y[i] = s[a + i]
  <2> HIDE DEF b
  <2>1. /\ SubSeq(s, a + 1, b) \in Seq(S) /\ Len(SubSeq(s, a + 1, b)) = b - a
        /\ \A i \in 1..(b - a) : SubSeq(s, a + 1, b)[i] = s[a + i]
    BY <1>1, PieceIs
  <2> QED
    BY <1>1, <2>1
<1> HIDE DEF d, y
<1>4. x \in Seq(S) /\ Len(x) = n /\ \A i \in 1..n : x[i] = d[i]
  <2>1. n \in 0..Len(d)
    BY <1>1, <1>2
  <2> QED
    BY <1>2, <2>1, TakeIs
<1> HIDE DEF x
<1>5. \A i \in 1..n : x[i] = y[i]
  <2>1. \A i \in 1..n : i \in 1..(Len(s) - a)
    BY <1>1
  <2> QED
    BY <1>2, <1>3, <1>4, <2>1
<1>6. x = y
  BY <1>3, <1>4, <1>5, SeqEqual
<1> QED
  BY <1>6 DEF x, y, d

\* Every portion is a piece of its length.
LEMMA PortionsAre ==
    ASSUME cfg \in Configs, NEW S, NEW s \in Seq(S)
    PROVE  /\ Size \in Nat \ {0} /\ Portions(s) \in Nat
           /\ Portions(s) * Size \in 0..Len(s)
           /\ Len(s) - Portions(s) * Size \in 0..(Size - 1)
           /\ \A i \in 1..Portions(s) :
                 /\ (i - 1) * Size \in 0..(i * Size) /\ i * Size \in 0..Len(s)
                 /\ i * Size - (i - 1) * Size = Size
                 /\ Portion(s, i) = SubSeq(s, (i - 1) * Size + 1, i * Size)
<1>1. Size \in Nat \ {0} /\ Len(s) \in Nat
  BY PortionSize, LenProperties DEF Size
<1> DEFINE k == Len(s) \div Size
<1>2. Portions(s) = k
  BY DEF Portions, Size
<1>3. k \in Nat /\ k * Size \in 0..Len(s) /\ Len(s) - k * Size \in 0..(Size - 1)
  BY <1>1, WholeSteps
<1> HIDE DEF k
<1>4. ASSUME NEW i \in 1..k
      PROVE  /\ (i - 1) * Size \in 0..(i * Size) /\ i * Size \in 0..Len(s)
             /\ i * Size - (i - 1) * Size = Size
             /\ Portion(s, i) = SubSeq(s, (i - 1) * Size + 1, i * Size)
  <2> DEFINE a == (i - 1) * Size
             b == i * Size
             c == k * Size
  <2>1. a \in Nat /\ b \in Nat /\ c \in Nat /\ b = a + Size /\ b <= c /\ c <= Len(s)
    BY <1>1, <1>3
  <2>2. Portion(s, i) = Take(Drop(s, a), Size)
    BY DEF Portion, Size
  <2> HIDE DEF a, b, c
  <2>3. a + Size <= Len(s) /\ Size \in Nat
    BY <1>1, <2>1
  <2>4. Portion(s, i) = SubSeq(s, a + 1, a + Size)
    BY <2>1, <2>2, <2>3, TakeOfDrop
  <2>5. a \in 0..b /\ b \in 0..Len(s) /\ b - a = Size /\ Portion(s, i) = SubSeq(s, a + 1, b)
    BY <1>1, <2>1, <2>4
  <2> QED
    BY <2>5 DEF a, b
<1> QED
  BY <1>1, <1>2, <1>3, <1>4

\* What goes out in portions is octets and the labels.
LEMMA FramesAre ==
    ASSUME cfg \in Configs, NEW S, Label \in S, NEW s \in Seq(S)
    PROVE  /\ Frames(s) \in Seq(Seq(S)) /\ Len(Frames(s)) = Portions(s)
           /\ PartialBlocks(s) = FlattenSeq(Frames(s)) /\ PartialBlocks(s) \in Seq(S)
           /\ Unfinished(s) = SubSeq(s, Portions(s) * Size + 1, Len(s))
           /\ Unfinished(s) \in Seq(S) /\ Len(Unfinished(s)) = Len(s) - Portions(s) * Size
<1> DEFINE k == Portions(s)
<1>1. /\ Size \in Nat \ {0} /\ k \in Nat /\ k * Size \in 0..Len(s)
      /\ \A i \in 1..k :
            /\ (i - 1) * Size \in 0..(i * Size) /\ i * Size \in 0..Len(s)
            /\ Portion(s, i) = SubSeq(s, (i - 1) * Size + 1, i * Size)
  BY PortionsAre
<1>2. ASSUME NEW i \in 1..k PROVE <<Label>> \o Portion(s, i) \in Seq(S)
  <2>1. Portion(s, i) \in Seq(S)
    <3> DEFINE a == (i - 1) * Size
               b == i * Size
    <3>1. a \in 0..b /\ b \in 0..Len(s) /\ Portion(s, i) = SubSeq(s, a + 1, b)
      BY <1>1
    <3> HIDE DEF a, b
    <3> QED
      BY <3>1, PieceIs
  <2>2. <<Label>> \in Seq(S)
    OBVIOUS
  <2> QED
    BY <2>1, <2>2, ConcatProperties
<1>3. PartialBlocks(s) = FlattenSeq(Frames(s))
  BY DEF PartialBlocks, Frames, Label
<1>4. Unfinished(s) = Drop(s, k * Size)
  BY DEF Unfinished, Size
<1> HIDE DEF k
<1>5. Frames(s) \in Seq(Seq(S)) /\ Len(Frames(s)) = k
  <2>1. Frames(s) = [i \in 1..k |-> <<Label>> \o Portion(s, i)]
    BY DEF Frames, k
  <2> QED
    BY <1>1, <1>2, <2>1
<1>6. PartialBlocks(s) \in Seq(S)
  BY <1>3, <1>5, FlattenType
<1>7. Unfinished(s) \in Seq(S) /\ Len(Unfinished(s)) = Len(s) - k * Size
  BY <1>1, <1>4, DropIs
<1>8. Unfinished(s) = SubSeq(s, k * Size + 1, Len(s))
  BY <1>4 DEF Drop
<1> QED
  BY <1>3, <1>5, <1>6, <1>7, <1>8 DEF k

\* What follows whole portions has portions of its own.
LEMMA PortionsConcat ==
    ASSUME cfg \in Configs, NEW S, Label \in S, NEW s \in Seq(S), NEW t \in Seq(S),
           NEW k \in Nat, Len(s) = k * Size
    PROVE  /\ PartialBlocks(s \o t) = PartialBlocks(s) \o PartialBlocks(t)
           /\ Unfinished(s \o t) = Unfinished(t)
           /\ Portions(s) = k /\ Portions(s \o t) = k + Portions(t)
<1> DEFINE st == s \o t
           n  == Len(t)
           j  == Portions(t)
<1>1. Size \in Nat \ {0} /\ n \in Nat /\ j \in Nat /\ k * Size \in Nat
      /\ k * Size = Size * k
  BY PortionsAre, LenProperties
<1>2. st \in Seq(S) /\ Len(st) = k * Size + n
  BY ConcatProperties
<1>3. Portions(s) = k /\ Portions(st) = k + j
  <2>1. (Size * k + n) \div Size = k + (n \div Size)
    BY <1>1, AddMultiple
  <2>2. (Size * k + 0) \div Size = k + (0 \div Size)
    BY <1>1, AddMultiple
  <2>3. 0 \div Size = 0
    <3>1. 0 = Size * 0 + 0 /\ 0 \in 0..(Size - 1)
      BY <1>1
    <3> QED
      BY <1>1, <3>1, OneQuotient
  <2>4. Size * k + 0 = k * Size /\ Size * k + n = k * Size + n /\ k + 0 = k
    BY <1>1
  <2>5. /\ Portions(s) = Len(s) \div Size /\ Portions(st) = Len(st) \div Size
        /\ Portions(t) = Len(t) \div Size
    BY DEF Portions, Size
  <2> QED
    BY <1>2, <2>1, <2>2, <2>3, <2>4, <2>5
<1> DEFINE f == Frames(s)
           g == Frames(t)
           h == Frames(st)
           fg == f \o g
<1>4. /\ f \in Seq(Seq(S)) /\ Len(f) = k /\ PartialBlocks(s) = FlattenSeq(f)
      /\ g \in Seq(Seq(S)) /\ Len(g) = j /\ PartialBlocks(t) = FlattenSeq(g)
      /\ h \in Seq(Seq(S)) /\ Len(h) = k + j /\ PartialBlocks(st) = FlattenSeq(h)
  <2>1. f \in Seq(Seq(S)) /\ Len(f) = Portions(s) /\ PartialBlocks(s) = FlattenSeq(f)
    BY FramesAre
  <2>2. g \in Seq(Seq(S)) /\ Len(g) = Portions(t) /\ PartialBlocks(t) = FlattenSeq(g)
    BY FramesAre
  <2>3. h \in Seq(Seq(S)) /\ Len(h) = Portions(st) /\ PartialBlocks(st) = FlattenSeq(h)
    <3> HIDE DEF st
    <3> QED
      BY <1>2, FramesAre
  <2> QED
    BY <1>3, <2>1, <2>2, <2>3
<1>5. fg \in Seq(Seq(S)) /\ Len(fg) = k + j
      /\ \A i \in 1..(k + j) : fg[i] = IF i <= k THEN f[i] ELSE g[i - k]
  <2> HIDE DEF f, g
  <2>1. fg \in Seq(Seq(S)) /\ Len(fg) = Len(f) + Len(g)
        /\ \A i \in 1..(Len(f) + Len(g)) : fg[i] = IF i <= Len(f) THEN f[i] ELSE g[i - Len(f)]
    BY <1>4, ConcatProperties
  <2> HIDE DEF fg
  <2> QED
    BY <1>4, <2>1
<1>6. /\ \A i \in 1..k : f[i] = <<Label>> \o SubSeq(s, (i - 1) * Size + 1, i * Size)
                         /\ (i - 1) * Size \in 0..(i * Size) /\ i * Size \in 0..Len(s)
      /\ \A i \in 1..j : g[i] = <<Label>> \o SubSeq(t, (i - 1) * Size + 1, i * Size)
                         /\ (i - 1) * Size \in 0..(i * Size) /\ i * Size \in 0..n
      /\ \A i \in 1..(k + j) : h[i] = <<Label>> \o SubSeq(st, (i - 1) * Size + 1, i * Size)
  <2>1. \A u \in Seq(S) : \A i \in 1..Portions(u) :
           /\ Frames(u)[i] = <<Label>> \o SubSeq(u, (i - 1) * Size + 1, i * Size)
           /\ (i - 1) * Size \in 0..(i * Size) /\ i * Size \in 0..Len(u)
    BY PortionsAre DEF Frames
  <2> HIDE DEF st
  <2> QED
    BY <1>2, <1>3, <2>1
<1> HIDE DEF f, g, h, fg, j, n
<1>7. ASSUME NEW i \in 1..(k + j) PROVE h[i] = fg[i]
  <2>1. CASE i <= k
    <3>1. i \in 1..k
      BY <2>1
    <3>2. SubSeq(st, (i - 1) * Size + 1, i * Size) = SubSeq(s, (i - 1) * Size + 1, i * Size)
      BY <1>6, <3>1, PieceOfFirst DEF st
    <3> QED
      BY <1>5, <1>6, <2>1, <3>1, <3>2
  <2>2. CASE i > k
    <3> DEFINE x == i - k
               a == (x - 1) * Size
               b == x * Size
    <3>1. x \in 1..j /\ ~(i <= k)
      BY <1>1, <2>2
    <3>2. (i - 1) * Size = k * Size + a /\ i * Size = k * Size + b
      BY <1>1
    <3>3. g[x] = <<Label>> \o SubSeq(t, a + 1, b) /\ a \in 0..b /\ b \in 0..n
      BY <1>6, <3>1
    <3>4. fg[i] = g[x]
      BY <1>5, <3>1
    <3> HIDE DEF x, a, b
    <3>5. SubSeq(st, k * Size + a + 1, k * Size + b) = SubSeq(t, a + 1, b)
      <4>1. SubSeq(s \o t, Len(s) + a + 1, Len(s) + b) = SubSeq(t, a + 1, b)
        BY <3>3, PieceOfSecond DEF n
      <4> QED
        BY <4>1 DEF st
    <3>6. h[i] = <<Label>> \o SubSeq(st, k * Size + a + 1, k * Size + b)
      BY <1>6, <3>2
    <3> QED
      BY <3>3, <3>4, <3>5, <3>6
  <2> QED
    BY <1>1, <2>1, <2>2
<1>8. h = fg
  BY <1>4, <1>5, <1>7, SeqEqual
<1>9. PartialBlocks(st) = PartialBlocks(s) \o PartialBlocks(t)
  BY <1>4, <1>8, FlattenConcat DEF fg
<1>10. Unfinished(st) = Unfinished(t)
  <2> DEFINE a == j * Size
  <2>1. Unfinished(t) = SubSeq(t, a + 1, Len(t)) /\ a \in 0..Len(t) /\ Len(t) \in 0..Len(t)
    BY FramesAre, PortionsAre, LenProperties DEF j
  <2>2. Unfinished(st) = SubSeq(st, (k + j) * Size + 1, Len(st))
    <3> HIDE DEF st
    <3> QED
      BY <1>2, <1>3, FramesAre
  <2>3. (k + j) * Size = k * Size + a /\ Len(st) = k * Size + Len(t)
    BY <1>1, <1>2 DEF n
  <2> HIDE DEF a
  <2>4. SubSeq(st, k * Size + a + 1, k * Size + Len(t)) = SubSeq(t, a + 1, Len(t))
    <3>1. SubSeq(s \o t, Len(s) + a + 1, Len(s) + Len(t)) = SubSeq(t, a + 1, Len(t))
      BY <2>1, PieceOfSecond
    <3> QED
      BY <3>1 DEF st
  <2> QED
    BY <2>1, <2>2, <2>3, <2>4
<1> QED
  BY <1>3, <1>9, <1>10 DEF st, j

\* A sequence shorter than a portion has none, one as long as a portion is one.
LEMMA PortionsShort ==
    ASSUME cfg \in Configs, NEW S, Label \in S, NEW s \in Seq(S)
    PROVE  /\ Len(s) < Size => PartialBlocks(s) = <<>> /\ Unfinished(s) = s
           /\ Len(s) = Size => PartialBlocks(s) = <<Label>> \o s /\ Unfinished(s) = <<>>
<1> DEFINE k == Portions(s)
<1>1. Size \in Nat \ {0} /\ Len(s) \in Nat /\ k \in Nat
      /\ k * Size \in 0..Len(s) /\ Len(s) - k * Size \in 0..(Size - 1)
  BY PortionsAre, LenProperties
<1>2. /\ PartialBlocks(s) = FlattenSeq(Frames(s)) /\ Frames(s) \in Seq(Seq(S))
      /\ Len(Frames(s)) = k
      /\ Unfinished(s) = SubSeq(s, k * Size + 1, Len(s))
  BY FramesAre
<1>3. Portions(s) = Len(s) \div Size
  BY DEF Portions, Size
<1>4. ASSUME Len(s) < Size PROVE PartialBlocks(s) = <<>> /\ Unfinished(s) = s
  <2>1. Len(s) = Size * 0 + Len(s) /\ Len(s) \in 0..(Size - 1)
    BY <1>1, <1>4
  <2>2. Len(s) \div Size = 0
    <3> DEFINE n == Len(s)
    <3>1. n \in Int /\ n \in 0..(Size - 1) /\ n = Size * 0 + n /\ 0 \in Int
      BY <1>1, <2>1
    <3> HIDE DEF n
    <3> QED
      BY <1>1, <3>1, OneQuotient, ZenonT(60) DEF n
  <2>3. k = 0 /\ 0 * Size = 0 /\ 0 + 1 = 1
    BY <1>1, <1>3, <2>2
  <2> HIDE DEF k
  <2>4. Frames(s) = <<>> /\ FlattenSeq(<<>>) = <<>>
    BY <1>2, <2>3, EmptySeq DEF FlattenSeq
  <2>5. SubSeq(s, 1, Len(s)) = s
    BY SubSeqFull
  <2> QED
    BY <1>2, <2>3, <2>4, <2>5
<1>5. ASSUME Len(s) = Size PROVE PartialBlocks(s) = <<Label>> \o s /\ Unfinished(s) = <<>>
  <2>1. Len(s) = Size * 1 + 0 /\ 0 \in 0..(Size - 1)
    BY <1>1, <1>5
  <2>2. Len(s) \div Size = 1
    BY <1>1, <2>1, OneQuotient
  <2>3. k = 1 /\ 1 * Size = Size /\ (1 - 1) * Size = 0 /\ 0 + 1 = 1 /\ 1 \in 1..1
    BY <1>1, <1>3, <2>2
  <2>4. Portion(s, 1) = SubSeq(s, (1 - 1) * Size + 1, 1 * Size)
    BY <2>3, PortionsAre
  <2>5. SubSeq(s, 1, Len(s)) = s
    BY SubSeqFull
  <2>6. Portion(s, 1) = s
    BY <1>5, <2>3, <2>4, <2>5
  <2> DEFINE x == <<Label>> \o s
  <2>7. x \in Seq(S)
    <3>1. <<Label>> \in Seq(S)
      OBVIOUS
    <3> QED
      BY <3>1, ConcatProperties
  <2>8. Frames(s)[1] = x
    BY <2>3, <2>6 DEF Frames
  <2> HIDE DEF k, x
  <2>9. Frames(s) = <<x>>
    <3>1. <<x>> \in Seq(Seq(S)) /\ Len(<<x>>) = 1 /\ <<x>>[1] = x
      BY <2>7
    <3>2. \A i \in 1..1 : Frames(s)[i] = <<x>>[i]
      BY <2>8, <3>1
    <3> QED
      BY <1>2, <2>3, <3>1, <3>2, SeqEqual
  <2>10. FlattenSeq(<<x>>) = x
    BY <2>7, FlattenSingle
  <2>11. SubSeq(s, Size + 1, Len(s)) = <<>>
    BY <1>1, <1>5, SubSeqEmpty
  <2> QED
    BY <1>2, <2>3, <2>9, <2>10, <2>11 DEF x
<1> QED
  BY <1>4, <1>5

\* The whole portions of a sequence and what is left.
LEMMA PortionsSplit ==
    ASSUME cfg \in Configs, NEW S, Label \in S, NEW s \in Seq(S)
    PROVE  \E w \in Seq(S) : /\ Len(w) = Portions(s) * Size /\ s = w \o Unfinished(s)
                             /\ PartialBlocks(s) = PartialBlocks(w)
<1> DEFINE k == Portions(s)
           w == Take(s, k * Size)
           u == Unfinished(s)
<1>1. k \in Nat /\ Size \in Nat \ {0} /\ k * Size \in 0..Len(s)
      /\ Len(s) - k * Size \in 0..(Size - 1)
  BY PortionsAre
<1>2. w \in Seq(S) /\ Len(w) = k * Size
  BY <1>1, TakeIs
<1>3. u \in Seq(S) /\ Len(u) = Len(s) - k * Size /\ u = Drop(s, k * Size)
  BY FramesAre DEF Drop
<1>4. w \o u = s
  BY <1>1, <1>3, TakeDrop
<1> HIDE DEF w, u, k
<1>5. PartialBlocks(w \o u) = PartialBlocks(w) \o PartialBlocks(u)
  BY <1>1, <1>2, <1>3, PortionsConcat
<1>6. PartialBlocks(u) = <<>>
  BY <1>1, <1>3, PortionsShort
<1>7. PartialBlocks(w) \in Seq(S)
  BY <1>2, FramesAre
<1>8. PartialBlocks(s) = PartialBlocks(w)
  BY <1>4, <1>5, <1>6, <1>7, ConcatEmptySeq
<1> QED
  BY <1>2, <1>4, <1>8 DEF u, k

\* Portions do not depend on the pieces in which the body came.
LEMMA PortionsGoOn ==
    ASSUME cfg \in Configs, NEW S, Label \in S, NEW s \in Seq(S), NEW t \in Seq(S)
    PROVE  /\ PartialBlocks(s \o t) = PartialBlocks(s) \o PartialBlocks(Unfinished(s) \o t)
           /\ Unfinished(s \o t) = Unfinished(Unfinished(s) \o t)
<1>1. PICK w \in Seq(S) : /\ Len(w) = Portions(s) * Size /\ s = w \o Unfinished(s)
                          /\ PartialBlocks(s) = PartialBlocks(w)
  BY PortionsSplit
<1> DEFINE u == Unfinished(s)
           k == Portions(s)
<1>2. u \in Seq(S) /\ k \in Nat
  BY FramesAre, PortionsAre
<1> HIDE DEF u, k
<1>3. u \o t \in Seq(S)
  BY <1>2, ConcatProperties
<1>4. s \o t = w \o (u \o t)
  <2>1. (w \o u) \o t = w \o (u \o t)
    BY <1>2, ConcatAssociative
  <2>2. s = w \o u
    BY <1>1 DEF u
  <2> QED
    BY <2>1, <2>2
<1>5. /\ PartialBlocks(w \o (u \o t)) = PartialBlocks(w) \o PartialBlocks(u \o t)
      /\ Unfinished(w \o (u \o t)) = Unfinished(u \o t)
  BY <1>1, <1>2, <1>3, PortionsConcat DEF k
<1> QED
  BY <1>1, <1>4, <1>5 DEF u

-----------------------------------------------------------------------------
(* What a packet writer makes of what it is given: the fields in front,    *)
(* then, in a layer of its own, what it starts with, what it was given and *)
(* its trailer.                                                            *)

Trailers(t) == IF t = "LIT" THEN {"eoz", "tag", "sha"}
               ELSE IF t = "COMP" THEN {"tag", "sha"} ELSE {}
Emits(t) == {c \in Within(Out(t)) : c.kind \notin Trailers(t)}
Takes(t) == IF t = "SEIPD" THEN Emits("COMP") ELSE Emits("LIT")
Keeps(t) == IF t = "LIT" THEN Emits("LIT")
            ELSE IF t = "COMP" THEN {c \in Within(0) : c.kind \notin Trailers("COMP")}
            ELSE Within(1)

Fields(t) == IF t = "LIT" THEN <<Cell("mode", 0), Cell("name", 0)>>
             ELSE IF t = "COMP" THEN <<Cell("algo", 0)>> ELSE <<Cell("version", 0)>>
Start(t)   == IF t = "SEIPD" THEN Prefix ELSE <<>>
Trailer(t) == IF t = "LIT" THEN <<>> ELSE IF t = "COMP" THEN <<Cell("eoz", 0)>> ELSE MDC
Layer(t, z) == IF t = "LIT" THEN z ELSE Wrap(z)

\* z is what has gone into the body of what came, the layer off.
BodyOf(t, w, z) == IF w.first THEN <<>> ELSE Fields(t) \o Layer(t, z)

Holding(t, w, came, z) ==
    /\ z \in Seq(Keeps(t)) /\ came \in Seq(Takes(t))
    /\ z \o (w.held \o w.in) = Start(t) \o came
    /\ t = "SEIPD" => w.hashed = z
    /\ t # "COMP" => w.held = <<>>
    /\ w.first => z = <<>>
Little(t, w) == IF t = "SEIPD" THEN Len(w.in) < Gran ELSE w.in = <<>>
Ended(t, w, came, z) ==
    /\ z \in Seq(Keeps(t)) /\ came \in Seq(Takes(t)) /\ ~w.first
    /\ z = (Start(t) \o came) \o Trailer(t)
    /\ t = "SEIPD" => w.hashed = (Start(t) \o came) \o <<Cell("tag", 0)>>

\* What a packet gives is none of the octets that end a packet around it.
LEMMA SetsAre ==
    /\ Emits("LIT") \subseteq Emits("COMP")
    /\ Emits("LIT") \subseteq Keeps("COMP") /\ Emits("COMP") \subseteq Keeps("SEIPD")
    /\ \A t \in WriterTypes : Emits(t) \subseteq Within(Out(t)) /\ Keeps(t) \subseteq Within(In(t))
                              /\ Takes(t) \subseteq Keeps(t)
    /\ \A t \in WriterTypes : Fields(t) \in Seq(Emits(t)) /\ Cell(t, 0) \in Emits(t)
    /\ \A t \in WriterTypes : \A n \in Nat : Cell("last", n) \in Emits(t)
                                             /\ Cell("portion", n) \in Emits(t)
    /\ Cell("eoz", 0) \in Keeps("COMP")
    /\ Prefix \in Seq(Keeps("SEIPD")) /\ MDC \in Seq(Keeps("SEIPD"))
<1>0. Out("LIT") = 0 /\ Out("COMP") = 1 /\ Out("SEIPD") = 2
      /\ In("LIT") = 0 /\ In("COMP") = 0 /\ In("SEIPD") = 1
  BY DEF Out, In
<1>1. /\ Emits("LIT") = {c \in Within(0) : c.kind \notin {"eoz", "tag", "sha"}}
      /\ Emits("COMP") = {c \in Within(1) : c.kind \notin {"tag", "sha"}}
      /\ Emits("SEIPD") = {c \in Within(2) : c.kind \notin {}}
      /\ Keeps("LIT") = Emits("LIT") /\ Takes("LIT") = Emits("LIT")
      /\ Keeps("COMP") = {c \in Within(0) : c.kind \notin {"tag", "sha"}}
      /\ Takes("COMP") = Emits("LIT")
      /\ Keeps("SEIPD") = Within(1) /\ Takes("SEIPD") = Emits("COMP")
  BY <1>0 DEF Emits, Keeps, Trailers, Takes
<1> DEFINE L == Emits("LIT")
           C == Emits("COMP")
           S == Emits("SEIPD")
           K == Keeps("COMP")
           M == Keeps("SEIPD")
<1>2. Within(0) \subseteq Within(1)
  BY DEF Within
<1>3. L \subseteq C /\ L \subseteq K /\ C \subseteq M /\ L \subseteq Within(0)
      /\ C \subseteq Within(1) /\ S \subseteq Within(2) /\ K \subseteq Within(0)
      /\ M \subseteq Within(1)
  <2>1. L \subseteq C
    BY <1>1, <1>2
  <2>2. L \subseteq K
    BY <1>1
  <2>3. C \subseteq M /\ C \subseteq Within(1) /\ S \subseteq Within(2)
    BY <1>1
  <2>4. K \subseteq Within(0) /\ L \subseteq Within(0) /\ M \subseteq Within(1)
    BY <1>1
  <2> QED
    BY <2>1, <2>2, <2>3, <2>4
<1>4. /\ Takes("LIT") = L /\ Takes("COMP") = L /\ Takes("SEIPD") = C /\ Keeps("LIT") = L
  BY <1>1
<1>5. /\ L = {c \in Within(0) : c.kind \notin {"eoz", "tag", "sha"}}
      /\ C = {c \in Within(1) : c.kind \notin {"tag", "sha"}}
      /\ S = {c \in Within(2) : c.kind \notin {}}
      /\ K = {c \in Within(0) : c.kind \notin {"tag", "sha"}}
      /\ M = Within(1)
  BY <1>1
<1> HIDE DEF L, C, S, K, M
<1>6. \A t \in WriterTypes : Emits(t) \subseteq Within(Out(t)) /\ Keeps(t) \subseteq Within(In(t))
                             /\ Takes(t) \subseteq Keeps(t)
  BY <1>0, <1>3, <1>4 DEF WriterTypes, L, C, S, K, M
<1>7. \A k \in Kinds : \A v \in Nat : /\ k \notin {"eoz", "tag", "sha"} =>
                                          Cell(k, v) \in L /\ Cell(k, v) \in C
                                      /\ k \notin {"tag", "sha"} => Cell(k, v) \in K
                                      /\ Cell(k, v) \in S /\ Cell(k, v) \in M
  <2>1. \A k \in Kinds : \A v \in Nat : Cell(k, v) \in Within(0) /\ Cell(k, v) \in Within(1)
                                        /\ Cell(k, v) \in Within(2) /\ Cell(k, v).kind = k
    BY CellIs DEF Cell
  <2> HIDE DEF Cell
  <2> QED
    BY <1>5, <2>1
<1>8. \A t \in WriterTypes : \A n \in Nat : /\ Cell("last", n) \in Emits(t)
                                            /\ Cell("portion", n) \in Emits(t)
                                            /\ Cell(t, 0) \in Emits(t)
  <2>1. \A n \in Nat : \A k \in {"last", "portion", "LIT", "COMP", "SEIPD"} :
           Cell(k, n) \in L /\ Cell(k, n) \in C /\ Cell(k, n) \in S
    BY <1>7, KindsAre
  <2> QED
    BY <2>1 DEF WriterTypes, L, C, S
<1>9. \A t \in WriterTypes : Fields(t) \in Seq(Emits(t))
  <2>1. /\ Cell("mode", 0) \in L /\ Cell("name", 0) \in L /\ Cell("algo", 0) \in C
        /\ Cell("version", 0) \in S
    BY <1>7, KindsAre
  <2>2. /\ <<Cell("mode", 0), Cell("name", 0)>> \in Seq(L)
        /\ <<Cell("algo", 0)>> \in Seq(C) /\ <<Cell("version", 0)>> \in Seq(S)
    BY <2>1
  <2> QED
    BY <2>2 DEF Fields, WriterTypes, L, C, S
<1>10. Cell("eoz", 0) \in Keeps("COMP")
  BY <1>7, KindsAre DEF K
<1>11. Prefix \in Seq(Within(1))
  BY WriterAssumption, FillIs, KindsAre DEF Prefix
<1>12. MDC \in Seq(Within(1))
  BY MDCType
<1> QED
  BY <1>1, <1>3, <1>6, <1>8, <1>9, <1>10, <1>11, <1>12 DEF L, C, S, K, M

\* Parts of a sequence over a set are sequences over it.
LEMMA PartsOf ==
    ASSUME NEW S, NEW T, NEW s \in Seq(T), NEW t \in Seq(T), s \o t \in Seq(S)
    PROVE  s \in Seq(S) /\ t \in Seq(S)
<1> DEFINE st == s \o t
           m  == Len(s)
           n  == Len(t)
<1>1. m \in Nat /\ n \in Nat
  BY LenProperties
<1>2. Len(st) = m + n /\ \A i \in 1..(m + n) : st[i] = IF i <= m THEN s[i] ELSE t[i - m]
  BY ConcatProperties
<1> HIDE DEF st, m, n
<1>3. \A i \in 1..(m + n) : st[i] \in S
  BY <1>2, ElementOfSeq DEF st
<1>4. \A i \in 1..m : s[i] \in S
  <2>1. \A i \in 1..m : i \in 1..(m + n) /\ i <= m
    BY <1>1
  <2> QED
    BY <1>2, <1>3, <2>1
<1>5. \A i \in 1..n : t[i] \in S
  <2>1. ASSUME NEW i \in 1..n PROVE t[i] \in S
    <3>1. m + i \in 1..(m + n) /\ ~(m + i <= m) /\ (m + i) - m = i
      BY <1>1
    <3> QED
      BY <1>2, <1>3, <3>1
  <2> QED
    BY <2>1
<1> QED
  BY <1>4, <1>5, SeqDef, LenProperties DEF m, n

\* A layer around the parts is one around the whole.
LEMMA WrapConcat ==
    ASSUME NEW d \in Nat, NEW s \in Seq(Within(d)), NEW t \in Seq(Within(d))
    PROVE  Wrap(s \o t) = Wrap(s) \o Wrap(t)
<1> DEFINE st == s \o t
           m == Len(s)
           n == Len(t)
           a == Wrap(s)
           b == Wrap(t)
           c == Wrap(st)
           ab == a \o b
           Deep(x) == [x EXCEPT !.depth = @ + 1]
<1>1. m \in Nat /\ n \in Nat /\ DOMAIN s = 1..m /\ DOMAIN t = 1..n
  BY LenProperties
<1>2. st \in Seq(Within(d)) /\ Len(st) = m + n /\ DOMAIN st = 1..(m + n)
      /\ \A i \in 1..(m + n) : st[i] = IF i <= m THEN s[i] ELSE t[i - m]
  BY ConcatProperties, LenProperties
<1> HIDE DEF st
<1>3. /\ a \in Seq(Within(d + 1)) /\ Len(a) = m
      /\ b \in Seq(Within(d + 1)) /\ Len(b) = n
      /\ c \in Seq(Within(d + 1)) /\ Len(c) = m + n
  BY <1>2, WrapIs
<1> HIDE DEF Deep
<1>4. /\ \A i \in 1..m : a[i] = Deep(s[i])
      /\ \A i \in 1..n : b[i] = Deep(t[i])
      /\ \A i \in 1..(m + n) : c[i] = Deep(st[i])
  BY <1>1, <1>2 DEF Wrap, Deep
<1> HIDE DEF a, b, c, m, n
<1>5. ab \in Seq(Within(d + 1)) /\ Len(ab) = m + n
      /\ \A i \in 1..(m + n) : ab[i] = IF i <= m THEN a[i] ELSE b[i - m]
  <2>1. ab \in Seq(Within(d + 1)) /\ Len(ab) = Len(a) + Len(b)
        /\ \A i \in 1..(Len(a) + Len(b)) : ab[i] = IF i <= Len(a) THEN a[i] ELSE b[i - Len(a)]
    BY <1>3, ConcatProperties
  <2> HIDE DEF ab
  <2> QED
    BY <1>3, <2>1
<1> HIDE DEF ab
<1>6. ASSUME NEW i \in 1..(m + n) PROVE c[i] = ab[i]
  <2>1. i <= m => i \in 1..m
    BY <1>1
  <2>2. ~(i <= m) => i - m \in 1..n
    BY <1>1
  <2> QED
    BY <1>2, <1>4, <1>5, <2>1, <2>2
<1>7. c = ab
  BY <1>3, <1>5, <1>6, SeqEqual
<1> QED
  BY <1>7 DEF a, b, c, ab, st

\* What the body of a packet is made of.
LEMMA LayerIs ==
    ASSUME NEW t \in WriterTypes, NEW s \in Seq(Keeps(t)), NEW u \in Seq(Keeps(t))
    PROVE  /\ Layer(t, s) \in Seq(Emits(t)) /\ Len(Layer(t, s)) = Len(s)
           /\ Layer(t, s \o u) = Layer(t, s) \o Layer(t, u)
<1>1. CASE t = "LIT"
  BY <1>1 DEF Layer, Keeps
<1>2. ASSUME NEW d \in Nat, t # "LIT", Keeps(t) \subseteq Within(d),
             \A c \in Keeps(t) : [c EXCEPT !.depth = @ + 1] \in Emits(t)
      PROVE  /\ Wrap(s) \in Seq(Emits(t)) /\ Len(Wrap(s)) = Len(s)
             /\ Wrap(s \o u) = Wrap(s) \o Wrap(u)
  <2>1. s \in Seq(Within(d)) /\ u \in Seq(Within(d))
    BY <1>2, SeqMonotonic
  <2>2. Wrap(s \o u) = Wrap(s) \o Wrap(u) /\ Len(Wrap(s)) = Len(s)
    BY <2>1, WrapConcat, WrapIs
  <2>3. Len(s) \in Nat /\ DOMAIN s = 1..Len(s) /\ \A i \in 1..Len(s) : s[i] \in Keeps(t)
    BY LenProperties, ElementOfSeq
  <2>4. Wrap(s) \in Seq(Emits(t))
    BY <1>2, <2>3 DEF Wrap
  <2> QED
    BY <2>2, <2>4
<1>3. CASE t = "COMP"
  <2>1. Keeps(t) \subseteq Within(0)
    BY <1>3 DEF Keeps
  <2>2. \A c \in Keeps(t) : [c EXCEPT !.depth = @ + 1] \in Emits(t)
    BY <1>3 DEF Keeps, Emits, Within, Out, In, Trailers
  <2> QED
    BY <1>2, <1>3, <2>1, <2>2 DEF Layer
<1>4. CASE t = "SEIPD"
  <2>1. Keeps(t) \subseteq Within(1)
    BY <1>4 DEF Keeps
  <2>2. \A c \in Keeps(t) : [c EXCEPT !.depth = @ + 1] \in Emits(t)
    BY <1>4 DEF Keeps, Emits, Within, Out, In, Trailers
  <2> QED
    BY <1>2, <1>4, <2>1, <2>2 DEF Layer
<1> QED
  BY <1>1, <1>3, <1>4 DEF WriterTypes

\* More of the body: the fields with the first of it.
LEMMA BodyMore ==
    ASSUME NEW t \in WriterTypes, NEW w, NEW v, NEW z \in Seq(Keeps(t)), NEW o \in Seq(Keeps(t)),
           w.first \in BOOLEAN, w.first => z = <<>>, ~v.first
    PROVE  /\ Once(w, Fields(t)) \o Layer(t, o) \in Seq(Emits(t))
           /\ BodyOf(t, w, z) \in Seq(Emits(t))
           /\ BodyOf(t, v, z \o o) = BodyOf(t, w, z) \o (Once(w, Fields(t)) \o Layer(t, o))
<1> DEFINE F == Fields(t)
           a == Layer(t, z)
           b == Layer(t, o)
<1>1. F \in Seq(Emits(t)) /\ a \in Seq(Emits(t)) /\ b \in Seq(Emits(t))
      /\ <<>> \in Seq(Emits(t))
  BY SetsAre, LayerIs
<1>2. BodyOf(t, v, z \o o) = F \o (a \o b)
  BY LayerIs DEF BodyOf
<1>3. /\ BodyOf(t, w, z) = IF w.first THEN <<>> ELSE F \o a
      /\ Once(w, F) = IF w.first THEN F ELSE <<>>
  BY DEF BodyOf, Once
<1>4. w.first => a = <<>>
  <2> SUFFICES ASSUME w.first PROVE a = <<>>
    OBVIOUS
  <2>1. Len(a) = Len(z) /\ z = <<>>
    BY LayerIs
  <2>2. Len(a) = 0
    BY <2>1
  <2> HIDE DEF a
  <2> QED
    BY <1>1, <2>2, EmptySeq
<1> HIDE DEF F, a, b
<1>5. CASE w.first
  <2>1. a \o b = b /\ <<>> \o (F \o b) = F \o b /\ F \o b \in Seq(Emits(t))
    BY <1>1, <1>4, <1>5, ConcatEmptySeq, ConcatProperties
  <2> QED
    BY <1>1, <1>2, <1>3, <1>5, <2>1 DEF F, b
<1>6. CASE ~w.first
  <2>1. (F \o a) \o b = F \o (a \o b) /\ <<>> \o b = b /\ F \o a \in Seq(Emits(t))
    BY <1>1, ConcatAssociative, ConcatEmptySeq, ConcatProperties, SMTT(30)
  <2> QED
    BY <1>1, <1>2, <1>3, <1>6, <2>1 DEF F, b
<1> QED
  BY <1>5, <1>6

\* Where the parentheses are does not matter.
LEMMA Joined ==
    ASSUME NEW S, NEW s \in Seq(S), NEW t \in Seq(S), NEW u \in Seq(S)
    PROVE  /\ (s \o t) \o u = s \o (t \o u) /\ s \o t \in Seq(S) /\ t \o u \in Seq(S)
           /\ s \o (t \o u) \in Seq(S)
<1>1. s \o t \in Seq(S) /\ t \o u \in Seq(S)
  BY ConcatProperties
<1>2. s \o (t \o u) \in Seq(S)
  BY <1>1, ConcatProperties
<1>3. (s \o t) \o u = s \o (t \o u)
  BY ConcatAssociative
<1> QED
  BY <1>1, <1>2, <1>3

\* What has been taken is what was given and what is still to come.
LEMMA HoldingMore ==
    ASSUME NEW t \in WriterTypes, NEW w, WriterOK(t, w), NEW came, NEW z, Holding(t, w, came, z),
           NEW more \in Seq(Takes(t))
    PROVE  LET v == [w EXCEPT !.in = @ \o more]
           IN  Holding(t, v, came \o more, z)
<1> DEFINE v == [w EXCEPT !.in = @ \o more]
<1>1. v.in = w.in \o more /\ v.held = w.held /\ v.hashed = w.hashed /\ v.first = w.first
  BY DEF WriterOK
<1> HIDE DEF v
<1>2. more \in Seq(Within(In(t))) /\ Start(t) \in Seq(Within(In(t)))
      /\ w.held \in Seq(Within(In(t))) /\ w.in \in Seq(Within(In(t)))
      /\ came \in Seq(Within(In(t))) /\ z \in Seq(Within(In(t)))
  <2>1. Takes(t) \subseteq Within(In(t)) /\ Keeps(t) \subseteq Within(In(t))
    BY SetsAre
  <2>2. Start(t) \in Seq(Within(In(t)))
    <3>1. CASE t = "SEIPD"
      <4>1. Prefix \in Seq(Keeps("SEIPD")) /\ Keeps("SEIPD") \subseteq Within(In("SEIPD"))
        BY SetsAre, <3>1
      <4>2. Prefix \in Seq(Within(In("SEIPD")))
        BY <4>1, SeqMonotonic
      <4> QED
        BY <3>1, <4>2 DEF Start
    <3>2. CASE t # "SEIPD"
      BY <3>2 DEF Start
    <3> QED
      BY <3>1, <3>2
  <2>3. w.held \in Seq(Within(In(t)))
    BY WithinGrows DEF WriterOK, In
  <2>4. more \in Seq(Within(In(t))) /\ came \in Seq(Within(In(t))) /\ z \in Seq(Within(In(t)))
    BY <2>1, SeqMonotonic DEF Holding
  <2> QED
    BY <2>2, <2>3, <2>4 DEF WriterOK
<1>3. z \o (v.held \o v.in) = Start(t) \o (came \o more)
  <2> DEFINE W  == Within(In(t))
             wh == w.held
             wi == w.in
             s  == Start(t)
             h  == wh \o wi
  <2>0. more \in Seq(W) /\ s \in Seq(W) /\ wh \in Seq(W) /\ wi \in Seq(W) /\ came \in Seq(W)
        /\ z \in Seq(W)
    BY <1>2
  <2>1. v.held \o v.in = wh \o (wi \o more)
    BY <1>1
  <2> HIDE DEF W, wh, wi, s
  <2>2. (wh \o wi) \o more = wh \o (wi \o more) /\ h \in Seq(W)
    BY <2>0, Joined, SMTT(30)
  <2> HIDE DEF h
  <2>3. z \o (h \o more) = (z \o h) \o more
    <3>1. z \in Seq(W) /\ h \in Seq(W) /\ more \in Seq(W)
      BY <2>0, <2>2
    <3> QED
      BY <3>1, ConcatAssociative, SMTT(30)
  <2>4. (s \o came) \o more = s \o (came \o more)
    <3>1. s \in Seq(W) /\ came \in Seq(W) /\ more \in Seq(W)
      BY <2>0
    <3> QED
      BY <3>1, ConcatAssociative, SMTT(30)
  <2>5. z \o h = s \o came
    BY DEF Holding, h, wh, wi, s
  <2>6. v.held \o v.in = h \o more
    BY <2>1, <2>2 DEF h
  <2> QED
    BY <2>3, <2>4, <2>5, <2>6 DEF s
<1>4. came \o more \in Seq(Takes(t))
  BY ConcatProperties DEF Holding
<1>5. Holding(t, v, came \o more, z)
  BY <1>1, <1>3, <1>4 DEF Holding
<1> QED
  BY <1>5 DEF v

\* One turn of a writer: o goes into the body.
Turned(t, w, v, came, z, o, body, done) ==
    /\ o \in Seq(Keeps(t)) /\ body = Once(w, Fields(t)) \o Layer(t, o)
    /\ ~v.first /\ v.header = w.header /\ v.out = w.out
    /\ IF done THEN Ended(t, v, came, z \o o)
               ELSE Holding(t, v, came, z \o o) /\ Little(t, v)

\* DoWrite of the literal packet, the compressor and the encryption.
LEMMA LitTurn ==
    ASSUME NEW w, WriterOK("LIT", w), NEW came, NEW z, Holding("LIT", w, came, z),
           NEW done \in BOOLEAN, NEW b \in WriteLIT(w)
    PROVE  \E o : Turned("LIT", w, b.w, came, z, o, b.body, done)
<1> DEFINE v == [w EXCEPT !.first = FALSE, !.in = <<>>]
           K == Keeps("LIT")
<1>1. b = [w |-> v, body |-> Once(w, <<Cell("mode", 0), Cell("name", 0)>>) \o w.in]
  BY DEF WriteLIT, Body
<1>2. v.first = FALSE /\ v.in = <<>> /\ v.held = w.held /\ v.header = w.header /\ v.out = w.out
  BY DEF WriterOK
<1> HIDE DEF v
<1>3. b.w = v /\ b.body = Once(w, Fields("LIT")) \o Layer("LIT", w.in)
  BY <1>1 DEF Fields, Layer
<1>4. z \in Seq(K) /\ came \in Seq(K) /\ w.held = <<>> /\ z \o (<<>> \o w.in) = <<>> \o came
  BY DEF Holding, Start, Takes, Keeps
<1>5. w.in \in Seq(Within(0))
  BY DEF WriterOK, In
<1>6. z \o w.in = came
  BY <1>4, <1>5, ConcatEmptySeq
<1>7. w.in \in Seq(K)
  <2>1. z \in Seq(Within(0))
    <3>1. Keeps("LIT") \subseteq Within(In("LIT"))
      BY SetsAre DEF WriterTypes
    <3> QED
      BY <1>4, <3>1, SeqMonotonic DEF In
  <2> QED
    BY <1>4, <1>5, <1>6, <2>1, PartsOf
<1>8. CASE done
  <2>1. (<<>> \o came) \o <<>> = came /\ z \o w.in \in Seq(K)
    BY <1>4, <1>6, ConcatEmptySeq
  <2>2. Ended("LIT", v, came, z \o w.in)
    BY <1>2, <1>4, <1>6, <2>1 DEF Ended, Start, Trailer, Takes, Keeps
  <2> QED
    BY <1>2, <1>3, <1>7, <1>8, <2>2 DEF Turned
<1>9. CASE ~done
  <2>1. came \o (<<>> \o <<>>) = <<>> \o came /\ z \o w.in \in Seq(K)
    BY <1>4, <1>6, ConcatEmptySeq
  <2>2. Holding("LIT", v, came, z \o w.in) /\ Little("LIT", v)
    BY <1>2, <1>4, <1>6, <2>1 DEF Holding, Start, Takes, Keeps, Little
  <2> QED
    BY <1>2, <1>3, <1>7, <1>9, <2>2 DEF Turned
<1> QED
  BY <1>8, <1>9

LEMMA CompTurn ==
    ASSUME NEW w, WriterOK("COMP", w), NEW came, NEW z, Holding("COMP", w, came, z),
           NEW done \in BOOLEAN, NEW b \in WriteCOMP(w, done)
    PROVE  \E o : Turned("COMP", w, b.w, came, z, o, b.body, done)
<1> DEFINE all == w.held \o w.in
           K == Keeps("COMP")
           eoz == Cell("eoz", 0)
<1>1. PICK y \in Deflate(all, done) :
         b = [w    |-> [w EXCEPT !.first = FALSE, !.in = <<>>, !.held = y.held],
              body |-> Once(w, <<Cell("algo", 0)>>) \o Wrap(y.out)]
  BY DEF WriteCOMP, Body
<1> DEFINE v == [w EXCEPT !.first = FALSE, !.in = <<>>, !.held = y.held]
<1>2. v.first = FALSE /\ v.in = <<>> /\ v.held = y.held /\ v.header = w.header /\ v.out = w.out
  BY DEF WriterOK
<1> HIDE DEF v
<1>3. b.w = v /\ b.body = Once(w, Fields("COMP")) \o Layer("COMP", y.out)
  BY <1>1 DEF Fields, Layer, v
<1>4. z \in Seq(K) /\ came \in Seq(Takes("COMP")) /\ z \o all = <<>> \o came
      /\ came \in Seq(K) /\ eoz \in K
  <2>1. Takes("COMP") \subseteq Keeps("COMP")
    BY SetsAre DEF WriterTypes
  <2> QED
    BY <2>1, SetsAre, SeqMonotonic DEF Holding, Start
<1>5. all \in Seq(Within(0))
  BY ConcatProperties DEF WriterOK, In
<1> HIDE DEF all, eoz, K
<1>6. z \o all = came /\ all \in Seq(K)
  <2>1. z \o all = came
    BY <1>4, ConcatEmptySeq
  <2>2. z \in Seq(Within(0))
    <3>1. Keeps("COMP") \subseteq Within(In("COMP"))
      BY SetsAre DEF WriterTypes
    <3> QED
      BY <1>4, <3>1, SeqMonotonic DEF In, K
  <2> QED
    BY <1>4, <1>5, <2>1, <2>2, PartsOf
<1>7. CASE done
  <2>1. y.out = Append(all, eoz) /\ y.held = <<>>
    BY <1>1, <1>7 DEF Deflate, eoz
  <2>2. y.out \in Seq(K) /\ z \o y.out = Append(came, eoz) /\ Append(came, eoz) \in Seq(K)
    <3>1. Append(all, eoz) = all \o <<eoz>> /\ Append(came, eoz) = came \o <<eoz>>
      BY <1>4, <1>6, AppendIsConcat
    <3>2. <<eoz>> \in Seq(K)
      BY <1>4
    <3> DEFINE e == <<eoz>>
    <3> HIDE DEF e
    <3>5. e \in Seq(K) /\ z \in Seq(K) /\ all \in Seq(K)
      BY <1>4, <1>6, <3>2 DEF e
    <3>3. z \o (all \o e) = (z \o all) \o e
      BY <3>5, Joined
    <3>4. all \o <<eoz>> \in Seq(K) /\ came \o <<eoz>> \in Seq(K)
      BY <1>4, <1>6, <3>2, ConcatProperties
    <3> QED
      BY <1>6, <2>1, <3>1, <3>3, <3>4 DEF e
  <2>3. (<<>> \o came) \o <<eoz>> = Append(came, eoz)
    BY <1>4, ConcatEmptySeq, AppendIsConcat
  <2>4. Ended("COMP", v, came, z \o y.out)
    BY <1>2, <1>4, <2>2, <2>3 DEF Ended, Start, Trailer, eoz, K
  <2> QED
    BY <1>2, <1>3, <1>7, <2>2, <2>4 DEF Turned, K
<1>8. CASE ~done
  <2>1. PICK n \in {0, Len(all)} : y = [out |-> Take(all, n), held |-> Drop(all, n)]
    BY <1>1, <1>8 DEF Deflate
  <2>2. n \in 0..Len(all) /\ y.out = Take(all, n) /\ y.held = Drop(all, n)
    BY <1>6, <2>1, LenProperties
  <2>3. y.out \in Seq(K) /\ y.held \in Seq(K) /\ y.out \o y.held = all
    <3>1. all \in Seq(K)
      BY <1>6
    <3>2. Take(all, n) \in Seq(K) /\ Drop(all, n) \in Seq(K)
      BY <2>2, <3>1, TakeIs, DropIs
    <3>3. Take(all, n) \o Drop(all, n) = all
      BY <2>2, <3>1, TakeDrop
    <3> QED
      BY <2>2, <3>2, <3>3
  <2>4. (z \o y.out) \o (y.held \o <<>>) = <<>> \o came /\ z \o y.out \in Seq(K)
    <3> DEFINE yo == y.out
               yh == y.held
    <3>1. yo \in Seq(K) /\ yh \in Seq(K) /\ z \in Seq(K) /\ yo \o yh = all
      BY <1>4, <2>3
    <3> HIDE DEF yo, yh
    <3>4. z \in Seq(K) /\ yo \in Seq(K) /\ yh \in Seq(K)
      BY <3>1
    <3>2. (z \o yo) \o yh = z \o (yo \o yh) /\ z \o yo \in Seq(K)
      BY <3>4, Joined, SMTT(30)
    <3>3. yh \o <<>> = yh
      BY <3>1, ConcatEmptySeq
    <3> QED
      BY <1>4, <3>1, <3>2, <3>3 DEF yo, yh
  <2>5. Holding("COMP", v, came, z \o y.out) /\ Little("COMP", v)
    BY <1>2, <1>4, <2>4 DEF Holding, Start, Little, K
  <2> QED
    BY <1>2, <1>3, <1>8, <2>3, <2>5 DEF Turned, K
<1> QED
  BY <1>7, <1>8

LEMMA SeipdTurn ==
    ASSUME NEW w, WriterOK("SEIPD", w), NEW came, NEW z, Holding("SEIPD", w, came, z),
           NEW done \in BOOLEAN, NEW b \in WriteSEIPD(w, done)
    PROVE  \E o : Turned("SEIPD", w, b.w, came, z, o, b.body, done)
<1> DEFINE n     == Encryptable(Len(w.in), done)
           plain == Take(w.in, n)
           rest  == Drop(w.in, n)
           hash  == w.hashed \o plain
           o     == IF done THEN plain \o MDC ELSE plain
           v     == [w EXCEPT !.first = FALSE, !.in = rest,
                              !.hashed = IF done THEN Digest(hash) ELSE hash]
           K     == Keeps("SEIPD")
<1>1. b = [w |-> v, body |-> Once(w, <<Cell("version", 0)>>) \o Wrap(o)]
  BY DEF WriteSEIPD, Body
<1>2. /\ v.first = FALSE /\ v.in = rest /\ v.held = w.held /\ v.header = w.header
      /\ v.out = w.out /\ v.hashed = IF done THEN Digest(hash) ELSE hash
  BY DEF WriterOK
<1> HIDE DEF v
<1>3. b.w = v /\ b.body = Once(w, Fields("SEIPD")) \o Layer("SEIPD", o)
  BY <1>1 DEF Fields, Layer
<1>4. /\ z \in Seq(K) /\ came \in Seq(Takes("SEIPD")) /\ w.held = <<>> /\ w.hashed = z
      /\ z \o (<<>> \o w.in) = Prefix \o came
  BY DEF Holding, Start
<1>5. w.in \in Seq(K) /\ MDC \in Seq(K) /\ came \in Seq(K) /\ Prefix \in Seq(K)
      /\ Cell("tag", 0) \in K
  <2>1. Takes("SEIPD") \subseteq Keeps("SEIPD")
    BY SetsAre DEF WriterTypes
  <2>2. Cell("tag", 0) \in Within(1)
    BY CellIs, KindsAre
  <2> QED
    BY <1>4, <2>1, <2>2, SetsAre, SeqMonotonic DEF WriterOK, In, Keeps
<1>6. n \in 0..Len(w.in) /\ (done => n = Len(w.in)) /\ Len(w.in) - n < Gran
  BY <1>5, EncryptableIs, LenProperties
<1>7. /\ plain \in Seq(K) /\ rest \in Seq(K) /\ plain \o rest = w.in
      /\ Len(rest) = Len(w.in) - n
  <2> HIDE DEF n, K
  <2> QED
    BY <1>5, <1>6, TakeIs, DropIs, TakeDrop, ZenonT(60)
<1> HIDE DEF n, plain, rest, K
<1>8. hash = z \o plain /\ hash \in Seq(K) /\ hash \o rest = Prefix \o came
  <2>0. z \in Seq(K) /\ plain \in Seq(K) /\ rest \in Seq(K)
    BY <1>4, <1>7 DEF K
  <2>1. (z \o plain) \o rest = z \o (plain \o rest) /\ z \o plain \in Seq(K)
    BY <2>0, Joined
  <2>2. <<>> \o w.in = w.in
    BY <1>5, ConcatEmptySeq
  <2> QED
    BY <1>4, <1>7, <2>1, <2>2
<1>9. CASE done
  <2>1. rest = <<>>
    <3>1. Len(rest) = 0
      BY <1>6, <1>7, <1>9
    <3> QED
      BY <1>7, <3>1, EmptySeq
  <2>2. hash = Prefix \o came
    BY <1>8, <2>1, ConcatEmptySeq
  <2>3. o = plain \o MDC /\ o \in Seq(K) /\ z \o o = (Prefix \o came) \o MDC /\ z \o o \in Seq(K)
    <3>0. z \in Seq(K) /\ plain \in Seq(K) /\ MDC \in Seq(K)
      BY <1>4, <1>5, <1>7 DEF K
    <3>1. /\ (z \o plain) \o MDC = z \o (plain \o MDC) /\ plain \o MDC \in Seq(K)
          /\ z \o (plain \o MDC) \in Seq(K)
      BY <3>0, Joined
    <3>2. o = plain \o MDC
      BY <1>9
    <3> HIDE DEF o
    <3> QED
      BY <1>8, <2>2, <3>1, <3>2
  <2>4. v.hashed = (Prefix \o came) \o <<Cell("tag", 0)>>
    <3>1. Append(hash, Cell("tag", 0)) = hash \o <<Cell("tag", 0)>>
      BY <1>5, <1>8, AppendIsConcat
    <3> QED
      BY <1>2, <1>9, <2>2, <3>1 DEF Digest
  <2> HIDE DEF o, hash
  <2>5. Ended("SEIPD", v, came, z \o o)
    BY <1>2, <1>4, <2>3, <2>4 DEF Ended, Start, Trailer, K
  <2> QED
    BY <1>2, <1>3, <1>9, <2>3, <2>5 DEF Turned, K
<1>10. CASE ~done
  <2>1. o = plain /\ v.hashed = hash
    BY <1>2, <1>10
  <2>2. hash \o (<<>> \o rest) = Prefix \o came
    BY <1>7, <1>8, ConcatEmptySeq
  <2> HIDE DEF o, hash
  <2>3. Holding("SEIPD", v, came, z \o o) /\ Little("SEIPD", v)
    BY <1>2, <1>4, <1>6, <1>7, <1>8, <2>1, <2>2 DEF Holding, Start, Little, K
  <2> QED
    BY <1>2, <1>3, <1>7, <1>10, <2>1, <2>3 DEF Turned, K
<1> QED
  BY <1>9, <1>10

\* Whichever writer: what DoWrite gives is the next of the body.
LEMMA Turn ==
    ASSUME NEW t \in WriterTypes, NEW w, WriterOK(t, w), NEW came, NEW z, Holding(t, w, came, z),
           NEW done \in BOOLEAN, NEW b \in DoWrite(t, w, done)
    PROVE  \E o : Turned(t, w, b.w, came, z, o, b.body, done)
<1>1. CASE t = "LIT"
  <2>1. b \in WriteLIT(w)
    BY <1>1 DEF DoWrite
  <2> QED
    BY <1>1, <2>1, LitTurn
<1>2. CASE t = "COMP"
  <2>1. b \in WriteCOMP(w, done)
    BY <1>2 DEF DoWrite
  <2> QED
    BY <1>2, <2>1, CompTurn
<1>3. CASE t = "SEIPD"
  <2>1. b \in WriteSEIPD(w, done)
    BY <1>3 DEF DoWrite
  <2> QED
    BY <1>3, <2>1, SeipdTurn
<1> QED
  BY <1>1, <1>2, <1>3 DEF WriterTypes

\* The packet so far: its header and the whole portions of the body, the rest
\* of which the writer keeps; and the packet with its end.
Framed(t, w, body, went) ==
    /\ went = (IF w.header THEN <<>> ELSE <<Cell(t, 0)>>) \o PartialBlocks(body)
    /\ w.out = Unfinished(body)
Closed(t, body, went) ==
    went = (<<Cell(t, 0)>> \o PartialBlocks(body)) \o LastPortion(Unfinished(body))

\* The length of a portion is a cell among the others.
LEMMA LabelIn ==
    ASSUME cfg \in Configs, NEW t \in WriterTypes
    PROVE  Label \in Emits(t)
<1>1. 2 ^ cfg.power \in Nat
  BY PortionSize
<1> QED
  BY <1>1, SetsAre DEF Label

\* The types of the pieces of a packet.
LEMMA FramedType ==
    ASSUME cfg \in Configs, NEW t \in WriterTypes, NEW body \in Seq(Emits(t))
    PROVE  /\ <<Cell(t, 0)>> \in Seq(Emits(t)) /\ <<>> \in Seq(Emits(t))
           /\ PartialBlocks(body) \in Seq(Emits(t)) /\ Unfinished(body) \in Seq(Emits(t))
           /\ LastPortion(Unfinished(body)) \in Seq(Emits(t))
           /\ \A w, went : Framed(t, w, body, went) => went \in Seq(Emits(t))
           /\ \A went : Closed(t, body, went) => went \in Seq(Emits(t))
<1> DEFINE E == Emits(t)
           C == <<Cell(t, 0)>>
           p == PartialBlocks(body)
           u == Unfinished(body)
           n == Len(u)
<1>1. Cell(t, 0) \in E /\ Label \in E /\ \A k \in Nat : Cell("last", k) \in E
  BY LabelIn, SetsAre
<1>2. p \in Seq(E) /\ u \in Seq(E)
  BY <1>1, FramesAre
<1>3. C \in Seq(E) /\ <<>> \in Seq(E)
  BY <1>1
<1>4. LastPortion(u) \in Seq(E)
  <2> HIDE DEF u, E
  <2>1. n \in Nat
    BY <1>2, LenProperties
  <2> HIDE DEF n
  <2>2. <<Cell("last", n)>> \in Seq(E)
    BY <1>1, <2>1
  <2>3. <<Cell("last", n)>> \o u \in Seq(E)
    BY <1>2, <2>2, ConcatProperties
  <2> QED
    BY <1>3, <2>3 DEF LastPortion, n
<1> HIDE DEF E, C, p, u
<1>5. C \o p \in Seq(E) /\ <<>> \o p \in Seq(E)
  BY <1>2, <1>3, ConcatProperties
<1>6. (C \o p) \o LastPortion(u) \in Seq(E)
  BY <1>4, <1>5, ConcatProperties
<1>7. \A w, went : Framed(t, w, body, went) => went \in Seq(E)
  BY <1>5 DEF Framed, C, p
<1>8. \A went : Closed(t, body, went) => went \in Seq(E)
  BY <1>6 DEF Closed, C, p, u
<1> QED
  BY <1>2, <1>3, <1>4, <1>7, <1>8 DEF E, C, p, u

\* More of the body goes through out_; the header comes in front of the first.
LEMMA EmitGoesOn ==
    ASSUME cfg \in Configs, NEW t \in WriterTypes, NEW w, NEW v, WriterOK(t, v),
           NEW body \in Seq(Emits(t)), NEW more \in Seq(Emits(t)), NEW went,
           Framed(t, w, body, went), w.header \in BOOLEAN, w.header => body = <<>>,
           v.header = FALSE, v.out = w.out
    PROVE  LET e == Emit(v, more)
           IN  /\ Framed(t, e.w, body \o more, went \o (PacketHeader(t, w) \o e.out))
               /\ e.w = [v EXCEPT !.out = Unfinished(body \o more)]
               /\ e.out \in Seq(Emits(t)) /\ PacketHeader(t, w) \in Seq(Emits(t))
<1> DEFINE E == Emits(t)
           C == <<Cell(t, 0)>>
           u == Unfinished(body)
           p == PartialBlocks(body)
           q == PartialBlocks(u \o more)
           bm == body \o more
           e == Emit(v, more)
           H == PacketHeader(t, w)
<1>1. Label \in E
  BY LabelIn
<1>2. PartialBlocks(bm) = p \o q /\ Unfinished(bm) = Unfinished(u \o more)
  BY <1>1, PortionsGoOn
<1>3. p \in Seq(E) /\ u \in Seq(E) /\ C \in Seq(E) /\ <<>> \in Seq(E)
  BY FramedType
<1>4. u \o more \in Seq(E)
  <2> HIDE DEF u
  <2> QED
    BY <1>3, ConcatProperties
<1>5. q \in Seq(E)
  <2> DEFINE x == u \o more
  <2>1. x \in Seq(E)
    BY <1>4
  <2> HIDE DEF x
  <2>2. PartialBlocks(x) \in Seq(E)
    BY <2>1, FramedType
  <2> QED
    BY <2>2 DEF x
<1>6. w.out = u /\ went = (IF w.header THEN <<>> ELSE C) \o p
  BY DEF Framed
<1>7. e.w = [v EXCEPT !.out = Unfinished(bm)] /\ e.out = q
  BY <1>2, <1>6 DEF Emit
<1>8. e.w.header = FALSE /\ e.w.out = Unfinished(bm)
  BY <1>7 DEF WriterOK
<1>9. H = (IF w.header THEN C ELSE <<>>) /\ H \in Seq(E)
  BY <1>3 DEF PacketHeader
<1>10. went \o (H \o q) = C \o (p \o q)
  <2>1. CASE w.header
    <3>1. p = <<>>
      <4>1. Len(<<>>) < Size
        BY PortionSize DEF Size
      <4>2. PartialBlocks(<<>>) = <<>>
        BY <1>1, <1>3, <4>1, PortionsShort
      <4> QED
        BY <2>1, <4>2
    <3>2. went = <<>> /\ H = C
      BY <1>6, <1>9, <2>1, <3>1
    <3> HIDE DEF p, q, H, C
    <3>3. C \o q \in Seq(E) /\ <<>> \o q = q
      BY <1>3, <1>5, ConcatEmptySeq, ConcatProperties
    <3>4. <<>> \o (C \o q) = C \o q
      BY <3>3, ConcatEmptySeq
    <3> QED
      BY <3>1, <3>2, <3>3, <3>4
  <2>2. CASE ~w.header
    <3>1. went = C \o p /\ H = <<>>
      BY <1>6, <1>9, <2>2
    <3> HIDE DEF p, q, H, C
    <3>2. <<>> \o q = q
      BY <1>5, ConcatEmptySeq
    <3>3. (C \o p) \o q = C \o (p \o q)
      BY <1>3, <1>5, ConcatAssociative, SMTT(30)
    <3> QED
      BY <3>1, <3>2, <3>3
  <2> QED
    BY <2>1, <2>2
<1>11. Framed(t, e.w, bm, went \o (H \o e.out))
  BY <1>2, <1>7, <1>8, <1>10 DEF Framed
<1> QED
  BY <1>5, <1>7, <1>9, <1>11

\* What the properties need does not look at header and out.
LEMMA SameHolding ==
    ASSUME NEW t, NEW v, NEW w, NEW came, NEW z,
           v.first = w.first, v.in = w.in, v.held = w.held, v.hashed = w.hashed
    PROVE  /\ Holding(t, v, came, z) <=> Holding(t, w, came, z)
           /\ Ended(t, v, came, z) <=> Ended(t, w, came, z)
           /\ Little(t, v) <=> Little(t, w)
           /\ BodyOf(t, v, z) = BodyOf(t, w, z)
  BY DEF Holding, Ended, Little, BodyOf

\* Write: the packet goes on.
LEMMA WriteStep ==
    ASSUME cfg \in Configs, NEW t \in WriterTypes, NEW w, WriterOK(t, w), w.header = w.first,
           NEW came, NEW z, Holding(t, w, came, z),
           NEW went, Framed(t, w, BodyOf(t, w, z), went), NEW r \in Write(t, w)
    PROVE  \E y : /\ Holding(t, r.w, came, y) /\ Little(t, r.w)
                  /\ Framed(t, r.w, BodyOf(t, r.w, y), went \o r.out)
                  /\ ~r.w.header /\ ~r.w.first /\ r.out \in Seq(Emits(t))
<1>1. PICK b \in DoWrite(t, w, FALSE) :
         r = [w   |-> Emit([b.w EXCEPT !.header = FALSE], b.body).w,
              out |-> PacketHeader(t, w) \o Emit([b.w EXCEPT !.header = FALSE], b.body).out]
  BY DEF Write
<1>2. PICK o : Turned(t, w, b.w, came, z, o, b.body, FALSE)
  BY Turn
<1>3. WriterOK(t, b.w)
  BY DoWriteType
<1> DEFINE v == [b.w EXCEPT !.header = FALSE]
           body == BodyOf(t, w, z)
           e == Emit(v, b.body)
           H == PacketHeader(t, w)
<1>4. /\ WriterOK(t, v) /\ v.header = FALSE /\ v.first = b.w.first /\ v.in = b.w.in
      /\ v.held = b.w.held /\ v.hashed = b.w.hashed /\ v.out = b.w.out
  BY <1>3 DEF WriterOK
<1>5. r.w = e.w /\ r.out = H \o e.out
  BY <1>1
<1> HIDE DEF v
<1>6. /\ o \in Seq(Keeps(t)) /\ b.body = Once(w, Fields(t)) \o Layer(t, o) /\ ~b.w.first
      /\ b.w.out = w.out /\ Holding(t, b.w, came, z \o o) /\ Little(t, b.w)
  BY <1>2 DEF Turned
<1>7. w.first \in BOOLEAN /\ z \in Seq(Keeps(t)) /\ (w.first => z = <<>>)
  BY DEF WriterOK, Holding
<1>8. /\ b.body \in Seq(Emits(t)) /\ body \in Seq(Emits(t))
      /\ BodyOf(t, b.w, z \o o) = body \o b.body
  <2> DEFINE B == b.w
  <2>1. ~B.first /\ o \in Seq(Keeps(t)) /\ b.body = Once(w, Fields(t)) \o Layer(t, o)
    BY <1>6
  <2> HIDE DEF B
  <2>2. /\ Once(w, Fields(t)) \o Layer(t, o) \in Seq(Emits(t))
        /\ BodyOf(t, w, z) \in Seq(Emits(t))
        /\ BodyOf(t, B, z \o o) = BodyOf(t, w, z) \o (Once(w, Fields(t)) \o Layer(t, o))
    BY <1>7, <2>1, BodyMore
  <2> QED
    BY <2>1, <2>2 DEF B
<1>9. w.header => body = <<>>
  BY DEF BodyOf
<1> HIDE DEF body, e, H
<1>10. /\ Framed(t, e.w, body \o b.body, went \o (H \o e.out))
       /\ e.w = [v EXCEPT !.out = Unfinished(body \o b.body)]
       /\ e.out \in Seq(Emits(t)) /\ H \in Seq(Emits(t))
  <2>1. Framed(t, w, body, went) /\ w.header \in BOOLEAN /\ v.out = w.out
    BY <1>4, <1>6, <1>7 DEF body
  <2> QED
    BY <1>4, <1>8, <1>9, <2>1, EmitGoesOn DEF e, H
<1>11. /\ e.w.header = FALSE /\ e.w.first = b.w.first /\ e.w.in = b.w.in
       /\ e.w.held = b.w.held /\ e.w.hashed = b.w.hashed
  BY <1>4, <1>10 DEF WriterOK
<1>12. /\ Holding(t, e.w, came, z \o o) /\ Little(t, e.w)
       /\ BodyOf(t, e.w, z \o o) = body \o b.body
  <2> DEFINE A == e.w
             B == b.w
  <2>1. A.first = B.first /\ A.in = B.in /\ A.held = B.held /\ A.hashed = B.hashed
    BY <1>11
  <2> HIDE DEF A, B
  <2>2. /\ Holding(t, A, came, z \o o) <=> Holding(t, B, came, z \o o)
        /\ Little(t, A) <=> Little(t, B)
        /\ BodyOf(t, A, z \o o) = BodyOf(t, B, z \o o)
    BY <2>1, SameHolding
  <2> QED
    BY <1>6, <1>8, <2>2 DEF A, B
<1>13. H \o e.out \in Seq(Emits(t))
  BY <1>10, ConcatProperties
<1> QED
  BY <1>5, <1>6, <1>10, <1>11, <1>12, <1>13

\* Finish: what is left of the body goes out, the trailer last.
LEMMA FinishStep ==
    ASSUME cfg \in Configs, NEW t \in WriterTypes, NEW w, WriterOK(t, w), w.header = w.first,
           NEW came, NEW z, Holding(t, w, came, z),
           NEW went, Framed(t, w, BodyOf(t, w, z), went), NEW r \in Finish(t, w)
    PROVE  \E y : /\ Ended(t, r.w, came, y)
                  /\ Closed(t, BodyOf(t, r.w, y), went \o r.out)
                  /\ r.out \in Seq(Emits(t))
<1>0. PICK u \in Write(t, w) : \E b \in DoWrite(t, u.w, TRUE) :
         r = [w   |-> [Emit(b.w, b.body).w EXCEPT !.out = <<>>],
              out |-> u.out \o Emit(b.w, b.body).out \o LastPortion(Emit(b.w, b.body).w.out)]
  BY DEF Finish
<1>1. PICK b \in DoWrite(t, u.w, TRUE) :
         r = [w   |-> [Emit(b.w, b.body).w EXCEPT !.out = <<>>],
              out |-> u.out \o Emit(b.w, b.body).out \o LastPortion(Emit(b.w, b.body).w.out)]
  BY <1>0
<1>2. PICK y : /\ Holding(t, u.w, came, y)
               /\ Framed(t, u.w, BodyOf(t, u.w, y), went \o u.out)
               /\ ~u.w.header /\ ~u.w.first /\ u.out \in Seq(Emits(t))
  BY WriteStep
<1>3. WriterOK(t, u.w)
  BY WriteType
<1>4. PICK o : Turned(t, u.w, b.w, came, y, o, b.body, TRUE)
  BY <1>2, <1>3, Turn
<1>5. WriterOK(t, b.w)
  BY <1>3, DoWriteType
<1> DEFINE body == BodyOf(t, u.w, y)
           e == Emit(b.w, b.body)
           all == body \o b.body
           last == LastPortion(e.w.out)
           gone == went \o u.out
           E == Emits(t)
<1>6. r.w = [e.w EXCEPT !.out = <<>>] /\ r.out = (u.out \o e.out) \o last
  BY <1>1
<1>7. /\ o \in Seq(Keeps(t)) /\ b.body = Once(u.w, Fields(t)) \o Layer(t, o) /\ ~b.w.first
      /\ b.w.out = u.w.out /\ b.w.header = u.w.header /\ Ended(t, b.w, came, y \o o)
  BY <1>4 DEF Turned
<1>8. u.w.first \in BOOLEAN /\ u.w.header = FALSE /\ y \in Seq(Keeps(t)) /\ (u.w.first => y = <<>>)
  BY <1>2, <1>3 DEF WriterOK, Holding
<1>9. b.body \in Seq(E) /\ body \in Seq(E) /\ BodyOf(t, b.w, y \o o) = all
  <2> DEFINE B == b.w
             U == u.w
  <2>1. /\ ~B.first /\ o \in Seq(Keeps(t)) /\ b.body = Once(U, Fields(t)) \o Layer(t, o)
        /\ U.first \in BOOLEAN /\ y \in Seq(Keeps(t)) /\ (U.first => y = <<>>)
    BY <1>7, <1>8
  <2> HIDE DEF B, U
  <2>2. /\ Once(U, Fields(t)) \o Layer(t, o) \in Seq(Emits(t))
        /\ BodyOf(t, U, y) \in Seq(Emits(t))
        /\ BodyOf(t, B, y \o o) = BodyOf(t, U, y) \o (Once(U, Fields(t)) \o Layer(t, o))
    BY <2>1, BodyMore
  <2> QED
    BY <2>1, <2>2 DEF B, U
<1> HIDE DEF body, e, last
<1>10. /\ Framed(t, e.w, all, gone \o (PacketHeader(t, u.w) \o e.out))
       /\ e.w = [b.w EXCEPT !.out = Unfinished(all)]
       /\ e.out \in Seq(E) /\ PacketHeader(t, u.w) \in Seq(E)
  <2>1. Framed(t, u.w, body, gone)
    BY <1>2 DEF body
  <2> HIDE DEF gone, E
  <2> QED
    BY <1>5, <1>7, <1>8, <1>9, <2>1, EmitGoesOn DEF e, E
<1>11. /\ e.w.header = FALSE /\ e.w.first = b.w.first /\ e.w.in = b.w.in
       /\ e.w.held = b.w.held /\ e.w.hashed = b.w.hashed /\ e.w.out = Unfinished(all)
       /\ e.w \in [header : BOOLEAN, first : BOOLEAN, in : Seq(Within(In(t))),
                   out : {Unfinished(all)}, held : Seq(Within(0)), hashed : Seq(Within(1))]
  BY <1>5, <1>7, <1>8, <1>10 DEF WriterOK
<1>12. /\ r.w.first = b.w.first /\ r.w.in = b.w.in /\ r.w.held = b.w.held
       /\ r.w.hashed = b.w.hashed
  BY <1>6, <1>11
<1>13. Ended(t, r.w, came, y \o o) /\ BodyOf(t, r.w, y \o o) = all
  BY <1>7, <1>9, <1>12, SameHolding
<1>14. all \in Seq(E)
  BY <1>9, ConcatProperties
<1> HIDE DEF all
<1>15. last \in Seq(E) /\ last = LastPortion(Unfinished(all))
  BY <1>11, <1>14, FramedType DEF last
<1> HIDE DEF last, E
<1>16. gone \o e.out = <<Cell(t, 0)>> \o PartialBlocks(all)
  <2>1. PacketHeader(t, u.w) = <<>>
    BY <1>8 DEF PacketHeader
  <2>2. <<>> \o e.out = e.out
    BY <1>10, ConcatEmptySeq
  <2> QED
    BY <1>10, <1>11, <2>1, <2>2 DEF Framed
<1>17. went \in Seq(E)
  <2>1. BodyOf(t, w, z) \in Seq(Emits(t))
    <3>1. w.first \in BOOLEAN /\ z \in Seq(Keeps(t)) /\ (w.first => z = <<>>)
      BY DEF WriterOK, Holding
    <3>2. <<>> \in Seq(Keeps(t))
      OBVIOUS
    <3> QED
      BY <1>7, <3>1, <3>2, BodyMore
  <2> QED
    BY <2>1, FramedType DEF E
<1>18. went \o r.out = (gone \o e.out) \o last
  <2> DEFINE a == u.out
             c == e.out
  <2>1. a \in Seq(E) /\ c \in Seq(E) /\ went \in Seq(E) /\ last \in Seq(E)
    BY <1>2, <1>10, <1>15, <1>17 DEF E
  <2> HIDE DEF a, c
  <2>2. a \o c \in Seq(E)
    BY <2>1, ConcatProperties
  <2> DEFINE ac == a \o c
  <2>3. went \o (ac \o last) = (went \o ac) \o last
    <3>1. ac \in Seq(E) /\ went \in Seq(E) /\ last \in Seq(E)
      BY <2>1, <2>2
    <3> HIDE DEF ac
    <3> QED
      BY <3>1, ConcatAssociative, SMTT(30)
  <2>4. went \o (a \o c) = (went \o a) \o c
    <3>1. a \in Seq(E) /\ c \in Seq(E) /\ went \in Seq(E)
      BY <2>1
    <3> QED
      BY <3>1, ConcatAssociative, SMTT(30)
  <2> QED
    BY <1>6, <2>3, <2>4 DEF a, c
<1>19. r.out \in Seq(E)
  <2>1. u.out \o e.out \in Seq(E)
    BY <1>2, <1>10, ConcatProperties DEF E
  <2> QED
    BY <1>6, <1>15, <2>1, ConcatProperties
<1>20. Closed(t, all, went \o r.out)
  BY <1>15, <1>16, <1>18 DEF Closed
<1> QED
  BY <1>13, <1>19, <1>20 DEF E

-----------------------------------------------------------------------------
(* A writer has taken came and given went.                                 *)

Wrote(t, w, came, went, done) ==
    \E z : IF done
           THEN Ended(t, w, came, z) /\ Closed(t, BodyOf(t, w, z), went)
           ELSE /\ Holding(t, w, came, z) /\ Framed(t, w, BodyOf(t, w, z), went)
                /\ w.header = w.first
                /\ IF w.first THEN came = <<>> ELSE Little(t, w)

\* What was taken and given does not change while the writer does not.
LEMMA WroteSame ==
    ASSUME cfg' = cfg
    PROVE  \A t, w, came, went, done :
              Wrote(t, w, came, went, done)' <=> Wrote(t, w, came, went, done)
<1>1. \A s : PartialBlocks(s)' = PartialBlocks(s) /\ Unfinished(s)' = Unfinished(s)
  BY DEF PartialBlocks, Unfinished, Portions, Portion
<1>2. \A t, w, body, went : /\ Framed(t, w, body, went)' <=> Framed(t, w, body, went)
                            /\ Closed(t, body, went)' <=> Closed(t, body, went)
  BY <1>1 DEF Framed, Closed
<1> QED
  BY <1>2 DEF Wrote

\* What was taken and given is octets of the layers around the packet.
LEMMA WroteType ==
    ASSUME cfg \in Configs, NEW t \in WriterTypes, NEW w, WriterOK(t, w), NEW came, NEW went,
           NEW done, Wrote(t, w, came, went, done)
    PROVE  came \in Seq(Takes(t)) /\ went \in Seq(Emits(t))
<1>1. PICK z : IF done
               THEN Ended(t, w, came, z) /\ Closed(t, BodyOf(t, w, z), went)
               ELSE Holding(t, w, came, z) /\ Framed(t, w, BodyOf(t, w, z), went)
  BY DEF Wrote
<1>2. z \in Seq(Keeps(t)) /\ came \in Seq(Takes(t)) /\ w.first \in BOOLEAN /\ (w.first => z = <<>>)
  BY <1>1 DEF Ended, Holding, WriterOK
<1>3. BodyOf(t, w, z) \in Seq(Emits(t))
  <2> DEFINE v == [first |-> FALSE]
  <2>1. <<>> \in Seq(Keeps(t)) /\ ~v.first
    OBVIOUS
  <2> HIDE DEF v
  <2> QED
    BY <1>2, <2>1, BodyMore
<1> QED
  BY <1>1, <1>2, <1>3, FramedType

\* One turn of the loop, as seen by the writer.
LEMMA WroteStep ==
    ASSUME cfg \in Configs, NEW t \in WriterTypes, NEW w, WriterOK(t, w), NEW came, NEW went,
           Wrote(t, w, came, went, FALSE), NEW more \in Seq(Takes(t)), more \in Seq(Within(In(t))),
           NEW done \in BOOLEAN, NEW v, v = [w EXCEPT !.in = @ \o more],
           NEW r \in (IF done THEN Finish(t, v) ELSE Write(t, v))
    PROVE  Wrote(t, r.w, came \o more, went \o r.out, done) /\ r.out \in Seq(Emits(t))
<1>1. PICK z : /\ Holding(t, w, came, z) /\ Framed(t, w, BodyOf(t, w, z), went)
               /\ w.header = w.first
  BY DEF Wrote
<1>2. /\ v.header = w.header /\ v.first = w.first /\ v.out = w.out /\ v.held = w.held
      /\ v.hashed = w.hashed /\ v.in = w.in \o more
  BY DEF WriterOK
<1>3. WriterOK(t, v)
  <2>1. w.in \o more \in Seq(Within(In(t)))
    BY ConcatProperties DEF WriterOK
  <2> QED
    BY <2>1 DEF WriterOK
<1>4. Holding(t, v, came \o more, z)
  BY <1>1, HoldingMore
<1>5. Framed(t, v, BodyOf(t, v, z), went) /\ v.header = v.first
  BY <1>1, <1>2 DEF Framed, BodyOf
<1>6. CASE done
  <2>1. r \in Finish(t, v)
    BY <1>6
  <2>2. PICK y : /\ Ended(t, r.w, came \o more, y)
                 /\ Closed(t, BodyOf(t, r.w, y), went \o r.out)
                 /\ r.out \in Seq(Emits(t))
    BY <1>3, <1>4, <1>5, <2>1, FinishStep
  <2> QED
    BY <1>6, <2>2 DEF Wrote
<1>7. CASE ~done
  <2>1. r \in Write(t, v)
    BY <1>7
  <2>2. PICK y : /\ Holding(t, r.w, came \o more, y) /\ Little(t, r.w)
                 /\ Framed(t, r.w, BodyOf(t, r.w, y), went \o r.out)
                 /\ ~r.w.header /\ ~r.w.first /\ r.out \in Seq(Emits(t))
    BY <1>3, <1>4, <1>5, <2>1, WriteStep
  <2>3. r.w.header = r.w.first
    <3>1. WriterOK(t, r.w)
      BY <1>3, <2>1, WriteType
    <3> QED
      BY <2>2, <3>1 DEF WriterOK
  <2> QED
    BY <1>7, <2>2, <2>3 DEF Wrote
<1> QED
  BY <1>6, <1>7

-----------------------------------------------------------------------------
(* The octets on their way: c[i] is what the i-th writer has taken, the    *)
(* last one what the armor writer or the caller has got behind the session *)
(* key, and buf is in front of the next.                                   *)

Pend(i) == IF next = i THEN buf ELSE <<>>
Done(i) == IF i <= next THEN finish ELSE FALSE
Given   == IF cfg.armor THEN armor.crc \o armor.part ELSE output \o target
KeyOut  == IF esk THEN <<>> ELSE SessionKey
Gone(c) == c[Len(Chain) + 1]

FlowIs(c) ==
    /\ c \in [1..(Len(Chain) + 1) -> Seq(CellType)]
    /\ c[1] \o Pend(0) = Payloads(cfg, fed)
    /\ \A i \in 1..Len(Chain) :
          Wrote(Chain[i], writers[Chain[i]], c[i], c[i + 1] \o Pend(i), Done(i))
    /\ Given = KeyOut \o Gone(c)
    /\ esk => Gone(c) = <<>>

FlowInv ==
    /\ \E c : FlowIs(c)
    /\ pc # "running" => buf = <<>>
    /\ pc = "idle" => ~finish
    /\ pc = "finished" => next = Len(Chain)
    /\ pc # "idle" => ~esk
    /\ finish => fed = cfg.size
    /\ finish => pc # "idle"
    /\ pc = "finished" => finish
    /\ pc = "finished" /\ cfg.armor => armor.part = <<>>

\* The literal packet is the innermost, the encrypted one the outermost.
LEMMA ChainOrder ==
    /\ Len(Chain) \in {2, 3} /\ Chain[1] = "LIT" /\ Chain[Len(Chain)] = "SEIPD"
    /\ Len(Chain) = 3 => Chain[2] = "COMP"
    /\ Len(Chain) = 3 <=> cfg.compressed
    /\ \A i \in 1..Len(Chain) : Chain[i] \in WriterTypes
    /\ \A i, j \in 1..Len(Chain) : Chain[i] = Chain[j] => i = j
    /\ \A i \in 1..(Len(Chain) - 1) : Emits(Chain[i]) \subseteq Takes(Chain[i + 1])
<1>1. Emits("LIT") \subseteq Takes("SEIPD") /\ Emits("LIT") \subseteq Takes("COMP")
      /\ Emits("COMP") \subseteq Takes("SEIPD")
  BY SetsAre DEF Takes
<1>2. CASE cfg.compressed
  <2>1. Len(Chain) = 3 /\ Chain[1] = "LIT" /\ Chain[2] = "COMP" /\ Chain[3] = "SEIPD"
    BY <1>2 DEF Chain
  <2> HIDE DEF Emits, Takes
  <2>2. \A i \in 1..2 : Emits(Chain[i]) \subseteq Takes(Chain[i + 1])
    <3>1. ASSUME NEW i \in 1..2 PROVE Emits(Chain[i]) \subseteq Takes(Chain[i + 1])
      <4>1. i = 1 \/ i = 2
        OBVIOUS
      <4>2. CASE i = 1
        BY <1>1, <2>1, <4>2
      <4>3. CASE i = 2
        BY <1>1, <2>1, <4>3
      <4> QED
        BY <4>1, <4>2, <4>3
    <3> QED
      BY <3>1
  <2>3. \A i \in 1..3 : i = 1 \/ i = 2 \/ i = 3
    OBVIOUS
  <2> QED
    BY <1>2, <2>1, <2>2, <2>3 DEF WriterTypes
<1>3. CASE ~cfg.compressed
  <2>1. Len(Chain) = 2 /\ Chain[1] = "LIT" /\ Chain[2] = "SEIPD"
    BY <1>3 DEF Chain
  <2>2. \A i \in 1..1 : i = 1
    OBVIOUS
  <2>3. \A i \in 1..2 : i = 1 \/ i = 2
    OBVIOUS
  <2> QED
    BY <1>1, <1>3, <2>1, <2>2, <2>3 DEF WriterTypes
<1> QED
  BY <1>2, <1>3

\* The armor writer has seen everything, but for less than a block.
LEMMA ArmorSees ==
    ASSUME NEW a, ArmorOK(a), NEW octets \in Seq(CellType), NEW done \in BOOLEAN
    PROVE  LET r == ArmorWrite(a, octets, done)
           IN  /\ r.a.crc \o r.a.part = (a.crc \o a.part) \o octets
               /\ done => r.a.part = <<>>
<1> DEFINE S == CellType
           p == a.part
           c == a.crc
           s == p \o octets
           n == Encodable(s, done)
           taken == Take(s, n)
           rest == Drop(s, n)
<1>1. p \in Seq(S) /\ c \in Seq(S)
  BY DEF ArmorOK
<1> HIDE DEF S, p, c
<1>2. s \in Seq(S) /\ Len(s) \in Nat
  BY <1>1, ConcatProperties, LenProperties DEF S
<1> HIDE DEF s
<1>3. n \in 0..Len(s) /\ (done => n = Len(s))
  <2>1. BlockLen \in Nat \ {0}
    BY ArmorAssumption DEF ArmorAssumption
  <2>2. (Len(s) \div BlockLen) * BlockLen \in 0..Len(s)
    BY <1>2, <2>1, WholeSteps
  <2> QED
    BY <1>2, <2>2 DEF Encodable
<1> HIDE DEF n
<1>4. taken \in Seq(S) /\ rest \in Seq(S) /\ taken \o rest = s /\ Len(taken) = n
      /\ Len(rest) = Len(s) - n
  BY <1>2, <1>3, TakeIs, DropIs, TakeDrop
<1>5. (c \o taken) \o rest = (c \o p) \o octets
  <2>1. octets \in Seq(S)
    BY DEF S
  <2> HIDE DEF taken, rest
  <2>2. (c \o taken) \o rest = c \o s
    <3>1. c \in Seq(S) /\ taken \in Seq(S) /\ rest \in Seq(S)
      BY <1>1, <1>4
    <3>2. (c \o taken) \o rest = c \o (taken \o rest)
      BY <3>1, ConcatAssociative, SMTT(30)
    <3> QED
      BY <1>4, <3>2
  <2>3. (c \o p) \o octets = c \o s
    BY <1>1, <2>1, ConcatAssociative DEF s
  <2> QED
    BY <2>2, <2>3
<1>6. done => rest = <<>>
  <2> SUFFICES ASSUME done PROVE rest = <<>>
    OBVIOUS
  <2>1. Len(rest) = 0
    BY <1>2, <1>3, <1>4
  <2> QED
    BY <1>4, <2>1, EmptySeq
<1> DEFINE r == ArmorWrite(a, octets, done)
<1>7. CASE octets = <<>> /\ ~done
  <2>1. r.a = a
    BY <1>7 DEF ArmorWrite
  <2>2. c \o p \in Seq(S)
    BY <1>1, ConcatProperties
  <2>3. (c \o p) \o <<>> = c \o p
    BY <2>2, ConcatEmptySeq
  <2> HIDE DEF r
  <2> QED
    BY <1>7, <2>1, <2>3 DEF c, p, r
<1>8. CASE ~(octets = <<>> /\ ~done)
  <2>1. r.a.crc = c \o taken /\ r.a.part = Drop(s, Len(taken))
    BY <1>8 DEF ArmorWrite, Payload, c, p, s, n
  <2> HIDE DEF r
  <2> QED
    BY <1>4, <1>5, <1>6, <2>1 DEF c, p, r
<1> QED
  BY <1>7, <1>8

\* The types of what is on its way.
LEMMA FlowTypes ==
    ASSUME IInv, NEW c, FlowIs(c)
    PROVE  \A i \in 1..Len(Chain) : /\ c[i] \in Seq(Takes(Chain[i]))
                                    /\ c[i + 1] \o Pend(i) \in Seq(Emits(Chain[i]))
<1>1. ASSUME NEW i \in 1..Len(Chain)
      PROVE  c[i] \in Seq(Takes(Chain[i])) /\ c[i + 1] \o Pend(i) \in Seq(Emits(Chain[i]))
  <2>1. Chain[i] \in WriterTypes
    BY ChainOrder
  <2>2. WriterOK(Chain[i], writers[Chain[i]]) /\ cfg \in Configs
    BY <2>1 DEF IInv, DepthInv, TypeOK
  <2>3. Wrote(Chain[i], writers[Chain[i]], c[i], c[i + 1] \o Pend(i), Done(i))
    BY DEF FlowIs
  <2> QED
    BY <2>1, <2>2, <2>3, WroteType
<1> QED
  BY <1>1

\* The payload is octets that a literal packet may have inside.
LEMMA PayloadType ==
    ASSUME NEW f, NEW n \in Nat
    PROVE  Payloads(f, n) \in Seq(Emits("LIT")) /\ Len(Payloads(f, n)) = n
<1>1. \A i \in 1..n : Cell("data", i) \in Emits("LIT")
  <2>1. \A i \in 1..n : Cell("data", i) \in Within(0)
    BY CellIs, KindsAre
  <2> QED
    BY <2>1 DEF Emits, Trailers, Out, In, Cell
<1> QED
  BY <1>1 DEF Payloads

\* In a state in which nothing is on its way every Pend is empty.
LEMMA InitFlow == Init => FlowInv
<1> SUFFICES ASSUME Init PROVE FlowInv
  OBVIOUS
<1> DEFINE N == Len(Chain)
           c == [i \in 1..(N + 1) |-> <<>>]
<1>1. N \in {2, 3} /\ \A i \in 1..N : Chain[i] \in WriterTypes
  BY ChainOrder
<1>2. \A i \in 1..(N + 1) : c[i] = <<>>
  OBVIOUS
<1>3. c \in [1..(N + 1) -> Seq(CellType)]
  BY <1>2
<1>4. /\ cfg \in Configs /\ fed = 0 /\ pc = "idle" /\ finish = FALSE /\ next = 0 /\ buf = <<>>
      /\ target = <<>> /\ esk = TRUE /\ output = <<>> /\ armor = Started
      /\ writers = [t \in WriterTypes |-> Writer(IF t = "SEIPD" THEN Prefix ELSE <<>>)]
  BY DEF Init
<1>5. \A i : Pend(i) = <<>>
  BY <1>4 DEF Pend
<1>6. <<>> \o <<>> = <<>>
  <2>1. <<>> \in Seq(CellType)
    OBVIOUS
  <2> QED
    BY <2>1, ConcatEmptySeq
<1>7. Payloads(cfg, fed) = <<>>
  <2>1. Payloads(cfg, 0) \in Seq(Emits("LIT")) /\ Len(Payloads(cfg, 0)) = 0
    BY PayloadType
  <2> QED
    BY <1>4, <2>1, EmptySeq
<1>8. ASSUME NEW t \in WriterTypes PROVE Wrote(t, writers[t], <<>>, <<>>, FALSE)
  <2> DEFINE w == writers[t]
             B == BodyOf(t, w, <<>>)
  <2>1. w = [header |-> TRUE, first |-> TRUE, in |-> Start(t), out |-> <<>>, held |-> <<>>,
             hashed |-> <<>>]
    BY <1>4 DEF Writer, Start
  <2>2. /\ w.header = TRUE /\ w.first = TRUE /\ w.in = Start(t) /\ w.out = <<>>
        /\ w.held = <<>> /\ w.hashed = <<>>
    BY <2>1
  <2> HIDE DEF w
  <2>3. B = <<>>
    BY <2>2 DEF BodyOf
  <2>4. Start(t) \in Seq(Within(1))
    BY SetsAre DEF Start, Keeps
  <2>5. Holding(t, w, <<>>, <<>>)
    <3>1. <<>> \in Seq(Keeps(t)) /\ <<>> \in Seq(Takes(t))
      OBVIOUS
    <3>2. <<>> \o (<<>> \o Start(t)) = Start(t) /\ Start(t) \o <<>> = Start(t)
      BY <2>4, ConcatEmptySeq
    <3> QED
      BY <2>2, <3>1, <3>2 DEF Holding
  <2>6. PartialBlocks(<<>>) = <<>> /\ Unfinished(<<>>) = <<>>
    <3>1. Label \in Emits(t) /\ <<>> \in Seq(Emits(t))
      BY <1>4, LabelIn
    <3>2. Len(<<>>) < Size
      BY <1>4, PortionSize DEF Size
    <3> QED
      BY <1>4, <3>1, <3>2, PortionsShort
  <2>7. Framed(t, w, B, <<>>)
    BY <1>6, <2>2, <2>3, <2>6 DEF Framed
  <2>8. Wrote(t, w, <<>>, <<>>, FALSE)
    BY <2>2, <2>5, <2>7 DEF Wrote
  <2> QED
    BY <2>8 DEF w
<1>9. \A i \in 1..N : Wrote(Chain[i], writers[Chain[i]], c[i], c[i + 1] \o Pend(i), Done(i))
  <2>1. ASSUME NEW i \in 1..N
        PROVE  Wrote(Chain[i], writers[Chain[i]], c[i], c[i + 1] \o Pend(i), Done(i))
    <3>1. i \in 1..(N + 1) /\ i + 1 \in 1..(N + 1)
      BY <1>1
    <3>2. c[i] = <<>> /\ c[i + 1] \o Pend(i) = <<>>
      BY <1>2, <1>5, <1>6, <3>1
    <3>3. Done(i) = FALSE
      BY <1>4 DEF Done
    <3> QED
      BY <1>1, <1>8, <3>2, <3>3
  <2> QED
    BY <2>1
<1>10. Given = KeyOut \o Gone(c) /\ Gone(c) = <<>>
  <2>1. Gone(c) = <<>>
    BY <1>1, <1>2 DEF Gone
  <2>2. KeyOut = <<>> /\ Given = <<>>
    BY <1>4, <1>6 DEF KeyOut, Given, Started
  <2> HIDE DEF c
  <2> QED
    BY <1>6, <2>1, <2>2
<1>11. c[1] \o Pend(0) = Payloads(cfg, fed)
  BY <1>1, <1>2, <1>5, <1>6, <1>7
<1>12. FlowIs(c)
  <2> HIDE DEF c
  <2> QED
    BY <1>3, <1>9, <1>10, <1>11 DEF FlowIs
<1> QED
  BY <1>4, <1>12 DEF FlowInv

\* A call: the next piece of the payload is in front of the first writer.
LEMMA FlowUpdate == IInv /\ FlowInv /\ Update => FlowInv'
<1> SUFFICES ASSUME IInv, FlowInv, Update PROVE FlowInv'
  OBVIOUS
<1> DEFINE N == Len(Chain)
           packet == IF esk THEN SessionKey ELSE <<>>
           armed == ArmorWrite(armor, packet, FALSE)
           piece(k) == [i \in 1..k |-> Cell("data", fed + i)]
<1>1. PICK c : FlowIs(c)
  BY DEF FlowInv
<1>2. PICK n \in 0..ChunkMax :
         /\ fed + n <= cfg.size /\ fed' = fed + n
         /\ finish' \in BOOLEAN /\ (finish' => fed' = cfg.size)
         /\ esk' = FALSE /\ buf' = piece(n)
         /\ IF cfg.armor THEN armor' = armed.a /\ target' = armed.out
                         ELSE armor' = armor /\ target' = packet
  BY DEF Update, WriteESK, SessionKey
<1>3. /\ pc = "idle" /\ pc' = "running" /\ next' = 0
      /\ cfg' = cfg /\ writers' = writers /\ output' = output
  BY DEF Update
<1>4. buf = <<>> /\ finish = FALSE /\ target = <<>> /\ Chain' = Chain /\ cfg \in Configs
      /\ fed \in Nat /\ n \in Nat
  BY <1>3, ConfigIs, WriterAssumption DEF FlowInv, IInv, TypeOK, ArmorInv, Chain
<1>5. N \in {2, 3}
  BY ChainOrder
<1>6. Gone(c) = c[N + 1] /\ c \in [1..(N + 1) -> Seq(CellType)]
  BY <1>1 DEF FlowIs, Gone
<1>7. \A i \in 1..N : Pend(i) = <<>> /\ Pend(i)' = <<>> /\ Done(i) = FALSE /\ Done(i)' = FALSE
  BY <1>3, <1>4 DEF Pend, Done
<1>8. \A i \in 1..N : Wrote(Chain[i], writers[Chain[i]], c[i], c[i + 1] \o Pend(i), Done(i))'
  <2>1. ASSUME NEW i \in 1..N
        PROVE  Wrote(Chain[i], writers[Chain[i]], c[i], c[i + 1] \o Pend(i), Done(i))'
    <3>1. Wrote(Chain[i], writers[Chain[i]], c[i], c[i + 1] \o <<>>, FALSE)
      BY <1>1, <1>7 DEF FlowIs
    <3> QED
      BY <1>3, <1>4, <1>7, <3>1, WroteSame
  <2> QED
    BY <2>1
<1>9. (c[1] \o Pend(0))' = Payloads(cfg, fed)'
  <2> DEFINE p == Payloads(cfg, fed)
             q == piece(n)
             s == Payloads(cfg, fed + n)
  <2>1. c[1] \o <<>> = p
    BY <1>1, <1>4 DEF FlowIs, Pend
  <2>2. c[1] \in Seq(CellType)
    BY <1>5, <1>6
  <2>3. c[1] = p
    BY <2>1, <2>2, ConcatEmptySeq
  <2>4. p \in Seq(CellType) /\ Len(p) = fed /\ \A i \in 1..fed : p[i] = Cell("data", i)
    BY <1>4, <2>2, <2>3, PayloadType DEF Payloads
  <2>5. q \in Seq(CellType) /\ Len(q) = n /\ \A i \in 1..n : q[i] = Cell("data", fed + i)
    <3>1. \A i \in 1..n : Cell("data", fed + i) \in Within(2)
      BY <1>4, CellIs, KindsAre
    <3> QED
      BY <1>4, <3>1, WithinGrows
  <2>6. Len(s) = fed + n /\ s \in Seq(CellType) /\ \A i \in 1..(fed + n) : s[i] = Cell("data", i)
    <3>1. fed + n \in Nat
      BY <1>4
    <3>2. s \in Seq(Emits("LIT")) /\ Len(s) = fed + n
      BY <3>1, PayloadType
    <3>3. Emits("LIT") \subseteq Within(0)
      BY SetsAre DEF WriterTypes, Out
    <3>4. s \in Seq(CellType)
      BY <3>2, <3>3, SeqMonotonic, WithinAll
    <3> QED
      BY <1>4, <3>2, <3>4 DEF Payloads
  <2> HIDE DEF p, q, s
  <2>7. p \o q \in Seq(CellType) /\ Len(p \o q) = fed + n
        /\ \A i \in 1..(fed + n) : (p \o q)[i] = IF i <= fed THEN p[i] ELSE q[i - fed]
    BY <2>4, <2>5, ConcatProperties
  <2>8. ASSUME NEW i \in 1..(fed + n) PROVE (p \o q)[i] = s[i]
    <3>1. i <= fed => i \in 1..fed
      BY <1>4
    <3>2. ~(i <= fed) => i - fed \in 1..n /\ fed + (i - fed) = i
      BY <1>4
    <3> QED
      BY <2>4, <2>5, <2>6, <2>7, <3>1, <3>2
  <2>9. p \o q = s
    BY <2>6, <2>7, <2>8, SeqEqual
  <2>10. Pend(0)' = q
    BY <1>2, <1>3 DEF Pend, q
  <2>11. Payloads(cfg, fed)' = s
    BY <1>2 DEF Payloads, s
  <2> QED
    BY <2>3, <2>9, <2>10, <2>11
<1>10. Given' = KeyOut' \o Gone(c)
  <2>1. packet \in Seq(CellType)
    <3>1. SessionKey \in Seq(CellType)
      <4>1. <<Cell("ESK", 0)>> \in Seq(Within(2)) /\ Fill("esk", ESKLen) \in Seq(Within(2))
        BY CellIs, FillIs, KindsAre, WriterAssumption
      <4> QED
        BY <4>1, WithinGrows, ConcatProperties DEF SessionKey
    <3> QED
      BY <3>1
  <2> HIDE DEF packet
  <2>2. Given' = Given \o packet
    <3>1. CASE cfg.armor
      <4>1. ArmorOK(armor)
        BY DEF IInv, ArmorInv
      <4>2. armed.a.crc \o armed.a.part = (armor.crc \o armor.part) \o packet
        BY <2>1, <4>1, ArmorSees
      <4>3. armor' = armed.a /\ cfg'.armor
        BY <1>2, <1>3, <3>1
      <4> HIDE DEF armed
      <4> QED
        BY <3>1, <4>2, <4>3 DEF Given
    <3>2. CASE ~cfg.armor
      <4>1. output \in Seq(CellType \cup TextType)
        BY DEF IInv, TypeOK
      <4>2. output \o <<>> = output
        BY <4>1, ConcatEmptySeq
      <4> QED
        BY <1>2, <1>3, <1>4, <3>2, <4>2 DEF Given
    <3> QED
      BY <3>1, <3>2
  <2>3. Given = KeyOut \o Gone(c) /\ (esk => Gone(c) = <<>>)
    BY <1>1 DEF FlowIs
  <2>4. Gone(c) \in Seq(CellType)
    BY <1>5, <1>6
  <2>5. KeyOut' = SessionKey
    BY <1>2 DEF KeyOut, SessionKey
  <2>6. CASE esk
    <3>1. packet = SessionKey /\ Given = <<>> \o <<>> /\ Gone(c) = <<>>
      BY <2>3, <2>6 DEF packet, KeyOut
    <3>2. <<>> \o <<>> = <<>> /\ <<>> \o packet = packet /\ packet \o <<>> = packet
      BY <2>1, <2>4, <3>1, ConcatEmptySeq
    <3> QED
      BY <2>2, <2>5, <3>1, <3>2
  <2>7. CASE ~esk
    <3>1. packet = <<>> /\ KeyOut = SessionKey
      BY <2>7 DEF packet, KeyOut
    <3>2. SessionKey \in Seq(CellType)
      <4>1. <<Cell("ESK", 0)>> \in Seq(Within(2)) /\ Fill("esk", ESKLen) \in Seq(Within(2))
        BY CellIs, FillIs, KindsAre, WriterAssumption
      <4> QED
        BY <4>1, WithinGrows, ConcatProperties DEF SessionKey
    <3>3. SessionKey \o Gone(c) \in Seq(CellType)
      BY <2>4, <3>2, ConcatProperties
    <3>4. (SessionKey \o Gone(c)) \o <<>> = SessionKey \o Gone(c)
      BY <3>3, ConcatEmptySeq
    <3> QED
      BY <2>2, <2>3, <2>5, <3>1, <3>4
  <2> QED
    BY <2>6, <2>7
<1>11. Gone(c)' = Gone(c)
  BY <1>4 DEF Gone
<1>12. FlowIs(c)'
  BY <1>2, <1>4, <1>6, <1>8, <1>9, <1>10, <1>11 DEF FlowIs
<1> QED
  BY <1>2, <1>3, <1>12 DEF FlowInv

\* One turn of the loop: what was in front of a writer is behind it.
LEMMA FlowPacketWriter == IInv /\ FlowInv /\ PacketWriter => FlowInv'
<1> SUFFICES ASSUME IInv, FlowInv, PacketWriter PROVE FlowInv'
  OBVIOUS
<1> DEFINE N == Len(Chain)
           k == next + 1
           t == Chain[k]
           w == writers[t]
           v == [w EXCEPT !.in = @ \o buf]
<1>1. PICK c : FlowIs(c)
  BY DEF FlowInv
<1>2. PICK r \in (IF finish THEN Finish(t, v) ELSE Write(t, v)) :
         writers' = [writers EXCEPT ![t] = r.w] /\ buf' = r.out
  BY DEF PacketWriter
<1>3. /\ pc = "running" /\ pc' = "running" /\ next < Len(Chain) /\ next' = k
      /\ cfg' = cfg /\ fed' = fed /\ finish' = finish /\ target' = target
      /\ esk' = esk /\ armor' = armor /\ output' = output
  BY DEF PacketWriter
<1>4. next \in Nat /\ finish \in BOOLEAN /\ cfg \in Configs /\ N \in {2, 3}
      /\ writers \in [WriterTypes -> WriterType] /\ Chain' = Chain
  BY <1>3, ChainOrder, SMTT(30) DEF IInv, TypeOK, Chain
<1>5. k \in 1..N /\ k \in 1..(N + 1) /\ k + 1 \in 1..(N + 1) /\ k # N + 1 /\ k - 1 = next
  BY <1>3, <1>4
<1>6. t \in WriterTypes /\ \A i \in 1..N : Chain[i] \in WriterTypes /\ (Chain[i] = t => i = k)
  BY <1>5, ChainOrder
<1>7. WriterOK(t, w) /\ buf \in Seq(Within(In(t)))
  BY <1>3, <1>6 DEF IInv, DepthInv
<1>8. c \in [1..(N + 1) -> Seq(CellType)] /\ c[k] \in Seq(CellType)
  BY <1>1, <1>5 DEF FlowIs
<1>9. \A i : /\ Pend(i) = IF i = next THEN buf ELSE <<>>
             /\ Pend(i)' = IF i = k THEN r.out ELSE <<>>
             /\ Done(i) = IF i <= next THEN finish ELSE FALSE
             /\ Done(i)' = IF i <= k THEN finish ELSE FALSE
  BY <1>2, <1>3 DEF Pend, Done
<1>10. buf \in Seq(Takes(t))
  <2>1. CASE next = 0
    <3>0. k = 1 /\ Pend(0) = buf /\ c[1] \o Pend(0) = Payloads(cfg, fed)
      BY <1>1, <2>1 DEF FlowIs, Pend
    <3>1. t = "LIT" /\ c[1] \o buf = Payloads(cfg, fed) /\ c[1] \in Seq(CellType)
      BY <1>8, <3>0, ChainOrder
    <3>2. fed \in Nat
      BY <1>4, ConfigIs DEF IInv, TypeOK
    <3>3. c[1] \o buf \in Seq(Takes("LIT"))
      BY <3>1, <3>2, PayloadType DEF Takes
    <3>4. buf \in Seq(CellType)
      BY DEF IInv, TypeOK
    <3> QED
      BY <3>1, <3>3, <3>4, PartsOf
  <2>2. CASE next # 0
    <3>1. next \in 1..(N - 1) /\ next \in 1..N
      BY <1>3, <1>4, <2>2
    <3>2. c[k] \o buf \in Seq(Emits(Chain[next]))
      BY <1>1, <1>9, <3>1, FlowTypes
    <3>3. Emits(Chain[next]) \subseteq Takes(t)
      BY <3>1, ChainOrder
    <3>4. c[k] \o buf \in Seq(Takes(t))
      BY <3>2, <3>3, SeqMonotonic
    <3>5. buf \in Seq(CellType)
      BY DEF IInv, TypeOK
    <3> QED
      BY <1>8, <3>4, <3>5, PartsOf
  <2> QED
    BY <2>1, <2>2
<1> DEFINE came == c[k]
           went == c[k + 1] \o <<>>
<1> HIDE DEF N, k, t, w, v
<1>11. Wrote(t, r.w, came \o buf, went \o r.out, finish) /\ r.out \in Seq(Emits(t))
  <2>1. Wrote(t, w, came, went, FALSE)
    <3>1. Wrote(Chain[k], writers[Chain[k]], c[k], c[k + 1] \o Pend(k), Done(k))
      BY <1>1, <1>5 DEF FlowIs, N
    <3>2. Pend(k) = <<>> /\ Done(k) = FALSE
      BY <1>4, <1>5, <1>9 DEF k, Done
    <3> QED
      BY <3>1, <3>2 DEF t, w
  <2>2. v = [w EXCEPT !.in = @ \o buf]
    BY DEF v
  <2>3. r \in (IF finish THEN Finish(t, v) ELSE Write(t, v))
    BY <1>2 DEF v
  <2> DEFINE A == came
             G == went
  <2>4. /\ cfg \in Configs /\ t \in WriterTypes /\ WriterOK(t, w) /\ Wrote(t, w, A, G, FALSE)
        /\ buf \in Seq(Takes(t)) /\ buf \in Seq(Within(In(t))) /\ finish \in BOOLEAN
    BY <1>4, <1>6, <1>7, <1>10, <2>1
  <2> HIDE DEF came, went
  <2>5. Wrote(t, r.w, A \o buf, G \o r.out, finish) /\ r.out \in Seq(Emits(t))
    <3> HIDE DEF A, G
    <3> QED
      BY <2>2, <2>3, <2>4, WroteStep, ZenonT(60)
  <2> QED
    BY <2>5
<1>12. PICK d : /\ d \in [1..(N + 1) -> Seq(CellType)] /\ d[k] = c[k] \o buf
                /\ \A i \in 1..(N + 1) : i # k => d[i] = c[i]
  <2>1. buf \in Seq(CellType)
    BY DEF IInv, TypeOK
  <2>2. c[k] \o buf \in Seq(CellType)
    BY <1>8, <2>1, ConcatProperties
  <2> DEFINE e == [c EXCEPT ![k] = c[k] \o buf]
  <2>3. /\ e \in [1..(N + 1) -> Seq(CellType)] /\ e[k] = c[k] \o buf
        /\ \A i \in 1..(N + 1) : i # k => e[i] = c[i]
    BY <1>5, <1>8, <2>2
  <2> QED
    BY <2>3
<1>13. \A i \in 1..N : Wrote(Chain[i], writers[Chain[i]], d[i], d[i + 1] \o Pend(i), Done(i))'
  <2>1. ASSUME NEW i \in 1..N
        PROVE  Wrote(Chain[i], writers[Chain[i]], d[i], d[i + 1] \o Pend(i), Done(i))'
    <3>0. i \in Nat /\ i \in 1..(N + 1) /\ i + 1 \in 1..(N + 1)
      BY <1>4
    <3>1. Wrote(Chain[i], writers[Chain[i]], c[i], c[i + 1] \o Pend(i), Done(i))
      BY <1>1 DEF FlowIs, N
    <3>2. writers'[Chain[i]] = IF i = k THEN r.w ELSE writers[Chain[i]]
      BY <1>2, <1>4, <1>6 DEF t
    <3>3. SUFFICES Wrote(Chain[i], writers'[Chain[i]], d[i], d[i + 1] \o Pend(i)', Done(i)')
      BY <1>3, <1>4, WroteSame
    <3>4. CASE i = k
      <4>1. d[i] = c[k] \o buf /\ d[i + 1] = c[k + 1] /\ Pend(i)' = r.out /\ Chain[i] = t
        BY <1>9, <1>12, <3>0, <3>4 DEF t
      <4>2. c[k + 1] \o <<>> = c[k + 1]
        <5>1. c[k + 1] \in Seq(CellType)
          BY <1>5, <1>8
        <5> QED
          BY <5>1, ConcatEmptySeq
      <4>3. Done(i)' = finish
        <5>1. i <= k
          BY <1>5, <3>4 DEF N
        <5> QED
          BY <1>9, <5>1
      <4> QED
        BY <1>11, <3>2, <3>4, <4>1, <4>2, <4>3
    <3>5. CASE i # k
      <4>1. d[i] = c[i] /\ writers'[Chain[i]] = writers[Chain[i]] /\ Pend(i)' = <<>>
        BY <1>9, <1>12, <3>0, <3>2, <3>5
      <4>2. Done(i)' = Done(i)
        <5>1. i <= k <=> i <= next
          BY <1>4, <3>0, <3>5 DEF k
        <5> QED
          BY <1>9, <5>1
      <4>3. d[i + 1] \o <<>> = c[i + 1] \o Pend(i)
        <5>1. CASE i = next
          <6>1. i + 1 = k /\ d[i + 1] = c[i + 1] \o buf /\ Pend(i) = buf
            BY <1>9, <1>12, <5>1 DEF k
          <6>2. c[i + 1] \o buf \in Seq(CellType)
            BY <1>12, <3>0, <6>1
          <6> QED
            BY <6>1, <6>2, ConcatEmptySeq
        <5>2. CASE i # next
          <6>1. i + 1 # k /\ Pend(i) = <<>>
            BY <1>4, <1>9, <3>0, <5>2 DEF k
          <6> QED
            BY <1>12, <3>0, <6>1
        <5> QED
          BY <5>1, <5>2
      <4> QED
        BY <3>1, <4>1, <4>2, <4>3
    <3> QED
      BY <3>4, <3>5
  <2> QED
    BY <2>1
<1>14. (d[1] \o Pend(0))' = Payloads(cfg, fed)'
  <2>1. c[1] \o Pend(0) = Payloads(cfg, fed)
    BY <1>1 DEF FlowIs
  <2>2. Pend(0)' = <<>>
    BY <1>4, <1>9 DEF k
  <2>3. d[1] = c[1] \o Pend(0)
    <3>1. CASE next = 0
      <4>1. k = 1 /\ Pend(0) = buf
        BY <1>9, <3>1 DEF k
      <4>2. d[k] = c[k] \o buf
        BY <1>12
      <4> QED
        BY <4>1, <4>2
    <3>2. CASE next # 0
      <4>1. Pend(0) = <<>> /\ 1 # k /\ 1 \in 1..(N + 1)
        BY <1>4, <1>9, <3>2 DEF k
      <4>2. c[1] \in Seq(CellType)
        BY <1>8, <4>1
      <4> QED
        BY <1>12, <4>1, <4>2, ConcatEmptySeq
    <3> QED
      BY <3>1, <3>2
  <2>4. d[1] \in Seq(CellType)
    BY <1>4, <1>12
  <2>5. d[1] \o <<>> = d[1]
    BY <2>4, ConcatEmptySeq
  <2>6. Payloads(cfg, fed)' = Payloads(cfg, fed)
    BY <1>3 DEF Payloads
  <2> QED
    BY <2>1, <2>2, <2>3, <2>5, <2>6
<1>15. Given' = Given /\ KeyOut' = KeyOut /\ Gone(d)' = Gone(c)
  <2>1. Given' = Given /\ KeyOut' = KeyOut
    BY <1>3 DEF Given, KeyOut, SessionKey
  <2>2. N + 1 \in 1..(N + 1) /\ N + 1 # k
    BY <1>4, <1>5
  <2>3. d[N + 1] = c[N + 1]
    BY <1>12, <2>2
  <2> QED
    BY <1>4, <2>1, <2>3 DEF Gone, N
<1>16. FlowIs(d)'
  <2>1. d \in [1..(Len(Chain) + 1) -> Seq(CellType)]'
    BY <1>4, <1>12 DEF N
  <2>2. Given = KeyOut \o Gone(c) /\ (esk => Gone(c) = <<>>)
    BY <1>1 DEF FlowIs
  <2>3. \A i \in 1..Len(Chain') :
           Wrote(Chain[i], writers[Chain[i]], d[i], d[i + 1] \o Pend(i), Done(i))'
    BY <1>4, <1>13 DEF N
  <2> QED
    BY <1>3, <1>14, <1>15, <2>1, <2>2, <2>3 DEF FlowIs
<1> QED
  BY <1>3, <1>16 DEF FlowInv

\* Update returns: what the last writer gave goes to the caller.
LEMMA FlowReturn == IInv /\ FlowInv /\ Return => FlowInv'
<1> SUFFICES ASSUME IInv, FlowInv, Return PROVE FlowInv'
  OBVIOUS
<1> DEFINE N == Len(Chain)
           armed == ArmorWrite(armor, buf, finish)
<1>1. PICK c : FlowIs(c)
  BY DEF FlowInv
<1>2. /\ pc = "running" /\ next = N
      /\ pc' = IF finish THEN "finished" ELSE "idle"
      /\ buf' = <<>> /\ target' = <<>>
      /\ cfg' = cfg /\ fed' = fed /\ finish' = finish /\ next' = next /\ esk' = esk
      /\ writers' = writers
      /\ IF cfg.armor THEN armor' = armed.a /\ output' = output \o target \o armed.out
                      ELSE armor' = armor /\ output' = output \o target \o buf
  BY DEF Return
<1>3. finish \in BOOLEAN /\ cfg \in Configs /\ N \in {2, 3} /\ Chain' = Chain /\ ~esk
      /\ (finish => fed = cfg.size)
  BY <1>2, ChainOrder DEF IInv, TypeOK, Chain, FlowInv
<1>4. c \in [1..(N + 1) -> Seq(CellType)] /\ buf \in Seq(CellType)
  BY <1>1 DEF FlowIs, IInv, TypeOK
<1> HIDE DEF N
<1>5. PICK d : /\ d \in [1..(N + 1) -> Seq(CellType)] /\ d[N + 1] = c[N + 1] \o buf
               /\ \A i \in 1..(N + 1) : i # N + 1 => d[i] = c[i]
  <2>1. N + 1 \in 1..(N + 1)
    BY <1>3
  <2>2. c[N + 1] \o buf \in Seq(CellType)
    BY <1>4, <2>1, ConcatProperties
  <2> DEFINE e == [c EXCEPT ![N + 1] = c[N + 1] \o buf]
  <2>3. /\ e \in [1..(N + 1) -> Seq(CellType)] /\ e[N + 1] = c[N + 1] \o buf
        /\ \A i \in 1..(N + 1) : i # N + 1 => e[i] = c[i]
    BY <1>4, <2>1, <2>2
  <2> QED
    BY <2>3
<1>6. \A i : /\ Pend(i) = IF i = N THEN buf ELSE <<>>
             /\ Pend(i)' = <<>> /\ Done(i)' = Done(i)
  BY <1>2 DEF Pend, Done
<1>7. \A i \in 1..N : Wrote(Chain[i], writers[Chain[i]], d[i], d[i + 1] \o Pend(i), Done(i))'
  <2>1. ASSUME NEW i \in 1..N
        PROVE  Wrote(Chain[i], writers[Chain[i]], d[i], d[i + 1] \o Pend(i), Done(i))'
    <3>0. i \in Nat /\ i \in 1..(N + 1) /\ i + 1 \in 1..(N + 1) /\ i # N + 1
      BY <1>3
    <3>1. Wrote(Chain[i], writers[Chain[i]], c[i], c[i + 1] \o Pend(i), Done(i))
      BY <1>1 DEF FlowIs, N
    <3>2. d[i] = c[i]
      BY <1>5, <3>0
    <3>3. d[i + 1] \o <<>> = c[i + 1] \o Pend(i)
      <4>1. d[i + 1] \in Seq(CellType)
        BY <1>5, <3>0
      <4>2. d[i + 1] \o <<>> = d[i + 1]
        BY <4>1, ConcatEmptySeq
      <4>3. CASE i = N
        BY <1>5, <1>6, <4>2, <4>3
      <4>4. CASE i # N
        <5>1. i + 1 # N + 1
          BY <1>3, <3>0, <4>4
        <5> QED
          BY <1>5, <1>6, <3>0, <4>4, <5>1
      <4> QED
        BY <4>3, <4>4
    <3>4. Wrote(Chain[i], writers[Chain[i]], d[i], d[i + 1] \o <<>>, Done(i))
      BY <3>1, <3>2, <3>3
    <3> QED
      BY <1>2, <1>3, <1>6, <3>4, WroteSame
  <2> QED
    BY <2>1
<1>8. (d[1] \o Pend(0))' = Payloads(cfg, fed)'
  <2>1. c[1] \o Pend(0) = Payloads(cfg, fed)
    BY <1>1 DEF FlowIs
  <2>2. Pend(0) = <<>> /\ Pend(0)' = <<>> /\ 1 \in 1..(N + 1) /\ 1 # N + 1
    BY <1>3, <1>6
  <2>3. d[1] = c[1]
    BY <1>5, <2>2
  <2>4. Payloads(cfg, fed)' = Payloads(cfg, fed)
    BY <1>2 DEF Payloads
  <2> QED
    BY <2>1, <2>2, <2>3, <2>4
<1>9. Given' = KeyOut' \o Gone(d)'
  <2> DEFINE K == SessionKey
             g == c[N + 1]
  <2>1. Given = K \o g /\ K \in Seq(CellType) /\ g \in Seq(CellType)
    <3>1. Given = K \o g
      BY <1>1, <1>3 DEF FlowIs, KeyOut, Gone, N
    <3>2. <<Cell("ESK", 0)>> \in Seq(Within(2)) /\ Fill("esk", ESKLen) \in Seq(Within(2))
      BY CellIs, FillIs, KindsAre, WriterAssumption
    <3>3. K \in Seq(CellType)
      BY <3>2, WithinGrows, ConcatProperties DEF SessionKey
    <3>4. N + 1 \in 1..(N + 1)
      BY <1>3
    <3> QED
      BY <1>4, <3>1, <3>3, <3>4
  <2>2. Given' = Given \o buf
    <3>1. CASE cfg.armor
      <4>1. ArmorOK(armor)
        BY DEF IInv, ArmorInv
      <4>2. armed.a.crc \o armed.a.part = (armor.crc \o armor.part) \o buf
        BY <1>3, <1>4, <4>1, ArmorSees
      <4>3. armor' = armed.a /\ cfg'.armor
        BY <1>2, <3>1
      <4> HIDE DEF armed
      <4> QED
        BY <3>1, <4>2, <4>3 DEF Given
    <3>2. CASE ~cfg.armor
      <4> DEFINE T == CellType \cup TextType
                 o == output \o target \o buf
      <4>1. output \in Seq(T) /\ target \in Seq(T)
        BY DEF IInv, TypeOK
      <4>2. buf \in Seq(T)
        BY <1>4, BothTypes
      <4>3. output \o target \in Seq(T)
        BY <4>1, ConcatProperties
      <4>4. o \in Seq(T)
        BY <4>2, <4>3, ConcatProperties
      <4>5. output' = o /\ target' = <<>> /\ ~cfg'.armor
        BY <1>2, <3>2
      <4> HIDE DEF T
      <4>6. o \o <<>> = o
        BY <4>4, ConcatEmptySeq
      <4> QED
        BY <3>2, <4>5, <4>6 DEF Given
    <3> QED
      BY <3>1, <3>2
  <2>3. KeyOut' = K /\ Gone(d)' = g \o buf
    BY <1>2, <1>3, <1>5 DEF KeyOut, SessionKey, Gone, N
  <2> HIDE DEF K, g
  <2>4. (K \o g) \o buf = K \o (g \o buf)
    BY <1>4, <2>1, ConcatAssociative
  <2> QED
    BY <2>1, <2>2, <2>3, <2>4
<1>10. FlowIs(d)'
  <2>1. d \in [1..(Len(Chain) + 1) -> Seq(CellType)]'
    BY <1>3, <1>5 DEF N
  <2>2. \A i \in 1..Len(Chain') :
           Wrote(Chain[i], writers[Chain[i]], d[i], d[i + 1] \o Pend(i), Done(i))'
    BY <1>3, <1>7 DEF N
  <2> QED
    BY <1>2, <1>3, <1>8, <1>9, <2>1, <2>2 DEF FlowIs
<1>11. next' = Len(Chain')
  BY <1>2, <1>3 DEF N
<1>12. pc' = "finished" /\ cfg'.armor => armor'.part = <<>>
  <2> SUFFICES ASSUME pc' = "finished", cfg.armor PROVE armor'.part = <<>>
    BY <1>2
  <2>1. finish /\ armor' = armed.a /\ ArmorOK(armor)
    BY <1>2, <1>3 DEF IInv, ArmorInv
  <2>2. armed.a.part = <<>>
    BY <1>3, <1>4, <2>1, ArmorSees
  <2> QED
    BY <2>1, <2>2
<1> QED
  BY <1>2, <1>3, <1>10, <1>11, <1>12 DEF FlowInv

LEMMA AlwaysFlow == Spec => [](IInv /\ FlowInv)
<1>1. Init => IInv /\ FlowInv
  BY InitInv, InitFlow
<1>2. IInv /\ FlowInv /\ [Next]_vars => (IInv /\ FlowInv)'
  <2> SUFFICES ASSUME IInv, FlowInv, [Next]_vars PROVE (IInv /\ FlowInv)'
    OBVIOUS
  <2>1. IInv'
    BY NextInv
  <2>2. CASE UNCHANGED vars
    <3>1. cfg' = cfg /\ Chain' = Chain
      BY <2>2 DEF vars, Chain
    <3>2. PICK c : FlowIs(c)
      BY DEF FlowInv
    <3>3. \A i : Pend(i)' = Pend(i) /\ Done(i)' = Done(i)
      BY <2>2 DEF vars, Pend, Done
    <3>4. \A i \in 1..Len(Chain) :
             Wrote(Chain[i], writers[Chain[i]], c[i], c[i + 1] \o Pend(i), Done(i))'
      <4>1. ASSUME NEW i \in 1..Len(Chain)
            PROVE  Wrote(Chain[i], writers[Chain[i]], c[i], c[i + 1] \o Pend(i), Done(i))'
        <5>1. Wrote(Chain[i], writers[Chain[i]], c[i], c[i + 1] \o Pend(i), Done(i))
          BY <3>2 DEF FlowIs
        <5>2. writers' = writers
          BY <2>2 DEF vars
        <5> QED
          BY <3>1, <3>3, <5>1, <5>2, WroteSame
      <4> QED
        BY <4>1
    <3>5. /\ Payloads(cfg, fed)' = Payloads(cfg, fed) /\ Given' = Given /\ KeyOut' = KeyOut
          /\ Gone(c)' = Gone(c) /\ esk' = esk
      BY <2>2, <3>1 DEF vars, Payloads, Given, KeyOut, Gone, SessionKey
    <3>6. c \in [1..(Len(Chain) + 1) -> Seq(CellType)] /\ c[1] \o Pend(0) = Payloads(cfg, fed)
          /\ Given = KeyOut \o Gone(c) /\ (esk => Gone(c) = <<>>)
      BY <3>2 DEF FlowIs
    <3>7. FlowIs(c)'
      BY <3>1, <3>3, <3>4, <3>5, <3>6 DEF FlowIs
    <3> QED
      BY <2>1, <2>2, <3>1, <3>7 DEF FlowInv, vars
  <2> QED
    BY <2>1, <2>2, FlowUpdate, FlowPacketWriter, FlowReturn DEF Next, Loop
<1> QED
  BY <1>1, <1>2, PTL DEF Spec
==============================================================================
