------------------------------ MODULE Tool_proofs ------------------------------
(***************************************************************************)
(* What TLAPS proves of Tool, for every set of files, every content of the *)
(* disk, every sequence of command lines and every size of the buffer: the *)
(* types, that the output is never anything but content, that a message is *)
(* decrypted to what was encrypted, and that decrypting it does not fail   *)
(* without a reason.                                                       *)
(***************************************************************************)
EXTENDS Tool, SeqLemmas

-----------------------------------------------------------------------------
(* Sequences of cells.                                                     *)

Cells == Seq(Cell)

\* A sequence of one element.
LEMMA OneIs ==
    ASSUME NEW S, NEW e \in S
    PROVE  /\ <<e>> \in Seq(S) /\ Len(<<e>>) = 1 /\ <<e>>[1] = e /\ <<e>> # <<>>
           /\ Append(<<>>, e) = <<e>> /\ <<>> \in Seq(S)
<1>1. <<e>> \in Seq(S) /\ Len(<<e>>) = 1 /\ <<e>>[1] = e /\ <<>> \in Seq(S)
  OBVIOUS
<1>2. <<e>> # <<>>
  BY <1>1, EmptySeq
<1>3. Append(<<>>, e) = <<>> \o <<e>>
  BY <1>1, AppendIsConcat
<1>4. <<>> \o <<e>> = <<e>>
  BY <1>1, ConcatEmptySeq
<1> QED
  BY <1>1, <1>2, <1>3, <1>4

Begins(s, t) == \E u \in Cells : t = s \o u

\* A beginning is a prefix, and the other way round.
LEMMA BeginsIs ==
    ASSUME NEW s \in Cells, NEW t \in Cells
    PROVE  IsPrefix(s, t) <=> Begins(s, t)
<1>1. s \in Seq(Cell) /\ t \in Seq(Cell) /\ Len(s) \in Nat /\ Len(t) \in Nat /\ SubSeq(s, 1, Len(s)) = s
  BY LenProperties, SubSeqFull DEF Cells
<1>2. ASSUME IsPrefix(s, t) PROVE Begins(s, t)
  <2> DEFINE n == Len(s)
             u == SubSeq(t, n + 1, Len(t))
  <2>1. n \in 0..Len(t) /\ SubSeq(t, 1, n) = s
    BY <1>1, <1>2 DEF IsPrefix
  <2>2. SubSeq(t, 1, n) \o u = t
    BY <1>1, <2>1, PieceBoth
  <2>3. Len(t) \in 0..Len(t) /\ n \in 0..Len(t)
    BY <1>1, <2>1
  <2>4. u \in Seq(Cell)
    BY <1>1, <2>3, PieceIs
  <2> HIDE DEF u
  <2> QED
    BY <2>1, <2>2, <2>4 DEF Begins, Cells
<1>3. ASSUME Begins(s, t) PROVE IsPrefix(s, t)
  <2>1. PICK u \in Seq(Cell) : t = s \o u
    BY <1>3 DEF Begins, Cells
  <2>2. SubSeq(s \o u, 1, Len(s)) = s
    BY <1>1, TakeFirst
  <2>3. Len(s \o u) = Len(s) + Len(u) /\ Len(u) \in Nat
    BY <1>1, <2>1, ConcatProperties, LenProperties
  <2>4. Len(s) <= Len(t)
    BY <1>1, <2>1, <2>3
  <2> QED
    BY <1>1, <2>1, <2>2, <2>4 DEF IsPrefix
<1> QED
  BY <1>2, <1>3

\* Beginnings of beginnings are beginnings, and so are nothing and everything.
LEMMA BeginsMore ==
    ASSUME NEW s \in Cells, NEW t \in Cells, NEW v \in Cells
    PROVE  /\ Begins(s, t) /\ Begins(t, v) => Begins(s, v)
           /\ Begins(s, s) /\ Begins(<<>>, s) /\ Begins(s, s \o t)
<1>1. s \in Seq(Cell) /\ t \in Seq(Cell) /\ v \in Seq(Cell) /\ <<>> \in Seq(Cell)
  BY DEF Cells
<1>2. ASSUME Begins(s, t), Begins(t, v) PROVE Begins(s, v)
  <2>1. PICK a \in Seq(Cell) : t = s \o a
    BY <1>2 DEF Begins, Cells
  <2>2. PICK b \in Seq(Cell) : v = t \o b
    BY <1>2 DEF Begins, Cells
  <2>3. (s \o a) \o b = s \o (a \o b)
    BY <1>1, <2>1, <2>2, ConcatAssociative
  <2>4. a \o b \in Seq(Cell)
    BY <2>1, <2>2, ConcatProperties
  <2>5. v = s \o (a \o b)
    BY <2>1, <2>2, <2>3
  <2> QED
    BY <2>4, <2>5 DEF Begins, Cells
<1>3. s \o <<>> = s /\ <<>> \o s = s
  BY <1>1, ConcatEmptySeq
<1>4. Begins(s, s) /\ Begins(<<>>, s) /\ Begins(s, s \o t)
  BY <1>1, <1>3 DEF Begins, Cells
<1> QED
  BY <1>2, <1>4

\* Two beginnings of the same: the shorter begins the longer.
LEMMA BeginsBoth ==
    ASSUME NEW s \in Cells, NEW t \in Cells, NEW v \in Cells,
           Begins(s, v), Begins(t, v), Len(s) <= Len(t)
    PROVE  Begins(s, t)
<1>1. s \in Seq(Cell) /\ t \in Seq(Cell) /\ v \in Seq(Cell) /\ Len(s) \in Nat /\ Len(t) \in Nat
  BY LenProperties DEF Cells
<1>2. PICK a \in Seq(Cell) : v = s \o a
  BY DEF Begins, Cells
<1>3. PICK b \in Seq(Cell) : v = t \o b
  BY DEF Begins, Cells
<1>4. SubSeq(s \o a, 1, Len(s)) = s
  BY <1>1, <1>2, TakeFirst
<1>5. Len(s) \in 0..Len(t) /\ 0 \in 0..Len(s) /\ 0 + 1 = 1
  BY <1>1
<1>6. SubSeq(t \o b, 0 + 1, Len(s)) = SubSeq(t, 0 + 1, Len(s))
  BY <1>1, <1>3, <1>5, PieceOfFirst
<1>7. SubSeq(t, 1, Len(s)) = s
  BY <1>2, <1>3, <1>4, <1>5, <1>6
<1>8. SubSeq(s, 1, Len(s)) = s
  BY <1>1, SubSeqFull
<1> QED
  BY <1>1, <1>7, <1>8, BeginsIs DEF IsPrefix

\* The first n cells of s begin s.
LEMMA TakeIs ==
    ASSUME NEW s \in Cells, NEW n \in 0..Len(s)
    PROVE  Take(s, n) \in Cells /\ Len(Take(s, n)) = n /\ Begins(Take(s, n), s)
<1>1. s \in Seq(Cell) /\ Len(s) \in Nat /\ n \in Nat /\ Len(s) \in 0..Len(s) /\ 0 \in 0..n /\ 0 + 1 = 1
  BY LenProperties DEF Cells
<1>2. SubSeq(s, 0 + 1, n) \in Seq(Cell) /\ Len(SubSeq(s, 0 + 1, n)) = n - 0
  BY <1>1, PieceIs
<1>3. SubSeq(s, n + 1, Len(s)) \in Seq(Cell)
  BY <1>1, PieceIs
<1>4. SubSeq(s, 1, n) \o SubSeq(s, n + 1, Len(s)) = s
  BY <1>1, PieceBoth
<1> QED
  <2>1. Take(s, n) = SubSeq(s, 0 + 1, n) /\ Take(s, n) = SubSeq(s, 1, n) /\ n - 0 = n
    BY <1>1 DEF Take
  <2>2. Take(s, n) \in Cells /\ Len(Take(s, n)) = n
    BY <1>2, <2>1 DEF Cells
  <2>3. Begins(Take(s, n), s)
    BY <1>3, <1>4, <2>1 DEF Begins, Cells
  <2> QED
    BY <2>2, <2>3

\* What begins s is the first cells of it.
LEMMA BeginsTakes ==
    ASSUME NEW s \in Cells, NEW t \in Cells, Begins(s, t)
    PROVE  Len(s) \in 0..Len(t) /\ s = Take(t, Len(s))
<1>1. IsPrefix(s, t) /\ Len(s) \in Nat /\ Len(t) \in Nat /\ SubSeq(s, 1, Len(s)) = s
  BY BeginsIs, LenProperties, SubSeqFull DEF Cells
<1> QED
  BY <1>1 DEF IsPrefix, Take

-----------------------------------------------------------------------------
(* Messages.                                                               *)

\* A cell that is encrypted is a cell of the content, and is what it was when
\* it is decrypted.
LEMMA LockIs ==
    ASSUME NEW secret \in Secrets, NEW c \in Cell
    PROVE  Lock(secret, c) \in Cell /\ IsData(Lock(secret, c)) /\ Unlock(Lock(secret, c)) = c
<1> DEFINE d == Lock(secret, c)
           q == Append(c.secrets, secret)
<1>1. /\ c \in [kind : Kinds, val : Seq(Nat), secrets : Seq(Secrets)]
      /\ c.kind \in Inner => c.secrets # <<>>
  BY DEF Cell
<1>2. c.secrets \in Seq(Secrets) /\ Len(c.secrets) \in Nat
  BY <1>1, LenProperties
<1>3. q \in Seq(Secrets) /\ q # <<>> /\ Len(q) = Len(c.secrets) + 1
      /\ SubSeq(q, 1, Len(q) - 1) = c.secrets
  <2>1. q = c.secrets \o <<secret>>
    BY <1>2, AppendIsConcat
  <2>2. <<secret>> \in Seq(Secrets)
    BY OneIs
  <2>3. SubSeq(c.secrets \o <<secret>>, 1, Len(c.secrets)) = c.secrets
    BY <1>2, <2>2, TakeFirst
  <2>4. q \in Seq(Secrets) /\ Len(q) = Len(c.secrets) + 1
    BY <1>2, AppendProperties
  <2>5. q # <<>>
    BY <1>2, AppendProperties
  <2> HIDE DEF q
  <2>6. Len(q) - 1 = Len(c.secrets)
    BY <1>2, <2>4
  <2> QED
    BY <2>1, <2>3, <2>4, <2>5, <2>6
<1>4. d = [kind |-> c.kind, val |-> c.val, secrets |-> q]
  <2>1. c = [kind |-> c.kind, val |-> c.val, secrets |-> c.secrets]
    BY <1>1
  <2> DEFINE k == c.kind
             v == c.val
             r == c.secrets
  <2>2. Lock(secret, c) = [c EXCEPT !.secrets = Append(r, secret)]
    BY DEF Lock
  <2> HIDE DEF k, v, r
  <2>3. \A x : [[kind |-> k, val |-> v, secrets |-> r] EXCEPT !.secrets = x]
                 = [kind |-> k, val |-> v, secrets |-> x]
    OBVIOUS
  <2> QED
    BY <2>1, <2>2, <2>3 DEF k, v, r
<1> HIDE DEF q
<1>5. d \in [kind : Kinds, val : Seq(Nat), secrets : Seq(Secrets)] /\ d.secrets = q /\ d.kind = c.kind
  BY <1>1, <1>3, <1>4
<1>6. c.kind \in Inner => Len(q) > 1
  <2>1. ASSUME c.kind \in Inner PROVE Len(q) > 1
    <3>1. Len(c.secrets) # 0
      BY <1>1, <1>2, <2>1, EmptySeq
    <3> QED
      BY <1>2, <1>3, <3>1
  <2> QED
    BY <2>1
<1>7. Unlock(d) = [kind |-> c.kind, val |-> c.val, secrets |-> SubSeq(q, 1, Len(q) - 1)]
  BY <1>4 DEF Unlock, Front
<1>8. c = [kind |-> c.kind, val |-> c.val, secrets |-> c.secrets]
  BY <1>1
<1> HIDE DEF d
<1>9. d \in Cell /\ IsData(d)
  BY <1>3, <1>5, <1>6 DEF Cell, IsData
<1> QED
  BY <1>3, <1>7, <1>8, <1>9 DEF d

\* What is decrypted is a cell.
LEMMA UnlockIs ==
    ASSUME NEW c \in Cell, IsData(c)
    PROVE  Unlock(c) \in Cell
<1> DEFINE q == SubSeq(c.secrets, 1, Len(c.secrets) - 1)
<1>1. c \in [kind : Kinds, val : Seq(Nat), secrets : Seq(Secrets)]
  BY DEF Cell
<1>2. c.secrets \in Seq(Secrets) /\ Len(c.secrets) \in Nat /\ Len(c.secrets) # 0
  BY <1>1, LenProperties, EmptySeq DEF IsData
<1>3. Len(c.secrets) - 1 \in 0..Len(c.secrets) /\ 0 \in 0..(Len(c.secrets) - 1) /\ 0 + 1 = 1
  BY <1>2
<1>4. q \in Seq(Secrets) /\ Len(q) = (Len(c.secrets) - 1) - 0
  BY <1>2, <1>3, PieceIs
<1>5. Unlock(c) = [kind |-> c.kind, val |-> c.val, secrets |-> q]
  <2>1. c = [kind |-> c.kind, val |-> c.val, secrets |-> c.secrets]
    BY <1>1
  <2>2. Unlock(c) = [c EXCEPT !.secrets = q]
    BY DEF Unlock, Front
  <2> DEFINE k == c.kind
             v == c.val
             r == c.secrets
  <2> HIDE DEF k, v, r, q
  <2>3. \A x : [[kind |-> k, val |-> v, secrets |-> r] EXCEPT !.secrets = x]
                 = [kind |-> k, val |-> v, secrets |-> x]
    OBVIOUS
  <2> QED
    BY <2>1, <2>2, <2>3 DEF k, v, r
<1> HIDE DEF q
<1>6. Unlock(c) \in [kind : Kinds, val : Seq(Nat), secrets : Seq(Secrets)]
      /\ Unlock(c).secrets = q /\ Unlock(c).kind = c.kind
  BY <1>1, <1>4, <1>5
<1>7. c.kind \in Inner => q # <<>>
  BY <1>2, <1>4 DEF IsData
<1> QED
  BY <1>6, <1>7 DEF Cell

\* The header, the prefix and the digest are cells, and no cells of the content.
LEMMA FrameIs ==
    ASSUME NEW secret \in Secrets, NEW v \in Seq(Nat)
    PROVE  /\ MsgCell("esk", <<>>) \in Cell /\ ~IsData(MsgCell("esk", <<>>))
           /\ Lock(secret, MsgCell("prefix", v)) \in Cell /\ ~IsData(Lock(secret, MsgCell("prefix", v)))
           /\ Lock(secret, MsgCell("mdc", v)) \in Cell /\ ~IsData(Lock(secret, MsgCell("mdc", v)))
<1>1. Append(<<>>, secret) = <<secret>> /\ <<secret>> \in Seq(Secrets) /\ <<secret>> # <<>>
      /\ Len(<<secret>>) = 1 /\ <<>> \in Seq(Secrets)
  BY OneIs
<1>9. <<>> \in Seq(Nat)
  OBVIOUS
<1>2. MsgCell("esk", <<>>) \in Cell /\ ~IsData(MsgCell("esk", <<>>))
  BY <1>1, <1>9 DEF MsgCell, Cell, IsData, Kinds, Inner
<1>3. ASSUME NEW kind \in Inner
      PROVE  Lock(secret, MsgCell(kind, v)) \in Cell /\ ~IsData(Lock(secret, MsgCell(kind, v)))
  <2> DEFINE d == Lock(secret, MsgCell(kind, v))
  <2>1. d = [kind |-> kind, val |-> v, secrets |-> <<secret>>]
    BY <1>1 DEF Lock, MsgCell
  <2>2. kind \in Kinds
    BY DEF Kinds, Inner
  <2> HIDE DEF d
  <2>3. d.kind = kind /\ d.secrets = <<secret>>
        /\ d \in [kind : Kinds, val : Seq(Nat), secrets : Seq(Secrets)]
    BY <1>1, <2>1, <2>2
  <2>4. d \in Cell
    BY <1>1, <2>3 DEF Cell
  <2>5. Len(d.secrets) = 1 /\ ~(1 > 1)
    BY <1>1, <2>3
  <2>6. ~IsData(d)
    BY <2>3, <2>5 DEF IsData
  <2> QED
    BY <2>4, <2>6 DEF d
<1> QED
  BY <1>2, <1>3 DEF Inner

\* What Payload flattens.
Parts(s) == [i \in DOMAIN s |-> IF IsData(s[i]) THEN <<Unlock(s[i])>> ELSE <<>>]

LEMMA PartsAre ==
    ASSUME NEW s \in Cells
    PROVE  /\ Parts(s) \in Seq(Cells) /\ Len(Parts(s)) = Len(s)
           /\ \A i \in 1..Len(s) : Parts(s)[i] = IF IsData(s[i]) THEN <<Unlock(s[i])>> ELSE <<>>
           /\ Payload(s) = FlattenSeq(Parts(s)) /\ Payload(s) \in Cells
<1>1. s \in Seq(Cell) /\ Len(s) \in Nat /\ DOMAIN s = 1..Len(s) /\ \A i \in 1..Len(s) : s[i] \in Cell
  BY LenProperties, ElementOfSeq DEF Cells
<1>2. ASSUME NEW i \in 1..Len(s)
      PROVE  (IF IsData(s[i]) THEN <<Unlock(s[i])>> ELSE <<>>) \in Seq(Cell)
  <2>1. s[i] \in Cell
    BY <1>1
  <2>2. CASE IsData(s[i])
    BY <2>1, <2>2, UnlockIs
  <2>3. CASE ~IsData(s[i])
    BY <2>3
  <2> QED
    BY <2>2, <2>3
<1>3. Parts(s) \in Seq(Seq(Cell)) /\ Len(Parts(s)) = Len(s)
  <2>1. Parts(s) = [i \in 1..Len(s) |-> IF IsData(s[i]) THEN <<Unlock(s[i])>> ELSE <<>>]
    BY <1>1 DEF Parts
  <2>2. Parts(s) \in [1..Len(s) -> Seq(Cell)]
    BY <1>2, <2>1
  <2> QED
    BY <1>1, <2>2, SeqDef, LenProperties
<1>4. \A i \in 1..Len(s) : Parts(s)[i] = IF IsData(s[i]) THEN <<Unlock(s[i])>> ELSE <<>>
  BY <1>1 DEF Parts
<1>5. Payload(s) = FlattenSeq(Parts(s))
  BY DEF Payload, Parts
<1>6. FlattenSeq(Parts(s)) \in Seq(Cell)
  BY <1>3, FlattenType
<1> QED
  BY <1>3, <1>4, <1>5, <1>6 DEF Cells

\* The content goes through a concatenation.
LEMMA PayloadConcat ==
    ASSUME NEW s \in Cells, NEW t \in Cells
    PROVE  Payload(s \o t) = Payload(s) \o Payload(t)
<1> DEFINE st == s \o t
           a  == Parts(s)
           b  == Parts(t)
<1>1. s \in Seq(Cell) /\ t \in Seq(Cell) /\ Len(s) \in Nat /\ Len(t) \in Nat
  BY LenProperties DEF Cells
<1>2. st \in Seq(Cell) /\ Len(st) = Len(s) + Len(t)
      /\ \A i \in 1..(Len(s) + Len(t)) : st[i] = IF i <= Len(s) THEN s[i] ELSE t[i - Len(s)]
  BY <1>1, ConcatProperties
<1> HIDE DEF st
<1>3. /\ Parts(st) \in Seq(Cells) /\ Len(Parts(st)) = Len(st)
      /\ \A i \in 1..Len(st) : Parts(st)[i] = IF IsData(st[i]) THEN <<Unlock(st[i])>> ELSE <<>>
      /\ Payload(st) = FlattenSeq(Parts(st))
  BY <1>2, PartsAre DEF Cells
<1>4. /\ a \in Seq(Cells) /\ Len(a) = Len(s) /\ Payload(s) = FlattenSeq(a)
      /\ \A i \in 1..Len(s) : a[i] = IF IsData(s[i]) THEN <<Unlock(s[i])>> ELSE <<>>
  BY PartsAre
<1>5. /\ b \in Seq(Cells) /\ Len(b) = Len(t) /\ Payload(t) = FlattenSeq(b)
      /\ \A i \in 1..Len(t) : b[i] = IF IsData(t[i]) THEN <<Unlock(t[i])>> ELSE <<>>
  BY PartsAre
<1> HIDE DEF a, b
<1>6. a \o b \in Seq(Cells) /\ Len(a \o b) = Len(a) + Len(b)
      /\ \A i \in 1..(Len(a) + Len(b)) : (a \o b)[i] = IF i <= Len(a) THEN a[i] ELSE b[i - Len(a)]
  <2>1. a \in Seq(Cells) /\ b \in Seq(Cells)
    BY <1>4, <1>5
  <2> QED
    BY <2>1, ConcatProperties
<1>7. ASSUME NEW i \in 1..Len(st) PROVE Parts(st)[i] = (a \o b)[i]
  <2>1. CASE i <= Len(s)
    <3>1. i \in 1..Len(s) /\ st[i] = s[i] /\ (a \o b)[i] = a[i]
      BY <1>1, <1>2, <1>4, <1>5, <1>6, <2>1
    <3> QED
      BY <1>3, <1>4, <3>1
  <2>2. CASE ~(i <= Len(s))
    <3>1. i - Len(s) \in 1..Len(t) /\ st[i] = t[i - Len(s)] /\ (a \o b)[i] = b[i - Len(s)]
      BY <1>1, <1>2, <1>4, <1>5, <1>6, <2>2
    <3> QED
      BY <1>3, <1>5, <3>1
  <2> QED
    BY <2>1, <2>2
<1>8. Len(Parts(st)) = Len(a \o b)
  BY <1>2, <1>3, <1>4, <1>5, <1>6
<1>9. Parts(st) = a \o b
  BY <1>3, <1>6, <1>7, <1>8, SeqEqual
<1>10. FlattenSeq(a \o b) = FlattenSeq(a) \o FlattenSeq(b)
  BY <1>4, <1>5, FlattenConcat DEF Cells
<1> QED
  BY <1>3, <1>4, <1>5, <1>9, <1>10 DEF st

\* The content of the frame is nothing.
LEMMA PayloadNone ==
    /\ Payload(<<>>) = <<>>
    /\ \A c \in Cell : ~IsData(c) => Payload(<<c>>) = <<>>
<1>1. Payload(<<>>) = <<>>
  <2>1. Parts(<<>>) \in Seq(Cells) /\ Len(Parts(<<>>)) = 0 /\ Payload(<<>>) = FlattenSeq(Parts(<<>>))
    <3>1. <<>> \in Cells /\ Len(<<>>) = 0
      BY DEF Cells
    <3> QED
      BY <3>1, PartsAre
  <2>2. Parts(<<>>) = <<>>
    BY <2>1, EmptySeq
  <2> QED
    BY <2>1, <2>2 DEF FlattenSeq
<1>2. ASSUME NEW c \in Cell, ~IsData(c) PROVE Payload(<<c>>) = <<>>
  <2> DEFINE s == <<c>>
  <2>1. s \in Cells /\ Len(s) = 1 /\ s[1] = c
    BY DEF Cells
  <2> HIDE DEF s
  <2>2. Parts(s) \in Seq(Cells) /\ Len(Parts(s)) = 1 /\ Parts(s)[1] = <<>>
        /\ Payload(s) = FlattenSeq(Parts(s))
    <3>1. Parts(s) \in Seq(Cells) /\ Len(Parts(s)) = Len(s) /\ Payload(s) = FlattenSeq(Parts(s))
          /\ \A i \in 1..Len(s) : Parts(s)[i] = IF IsData(s[i]) THEN <<Unlock(s[i])>> ELSE <<>>
      BY <2>1, PartsAre
    <3>2. 1 \in 1..Len(s)
      BY <2>1
    <3> QED
      BY <1>2, <2>1, <3>1, <3>2
  <2>3. <<>> \in Seq(Cell) /\ <<>> \in Cells
    BY DEF Cells
  <2>4. Parts(s) = <<<<>>>>
    <3>1. <<<<>>>> \in Seq(Cells) /\ Len(<<<<>>>>) = 1 /\ <<<<>>>>[1] = <<>>
      BY <2>3
    <3>2. \A i \in 1..1 : Parts(s)[i] = <<<<>>>>[i]
      BY <2>2, <3>1
    <3> QED
      BY <2>2, <3>1, <3>2, SeqEqual
  <2>5. FlattenSeq(<<<<>>>>) = <<>>
    BY <2>3, FlattenSingle
  <2> QED
    BY <2>2, <2>4, <2>5 DEF s
<1> QED
  BY <1>1, <1>2

\* Encrypted cells, and that they are decrypted to the same.
LEMMA LockedIs ==
    ASSUME NEW secret \in Secrets, NEW s \in Cells
    PROVE  /\ Locked(secret, s) \in Cells /\ Len(Locked(secret, s)) = Len(s)
           /\ \A i \in 1..Len(s) : Locked(secret, s)[i] = Lock(secret, s[i])
           /\ Payload(Locked(secret, s)) = s
<1> DEFINE L == Locked(secret, s)
<1>1. s \in Seq(Cell) /\ Len(s) \in Nat /\ DOMAIN s = 1..Len(s) /\ \A i \in 1..Len(s) : s[i] \in Cell
  BY LenProperties, ElementOfSeq DEF Cells
<1>2. \A i \in 1..Len(s) : Lock(secret, s[i]) \in Cell
  BY <1>1, LockIs
<1>3. L = [i \in 1..Len(s) |-> Lock(secret, s[i])]
  BY <1>1 DEF Locked
<1>4. L \in [1..Len(s) -> Cell]
  BY <1>2, <1>3
<1>5. L \in Seq(Cell)
  BY <1>1, <1>4, SeqDef
<1>6. Len(L) = Len(s)
  <2>1. DOMAIN L = 1..Len(s)
    BY <1>3
  <2> HIDE DEF L
  <2>2. Len(L) \in Nat /\ DOMAIN L = 1..Len(L)
    BY <1>5, LenProperties
  <2> QED
    BY <1>1, <2>1, <2>2
<1>7. \A i \in 1..Len(s) : L[i] = Lock(secret, s[i])
  BY <1>3
<1> HIDE DEF L
<1>8. Payload(L) = s
  <2> DEFINE n == Len(s)
             c == [i \in 0..n |-> i]
             pieces == [i \in 1..n |-> SubSeq(s, c[i - 1] + 1, c[i])]
  <2>1. /\ Parts(L) \in Seq(Cells) /\ Len(Parts(L)) = Len(L) /\ Payload(L) = FlattenSeq(Parts(L))
        /\ \A i \in 1..Len(L) : Parts(L)[i] = IF IsData(L[i]) THEN <<Unlock(L[i])>> ELSE <<>>
    BY <1>5, PartsAre DEF Cells
  <2>2. ASSUME NEW i \in 1..n PROVE Parts(L)[i] = <<s[i]>>
    <3>1. L[i] = Lock(secret, s[i]) /\ s[i] \in Cell /\ i \in 1..Len(L)
      BY <1>1, <1>6, <1>7
    <3>2. IsData(L[i]) /\ Unlock(L[i]) = s[i]
      BY <3>1, LockIs
    <3> QED
      BY <2>1, <3>1, <3>2
  <2>3. ASSUME NEW i \in 1..n PROVE pieces[i] = <<s[i]>>
    <3>1. i \in Nat /\ i - 1 \in 0..n /\ i \in 0..n /\ i - 1 \in 0..i /\ i \in 0..Len(s) /\ i - (i - 1) = 1
          /\ (i - 1) + 1 = i
      BY <1>1
    <3>2. c[i - 1] = i - 1 /\ c[i] = i
      BY <3>1
    <3>3. pieces[i] = SubSeq(s, (i - 1) + 1, i)
      BY <3>2
    <3>4. /\ SubSeq(s, (i - 1) + 1, i) \in Seq(Cell) /\ Len(SubSeq(s, (i - 1) + 1, i)) = i - (i - 1)
          /\ \A j \in 1..(i - (i - 1)) : SubSeq(s, (i - 1) + 1, i)[j] = s[(i - 1) + j]
      BY <1>1, <3>1, PieceIs
    <3> HIDE DEF pieces, c
    <3>5. pieces[i] \in Seq(Cell) /\ Len(pieces[i]) = 1 /\ pieces[i][1] = s[i]
      BY <3>1, <3>3, <3>4
    <3>6. <<s[i]>> \in Seq(Cell) /\ Len(<<s[i]>>) = 1 /\ <<s[i]>>[1] = s[i]
      BY <1>1, OneIs
    <3>7. \A j \in 1..1 : pieces[i][j] = <<s[i]>>[j]
      BY <3>5, <3>6
    <3> QED
      BY <3>5, <3>6, <3>7, SeqEqual
  <2>4. /\ n \in Nat /\ c \in [0..n -> 0..Len(s)] /\ c[0] = 0 /\ c[n] = n
        /\ \A i \in 1..n : c[i - 1] <= c[i]
    BY <1>1
  <2> HIDE DEF c
  <2>5. FlattenSeq([i \in 1..n |-> SubSeq(s, c[i - 1] + 1, c[i])]) = SubSeq(s, 1, c[n])
    BY <1>1, <2>4, FlattenPieces
  <2>6. FlattenSeq(pieces) = s
    BY <1>1, <2>4, <2>5, SubSeqFull
  <2>7. \A i \in 1..n : <<s[i]>> \in Cells
    BY <1>1, OneIs DEF Cells
  <2>8. pieces = [i \in 1..n |-> <<s[i]>>]
    <3>1. pieces = [i \in 1..n |-> pieces[i]]
      OBVIOUS
    <3> HIDE DEF pieces
    <3> QED
      BY <2>3, <3>1
  <2>9. Parts(L) = [i \in 1..n |-> <<s[i]>>]
    <3>1. DOMAIN Parts(L) = 1..n /\ Parts(L) = [i \in 1..n |-> Parts(L)[i]]
      BY <1>6, <2>1, LenProperties
    <3> QED
      BY <2>2, <3>1
  <2> HIDE DEF pieces
  <2> QED
    BY <2>1, <2>6, <2>8, <2>9
<1> QED
  BY <1>5, <1>6, <1>7, <1>8 DEF L, Cells

\* Encrypting goes through a concatenation.
LEMMA LockedConcat ==
    ASSUME NEW secret \in Secrets, NEW s \in Cells, NEW t \in Cells
    PROVE  Locked(secret, s \o t) = Locked(secret, s) \o Locked(secret, t)
<1> DEFINE st == s \o t
           a  == Locked(secret, s)
           b  == Locked(secret, t)
<1>1. s \in Seq(Cell) /\ t \in Seq(Cell) /\ Len(s) \in Nat /\ Len(t) \in Nat
  BY LenProperties DEF Cells
<1>2. st \in Seq(Cell) /\ Len(st) = Len(s) + Len(t)
      /\ \A i \in 1..(Len(s) + Len(t)) : st[i] = IF i <= Len(s) THEN s[i] ELSE t[i - Len(s)]
  BY <1>1, ConcatProperties
<1> HIDE DEF st
<1>3. /\ Locked(secret, st) \in Seq(Cell) /\ Len(Locked(secret, st)) = Len(st)
      /\ \A i \in 1..Len(st) : Locked(secret, st)[i] = Lock(secret, st[i])
  BY <1>2, LockedIs DEF Cells
<1>4. a \in Seq(Cell) /\ Len(a) = Len(s) /\ \A i \in 1..Len(s) : a[i] = Lock(secret, s[i])
  BY LockedIs DEF Cells
<1>5. b \in Seq(Cell) /\ Len(b) = Len(t) /\ \A i \in 1..Len(t) : b[i] = Lock(secret, t[i])
  BY LockedIs DEF Cells
<1> HIDE DEF a, b
<1>6. a \o b \in Seq(Cell) /\ Len(a \o b) = Len(a) + Len(b)
      /\ \A i \in 1..(Len(a) + Len(b)) : (a \o b)[i] = IF i <= Len(a) THEN a[i] ELSE b[i - Len(a)]
  <2>1. a \in Seq(Cell) /\ b \in Seq(Cell)
    BY <1>4, <1>5
  <2> QED
    BY <2>1, ConcatProperties
<1>7. ASSUME NEW i \in 1..Len(st) PROVE Locked(secret, st)[i] = (a \o b)[i]
  <2>1. CASE i <= Len(s)
    <3>1. i \in 1..Len(s) /\ st[i] = s[i] /\ (a \o b)[i] = a[i]
      BY <1>1, <1>2, <1>4, <1>5, <1>6, <2>1
    <3> QED
      BY <1>3, <1>4, <3>1
  <2>2. CASE ~(i <= Len(s))
    <3>1. i - Len(s) \in 1..Len(t) /\ st[i] = t[i - Len(s)] /\ (a \o b)[i] = b[i - Len(s)]
      BY <1>1, <1>2, <1>4, <1>5, <1>6, <2>2
    <3> QED
      BY <1>3, <1>5, <3>1
  <2> QED
    BY <2>1, <2>2
<1>8. Len(Locked(secret, st)) = Len(a \o b)
  BY <1>2, <1>3, <1>4, <1>5, <1>6
<1>9. Locked(secret, st) = a \o b
  BY <1>3, <1>6, <1>7, <1>8, SeqEqual
<1> QED
  BY <1>9 DEF a, b, st

\* What a digest is of.
LEMMA ValuesAre ==
    ASSUME NEW s \in Cells
    PROVE  Values(s) \in Seq(Nat)
<1>1. s \in Seq(Cell) /\ Len(s) \in Nat /\ DOMAIN s = 1..Len(s) /\ \A i \in 1..Len(s) : s[i] \in Cell
  BY LenProperties, ElementOfSeq DEF Cells
<1>2. \A i \in 1..Len(s) : s[i].val \in Seq(Nat)
  BY <1>1 DEF Cell
<1>3. [i \in 1..Len(s) |-> s[i].val] \in [1..Len(s) -> Seq(Nat)]
  BY <1>2
<1>4. [i \in 1..Len(s) |-> s[i].val] \in Seq(Seq(Nat))
  BY <1>1, <1>3, SeqDef
<1>5. FlattenSeq([i \in 1..Len(s) |-> s[i].val]) \in Seq(Nat)
  BY <1>4, FlattenType
<1> QED
  BY <1>1, <1>5 DEF Values

\* The two cells that a message opens with.
LEMMA OpeningIs ==
    ASSUME NEW secret \in Secrets
    PROVE  Opening(secret) \in Cells /\ Len(Opening(secret)) = 2 /\ Payload(Opening(secret)) = <<>>
<1> DEFINE a == MsgCell("esk", <<>>)
           b == Lock(secret, MsgCell("prefix", <<>>))
<1>1. <<>> \in Seq(Nat)
  OBVIOUS
<1>2. a \in Cell /\ ~IsData(a) /\ b \in Cell /\ ~IsData(b)
  BY <1>1, FrameIs
<1>3. Opening(secret) = <<a, b>>
  BY DEF Opening
<1> HIDE DEF a, b
<1>4. <<a>> \in Seq(Cell) /\ <<b>> \in Seq(Cell) /\ Len(<<a>>) = 1 /\ Len(<<b>>) = 1
  BY <1>2, OneIs
<1>5. <<a, b>> = <<a>> \o <<b>>
  <2>1. Append(<<a>>, b) = <<a>> \o <<b>>
    BY <1>2, <1>4, AppendIsConcat
  <2>2. Append(<<a>>, b) \in Seq(Cell) /\ Len(Append(<<a>>, b)) = 2
        /\ Append(<<a>>, b)[1] = a /\ Append(<<a>>, b)[2] = b
    BY <1>2, <1>4, OneIs, AppendProperties
  <2>3. <<a, b>> \in Seq(Cell) /\ Len(<<a, b>>) = 2 /\ <<a, b>>[1] = a /\ <<a, b>>[2] = b
    BY <1>2
  <2>4. \A i \in 1..2 : <<a, b>>[i] = Append(<<a>>, b)[i]
    BY <2>2, <2>3
  <2> QED
    BY <2>1, <2>2, <2>3, <2>4, SeqEqual
<1>6. <<a>> \o <<b>> \in Seq(Cell) /\ Len(<<a>> \o <<b>>) = Len(<<a>>) + Len(<<b>>)
  BY <1>4, ConcatProperties
<1>7. Payload(<<a>> \o <<b>>) = Payload(<<a>>) \o Payload(<<b>>)
  BY <1>4, PayloadConcat DEF Cells
<1>8. Payload(<<a>>) = <<>> /\ Payload(<<b>>) = <<>> /\ <<>> \o <<>> = <<>>
  BY <1>2, PayloadNone
<1> QED
  BY <1>3, <1>4, <1>5, <1>6, <1>7, <1>8 DEF Cells

\* A message without its digest.
Unclosed(secret, plain) == Opening(secret) \o Locked(secret, plain)

LEMMA UnclosedIs ==
    ASSUME NEW secret \in Secrets, NEW p \in Cells
    PROVE  /\ Unclosed(secret, p) \in Cells /\ Len(Unclosed(secret, p)) = 2 + Len(p)
           /\ Payload(Unclosed(secret, p)) = p /\ Begins(Opening(secret), Unclosed(secret, p))
<1> DEFINE O == Opening(secret)
           L == Locked(secret, p)
<1>1. O \in Seq(Cell) /\ Len(O) = 2 /\ Payload(O) = <<>>
  BY OpeningIs DEF Cells
<1>2. L \in Seq(Cell) /\ Len(L) = Len(p) /\ Payload(L) = p
  BY LockedIs DEF Cells
<1> HIDE DEF O, L
<1>3. O \o L \in Seq(Cell) /\ Len(O \o L) = Len(O) + Len(L)
  BY <1>1, <1>2, ConcatProperties
<1>4. Payload(O \o L) = Payload(O) \o Payload(L)
  BY <1>1, <1>2, PayloadConcat DEF Cells
<1>5. <<>> \o p = p
  BY ConcatEmptySeq DEF Cells
<1>6. Payload(O \o L) = p
  BY <1>1, <1>2, <1>4, <1>5
<1>7. Begins(O, O \o L)
  BY <1>2 DEF Begins, Cells
<1> QED
  BY <1>1, <1>2, <1>3, <1>6, <1>7 DEF Unclosed, O, L, Cells

\* A message is decrypted to what was encrypted.
LEMMA EncodeIs ==
    ASSUME NEW secret \in Secrets, NEW p \in Cells
    PROVE  /\ Encode(secret, p) \in Cells /\ Len(Encode(secret, p)) = 3 + Len(p)
           /\ Begins(Unclosed(secret, p), Encode(secret, p))
           /\ Payload(Encode(secret, p)) = p
<1> DEFINE U == Unclosed(secret, p)
           d == Lock(secret, MsgCell("mdc", Values(p)))
<1>1. U \in Seq(Cell) /\ Len(U) = 2 + Len(p) /\ Payload(U) = p /\ Len(p) \in Nat
  BY UnclosedIs, LenProperties DEF Cells
<1>2. Values(p) \in Seq(Nat)
  BY ValuesAre
<1>3. d \in Cell /\ ~IsData(d)
  BY <1>2, FrameIs
<1>4. Encode(secret, p) = U \o <<d>>
  BY DEF Encode, Unclosed
<1> HIDE DEF U, d
<1>5. <<d>> \in Seq(Cell) /\ Len(<<d>>) = 1
  BY <1>3, OneIs
<1>6. U \o <<d>> \in Seq(Cell) /\ Len(U \o <<d>>) = Len(U) + Len(<<d>>)
  BY <1>1, <1>5, ConcatProperties
<1>7. Payload(U \o <<d>>) = Payload(U) \o Payload(<<d>>)
  BY <1>1, <1>5, PayloadConcat DEF Cells
<1>8. Payload(<<d>>) = <<>>
  BY <1>3, PayloadNone
<1>9. p \o <<>> = p
  BY ConcatEmptySeq DEF Cells
<1>10. Payload(Encode(secret, p)) = p
  BY <1>1, <1>4, <1>7, <1>8, <1>9
<1>11. Begins(U, Encode(secret, p))
  BY <1>4, <1>5 DEF Begins, Cells
<1>12. Len(Encode(secret, p)) = 3 + Len(p)
  BY <1>1, <1>4, <1>5, <1>6
<1> QED
  BY <1>4, <1>6, <1>10, <1>11, <1>12 DEF U, Cells

\* A beginning of what is encrypted is encrypted to a beginning.
LEMMA UnclosedGrows ==
    ASSUME NEW secret \in Secrets, NEW q \in Cells, NEW p \in Cells, Begins(q, p)
    PROVE  Begins(Unclosed(secret, q), Unclosed(secret, p))
<1> DEFINE O == Opening(secret)
           L == Locked(secret, q)
<1>1. PICK r \in Cells : p = q \o r
  BY DEF Begins
<1> DEFINE R == Locked(secret, r)
<1>2. O \in Seq(Cell) /\ L \in Seq(Cell) /\ R \in Seq(Cell)
  BY OpeningIs, LockedIs DEF Cells
<1>3. Locked(secret, p) = L \o R
  BY <1>1, LockedConcat
<1>4. Unclosed(secret, q) = O \o L /\ Unclosed(secret, p) = O \o Locked(secret, p)
  BY DEF Unclosed
<1> HIDE DEF O, L, R
<1>5. (O \o L) \o R = O \o (L \o R)
  BY <1>2, ConcatAssociative
<1> QED
  BY <1>2, <1>3, <1>4, <1>5 DEF Begins, Cells

\* What begins a message has begun one, and is decrypted to the beginning of
\* what was encrypted.
LEMMA BegunIs ==
    ASSUME NEW secret \in Secrets, NEW p \in Cells, NEW s \in Cells, Begins(s, Encode(secret, p))
    PROVE  Begun(secret, s) /\ Begins(Payload(s), p)
<1> DEFINE O == Opening(secret)
           U == Unclosed(secret, p)
           E == Encode(secret, p)
<1>1. s \in Seq(Cell) /\ p \in Seq(Cell) /\ Len(s) \in Nat /\ Len(p) \in Nat /\ <<>> \in Cells
  BY LenProperties DEF Cells
<1>2. O \in Cells /\ Len(O) = 2 /\ Payload(O) = <<>>
  BY OpeningIs
<1>3. U \in Cells /\ Len(U) = 2 + Len(p) /\ Begins(O, U)
  BY UnclosedIs
<1>4. E \in Cells /\ Len(E) = 3 + Len(p) /\ Begins(U, E) /\ Payload(E) = p
  BY EncodeIs
<1>5. Len(s) \in 0..Len(E) /\ s = Take(E, Len(s))
  BY <1>4, BeginsTakes
<1> SUFFICES ASSUME TRUE
             PROVE  Begins(s, Encode(secret, Payload(s))) /\ Begins(Payload(s), p)
  <2>1. Payload(s) \in Cells
    BY PartsAre
  <2>2. Encode(secret, Payload(s)) \in Cells
    BY <2>1, EncodeIs
  <2> QED
    BY <2>2, BeginsIs DEF Begun
<1>6. CASE Len(s) = 3 + Len(p)
  <2>1. s = E
    <3>1. Take(E, Len(E)) = E
      BY <1>4, SubSeqFull DEF Take, Cells
    <3> QED
      BY <1>4, <1>5, <1>6, <3>1
  <2> HIDE DEF E
  <2>2. Payload(s) = p /\ Encode(secret, Payload(s)) = s
    BY <1>4, <2>1 DEF E
  <2>3. Begins(s, s) /\ Begins(p, p)
    BY BeginsMore
  <2> QED
    BY <2>2, <2>3
<1>7. CASE Len(s) <= 2
  <2>1. Begins(s, O)
    <3>1. Begins(O, E)
      BY <1>2, <1>3, <1>4, BeginsMore
    <3> HIDE DEF O, U, E
    <3>2. Begins(s, E) /\ Len(s) <= Len(O)
      BY <1>2, <1>7 DEF E
    <3> QED
      BY <1>2, <1>4, <3>1, <3>2, BeginsBoth
  <2>2. Payload(s) = <<>>
    <3>1. PICK u \in Cells : O = s \o u
      BY <2>1 DEF Begins
    <3>2. Payload(s) \in Seq(Cell) /\ Payload(u) \in Seq(Cell)
      BY <3>1, PartsAre DEF Cells
    <3>3. Payload(s \o u) = Payload(s) \o Payload(u)
      BY <3>1, PayloadConcat
    <3>4. Payload(s) \o Payload(u) = <<>>
      BY <1>2, <3>1, <3>3
    <3> QED
      BY <3>2, <3>4, ConcatEqualIffEmpty
  <2>3. Unclosed(secret, <<>>) \in Cells /\ Begins(O, Unclosed(secret, <<>>))
    BY <1>1, UnclosedIs
  <2>4. Encode(secret, <<>>) \in Cells /\ Begins(Unclosed(secret, <<>>), Encode(secret, <<>>))
    BY <1>1, EncodeIs
  <2> HIDE DEF O
  <2>5. Begins(s, Unclosed(secret, <<>>))
    BY <1>2, <2>1, <2>3, BeginsMore
  <2>6. Begins(s, Encode(secret, <<>>))
    BY <2>3, <2>4, <2>5, BeginsMore
  <2>7. Begins(<<>>, p)
    BY BeginsMore
  <2> QED
    BY <2>2, <2>6, <2>7
<1>8. CASE Len(s) > 2 /\ Len(s) # 3 + Len(p)
  <2> DEFINE k == Len(s) - 2
             q == Take(p, k)
  <2>1. k \in 0..Len(p) /\ Len(s) = 2 + k
    BY <1>1, <1>4, <1>5, <1>8
  <2>2. q \in Cells /\ Len(q) = k /\ Begins(q, p)
    BY <2>1, TakeIs
  <2> HIDE DEF q
  <2>3. Unclosed(secret, q) \in Cells /\ Len(Unclosed(secret, q)) = 2 + Len(q) /\ Payload(Unclosed(secret, q)) = q
    BY <2>2, UnclosedIs
  <2>4. Begins(Unclosed(secret, q), U)
    BY <2>2, UnclosedGrows
  <2>5. Begins(Unclosed(secret, q), E)
    BY <1>3, <1>4, <2>3, <2>4, BeginsMore
  <2> HIDE DEF U
  <2>6. s = Unclosed(secret, q)
    <3>1. Len(Unclosed(secret, q)) = Len(s)
      BY <2>1, <2>2, <2>3
    <3>2. Unclosed(secret, q) = Take(E, Len(Unclosed(secret, q)))
      BY <1>4, <2>3, <2>5, BeginsTakes
    <3> QED
      BY <1>5, <3>1, <3>2
  <2>7. Begins(Unclosed(secret, q), Encode(secret, q))
    BY <2>2, EncodeIs
  <2>8. Payload(s) = q
    BY <2>3, <2>6
  <2> QED
    BY <2>2, <2>6, <2>7, <2>8
<1>9. Len(s) = 3 + Len(p) \/ Len(s) <= 2 \/ (Len(s) > 2 /\ Len(s) # 3 + Len(p))
  BY <1>1
<1> QED
  BY <1>6, <1>7, <1>8, <1>9

\* What has begun a message had begun it before, and had the beginning of the
\* content.
LEMMA BegunBefore ==
    ASSUME NEW secret \in Secrets, NEW s \in Cells, NEW t \in Cells, Begins(s, t), Begun(secret, t)
    PROVE  Begun(secret, s) /\ Begins(Payload(s), Payload(t))
<1>1. Payload(t) \in Cells
  BY PartsAre
<1>2. Encode(secret, Payload(t)) \in Cells
  BY <1>1, EncodeIs
<1>3. Begins(t, Encode(secret, Payload(t)))
  BY <1>2, BeginsIs DEF Begun
<1>4. Begins(s, Encode(secret, Payload(t)))
  BY <1>2, <1>3, BeginsMore
<1> QED
  BY <1>1, <1>4, BegunIs

-----------------------------------------------------------------------------
(* The inductive invariant.                                                *)

\* A call that works on files has one of the two actions, no exit code of its
\* own before it ends, and nothing done before the output is open.
Phase ==
    /\ pc # "exited" => job.action \in {"encrypt", "decrypt"} /\ exit = 0
    /\ last \/ exit = 134 => job.action \in {"encrypt", "decrypt"}
    /\ pc \in {"open", "loop"} => ~last
    /\ pc = "open" => /\ pos = 0 /\ eaten = <<>> /\ given = <<>>
                      /\ ~eof /\ ~inBad /\ ~outBad
    /\ last => inBad \/ eof

\* What was read is the beginning of the input, all of it at the end of file.
Fed ==
    /\ pc # "exited" => pos <= Len(Input)
    /\ Working /\ Aside => /\ pos <= Len(Input) /\ eaten = Take(Input, pos)
                           /\ eof => pos = Len(Input)

\* A call that writes over its own input finds it empty, since it cut it to
\* nothing, and reads no further than that.
Alone ==
    pc # "exited" /\ ~Aside =>
        /\ pos = 0
        /\ pc \in {"call", "write"} => eof \/ inBad
        /\ pc = "loop" /\ Goes => Input = <<>>

\* The output is what the library gave, but for what waits in buf and what a
\* failed write or an exception has lost.
Wrote ==
    Working => IF outBad \/ exit = 134 THEN IsPrefix(disk[job.output].cells, given)
               ELSE IF pc = "write" THEN disk[job.output].cells \o buf = given
               ELSE disk[job.output].cells = given

\* The library gave the beginning of what was read comes to, not yet the digest
\* before Finish, and everything in Finish.
Gave ==
    /\ Working /\ Aside /\ (job.action = "decrypt" => Begun(Secret, Input)) =>
          /\ IsPrefix(given, Output(job, eaten))
          /\ job.action = "encrypt" /\ ~last => Len(given) < Len(Output(job, eaten))
    /\ last /\ pc \in {"write", "exited"} /\ exit # 134 => given = Output(job, eaten)

\* A file that is known for a message of some source is that message.
Remembered ==
    /\ pc \in {"loop", "call", "write"} => ~source[job.output].known
    /\ \A f \in Files : source[f].known =>
          disk[f].cells = Encode(source[f].secret, source[f].plain)

IInv == TypeOK /\ Phase /\ Fed /\ Alone /\ Wrote /\ Gave /\ Remembered /\ FailsForAReason

-----------------------------------------------------------------------------
(* What there is in every state.                                           *)

LEMMA JobIs ==
    ASSUME NEW j \in Jobs
    PROVE  j.input \in Files /\ j.output \in Files /\ ReadFile(j.pwd) \in Secrets
<1>1. j.input \in Files /\ j.output \in Files
  BY ToolAssumption DEF ToolAssumption
<1>2. ReadFile(j.pwd) = "" \/ ReadFile(j.pwd) = j.pwd
  BY DEF ReadFile
<1> QED
  BY <1>1, <1>2 DEF Secrets

LEMMA CellsOf ==
    ASSUME NEW d \in [Files -> File], NEW f \in Files
    PROVE  d[f] \in File /\ d[f].cells \in Cells /\ Len(d[f].cells) \in Nat
<1>1. d[f] \in File
  OBVIOUS
<1>2. d[f].cells \in Seq(Cell)
  BY <1>1 DEF File
<1> QED
  BY <1>1, <1>2, LenProperties DEF Cells

\* The content of some input.
LEMMA OutputIs ==
    ASSUME NEW j \in Jobs, NEW s \in Cells
    PROVE  /\ Output(j, s) \in Cells
           /\ j.action = "encrypt" => Output(j, s) = Encode(ReadFile(j.pwd), s)
           /\ j.action = "decrypt" /\ Begun(ReadFile(j.pwd), s) => Output(j, s) = Payload(s)
<1>1. ReadFile(j.pwd) \in Secrets
  BY JobIs
<1>2. Encode(ReadFile(j.pwd), s) \in Cells /\ Payload(s) \in Cells /\ <<>> \in Cells
  <2>1. <<>> \in Cells
    BY DEF Cells
  <2> QED
    BY <1>1, <2>1, EncodeIs, PartsAre
<1>3. "encrypt" # "decrypt"
  OBVIOUS
<1> QED
  BY <1>2, <1>3 DEF Output

\* A part of the content of what was read is one of what has been read later,
\* as long as it leaves out the digest.
Follows(j, s, g) ==
    Begins(g, Output(j, s)) /\ (j.action = "encrypt" => Len(g) < Len(Output(j, s)))
LEMMA FollowsOn ==
    ASSUME NEW j \in Jobs, j.action \in {"encrypt", "decrypt"},
           NEW s \in Cells, NEW t \in Cells, Begins(s, t), NEW g \in Cells,
           j.action = "decrypt" => Begun(ReadFile(j.pwd), t), Follows(j, s, g)
    PROVE  Follows(j, t, g)
<1> DEFINE secret == ReadFile(j.pwd)
<1>1. secret \in Secrets
  BY JobIs
<1> HIDE DEF secret
<1>2. CASE j.action = "encrypt"
  <2>1. Output(j, s) = Encode(secret, s) /\ Output(j, t) = Encode(secret, t)
    BY <1>2, OutputIs DEF secret
  <2>2. Encode(secret, s) \in Cells /\ Len(Encode(secret, s)) = 3 + Len(s)
        /\ Begins(Unclosed(secret, s), Encode(secret, s))
    BY <1>1, EncodeIs
  <2>3. Encode(secret, t) \in Cells /\ Len(Encode(secret, t)) = 3 + Len(t)
        /\ Begins(Unclosed(secret, t), Encode(secret, t))
    BY <1>1, EncodeIs
  <2>4. Unclosed(secret, s) \in Cells /\ Len(Unclosed(secret, s)) = 2 + Len(s)
    BY <1>1, UnclosedIs
  <2>5. Unclosed(secret, t) \in Cells
    BY <1>1, UnclosedIs
  <2>6. Begins(Unclosed(secret, s), Unclosed(secret, t))
    BY <1>1, UnclosedGrows
  <2>7. Begins(g, Encode(secret, s)) /\ Len(g) < 3 + Len(s)
    BY <1>2, <2>1, <2>2 DEF Follows
  <2>8. Len(g) \in Nat /\ Len(s) \in Nat /\ Len(t) \in Nat /\ Len(s) <= Len(t)
    <3>1. Len(s) \in 0..Len(t)
      BY BeginsTakes
    <3> QED
      BY <3>1, LenProperties DEF Cells
  <2>9. Len(g) <= Len(Unclosed(secret, s))
    BY <2>4, <2>7, <2>8
  <2>10. Begins(g, Unclosed(secret, s))
    BY <2>2, <2>4, <2>7, <2>9, BeginsBoth
  <2>11. Begins(g, Unclosed(secret, t))
    BY <2>4, <2>5, <2>6, <2>10, BeginsMore
  <2>12. Begins(g, Encode(secret, t))
    BY <2>3, <2>5, <2>11, BeginsMore
  <2>13. Len(g) < Len(Encode(secret, t))
    BY <2>3, <2>7, <2>8
  <2> QED
    BY <2>1, <2>12, <2>13 DEF Follows
<1>3. CASE j.action = "decrypt"
  <2>1. Begun(secret, t)
    BY <1>3 DEF secret
  <2>2. Begun(secret, s) /\ Begins(Payload(s), Payload(t))
    BY <1>1, <2>1, BegunBefore
  <2>3. Output(j, s) = Payload(s) /\ Output(j, t) = Payload(t)
    BY <1>3, <2>1, <2>2, OutputIs DEF secret
  <2>4. Payload(s) \in Cells /\ Payload(t) \in Cells
    BY PartsAre
  <2>5. Begins(g, Payload(s))
    BY <2>3 DEF Follows
  <2>6. Begins(g, Payload(t))
    BY <2>2, <2>4, <2>5, BeginsMore
  <2> QED
    BY <1>3, <2>3, <2>6 DEF Follows
<1> QED
  BY <1>2, <1>3

\* What the state has.
LEMMA StateIs ==
    ASSUME TypeOK
    PROVE  /\ job \in Jobs /\ job.input \in Files /\ job.output \in Files /\ Secret \in Secrets
           /\ Input \in Cells /\ Len(Input) \in Nat /\ disk[job.output] \in File
           /\ disk[job.output].cells \in Cells /\ Len(disk[job.output].cells) \in Nat
           /\ pos \in Nat /\ buf \in Cells /\ eaten \in Cells /\ given \in Cells
           /\ Output(job, eaten) \in Cells /\ BufSize \in Nat \ {0}
<1>1. /\ job \in Jobs /\ disk \in [Files -> File] /\ pos \in Nat /\ buf \in Cells
      /\ eaten \in Cells /\ given \in Cells
  BY DEF TypeOK, Cells
<1>2. job.input \in Files /\ job.output \in Files /\ Secret \in Secrets
  BY <1>1, JobIs DEF Secret
<1>3. Input \in Cells /\ Len(Input) \in Nat
  BY <1>1, <1>2, CellsOf DEF Input
<1>4. disk[job.output] \in File /\ disk[job.output].cells \in Cells /\ Len(disk[job.output].cells) \in Nat
  BY <1>1, <1>2, CellsOf
<1>5. Output(job, eaten) \in Cells
  BY <1>1, OutputIs
<1> QED
  BY <1>1, <1>2, <1>3, <1>4, <1>5, ToolAssumption DEF ToolAssumption

InputIs == TypeOK => Input \in Cells /\ Len(Input) \in Nat /\ job \in Jobs
LEMMA InputThen == InputIs /\ InputIs'
<1>1. InputIs
  BY StateIs DEF InputIs
<1> QED
  BY <1>1, PTL

-----------------------------------------------------------------------------
(* The types are kept.                                                     *)

LEMMA InitTypes ==
    ASSUME Init
    PROVE  TypeOK
<1>1. disk \in [Files -> File] /\ job \in Jobs /\ MaxRuns \in Nat
  BY ToolAssumption DEF Init, ToolAssumption
<1>2. <<>> \in Seq(Cell)
  OBVIOUS
<1>3. NoSource \in [secret : Secrets, plain : Seq(Cell), known : BOOLEAN]
  BY <1>2 DEF NoSource, Secrets
<1>4. source \in [Files -> [secret : Secrets, plain : Seq(Cell), known : BOOLEAN]]
  BY <1>3 DEF Init
<1>5. /\ pc = "exited" /\ exit = 0 /\ runs = 0 /\ pos = 0 /\ eof = FALSE /\ inBad = FALSE
      /\ outBad = FALSE /\ buf = <<>> /\ last = FALSE /\ eaten = <<>> /\ given = <<>>
  BY DEF Init
<1>6. runs \in 0..MaxRuns /\ exit \in {0, 1, -1, 134} /\ pos \in Nat
  BY <1>1, <1>5
<1> QED
  BY <1>1, <1>2, <1>4, <1>5, <1>6 DEF TypeOK

\* A file that is cut or written to.
LEMMA FilePut ==
    ASSUME NEW d \in [Files -> File], NEW f \in Files, NEW s \in Cells, NEW e,
           \/ e = [d EXCEPT ![f] = [there |-> TRUE, cells |-> s]]
           \/ e = [d EXCEPT ![f].cells = s]
    PROVE  e \in [Files -> File] /\ e[f].cells = s /\ \A g \in Files : g # f => e[g] = d[g]
<1>1. d[f] \in File /\ s \in Seq(Cell)
  BY DEF Cells
<1>2. PICK r : e = [d EXCEPT ![f] = r] /\ r \in File /\ r.cells = s
  <2>1. [there |-> TRUE, cells |-> s] \in File /\ [there |-> TRUE, cells |-> s].cells = s
    BY <1>1 DEF File
  <2>2. [d[f] EXCEPT !.cells = s] \in File /\ [d[f] EXCEPT !.cells = s].cells = s
    BY <1>1 DEF File
  <2>3. [d EXCEPT ![f].cells = s] = [d EXCEPT ![f] = [d[f] EXCEPT !.cells = s]]
    OBVIOUS
  <2> QED
    BY <2>1, <2>2, <2>3
<1> QED
  BY <1>2

\* What is read next.
LEMMA ChunkIs ==
    ASSUME TypeOK, pos <= Len(Input), NEW n, n = Least(BufSize, Len(Input) - pos)
    PROVE  /\ n \in Nat /\ pos + n \in 0..Len(Input)
           /\ n < BufSize => pos + n = Len(Input)
           /\ Chunk(n) \in Cells
           /\ eaten = Take(Input, pos) => eaten \o Chunk(n) = Take(Input, pos + n)
<1>1. Input \in Seq(Cell) /\ Len(Input) \in Nat /\ pos \in Nat /\ BufSize \in Nat
  BY StateIs DEF Cells
<1>2. n \in Nat /\ pos + n \in 0..Len(Input) /\ (n < BufSize => pos + n = Len(Input))
  BY <1>1 DEF Least
<1>3. pos \in 0..(pos + n) /\ 0 \in 0..pos /\ 0 + 1 = 1
  BY <1>1, <1>2
<1>4. Chunk(n) \in Cells
  BY <1>1, <1>2, <1>3, PieceIs DEF Chunk, Cells
<1>5. SubSeq(Input, 0 + 1, pos) \o SubSeq(Input, pos + 1, pos + n) = SubSeq(Input, 0 + 1, pos + n)
  BY <1>1, <1>2, <1>3, PieceJoin
<1> QED
  BY <1>2, <1>3, <1>4, <1>5 DEF Chunk, Take

\* What the library gives in one call.
LEMMA GivesIs ==
    ASSUME TypeOK, Gives
    PROVE  /\ given' \in Cells /\ Begins(given, given') /\ Begins(given', Output(job, eaten))
           /\ Drop(given', Len(given)) \in Cells /\ given \o Drop(given', Len(given)) = given'
           /\ ~last /\ job.action = "encrypt" => Len(given') < Len(Output(job, eaten))
           /\ last => given' = Output(job, eaten)
<1> DEFINE out == Output(job, eaten)
<1>1. given \in Cells /\ eaten \in Cells /\ out \in Cells
  BY StateIs
<1>2. PICK n \in 0..Len(out) : given' = Take(out, n)
  BY DEF Gives
<1>3. given' \in Cells
  BY <1>1, <1>2, TakeIs
<1>4. Codec!IsPrefix(given, given') /\ Codec!IsPrefix(given', Output(job, Take(eaten, Len(eaten))))
  BY DEF Gives, Codec!Give
<1>5. Take(eaten, Len(eaten)) = eaten
  BY <1>1, SubSeqFull DEF Take, Cells
<1>6. IsPrefix(given, given') /\ IsPrefix(given', out)
  BY <1>4, <1>5 DEF IsPrefix, Codec!IsPrefix
<1>7. ~last /\ job.action = "encrypt" => Len(given') < Len(out)
  BY DEF Gives
<1>8. last => given' = out
  BY DEF Gives
<1> HIDE DEF out
<1>9. Begins(given, given') /\ Begins(given', out)
  BY <1>1, <1>3, <1>6, BeginsIs
<1>10. PICK u \in Cells : given' = given \o u
  BY <1>9 DEF Begins
<1>11. SubSeq(given \o u, Len(given) + 1, Len(given \o u)) = u
  BY <1>1, <1>10, TakeFirst DEF Cells
<1>12. Drop(given', Len(given)) = u
  BY <1>10, <1>11 DEF Drop
<1> QED
  BY <1>3, <1>7, <1>8, <1>9, <1>10, <1>12 DEF out

-----------------------------------------------------------------------------
(* One lemma for each action.                                              *)

LEMMA InitKeeps ==
    ASSUME Init
    PROVE  IInv
<1>1. TypeOK
  BY InitTypes
<1>2. pc = "exited" /\ ~last /\ exit = 0
  BY DEF Init
<1>3. ~Working
  BY <1>2 DEF Working
<1>4. \A f \in Files : ~source[f].known
  BY DEF Init, NoSource
<1>5. Phase /\ Fed /\ Alone /\ Wrote /\ Gave /\ Remembered /\ FailsForAReason
  BY <1>2, <1>3, <1>4 DEF Phase, Fed, Alone, Wrote, Gave, Remembered, FailsForAReason
<1> QED
  BY <1>1, <1>5 DEF IInv

LEMMA MainKeeps ==
    ASSUME IInv, Main
    PROVE  IInv'
<1>1. /\ job' \in Jobs /\ pos' = 0 /\ eof' = FALSE /\ inBad' = FALSE /\ outBad' = FALSE
      /\ buf' = <<>> /\ last' = FALSE /\ eaten' = <<>> /\ given' = <<>>
      /\ pc' = (IF job'.action \in {"encrypt", "decrypt"} THEN "open" ELSE "exited")
      /\ exit' = ExitCode(job'.action) /\ disk' = disk /\ source' = source
      /\ runs < MaxRuns /\ runs' = runs + 1
  BY DEF Main
<1>2. TypeOK
  BY DEF IInv
<1>3. /\ exit' \in {0, 1, -1}
      /\ job'.action \in {"encrypt", "decrypt"} => exit' = 0
  BY <1>1 DEF ExitCode
<1>4. TypeOK'
  <2>1. runs' \in 0..MaxRuns
    BY <1>1, <1>2, ToolAssumption DEF TypeOK, ToolAssumption
  <2>2. <<>> \in Seq(Cell) /\ pos' \in Nat
    BY <1>1
  <2>3. pc' \in {"open", "loop", "call", "write", "exited"}
    BY <1>1
  <2>4. exit' \in {0, 1, -1, 134}
    BY <1>3
  <2> QED
    BY <1>1, <1>2, <2>1, <2>2, <2>3, <2>4 DEF TypeOK
<1>5. pc' \in {"open", "exited"} /\ (pc' = "open" => job'.action \in {"encrypt", "decrypt"})
  BY <1>1
<1>6. exit' # 134
  BY <1>3
<1>7. ~Working'
  BY <1>1, <1>5, <1>6 DEF Working
<1>8. Phase'
  BY <1>1, <1>3, <1>5, <1>6 DEF Phase
<1>9. Fed'
  <2>1. Len(Input') \in Nat
    BY <1>4, InputThen DEF InputIs
  <2> QED
    BY <1>1, <1>7, <2>1 DEF Fed
<1>10. Alone' /\ Wrote' /\ Gave'
  BY <1>1, <1>5, <1>7 DEF Alone, Wrote, Gave
<1>11. Remembered'
  BY <1>1, <1>5 DEF IInv, Remembered
<1>12. FailsForAReason'
  BY <1>6 DEF FailsForAReason
<1> QED
  BY <1>4, <1>8, <1>9, <1>10, <1>11, <1>12 DEF IInv

LEMMA OpenFailsKeeps ==
    ASSUME IInv, OpenFails
    PROVE  IInv'
<1>1. /\ pc = "open" /\ pc' = "exited" /\ disk' = disk /\ job' = job /\ pos' = pos /\ eof' = eof
      /\ inBad' = inBad /\ outBad' = outBad /\ buf' = buf /\ last' = last /\ eaten' = eaten
      /\ given' = given /\ exit' = exit /\ runs' = runs /\ source' = source
  BY DEF OpenFails, streams
<1>2. ~last' /\ exit' = 0
  BY <1>1 DEF IInv, Phase
<1>3. ~Working'
  BY <1>1, <1>2 DEF Working
<1>4. TypeOK'
  BY <1>1 DEF IInv, TypeOK
<1>5. Phase' /\ Fed' /\ Alone' /\ Wrote' /\ Gave'
  BY <1>1, <1>2, <1>3 DEF Phase, Fed, Alone, Wrote, Gave
<1>6. Remembered'
  BY <1>1 DEF IInv, Remembered
<1>7. FailsForAReason'
  BY <1>2 DEF FailsForAReason
<1> QED
  BY <1>4, <1>5, <1>6, <1>7 DEF IInv

LEMMA OpenKeeps ==
    ASSUME IInv, Open
    PROVE  IInv'
<1>1. /\ pc = "open" /\ pc' = "loop" /\ job' = job /\ pos' = pos /\ eof' = eof /\ inBad' = inBad
      /\ outBad' = outBad /\ buf' = buf /\ last' = last /\ eaten' = eaten /\ given' = given
      /\ exit' = exit /\ runs' = runs
      /\ disk' = [disk EXCEPT ![job.output] = [there |-> TRUE, cells |-> <<>>]]
      /\ source' = [source EXCEPT ![job.output] = NoSource]
  BY DEF Open, streams
<1>2. TypeOK /\ Phase /\ Remembered
  BY DEF IInv
<1>3. /\ ~last /\ exit = 0 /\ pos = 0 /\ eaten = <<>> /\ given = <<>> /\ ~eof /\ ~inBad /\ ~outBad
      /\ job.action \in {"encrypt", "decrypt"}
  BY <1>1, <1>2 DEF Phase
<1>4. job.output \in Files /\ job.input \in Files /\ <<>> \in Cells /\ disk \in [Files -> File]
  BY <1>2, StateIs DEF TypeOK, Cells
<1>5. /\ disk' \in [Files -> File] /\ disk'[job.output].cells = <<>>
      /\ \A f \in Files : f # job.output => disk'[f] = disk[f]
  BY <1>1, <1>4, FilePut
<1>6. TypeOK'
  <2>1. NoSource \in [secret : Secrets, plain : Seq(Cell), known : BOOLEAN]
    BY <1>4 DEF NoSource, Secrets, Cells
  <2>2. source' \in [Files -> [secret : Secrets, plain : Seq(Cell), known : BOOLEAN]]
    BY <1>1, <1>2, <2>1 DEF TypeOK
  <2> QED
    BY <1>1, <1>2, <1>5, <2>2 DEF TypeOK
<1>7. Phase'
  BY <1>1, <1>3 DEF Phase
<1>8. Input' \in Cells /\ Len(Input') \in Nat /\ job' \in Jobs
  BY <1>6, InputThen DEF InputIs
<1>9. Fed'
  <2>1. Take(Input', 0) = <<>>
    BY <1>8, SubSeqEmpty DEF Take, Cells
  <2> QED
    BY <1>1, <1>3, <1>8, <2>1 DEF Fed
<1>10. Wrote'
  BY <1>1, <1>3, <1>5 DEF Wrote
<1>11. Gave'
  <2>1. Output(job, <<>>) \in Cells
    BY <1>1, <1>4, <1>8, OutputIs
  <2>2. IsPrefix(<<>>, Output(job, <<>>))
    BY <1>4, <2>1, BeginsMore, BeginsIs
  <2>3. job.action = "encrypt" => Len(<<>>) < Len(Output(job, <<>>))
    <3>1. CASE job.action = "encrypt"
      <4>1. Output(job, <<>>) = Encode(Secret, <<>>) /\ Secret \in Secrets
        BY <1>1, <1>2, <1>4, <1>8, <3>1, OutputIs, StateIs DEF Secret
      <4>2. Len(Encode(Secret, <<>>)) = 3 + Len(<<>>) /\ Len(<<>>) = 0
        BY <1>4, <4>1, EncodeIs
      <4> QED
        BY <4>1, <4>2
    <3> QED
      BY <3>1
  <2> QED
    BY <1>1, <1>3, <2>2, <2>3 DEF Gave
<1>12. Remembered'
  <2>1. source'[job.output] = NoSource /\ ~NoSource.known
    <3>1. source \in [Files -> [secret : Secrets, plain : Seq(Cell), known : BOOLEAN]]
      BY DEF IInv, TypeOK
    <3>2. job.output \in Files /\ source' = [source EXCEPT ![job.output] = NoSource]
      BY <1>1, <1>4
    <3>3. ~NoSource.known
      BY DEF NoSource
    <3> QED
      BY <3>1, <3>2, <3>3
  <2>2. ~source'[job'.output].known
    BY <1>1, <2>1
  <2>3. ASSUME NEW f \in Files, source'[f].known
        PROVE  disk'[f].cells = Encode(source'[f].secret, source'[f].plain)
    <3>1. f # job.output
      BY <2>1, <2>3
    <3>2. source'[f] = source[f] /\ disk'[f] = disk[f]
      BY <1>1, <1>2, <1>5, <3>1 DEF TypeOK
    <3> QED
      BY <1>2, <2>3, <3>2 DEF Remembered
  <2> QED
    BY <2>2, <2>3 DEF Remembered
<1>13. FailsForAReason'
  BY <1>1 DEF FailsForAReason
<1>14. Alone'
  <2>1. ~Aside' => Input' = <<>>
    BY <1>1, <1>5 DEF Aside, Input
  <2> QED
    BY <1>1, <1>3, <2>1 DEF Alone
<1> QED
  BY <1>6, <1>7, <1>9, <1>10, <1>11, <1>12, <1>13, <1>14 DEF IInv

LEMMA ReadFailsKeeps ==
    ASSUME IInv, ReadFails
    PROVE  IInv'
<1>1. /\ pc = "loop" /\ pc' = "call" /\ disk' = disk /\ job' = job /\ pos' = pos /\ eof' = eof
      /\ inBad' = TRUE /\ outBad' = outBad /\ buf' = <<>> /\ last' = last /\ eaten' = eaten
      /\ given' = given /\ exit' = exit /\ runs' = runs /\ source' = source
  BY DEF ReadFails
<1>2. TypeOK /\ Phase /\ Fed /\ Wrote /\ Gave /\ Remembered
  BY DEF IInv
<1>3. exit = 0 /\ ~last /\ Working /\ Working'
  BY <1>1, <1>2 DEF Phase, Working
<1>4. (Aside' <=> Aside) /\ Input' = Input /\ Secret' = Secret
  BY <1>1 DEF Aside, Input, Secret
<1>5. TypeOK'
  BY <1>1, <1>2 DEF TypeOK
<1>6. Phase'
  BY <1>1, <1>2, <1>3 DEF Phase
<1>7. Fed'
  BY <1>1, <1>2, <1>3, <1>4 DEF Fed
<1>8. Wrote'
  BY <1>1, <1>2, <1>3 DEF Wrote
<1>9. Gave'
  BY <1>1, <1>2, <1>3, <1>4 DEF Gave
<1>10. Remembered'
  BY <1>1, <1>2 DEF Remembered
<1>11. FailsForAReason'
  BY <1>1 DEF FailsForAReason
<1>12. Alone'
  BY <1>1, <1>4 DEF IInv, Alone
<1> QED
  BY <1>5, <1>6, <1>7, <1>8, <1>9, <1>10, <1>11, <1>12 DEF IInv

LEMMA FinishKeeps ==
    ASSUME IInv, Finish
    PROVE  IInv'
<1>1. /\ pc = "loop" /\ pc' = "call" /\ disk' = disk /\ job' = job /\ pos' = pos /\ eof' = eof
      /\ inBad' = inBad /\ outBad' = outBad /\ buf' = <<>> /\ last' = TRUE /\ eaten' = eaten \o buf'
      /\ given' = given /\ exit' = exit /\ runs' = runs /\ source' = source /\ ~Goes
  BY DEF Finish, Cleared
<1>2. TypeOK /\ Phase /\ Fed /\ Wrote /\ Gave /\ Remembered
  BY DEF IInv
<1>3. exit = 0 /\ ~last /\ Working /\ Working'
  BY <1>1, <1>2 DEF Phase, Working
<1>4. (Aside' <=> Aside) /\ Input' = Input /\ Secret' = Secret
  BY <1>1 DEF Aside, Input, Secret
<1>5. eaten' = eaten
  <2>1. eaten \in Seq(Cell)
    BY <1>2 DEF TypeOK
  <2>2. eaten \o <<>> = eaten
    BY <2>1, ConcatEmptySeq
  <2> QED
    BY <1>1, <2>2
<1>6. TypeOK'
  BY <1>1, <1>2, <1>5 DEF TypeOK
<1>7. Phase'
  <2>1. inBad \/ eof
    BY <1>1 DEF Goes
  <2> QED
    BY <1>1, <1>2, <1>3, <2>1 DEF Phase
<1>8. Fed'
  BY <1>1, <1>2, <1>3, <1>4, <1>5 DEF Fed
<1>9. Wrote'
  BY <1>1, <1>2, <1>3 DEF Wrote
<1>10. Gave'
  BY <1>1, <1>2, <1>3, <1>4, <1>5 DEF Gave
<1>11. Remembered'
  BY <1>1, <1>2 DEF Remembered
<1>12. FailsForAReason'
  BY <1>1 DEF FailsForAReason
<1>13. Alone'
  BY <1>1, <1>4 DEF IInv, Alone, Goes
<1> QED
  BY <1>6, <1>7, <1>8, <1>9, <1>10, <1>11, <1>12, <1>13 DEF IInv

LEMMA ReadInputKeeps ==
    ASSUME IInv, ReadInput
    PROVE  IInv'
<1>1. PICK n : n = Least(BufSize, Len(Input) - pos)
  OBVIOUS
<1>2. /\ pc = "loop" /\ pc' = "call" /\ disk' = disk /\ job' = job /\ pos' = pos + n
      /\ eof' = (n < BufSize) /\ inBad' = inBad /\ outBad' = outBad /\ buf' = Chunk(n)
      /\ last' = last /\ eaten' = eaten \o buf'
      /\ given' = given /\ exit' = exit /\ runs' = runs /\ source' = source
  BY <1>1 DEF ReadInput
<1>3. TypeOK /\ Phase /\ Fed /\ Wrote /\ Gave /\ Remembered
  BY DEF IInv
<1>4. exit = 0 /\ ~last /\ Working /\ Working' /\ job.action \in {"encrypt", "decrypt"} /\ pos <= Len(Input)
  BY <1>2, <1>3 DEF Phase, Working, Fed
<1>5. /\ n \in Nat /\ pos + n \in 0..Len(Input) /\ (n < BufSize => pos + n = Len(Input))
      /\ Chunk(n) \in Cells
      /\ eaten = Take(Input, pos) => eaten \o Chunk(n) = Take(Input, pos + n)
  BY <1>1, <1>3, <1>4, ChunkIs
<1>6. (Aside' <=> Aside) /\ Input' = Input /\ Secret' = Secret
  BY <1>2 DEF Aside, Input, Secret
<1>7. /\ job \in Jobs /\ Input \in Cells /\ eaten \in Cells /\ given \in Cells /\ Len(Input) \in Nat
      /\ pos \in Nat /\ Secret \in Secrets /\ Output(job, eaten) \in Cells
  BY <1>3, StateIs
<1>8. eaten \o Chunk(n) \in Seq(Cell)
  BY <1>5, <1>7, ConcatProperties DEF Cells
<1>9. pos + n \in Nat /\ pos + n <= Len(Input)
  BY <1>5, <1>7
<1>10. TypeOK'
  <2>1. (n < BufSize) \in BOOLEAN
    OBVIOUS
  <2> QED
    BY <1>2, <1>3, <1>5, <1>8, <1>9, <2>1 DEF TypeOK, Cells
<1>11. Phase'
  BY <1>2, <1>3, <1>4 DEF Phase
<1>12. Fed'
  BY <1>2, <1>3, <1>4, <1>5, <1>6, <1>9 DEF Fed
<1>13. Wrote'
  BY <1>2, <1>3, <1>4 DEF Wrote
<1>14. Gave'
  <2>1. ASSUME Aside, job.action = "decrypt" => Begun(Secret, Input)
        PROVE  /\ IsPrefix(given, Output(job, eaten'))
               /\ job.action = "encrypt" => Len(given) < Len(Output(job, eaten'))
    <3>1. eaten' \in Cells /\ eaten' = eaten \o Chunk(n) /\ Begins(eaten, eaten')
      BY <1>2, <1>5, <1>8 DEF Begins, Cells
    <3>2. eaten' = Take(Input, pos + n)
      BY <1>3, <1>4, <1>5, <2>1, <3>1 DEF Fed
    <3>3. Begins(eaten', Input)
      BY <1>5, <1>7, <3>2, TakeIs
    <3>4. job.action = "decrypt" => Begun(ReadFile(job.pwd), eaten')
      <4>1. CASE job.action = "decrypt"
        BY <1>7, <2>1, <3>1, <3>3, <4>1, BegunBefore DEF Secret
      <4> QED
        BY <4>1
    <3>5. Follows(job, eaten, given)
      <4>1. IsPrefix(given, Output(job, eaten)) /\ (job.action = "encrypt" => Len(given) < Len(Output(job, eaten)))
        BY <1>3, <1>4, <2>1 DEF Gave
      <4> QED
        BY <1>7, <4>1, BeginsIs DEF Follows
    <3>6. Follows(job, eaten', given)
      BY <1>4, <1>7, <3>1, <3>4, <3>5, FollowsOn
    <3>7. Output(job, eaten') \in Cells
      BY <1>7, <3>1, OutputIs
    <3> QED
      BY <1>7, <3>6, <3>7, BeginsIs DEF Follows
  <2> QED
    BY <1>2, <1>4, <1>6, <2>1 DEF Gave
<1>15. Remembered'
  BY <1>2, <1>3 DEF Remembered
<1>16. FailsForAReason'
  BY <1>2 DEF FailsForAReason
<1>17. Alone'
  <2>1. ASSUME ~Aside PROVE pos + n = 0 /\ n < BufSize
    <3>1. pos = 0 /\ Input = <<>>
      BY <1>2, <2>1 DEF IInv, Alone, ReadInput
    <3>2. Len(Input) = 0 /\ BufSize \in Nat \ {0}
      BY <3>1, ToolAssumption DEF ToolAssumption
    <3> QED
      BY <1>5, <3>1, <3>2
  <2> QED
    BY <1>2, <1>6, <2>1 DEF Alone
<1> QED
  BY <1>10, <1>11, <1>12, <1>13, <1>14, <1>15, <1>16, <1>17 DEF IInv

LEMMA CallReturnsKeeps ==
    ASSUME IInv, CallReturns
    PROVE  IInv'
<1>1. /\ pc = "call" /\ pc' = "write" /\ disk' = disk /\ job' = job /\ pos' = pos /\ eof' = eof
      /\ inBad' = inBad /\ outBad' = outBad /\ buf' = Drop(given', Len(given)) /\ last' = last
      /\ eaten' = eaten /\ exit' = exit /\ runs' = runs /\ source' = source /\ Gives
  BY DEF CallReturns
<1>2. TypeOK /\ Phase /\ Fed /\ Wrote /\ Gave /\ Remembered
  BY DEF IInv
<1>3. exit = 0 /\ Working /\ Working'
  BY <1>1, <1>2 DEF Phase, Working
<1>4. (Aside' <=> Aside) /\ Input' = Input /\ Secret' = Secret
  BY <1>1 DEF Aside, Input, Secret
<1>5. /\ given' \in Cells /\ Begins(given, given') /\ Begins(given', Output(job, eaten))
      /\ Drop(given', Len(given)) \in Cells /\ given \o Drop(given', Len(given)) = given'
      /\ ~last /\ job.action = "encrypt" => Len(given') < Len(Output(job, eaten))
      /\ last => given' = Output(job, eaten)
  BY <1>1, <1>2, GivesIs
<1>6. /\ Output(job, eaten) \in Cells /\ given \in Cells /\ disk[job.output].cells \in Cells
  BY <1>2, StateIs
<1>7. TypeOK'
  BY <1>1, <1>2, <1>5 DEF TypeOK, Cells
<1>8. Phase'
  BY <1>1, <1>2 DEF Phase
<1>9. Fed'
  BY <1>1, <1>2, <1>3, <1>4 DEF Fed
<1>10. Wrote'
  <2>1. CASE outBad
    <3>1. IsPrefix(disk[job.output].cells, given)
      BY <1>2, <1>3, <2>1 DEF Wrote
    <3>2. Begins(disk[job.output].cells, given')
      BY <1>5, <1>6, <3>1, BeginsIs, BeginsMore
    <3>3. IsPrefix(disk[job.output].cells, given')
      BY <1>5, <1>6, <3>2, BeginsIs
    <3> QED
      BY <1>1, <2>1, <3>3 DEF Wrote
  <2>2. CASE ~outBad
    <3>1. disk[job.output].cells = given
      BY <1>1, <1>2, <1>3, <2>2 DEF Wrote
    <3>2. disk'[job'.output].cells \o buf' = given'
      BY <1>1, <1>5, <3>1
    <3> QED
      BY <1>1, <1>3, <2>2, <3>2 DEF Wrote
  <2> QED
    BY <2>1, <2>2
<1>11. Gave'
  <2>1. IsPrefix(given', Output(job, eaten))
    BY <1>5, <1>6, BeginsIs
  <2> QED
    BY <1>1, <1>5, <2>1 DEF Gave
<1>12. Remembered'
  BY <1>1, <1>2 DEF Remembered
<1>13. FailsForAReason'
  BY <1>1 DEF FailsForAReason
<1>14. Alone'
  BY <1>1, <1>4 DEF IInv, Alone
<1> QED
  BY <1>7, <1>8, <1>9, <1>10, <1>11, <1>12, <1>13, <1>14 DEF IInv

\* An exception that has no other reason does not come: a part of a message has
\* begun one, and all of it is sound.
LEMMA ThrowsWhy ==
    ASSUME TypeOK, Phase, Fed, Remembered, pc = "call", Throws, Aside,
           source[job.input].known, source[job.input].secret = Secret
    PROVE  inBad
<1> SUFFICES ASSUME ~inBad PROVE FALSE
  OBVIOUS
<1> DEFINE p == source[job.input].plain
<1>1. /\ job.input \in Files /\ Secret \in Secrets /\ Input \in Cells /\ eaten \in Cells
      /\ pos \in Nat /\ Len(Input) \in Nat
  BY StateIs
<1>2. p \in Cells
  BY <1>1 DEF TypeOK, Cells
<1>3. Input = Encode(Secret, p)
  BY <1>1 DEF Remembered, Input
<1> HIDE DEF p
<1>4. Encode(Secret, p) \in Cells /\ Payload(Encode(Secret, p)) = p
  BY <1>1, <1>2, EncodeIs
<1>5. pos <= Len(Input) /\ eaten = Take(Input, pos) /\ (eof => pos = Len(Input))
  BY DEF Fed, Working
<1>6. CASE last
  <2>1. pos = Len(Input)
    BY <1>5, <1>6 DEF Phase
  <2>2. eaten = Input
    BY <1>1, <1>5, <2>1, SubSeqFull DEF Take, Cells
  <2>3. Sound(Secret, eaten)
    BY <1>3, <1>4, <2>2 DEF Sound
  <2> QED
    BY <1>6, <2>3 DEF Throws
<1>7. CASE ~last
  <2>1. pos \in 0..Len(Input)
    BY <1>1, <1>5
  <2>2. Begins(eaten, Encode(Secret, p))
    BY <1>1, <1>3, <1>5, <2>1, TakeIs
  <2>3. Begun(Secret, eaten)
    BY <1>1, <1>2, <2>2, BegunIs
  <2> QED
    BY <1>7, <2>3 DEF Throws
<1> QED
  BY <1>6, <1>7

LEMMA CallThrowsKeeps ==
    ASSUME IInv, CallThrows
    PROVE  IInv'
<1>1. PICK n \in 0..Len(disk[job.output].cells) :
         disk' = [disk EXCEPT ![job.output].cells = Take(@, n)]
  BY DEF CallThrows
<1>2. /\ pc = "call" /\ pc' = "exited" /\ exit' = 134 /\ job' = job /\ pos' = pos /\ eof' = eof
      /\ inBad' = inBad /\ outBad' = outBad /\ buf' = buf /\ last' = last /\ given' = given
      /\ eaten' = eaten /\ runs' = runs /\ source' = source /\ Throws
  BY DEF CallThrows, streams
<1>3. TypeOK /\ Phase /\ Fed /\ Wrote /\ Gave /\ Remembered
  BY DEF IInv
<1>4. exit = 0 /\ Working /\ Working' /\ job.action \in {"encrypt", "decrypt"}
  BY <1>2, <1>3 DEF Phase, Working
<1> DEFINE c == disk[job.output].cells
           d == Take(c, n)
<1>5. /\ job.output \in Files /\ c \in Cells /\ given \in Cells /\ disk \in [Files -> File]
      /\ job.input \in Files
  BY <1>3, StateIs DEF TypeOK
<1>6. d \in Cells /\ Begins(d, c)
  BY <1>5, TakeIs
<1>7. disk' = [disk EXCEPT ![job.output].cells = d]
  BY <1>1
<1> HIDE DEF d
<1>8. /\ disk' \in [Files -> File] /\ disk'[job.output].cells = d
      /\ \A f \in Files : f # job.output => disk'[f] = disk[f]
  BY <1>5, <1>6, <1>7, FilePut
<1>9. Aside => Aside' /\ Input' = Input
  BY <1>2, <1>5, <1>8 DEF Aside, Input
<1>10. (Aside' => Aside) /\ Secret' = Secret
  BY <1>2 DEF Aside, Secret
<1>11. TypeOK'
  BY <1>2, <1>3, <1>8 DEF TypeOK
<1>12. Phase'
  BY <1>2, <1>3, <1>4 DEF Phase
<1>13. Fed'
  BY <1>2, <1>3, <1>4, <1>9, <1>10 DEF Fed
<1>14. Wrote'
  <2>1. IsPrefix(c, given)
    <3>1. CASE outBad
      BY <1>3, <1>4, <3>1 DEF Wrote
    <3>2. CASE ~outBad
      <4>1. c = given
        BY <1>2, <1>3, <1>4, <3>2 DEF Wrote
      <4> QED
        BY <1>5, <4>1, BeginsMore, BeginsIs
    <3> QED
      BY <3>1, <3>2
  <2> HIDE DEF c
  <2>2. IsPrefix(d, given)
    BY <1>5, <1>6, <2>1, BeginsIs, BeginsMore
  <2> QED
    BY <1>2, <1>8, <2>2 DEF Wrote
<1>15. Gave'
  BY <1>2, <1>3, <1>4, <1>9, <1>10 DEF Gave
<1>16. Remembered'
  <2>1. ~source[job.output].known
    BY <1>2, <1>3 DEF Remembered
  <2>2. ASSUME NEW f \in Files, source'[f].known
        PROVE  disk'[f].cells = Encode(source'[f].secret, source'[f].plain)
    <3>1. f # job.output
      BY <1>2, <2>1, <2>2
    <3> QED
      BY <1>2, <1>3, <1>8, <2>2, <3>1 DEF Remembered
  <2> QED
    BY <1>2, <2>2 DEF Remembered
<1>17. FailsForAReason'
  <2>1. ASSUME Aside, source[job.input].known, source[job.input].secret = Secret PROVE inBad
    BY <1>2, <1>3, <2>1, ThrowsWhy
  <2> QED
    BY <1>2, <1>10, <2>1 DEF FailsForAReason
<1>18. Alone'
  BY <1>2 DEF Alone
<1> QED
  BY <1>11, <1>12, <1>13, <1>14, <1>15, <1>16, <1>17, <1>18 DEF IInv

LEMMA WriteKeeps ==
    ASSUME IInv, Write
    PROVE  IInv'
<1> DEFINE c == disk[job.output].cells
           ends == last /\ job.action = "encrypt" /\ ~inBad /\ ~outBad' /\ job.input # job.output
<1>1. /\ pc = "write" /\ job' = job /\ pos' = pos /\ eof' = eof /\ inBad' = inBad
      /\ buf' = buf /\ last' = last /\ given' = given /\ eaten' = eaten /\ exit' = exit
      /\ runs' = runs /\ outBad' \in {outBad, TRUE}
      /\ pc' = (IF last THEN "exited" ELSE "loop")
      /\ source' = IF ends THEN [source EXCEPT ![job.output] = Record] ELSE source
  BY DEF Write
<1>2. PICK s : /\ disk' = disk /\ outBad /\ s = c
               \/ /\ disk' = [disk EXCEPT ![job.output].cells = s]
                  /\ \/ outBad' /\ ~outBad /\ \E n \in 0..Len(c \o buf) : s = Take(c \o buf, n)
                     \/ ~outBad' /\ s = c \o buf
  <2>1. \/ ~outBad' /\ WriteOutput
        \/ outBad /\ disk' = disk
        \/ outBad' /\ ~outBad /\ LoseOutput
    BY DEF Write
  <2> QED
    BY <2>1 DEF WriteOutput, LoseOutput
<1>3. TypeOK /\ Phase /\ Fed /\ Wrote /\ Gave /\ Remembered
  BY DEF IInv
<1>4. exit = 0 /\ Working /\ job.action \in {"encrypt", "decrypt"}
  BY <1>1, <1>3 DEF Phase, Working
<1>5. pc' \in {"loop", "exited"} /\ Working'
  BY <1>1 DEF Working
<1>6. /\ job \in Jobs /\ job.output \in Files /\ job.input \in Files /\ c \in Cells /\ given \in Cells
      /\ buf \in Cells /\ disk \in [Files -> File] /\ Input \in Cells /\ Secret \in Secrets
      /\ eaten \in Cells
  BY <1>3, StateIs DEF TypeOK
<1>7. c \o buf \in Cells /\ Begins(c, c \o buf)
  BY <1>6, ConcatProperties, BeginsMore DEF Cells
<1>8. /\ disk' \in [Files -> File] /\ disk'[job.output].cells = s
      /\ \A f \in Files : f # job.output => disk'[f] = disk[f]
  <2>1. CASE disk' = disk /\ s = c
    BY <1>6, <2>1
  <2>2. CASE disk' = [disk EXCEPT ![job.output].cells = s]
    <3>1. s \in Cells
      BY <1>2, <1>6, <1>7, <2>2, TakeIs
    <3> QED
      BY <1>6, <2>2, <3>1, FilePut
  <2> QED
    BY <1>2, <2>1, <2>2
<1>9. Aside => Aside' /\ Input' = Input
  BY <1>1, <1>6, <1>8 DEF Aside, Input
<1>10. (Aside' => Aside) /\ Secret' = Secret
  BY <1>1 DEF Aside, Secret
<1>11. outBad' \in BOOLEAN /\ (outBad => outBad')
  BY <1>1, <1>3 DEF TypeOK
<1>12. ~outBad' => disk'[job.output].cells = given
  <2>1. ~outBad => c \o buf = given
    BY <1>1, <1>3, <1>4 DEF Wrote
  <2> HIDE DEF c
  <2> QED
    BY <1>2, <1>8, <1>11, <2>1
<1>13. TypeOK'
  <2>1. Record \in [secret : Secrets, plain : Seq(Cell), known : BOOLEAN]
    BY <1>6 DEF Record, Cells
  <2>2. source' \in [Files -> [secret : Secrets, plain : Seq(Cell), known : BOOLEAN]]
    BY <1>1, <1>3, <1>6, <2>1 DEF TypeOK
  <2>3. pc' \in {"open", "loop", "call", "write", "exited"}
    BY <1>1
  <2> QED
    BY <1>1, <1>3, <1>8, <1>11, <2>2, <2>3 DEF TypeOK
<1>14. Phase'
  BY <1>1, <1>3, <1>4, <1>5 DEF Phase
<1>15. Fed'
  <2>1. pos <= Len(Input')
    <3>1. pos <= Len(Input) /\ Len(Input) \in Nat /\ pos \in Nat
      BY <1>1, <1>3, StateIs DEF Fed
    <3>2. CASE Aside
      BY <1>9, <3>1, <3>2
    <3>3. CASE ~Aside
      <4>1. pos = 0
        BY <1>1, <3>3 DEF IInv, Alone
      <4>2. Input' = s /\ Len(s) \in Nat
        BY <1>1, <1>8, <3>3, CellsOf DEF Aside, Input
      <4> QED
        BY <4>1, <4>2
    <3> QED
      BY <3>2, <3>3
  <2> QED
    BY <1>1, <1>3, <1>4, <1>9, <1>10, <2>1 DEF Fed
<1>16. Wrote'
  <2>1. CASE outBad'
    <3>1. CASE outBad
      <4>1. s = c
        BY <1>2, <1>11, <3>1
      <4>2. IsPrefix(c, given)
        BY <1>3, <1>4, <3>1 DEF Wrote
      <4> QED
        BY <1>1, <1>8, <2>1, <4>1, <4>2 DEF Wrote
    <3>2. CASE ~outBad
      <4>1. PICK n \in 0..Len(c \o buf) : s = Take(c \o buf, n)
        BY <1>2, <2>1, <3>2
      <4>2. c \o buf = given
        BY <1>1, <1>3, <1>4, <3>2 DEF Wrote
      <4> HIDE DEF c
      <4>3. s \in Cells /\ Begins(s, given)
        BY <1>6, <4>1, <4>2, TakeIs
      <4>4. IsPrefix(s, given)
        BY <1>6, <4>3, BeginsIs
      <4> QED
        BY <1>1, <1>8, <2>1, <4>4 DEF Wrote
    <3> QED
      BY <3>1, <3>2
  <2>2. CASE ~outBad'
    BY <1>1, <1>4, <1>5, <1>12, <2>2 DEF Wrote
  <2> QED
    BY <2>1, <2>2
<1>17. Gave'
  BY <1>1, <1>3, <1>4, <1>9, <1>10 DEF Gave
<1>18. Remembered'
  <2>1. ~source[job.output].known
    BY <1>1, <1>3 DEF Remembered
  <2>2. pc' \in {"loop", "call", "write"} => ~source'[job'.output].known
    <3>1. CASE ~last
      BY <1>1, <2>1, <3>1
    <3>2. CASE last
      BY <1>1, <3>2
    <3> QED
      BY <3>1, <3>2
  <2>3. ASSUME NEW f \in Files, source'[f].known
        PROVE  disk'[f].cells = Encode(source'[f].secret, source'[f].plain)
    <3>1. CASE f # job.output
      <4>1. source'[f] = source[f] /\ disk'[f] = disk[f]
        BY <1>1, <1>3, <1>6, <1>8, <3>1 DEF TypeOK
      <4> QED
        BY <1>3, <2>3, <4>1 DEF Remembered
    <3>2. CASE f = job.output
      <4>1. ends
        BY <1>1, <2>1, <2>3, <3>2
      <4>2. source'[f] = Record
        BY <1>1, <1>3, <1>6, <3>2, <4>1 DEF TypeOK
      <4>3. source'[f].secret = Secret /\ source'[f].plain = Input
        BY <4>2 DEF Record
      <4>4. eaten = Input
        <5>1. eaten = Take(Input, Len(Input))
          BY <1>3, <1>4, <4>1 DEF Phase, Fed, Aside
        <5> QED
          BY <1>6, <5>1, SubSeqFull DEF Take, Cells
      <4>5. given = Output(job, eaten)
        BY <1>1, <1>3, <1>4, <4>1 DEF Gave
      <4>6. Output(job, eaten) = Encode(Secret, eaten)
        BY <1>6, <4>1, OutputIs DEF Secret
      <4> QED
        BY <1>12, <3>2, <4>1, <4>3, <4>4, <4>5, <4>6
    <3> QED
      BY <3>1, <3>2
  <2> QED
    BY <2>2, <2>3 DEF Remembered
<1>19. FailsForAReason'
  BY <1>1, <1>4 DEF FailsForAReason
<1>20. Alone'
  BY <1>1, <1>3, <1>10 DEF IInv, Alone, Phase, Goes, Aside
<1> QED
  BY <1>13, <1>14, <1>15, <1>16, <1>17, <1>18, <1>19, <1>20 DEF IInv

\* Nothing changes.
LEMMA StutterKeeps ==
    ASSUME IInv, UNCHANGED vars
    PROVE  IInv'
<1>1. /\ pc' = pc /\ disk' = disk /\ job' = job /\ pos' = pos /\ eof' = eof
      /\ inBad' = inBad /\ outBad' = outBad /\ buf' = buf /\ last' = last /\ given' = given
      /\ eaten' = eaten /\ exit' = exit /\ runs' = runs /\ source' = source
  BY DEF vars, streams
<1>2. TypeOK' /\ Phase'
  BY <1>1 DEF IInv, TypeOK, Phase
<1>3. Fed' /\ Alone' /\ Wrote'
  BY <1>1 DEF IInv, Fed, Alone, Wrote, Working, Goes, Aside, Input
<1>4. Gave' /\ Remembered' /\ FailsForAReason'
  BY <1>1 DEF IInv, Gave, Remembered, FailsForAReason, Working, Aside, Input, Secret
<1> QED
  BY <1>2, <1>3, <1>4 DEF IInv

LEMMA StepKeeps ==
    ASSUME IInv, [Next]_vars
    PROVE  IInv'
<1>1. CASE Main
  BY <1>1, MainKeeps
<1>2. CASE OpenFails
  BY <1>2, OpenFailsKeeps
<1>3. CASE Open
  BY <1>3, OpenKeeps
<1>4. CASE ReadInput
  BY <1>4, ReadInputKeeps
<1>5. CASE ReadFails
  BY <1>5, ReadFailsKeeps
<1>6. CASE Finish
  BY <1>6, FinishKeeps
<1>7. CASE CallReturns
  BY <1>7, CallReturnsKeeps
<1>8. CASE CallThrows
  BY <1>8, CallThrowsKeeps
<1>9. CASE Write
  BY <1>9, WriteKeeps
<1>10. CASE UNCHANGED vars
  BY <1>10, StutterKeeps
<1> QED
  BY <1>1, <1>2, <1>3, <1>4, <1>5, <1>6, <1>7, <1>8, <1>9, <1>10 DEF Next, Step

LEMMA Invariance == Spec => []IInv
<1>1. Init => IInv
  BY InitKeeps
<1>2. IInv /\ [Next]_vars => IInv'
  BY StepKeeps
<1> QED
  BY <1>1, <1>2, PTL DEF Spec

-----------------------------------------------------------------------------
(* What follows.                                                           *)

LEMMA ContentOnly ==
    ASSUME IInv
    PROVE  OnlyContent
<1> SUFFICES ASSUME Working, Aside, job.action = "decrypt" => Begun(Secret, Input)
             PROVE  IsPrefix(disk[job.output].cells, Output(job, Take(Input, pos)))
  BY DEF OnlyContent
<1> DEFINE c == disk[job.output].cells
<1>1. TypeOK /\ Fed /\ Wrote /\ Gave
  BY DEF IInv
<1>2. c \in Cells /\ given \in Cells /\ buf \in Cells /\ Output(job, eaten) \in Cells
  BY <1>1, StateIs
<1>3. eaten = Take(Input, pos)
  BY <1>1 DEF Fed
<1>4. IsPrefix(given, Output(job, eaten))
  BY <1>1 DEF Gave
<1>5. IsPrefix(c, given)
  <2>1. CASE outBad \/ exit = 134
    BY <1>1, <2>1 DEF Wrote
  <2>2. CASE ~(outBad \/ exit = 134) /\ pc = "write"
    <3>1. c \o buf = given
      BY <1>1, <2>2 DEF Wrote
    <3> HIDE DEF c
    <3> QED
      BY <1>2, <3>1, BeginsIs DEF Begins
  <2>3. CASE ~(outBad \/ exit = 134) /\ pc # "write"
    <3>1. c = given
      BY <1>1, <2>3 DEF Wrote
    <3> HIDE DEF c
    <3> QED
      BY <1>2, <3>1, BeginsMore, BeginsIs
  <2> QED
    BY <2>1, <2>2, <2>3
<1> HIDE DEF c
<1>6. IsPrefix(c, Output(job, eaten))
  BY <1>2, <1>4, <1>5, BeginsIs, BeginsMore
<1> QED
  BY <1>3, <1>6 DEF c

LEMMA BackAgain ==
    ASSUME IInv
    PROVE  RoundTrip
<1> SUFFICES ASSUME pc = "exited", last, exit = 0, Aside, ~inBad, ~outBad, job.action = "decrypt",
                    source[job.input].known, source[job.input].secret = Secret
             PROVE  disk[job.output].cells = source[job.input].plain
  BY DEF RoundTrip
<1> DEFINE p == source[job.input].plain
<1>1. TypeOK /\ Phase /\ Fed /\ Wrote /\ Gave /\ Remembered
  BY DEF IInv
<1>2. job \in Jobs /\ job.input \in Files /\ Secret \in Secrets /\ Input \in Cells /\ eaten \in Cells
  BY <1>1, StateIs
<1>3. p \in Cells
  BY <1>1, <1>2 DEF TypeOK, Cells
<1>4. Input = Encode(Secret, p)
  BY <1>1, <1>2 DEF Remembered, Input
<1> HIDE DEF p
<1>5. Encode(Secret, p) \in Cells /\ Payload(Encode(Secret, p)) = p
  BY <1>2, <1>3, EncodeIs
<1>6. Working
  BY DEF Working
<1>7. eaten = Input
  <2>1. eaten = Take(Input, Len(Input))
    BY <1>1, <1>6 DEF Phase, Fed
  <2> QED
    BY <1>2, <2>1, SubSeqFull DEF Take, Cells
<1>8. Begun(Secret, eaten)
  <2>1. Begins(eaten, Encode(Secret, p))
    BY <1>2, <1>4, <1>7, BeginsMore
  <2> QED
    BY <1>2, <1>3, <2>1, BegunIs
<1>9. Output(job, eaten) = Payload(eaten)
  BY <1>2, <1>8, OutputIs DEF Secret
<1>10. given = Output(job, eaten)
  BY <1>1 DEF Gave
<1>11. disk[job.output].cells = given
  BY <1>1, <1>6 DEF Wrote
<1> QED
  BY <1>4, <1>5, <1>7, <1>9, <1>10, <1>11 DEF p

\* The files hold cells, every call is in one of its places, and has one of the
\* exit codes, in every state.
THEOREM ToolTypeCorrect == Spec => []TypeOK
<1>1. IInv => TypeOK
  BY DEF IInv
<1> QED
  BY <1>1, Invariance, PTL

\* For every size of the buffer, all files and all calls on them, with reads and
\* writes that fail and exceptions at any place: the output holds a beginning of
\* what the octets read so far come to, and nothing else.
THEOREM ToolWritesOnlyContent == Spec => []OnlyContent
<1>1. IInv => OnlyContent
  BY ContentOnly
<1> QED
  BY <1>1, Invariance, PTL

\* What one call encrypts, be it a message itself, another call decrypts to the
\* same, if it has the same passphrase and both end normally.
THEOREM ToolRoundTrip == Spec => []RoundTrip
<1>1. IInv => RoundTrip
  BY BackAgain
<1> QED
  BY <1>1, Invariance, PTL

\* Decrypting what was encrypted ends in an exception only for another
\* passphrase or when reading has failed.
THEOREM ToolFailsForAReason == Spec => []FailsForAReason
<1>1. IInv => FailsForAReason
  BY DEF IInv
<1> QED
  BY <1>1, Invariance, PTL
===============================================================================
