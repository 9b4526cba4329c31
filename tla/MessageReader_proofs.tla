------------------------ MODULE MessageReader_proofs ------------------------
(***************************************************************************)
(* Proofs about MessageReader: whatever octets a packet's reader is given, *)
(* it answers with an outcome of the right type, and it gives output only  *)
(* when it does not fail; the session state keeps its types, and the       *)
(* buffer stack its discipline; a reader is built for the header that was  *)
(* read last, only packets that were read are finished, and the machine    *)
(* never gets stuck.  And about what it does with the octets it is fed: no *)
(* integrity protected message is accepted without its MDC, and the ways   *)
(* into undefined behaviour are the ones that are named: for every         *)
(* message, broken or not, key, layout and length of the chain.            *)
(***************************************************************************)
EXTENDS MessageReader, SeqLemmas

-----------------------------------------------------------------------------
(* The sequence operators of PacketReaders.                                *)

\* Take and Drop split a sequence.
LEMMA TakeType ==
    ASSUME NEW S, NEW s \in Seq(S), NEW n \in 0..Len(s)
    PROVE  /\ Take(s, n) \in Seq(S) /\ Len(Take(s, n)) = n
           /\ Drop(s, n) \in Seq(S) /\ Len(Drop(s, n)) = Len(s) - n
  BY SubSeqProperties DEF Take, Drop

\* Taking a layer off cells gives as many cells.
LEMMA PeelType ==
    ASSUME NEW s \in Seq(Cell)
    PROVE  Peel(s) \in Seq(Cell) /\ Len(Peel(s)) = Len(s)
<1>1. \A i \in 1..Len(s) : s[i] \in Cell
  BY ElementOfSeq
<1>2. Junk \in Cell
  BY DEF Junk, Cell, Kinds
<1>3. \A c \in Cell : c.depth > 0 => [c EXCEPT !.depth = @ - 1] \in Cell
  BY DEF Cell
<1>4. Peel(s) \in [1..Len(s) -> Cell]
  BY <1>1, <1>2, <1>3 DEF Peel
<1> QED
  BY <1>4, LenProperties, IsASeq

\* A sequence that starts with a readable cell is not empty.
LEMMA StartsType ==
    ASSUME NEW s \in Seq(Cell), NEW k, StartsWith(s, k)
    PROVE  s # <<>> /\ Len(s) > 0 /\ Tail(s) \in Seq(Cell)
  BY DEF StartsWith

\* Rounding down to whole cipher steps stays within the input.
LEMMA WholeType ==
    ASSUME NEW n \in Nat
    PROVE  Whole(n) \in 0..n
<1>1. Gran \in Nat \ {0}
  BY LayoutAssumption DEF LayoutAssumption
<1>2. n \div Gran \in Nat /\ (n \div Gran) * Gran <= n
  BY <1>1, Z3
<1>3. (n \div Gran) * Gran \in Nat
  BY <1>1, <1>2
<1> QED
  BY <1>2, <1>3 DEF Whole

-----------------------------------------------------------------------------
(* What the readers return.                                                *)

OutcomeOK(o) == /\ o.res \in Results \cup Faults
                /\ o.out \in Seq(Cell)
                /\ o.rd \in Reader
                /\ o.res \in {"Success", "Pending"} \/ o.out = <<>>

\* Only the session key packet ever says that it has read all its input.
NotDone(o) == OutcomeOK(o) /\ o.res # "Success"

\* A rejection and a Pending answer are well-typed outcomes.
LEMMA RejectType ==
    ASSUME NEW res \in Errors \cup Faults, NEW rd \in Reader
    PROVE  \A o \in Reject(res, rd) : NotDone(o)
<1>1. <<>> \in Seq(Cell)
  OBVIOUS
<1>2. res \in Results \cup Faults
  BY DEF Results
<1>3. NotDone([res |-> res, out |-> <<>>, rd |-> rd])
  BY <1>1, <1>2 DEF NotDone, OutcomeOK, Errors, Faults
<1> QED
  BY <1>3 DEF Reject, Outcome

\* A reader that waits for more gives a well-typed outcome.
LEMMA PendingType ==
    ASSUME NEW out \in Seq(Cell), NEW rd \in Reader
    PROVE  \A o \in Pending(out, rd) : NotDone(o)
<1>1. NotDone([res |-> "Pending", out |-> out, rd |-> rd])
  BY DEF NotDone, OutcomeOK, Results
<1> QED
  BY <1>1 DEF Pending, Outcome

\* A reader further on is a reader.
LEMMA FieldsType ==
    ASSUME NEW r \in Reader
    PROVE  /\ r.in \in Seq(Cell) /\ r.held \in Seq(Cell)
           /\ r.step \in 0..2 /\ r.keyed \in BOOLEAN
  BY DEF Reader

\* ESKPacketRW is the one reader that ends with Success.
LEMMA ReadESKType ==
    ASSUME NEW r \in Reader
    PROVE  \A o \in ReadESK(r) : OutcomeOK(o)
<1> DEFINE rest(step) == At(r, step, Drop(r.in, ESKLen), r.held)
<1>0. r.in \in Seq(Cell) /\ ESKLen \in Nat /\ <<>> \in Seq(Cell)
  BY LayoutAssumption, FieldsType DEF LayoutAssumption
<1>1. CASE Len(r.in) < ESKLen
  BY <1>0, <1>1, PendingType DEF ReadESK, NotDone
<1>2. CASE Len(r.in) >= ESKLen
  <2>1. Drop(r.in, ESKLen) \in Seq(Cell)
    BY <1>0, <1>2, TakeType
  <2>2. rest(0) \in Reader /\ rest(1) \in Reader
    BY <2>1, FieldsType DEF At, Reader
  <2>3. \A res \in ESKErrors : \A o \in Reject(res, rest(0)) : OutcomeOK(o)
    BY <2>2, RejectType DEF ESKErrors, Errors, NotDone
  <2> HIDE DEF rest
  <2>4. OutcomeOK([res |-> "Success", out |-> <<>>, rd |-> rest(1)])
    BY <1>0, <2>2 DEF OutcomeOK, Results
  <2> QED
    BY <1>0, <1>2, <2>3, <2>4 DEF ReadESK, Outcome, rest
<1> QED
  BY <1>0, <1>1, <1>2

\* SymmetricRW gives decrypted cells or an error and stays a reader.
LEMMA ReadSYMType ==
    ASSUME NEW r \in Reader, NEW emsg0 \in Results, NEW fin \in BOOLEAN, NEW key
    PROVE  \A o \in ReadSYM(r, emsg0, fin, key) : NotDone(o)
<1> DEFINE skip == IF r.step = 0 THEN PrefixLen ELSE 0
           rest == Drop(r.in, skip)
           n    == IF fin THEN Len(rest) ELSE Whole(Len(rest))
<1>0. r.in \in Seq(Cell) /\ skip \in Nat /\ <<>> \in Seq(Cell)
  BY LayoutAssumption, FieldsType DEF LayoutAssumption
<1>1. CASE emsg0 = "InvalidPassphrase" \/ Len(r.in) < skip \/ ~r.keyed
  <2>1. \A o \in Reject("InvalidPassphrase", r) : NotDone(o)
    BY RejectType DEF Errors
  <2>2. \A o \in Reject("Undefined", r) : NotDone(o)
    BY RejectType DEF Faults
  <2> QED
    BY <1>0, <1>1, <2>1, <2>2, PendingType DEF ReadSYM
<1>2. CASE emsg0 # "InvalidPassphrase" /\ Len(r.in) >= skip /\ r.keyed
  <2>1. rest \in Seq(Cell) /\ Len(rest) \in Nat
    BY <1>0, <1>2, TakeType
  <2>2. n \in 0..Len(rest)
    BY <2>1, WholeType
  <2> HIDE DEF rest, n
  <2>3. Take(rest, n) \in Seq(Cell) /\ Drop(rest, n) \in Seq(Cell)
    BY <2>1, <2>2, TakeType
  <2>4. Peel(Take(rest, n)) \in Seq(Cell)
    BY <2>3, PeelType
  <2>5. At(r, 0, rest, r.held) \in Reader
    BY <2>1, FieldsType DEF At, Reader
  <2>6. At(r, 1, Drop(rest, n), r.held) \in Reader
    BY <2>3, FieldsType DEF At, Reader
  <2>7. \A o \in Reject("InvalidSurrogateIV", At(r, 0, rest, r.held)) : NotDone(o)
    BY <2>5, RejectType DEF Errors
  <2>8. \A o \in Pending(Peel(Take(rest, n)), At(r, 1, Drop(rest, n), r.held)) :
           NotDone(o)
    BY <2>4, <2>6, PendingType
  <2> QED
    BY <1>0, <1>2, <2>7, <2>8 DEF ReadSYM, rest, n
<1> QED
  BY <1>0, <1>1, <1>2, FieldsType

\* What one call decrypts is part of what it was given.
LEMMA SEIPDStepType ==
    ASSUME NEW n \in Nat, NEW fin \in BOOLEAN
    PROVE  SEIPDStep(n, fin) \in 0..n
  BY WholeType DEF SEIPDStep

\* The window of SymmetricIntegRW holds cells back and gives out cells.
LEMMA ReadSEIPDBodyType ==
    ASSUME NEW r \in Reader, NEW fin \in BOOLEAN, NEW key
    PROVE  \A o \in ReadSEIPDBody(r, fin, key) : NotDone(o)
<1> DEFINE n      == SEIPDStep(Len(r.in), fin)
           buf    == Peel(Take(r.in, n))
           rest   == Drop(r.in, n)
           body   == IF r.step = 1 THEN Drop(buf, PrefixLen) ELSE buf
           window == r.held \o body
           cut    == Len(window) - MDCLen
<1>1. /\ r.in \in Seq(Cell) /\ r.held \in Seq(Cell) /\ <<>> \in Seq(Cell)
      /\ PrefixLen \in Nat \ {0} /\ MDCLen \in Nat \ {0} /\ Len(r.in) \in Nat
  BY LayoutAssumption, FieldsType DEF LayoutAssumption
<1>2. n \in 0..Len(r.in)
  BY <1>1, SEIPDStepType
<1>3. rest \in Seq(Cell) /\ Take(r.in, n) \in Seq(Cell)
  BY <1>1, <1>2, TakeType
<1>4. buf \in Seq(Cell) /\ Len(buf) = n
  <2> HIDE DEF n
  <2>1. Take(r.in, n) \in Seq(Cell) /\ Len(Take(r.in, n)) = n
    BY <1>1, <1>2, TakeType
  <2> QED
    BY <2>1, PeelType
<1> HIDE DEF n, buf, rest
<1>5. body \in Seq(Cell)
  <2>1. CASE r.step = 1 /\ PrefixLen <= Len(buf)
    BY <1>1, <1>4, <2>1, TakeType
  <2>2. CASE r.step = 1 /\ PrefixLen > Len(buf)
    BY <1>1, <1>4, <2>2, SubSeqEmpty DEF Drop
  <2> QED
    BY <1>1, <1>2, <1>4, <2>1, <2>2
<1> HIDE DEF body
<1>6. window \in Seq(Cell) /\ Len(window) \in Nat
  BY <1>1, <1>5
<1> HIDE DEF window
<1>7. \A o \in Pending(<<>>, r) : NotDone(o)
  BY <1>1, PendingType
<1>8. \A o \in Reject("InvalidSurrogateIV", At(r, r.step, rest, r.held)) : NotDone(o)
  <2>1. At(r, r.step, rest, r.held) \in Reader
    BY <1>1, <1>3, FieldsType DEF At, Reader
  <2> QED
    BY <2>1, RejectType DEF Errors
<1>9. \A o \in Reject("Undefined", r) : NotDone(o)
  BY RejectType DEF Faults
<1>10. ASSUME Len(window) >= MDCLen
       PROVE  \A o \in Pending(Take(window, cut),
                               At(r, 2, rest, Drop(window, cut))) : NotDone(o)
  <2>1. cut \in 0..Len(window)
    BY <1>1, <1>6, <1>10
  <2>2. Take(window, cut) \in Seq(Cell) /\ Drop(window, cut) \in Seq(Cell)
    BY <1>6, <2>1, TakeType
  <2>3. At(r, 2, rest, Drop(window, cut)) \in Reader
    BY <1>3, <2>2, FieldsType DEF At, Reader
  <2> QED
    BY <2>2, <2>3, PendingType
<1>11. SUFFICES ASSUME NEW o \in ReadSEIPDBody(r, fin, key)
                PROVE  NotDone(o)
  OBVIOUS
<1>12. \/ o \in Pending(<<>>, r)
       \/ o \in Reject("InvalidSurrogateIV", At(r, r.step, rest, r.held))
       \/ o \in Reject("Undefined", r)
       \/ ~(Len(window) < MDCLen)
          /\ o \in Pending(Take(window, cut), At(r, 2, rest, Drop(window, cut)))
  BY <1>11, Zenon DEF ReadSEIPDBody, n, buf, rest, body, window
<1> QED
  BY <1>1, <1>6, <1>7, <1>8, <1>9, <1>10, <1>12

\* SymmetricIntegRW, with its version octet and its passphrase checks.
LEMMA ReadSEIPDType ==
    ASSUME NEW r \in Reader, NEW emsg0 \in Results, NEW fin \in BOOLEAN, NEW key
    PROVE  \A o \in ReadSEIPD(r, emsg0, fin, key) : NotDone(o)
<1>1. \A o \in Reject("InvalidPassphrase", r) : NotDone(o)
  BY RejectType DEF Errors
<1>2. \A o \in Reject("UnexpectedFormat", r) : NotDone(o)
  BY RejectType DEF Errors
<1>3. \A o \in Reject("Undefined", r) : NotDone(o)
  BY RejectType DEF Faults
<1>4. ASSUME StartsWith(r.in, "version")
      PROVE  \A o \in ReadSEIPDBody(At(r, 1, Tail(r.in), r.held), fin, key) :
                NotDone(o)
  <2>1. Tail(r.in) \in Seq(Cell)
    BY <1>4, FieldsType, StartsType
  <2>2. At(r, 1, Tail(r.in), r.held) \in Reader
    BY <2>1, FieldsType DEF At, Reader
  <2> QED
    BY <2>2, ReadSEIPDBodyType
<1>5. \A o \in ReadSEIPDBody(r, fin, key) : NotDone(o)
  BY ReadSEIPDBodyType
<1>6. SUFFICES ASSUME NEW o \in ReadSEIPD(r, emsg0, fin, key) PROVE NotDone(o)
  OBVIOUS
<1>7. \/ o \in Reject("InvalidPassphrase", r) \/ o \in Reject("UnexpectedFormat", r)
      \/ o \in Reject("Undefined", r) \/ o \in ReadSEIPDBody(r, fin, key)
      \/ StartsWith(r.in, "version")
         /\ o \in ReadSEIPDBody(At(r, 1, Tail(r.in), r.held), fin, key)
  BY <1>6, Zenon DEF ReadSEIPD
<1> QED
  BY <1>1, <1>2, <1>3, <1>4, <1>5, <1>7

\* The decompressor gives out some part of what it has been fed.
LEMMA InflateType ==
    ASSUME NEW r \in Reader, NEW fin \in BOOLEAN
    PROVE  \A o \in Inflate(r, fin) : NotDone(o)
<1> DEFINE all == r.held \o Peel(r.in)
<1>0. r.in \in Seq(Cell) /\ r.held \in Seq(Cell)
  BY FieldsType
<1>9. Peel(r.in) \in Seq(Cell)
  BY <1>0, PeelType
<1>8. all \in Seq(Cell)
  BY <1>0, <1>9, ConcatProperties, Z3
<1> HIDE DEF all
<1>1. all \in Seq(Cell) /\ <<>> \in Seq(Cell) /\ Len(all) \in Nat
  BY <1>8
<1>2. \A o \in Pending(<<>>, r) : NotDone(o)
  BY <1>1, PendingType
<1>3. \A o \in Reject("Exception", r) : NotDone(o)
  BY RejectType DEF Faults
<1>4. ASSUME all # <<>>
      PROVE  \A o \in Pending(Front(all), At(r, 2, <<>>, <<>>)) : NotDone(o)
  <2>1. Front(all) \in Seq(Cell)
    BY <1>1, <1>4 DEF Front
  <2>2. At(r, 2, <<>>, <<>>) \in Reader
    BY <1>1, FieldsType DEF At, Reader
  <2> QED
    BY <2>1, <2>2, PendingType
<1>5. ASSUME NEW n \in 0..Len(all)
      PROVE  \A o \in Pending(Take(all, n), At(r, 1, <<>>, Drop(all, n))) : NotDone(o)
  <2>1. Take(all, n) \in Seq(Cell) /\ Drop(all, n) \in Seq(Cell)
    BY <1>1, TakeType
  <2>2. At(r, 1, <<>>, Drop(all, n)) \in Reader
    BY <1>1, <2>1, FieldsType DEF At, Reader
  <2> QED
    BY <2>1, <2>2, PendingType
<1>6. SUFFICES ASSUME NEW o \in Inflate(r, fin) PROVE NotDone(o)
  OBVIOUS
<1>7. \/ o \in Pending(<<>>, r) \/ o \in Reject("Exception", r)
      \/ all # <<>> /\ o \in Pending(Front(all), At(r, 2, <<>>, <<>>))
      \/ \E n \in 0..Len(all) : o \in Pending(Take(all, n), At(r, 1, <<>>, Drop(all, n)))
  BY <1>6, Zenon DEF Inflate, all
<1> QED
  BY <1>2, <1>3, <1>4, <1>5, <1>7

\* CompressedRW, with its algorithm octet.
LEMMA ReadCOMPType ==
    ASSUME NEW r \in Reader, NEW fin \in BOOLEAN
    PROVE  \A o \in ReadCOMP(r, fin) : NotDone(o)
<1>1. \A o \in Inflate(r, fin) : NotDone(o)
  BY InflateType
<1>2. \A o \in Reject("UnsupportedCompressionAlgo", r) : NotDone(o)
  BY RejectType DEF Errors
<1>3. ASSUME StartsWith(r.in, "algo")
      PROVE  \A o \in Inflate(At(r, 1, Tail(r.in), r.held), fin) : NotDone(o)
  <2>1. Tail(r.in) \in Seq(Cell)
    BY <1>3, FieldsType, StartsType
  <2>2. At(r, 1, Tail(r.in), r.held) \in Reader
    BY <2>1, FieldsType DEF At, Reader
  <2> QED
    BY <2>2, InflateType
<1> QED
  BY <1>1, <1>2, <1>3 DEF ReadCOMP

\* LiteralRW past its format octet: the rest of its header, then the data.
LEMMA ReadLITNameType ==
    ASSUME NEW r \in Reader
    PROVE  \A o \in ReadLITName(r) : NotDone(o)
<1>1. r.in \in Seq(Cell) /\ <<>> \in Seq(Cell)
  BY FieldsType
<1>2. At(r, 2, <<>>, r.held) \in Reader
  BY <1>1, FieldsType DEF At, Reader
<1>3. \A o \in Pending(r.in, At(r, 2, <<>>, r.held)) : NotDone(o)
  BY <1>1, <1>2, PendingType
<1>4. \A o \in Pending(<<>>, r) : NotDone(o)
  BY <1>1, PendingType
<1>5. ASSUME r.in # <<>>
      PROVE  \A o \in Pending(Tail(r.in), At(r, 2, <<>>, r.held)) : NotDone(o)
  <2>1. Tail(r.in) \in Seq(Cell)
    BY <1>1, <1>5
  <2> QED
    BY <1>2, <2>1, PendingType
<1> QED
  BY <1>3, <1>4, <1>5 DEF ReadLITName

\* LiteralRW from any of its states.
LEMMA ReadLITType ==
    ASSUME NEW r \in Reader
    PROVE  \A o \in ReadLIT(r) : NotDone(o)
<1>1. \A o \in ReadLITName(r) : NotDone(o)
  BY ReadLITNameType
<1>0. <<>> \in Seq(Cell)
  OBVIOUS
<1>2. \A o \in Pending(<<>>, r) : NotDone(o)
  BY <1>0, PendingType
<1>3. ASSUME r.in # <<>>
      PROVE  /\ At(r, 1, Tail(r.in), r.held) \in Reader
             /\ At(r, 0, Tail(r.in), r.held) \in Reader
  <2>1. r.in \in Seq(Cell) /\ r.held \in Seq(Cell)
    BY FieldsType
  <2>2. Tail(r.in) \in Seq(Cell)
    BY <1>3, <2>1
  <2>3. At(r, 1, Tail(r.in), r.held) \in Reader
    BY <2>1, <2>2, FieldsType DEF At, Reader
  <2>4. At(r, 0, Tail(r.in), r.held) \in Reader
    BY <2>1, <2>2, FieldsType DEF At, Reader
  <2> QED
    BY <2>3, <2>4
<1>4. ASSUME r.in # <<>>
      PROVE  \A o \in ReadLITName(At(r, 1, Tail(r.in), r.held)) : NotDone(o)
  BY <1>3, <1>4, ReadLITNameType
<1>5. ASSUME r.in # <<>>
      PROVE  \A o \in Reject("UnexpectedFormat", At(r, 0, Tail(r.in), r.held)) :
                NotDone(o)
  BY <1>3, <1>5, RejectType DEF Errors
<1> QED
  BY <1>1, <1>2, <1>4, <1>5 DEF ReadLIT

\* Whatever a packet's reader is given, its outcome is well typed, and it
\* gives output only when it does not fail.
LEMMA DoReadType ==
    ASSUME NEW t \in ReaderTypes, NEW r \in Reader, NEW emsg0 \in Results,
           NEW fin \in BOOLEAN, NEW key
    PROVE  \A o \in DoRead(t, r, emsg0, fin, key) :
              OutcomeOK(o) /\ (o.res = "Success" => t = "ESK")
<1>1. CASE t = "ESK"
  BY <1>1, ReadESKType DEF DoRead, NotDone
<1>2. CASE t = "SEIPD"
  BY <1>2, ReadSEIPDType DEF DoRead, NotDone
<1>3. CASE t = "SYM"
  BY <1>3, ReadSYMType DEF DoRead, NotDone
<1>4. CASE t = "COMP"
  BY <1>4, ReadCOMPType DEF DoRead, NotDone
<1>5. CASE t = "LIT"
  BY <1>5, ReadLITType DEF DoRead, NotDone
<1> QED
  BY <1>1, <1>2, <1>3, <1>4, <1>5 DEF ReaderTypes

-----------------------------------------------------------------------------
(* The control invariant: where the machine can be and what is on the      *)
(* stack there.  It strengthens StackDiscipline.                           *)

ControlInv ==
    /\ Len(stack) <= 1
    /\ pc = "idle" => stack = <<>> /\ ~finish
    /\ ~finish /\ stack # <<>> => Head(stack) # <<>>
    /\ pc = "running" =>
         /\ finish <=> call = "finishPass"
         /\ st \in {"Start", "Init"} /\ ~finish => stack # <<>>
         /\ st = "Init" => it = 1
         /\ st \in {"BufferEmpty", "End"} => stack = <<>>
         /\ st = "Fail" /\ ~finish => stack = <<>>
         /\ st = "FinishPacket" => finish
         /\ st = "Packet" => emsg \in {"Success", "Pending"} /\ it # EndIt
         /\ st = "Header" => stack = <<>> \/ (it # EndIt /\ chain[it] # "Unknown")

IInv == TypeOK /\ ControlInv

\* The stack operations of the handlers.
LEMMA StackType ==
    ASSUME TypeOK
    PROVE  /\ Top \in Seq(Cell)
           /\ Popped \in Seq(Seq(Cell))
           /\ Len(stack) <= 1 => Popped = <<>>
           /\ stack # <<>> => Len(stack) > 0
<1>1. stack \in Seq(Seq(Cell)) /\ <<>> \in Seq(Cell)
  BY DEF TypeOK
<1>2. CASE stack = <<>>
  BY <1>1, <1>2 DEF Top, Popped
<1>3. CASE stack # <<>>
  <2>1. Head(stack) \in Seq(Cell) /\ Tail(stack) \in Seq(Seq(Cell))
        /\ Len(Tail(stack)) = Len(stack) - 1 /\ Len(stack) \in Nat \ {0}
    BY <1>1, <1>3, HeadTailProperties
  <2>2. Len(stack) <= 1 => Tail(stack) = <<>>
    BY <2>1, EmptySeq
  <2> QED
    BY <1>3, <2>1, <2>2 DEF Top, Popped
<1> QED
  BY <1>2, <1>3

\* The stack of no buffers and the stack of one.
LEMMA SingleLen ==
    /\ Len(<<>>) <= 1
    /\ \A b : Len(<<b>>) <= 1 /\ Head(<<b>>) = b /\ <<b>> # <<>>
  OBVIOUS

\* Pushing a buffer on the empty stack leaves a stack of one, and PushIf
\* leaves the empty stack alone when the buffer is empty.
LEMMA PushType ==
    ASSUME NEW s \in Seq(Seq(Cell)), NEW b \in Seq(Cell)
    PROVE  /\ Push(s, b) \in Seq(Seq(Cell)) /\ PushIf(s, b) \in Seq(Seq(Cell))
           /\ s = <<>> => Push(s, b) = <<b>>
           /\ s = <<>> => PushIf(s, b) = IF b = <<>> THEN <<>> ELSE <<b>>
<1>1. <<b>> \in Seq(Seq(Cell)) /\ Push(s, b) \in Seq(Seq(Cell))
  BY DEF Push
<1>2. s = <<>> => Push(s, b) = <<b>>
  BY <1>1, ConcatEmptySeq DEF Push
<1> QED
  BY <1>1, <1>2 DEF PushIf

\* Where the machine comes from when it enters a state.
LEMMA EntersFrom ==
    ASSUME TypeOK, NEW s, Enters(s)
    PROVE  /\ pc = "running" /\ CanExit(st) /\ CanEnter(s)
           /\ s = "Init" => st = "Start"
           /\ s = "Armor" => st = "Init"
           /\ s = "FinishPacket" => st = "Packet"
           /\ s = "Header" => st \in {"Armor", "Packet", "FinishPacket", "BufferEmpty"}
           /\ s = "End" => st \in {"FinishPacket", "BufferEmpty"}
           /\ s = "BufferEmpty" =>
                /\ st \in {"Armor", "Header", "Packet"}
                /\ ~CanEnter("Packet")
                /\ st # "Header" => ~CanEnter("Header")
<1> DEFINE L == Links[st]
<1>1. pc = "running" /\ CanExit(st)
  BY DEF Enters
<1>2. PICK i \in DOMAIN L : L[i] = s /\ CanEnter(s)
                            /\ \A j \in 1..(i - 1) : ~CanEnter(L[j])
  BY DEF Enters
<1>3. st \in DOMAIN Links
  BY DEF TypeOK, States
<1>4. CASE st = "Start"
  BY <1>1, <1>2, <1>4 DEF Links
<1>5. CASE st = "Init"
  BY <1>1, <1>2, <1>5 DEF Links
<1>6. CASE st = "Armor"
  BY <1>1, <1>2, <1>6 DEF Links
<1>7. CASE st = "Header"
  BY <1>1, <1>2, <1>7 DEF Links
<1>8. CASE st = "Packet"
  BY <1>1, <1>2, <1>8 DEF Links
<1>9. CASE st = "FinishPacket"
  BY <1>1, <1>2, <1>9 DEF Links
<1>10. CASE st = "BufferEmpty"
  BY <1>1, <1>2, <1>10 DEF Links
<1>11. CASE st \in {"End", "Fail"}
  BY <1>1, <1>11 DEF CanExit
<1> QED
  BY <1>3, <1>4, <1>5, <1>6, <1>7, <1>8, <1>9, <1>10, <1>11 DEF Links

ArmorState == [status : {"Unknown", "Enabled", "Disabled"},
               entered : BOOLEAN, done : BOOLEAN, buf : Seq(Cell)]

\* What ReadArmor may answer.
ArmorOK(o) == /\ o.res \in {"Success", "Pending", "UnexpectedError"}
              /\ o.out \in Seq(Cell) /\ o.back \in Seq(Cell)
              /\ o.a \in ArmorState
              /\ o.a.status = "Disabled" /\ ~finish => o.back # <<>>

\* Decoding complete lines takes their contents and keeps the rest.
LEMMA ArmorDecodeType ==
    ASSUME NEW a \in ArmorState, NEW buf \in Seq(Cell), NEW from \in 0..Len(buf)
    PROVE  \A o \in ArmorDecode(a, buf, from) : ArmorOK(o)
<1> DEFINE lines == (Len(buf) - from) \div 2
           next(l) == [a EXCEPT !.status = "Enabled", !.done = l.tail,
                                !.buf = Drop(buf, from + 2 * l.last)]
           text(n) == [i \in 1..n |-> buf[from + 2 * i]]
<1>1. lines \in Nat /\ from + 2 * lines <= Len(buf)
  <2>1. Len(buf) - from \in Nat
    OBVIOUS
  <2> QED
    BY <2>1, Z3
<1> HIDE DEF lines
<1>2. <<>> \in Seq(Cell)
  OBVIOUS
<1>3. SUFFICES ASSUME NEW l \in ArmorLines(buf, from),
                      NEW o, o = IF l.bad
                                 THEN ArmorOutcome("UnexpectedError", <<>>, <<>>, next(l))
                                 ELSE ArmorOutcome(IF l.tail THEN "Success" ELSE "Pending",
                                                   Peel(text(l.last)), <<>>, next(l))
               PROVE  ArmorOK(o)
  BY Zenon DEF ArmorDecode
<1>4. l.last \in 0..lines /\ l.tail \in BOOLEAN
  <2>1. PICK n \in 0..lines :
           l = [last |-> n,
                bad  |-> \E i \in 1..lines : buf[from + 2 * i] =
                            [depth |-> 0, kind |-> "crc", val |-> 1],
                tail |-> \E i \in 1..lines : buf[from + 2 * i].kind = "tail"]
    BY Zenon DEF ArmorLines, lines
  <2>2. l.last = n
    BY <2>1
  <2>3. l.tail = \E i \in 1..lines : buf[from + 2 * i].kind = "tail"
    BY <2>1
  <2> QED
    BY <2>2, <2>3
<1>5. text(l.last) \in Seq(Cell)
  <2>1. \A i \in 1..l.last : from + 2 * i \in 1..Len(buf)
    BY <1>1, <1>4
  <2>2. \A i \in 1..l.last : buf[from + 2 * i] \in Cell
    BY <2>1, ElementOfSeq
  <2>3. text(l.last) \in [1..l.last -> Cell]
    BY <2>2
  <2>4. l.last \in Nat
    BY <1>1, <1>4
  <2> HIDE DEF text
  <2> QED
    BY <2>3, <2>4, IsASeq
<1>6. Peel(text(l.last)) \in Seq(Cell)
  BY <1>5, PeelType
<1>7. Drop(buf, from + 2 * l.last) \in Seq(Cell)
  <2>1. from + 2 * l.last \in 0..Len(buf)
    BY <1>1, <1>4
  <2> QED
    BY <2>1, TakeType
<1>8. next(l) \in ArmorState /\ next(l).status = "Enabled"
  BY <1>4, <1>7 DEF ArmorState
<1> HIDE DEF next, text
<1> QED
  BY <1>2, <1>3, <1>6, <1>8 DEF ArmorOK, ArmorOutcome

\* What the armor reader gives back is well typed; input that turns out not to
\* be armored is given back whole, and before Finish there is some.
LEMMA ReadArmorType ==
    ASSUME TypeOK, NEW in \in Seq(Cell), armor.status # "Disabled"
    PROVE  \A o \in ReadArmor(armor, in) : ArmorOK(o)
<1> DEFINE buf  == armor.buf \o in
           seen == [armor EXCEPT !.entered = TRUE]
           kept == [armor EXCEPT !.buf = buf]
           more == [seen EXCEPT !.buf = buf]
           off  == [seen EXCEPT !.status = "Disabled", !.buf = <<>>]
<1>1. armor \in ArmorState /\ <<>> \in Seq(Cell) /\ finish \in BOOLEAN
  BY DEF TypeOK, ArmorState
<1>2. buf \in Seq(Cell) /\ Len(buf) \in Nat
  BY <1>1, ConcatProperties DEF ArmorState
<1> HIDE DEF buf
<1>3. /\ seen \in ArmorState /\ kept \in ArmorState /\ more \in ArmorState
      /\ off \in ArmorState
      /\ kept.status = armor.status /\ more.status = armor.status
  BY <1>1, <1>2 DEF ArmorState
<1> HIDE DEF seen, kept, more, off
<1>4. \A o \in ArmorDecode(armor, buf, 0) : ArmorOK(o)
  BY <1>1, <1>2, ArmorDecodeType
<1>5. ASSUME Len(buf) >= ArmorMin
      PROVE  \A o \in ArmorDecode(seen, buf, 2) : ArmorOK(o)
  <2>1. 2 \in 0..Len(buf)
    BY <1>2, <1>5, ReaderAssumption DEF ReaderAssumption
  <2> QED
    BY <1>2, <1>3, <2>1, ArmorDecodeType
<1>6. ArmorOK(ArmorOutcome("Success", <<>>, <<>>, kept))
  BY <1>1, <1>3 DEF ArmorOK, ArmorOutcome
<1>7. ArmorOK(ArmorOutcome("Pending", <<>>, <<>>, armor))
  BY <1>1 DEF ArmorOK, ArmorOutcome
<1>8. ArmorOK(ArmorOutcome("Pending", <<>>, <<>>, more))
  BY <1>1, <1>3 DEF ArmorOK, ArmorOutcome
<1>9. ASSUME Len(buf) >= ArmorMin \/ finish
      PROVE  ArmorOK(ArmorOutcome("Success", <<>>, buf, off))
  <2>1. finish \/ buf # <<>>
    BY <1>2, <1>9, ReaderAssumption DEF ReaderAssumption
  <2> QED
    BY <1>1, <1>2, <1>3, <2>1 DEF ArmorOK, ArmorOutcome
<1>10. SUFFICES ASSUME NEW o \in ReadArmor(armor, in) PROVE ArmorOK(o)
  OBVIOUS
<1>11. \/ o = ArmorOutcome("Success", <<>>, <<>>, kept)
       \/ o \in ArmorDecode(armor, buf, 0)
       \/ o = ArmorOutcome("Pending", <<>>, <<>>, armor)
       \/ o = ArmorOutcome("Pending", <<>>, <<>>, more)
       \/ Len(buf) >= ArmorMin /\ o \in ArmorDecode(seen, buf, 2)
       \/ ~(Len(buf) < ArmorMin /\ ~finish) /\ o = ArmorOutcome("Success", <<>>, buf, off)
  BY <1>10, Zenon DEF ReadArmor, buf, seen, kept, more, off
<1>12. ASSUME ~(Len(buf) < ArmorMin /\ ~finish) PROVE Len(buf) >= ArmorMin \/ finish
  BY <1>2, <1>12, ReaderAssumption DEF ReaderAssumption
<1> QED
  BY <1>4, <1>5, <1>6, <1>7, <1>8, <1>9, <1>11, <1>12

\* A session starts in the invariant.
LEMMA TypeInit == ASSUME Init PROVE IInv
<1>1. <<>> \in Seq(Cell) /\ <<>> \in Seq(Seq(Cell)) /\ Len(<<>>) = 0
  OBVIOUS
<1>2. EndIt \in Nat \ {0} /\ ChainMax \in Nat \ {0}
  BY ReaderAssumption DEF ReaderAssumption, EndIt
<1>3. scn \in Scenarios /\ Len(scn.wire) \in Nat
  BY ReaderAssumption DEF ReaderAssumption, Init
<1>4. NoReader \in Reader
  BY <1>1 DEF NoReader, Reader
<1>5. TypeOK
  <2>1. it \in 1..EndIt /\ chain \in [1..ChainMax -> PacketTypes \cup {"Unknown"}]
    BY <1>2 DEF Init
  <2>2. readers \in [ReaderTypes -> Reader]
    BY <1>4 DEF Init
  <2>3. st \in States /\ failed \in BOOLEAN /\ finish \in BOOLEAN /\ analyzed \in BOOLEAN
    BY DEF Init, States, Links
  <2>4. pc \in {"idle", "running"} \cup Ended /\ emsg \in Results
        /\ call \in {"update", "finishUpdate", "finishPass"}
    BY DEF Init, Results
  <2>5. stack \in Seq(Seq(Cell)) /\ output \in Seq(Cell) /\ returned \in Seq(Cell)
    BY <1>1 DEF Init
  <2>6. armor \in [status : {"Unknown", "Enabled", "Disabled"},
                   entered : BOOLEAN, done : BOOLEAN, buf : Seq(Cell)]
    BY <1>1 DEF Init
  <2>7. header \in [type : PacketTypes \cup {"Unknown"}, in : Seq(Cell)]
    BY <1>1 DEF Init
  <2>8. scn \in Scenarios /\ pos \in 0..Len(scn.wire)
    BY <1>3 DEF Init
  <2> QED
    BY <2>1, <2>2, <2>3, <2>4, <2>5, <2>6, <2>7, <2>8 DEF TypeOK
<1>6. ControlInv
  BY <1>1 DEF Init, ControlInv
<1> QED
  BY <1>5, <1>6 DEF IInv

-----------------------------------------------------------------------------
(* Every step keeps the invariant: one lemma per action.                   *)

\* Entering a state is a step into the graph.
LEMMA StateNames ==
    {"Start", "Init", "Armor", "Header", "Packet", "FinishPacket",
     "BufferEmpty", "End", "Fail"} = States
  BY DEF States, Links

\* InitOnEnter rewinds the iterator and changes nothing else that is typed.
LEMMA InitStep == ASSUME IInv, EnterInit PROVE IInv'
<1>1. TypeOK'
  <2>1. it' \in 1..EndIt
    BY ReaderAssumption DEF ReaderAssumption, EnterInit, Rewind, EndIt
  <2> QED
    BY <2>1, StateNames DEF IInv, TypeOK, EnterInit, Settle, EndIt
<1>2. ControlInv'
  <2>1. pc = "running" /\ st = "Start"
    BY EntersFrom DEF EnterInit, IInv
  <2> QED
    BY <2>1 DEF IInv, ControlInv, EnterInit, Rewind, Settle, EndIt
<1> QED
  BY <1>1, <1>2 DEF IInv

\* Entering Armor once the reader is disabled leaves the buffers alone.
LEMMA ArmorDisabledStep == ASSUME IInv, EnterArmorDisabled PROVE IInv'
<1>1. TypeOK'
  BY StateNames DEF IInv, TypeOK, EnterArmorDisabled, Settle, EndIt, session
<1>2. ControlInv'
  BY DEF IInv, ControlInv, EnterArmorDisabled, Settle, EndIt, session
<1> QED
  BY <1>1, <1>2 DEF IInv

\* BufferEmptyOnEnter takes the only buffer off and turns the iterator back.
LEMMA BufferEmptyStep == ASSUME IInv, EnterBufferEmpty PROVE IInv'
<1>1. Popped = <<>> /\ Popped \in Seq(Seq(Cell)) /\ Len(<<>>) = 0
  BY StackType DEF IInv, ControlInv
<1>2. TypeOK'
  <2>1. it' \in 1..EndIt
    BY ReaderAssumption DEF ReaderAssumption, EnterBufferEmpty, EndIt
  <2> QED
    BY <1>1, <2>1, StateNames DEF IInv, TypeOK, EnterBufferEmpty, Settle, EndIt
<1>3. ControlInv'
  BY <1>1 DEF IInv, ControlInv, EnterBufferEmpty, Settle
<1> QED
  BY <1>2, <1>3 DEF IInv

\* End is entered with an empty stack and leaves the session alone.
LEMMA EndStep == ASSUME IInv, EnterEnd PROVE IInv'
<1>1. stack = <<>>
  BY EntersFrom DEF EnterEnd, IInv, CanEnter, EndCanEnter
<1>2. TypeOK'
  BY StateNames DEF IInv, TypeOK, EnterEnd, Settle, EndIt, session
<1>3. ControlInv'
  BY <1>1 DEF IInv, ControlInv, EnterEnd, Settle, session, EndIt
<1> QED
  BY <1>2, <1>3 DEF IInv

\* Update and Finish start the machine again, with one buffer or with none.
LEMMA CallStep ==
    ASSUME IInv, Update \/ FinishWithData \/ FinishWithoutData PROVE IInv'
<1>1. CASE Update \/ FinishWithData
  <2>1. PICK n \in 1..(Len(scn.wire) - pos), as \in {"update", "finishUpdate"} : Feed(n, as)
    BY <1>1, ReaderAssumption DEF ReaderAssumption, IInv, TypeOK, Update, FinishWithData
  <2>2. scn.wire \in Seq(Cell) /\ pos \in 0..Len(scn.wire) /\ Len(scn.wire) \in Nat
    BY ReaderAssumption DEF ReaderAssumption, IInv, TypeOK
  <2> DEFINE chunk == SubSeq(scn.wire, pos + 1, pos + n)
  <2>3. chunk \in Seq(Cell) /\ Len(chunk) = n
    BY <2>1, <2>2, SubSeqProperties
  <2> HIDE DEF chunk
  <2>4. chunk # <<>> /\ stack = <<>> /\ stack \in Seq(Seq(Cell))
    BY <2>1, <2>3 DEF IInv, ControlInv, Feed, TypeOK
  <2>5. stack' = <<chunk>> /\ stack' \in Seq(Seq(Cell))
    BY <2>1, <2>3, <2>4, PushType DEF Feed, chunk
  <2>6. Len(stack') = 1 /\ Head(stack') = chunk
    BY <2>3, <2>5
  <2>7. TypeOK'
    <3>1. pc' \in {"idle", "running"} /\ st' \in States /\ failed' \in BOOLEAN
      BY <2>1, StateNames DEF Feed
    <3>4. call' \in {"update", "finishUpdate", "finishPass"}
      BY <2>1 DEF Feed
    <3>5. pos' = pos + n
      BY <2>1 DEF Feed
    <3>6. pos' \in 0..Len(scn.wire)
      BY <2>2, <3>5
    <3>2. UNCHANGED <<scn, finish, emsg, chain, it, armor, header, readers,
                      output, returned, analyzed>>
      BY <2>1 DEF Feed
    <3> QED
      BY <2>5, <3>1, <3>2, <3>4, <3>6 DEF IInv, TypeOK, EndIt
  <2>8. ControlInv'
    <3>1. /\ pc' = "running" /\ call' # "finishPass" /\ st' = "Start"
          /\ finish' = FALSE
      BY <2>1 DEF IInv, TypeOK, ControlInv, Feed
    <3>2. stack' # <<>>
      BY <2>5
    <3> QED
      BY <2>4, <2>6, <3>1, <3>2 DEF ControlInv
  <2> QED
    BY <2>7, <2>8 DEF IInv
<1>2. CASE FinishWithoutData
  <2>1. TypeOK'
    <3>1. pc' \in {"idle", "running"} \cup Ended /\ st' \in States
          /\ call' \in {"update", "finishUpdate", "finishPass"}
          /\ failed' \in BOOLEAN /\ finish' \in BOOLEAN
      BY <1>2, StateNames DEF FinishWithoutData, FinishPass
    <3>2. UNCHANGED <<scn, pos, session, returned>>
      BY <1>2 DEF FinishWithoutData
    <3> QED
      BY <3>1, <3>2 DEF IInv, TypeOK, session, EndIt
  <2>2. ControlInv'
    <3>1. stack' = stack /\ pc' = "running" /\ finish' /\ st' = "Start"
          /\ call' = "finishPass" /\ stack = <<>>
      BY <1>2 DEF FinishWithoutData, FinishPass, session, IInv, ControlInv
    <3> QED
      BY <3>1 DEF ControlInv
  <2> QED
    BY <2>1, <2>2 DEF IInv
<1> QED
  BY <1>1, <1>2

\* ArmorOnEnter replaces the buffer on the stack by what the armor reader
\* decoded, or by all it had kept when the message turns out not to be armored.
LEMMA ArmorStep == ASSUME IInv, EnterArmor PROVE IInv'
<1>1. PICK o \in ReadArmor(armor, Top) :
         /\ armor' = o.a /\ emsg' = o.res
         /\ stack' = IF Rejected(o.res) THEN Popped
                     ELSE IF o.a.status = "Disabled" THEN Push(Popped, o.back)
                     ELSE PushIf(Popped, o.out)
         /\ Settle("Armor", Rejected(o.res))
  BY DEF EnterArmor
<1>2. ArmorOK(o)
  BY StackType, ReadArmorType DEF EnterArmor, IInv
<1>3. Popped = <<>> /\ Popped \in Seq(Seq(Cell))
  BY StackType DEF IInv, ControlInv
<1>4. /\ stack' \in Seq(Seq(Cell))
      /\ \/ stack' = <<>>
         \/ stack' = <<o.back>> /\ o.a.status = "Disabled"
         \/ stack' = <<o.out>> /\ o.out # <<>>
  BY <1>1, <1>2, <1>3, PushType DEF ArmorOK
<1>5. UNCHANGED <<scn, pos, pc, call, finish, chain, it, header, readers,
                  output, returned, analyzed>>
  BY DEF EnterArmor
<1>6. TypeOK'
  <2>1. armor' \in ArmorState /\ emsg' \in Results
    BY <1>1, <1>2 DEF ArmorOK, Results, Errors
  <2>2. st' \in States /\ failed' \in BOOLEAN
    BY <1>1, StateNames DEF Settle, Rejected
  <2> QED
    BY <1>4, <1>5, <2>1, <2>2 DEF IInv, TypeOK, EndIt, ArmorState
<1>7. ControlInv'
  <2>1. Len(stack') <= 1
    BY <1>4, SingleLen, Zenon
  <2>2. ~finish /\ stack' # <<>> => Head(stack') # <<>>
    BY <1>2, <1>4 DEF ArmorOK
  <2>3. pc = "running"
    BY EntersFrom DEF EnterArmor, IInv
  <2>4. st' = "Armor" \/ (st' = "Fail" /\ stack' = <<>>)
    BY <1>1, <1>3 DEF Settle
  <2> QED
    BY <1>5, <2>1, <2>2, <2>3, <2>4 DEF IInv, ControlInv
<1> QED
  BY <1>6, <1>7 DEF IInv

\* HeaderOnEnter moves the buffer through the header reader; a recognised
\* packet fills the first Unknown of the chain, where the iterator stands.
LEMMA HeaderStep == ASSUME IInv, EnterHeader PROVE IInv'
<1> DEFINE in   == header.in \o Top
           wait == Len(in) < HeaderMax /\ ~finish
           type == IF \E t \in PacketTypes : StartsWith(in, t)
                   THEN in[1].kind ELSE "Unknown"
           res  == IF wait THEN "Pending"
                   ELSE IF type = "Unknown" THEN "UnsupportedPacketType"
                   ELSE "Success"
<1>1. in \in Seq(Cell) /\ <<>> \in Seq(Cell)
  <2>1. header.in \in Seq(Cell) /\ Top \in Seq(Cell)
    BY StackType DEF IInv, TypeOK
  <2> QED
    BY <2>1, ConcatProperties
<1> HIDE DEF in
<1>2. /\ type \in PacketTypes \cup {"Unknown"}
      /\ type # "Unknown" => Tail(in) \in Seq(Cell)
  BY <1>1, StartsType DEF StartsWith, Readable
<1> HIDE DEF type
<1>4. in # <<>>
  <2>1. stack # <<>> /\ Head(stack) # <<>>
    BY EntersFrom DEF EnterHeader, IInv, CanEnter, HeaderCanEnter
  <2>2. header.in \in Seq(Cell) /\ Top \in Seq(Cell) /\ Top # <<>>
    BY <2>1, StackType DEF IInv, TypeOK, Top
  <2> QED
    BY <2>2 DEF in
<1>5. Tail(in) \in Seq(Cell)
  BY <1>1, <1>4
<1> HIDE DEF wait
<1>6. res \in {"Success", "Pending", "UnsupportedPacketType"}
      /\ (res = "Success" => type \in PacketTypes) /\ (wait => res = "Pending")
  BY <1>2
<1>7. /\ emsg' = res
      /\ header' = IF wait THEN [header EXCEPT !.in = in]
                   ELSE [type |-> type,
                         in |-> IF res = "Success" THEN <<>> ELSE Tail(in)]
      /\ stack' = IF res = "Success" THEN PushIf(Popped, Tail(in)) ELSE Popped
      /\ IF res = "Success" /\ it = EndIt
         THEN pc' = "undefined" /\ UNCHANGED chain
         ELSE /\ UNCHANGED pc
              /\ chain' = IF res = "Success" THEN [chain EXCEPT ![it] = type]
                          ELSE chain
      /\ Settle("Header", Rejected(res))
      /\ UNCHANGED <<scn, pos, call, finish, it, armor, readers, output,
                     returned, analyzed>>
  BY Zenon DEF EnterHeader, in, wait, type
<1> HIDE DEF res
<1>8. Popped = <<>> /\ Popped \in Seq(Seq(Cell))
  BY StackType DEF IInv, ControlInv
<1>9. /\ stack' \in Seq(Seq(Cell))
      /\ \/ stack' = <<>>
         \/ stack' = <<Tail(in)>> /\ Tail(in) # <<>> /\ res = "Success"
  BY <1>5, <1>7, <1>8, PushType
<1>10. pc = "running" /\ it \in 1..EndIt
  BY EntersFrom DEF EnterHeader, IInv, TypeOK
<1>11. TypeOK'
  <2>1. header' \in [type : PacketTypes \cup {"Unknown"}, in : Seq(Cell)]
    BY <1>1, <1>2, <1>5, <1>7 DEF IInv, TypeOK
  <2>2. chain' \in [1..ChainMax -> PacketTypes \cup {"Unknown"}]
    BY <1>2, <1>7 DEF IInv, TypeOK
  <2>3. pc' \in {"idle", "running"} \cup Ended /\ emsg' \in Results
    BY <1>6, <1>7, <1>10 DEF Ended, Results, Errors
  <2>4. st' \in States /\ failed' \in BOOLEAN
    BY <1>7, StateNames DEF Settle, Rejected
  <2> QED
    BY <1>7, <1>9, <2>1, <2>2, <2>3, <2>4 DEF IInv, TypeOK, EndIt
<1>12. ControlInv'
  <2>1. Len(stack') <= 1
    BY <1>9, SingleLen, Zenon
  <2>2. stack' # <<>> => Head(stack') # <<>>
    BY <1>9
  <2>3. pc' = "running" => \/ st' = "Header" /\ stack' = <<>>
                           \/ st' = "Fail" /\ stack' = <<>>
                           \/ /\ st' = "Header" /\ it # EndIt
                              /\ chain'[it] # "Unknown"
    <3>1. CASE res = "Pending"
      BY <1>7, <1>8, <3>1 DEF Settle, Rejected
    <3>2. CASE res = "UnsupportedPacketType"
      BY <1>7, <1>8, <3>2 DEF Settle, Rejected
    <3>3. CASE res = "Success" /\ it = EndIt
      BY <1>7, <3>3
    <3>4. CASE res = "Success" /\ it # EndIt
      <4>1. it \in 1..ChainMax /\ chain \in [1..ChainMax -> PacketTypes \cup {"Unknown"}]
        BY <1>10, <3>4, ReaderAssumption DEF ReaderAssumption, EndIt, IInv, TypeOK
      <4>2. type # "Unknown" /\ chain' = [chain EXCEPT ![it] = type]
        BY <1>6, <1>7, <3>4 DEF PacketTypes, ReaderTypes
      <4> QED
        BY <1>7, <3>4, <4>1, <4>2 DEF Settle, Rejected
    <3> QED
      BY <1>6, <3>1, <3>2, <3>3, <3>4
  <2>4. pc' = "running" \/ pc' = "undefined"
    BY <1>7, <1>10
  <2> QED
    BY <1>7, <1>10, <2>1, <2>2, <2>3, <2>4 DEF IInv, ControlInv, EndIt
<1> QED
  BY <1>11, <1>12 DEF IInv

\* The reader a packet is given to, with its input.
LEMMA PacketReaderType ==
    ASSUME TypeOK, NEW t \in ReaderTypes
    PROVE  LET r == GetOrCreatePacket(t)
           IN  At(r, r.step, r.in \o Top, r.held) \in Reader
<1> DEFINE r == GetOrCreatePacket(t)
<1>1. r \in Reader
  <2>1. <<>> \in Seq(Cell)
    OBVIOUS
  <2>2. readers[t] \in Reader
    BY DEF TypeOK
  <2>3. NoReader \in Reader
    BY <2>1 DEF NoReader, Reader
  <2>4. \A k \in BOOLEAN : [NoReader EXCEPT !.made = TRUE, !.keyed = k] \in Reader
    BY <2>3 DEF Reader
  <2>5. (t \in Ciphered /\ ~NoKey(t)) \in BOOLEAN
    OBVIOUS
  <2> QED
    BY <2>2, <2>4, <2>5, Zenon DEF GetOrCreatePacket
<1> HIDE DEF r
<1>2. r.in \o Top \in Seq(Cell)
  BY <1>1, FieldsType, StackType, ConcatProperties
<1>3. At(r, r.step, r.in \o Top, r.held) \in Reader
  BY <1>1, <1>2, FieldsType DEF At, Reader
<1> QED
  BY <1>3 DEF r

\* The first Unknown of the chain is no further than any other.
LEMMA FirstHole ==
    ASSUME NEW m \in Nat, NEW a \in 1..m, NEW b \in 1..(m + 1), a \notin 1..(b - 1)
    PROVE  b \in 1..m
  OBVIOUS

\* PacketOnEnter hands the buffer to the reader of the current packet and
\* moves the iterator on, along the chain or to its end.
LEMMA PacketStep == ASSUME IInv, EnterPacket PROVE IInv'
<1> DEFINE t == Current
           r == GetOrCreatePacket(t)
           e == IF NoKey(t) THEN "InvalidPassphrase" ELSE emsg
<1>1. PICK o \in DoRead(t, At(r, r.step, r.in \o Top, r.held), e, finish, Key) :
         /\ o.res \notin Faults /\ ~Overflows(t, o)
         /\ emsg' = o.res
         /\ analyzed' = (analyzed \/ Learns(t, o))
         /\ PacketAccepts(t, o) \/ PacketRejects(t, o)
  BY Zenon DEF EnterPacket
<1>2. OutcomeOK(o) /\ (o.res = "Success" => t = "ESK")
  <2>1. e \in Results /\ finish \in BOOLEAN /\ t \in ReaderTypes
    BY DEF EnterPacket, IInv, TypeOK, Results, Errors
  <2>2. At(r, r.step, r.in \o Top, r.held) \in Reader
    BY <2>1, PacketReaderType DEF IInv
  <2> QED
    BY <1>1, <2>1, <2>2, DoReadType
<1> HIDE DEF e, r
<1>3. Popped = <<>> /\ Popped \in Seq(Seq(Cell))
  BY StackType DEF IInv, ControlInv
<1>4. /\ pc = "running" /\ it \in 1..ChainMax /\ t = chain[it]
      /\ t \in ReaderTypes /\ EndIt = ChainMax + 1 /\ ChainMax \in Nat
      /\ chain \in [1..ChainMax -> PacketTypes \cup {"Unknown"}]
  <2>1. pc = "running" /\ it # EndIt /\ it \in 1..EndIt
    BY EntersFrom DEF EnterPacket, IInv, CanEnter, PacketCanEnter, TypeOK
  <2> QED
    BY <2>1, ReaderAssumption DEF ReaderAssumption, EndIt, EnterPacket, Current,
       IInv, TypeOK
<1> HIDE DEF t
<1>5. UNCHANGED <<scn, pos, pc, call, finish, armor, header, returned>>
  BY DEF EnterPacket
<1>6. /\ emsg' \in Results /\ analyzed' \in BOOLEAN
      /\ o.rd \in Reader /\ o.out \in Seq(Cell) /\ o.rd.in \in Seq(Cell)
      /\ readers \in [ReaderTypes -> Reader] /\ output \in Seq(Cell)
      /\ <<>> \in Seq(Cell)
  <2>1. o.rd \in Reader /\ o.out \in Seq(Cell) /\ emsg' \in Results
    BY <1>1, <1>2 DEF OutcomeOK
  <2>2. analyzed' \in BOOLEAN
    BY <1>1, Zenon DEF IInv, TypeOK, Learns
  <2> QED
    BY <2>1, <2>2, FieldsType DEF IInv, TypeOK
<1>7. CASE PacketRejects(t, o)
  <2>1. TypeOK'
    <3>1. st' \in States /\ failed' \in BOOLEAN
      BY <1>7, StateNames DEF PacketRejects, Settle
    <3>2. readers' \in [ReaderTypes -> Reader]
      BY <1>4, <1>6, <1>7 DEF PacketRejects
    <3>3. stack' \in Seq(Seq(Cell)) /\ UNCHANGED <<chain, it, output>>
      BY <1>3, <1>7 DEF PacketRejects
    <3> QED
      BY <1>5, <1>6, <3>1, <3>2, <3>3 DEF IInv, TypeOK, EndIt
  <2>2. ControlInv'
    <3>1. stack' = <<>> /\ Len(<<>>) <= 1 /\ st' = "Fail"
      BY <1>3, <1>7, SingleLen DEF PacketRejects, Settle
    <3> QED
      BY <1>4, <1>5, <3>1 DEF IInv, ControlInv
  <2> QED
    BY <2>1, <2>2 DEF IInv
<1>8. CASE PacketAccepts(t, o)
  <2> DEFINE success == o.res = "Success"
             chain1  == IF success THEN [chain EXCEPT ![it] = "Unknown"] ELSE chain
             stack1  == IF success THEN PushIf(Popped, o.rd.in) ELSE Popped
  <2>1. /\ chain' = chain1
        /\ stack' = IF Passes(t, o) THEN Push(stack1, o.out) ELSE stack1
        /\ output' = IF IsFinalPacket(t) THEN output \o o.out ELSE output
        /\ readers' = [readers EXCEPT ![t] =
                          IF success THEN At(o.rd, o.rd.step, <<>>, o.rd.held)
                          ELSE o.rd]
        /\ Settle("Packet", FALSE)
        /\ o.res \in {"Success", "Pending"}
    BY <1>8 DEF PacketAccepts, Rejected
  <2>2. IF Passes(t, o) THEN it' = (IF finish THEN it ELSE it + 1)
        ELSE IF success /\ o.out = <<>>
        THEN /\ it' \in 1..EndIt
             /\ \A i \in 1..(it' - 1) : chain1[i] # "Unknown"
             /\ it' # EndIt => chain1[it'] = "Unknown"
        ELSE UNCHANGED it
    BY <1>8 DEF PacketAccepts, Advance
  <2>3. success => ~Passes(t, o)
    BY <1>2 DEF Passes, IsFinalPacket
  <2>4. chain1 \in [1..ChainMax -> PacketTypes \cup {"Unknown"}]
    BY <1>4
  <2>5. it' \in 1..ChainMax
    <3>1. CASE Passes(t, o)
      BY <1>1, <1>4, <2>1, <2>2, <2>3, <3>1 DEF Overflows
    <3>2. CASE ~Passes(t, o) /\ success /\ o.out = <<>>
      <4>1. chain1[it] = "Unknown"
        BY <1>4, <3>2
      <4>2. it' \in 1..EndIt /\ \A i \in 1..(it' - 1) : chain1[i] # "Unknown"
        BY <2>2, <3>2
      <4> HIDE DEF chain1
      <4>3. it' \in 1..(ChainMax + 1)
        BY <1>4, <4>2
      <4>4. it \notin 1..(it' - 1)
        BY <4>1, <4>2
      <4> QED
        BY <1>4, <4>3, <4>4, FirstHole
    <3>3. CASE ~Passes(t, o) /\ ~(success /\ o.out = <<>>)
      BY <1>4, <2>2, <3>3
    <3> QED
      BY <3>1, <3>2, <3>3
  <2> HIDE DEF chain1
  <2>6. /\ stack1 \in Seq(Seq(Cell))
        /\ \/ stack1 = <<>>
           \/ success /\ stack1 = <<o.rd.in>> /\ o.rd.in # <<>>
    <3>1. PushIf(Popped, o.rd.in) \in Seq(Seq(Cell))
          /\ PushIf(Popped, o.rd.in) = IF o.rd.in = <<>> THEN <<>> ELSE <<o.rd.in>>
      BY <1>3, <1>6, PushType
    <3>2. CASE success
      BY <3>1, <3>2
    <3>3. CASE ~success
      BY <1>3, <3>3
    <3> QED
      BY <3>2, <3>3
  <2>7. /\ stack' \in Seq(Seq(Cell))
        /\ \/ stack' = <<>>
           \/ stack' = <<o.rd.in>> /\ o.rd.in # <<>>
           \/ stack' = <<o.out>> /\ o.out # <<>>
    <3> HIDE DEF stack1, success
    <3>1. CASE Passes(t, o)
      <4>1. stack1 = <<>> /\ o.out # <<>>
        BY <2>3, <2>6, <3>1 DEF Passes
      <4> QED
        BY <1>6, <2>1, <2>6, <3>1, <4>1, PushType
    <3>2. CASE ~Passes(t, o)
      BY <2>1, <2>6, <3>2
    <3> QED
      BY <3>1, <3>2
  <2>8. TypeOK'
    <3>1. readers' \in [ReaderTypes -> Reader]
      <4>1. At(o.rd, o.rd.step, <<>>, o.rd.held) \in Reader
        BY <1>6, FieldsType DEF At, Reader
      <4> HIDE DEF success
      <4> QED
        BY <1>4, <1>6, <2>1, <4>1
    <3>2. output' \in Seq(Cell)
      BY <1>6, <2>1, ConcatProperties
    <3>3. st' \in States /\ failed' \in BOOLEAN
      BY <2>1, StateNames DEF Settle
    <3>4. it' \in 1..EndIt
      BY <1>4, <2>5
    <3>5. chain' \in [1..ChainMax -> PacketTypes \cup {"Unknown"}]
      BY <2>1, <2>4
    <3> QED
      BY <1>5, <1>6, <2>7, <3>1, <3>2, <3>3, <3>4, <3>5 DEF IInv, TypeOK, EndIt
  <2>9. ControlInv'
    <3>1. Len(stack') <= 1 /\ (stack' # <<>> => Head(stack') # <<>>)
      BY <2>7, SingleLen
    <3>2. st' = "Packet" /\ emsg' \in {"Success", "Pending"}
      BY <1>1, <2>1 DEF Settle
    <3>3. it' # EndIt /\ EndIt' = EndIt
      BY <1>4, <2>5 DEF EndIt
    <3> QED
      BY <1>4, <1>5, <3>1, <3>2, <3>3 DEF IInv, ControlInv
  <2> QED
    BY <2>8, <2>9 DEF IInv
<1> QED
  BY <1>1, <1>7, <1>8

\* An undefined step or a failed assertion ends the session where it is.
LEMMA PacketFaultsStep == ASSUME IInv, PacketFaults PROVE IInv'
<1>1. pc' \in Ended
  BY Zenon DEF PacketFaults, Ended
<1>2. UNCHANGED <<scn, pos, call, st, failed, finish, session, returned>>
  BY DEF PacketFaults
<1>3. TypeOK'
  BY <1>1, <1>2 DEF IInv, TypeOK, session, EndIt
<1>4. ControlInv'
  BY <1>1, <1>2 DEF IInv, ControlInv, session, EndIt, Ended
<1> QED
  BY <1>3, <1>4 DEF IInv

\* FinishOnEnter closes the current packet and takes it out of the chain.
LEMMA FinishPacketStep == ASSUME IInv, EnterFinishPacket PROVE IInv'
<1> DEFINE res == DoFinish(Current, readers[Current])
<1>1. /\ emsg' = res
      /\ IF Rejected(res) THEN UNCHANGED <<chain, it>>
         ELSE LeavePacket
      /\ Settle("FinishPacket", Rejected(res))
      /\ UNCHANGED <<scn, pos, pc, call, finish, stack, armor, header,
                     readers, output, returned, analyzed>>
  BY Zenon DEF EnterFinishPacket
<1>2. res \in {"Success", "UnexpectedFormat", "MDCError"}
  BY DEF DoFinish, FinishSEIPD
<1> HIDE DEF res
<1>3. pc = "running" /\ st = "Packet" /\ finish
  BY EntersFrom DEF EnterFinishPacket, IInv, CanEnter, FinishCanEnter
<1>4. it \in 1..EndIt /\ it # EndIt /\ EndIt = ChainMax + 1 /\ ChainMax \in Nat
  BY <1>3, ReaderAssumption DEF ReaderAssumption, EndIt, IInv, TypeOK, ControlInv
<1>5. st' \in {"FinishPacket", "Fail"} /\ st' \in States /\ failed' \in BOOLEAN
  BY <1>1, StateNames DEF Settle, Rejected
<1>6. TypeOK'
  <2>1. it' \in 1..EndIt
    BY <1>1, <1>4 DEF LeavePacket
  <2>2. chain' \in [1..ChainMax -> PacketTypes \cup {"Unknown"}]
    BY <1>1 DEF LeavePacket, IInv, TypeOK
  <2>3. emsg' \in Results
    BY <1>1, <1>2 DEF Results, Errors
  <2> QED
    BY <1>1, <1>5, <2>1, <2>2, <2>3 DEF IInv, TypeOK, EndIt
<1>7. ControlInv'
  BY <1>1, <1>3, <1>5 DEF IInv, ControlInv
<1> QED
  BY <1>6, <1>7 DEF IInv

\* The machine gets stuck only while it finishes, or with nothing on the stack.
LEMMA FailStep == ASSUME IInv, EnterFail PROVE IInv'
<1>1. pc = "running" /\ CanExit(st) /\ \A i \in DOMAIN Links[st] : ~CanEnter(Links[st][i])
  BY DEF EnterFail, Stuck
<1>2. UNCHANGED <<scn, pos, pc, call, failed, finish, session, returned>> /\ st' = "Fail"
  BY DEF EnterFail
<1>3. finish \/ stack = <<>>
  <2>1. SUFFICES ASSUME ~finish, stack # <<>> PROVE FALSE
    OBVIOUS
  <2>2. st \in DOMAIN Links
    BY DEF IInv, TypeOK, States
  <2>3. CASE st \in {"Start", "Init"}
    BY <1>1, <2>1, <2>3 DEF Links, CanEnter
  <2>4. CASE st = "Armor"
    <3>1. ~CanEnter(Links["Armor"][3])
      BY <1>1, <2>4 DEF Links
    <3> QED
      BY <2>1, <3>1 DEF Links, CanEnter, BufferEmptyCanEnter
  <2>5. CASE st = "Header"
    <3>1. ~CanEnter(Links["Header"][2])
      BY <1>1, <2>5 DEF Links
    <3> QED
      BY <2>1, <3>1 DEF Links, CanEnter, BufferEmptyCanEnter
  <2>6. CASE st = "Packet"
    <3>1. ~CanEnter(Links["Packet"][4])
      BY <1>1, <2>6 DEF Links
    <3> QED
      BY <2>1, <3>1 DEF Links, CanEnter, BufferEmptyCanEnter
  <2>7. CASE st \in {"FinishPacket", "BufferEmpty"}
    BY <1>1, <2>1, <2>7 DEF IInv, ControlInv
  <2>8. CASE st \in {"End", "Fail"}
    BY <1>1, <2>8 DEF CanExit
  <2> QED
    BY <2>2, <2>3, <2>4, <2>5, <2>6, <2>7, <2>8 DEF Links
<1>4. TypeOK'
  BY <1>2, StateNames DEF IInv, TypeOK, session, EndIt
<1>5. ControlInv'
  BY <1>2, <1>3 DEF IInv, ControlInv, session, EndIt
<1> QED
  BY <1>4, <1>5 DEF IInv

\* An exception leaves the session as the handler found it.
LEMMA ThrowStep == ASSUME IInv, Throw PROVE IInv'
<1>1. pc' \in Ended
  BY DEF Throw, Ended
<1>2. UNCHANGED <<scn, pos, call, st, failed, finish, session, returned>>
  BY DEF Throw
<1>3. TypeOK'
  BY <1>1, <1>2 DEF IInv, TypeOK, session, EndIt
<1>4. ControlInv'
  BY <1>1, <1>2 DEF IInv, ControlInv, session, EndIt, Ended
<1> QED
  BY <1>3, <1>4 DEF IInv

\* A call that returns gives the output away; a Finish whose Update did not
\* fail goes on to its second pass with finish_packets set.
LEMMA ReturnStep == ASSUME IInv, Return PROVE IInv'
<1>1. /\ returned' \in Seq(Cell) /\ output' \in Seq(Cell)
      /\ UNCHANGED <<scn, pos, emsg, stack, chain, it, armor, header, readers,
                     analyzed>>
  <2>1. <<>> \in Seq(Cell)
    OBVIOUS
  <2> QED
    BY <2>1, ConcatProperties DEF Return, Deliver, IInv, TypeOK
<1>2. pc = "running" /\ st \in {"FinishPacket", "End", "Fail"}
  BY DEF Return, Returning, CanExit, IInv, TypeOK, ControlInv
<1>3. ~finish => stack = <<>>
  BY <1>2 DEF IInv, ControlInv
<1>4. call \in {"update", "finishUpdate", "finishPass"}
      /\ (finish <=> call = "finishPass")
  BY <1>2 DEF IInv, TypeOK, ControlInv
<1>5. CASE call = "update"
  <2>1. pc' = "idle" /\ UNCHANGED <<call, st, failed, finish>>
    BY <1>5 DEF Return
  <2>2. TypeOK'
    BY <1>1, <2>1 DEF IInv, TypeOK, EndIt
  <2>3. ControlInv'
    BY <1>1, <1>3, <1>4, <1>5, <2>1 DEF IInv, ControlInv
  <2> QED
    BY <2>2, <2>3 DEF IInv
<1>6. CASE call = "finishUpdate"
  <2>1. FinishPass
    BY <1>6 DEF Return
  <2>2. TypeOK'
    <3>1. /\ pc' \in {"idle", "running"} /\ call' \in {"update", "finishUpdate", "finishPass"}
          /\ st' \in States /\ failed' \in BOOLEAN /\ finish' \in BOOLEAN
      BY <2>1, StateNames DEF FinishPass
    <3> QED
      BY <1>1, <3>1 DEF IInv, TypeOK, EndIt
  <2>3. ControlInv'
    <3>1. pc' = "running" /\ finish' /\ call' = "finishPass" /\ st' = "Start"
      BY <2>1 DEF FinishPass
    <3> QED
      BY <1>1, <3>1 DEF IInv, ControlInv
  <2> QED
    BY <2>2, <2>3 DEF IInv
<1>7. CASE call = "finishPass"
  <2>1. pc' = "finished" /\ UNCHANGED <<call, st, failed, finish>>
    BY <1>7 DEF Return
  <2>2. TypeOK'
    BY <1>1, <2>1 DEF IInv, TypeOK, EndIt, Ended
  <2>3. ControlInv'
    BY <1>1, <2>1 DEF IInv, ControlInv
  <2> QED
    BY <2>2, <2>3 DEF IInv
<1> QED
  BY <1>4, <1>5, <1>6, <1>7

-----------------------------------------------------------------------------
(* The theorems.                                                           *)

\* No step of the specification, stuttering included, leaves the invariant.
LEMMA StepKeepsInv == ASSUME IInv, [Next]_vars PROVE IInv'
<1>1. CASE Step
  <2>1. EnterHeader => IInv'
    BY HeaderStep
  <2>2. EnterPacket => IInv'
    BY PacketStep
  <2> QED
    BY <1>1, <2>1, <2>2, InitStep, ArmorDisabledStep, ArmorStep, PacketFaultsStep,
       FinishPacketStep, BufferEmptyStep, EndStep, FailStep, ThrowStep, ReturnStep, Zenon
    DEF Step
<1>2. CASE Update \/ FinishWithData \/ FinishWithoutData
  BY <1>2, CallStep
<1>3. CASE UNCHANGED vars
  BY <1>3 DEF vars, session, IInv, TypeOK, ControlInv, EndIt
<1> QED
  BY <1>1, <1>2, <1>3, Zenon DEF Next

\* The control invariant holds in every behaviour.
LEMMA Invariance == Spec => []IInv
  BY TypeInit, StepKeepsInv, PTL DEF Spec

\* SessionState never holds anything but what its types say, whatever the
\* message, the key and the sizes: no iterator past the end of the chain's end
\* marker, no state outside the graph, no cell that is not one.
THEOREM TypeCorrect == Spec => []TypeOK
  BY Invariance, PTL DEF IInv

\* The handlers of state_handlers.cpp never pile up buffers, and an Update
\* comes back with every buffer taken off the stack, so that the next one
\* finds its own chunk on top.
THEOREM StackCorrect == Spec => []StackDiscipline
<1>1. IInv => StackDiscipline
  BY DEF IInv, ControlInv, StackDiscipline
<1> QED
  BY <1>1, Invariance, PTL

\* BufferEmptyOnEnter pops and drops a buffer, but it is never entered with
\* one on the stack: an unread buffer always has a reader that wants it.
THEOREM NothingLost == Spec => NothingDiscarded
<1>1. ASSUME IInv, EnterBufferEmpty PROVE stack = <<>>
  <2>1. SUFFICES ASSUME stack # <<>> PROVE FALSE
    OBVIOUS
  <2>2. /\ pc = "running" /\ BufferEmptyCanEnter
        /\ st \in {"Armor", "Header", "Packet"} /\ ~PacketCanEnter
        /\ st # "Header" => ~HeaderCanEnter
    BY <1>1, EntersFrom DEF EnterBufferEmpty, IInv, CanEnter
  <2>3. Head(stack) # <<>>
    BY <1>1, <2>1, <2>2 DEF IInv, ControlInv, BufferEmptyCanEnter
  <2>4. it # EndIt /\ chain[it] # "Unknown"
    BY <1>1, <2>1, <2>2, <2>3 DEF IInv, ControlInv, HeaderCanEnter, Current
  <2> QED
    BY <2>1, <2>2, <2>4 DEF PacketCanEnter, Current
<1>2. IInv /\ [Next]_vars => [EnterBufferEmpty => stack = <<>>]_vars
  BY <1>1
<1> QED
  BY <1>2, Invariance, PTL DEF Spec, NothingDiscarded

-----------------------------------------------------------------------------
(* The chain invariant.  The known places of the chain have no gap between *)
(* them, and a packet with another one inside it was read.                 *)

Known == {i \in 1..ChainMax : chain[i] # "Unknown"}
Made(i)     == chain[i] \in ReaderTypes /\ readers[chain[i]].made
BeenRead(i) == Made(i) /\ ~IsFinalPacket(chain[i])

NestInv ==
    /\ \A i, j \in Known : \A k \in i..j : k \in Known
    /\ \A i, j \in Known : i < j => BeenRead(i)
    /\ \A i \in Known : chain[i] \in ReaderTypes /\ ~readers[chain[i]].made =>
           header.type = chain[i]
    /\ ~finish \/ st = "Start" => Known = {} \/ 1 \in Known

\* Where the iterator stands: before Finish at the packet that is read or the
\* place behind it, in the finishing pass at the first packet that is left.
AtWork == pc = "running" /\ st \in {"Init", "Armor", "Header", "Packet", "FinishPacket"}
IteratorInv ==
    /\ AtWork /\ ~finish => /\ it = 1 \/ it - 1 \in Known
                            /\ \A i \in Known : i < it => BeenRead(i)
    /\ AtWork /\ finish => /\ \A i \in Known : it <= i
                           /\ Known # {} => it \in Known
    /\ pc = "running" /\ finish =>
           /\ st = "Header" => it \in Known
           /\ st = "Packet" /\ it \in Known => Made(it)
           /\ st = "BufferEmpty" => Known = {}

\* In the finishing pass an empty buffer is on the stack only when nothing
\* was ever fed: otherwise the armor reader has entered its first state.
BufferInv ==
    /\ armor.done \/ armor.status # "Unknown" => armor.entered
    /\ \/ pc = "running" /\ ~finish /\ st \in {"Start", "Init"}
       \/ pos = 0
       \/ armor.entered
    /\ finish \/ (pc = "running" /\ call = "finishUpdate") => pos = Len(scn.wire)
    /\ pc = "running" /\ finish =>
           /\ st \in {"Start", "Init"} => stack = <<>>
           /\ pos > 0 /\ stack # <<>> => Head(stack) # <<>>

ChainInv == NestInv /\ IteratorInv /\ BufferInv /\ FailIsReported
FullInv  == IInv /\ ChainInv

-----------------------------------------------------------------------------
(* What a handler leaves as it is.                                         *)

\* The integers behind the places of the chain.
LEMMA Places ==
    ASSUME TypeOK
    PROVE  /\ ChainMax \in Nat \ {0} /\ EndIt = ChainMax + 1 /\ it \in 1..EndIt
           /\ chain \in [1..ChainMax -> PacketTypes \cup {"Unknown"}]
           /\ Known \subseteq 1..ChainMax
           /\ pos \in Nat /\ finish \in BOOLEAN
  BY ReaderAssumption DEF ReaderAssumption, EndIt, TypeOK, Known

\* A step that leaves chain, readers and header alone keeps the nest, as long
\* as it starts no finishing pass.
LEMMA NestKeeps ==
    ASSUME NestInv, UNCHANGED <<chain, readers, header, finish>>,
           finish => st' # "Start"
    PROVE  NestInv'
  BY DEF NestInv, Known, BeenRead, Made

\* A step that leaves the armor reader and what was fed alone keeps what is
\* said of buffers, when it pushes no empty one.
LEMMA BufferKeeps ==
    ASSUME BufferInv, UNCHANGED <<scn, pos, call, finish, armor>>,
           pc = "running", st \notin {"Start", "Init"},
           st' \notin {"Start", "Init"},
           finish /\ pos > 0 /\ stack' # <<>> => Head(stack') # <<>>
    PROVE  BufferInv'
  BY DEF BufferInv

\* Where the machine comes from when a packet is read.
LEMMA PacketFrom ==
    ASSUME TypeOK, Enters("Packet")
    PROVE  pc = "running" /\ st \in {"Armor", "Header", "Packet", "FinishPacket"}
<1>1. pc = "running" /\ st \in DOMAIN Links
  BY DEF Enters, TypeOK, States
<1>2. PICK i \in DOMAIN Links[st] : Links[st][i] = "Packet"
  BY DEF Enters
<1> QED
  BY <1>1, <1>2 DEF Links

-----------------------------------------------------------------------------
(* The initial states, and the handlers that read no packet.               *)

\* A new session has an empty chain.
LEMMA ChainInit == ASSUME Init PROVE ChainInv
<1>1. \A i \in 1..ChainMax : chain[i] = "Unknown"
  BY DEF Init
<1>2. Known = {}
  BY <1>1 DEF Known
<1> QED
  BY <1>2 DEF Init, ChainInv, NestInv, IteratorInv, BufferInv, FailIsReported, AtWork

\* InitOnEnter rewinds the iterator to the outermost packet.
LEMMA InitChain == ASSUME FullInv, EnterInit PROVE ChainInv'
<1>1. /\ it' = 1 /\ st' = "Init" /\ ~failed'
      /\ UNCHANGED <<scn, pos, pc, call, finish, emsg, stack, chain, armor,
                     header, readers, output, returned, analyzed>>
  BY DEF EnterInit, Rewind, Settle
<1>2. pc = "running" /\ st = "Start"
  BY EntersFrom DEF EnterInit, FullInv, IInv
<1>3. NestInv'
  BY <1>1, NestKeeps DEF FullInv, ChainInv
<1>4. \A i \in Known : 1 <= i
  BY Places DEF FullInv, IInv
<1>5. Known' = Known /\ (finish => Known = {} \/ 1 \in Known)
  BY <1>1, <1>2 DEF Known, FullInv, ChainInv, NestInv
<1>6. IteratorInv'
  <2>1. \A i \in Known : ~(i < 1)
    BY <1>4, Places DEF FullInv, IInv
  <2> QED
    BY <1>1, <1>4, <1>5, <2>1 DEF IteratorInv, AtWork
<1>7. BufferInv'
  BY <1>1, <1>2 DEF BufferInv, FullInv, ChainInv
<1> QED
  BY <1>1, <1>3, <1>6, <1>7 DEF ChainInv, FailIsReported

\* ArmorOnEnter of a message without armor does nothing.
LEMMA ArmorDisabledChain == ASSUME FullInv, EnterArmorDisabled PROVE ChainInv'
<1>1. /\ st' = "Armor" /\ armor.status = "Disabled"
      /\ UNCHANGED <<scn, pos, pc, call, finish, session, returned>>
  BY DEF EnterArmorDisabled, Settle
<1>2. pc = "running" /\ st = "Init"
  BY EntersFrom DEF EnterArmorDisabled, FullInv, IInv
<1>3. NestInv'
  BY <1>1, NestKeeps DEF FullInv, ChainInv, session
<1>4. IteratorInv'
  BY <1>1, <1>2 DEF IteratorInv, AtWork, FullInv, ChainInv, session, Known, BeenRead, Made
<1>5. BufferInv'
  BY <1>1, <1>2 DEF BufferInv, FullInv, ChainInv, session
<1> QED
  BY <1>1, <1>3, <1>4, <1>5 DEF ChainInv, FailIsReported

\* EndOnEnter too.
LEMMA EndChain == ASSUME FullInv, EnterEnd PROVE ChainInv'
<1>1. st' = "End" /\ UNCHANGED <<scn, pos, pc, call, finish, session, returned>>
  BY DEF EnterEnd, Settle
<1>2. pc = "running" /\ st \in {"FinishPacket", "BufferEmpty"}
  BY EntersFrom DEF EnterEnd, FullInv, IInv
<1>3. NestInv'
  BY <1>1, NestKeeps DEF FullInv, ChainInv, session
<1>4. IteratorInv'
  BY <1>1 DEF IteratorInv, AtWork
<1>5. BufferInv'
  BY <1>1, <1>2 DEF BufferInv, FullInv, ChainInv, session
<1> QED
  BY <1>1, <1>3, <1>4, <1>5 DEF ChainInv, FailIsReported

\* BufferEmptyOnEnter, which in the finishing pass comes only when the chain
\* is empty.
LEMMA BufferEmptyChain == ASSUME FullInv, EnterBufferEmpty PROVE ChainInv'
<1>1. /\ st' = "BufferEmpty" /\ stack' = Popped
      /\ UNCHANGED <<scn, pos, pc, call, finish, emsg, chain, armor, header,
                     readers, output, returned, analyzed>>
  BY DEF EnterBufferEmpty, Settle
<1>2. /\ pc = "running" /\ st \in {"Armor", "Header", "Packet"}
      /\ ~PacketCanEnter
  BY EntersFrom DEF EnterBufferEmpty, FullInv, IInv, CanEnter
<1>3. NestInv'
  BY <1>1, NestKeeps DEF FullInv, ChainInv
<1>4. finish => Known = {}
  <2>1. SUFFICES ASSUME finish, Known # {} PROVE FALSE
    OBVIOUS
  <2>2. it \in Known
    BY <1>2, <2>1 DEF FullInv, ChainInv, IteratorInv, AtWork
  <2>3. it # EndIt /\ Current # "Unknown"
    BY <2>2, Places DEF FullInv, IInv, Known, Current
  <2> QED
    BY <1>2, <2>1, <2>3 DEF PacketCanEnter
<1>5. IteratorInv'
  BY <1>1, <1>4 DEF IteratorInv, AtWork, Known
<1>6. stack' = <<>>
  BY <1>1, StackType DEF FullInv, IInv, ControlInv
<1>7. BufferInv'
  BY <1>1, <1>2, <1>6, BufferKeeps DEF FullInv, ChainInv
<1> QED
  BY <1>1, <1>3, <1>5, <1>7 DEF ChainInv, FailIsReported

\* The armor reader enters its first state before it says anything, and gives
\* back an empty buffer only when it was never fed before.
ArmorSays(o) ==
    /\ o.a.entered
    /\ finish /\ armor.entered /\ o.a.status = "Disabled" => o.back # <<>>
LEMMA ArmorDecodeSays ==
    ASSUME NEW a, a.entered, a \in ArmorState, NEW buf, NEW from
    PROVE  \A o \in ArmorDecode(a, buf, from) : o.a.entered /\ o.a.status = "Enabled"
<1> DEFINE next(l) == [a EXCEPT !.status = "Enabled", !.done = l.tail,
                                !.buf = Drop(buf, from + 2 * l.last)]
           text(l) == Peel([i \in 1..l.last |-> buf[from + 2 * i]])
<1>1. SUFFICES ASSUME NEW l \in ArmorLines(buf, from),
                      NEW o, o = IF l.bad
                                 THEN ArmorOutcome("UnexpectedError", <<>>, <<>>, next(l))
                                 ELSE ArmorOutcome(IF l.tail THEN "Success" ELSE "Pending",
                                                   text(l), <<>>, next(l))
               PROVE  o.a.entered /\ o.a.status = "Enabled"
  BY Zenon DEF ArmorDecode
<1>2. next(l).entered /\ next(l).status = "Enabled"
  BY DEF ArmorState
<1> HIDE DEF next, text
<1> QED
  BY <1>1, <1>2 DEF ArmorOutcome

\* What the armor reader makes of an answer it has given.
LEMMA ReadArmorSays ==
    ASSUME TypeOK, BufferInv, armor.status # "Disabled", NEW in \in Seq(Cell),
           finish => in = <<>>
    PROVE  \A o \in ReadArmor(armor, in) : ArmorSays(o)
<1> DEFINE buf  == armor.buf \o in
           seen == [armor EXCEPT !.entered = TRUE]
           kept == [armor EXCEPT !.buf = buf]
           more == [seen EXCEPT !.buf = buf]
           off  == [seen EXCEPT !.status = "Disabled", !.buf = <<>>]
<1>1. armor \in ArmorState /\ <<>> \in Seq(Cell)
  BY DEF TypeOK, ArmorState
<1>2. buf \in Seq(Cell)
  BY <1>1, ConcatProperties DEF ArmorState
<1> HIDE DEF buf
<1>3. /\ seen \in ArmorState /\ seen.entered
      /\ more.entered /\ more.status = armor.status
      /\ kept.entered = armor.entered /\ kept.status = armor.status
      /\ off.entered
  BY <1>1, <1>2 DEF ArmorState
<1>4. armor.done \/ armor.status = "Enabled" => armor.entered
  BY DEF BufferInv
<1> HIDE DEF seen, kept, more, off
<1>5. SUFFICES ASSUME NEW o \in ReadArmor(armor, in) PROVE ArmorSays(o)
  OBVIOUS
<1>6. \/ armor.done /\ o = ArmorOutcome("Success", <<>>, <<>>, kept)
      \/ armor.status = "Enabled" /\ o \in ArmorDecode(armor, buf, 0)
      \/ armor.entered /\ o = ArmorOutcome("Pending", <<>>, <<>>, armor)
      \/ o = ArmorOutcome("Pending", <<>>, <<>>, more)
      \/ o \in ArmorDecode(seen, buf, 2)
      \/ ~(armor.entered /\ in = <<>>) /\ o = ArmorOutcome("Success", <<>>, buf, off)
  BY <1>5, Zenon DEF ReadArmor, buf, seen, kept, more, off
<1>7. CASE armor.status = "Enabled" /\ o \in ArmorDecode(armor, buf, 0)
  BY <1>1, <1>4, <1>7, ArmorDecodeSays DEF ArmorSays
<1>8. CASE o \in ArmorDecode(seen, buf, 2)
  BY <1>3, <1>8, ArmorDecodeSays DEF ArmorSays
<1>9. CASE \/ armor.done /\ o = ArmorOutcome("Success", <<>>, <<>>, kept)
           \/ armor.entered /\ o = ArmorOutcome("Pending", <<>>, <<>>, armor)
           \/ o = ArmorOutcome("Pending", <<>>, <<>>, more)
           \/ ~(armor.entered /\ in = <<>>) /\ o = ArmorOutcome("Success", <<>>, buf, off)
  BY <1>3, <1>4, <1>9 DEF ArmorSays, ArmorOutcome
<1> QED
  BY <1>6, <1>7, <1>8, <1>9

\* ArmorOnEnter of anything else.
LEMMA ArmorChain == ASSUME FullInv, EnterArmor PROVE ChainInv'
<1>1. pc = "running" /\ st = "Init" /\ it = 1
  BY EntersFrom DEF EnterArmor, FullInv, IInv, ControlInv
<1>2. PICK o \in ReadArmor(armor, Top) :
          /\ armor' = o.a /\ emsg' = o.res
          /\ stack' = IF Rejected(o.res) THEN Popped
                      ELSE IF o.a.status = "Disabled" THEN Push(Popped, o.back)
                      ELSE PushIf(Popped, o.out)
          /\ Settle("Armor", Rejected(o.res))
  BY Zenon DEF EnterArmor
<1>3. /\ UNCHANGED <<scn, pos, pc, call, finish, chain, it, header, readers,
                     output, returned, analyzed>>
      /\ armor.status # "Disabled"
  BY DEF EnterArmor
<1>4. Top \in Seq(Cell) /\ Popped = <<>> /\ <<>> \in Seq(Seq(Cell))
  BY StackType DEF FullInv, IInv, ControlInv
<1>5. finish => Top = <<>>
  BY <1>1 DEF Top, FullInv, ChainInv, BufferInv
<1>6. ArmorSays(o) /\ ArmorOK(o)
  BY <1>2, <1>3, <1>4, <1>5, ReadArmorSays, ReadArmorType DEF FullInv, IInv, ChainInv
<1>7. st' \in {"Armor", "Fail"} /\ (st' = "Fail" => failed')
  BY <1>2 DEF Settle
<1>8. NestInv'
  BY <1>3, <1>7, NestKeeps DEF FullInv, ChainInv
<1>9. IteratorInv'
  BY <1>1, <1>3, <1>7 DEF IteratorInv, AtWork, FullInv, ChainInv, Known, BeenRead, Made
<1>10. finish /\ pos > 0 /\ stack' # <<>> => Head(stack') # <<>>
  <2>1. finish /\ pos > 0 => armor.entered
    BY Places DEF FullInv, IInv, ChainInv, BufferInv
  <2>2. \/ stack' = <<>>
        \/ o.a.status = "Disabled" /\ stack' = <<o.back>>
        \/ o.out # <<>> /\ stack' = <<o.out>>
    BY <1>2, <1>4, <1>6, PushType DEF ArmorOK
  <2> QED
    BY <1>6, <2>1, <2>2, SingleLen DEF ArmorSays
<1>11. BufferInv'
  BY <1>1, <1>2, <1>3, <1>6, <1>7, <1>10 DEF BufferInv, ArmorSays, FullInv, ChainInv
<1> QED
  BY <1>7, <1>8, <1>9, <1>11 DEF ChainInv, FailIsReported

-----------------------------------------------------------------------------
(* The calls, and what ends a session.                                     *)

\* A new chunk starts the machine over.
LEMMA FeedChain ==
    ASSUME FullInv, NEW n, n \in 0..(Len(scn.wire) - pos), NEW as, Feed(n, as),
           as = "finishUpdate" => n = Len(scn.wire) - pos
    PROVE  ChainInv'
<1>1. /\ pc = "idle" /\ pc' = "running" /\ call' = as /\ pos' = pos + n
      /\ st' = "Start" /\ ~failed'
      /\ UNCHANGED <<scn, finish, emsg, chain, it, armor, header, readers,
                     output, returned, analyzed>>
  BY DEF Feed
<1>2. ~finish
  BY <1>1 DEF FullInv, IInv, ControlInv
<1>3. NestInv'
  BY <1>1, <1>2, NestKeeps DEF FullInv, ChainInv
<1>4. IteratorInv'
  BY <1>1, <1>2 DEF IteratorInv, AtWork
<1>5. as = "finishUpdate" => pos' = Len(scn.wire)
  BY <1>1, Places DEF FullInv, IInv, TypeOK
<1>6. BufferInv'
  BY <1>1, <1>2, <1>5 DEF BufferInv, FullInv, ChainInv
<1> QED
  BY <1>1, <1>3, <1>4, <1>6 DEF ChainInv, FailIsReported

\* The finishing pass starts with nothing on the stack.
LEMMA FinishPassChain ==
    ASSUME FullInv, FinishPass, ~finish, stack = <<>>, pos = Len(scn.wire),
           pc = "running" => st \notin {"Start", "Init"},
           UNCHANGED <<scn, pos, emsg, stack, chain, it, armor, header, readers, analyzed>>
    PROVE  ChainInv'
<1>1. call' = "finishPass" /\ finish' /\ st' = "Start" /\ ~failed' /\ pc' = "running"
  BY DEF FinishPass
<1>2. NestInv'
  BY DEF NestInv, Known, BeenRead, Made, FullInv, ChainInv
<1>3. IteratorInv'
  BY <1>1 DEF IteratorInv, AtWork
<1>4. BufferInv'
  BY <1>1 DEF BufferInv, FullInv, ChainInv
<1> QED
  BY <1>1, <1>2, <1>3, <1>4 DEF ChainInv, FailIsReported

\* A call brings data or asks for the end, and leaves the chain alone.
LEMMA CallChain ==
    ASSUME FullInv, Update \/ FinishWithData \/ FinishWithoutData
    PROVE  ChainInv'
<1>1. Len(scn.wire) \in Nat /\ pos \in 0..Len(scn.wire)
  BY ReaderAssumption DEF ReaderAssumption, FullInv, IInv, TypeOK
<1>2. CASE Update
  <2>1. PICK n \in 1..(Len(scn.wire) - pos) : Feed(n, "update")
    BY <1>2 DEF Update
  <2>2. n \in 0..(Len(scn.wire) - pos) /\ ("update" = "finishUpdate" => n = Len(scn.wire) - pos)
    BY <1>1
  <2> QED
    BY <2>1, <2>2, FeedChain, Zenon
<1>3. CASE FinishWithData
  <2> DEFINE n == Len(scn.wire) - pos
  <2>1. n \in 0..(Len(scn.wire) - pos)
    BY <1>1
  <2>2. Feed(n, "finishUpdate")
    BY <1>3 DEF FinishWithData
  <2> QED
    BY <2>1, <2>2, FeedChain, Zenon
<1>4. CASE FinishWithoutData
  <2>1. /\ pc = "idle" /\ pos = Len(scn.wire) /\ FinishPass
        /\ UNCHANGED <<scn, pos, session, returned>>
    BY <1>4 DEF FinishWithoutData
  <2>2. ~finish /\ stack = <<>>
    BY <2>1 DEF FullInv, IInv, ControlInv
  <2> QED
    BY <2>1, <2>2, FinishPassChain DEF session
<1> QED
  BY <1>2, <1>3, <1>4

\* A session that has ended, by an exception or worse, keeps what it had.
LEMMA EndedChain ==
    ASSUME FullInv, pc = "running", pc' \in Ended,
           UNCHANGED <<scn, pos, call, st, failed, finish, emsg, stack, chain, it, armor,
                       header, readers, analyzed>>,
           finish \/ st \notin {"Start", "Init"}
    PROVE  ChainInv'
<1>1. NestInv'
  BY DEF NestInv, Known, BeenRead, Made, FullInv, ChainInv
<1>2. pc' # "running"
  BY DEF Ended
<1>3. IteratorInv'
  BY <1>2 DEF IteratorInv, AtWork
<1>4. BufferInv'
  BY <1>2 DEF BufferInv, FullInv, ChainInv
<1> QED
  BY <1>1, <1>3, <1>4 DEF FullInv, ChainInv, FailIsReported

\* A packet reader that throws changes nothing the chain invariant is about.
LEMMA PacketFaultsChain == ASSUME FullInv, PacketFaults PROVE ChainInv'
<1>1. pc' \in Ended
  BY Zenon DEF PacketFaults, Ended
<1>2. UNCHANGED <<scn, pos, call, st, failed, finish, session, returned>>
  BY DEF PacketFaults
<1>3. pc = "running" /\ st \notin {"Start", "Init"}
  BY PacketFrom DEF PacketFaults, FullInv, IInv
<1> QED
  BY <1>1, <1>2, <1>3, EndedChain DEF session

\* A call that throws leaves the chain.
LEMMA ThrowChain == ASSUME FullInv, Throw PROVE ChainInv'
<1>1. pc = "running" /\ pc' \in Ended /\ st \notin {"Start", "Init"}
  BY DEF Throw, Returning, Ended, CanExit
<1> QED
  BY <1>1, EndedChain DEF Throw, session

\* A call that returns leaves the chain.
LEMMA ReturnChain == ASSUME FullInv, Return PROVE ChainInv'
<1>1. /\ pc = "running" /\ st \in {"FinishPacket", "End", "Fail"}
      /\ UNCHANGED <<scn, pos, emsg, stack, chain, it, armor, header, readers, analyzed>>
  BY DEF Return, Returning, CanExit, FullInv, IInv, TypeOK, ControlInv
<1>2. call \in {"update", "finishUpdate", "finishPass"}
      /\ (finish <=> call = "finishPass")
  BY <1>1 DEF FullInv, IInv, TypeOK, ControlInv
<1>3. CASE call = "update"
  <2>1. pc' = "idle" /\ UNCHANGED <<call, st, failed, finish>>
    BY <1>3 DEF Return
  <2>2. NestInv'
    BY <1>1, <2>1, NestKeeps DEF FullInv, ChainInv
  <2>3. IteratorInv'
    BY <2>1 DEF IteratorInv, AtWork
  <2>4. BufferInv'
    BY <1>1, <2>1 DEF BufferInv, FullInv, ChainInv
  <2> QED
    BY <1>1, <2>1, <2>2, <2>3, <2>4 DEF FullInv, ChainInv, FailIsReported
<1>4. CASE call = "finishUpdate"
  <2>1. ~finish /\ stack = <<>> /\ pos = Len(scn.wire)
    BY <1>1, <1>2, <1>4 DEF FullInv, IInv, ControlInv, ChainInv, BufferInv
  <2>2. FinishPass
    BY <1>4 DEF Return
  <2> QED
    BY <1>1, <2>1, <2>2, FinishPassChain
<1>5. CASE call = "finishPass"
  <2>1. pc' = "finished" /\ UNCHANGED <<call, st, failed, finish>>
    BY <1>5 DEF Return
  <2> QED
    BY <1>1, <2>1, EndedChain DEF Ended
<1> QED
  BY <1>2, <1>3, <1>4, <1>5

-----------------------------------------------------------------------------
(* No way on: only when nothing was ever fed.                              *)

\* What the guards ask of the iterator: whether it stands on a known place.
LEMMA OnKnown ==
    ASSUME TypeOK
    PROVE  it \in Known <=> it # EndIt /\ Current # "Unknown"
  BY Places DEF Known, Current

\* State by state, NextState finds a link to follow, unless nothing was fed.
LEMMA StuckOnNothing ==
    ASSUME FullInv, Stuck
    PROVE  scn.wire = <<>> /\ st \notin {"Start", "Init"}
<1>1. pc = "running" /\ CanExit(st) /\ \A i \in DOMAIN Links[st] : ~CanEnter(Links[st][i])
  BY DEF Stuck
<1>2. st \in DOMAIN Links
  BY DEF FullInv, IInv, TypeOK, States
<1>3. it \in Known <=> it # EndIt /\ Current # "Unknown"
  BY OnKnown DEF FullInv, IInv
<1>4. finish /\ stack # <<>> /\ Head(stack) = <<>> => scn.wire = <<>>
  <2>1. SUFFICES ASSUME finish, stack # <<>>, Head(stack) = <<>>, scn.wire # <<>>
                 PROVE  FALSE
    OBVIOUS
  <2>2. scn.wire \in Seq(Cell) /\ pos = Len(scn.wire)
    BY <2>1, ReaderAssumption DEF ReaderAssumption, FullInv, IInv, TypeOK, ChainInv, BufferInv
  <2>3. pos > 0
    BY <2>1, <2>2, EmptySeq, LenProperties
  <2> QED
    BY <1>1, <2>1, <2>3 DEF FullInv, ChainInv, BufferInv
<1>5. CASE st \in {"Start", "Init"}
  <2>1. ~CanEnter(Links[st][1])
    BY <1>1, <1>5 DEF Links
  <2> QED
    BY <1>1, <1>5, <2>1 DEF Links, CanEnter, FullInv, IInv, ControlInv
<1>6. CASE st = "Armor"
  <2>1. ~PacketCanEnter /\ ~HeaderCanEnter /\ ~BufferEmptyCanEnter
    <3>1. ~CanEnter(Links["Armor"][1]) /\ ~CanEnter(Links["Armor"][2])
          /\ ~CanEnter(Links["Armor"][3])
      BY <1>1, <1>6 DEF Links
    <3> QED
      BY <3>1 DEF Links, CanEnter
  <2>2. finish /\ stack # <<>> /\ Head(stack) = <<>>
    BY <2>1 DEF PacketCanEnter, HeaderCanEnter, BufferEmptyCanEnter
  <2> QED
    BY <1>4, <1>6, <2>2
<1>7. CASE st = "Header"
  <2>1. ~PacketCanEnter /\ ~BufferEmptyCanEnter
    <3>1. ~CanEnter(Links["Header"][1]) /\ ~CanEnter(Links["Header"][2])
      BY <1>1, <1>7 DEF Links
    <3> QED
      BY <3>1 DEF Links, CanEnter
  <2>2. finish /\ it \in Known
    BY <1>1, <1>7, <2>1 DEF BufferEmptyCanEnter, FullInv, ChainInv, IteratorInv
  <2> QED
    BY <1>3, <2>1, <2>2 DEF PacketCanEnter
<1>8. CASE st = "Packet"
  <2>1. ~HeaderCanEnter /\ ~FinishCanEnter /\ ~BufferEmptyCanEnter
    <3>1. ~CanEnter(Links["Packet"][1]) /\ ~CanEnter(Links["Packet"][2])
          /\ ~CanEnter(Links["Packet"][4])
      BY <1>1, <1>8 DEF Links
    <3> QED
      BY <3>1 DEF Links, CanEnter
  <2>2. finish /\ stack # <<>> /\ Head(stack) = <<>>
    BY <2>1 DEF FinishCanEnter, HeaderCanEnter, BufferEmptyCanEnter
  <2> QED
    BY <1>4, <1>8, <2>2
<1>9. CASE st = "FinishPacket"
  <2>1. ~PacketCanEnter /\ ~HeaderCanEnter /\ ~EndCanEnter
    <3>1. ~CanEnter(Links["FinishPacket"][1]) /\ ~CanEnter(Links["FinishPacket"][2])
          /\ ~CanEnter(Links["FinishPacket"][3])
      BY <1>1, <1>9 DEF Links
    <3> QED
      BY <3>1 DEF Links, CanEnter
  <2>2. finish
    BY <1>1, <1>9 DEF FullInv, IInv, ControlInv
  <2>3. Known = {}
    BY <1>1, <1>3, <1>9, <2>1, <2>2 DEF PacketCanEnter, FullInv, ChainInv, IteratorInv, AtWork
  <2>4. stack # <<>> /\ Head(stack) = <<>>
    BY <1>3, <2>1, <2>3 DEF EndCanEnter, HeaderCanEnter, Known
  <2> QED
    BY <1>4, <1>9, <2>2, <2>4
<1>10. CASE st = "BufferEmpty"
  <2>1. ~EndCanEnter
    <3>1. ~CanEnter(Links["BufferEmpty"][2])
      BY <1>1, <1>10 DEF Links
    <3> QED
      BY <3>1 DEF Links, CanEnter
  <2>2. stack = <<>> /\ (finish => Known = {})
    BY <1>1, <1>10 DEF FullInv, IInv, ControlInv, ChainInv, IteratorInv
  <2> QED
    BY <2>1, <2>2 DEF EndCanEnter, Known
<1>11. CASE st \in {"End", "Fail"}
  BY <1>1, <1>11 DEF CanExit
<1> QED
  BY <1>2, <1>5, <1>6, <1>7, <1>8, <1>9, <1>10, <1>11 DEF Links

\* The machine has no way on, and goes to Fail, only when nothing was fed.
LEMMA FailChain == ASSUME FullInv, EnterFail PROVE ChainInv'
<1>1. st' = "Fail" /\ UNCHANGED <<scn, pos, pc, call, failed, finish, session, returned>>
  BY DEF EnterFail
<1>2. scn.wire = <<>> /\ st \notin {"Start", "Init"} /\ pc = "running"
  BY StuckOnNothing DEF EnterFail, Stuck
<1>3. NestInv'
  BY <1>1, NestKeeps DEF FullInv, ChainInv, session
<1>4. IteratorInv'
  BY <1>1 DEF IteratorInv, AtWork
<1>5. BufferInv'
  BY <1>1, <1>2 DEF BufferInv, FullInv, ChainInv, session
<1> QED
  BY <1>1, <1>2, <1>3, <1>4, <1>5 DEF ChainInv, FailIsReported

-----------------------------------------------------------------------------
(* The handlers that change the chain.                                     *)

\* One place of the chain gets another type; the others stay as they are.
LEMMA PlaceSet ==
    ASSUME TypeOK, NEW p \in 1..ChainMax, NEW type,
           chain' = [chain EXCEPT ![p] = type]
    PROVE  /\ chain'[p] = type
           /\ \A i \in 1..ChainMax : i # p => chain'[i] = chain[i]
           /\ Known' = IF type = "Unknown" THEN Known \ {p} ELSE Known \cup {p}
<1>1. chain'[p] = type /\ \A i \in 1..ChainMax : i # p => chain'[i] = chain[i]
  BY Places
<1> QED
  BY <1>1 DEF Known

\* Where a header is wanted all packets of the chain were read, and the place
\* for it is the next one.
LEMMA HeaderPlace ==
    ASSUME FullInv, Enters("Header")
    PROVE  /\ pc = "running" /\ st \in {"Armor", "Packet", "FinishPacket"}
           /\ it \notin Known
           /\ \A i \in Known : BeenRead(i) /\ i < it
           /\ finish => Known = {}
           /\ ~finish => it = 1 \/ it - 1 \in Known
<1>1. /\ pc = "running" /\ st \in {"Armor", "Packet", "FinishPacket", "BufferEmpty"}
      /\ HeaderCanEnter
  BY EntersFrom DEF FullInv, IInv, CanEnter
<1>2. st # "BufferEmpty"
  BY <1>1 DEF HeaderCanEnter, FullInv, IInv, ControlInv
<1>3. AtWork
  BY <1>1, <1>2 DEF AtWork
<1>4. it \notin Known
  BY <1>1, OnKnown DEF HeaderCanEnter, FullInv, IInv
<1>5. finish => Known = {}
  BY <1>3, <1>4 DEF FullInv, ChainInv, IteratorInv
<1>6. CASE ~finish
  <2>1. it = 1 \/ it - 1 \in Known
    BY <1>3, <1>6 DEF FullInv, ChainInv, IteratorInv
  <2>2. it \in 1..EndIt /\ Known \subseteq 1..ChainMax /\ EndIt = ChainMax + 1
        /\ ChainMax \in Nat
    BY Places DEF FullInv, IInv
  <2>3. ASSUME NEW i \in Known PROVE i < it
    <3>1. SUFFICES ASSUME it <= i PROVE FALSE
      BY <2>2
    <3>2. 1 \in Known
      BY <1>6 DEF FullInv, ChainInv, NestInv
    <3>3. it \in 1..i
      BY <2>2, <3>1
    <3> QED
      BY <1>4, <3>2, <3>3 DEF FullInv, ChainInv, NestInv
  <2>4. \A i \in Known : BeenRead(i)
    BY <1>3, <1>6, <2>3 DEF FullInv, ChainInv, IteratorInv
  <2> QED
    BY <1>1, <1>2, <1>4, <1>6, <2>1, <2>3, <2>4
<1>7. finish \in BOOLEAN
  BY Places DEF FullInv, IInv
<1> QED
  BY <1>1, <1>2, <1>4, <1>5, <1>6, <1>7

\* HeaderOnEnter, whether it reads a header or not.
LEMMA HeaderChain == ASSUME FullInv, EnterHeader PROVE ChainInv'
<1> DEFINE in   == header.in \o Top
           wait == Len(in) < HeaderMax /\ ~finish
           type == IF \E t \in PacketTypes : StartsWith(in, t)
                   THEN in[1].kind ELSE "Unknown"
           res  == IF wait THEN "Pending"
                   ELSE IF type = "Unknown" THEN "UnsupportedPacketType"
                   ELSE "Success"
<1>1. /\ header' = IF wait THEN [header EXCEPT !.in = in]
                   ELSE [type |-> type, in |-> IF res = "Success" THEN <<>> ELSE Tail(in)]
      /\ stack' = IF res = "Success" THEN PushIf(Popped, Tail(in)) ELSE Popped
      /\ IF res = "Success" /\ it = EndIt
         THEN pc' = "undefined" /\ UNCHANGED chain
         ELSE /\ UNCHANGED pc
              /\ chain' = IF res = "Success" THEN [chain EXCEPT ![it] = type] ELSE chain
      /\ Settle("Header", Rejected(res))
      /\ UNCHANGED <<scn, pos, call, finish, it, armor, readers, output,
                     returned, analyzed>>
  BY Zenon DEF EnterHeader
<1>2. /\ pc = "running" /\ st \in {"Armor", "Packet", "FinishPacket"}
      /\ it \notin Known
      /\ \A i \in Known : BeenRead(i) /\ i < it
      /\ finish => Known = {}
      /\ ~finish => it = 1 \/ it - 1 \in Known
  BY HeaderPlace DEF EnterHeader
<1>3. res = "Success" => type # "Unknown" /\ header'.type = type
  BY <1>1
<1>4. res = "Pending" => ~finish
  OBVIOUS
<1>5. res \in {"Pending", "UnsupportedPacketType", "Success"}
  OBVIOUS
<1>6. finish /\ pos > 0 /\ stack' # <<>> => Head(stack') # <<>>
  <2>1. in \in Seq(Cell)
    <3>1. header.in \in Seq(Cell)
      BY DEF FullInv, IInv, TypeOK
    <3>2. Top \in Seq(Cell)
      BY StackType DEF FullInv, IInv
    <3> QED
      BY <3>1, <3>2, ConcatProperties
  <2>2. in # <<>>
    <3>1. HeaderCanEnter
      BY EntersFrom DEF EnterHeader, CanEnter, FullInv, IInv
    <3>2. Top # <<>> /\ Top \in Seq(Cell) /\ header.in \in Seq(Cell)
      BY <3>1, StackType DEF HeaderCanEnter, Top, FullInv, IInv, TypeOK
    <3> QED
      BY <3>2, ConcatProperties, EmptySeq
  <2> HIDE DEF in
  <2>3. Tail(in) \in Seq(Cell)
    BY <2>1, <2>2
  <2>4. Popped = <<>> /\ <<>> \in Seq(Seq(Cell))
    BY StackType DEF FullInv, IInv, ControlInv
  <2>5. PushIf(Popped, Tail(in)) = IF Tail(in) = <<>> THEN <<>> ELSE <<Tail(in)>>
    BY <2>3, <2>4, PushType
  <2> QED
    BY <1>1, <2>4, <2>5, SingleLen
<1>7. BufferInv'
  <2>1. st' \notin {"Start", "Init"}
    BY <1>1 DEF Settle
  <2> HIDE DEF res, in
  <2> QED
    BY <1>1, <1>2, <1>6, <2>1, BufferKeeps DEF FullInv, ChainInv
<1>8. FailIsReported'
  BY <1>1 DEF Settle, FailIsReported
<1> HIDE DEF wait, in
<1>9. CASE res = "Success" /\ it # EndIt
  <2>1. it \in 1..ChainMax /\ Known \subseteq 1..ChainMax /\ ChainMax \in Nat
    BY <1>9, Places DEF FullInv, IInv
  <2>2. /\ chain' = [chain EXCEPT ![it] = type] /\ st' = "Header"
        /\ UNCHANGED <<pc, finish, it, readers>> /\ type # "Unknown"
        /\ header'.type = type
    BY <1>1, <1>3, <1>9 DEF Settle, Rejected
  <2> HIDE DEF type
  <2>3. /\ chain'[it] = type /\ Known' = Known \cup {it}
        /\ \A i \in 1..ChainMax : i # it => chain'[i] = chain[i]
    BY <2>1, <2>2, PlaceSet DEF FullInv, IInv
  <2>4. \A i \in Known : BeenRead(i)' /\ Made(i)'
    BY <1>2, <2>1, <2>2, <2>3 DEF BeenRead, Made
  <2>5. \A i, j \in Known' : \A k \in i..j : k \in Known'
    <3>1. SUFFICES ASSUME NEW i \in Known', NEW j \in Known', NEW k \in i..j, k # it
                   PROVE  k \in Known
      BY <2>3
    <3>2. i \in Known /\ k < it
      BY <1>2, <2>1, <2>3, <3>1
    <3>3. it - 1 \in Known
      BY <1>2, <2>1, <3>2
    <3>4. k \in i..(it - 1)
      BY <2>1, <3>1, <3>2
    <3> QED
      BY <3>2, <3>3, <3>4 DEF FullInv, ChainInv, NestInv
  <2>6. NestInv'
    <3>1. \A i, j \in Known' : i < j => BeenRead(i)'
      BY <1>2, <2>1, <2>3, <2>4
    <3>2. \A i \in Known' : chain'[i] \in ReaderTypes /\ ~readers'[chain'[i]].made =>
              header'.type = chain'[i]
      BY <2>2, <2>3, <2>4 DEF Made
    <3>3. ~finish' \/ st' = "Start" => 1 \in Known'
      BY <1>2, <2>2, <2>3 DEF FullInv, ChainInv, NestInv
    <3> QED
      BY <2>5, <3>1, <3>2, <3>3 DEF NestInv
  <2>7. IteratorInv'
    <3>1. ~finish => /\ it = 1 \/ it - 1 \in Known'
                     /\ \A i \in Known' : i < it => BeenRead(i)'
      BY <1>2, <2>1, <2>3, <2>4
    <3>2. finish => /\ \A i \in Known' : it <= i
                    /\ it \in Known'
      BY <1>2, <2>1, <2>3
    <3> QED
      BY <2>2, <3>1, <3>2 DEF IteratorInv
  <2> QED
    BY <1>7, <1>8, <2>6, <2>7 DEF ChainInv
<1>10. CASE ~(res = "Success" /\ it # EndIt)
  <2>1. /\ UNCHANGED <<chain, readers, finish, it>>
        /\ \/ st' = "Fail" \/ pc' = "undefined"
           \/ st' = "Header" /\ ~finish
        /\ st' # "Start"
    BY <1>1, <1>4, <1>5, <1>10 DEF Settle, Rejected
  <2>2. Known' = Known /\ \A i \in Known : BeenRead(i)' /\ Made(i)'
    BY <1>2, <2>1 DEF Known, BeenRead, Made
  <2>3. NestInv'
    BY <2>1, <2>2 DEF NestInv, Made, FullInv, ChainInv
  <2>4. IteratorInv'
    BY <1>2, <2>1, <2>2 DEF IteratorInv, AtWork
  <2> QED
    BY <1>7, <1>8, <2>3, <2>4 DEF ChainInv
<1> QED
  BY <1>9, <1>10

\* FinishOnEnter goes on to the packet inside the one it takes out.
LEMMA FinishPacketChain == ASSUME FullInv, EnterFinishPacket PROVE ChainInv'
<1> DEFINE res == DoFinish(Current, readers[Current])
<1>1. /\ IF Rejected(res) THEN UNCHANGED <<chain, it>> ELSE LeavePacket
      /\ Settle("FinishPacket", Rejected(res))
      /\ UNCHANGED <<scn, pos, pc, call, finish, stack, armor, header,
                     readers, output, returned, analyzed>>
  BY Zenon DEF EnterFinishPacket
<1> HIDE DEF res
<1>2. pc = "running" /\ st = "Packet" /\ finish /\ Current # "Unknown"
  BY EntersFrom DEF EnterFinishPacket, FullInv, IInv, CanEnter, FinishCanEnter
<1>3. it \in Known /\ it \in 1..ChainMax /\ Known \subseteq 1..ChainMax /\ ChainMax \in Nat
  BY <1>2, OnKnown, Places DEF FullInv, IInv, ControlInv
<1>4. \A i \in Known : it <= i
  BY <1>2 DEF FullInv, ChainInv, IteratorInv, AtWork
<1>5. BufferInv'
  BY <1>1, <1>2 DEF Settle, BufferInv, FullInv, ChainInv
<1>6. FailIsReported'
  BY <1>1 DEF Settle, FailIsReported
<1>7. CASE Rejected(res)
  <2>1. st' = "Fail" /\ UNCHANGED <<chain, it>>
    BY <1>1, <1>7 DEF Settle
  <2>2. NestInv'
    BY <1>1, <2>1, NestKeeps DEF FullInv, ChainInv
  <2>3. IteratorInv'
    BY <2>1 DEF IteratorInv, AtWork
  <2> QED
    BY <1>5, <1>6, <2>2, <2>3 DEF ChainInv
<1>8. CASE ~Rejected(res)
  <2>1. /\ chain' = [chain EXCEPT ![it] = "Unknown"] /\ it' = it + 1
        /\ st' = "FinishPacket"
    BY <1>1, <1>8 DEF LeavePacket, Settle
  <2>2. /\ Known' = Known \ {it}
        /\ \A i \in 1..ChainMax : i # it => chain'[i] = chain[i]
    BY <1>3, <2>1, PlaceSet DEF FullInv, IInv
  <2>3. ASSUME NEW i \in Known'
        PROVE  /\ i \in Known /\ i \in 1..ChainMax /\ it + 1 <= i
               /\ chain'[i] = chain[i]
    <3>1. i \in Known /\ i # it
      BY <2>2
    <3>2. i \in 1..ChainMax /\ it <= i
      BY <1>3, <1>4, <3>1
    <3>3. it + 1 <= i
      BY <1>3, <3>1, <3>2
    <3> QED
      BY <2>2, <3>1, <3>2, <3>3
  <2>4. \A i \in Known' : BeenRead(i) => BeenRead(i)'
    BY <1>1, <2>3 DEF BeenRead, Made
  <2>5. NestInv'
    <3>1. \A i, j \in Known' : \A k \in i..j : k \in Known'
      <4>1. SUFFICES ASSUME NEW i \in Known', NEW j \in Known', NEW k \in i..j
                     PROVE  k \in Known /\ k # it
        BY <2>2
      <4>2. k \in Known
        BY <2>3 DEF FullInv, ChainInv, NestInv
      <4>3. it + 1 <= i /\ i \in Int
        BY <1>3, <2>3
      <4> QED
        BY <1>3, <4>2, <4>3
    <3>2. \A i, j \in Known' : i < j => BeenRead(i)'
      BY <2>3, <2>4 DEF FullInv, ChainInv, NestInv
    <3>3. \A i \in Known' : chain'[i] \in ReaderTypes /\ ~readers'[chain'[i]].made =>
              header'.type = chain'[i]
      BY <1>1, <2>3 DEF FullInv, ChainInv, NestInv
    <3> QED
      BY <1>1, <1>2, <2>1, <3>1, <3>2, <3>3 DEF NestInv
  <2>6. IteratorInv'
    <3>1. Known' # {} => it + 1 \in Known'
      <4>1. SUFFICES ASSUME NEW i \in Known' PROVE it + 1 \in Known'
        OBVIOUS
      <4>2. i \in Known /\ it + 1 \in it..i
        BY <1>3, <2>3
      <4>3. it + 1 \in Known
        BY <1>3, <4>2 DEF FullInv, ChainInv, NestInv
      <4> QED
        BY <1>3, <2>2, <4>3
    <3> QED
      BY <1>1, <1>2, <2>1, <2>3, <3>1 DEF IteratorInv
  <2> QED
    BY <1>5, <1>6, <2>5, <2>6 DEF ChainInv
<1> QED
  BY <1>7, <1>8

-----------------------------------------------------------------------------
(* PacketOnEnter.                                                          *)

\* A reader stays the object it is, with the key it has, and gives nothing out
\* when it is done.
Stays(r, o) == /\ o.rd.made = r.made /\ o.rd.keyed = r.keyed
               /\ o.res = "Success" => o.out = <<>>

\* A reader that has been made stays made, whatever it reads.
LEMMA RejectStays ==
    ASSUME NEW r, NEW rd, rd.made = r.made, rd.keyed = r.keyed, NEW res, res # "Success"
    PROVE  \A o \in Reject(res, rd) : Stays(r, o)
  BY DEF Reject, Outcome, Stays

LEMMA PendingStays ==
    ASSUME NEW r, NEW rd, rd.made = r.made, rd.keyed = r.keyed, NEW out
    PROVE  \A o \in Pending(out, rd) : Stays(r, o)
  BY DEF Pending, Outcome, Stays

LEMMA AtStays ==
    \A r, step, in, held : /\ At(r, step, in, held).made = r.made
                           /\ At(r, step, in, held).keyed = r.keyed
  BY DEF At

LEMMA ReadESKStays == ASSUME NEW r PROVE \A o \in ReadESK(r) : Stays(r, o)
<1> DEFINE rest == Drop(r.in, ESKLen)
<1>1. SUFFICES ASSUME NEW o \in ReadESK(r) PROVE Stays(r, o)
  OBVIOUS
<1>2. \/ o \in Pending(<<>>, r)
      \/ o = Outcome("Success", <<>>, At(r, 1, rest, r.held))
      \/ \E res \in ESKErrors : o \in Reject(res, At(r, 0, rest, r.held))
  BY <1>1, Zenon DEF ReadESK
<1> HIDE DEF rest
<1>3. o = Outcome("Success", <<>>, At(r, 1, rest, r.held)) => Stays(r, o)
  BY AtStays DEF Outcome, Stays
<1>4. \A res \in ESKErrors : o \in Reject(res, At(r, 0, rest, r.held)) => Stays(r, o)
  BY AtStays, RejectStays DEF ESKErrors
<1> QED
  BY <1>2, <1>3, <1>4, PendingStays

LEMMA ReadSYMStays ==
    ASSUME NEW r, NEW emsg0, NEW fin, NEW key
    PROVE  \A o \in ReadSYM(r, emsg0, fin, key) : Stays(r, o)
<1> DEFINE skip == IF r.step = 0 THEN PrefixLen ELSE 0
           rest == Drop(r.in, skip)
           n    == IF fin THEN Len(rest) ELSE Whole(Len(rest))
<1>1. SUFFICES ASSUME NEW o \in ReadSYM(r, emsg0, fin, key) PROVE Stays(r, o)
  OBVIOUS
<1>2. \/ o \in Reject("InvalidPassphrase", r) \/ o \in Reject("Undefined", r)
      \/ o \in Pending(<<>>, r)
      \/ o \in Reject("InvalidSurrogateIV", At(r, 0, rest, r.held))
      \/ o \in Pending(Peel(Take(rest, n)), At(r, 1, Drop(rest, n), r.held))
  BY <1>1, Zenon DEF ReadSYM
<1> HIDE DEF rest, n
<1> QED
  BY <1>2, AtStays, RejectStays, PendingStays

LEMMA ReadSEIPDBodyStays ==
    ASSUME NEW r, NEW fin, NEW key
    PROVE  \A o \in ReadSEIPDBody(r, fin, key) : Stays(r, o)
<1> DEFINE n      == SEIPDStep(Len(r.in), fin)
           buf    == Peel(Take(r.in, n))
           first  == r.step = 1
           rest   == Drop(r.in, n)
           window == r.held \o (IF first THEN Drop(buf, PrefixLen) ELSE buf)
           out    == Take(window, Len(window) - MDCLen)
           next   == At(r, 2, rest, Drop(window, Len(window) - MDCLen))
<1>1. SUFFICES ASSUME NEW o \in ReadSEIPDBody(r, fin, key) PROVE Stays(r, o)
  OBVIOUS
<1>2. \/ o \in Pending(<<>>, r) \/ o \in Reject("Undefined", r)
      \/ o \in Reject("InvalidSurrogateIV", At(r, r.step, rest, r.held))
      \/ o \in Pending(out, next)
  BY <1>1, Zenon DEF ReadSEIPDBody
<1>3. next.made = r.made /\ next.keyed = r.keyed
  BY DEF At
<1> HIDE DEF rest, out, next
<1> QED
  BY <1>2, <1>3, AtStays, RejectStays, PendingStays

LEMMA ReadSEIPDStays ==
    ASSUME NEW r, NEW emsg0, NEW fin, NEW key
    PROVE  \A o \in ReadSEIPD(r, emsg0, fin, key) : Stays(r, o)
<1> DEFINE opened == At(r, 1, Tail(r.in), r.held)
<1>1. SUFFICES ASSUME NEW o \in ReadSEIPD(r, emsg0, fin, key) PROVE Stays(r, o)
  OBVIOUS
<1>2. \/ o \in Reject("InvalidPassphrase", r) \/ o \in Reject("UnexpectedFormat", r)
      \/ o \in Reject("Undefined", r) \/ o \in ReadSEIPDBody(r, fin, key)
      \/ o \in ReadSEIPDBody(opened, fin, key)
  BY <1>1, Zenon DEF ReadSEIPD
<1>3. opened.made = r.made /\ opened.keyed = r.keyed
  BY DEF At
<1> HIDE DEF opened
<1>4. o \in ReadSEIPDBody(opened, fin, key) => Stays(opened, o)
  BY ReadSEIPDBodyStays
<1> QED
  BY <1>2, <1>3, <1>4, ReadSEIPDBodyStays, RejectStays DEF Stays

LEMMA InflateStays == ASSUME NEW r, NEW fin PROVE \A o \in Inflate(r, fin) : Stays(r, o)
<1> DEFINE all == r.held \o Peel(r.in)
<1>1. SUFFICES ASSUME NEW o \in Inflate(r, fin) PROVE Stays(r, o)
  OBVIOUS
<1>2. \/ o \in Pending(<<>>, r) \/ o \in Reject("Exception", r)
      \/ o \in Pending(Front(all), At(r, 2, <<>>, <<>>))
      \/ \E n \in 0..Len(all) : o \in Pending(Take(all, n), At(r, 1, <<>>, Drop(all, n)))
  BY <1>1, Zenon DEF Inflate
<1> HIDE DEF all
<1> QED
  BY <1>2, AtStays, RejectStays, PendingStays

LEMMA ReadCOMPStays == ASSUME NEW r, NEW fin PROVE \A o \in ReadCOMP(r, fin) : Stays(r, o)
<1> DEFINE opened == At(r, 1, Tail(r.in), r.held)
<1>1. SUFFICES ASSUME NEW o \in ReadCOMP(r, fin) PROVE Stays(r, o)
  OBVIOUS
<1>2. \/ o \in Inflate(r, fin) \/ o \in Inflate(opened, fin)
      \/ o \in Reject("UnsupportedCompressionAlgo", r)
  BY <1>1, Zenon DEF ReadCOMP
<1>3. opened.made = r.made /\ opened.keyed = r.keyed
  BY DEF At
<1> HIDE DEF opened
<1>4. o \in Inflate(opened, fin) => Stays(opened, o)
  BY InflateStays
<1> QED
  BY <1>2, <1>3, <1>4, InflateStays, RejectStays DEF Stays

LEMMA ReadLITStays == ASSUME NEW r PROVE \A o \in ReadLIT(r) : Stays(r, o)
<1> DEFINE next(step) == At(r, step, Tail(r.in), r.held)
<1>1. \A q : \A o \in ReadLITName(q) : Stays(q, o)
  <2>1. SUFFICES ASSUME NEW q, NEW o \in ReadLITName(q) PROVE Stays(q, o)
    OBVIOUS
  <2>2. \/ o \in Pending(q.in, At(q, 2, <<>>, q.held)) \/ o \in Pending(<<>>, q)
        \/ o \in Pending(Tail(q.in), At(q, 2, <<>>, q.held))
    BY <2>1, Zenon DEF ReadLITName
  <2> QED
    BY <2>2, AtStays, PendingStays
<1>2. SUFFICES ASSUME NEW o \in ReadLIT(r) PROVE Stays(r, o)
  OBVIOUS
<1>3. \/ o \in ReadLITName(r) \/ o \in Pending(<<>>, r) \/ o \in ReadLITName(next(1))
      \/ o \in Reject("UnexpectedFormat", next(0))
  BY <1>2, Zenon DEF ReadLIT
<1>4. /\ next(1).made = r.made /\ next(1).keyed = r.keyed
      /\ next(0).made = r.made /\ next(0).keyed = r.keyed
  BY DEF At
<1> HIDE DEF next
<1>5. o \in ReadLITName(next(1)) => Stays(next(1), o)
  BY <1>1
<1> QED
  BY <1>1, <1>3, <1>4, <1>5, PendingStays, RejectStays DEF Stays

\* Every reader stays made over a call of its Read.
LEMMA DoReadStays ==
    ASSUME NEW t \in ReaderTypes, NEW r, NEW emsg0, NEW fin, NEW key
    PROVE  \A o \in DoRead(t, r, emsg0, fin, key) : Stays(r, o)
<1>1. CASE t = "ESK"
  BY <1>1, ReadESKStays DEF DoRead
<1>2. CASE t = "SEIPD"
  BY <1>2, ReadSEIPDStays DEF DoRead
<1>3. CASE t = "SYM"
  BY <1>3, ReadSYMStays DEF DoRead
<1>4. CASE t = "COMP"
  BY <1>4, ReadCOMPStays DEF DoRead
<1>5. CASE t = "LIT"
  BY <1>5, ReadLITStays DEF DoRead
<1> QED
  BY <1>1, <1>2, <1>3, <1>4, <1>5 DEF ReaderTypes

\* What was read stays read when one reader goes on, and that one was read.
LEMMA ReadersGoOn ==
    ASSUME TypeOK, NEW t \in ReaderTypes, NEW x, x.made,
           readers' = [readers EXCEPT ![t] = x],
           NEW i \in 1..ChainMax, chain'[i] = chain[i]
    PROVE  /\ Made(i) => Made(i)'
           /\ BeenRead(i) => BeenRead(i)'
           /\ chain[i] = t => Made(i)'
           /\ chain'[i] \in ReaderTypes /\ ~readers'[chain'[i]].made =>
                 chain[i] \in ReaderTypes /\ ~readers[chain[i]].made
<1>1. readers \in [ReaderTypes -> Reader]
  BY DEF TypeOK
<1>2. readers'[t].made /\ \A u \in ReaderTypes : u # t => readers'[u] = readers[u]
  BY <1>1
<1> QED
  BY <1>2 DEF Made, BeenRead

\* PacketOnEnter: what was read stays read, and a session key packet is the
\* innermost known one, and leaves the chain when it is done.
LEMMA PacketChain == ASSUME FullInv, EnterPacket PROVE ChainInv'
<1> DEFINE t == Current
           r == GetOrCreatePacket(t)
           e == IF NoKey(t) THEN "InvalidPassphrase" ELSE emsg
           fed == At(r, r.step, r.in \o Top, r.held)
<1>1. PICK o \in DoRead(t, fed, e, finish, Key) :
         /\ o.res \notin Faults /\ ~Overflows(t, o)
         /\ emsg' = o.res
         /\ analyzed' = (analyzed \/ Learns(t, o))
         /\ PacketAccepts(t, o) \/ PacketRejects(t, o)
  BY Zenon DEF EnterPacket
<1>2. /\ OutcomeOK(o) /\ o.rd.made
      /\ o.res = "Success" => t = "ESK" /\ o.out = <<>>
  <2>1. e \in Results /\ finish \in BOOLEAN /\ t \in ReaderTypes
    BY DEF EnterPacket, FullInv, IInv, TypeOK, Results, Errors
  <2>2. fed \in Reader
    BY <2>1, PacketReaderType DEF FullInv, IInv
  <2>3. r.made
    BY <2>1 DEF GetOrCreatePacket, IsNew, NoReader
  <2>4. fed.made
    BY <2>3, AtStays
  <2> HIDE DEF fed, e, r, t
  <2>5. Stays(fed, o)
    BY <1>1, <2>1, DoReadStays
  <2>6. OutcomeOK(o) /\ (o.res = "Success" => t = "ESK")
    BY <1>1, <2>1, <2>2, DoReadType
  <2> QED
    BY <2>4, <2>5, <2>6 DEF Stays
<1> HIDE DEF e, r, fed
<1>3. /\ pc = "running" /\ st \notin {"Start", "Init"} /\ AtWork
      /\ it \in Known /\ it \in 1..ChainMax /\ t = chain[it]
      /\ t \in ReaderTypes /\ EndIt = ChainMax + 1 /\ ChainMax \in Nat
      /\ Known \subseteq 1..ChainMax
  <2>1. pc = "running" /\ st \in {"Armor", "Header", "Packet", "FinishPacket"}
        /\ it # EndIt /\ Current # "Unknown"
    BY EntersFrom, PacketFrom DEF EnterPacket, FullInv, IInv, CanEnter, PacketCanEnter
  <2> QED
    BY <2>1, OnKnown, Places DEF AtWork, EnterPacket, Current, FullInv, IInv
<1> HIDE DEF t
<1>4. /\ UNCHANGED <<scn, pos, pc, call, finish, armor, header, returned>>
      /\ finish \in BOOLEAN
  BY Places DEF EnterPacket, FullInv, IInv
<1>5. /\ ~finish => \A i \in Known : i < it => BeenRead(i)
      /\ finish => \A i \in Known : it <= i
  BY <1>3 DEF FullInv, ChainInv, IteratorInv
<1>6. Popped = <<>> /\ <<>> \in Seq(Seq(Cell))
      /\ o.rd.in \in Seq(Cell) /\ o.out \in Seq(Cell)
  <2>1. o.rd \in Reader /\ o.out \in Seq(Cell)
    BY <1>2 DEF OutcomeOK
  <2> QED
    BY <2>1, StackType, FieldsType DEF FullInv, IInv, ControlInv
<1>7. CASE PacketRejects(t, o)
  <2>1. /\ stack' = <<>> /\ st' = "Fail" /\ failed'
        /\ readers' = [readers EXCEPT ![t] = o.rd]
        /\ UNCHANGED <<chain, it, output>>
    BY <1>6, <1>7 DEF PacketRejects, Settle
  <2>2. Known' = Known
    BY <2>1 DEF Known
  <2>3. \A i \in Known :
           /\ BeenRead(i) => BeenRead(i)'
           /\ chain'[i] \in ReaderTypes /\ ~readers'[chain'[i]].made =>
                 chain[i] \in ReaderTypes /\ ~readers[chain[i]].made
    BY <1>2, <1>3, <2>1, ReadersGoOn DEF FullInv, IInv
  <2>4. NestInv'
    BY <1>4, <2>1, <2>2, <2>3 DEF NestInv, FullInv, ChainInv
  <2>5. IteratorInv'
    BY <2>1 DEF IteratorInv, AtWork
  <2>6. BufferInv'
    BY <1>3, <1>4, <2>1, BufferKeeps DEF FullInv, ChainInv
  <2> QED
    BY <2>1, <2>4, <2>5, <2>6 DEF ChainInv, FailIsReported
<1>8. CASE PacketAccepts(t, o)
  <2> DEFINE success == o.res = "Success"
             chain1  == IF success THEN [chain EXCEPT ![it] = "Unknown"] ELSE chain
             stack1  == IF success THEN PushIf(Popped, o.rd.in) ELSE Popped
             reader1 == IF success THEN At(o.rd, o.rd.step, <<>>, o.rd.held) ELSE o.rd
  <2>1. /\ chain' = chain1
        /\ stack' = IF Passes(t, o) THEN Push(stack1, o.out) ELSE stack1
        /\ readers' = [readers EXCEPT ![t] = reader1]
        /\ st' = "Packet" /\ ~failed'
    BY <1>8 DEF PacketAccepts, Settle
  <2>2. IF Passes(t, o) THEN it' = (IF finish THEN it ELSE it + 1)
        ELSE IF success /\ o.out = <<>>
        THEN /\ it' \in 1..EndIt
             /\ \A i \in 1..(it' - 1) : chain1[i] # "Unknown"
             /\ it' # EndIt => chain1[it'] = "Unknown"
        ELSE UNCHANGED it
    BY <1>8 DEF PacketAccepts, Advance
  <2>3. success => ~Passes(t, o)
    BY <1>2 DEF Passes
  <2>4. reader1.made
    BY <1>2, AtStays
  <2> HIDE DEF reader1
  <2>5. finish /\ pos > 0 /\ stack' # <<>> => Head(stack') # <<>>
    <3>1. PushIf(Popped, o.rd.in) = IF o.rd.in = <<>> THEN <<>> ELSE <<o.rd.in>>
      BY <1>6, PushType
    <3>2. CASE Passes(t, o)
      <4>1. stack' = Push(<<>>, o.out) /\ o.out # <<>>
        BY <1>6, <2>1, <2>3, <3>2 DEF Passes
      <4>2. stack' = <<o.out>>
        BY <1>6, <4>1, PushType
      <4> QED
        BY <4>1, <4>2, SingleLen
    <3>3. CASE ~Passes(t, o)
      BY <1>6, <2>1, <3>1, <3>3, SingleLen
    <3> QED
      BY <3>2, <3>3
  <2>6. BufferInv'
    BY <1>3, <1>4, <2>1, <2>5, BufferKeeps DEF FullInv, ChainInv
  <2>7. FailIsReported'
    BY <2>1 DEF FailIsReported
  <2>8. CASE ~success
    <3>1. chain' = chain /\ (it' = it \/ (it' = it + 1 /\ ~finish /\ Passes(t, o)))
      BY <2>1, <2>2, <2>8
    <3>2. Known' = Known
      BY <3>1 DEF Known
    <3>3. \A i \in Known :
             /\ BeenRead(i) => BeenRead(i)'
             /\ chain'[i] \in ReaderTypes /\ ~readers'[chain'[i]].made =>
                   chain[i] \in ReaderTypes /\ ~readers[chain[i]].made
      BY <1>3, <2>1, <2>4, <3>1, ReadersGoOn DEF FullInv, IInv
    <3>4. PICK p \in 1..ChainMax : p = it
      BY <1>3
    <3>5. Made(p)' /\ (BeenRead(p)' <=> ~IsFinalPacket(chain[p]))
      <4>1. Made(p)'
        BY <1>3, <2>1, <2>4, <3>1, <3>4, ReadersGoOn DEF FullInv, IInv
      <4> QED
        BY <3>1, <4>1 DEF BeenRead
    <3>6. NestInv'
      BY <1>4, <2>1, <3>1, <3>2, <3>3 DEF NestInv, FullInv, ChainInv
    <3>7. IteratorInv'
      <4>1. ~finish => it' = 1 \/ it' - 1 \in Known
        BY <1>3, <3>1 DEF FullInv, ChainInv, IteratorInv
      <4>2. ASSUME ~finish, NEW i \in Known, i < it' PROVE BeenRead(i)'
        <5>1. CASE i < it
          BY <1>5, <3>3, <4>2, <5>1
        <5>2. CASE ~(i < it)
          <6>1. i = p /\ Passes(t, o)
            BY <1>3, <3>1, <3>4, <4>2, <5>2
          <6> QED
            BY <1>3, <3>4, <3>5, <6>1 DEF Passes
        <5> QED
          BY <5>1, <5>2
      <4>3. finish => it' = p
        BY <3>1, <3>4
      <4>4. finish => (\A i \in Known : p <= i) /\ p \in Known
        BY <1>3, <1>5, <3>4
      <4>5. finish' = finish /\ st' = "Packet"
        BY <1>4, <2>1
      <4> HIDE DEF Known
      <4> QED
        BY <3>2, <3>5, <4>1, <4>2, <4>3, <4>4, <4>5 DEF IteratorInv, Made
    <3> QED
      BY <2>6, <2>7, <3>6, <3>7 DEF ChainInv
  <2>9. CASE success
    <3>1. /\ chain' = [chain EXCEPT ![it] = "Unknown"] /\ chain[it] = "ESK"
          /\ it' \in 1..EndIt /\ \A i \in 1..(it' - 1) : chain'[i] # "Unknown"
      BY <1>2, <1>3, <2>1, <2>2, <2>3, <2>9
    <3>2. /\ Known' = Known \ {it}
          /\ \A i \in 1..ChainMax : i # it => chain'[i] = chain[i]
      BY <1>3, <3>1, PlaceSet DEF FullInv, IInv
    <3>3. \A i \in Known : i <= it
      <4>1. ~BeenRead(it)
        BY <3>1 DEF BeenRead, IsFinalPacket
      <4>2. ASSUME NEW i \in Known, ~(i <= it) PROVE FALSE
        <5>1. i \in 1..ChainMax /\ it < i
          BY <1>3, <4>2
        <5> QED
          BY <1>3, <4>1, <5>1 DEF FullInv, ChainInv, NestInv
      <4> QED
        BY <4>2
    <3>4. \A i \in Known' : /\ i \in Known /\ i \in 1..ChainMax /\ i < it
                            /\ chain'[i] = chain[i]
      <4>1. SUFFICES ASSUME NEW i \in Known'
                     PROVE  /\ i \in Known /\ i \in 1..ChainMax /\ i < it
                            /\ chain'[i] = chain[i]
        OBVIOUS
      <4>2. i \in Known /\ i # it
        BY <3>2
      <4>3. i \in 1..ChainMax /\ i <= it
        BY <1>3, <3>3, <4>2
      <4> QED
        BY <1>3, <3>2, <4>2, <4>3
    <3>5. \A i \in Known' :
             /\ BeenRead(i)'
             /\ chain'[i] \in ReaderTypes /\ ~readers'[chain'[i]].made =>
                   chain[i] \in ReaderTypes /\ ~readers[chain[i]].made
      <4>1. SUFFICES ASSUME NEW i \in Known'
                     PROVE  /\ BeenRead(i)'
                            /\ chain'[i] \in ReaderTypes /\ ~readers'[chain'[i]].made =>
                                  chain[i] \in ReaderTypes /\ ~readers[chain[i]].made
        OBVIOUS
      <4>2. i \in Known /\ i \in 1..ChainMax /\ chain'[i] = chain[i] /\ i < it
        BY <3>4
      <4>3. BeenRead(i)
        BY <1>3, <4>2 DEF FullInv, ChainInv, NestInv
      <4> QED
        BY <1>3, <2>1, <2>4, <4>2, <4>3, ReadersGoOn DEF FullInv, IInv
    <3>6. NestInv'
      <4>1. \A i, j \in Known' : \A k \in i..j : k \in Known'
        <5>1. SUFFICES ASSUME NEW i \in Known', NEW j \in Known', NEW k \in i..j
                       PROVE  k \in Known /\ k # it
          BY <3>2
        <5>2. i \in Known /\ j \in Known /\ j < it /\ j \in 1..ChainMax
          BY <3>4
        <5>3. k \in Known
          BY <5>2 DEF FullInv, ChainInv, NestInv
        <5> QED
          BY <1>3, <5>2, <5>3
      <4>2. ~finish => Known' = {} \/ 1 \in Known'
        <5>1. SUFFICES ASSUME ~finish, 1 \notin Known', NEW i \in Known' PROVE FALSE
          OBVIOUS
        <5>2. i \in Known /\ i \in 1..ChainMax /\ i < it
          BY <3>4
        <5>3. 1 \in Known
          BY <5>1, <5>2 DEF FullInv, ChainInv, NestInv
        <5> QED
          BY <1>3, <3>2, <5>1, <5>2, <5>3
      <4> QED
        BY <1>4, <2>1, <3>4, <3>5, <4>1, <4>2 DEF NestInv, FullInv, ChainInv
    <3>7. IteratorInv'
      <4>1. it' = 1 \/ it' - 1 \in Known'
        <5>1. SUFFICES ASSUME it' # 1 PROVE it' - 1 \in Known'
          OBVIOUS
        <5>2. it' \in 1..(ChainMax + 1)
          BY <1>3, <3>1
        <5>3. it' - 1 \in 1..(it' - 1) /\ it' - 1 \in 1..ChainMax
          <6>1. \A q \in 1..(ChainMax + 1) :
                   q # 1 => q - 1 \in 1..(q - 1) /\ q - 1 \in 1..ChainMax
            BY <1>3
          <6> QED
            BY <5>1, <5>2, <6>1
        <5> QED
          BY <3>1, <5>3 DEF Known
      <4>2. finish => Known' = {}
        <5>1. SUFFICES ASSUME finish, NEW i \in Known' PROVE FALSE
          OBVIOUS
        <5>2. i \in Known /\ i \in 1..ChainMax /\ i < it
          BY <3>4
        <5> QED
          BY <1>3, <1>5, <5>1, <5>2
      <4> QED
        BY <1>4, <2>1, <3>5, <4>1, <4>2 DEF IteratorInv
    <3> QED
      BY <2>6, <2>7, <3>6, <3>7 DEF ChainInv
  <2> QED
    BY <2>8, <2>9
<1> QED
  BY <1>1, <1>7, <1>8

-----------------------------------------------------------------------------
(* The theorems.                                                           *)

\* Every step keeps the chain invariant.
LEMMA StepKeepsChain == ASSUME FullInv, [Next]_vars PROVE ChainInv'
<1>1. CASE Step
  <2>1. EnterHeader => ChainInv'
    BY HeaderChain
  <2>2. EnterPacket => ChainInv'
    BY PacketChain
  <2> QED
    BY <1>1, <2>1, <2>2, InitChain, ArmorDisabledChain, ArmorChain, PacketFaultsChain,
       FinishPacketChain, BufferEmptyChain, EndChain, FailChain, ThrowChain, ReturnChain, Zenon
    DEF Step
<1>2. CASE Update \/ FinishWithData \/ FinishWithoutData
  BY <1>2, CallChain
<1>3. CASE UNCHANGED vars
  <2>1. UNCHANGED <<scn, pos, pc, call, st, failed, finish, stack, chain, it, armor,
                    header, readers>>
    BY <1>3 DEF vars, session
  <2>2. NestInv'
    BY <2>1 DEF NestInv, Known, BeenRead, Made, FullInv, ChainInv
  <2>3. IteratorInv'
    BY <2>1 DEF IteratorInv, AtWork, Known, BeenRead, Made, FullInv, ChainInv
  <2>4. BufferInv' /\ FailIsReported'
    BY <2>1 DEF BufferInv, FailIsReported, FullInv, ChainInv
  <2> QED
    BY <2>2, <2>3, <2>4 DEF ChainInv
<1> QED
  BY <1>1, <1>2, <1>3, Zenon DEF Next

\* The chain invariant holds in every behaviour.
LEMMA ChainInvariance == Spec => []FullInv
<1>1. Init => FullInv
  BY TypeInit, ChainInit DEF FullInv
<1>2. FullInv /\ [Next]_vars => FullInv'
  BY StepKeepsInv, StepKeepsChain DEF FullInv
<1> QED
  BY <1>1, <1>2, PTL DEF Spec

\* PacketOnEnter builds a new reader only for the header that was read last,
\* and FinishOnEnter finishes only packets that were read: the asserts of both
\* hold for every message in every cut.
THEOREM HeadersMatch == Spec => []HeaderMatchesPacket
<1>1. ASSUME FullInv PROVE HeaderMatchesPacket
  <2>1. TypeOK
    BY <1>1 DEF FullInv, IInv
  <2>2. ASSUME Enters("Packet"), Current \in ReaderTypes, IsNew(Current)
        PROVE  header.type = Current
    <3>1. it \in Known
      BY <2>1, <2>2, EntersFrom, OnKnown DEF CanEnter, PacketCanEnter
    <3>2. Current = chain[it]
      BY <2>1, <3>1, Places DEF Current
    <3> QED
      BY <1>1, <2>2, <3>1, <3>2 DEF FullInv, ChainInv, NestInv, IsNew
  <2>3. ASSUME Enters("FinishPacket")
        PROVE  Current \in ReaderTypes /\ readers[Current].made
    <3>1. pc = "running" /\ st = "Packet" /\ finish /\ Current # "Unknown"
      BY <2>1, <2>3, EntersFrom DEF CanEnter, FinishCanEnter
    <3>2. it \in Known
      BY <1>1, <2>1, <3>1, OnKnown DEF FullInv, IInv, ControlInv
    <3>3. Current = chain[it]
      BY <2>1, <3>2, Places DEF Current
    <3> QED
      BY <1>1, <3>1, <3>2, <3>3 DEF FullInv, ChainInv, IteratorInv, Made
  <2> QED
    BY <2>2, <2>3 DEF HeaderMatchesPacket
<1> QED
  BY <1>1, ChainInvariance, PTL

\* NextState always has a link to follow, so that the machine gets to Fail
\* only when a handler has set failed, and the call throws.  The one exception
\* is a Finish after nothing was fed.
THEOREM FailuresReported == Spec => []FailIsReported
<1>1. FullInv => FailIsReported
  BY DEF FullInv, ChainInv
<1> QED
  BY <1>1, ChainInvariance, PTL

-----------------------------------------------------------------------------
(* Counting octets.  A set of octets that lasts is one that taking off a   *)
(* layer does not add to: all octets of one kind and number in any layer,  *)
(* as long as they are not the junk that a missing layer gives.            *)

OfKind(k, v) == {c \in Cell : c.kind = k /\ c.val = v}
Lasting(C) == \A s \in Seq(Cell) : HowMany(Peel(s), C) <= HowMany(s, C)

\* What Copies counts.
LEMMA CopiesIs ==
    ASSUME NEW w \in Seq(Cell), NEW k, NEW v
    PROVE  Cardinality(Copies(w, k, v)) = HowMany(w, OfKind(k, v))
<1>1. \A i \in DOMAIN w : w[i] \in Cell
  BY LenProperties, ElementOfSeq
<1>2. Copies(w, k, v) = Where(w, OfKind(k, v))
  BY <1>1 DEF Copies, Where, OfKind
<1> QED
  BY <1>2 DEF HowMany

\* Octets keep their kind and number when a layer is taken off.
LEMMA KindsLast ==
    ASSUME NEW k, k # "junk", NEW v
    PROVE  Lasting(OfKind(k, v))
<1> DEFINE C == OfKind(k, v)
<1>1. SUFFICES ASSUME NEW s \in Seq(Cell) PROVE HowMany(Peel(s), C) <= HowMany(s, C)
  BY DEF Lasting
<1>2. Peel(s) \in Seq(Cell) /\ Len(Peel(s)) = Len(s)
  BY PeelType
<1>3. \A i \in 1..Len(s) : Peel(s)[i] \in C => s[i] \in C
  <2>1. SUFFICES ASSUME NEW i \in 1..Len(s), Peel(s)[i] \in C PROVE s[i] \in C
    OBVIOUS
  <2>2. s[i] \in Cell /\ DOMAIN s = 1..Len(s)
    BY LenProperties, ElementOfSeq
  <2>3. Peel(s)[i] = IF s[i].depth > 0 THEN [s[i] EXCEPT !.depth = @ - 1] ELSE Junk
    BY <2>2 DEF Peel
  <2>4. Junk \notin C
    BY DEF OfKind, Junk
  <2>5. [s[i] EXCEPT !.depth = @ - 1].kind = s[i].kind
        /\ [s[i] EXCEPT !.depth = @ - 1].val = s[i].val
    BY <2>2 DEF Cell
  <2> QED
    BY <2>1, <2>2, <2>3, <2>4, <2>5 DEF OfKind
<1> HIDE DEF C
<1> QED
  BY <1>2, <1>3, HowManyMap

\* What a prefix and the rest hold.
LEMMA TakeDropFewer ==
    ASSUME NEW s \in Seq(Cell), NEW n \in 0..Len(s), NEW C
    PROVE  HowMany(Take(s, n), C) + HowMany(Drop(s, n), C) <= HowMany(s, C)
<1>1. Len(s) \in Nat /\ Len(s) \in n..Len(s)
  BY LenProperties
<1> QED
  BY <1>1, HowManyCut DEF Take, Drop

\* What is left of a sequence holds no more, however much is dropped.
LEMMA DropFewer ==
    ASSUME NEW s \in Seq(Cell), NEW n \in Nat, NEW C
    PROVE  /\ Drop(s, n) \in Seq(Cell) /\ HowMany(Drop(s, n), C) <= HowMany(s, C)
           /\ HowMany(Drop(s, n), C) \in Nat
<1>1. Len(s) \in Nat
  BY LenProperties
<1>2. CASE n <= Len(s)
  <2>1. n \in 0..Len(s)
    BY <1>1, <1>2
  <2>2. Take(s, n) \in Seq(Cell) /\ Drop(s, n) \in Seq(Cell)
    BY <2>1, TakeType
  <2>3. HowMany(Take(s, n), C) \in Nat /\ HowMany(Drop(s, n), C) \in Nat
        /\ HowMany(s, C) \in Nat
    BY <2>2, HowManyType
  <2>4. HowMany(Take(s, n), C) + HowMany(Drop(s, n), C) <= HowMany(s, C)
    BY <2>1, TakeDropFewer
  <2> QED
    BY <2>2, <2>3, <2>4
<1>3. CASE n > Len(s)
  <2>1. Drop(s, n) = <<>>
    BY <1>1, <1>3, SubSeqEmpty DEF Drop
  <2>2. <<>> \in Seq(Cell)
    OBVIOUS
  <2>3. HowMany(<<>>, C) = 0 /\ HowMany(s, C) \in Nat
    BY <2>2, HowManyType
  <2> QED
    BY <2>1, <2>2, <2>3
<1> QED
  BY <1>1, <1>2, <1>3

\* The octets behind a prefix.
LEMMA DropIs ==
    ASSUME NEW s \in Seq(Cell), NEW n \in 0..Len(s)
    PROVE  /\ Drop(s, n) \in Seq(Cell) /\ Len(Drop(s, n)) = Len(s) - n
           /\ \A i \in 1..Len(Drop(s, n)) : Drop(s, n)[i] = s[n + i]
<1> DEFINE u == SubSeq(s, n + 1, Len(s))
<1>1. Len(s) \in Nat /\ n \in Nat /\ n + 1 \in Int /\ n <= Len(s)
  BY LenProperties
<1>2. \A i \in (n + 1)..Len(s) : s[i] \in Cell
  BY <1>1, ElementOfSeq
<1>3. /\ u \in Seq(Cell) /\ Len(u) = IF n + 1 <= Len(s) THEN Len(s) - (n + 1) + 1 ELSE 0
      /\ \A i \in 1..(Len(s) - (n + 1) + 1) : u[i] = s[(n + 1) + i - 1]
  BY <1>1, <1>2, SubSeqProperties
<1> HIDE DEF u
<1>4. Len(u) = Len(s) - n
  BY <1>1, <1>3
<1>5. \A i \in 1..(Len(s) - n) : i \in 1..(Len(s) - (n + 1) + 1) /\ (n + 1) + i - 1 = n + i
  BY <1>1
<1>6. \A i \in 1..Len(u) : u[i] = s[n + i]
  BY <1>3, <1>4, <1>5
<1> QED
  BY <1>3, <1>4, <1>6 DEF u, Drop

\* The octets behind the first one.
LEMMA TailFewer ==
    ASSUME NEW s \in Seq(Cell), s # <<>>, NEW C
    PROVE  Tail(s) \in Seq(Cell) /\ HowMany(Tail(s), C) <= HowMany(s, C)
<1>1. Tail(s) = Drop(s, 1)
  BY TailIsSubSeq DEF Drop
<1> QED
  BY <1>1, DropFewer

\* The first octet is gone from the tail.
LEMMA FirstCounts ==
    ASSUME NEW s \in Seq(Cell), s # <<>>, NEW C, s[1] \in C
    PROVE  HowMany(Tail(s), C) + 1 <= HowMany(s, C)
<1> DEFINE one == SubSeq(s, 1, 1)
           rest == SubSeq(s, 2, Len(s))
<1>1. Len(s) \in Nat /\ 1 \in 0..Len(s) /\ Len(s) \in 1..Len(s)
  BY LenProperties, EmptySeq
<1>2. s[1] \in Cell
  BY <1>1, ElementOfSeq
<1>3. one \in Seq(Cell) /\ Len(one) = 1 /\ one[1] = s[1]
  BY <1>1, <1>2, SubSeqProperties
<1>4. rest = Tail(s) /\ rest \in Seq(Cell)
  BY TailIsSubSeq, TailFewer
<1>5. HowMany(one, C) + HowMany(rest, C) <= HowMany(s, C)
  BY <1>1, HowManyCut
<1> HIDE DEF one, rest
<1>6. HowMany(one, C) # 0 /\ HowMany(one, C) \in Nat
  <2>1. 1 \in Where(one, C)
    BY <1>3, HowManyType
  <2> QED
    BY <1>3, <2>1, HowManyType, FS_EmptySet DEF HowMany
<1>7. HowMany(rest, C) \in Nat /\ HowMany(s, C) \in Nat
  BY <1>4, HowManyType
<1> HIDE DEF HowMany
<1> QED
  BY <1>4, <1>5, <1>6, <1>7

-----------------------------------------------------------------------------
(* What a reader gives out and keeps is no more than what it had.          *)

Load(r, C) == HowMany(r.in, C) + HowMany(r.held, C)
Keeps(r, o, C) == Load(o.rd, C) + HowMany(o.out, C) <= Load(r, C)

\* The load of a reader is a number, that of a new one is none.
LEMMA LoadType ==
    ASSUME NEW C
    PROVE  /\ \A r \in Reader : Load(r, C) \in Nat
           /\ Load(NoReader, C) = 0
           /\ HowMany(<<>>, C) = 0
<1>1. <<>> \in Seq(Cell)
  OBVIOUS
<1>2. HowMany(<<>>, C) = 0
  BY <1>1, HowManyType
<1>3. \A r \in Reader : Load(r, C) \in Nat
  <2>1. ASSUME NEW r \in Reader PROVE Load(r, C) \in Nat
    <3>1. HowMany(r.in, C) \in Nat /\ HowMany(r.held, C) \in Nat
      BY FieldsType, HowManyType
    <3> QED
      BY <3>1 DEF Load
  <2> QED
    BY <2>1
<1> QED
  BY <1>2, <1>3 DEF Load, NoReader

LEMMA AtLoad ==
    ASSUME NEW r, NEW step, NEW in, NEW held, NEW C
    PROVE  Load(At(r, step, in, held), C) = HowMany(in, C) + HowMany(held, C)
  BY DEF Load, At

LEMMA RejectKeeps ==
    ASSUME NEW r, NEW C, NEW rd \in Reader, Load(rd, C) <= Load(r, C), NEW res
    PROVE  \A o \in Reject(res, rd) : Keeps(r, o, C)
<1>1. Load(rd, C) \in Nat /\ HowMany(<<>>, C) = 0
  BY LoadType
<1> QED
  BY <1>1 DEF Reject, Outcome, Keeps

LEMMA PendingKeeps ==
    ASSUME NEW r, NEW C, NEW rd, NEW out, Load(rd, C) + HowMany(out, C) <= Load(r, C)
    PROVE  \A o \in Pending(out, rd) : Keeps(r, o, C)
  BY DEF Pending, Outcome, Keeps

\* A reader that has read nothing.
LEMMA IdleKeeps ==
    ASSUME NEW r \in Reader, NEW C, NEW res
    PROVE  /\ \A o \in Reject(res, r) : Keeps(r, o, C)
           /\ \A o \in Pending(<<>>, r) : Keeps(r, o, C)
<1>1. Load(r, C) \in Nat /\ HowMany(<<>>, C) = 0
  BY LoadType
<1> QED
  BY <1>1, RejectKeeps, PendingKeeps

\* A reader that has read an octet and answers for the rest: it still has no
\* more than before.
LEMMA OpenedKeeps ==
    ASSUME NEW r \in Reader, r.in # <<>>, NEW step \in 0..2, NEW C
    PROVE  /\ At(r, step, Tail(r.in), r.held) \in Reader
           /\ Load(At(r, step, Tail(r.in), r.held), C) <= Load(r, C)
<1> DEFINE opened == At(r, step, Tail(r.in), r.held)
<1>1. r.in \in Seq(Cell) /\ r.held \in Seq(Cell)
  BY FieldsType
<1>2. Tail(r.in) \in Seq(Cell) /\ HowMany(Tail(r.in), C) <= HowMany(r.in, C)
  BY <1>1, TailFewer
<1>3. opened \in Reader
  BY <1>1, <1>2, FieldsType DEF At, Reader
<1>5. Load(opened, C) = HowMany(Tail(r.in), C) + HowMany(r.held, C)
  BY AtLoad
<1>4. HowMany(Tail(r.in), C) \in Nat /\ HowMany(r.in, C) \in Nat /\ HowMany(r.held, C) \in Nat
  BY <1>1, <1>2, HowManyType
<1> HIDE DEF opened
<1>6. Load(opened, C) <= Load(r, C)
  BY <1>2, <1>4, <1>5 DEF Load
<1> QED
  BY <1>3, <1>6 DEF opened

\* What an outcome keeps of less it keeps of more.
LEMMA KeepsMore ==
    ASSUME NEW r \in Reader, NEW q \in Reader, NEW o, OutcomeOK(o), NEW C,
           Keeps(q, o, C), Load(q, C) <= Load(r, C)
    PROVE  Keeps(r, o, C)
<1>1. /\ Load(o.rd, C) \in Nat /\ HowMany(o.out, C) \in Nat
      /\ Load(q, C) \in Nat /\ Load(r, C) \in Nat
  BY LoadType, HowManyType DEF OutcomeOK
<1> QED
  BY <1>1 DEF Keeps

\* The session key packet keeps nothing.
LEMMA ReadESKKeeps ==
    ASSUME NEW r \in Reader, NEW C
    PROVE  \A o \in ReadESK(r) : Keeps(r, o, C)
<1> DEFINE rest == Drop(r.in, ESKLen)
           next(step) == At(r, step, rest, r.held)
<1>1. SUFFICES ASSUME NEW o \in ReadESK(r) PROVE Keeps(r, o, C)
  OBVIOUS
<1>2. \/ o \in Pending(<<>>, r)
      \/ o = Outcome("Success", <<>>, next(1))
      \/ \E res \in ESKErrors : o \in Reject(res, next(0))
  BY <1>1, Zenon DEF ReadESK
<1>3. r.in \in Seq(Cell) /\ r.held \in Seq(Cell) /\ ESKLen \in Nat
  BY FieldsType, LayoutAssumption DEF LayoutAssumption
<1>4. rest \in Seq(Cell) /\ HowMany(rest, C) <= HowMany(r.in, C)
  BY <1>3, DropFewer
<1> HIDE DEF rest
<1>5. /\ next(0) \in Reader /\ next(1) \in Reader
      /\ Load(next(0), C) = HowMany(rest, C) + HowMany(r.held, C)
      /\ Load(next(1), C) = HowMany(rest, C) + HowMany(r.held, C)
  BY <1>3, <1>4, AtLoad DEF At, Reader
<1> HIDE DEF next
<1>6. HowMany(rest, C) \in Nat /\ HowMany(r.held, C) \in Nat /\ HowMany(r.in, C) \in Nat
      /\ HowMany(<<>>, C) = 0
  BY <1>3, <1>4, HowManyType, LoadType
<1>7. Load(next(0), C) <= Load(r, C) /\ Load(next(1), C) + 0 <= Load(r, C)
  BY <1>4, <1>5, <1>6 DEF Load
<1>8. o = Outcome("Success", <<>>, next(1)) => Keeps(r, o, C)
  BY <1>6, <1>7 DEF Outcome, Keeps
<1> QED
  BY <1>2, <1>5, <1>7, <1>8, IdleKeeps, RejectKeeps

\* The symmetric packet takes a layer off what it gives out.
LEMMA ReadSYMKeeps ==
    ASSUME NEW r \in Reader, NEW emsg0, NEW fin \in BOOLEAN, NEW key, NEW C, Lasting(C)
    PROVE  \A o \in ReadSYM(r, emsg0, fin, key) : Keeps(r, o, C)
<1> DEFINE skip == IF r.step = 0 THEN PrefixLen ELSE 0
           rest == Drop(r.in, skip)
           n    == IF fin THEN Len(rest) ELSE Whole(Len(rest))
           out  == Peel(Take(rest, n))
           bad  == At(r, 0, rest, r.held)
           next == At(r, 1, Drop(rest, n), r.held)
<1>1. SUFFICES ASSUME NEW o \in ReadSYM(r, emsg0, fin, key) PROVE Keeps(r, o, C)
  OBVIOUS
<1>2. \/ o \in Reject("InvalidPassphrase", r) \/ o \in Reject("Undefined", r)
      \/ o \in Pending(<<>>, r)
      \/ o \in Reject("InvalidSurrogateIV", bad)
      \/ o \in Pending(out, next)
  BY <1>1, Zenon DEF ReadSYM
<1>3. r.in \in Seq(Cell) /\ r.held \in Seq(Cell) /\ skip \in Nat
  BY FieldsType, LayoutAssumption DEF LayoutAssumption
<1>4. rest \in Seq(Cell) /\ HowMany(rest, C) <= HowMany(r.in, C) /\ Len(rest) \in Nat
  BY <1>3, DropFewer, LenProperties
<1> HIDE DEF rest
<1>5. n \in 0..Len(rest)
  BY <1>4, WholeType
<1> HIDE DEF n
<1>6. Take(rest, n) \in Seq(Cell) /\ Drop(rest, n) \in Seq(Cell)
      /\ HowMany(Take(rest, n), C) + HowMany(Drop(rest, n), C) <= HowMany(rest, C)
  BY <1>4, <1>5, TakeType, TakeDropFewer
<1>7. out \in Seq(Cell) /\ HowMany(out, C) <= HowMany(Take(rest, n), C)
  BY <1>6, PeelType DEF Lasting
<1> HIDE DEF out
<1>8. /\ bad \in Reader /\ Load(bad, C) = HowMany(rest, C) + HowMany(r.held, C)
      /\ Load(next, C) = HowMany(Drop(rest, n), C) + HowMany(r.held, C)
  BY <1>3, <1>4, AtLoad DEF At, Reader
<1> HIDE DEF bad, next
<1>9. /\ HowMany(rest, C) \in Nat /\ HowMany(r.held, C) \in Nat /\ HowMany(r.in, C) \in Nat
      /\ HowMany(out, C) \in Nat /\ HowMany(Drop(rest, n), C) \in Nat
      /\ HowMany(Take(rest, n), C) \in Nat
  BY <1>3, <1>4, <1>6, <1>7, HowManyType
<1>10. Load(bad, C) <= Load(r, C) /\ Load(next, C) + HowMany(out, C) <= Load(r, C)
  BY <1>4, <1>6, <1>7, <1>8, <1>9 DEF Load
<1> QED
  BY <1>2, <1>8, <1>10, IdleKeeps, RejectKeeps, PendingKeeps
\* The MDC window is part of what was decrypted, and of what it was before.
LEMMA ReadSEIPDBodyKeeps ==
    ASSUME NEW r \in Reader, NEW fin \in BOOLEAN, NEW key, NEW C, Lasting(C)
    PROVE  \A o \in ReadSEIPDBody(r, fin, key) : Keeps(r, o, C)
<1> DEFINE n      == SEIPDStep(Len(r.in), fin)
           buf    == Peel(Take(r.in, n))
           rest   == Drop(r.in, n)
           body   == IF r.step = 1 THEN Drop(buf, PrefixLen) ELSE buf
           window == r.held \o body
           cut    == Len(window) - MDCLen
           out    == Take(window, cut)
           bad    == At(r, r.step, rest, r.held)
           next   == At(r, 2, rest, Drop(window, cut))
<1>1. SUFFICES ASSUME NEW o \in ReadSEIPDBody(r, fin, key) PROVE Keeps(r, o, C)
  OBVIOUS
<1>2. \/ o \in Pending(<<>>, r) \/ o \in Reject("Undefined", r)
      \/ o \in Reject("InvalidSurrogateIV", bad)
      \/ ~(Len(window) < MDCLen) /\ o \in Pending(out, next)
  BY <1>1, Zenon DEF ReadSEIPDBody
<1>3. /\ r.in \in Seq(Cell) /\ r.held \in Seq(Cell) /\ Len(r.in) \in Nat
      /\ PrefixLen \in Nat /\ MDCLen \in Nat
  BY FieldsType, LenProperties, LayoutAssumption DEF LayoutAssumption
<1>4. n \in 0..Len(r.in)
  BY <1>3, SEIPDStepType
<1> HIDE DEF n
<1>5. /\ Take(r.in, n) \in Seq(Cell) /\ rest \in Seq(Cell)
      /\ HowMany(Take(r.in, n), C) + HowMany(rest, C) <= HowMany(r.in, C)
  BY <1>3, <1>4, TakeType, TakeDropFewer
<1> HIDE DEF rest
<1>6. buf \in Seq(Cell) /\ HowMany(buf, C) <= HowMany(Take(r.in, n), C)
  BY <1>5, PeelType DEF Lasting
<1> HIDE DEF buf
<1>7. body \in Seq(Cell) /\ HowMany(body, C) <= HowMany(buf, C)
  <2>1. HowMany(buf, C) \in Nat
    BY <1>6, HowManyType
  <2>2. Drop(buf, PrefixLen) \in Seq(Cell) /\ HowMany(Drop(buf, PrefixLen), C) <= HowMany(buf, C)
    BY <1>3, <1>6, DropFewer
  <2> QED
    BY <1>6, <2>1, <2>2
<1> HIDE DEF body
<1>8. window \in Seq(Cell) /\ HowMany(window, C) <= HowMany(r.held, C) + HowMany(body, C)
      /\ Len(window) \in Nat
  <2>1. window \in Seq(Cell)
    BY <1>3, <1>7, ConcatProperties
  <2> QED
    BY <1>3, <1>7, <2>1, HowManyConcat, LenProperties
<1> HIDE DEF window
<1>9. /\ HowMany(rest, C) \in Nat /\ HowMany(r.held, C) \in Nat /\ HowMany(r.in, C) \in Nat
      /\ HowMany(body, C) \in Nat /\ HowMany(buf, C) \in Nat /\ HowMany(window, C) \in Nat
      /\ HowMany(Take(r.in, n), C) \in Nat
  BY <1>3, <1>5, <1>6, <1>7, <1>8, HowManyType
<1>10. bad \in Reader /\ Load(bad, C) <= Load(r, C)
  <2>1. bad \in Reader /\ Load(bad, C) = HowMany(rest, C) + HowMany(r.held, C)
    BY <1>3, <1>5, AtLoad, FieldsType DEF At, Reader
  <2> QED
    BY <1>5, <1>9, <2>1 DEF Load
<1>11. ASSUME ~(Len(window) < MDCLen) PROVE Load(next, C) + HowMany(out, C) <= Load(r, C)
  <2>1. cut \in 0..Len(window)
    BY <1>3, <1>8, <1>11
  <2> HIDE DEF cut
  <2>2. /\ out \in Seq(Cell) /\ Drop(window, cut) \in Seq(Cell)
        /\ HowMany(out, C) + HowMany(Drop(window, cut), C) <= HowMany(window, C)
    BY <1>8, <2>1, TakeType, TakeDropFewer
  <2>3. Load(next, C) = HowMany(rest, C) + HowMany(Drop(window, cut), C)
    BY AtLoad
  <2> HIDE DEF out, next
  <2>4. HowMany(out, C) \in Nat /\ HowMany(Drop(window, cut), C) \in Nat
    BY <2>2, HowManyType
  <2>5. Load(r, C) = HowMany(r.in, C) + HowMany(r.held, C)
    BY DEF Load
  <2>6. HowMany(window, C) <= HowMany(r.held, C) + HowMany(Take(r.in, n), C)
    BY <1>6, <1>7, <1>8, <1>9
  <2>7. /\ HowMany(out, C) + HowMany(Drop(window, cut), C) <= HowMany(window, C)
        /\ HowMany(Take(r.in, n), C) + HowMany(rest, C) <= HowMany(r.in, C)
    BY <1>5, <2>2
  <2> HIDE DEF HowMany
  <2>8. HowMany(rest, C) + HowMany(Drop(window, cut), C) + HowMany(out, C)
          <= HowMany(r.in, C) + HowMany(r.held, C)
    BY <1>9, <2>4, <2>6, <2>7
  <2> QED
    BY <2>3, <2>5, <2>8
<1> HIDE DEF bad, next, out
<1> QED
  BY <1>2, <1>10, <1>11, IdleKeeps, RejectKeeps, PendingKeeps

LEMMA ReadSEIPDKeeps ==
    ASSUME NEW r \in Reader, NEW emsg0, NEW fin \in BOOLEAN, NEW key, NEW C, Lasting(C)
    PROVE  \A o \in ReadSEIPD(r, emsg0, fin, key) : Keeps(r, o, C)
<1> DEFINE opened == At(r, 1, Tail(r.in), r.held)
<1>1. SUFFICES ASSUME NEW o \in ReadSEIPD(r, emsg0, fin, key) PROVE Keeps(r, o, C)
  OBVIOUS
<1>2. \/ o \in Reject("InvalidPassphrase", r) \/ o \in Reject("UnexpectedFormat", r)
      \/ o \in Reject("Undefined", r) \/ o \in ReadSEIPDBody(r, fin, key)
      \/ StartsWith(r.in, "version") /\ o \in ReadSEIPDBody(opened, fin, key)
  BY <1>1, Zenon DEF ReadSEIPD
<1>3. StartsWith(r.in, "version") => opened \in Reader /\ Load(opened, C) <= Load(r, C)
  BY OpenedKeeps DEF StartsWith
<1> HIDE DEF opened
<1>4. ASSUME StartsWith(r.in, "version"), o \in ReadSEIPDBody(opened, fin, key)
      PROVE  Keeps(r, o, C)
  <2>1. OutcomeOK(o)
    BY <1>3, <1>4, ReadSEIPDBodyType DEF NotDone
  <2> QED
    BY <1>3, <1>4, <2>1, ReadSEIPDBodyKeeps, KeepsMore
<1> QED
  BY <1>2, <1>4, ReadSEIPDBodyKeeps, IdleKeeps

\* What the decompressor keeps back it does not give out.
LEMMA InflateKeeps ==
    ASSUME NEW r \in Reader, NEW fin \in BOOLEAN, NEW C, Lasting(C)
    PROVE  \A o \in Inflate(r, fin) : Keeps(r, o, C)
<1> DEFINE all == r.held \o Peel(r.in)
           next(n) == At(r, 1, <<>>, Drop(all, n))
           last    == At(r, 2, <<>>, <<>>)
<1>1. SUFFICES ASSUME NEW o \in Inflate(r, fin) PROVE Keeps(r, o, C)
  OBVIOUS
<1>2. \/ o \in Pending(<<>>, r) \/ o \in Reject("Exception", r)
      \/ all # <<>> /\ o \in Pending(Front(all), last)
      \/ \E n \in 0..Len(all) : o \in Pending(Take(all, n), next(n))
  BY <1>1, Zenon DEF Inflate
<1>3. r.in \in Seq(Cell) /\ r.held \in Seq(Cell)
  BY FieldsType
<1>4. Peel(r.in) \in Seq(Cell) /\ HowMany(Peel(r.in), C) <= HowMany(r.in, C)
  BY <1>3, PeelType DEF Lasting
<1>5. all \in Seq(Cell)
      /\ HowMany(all, C) <= HowMany(r.held, C) + HowMany(Peel(r.in), C)
      /\ Len(all) \in Nat
  <2>1. all \in Seq(Cell)
    BY <1>3, <1>4, ConcatProperties
  <2> QED
    BY <1>3, <1>4, <2>1, HowManyConcat, LenProperties
<1> HIDE DEF all
<1>6. HowMany(all, C) <= Load(r, C)
  <2>1. /\ HowMany(all, C) \in Nat /\ HowMany(r.held, C) \in Nat
        /\ HowMany(Peel(r.in), C) \in Nat /\ HowMany(r.in, C) \in Nat
    BY <1>3, <1>4, <1>5, HowManyType
  <2> QED
    BY <1>4, <1>5, <2>1 DEF Load
<1>7. HowMany(<<>>, C) = 0 /\ HowMany(all, C) \in Nat /\ Load(r, C) \in Nat
  BY <1>5, LoadType, HowManyType
<1>8. ASSUME NEW n \in 0..Len(all)
      PROVE  Load(next(n), C) + HowMany(Take(all, n), C) <= Load(r, C)
  <2>1. /\ Take(all, n) \in Seq(Cell) /\ Drop(all, n) \in Seq(Cell)
        /\ HowMany(Take(all, n), C) + HowMany(Drop(all, n), C) <= HowMany(all, C)
    BY <1>5, TakeType, TakeDropFewer
  <2>2. HowMany(Take(all, n), C) \in Nat /\ HowMany(Drop(all, n), C) \in Nat
    BY <2>1, HowManyType
  <2>3. Load(next(n), C) = HowMany(<<>>, C) + HowMany(Drop(all, n), C)
    BY AtLoad
  <2> QED
    BY <1>6, <1>7, <2>1, <2>2, <2>3
<1>9. ASSUME all # <<>> PROVE Load(last, C) + HowMany(Front(all), C) <= Load(r, C)
  <2>1. Len(all) - 1 \in 0..Len(all) /\ Front(all) = Take(all, Len(all) - 1)
    BY <1>5, <1>9, EmptySeq DEF Front, Take
  <2>2. /\ Take(all, Len(all) - 1) \in Seq(Cell) /\ Drop(all, Len(all) - 1) \in Seq(Cell)
        /\ HowMany(Take(all, Len(all) - 1), C) + HowMany(Drop(all, Len(all) - 1), C)
             <= HowMany(all, C)
    BY <1>5, <2>1, TakeType, TakeDropFewer
  <2>3. HowMany(Front(all), C) \in Nat /\ HowMany(Drop(all, Len(all) - 1), C) \in Nat
    BY <2>1, <2>2, HowManyType
  <2>4. Load(last, C) = HowMany(<<>>, C) + HowMany(<<>>, C)
    BY AtLoad
  <2> QED
    BY <1>6, <1>7, <2>1, <2>2, <2>3, <2>4
<1> HIDE DEF next, last
<1> QED
  BY <1>2, <1>8, <1>9, IdleKeeps, PendingKeeps

LEMMA ReadCOMPKeeps ==
    ASSUME NEW r \in Reader, NEW fin \in BOOLEAN, NEW C, Lasting(C)
    PROVE  \A o \in ReadCOMP(r, fin) : Keeps(r, o, C)
<1> DEFINE opened == At(r, 1, Tail(r.in), r.held)
<1>1. SUFFICES ASSUME NEW o \in ReadCOMP(r, fin) PROVE Keeps(r, o, C)
  OBVIOUS
<1>2. \/ o \in Inflate(r, fin)
      \/ StartsWith(r.in, "algo") /\ o \in Inflate(opened, fin)
      \/ o \in Reject("UnsupportedCompressionAlgo", r)
  BY <1>1, Zenon DEF ReadCOMP
<1>3. StartsWith(r.in, "algo") => opened \in Reader /\ Load(opened, C) <= Load(r, C)
  BY OpenedKeeps DEF StartsWith
<1> HIDE DEF opened
<1>4. ASSUME StartsWith(r.in, "algo"), o \in Inflate(opened, fin) PROVE Keeps(r, o, C)
  <2>1. OutcomeOK(o)
    BY <1>3, <1>4, InflateType DEF NotDone
  <2> QED
    BY <1>3, <1>4, <2>1, InflateKeeps, KeepsMore
<1> QED
  BY <1>2, <1>4, InflateKeeps, IdleKeeps

\* The literal packet gives out its payload and keeps nothing of it.
LEMMA ReadLITNameKeeps ==
    ASSUME NEW r \in Reader, NEW C
    PROVE  \A o \in ReadLITName(r) : Keeps(r, o, C)
<1> DEFINE next == At(r, 2, <<>>, r.held)
<1>1. SUFFICES ASSUME NEW o \in ReadLITName(r) PROVE Keeps(r, o, C)
  OBVIOUS
<1>2. \/ o \in Pending(r.in, next) \/ o \in Pending(<<>>, r)
      \/ r.in # <<>> /\ o \in Pending(Tail(r.in), next)
  BY <1>1, Zenon DEF ReadLITName
<1>3. r.in \in Seq(Cell) /\ r.held \in Seq(Cell)
  BY FieldsType
<1>4. HowMany(r.in, C) \in Nat /\ HowMany(r.held, C) \in Nat /\ HowMany(<<>>, C) = 0
  BY <1>3, HowManyType, LoadType
<1>5. Load(next, C) = HowMany(<<>>, C) + HowMany(r.held, C)
  BY AtLoad
<1> HIDE DEF next
<1>6. Load(next, C) + HowMany(r.in, C) <= Load(r, C)
  BY <1>4, <1>5 DEF Load
<1>7. ASSUME r.in # <<>> PROVE Load(next, C) + HowMany(Tail(r.in), C) <= Load(r, C)
  <2>1. Tail(r.in) \in Seq(Cell) /\ HowMany(Tail(r.in), C) <= HowMany(r.in, C)
    BY <1>3, <1>7, TailFewer
  <2>2. HowMany(Tail(r.in), C) \in Nat
    BY <2>1, HowManyType
  <2> QED
    BY <1>4, <1>5, <2>1, <2>2 DEF Load
<1> QED
  BY <1>2, <1>6, <1>7, IdleKeeps, PendingKeeps

LEMMA ReadLITKeeps ==
    ASSUME NEW r \in Reader, NEW C
    PROVE  \A o \in ReadLIT(r) : Keeps(r, o, C)
<1> DEFINE next(step) == At(r, step, Tail(r.in), r.held)
<1>1. SUFFICES ASSUME NEW o \in ReadLIT(r) PROVE Keeps(r, o, C)
  OBVIOUS
<1>2. \/ o \in ReadLITName(r) \/ o \in Pending(<<>>, r)
      \/ r.in # <<>> /\ o \in ReadLITName(next(1))
      \/ r.in # <<>> /\ o \in Reject("UnexpectedFormat", next(0))
  BY <1>1, Zenon DEF ReadLIT
<1>3. r.in # <<>> => /\ next(0) \in Reader /\ Load(next(0), C) <= Load(r, C)
                     /\ next(1) \in Reader /\ Load(next(1), C) <= Load(r, C)
  BY OpenedKeeps
<1> HIDE DEF next
<1>4. ASSUME r.in # <<>>, o \in ReadLITName(next(1)) PROVE Keeps(r, o, C)
  <2>1. OutcomeOK(o)
    BY <1>3, <1>4, ReadLITNameType DEF NotDone
  <2> QED
    BY <1>3, <1>4, <2>1, ReadLITNameKeeps, KeepsMore
<1> QED
  BY <1>2, <1>3, <1>4, ReadLITNameKeeps, IdleKeeps, RejectKeeps

\* No reader gives out or keeps an octet it was not given.
LEMMA DoReadKeeps ==
    ASSUME NEW t \in ReaderTypes, NEW r \in Reader, NEW emsg0, NEW fin \in BOOLEAN,
           NEW key, NEW C, Lasting(C)
    PROVE  \A o \in DoRead(t, r, emsg0, fin, key) : Keeps(r, o, C)
<1>1. CASE t = "ESK"
  BY <1>1, ReadESKKeeps DEF DoRead
<1>2. CASE t = "SEIPD"
  BY <1>2, ReadSEIPDKeeps DEF DoRead
<1>3. CASE t = "SYM"
  BY <1>3, ReadSYMKeeps DEF DoRead
<1>4. CASE t = "COMP"
  BY <1>4, ReadCOMPKeeps DEF DoRead
<1>5. CASE t = "LIT"
  BY <1>5, ReadLITKeeps DEF DoRead
<1> QED
  BY <1>1, <1>2, <1>3, <1>4, <1>5 DEF ReaderTypes
-----------------------------------------------------------------------------
(* The octets of the session.  What was fed is in the buffer on the stack, *)
(* in the armor reader, in the header reader, in one packet's reader or    *)
(* with the caller, or it is gone: it is never in two of these places.     *)

Reading(C) == Load(readers["ESK"], C) + Load(readers["SEIPD"], C) + Load(readers["SYM"], C)
              + Load(readers["COMP"], C) + Load(readers["LIT"], C)
Waiting(C) == HowMany(Top, C) + HowMany(armor.buf, C) + HowMany(header.in, C)
Given(C)   == HowMany(output, C) + HowMany(returned, C)
Total(C)   == Waiting(C) + Reading(C) + Given(C)
Fed(C)     == HowMany(Take(scn.wire, pos), C)
CountInv == \A C : Lasting(C) => Total(C) <= Fed(C)

\* What a step adds to these places it was fed.
NoMore == \A C : Lasting(C) => Total(C)' + Fed(C) <= Total(C) + Fed(C)'

\* All of these are numbers.
LEMMA CountType ==
    ASSUME TypeOK, NEW C
    PROVE  /\ HowMany(Top, C) \in Nat /\ HowMany(armor.buf, C) \in Nat
           /\ HowMany(header.in, C) \in Nat
           /\ HowMany(output, C) \in Nat /\ HowMany(returned, C) \in Nat
           /\ \A t \in ReaderTypes : Load(readers[t], C) \in Nat
           /\ Waiting(C) \in Nat /\ Reading(C) \in Nat /\ Given(C) \in Nat
<1>1. /\ Top \in Seq(Cell) /\ armor.buf \in Seq(Cell) /\ header.in \in Seq(Cell)
      /\ output \in Seq(Cell) /\ returned \in Seq(Cell)
      /\ readers \in [ReaderTypes -> Reader]
  BY StackType DEF TypeOK
<1>2. \A t \in ReaderTypes : Load(readers[t], C) \in Nat
  BY <1>1, LoadType
<1>3. /\ HowMany(Top, C) \in Nat /\ HowMany(armor.buf, C) \in Nat
      /\ HowMany(header.in, C) \in Nat
      /\ HowMany(output, C) \in Nat /\ HowMany(returned, C) \in Nat
  BY <1>1, HowManyType
<1> QED
  BY <1>2, <1>3 DEF Waiting, Reading, Given, ReaderTypes

\* The sums are numbers, behind a step too.
Numbers == \A C : Waiting(C) \in Nat /\ Reading(C) \in Nat /\ Given(C) \in Nat
LEMMA CountNumbers == TypeOK => Numbers
  BY CountType DEF Numbers

LEMMA CountNext == TypeOK' => Numbers'
  BY CountNumbers, PTL

\* What was fed is a number as well.
LEMMA FedType ==
    ASSUME TypeOK, NEW C
    PROVE  Fed(C) \in Nat /\ Total(C) \in Nat
<1>1. scn.wire \in Seq(Cell) /\ pos \in 0..Len(scn.wire)
  BY ReaderAssumption DEF ReaderAssumption, TypeOK
<1>2. Take(scn.wire, pos) \in Seq(Cell)
  BY <1>1, TakeType
<1>3. Fed(C) \in Nat
  BY <1>2, HowManyType DEF Fed
<1> QED
  BY <1>3, CountType DEF Total

FedNumbers == \A C : Fed(C) \in Nat /\ Total(C) \in Nat
LEMMA FedNumbersHold == TypeOK => FedNumbers
  BY FedType DEF FedNumbers

LEMMA FedNext == TypeOK' => FedNumbers'
  BY FedNumbersHold, PTL

\* A step that adds to none of the sums and feeds nothing.
LEMMA CountKeeps ==
    ASSUME TypeOK, TypeOK', UNCHANGED <<scn, pos>>,
           \A C : Lasting(C) => Waiting(C)' + Reading(C)' + Given(C)'
                                  <= Waiting(C) + Reading(C) + Given(C)
    PROVE  NoMore
<1>1. SUFFICES ASSUME NEW C, Lasting(C)
               PROVE  Total(C)' + Fed(C) <= Total(C) + Fed(C)'
  BY DEF NoMore
<1>2. Total(C)' <= Total(C) /\ Fed(C)' = Fed(C)
  BY <1>1 DEF Total, Fed
<1>3. Total(C) \in Nat /\ Fed(C) \in Nat
  BY FedType
<1>4. Total(C)' \in Nat
  BY FedNext DEF FedNumbers
<1> QED
  BY <1>2, <1>3, <1>4

\* A step that leaves the octets where they are.
LEMMA QuietCount ==
    ASSUME TypeOK, TypeOK',
           UNCHANGED <<scn, pos, stack, armor, header, readers, output, returned>>
    PROVE  NoMore
<1>1. ASSUME NEW C
      PROVE  Waiting(C)' + Reading(C)' + Given(C)' <= Waiting(C) + Reading(C) + Given(C)
  <2>1. Waiting(C)' = Waiting(C) /\ Reading(C)' = Reading(C) /\ Given(C)' = Given(C)
    BY DEF Waiting, Reading, Given, Top
  <2>2. Waiting(C) \in Nat /\ Reading(C) \in Nat /\ Given(C) \in Nat
    BY CountType
  <2> QED
    BY <2>1, <2>2
<1> QED
  BY <1>1, CountKeeps

\* BufferEmptyOnEnter takes a buffer off.
LEMMA BufferEmptyCount ==
    ASSUME FullInv, TypeOK', EnterBufferEmpty PROVE NoMore
<1>1. /\ stack' = Popped
      /\ UNCHANGED <<scn, pos, armor, header, readers, output, returned>>
  BY DEF EnterBufferEmpty
<1>2. Top' = <<>>
  BY <1>1, StackType DEF FullInv, IInv, ControlInv, Top
<1>3. ASSUME NEW C
      PROVE  Waiting(C)' + Reading(C)' + Given(C)' <= Waiting(C) + Reading(C) + Given(C)
  <2>1. /\ Waiting(C)' = HowMany(<<>>, C) + HowMany(armor.buf, C) + HowMany(header.in, C)
        /\ Reading(C)' = Reading(C) /\ Given(C)' = Given(C)
    BY <1>1, <1>2 DEF Waiting, Reading, Given
  <2>2. HowMany(<<>>, C) = 0
    BY LoadType
  <2>3. Waiting(C) = HowMany(Top, C) + HowMany(armor.buf, C) + HowMany(header.in, C)
    BY DEF Waiting
  <2>4. /\ HowMany(Top, C) \in Nat /\ HowMany(armor.buf, C) \in Nat
        /\ HowMany(header.in, C) \in Nat
        /\ Waiting(C) \in Nat /\ Reading(C) \in Nat /\ Given(C) \in Nat
    BY CountType DEF FullInv, IInv
  <2> QED
    BY <2>1, <2>2, <2>3, <2>4
<1> QED
  BY <1>1, <1>3, CountKeeps DEF FullInv, IInv

\* A call that returns moves the output to the caller.
LEMMA ReturnCount ==
    ASSUME FullInv, TypeOK', Return PROVE NoMore
<1>1. /\ returned' = returned \o output /\ output' = <<>>
      /\ UNCHANGED <<scn, pos, stack, armor, header, readers>>
  BY DEF Return, Deliver
<1>2. ASSUME NEW C
      PROVE  Waiting(C)' + Reading(C)' + Given(C)' <= Waiting(C) + Reading(C) + Given(C)
  <2>1. Waiting(C)' = Waiting(C) /\ Reading(C)' = Reading(C)
    BY <1>1 DEF Waiting, Reading, Top
  <2>2. Given(C)' = HowMany(<<>>, C) + HowMany(returned \o output, C)
    BY <1>1 DEF Given
  <2>3. /\ returned \in Seq(Cell) /\ output \in Seq(Cell) /\ returned \o output \in Seq(Cell)
    BY ConcatProperties DEF FullInv, IInv, TypeOK
  <2>4. HowMany(returned \o output, C) <= HowMany(returned, C) + HowMany(output, C)
        /\ HowMany(<<>>, C) = 0
    BY <2>3, HowManyConcat, LoadType
  <2>5. /\ HowMany(returned, C) \in Nat /\ HowMany(output, C) \in Nat
        /\ HowMany(returned \o output, C) \in Nat
        /\ Waiting(C) \in Nat /\ Reading(C) \in Nat
    BY <2>3, HowManyType, CountType DEF FullInv, IInv
  <2>6. Given(C) = HowMany(output, C) + HowMany(returned, C)
    BY DEF Given
  <2> QED
    BY <2>1, <2>2, <2>4, <2>5, <2>6
<1> QED
  BY <1>1, <1>2, CountKeeps DEF FullInv, IInv

\* A call brings the next octets of the wire.
LEMMA FeedCount ==
    ASSUME FullInv, TypeOK', NEW n, n \in 0..(Len(scn.wire) - pos), NEW as, Feed(n, as)
    PROVE  NoMore
<1> DEFINE w == scn.wire
           more == SubSeq(w, pos + 1, pos + n)
<1>1. /\ pc = "idle" /\ stack' = Push(stack, more) /\ pos' = pos + n
      /\ UNCHANGED <<scn, armor, header, readers, output, returned>>
  BY DEF Feed
<1>2. stack = <<>>
  BY <1>1 DEF FullInv, IInv, ControlInv
<1>3. w \in Seq(Cell) /\ Len(w) \in Nat /\ pos \in 0..Len(w)
  BY ReaderAssumption, LenProperties DEF ReaderAssumption, FullInv, IInv, TypeOK
<1> HIDE DEF w
<1>4. pos + n \in 0..Len(w) /\ n \in Nat /\ pos \in Nat
  BY <1>3 DEF w
<1>5. more \in Seq(Cell)
  <2>1. \A i \in (pos + 1)..(pos + n) : w[i] \in Cell
    BY <1>3, <1>4, ElementOfSeq
  <2> QED
    BY <1>4, <2>1, SubSeqProperties
<1>6. Top = <<>> /\ Top' = more
  <2>1. stack' = <<more>>
    BY <1>1, <1>2, <1>5, EmptySeq, PushType
  <2> HIDE DEF more
  <2> QED
    BY <1>2, <2>1, SingleLen DEF Top
<1>7. SUFFICES ASSUME NEW C
               PROVE  Total(C)' + HowMany(Take(w, pos), C)
                        <= Total(C) + HowMany(Take(w, pos + n), C)
  BY <1>1 DEF NoMore, Fed, w
<1>9. /\ Reading(C)' = Reading(C) /\ Given(C)' = Given(C)
      /\ Waiting(C)' = HowMany(more, C) + HowMany(armor.buf, C) + HowMany(header.in, C)
      /\ Waiting(C) = HowMany(<<>>, C) + HowMany(armor.buf, C) + HowMany(header.in, C)
  BY <1>1, <1>6 DEF Reading, Given, Waiting
<1>10. HowMany(Take(w, pos), C) + HowMany(more, C) <= HowMany(Take(w, pos + n), C)
  <2> DEFINE all == Take(w, pos + n)
  <2>1. all \in Seq(Cell) /\ Len(all) = pos + n
    BY <1>3, <1>4, TakeType
  <2>2. pos \in 0..Len(all) /\ pos + n \in pos..Len(all)
    BY <1>4, <2>1
  <2>3. \A i \in 1..(pos + n) : all[i] = w[i]
    <3>1. \A i \in 1..(pos + n) : w[i] \in Cell
      BY <1>3, <1>4, ElementOfSeq
    <3> QED
      BY <1>4, <3>1, SubSeqProperties DEF Take
  <2> HIDE DEF all
  <2>4. SubSeq(all, 1, pos) = Take(w, pos) /\ SubSeq(all, pos + 1, pos + n) = more
    <3>1. SubSeq(all, 1, pos) = Take(w, pos)
      <4>1. /\ SubSeq(all, 1, pos) \in Seq(Cell) /\ Len(SubSeq(all, 1, pos)) = pos
            /\ \A i \in 1..pos : SubSeq(all, 1, pos)[i] = all[i]
        BY <1>4, <2>1, SubSeqProperties
      <4>2. /\ Take(w, pos) \in Seq(Cell) /\ Len(Take(w, pos)) = pos
            /\ \A i \in 1..pos : Take(w, pos)[i] = w[i]
        BY <1>3, <1>4, SubSeqProperties DEF Take
      <4>3. \A i \in 1..pos : all[i] = w[i]
        BY <1>4, <2>3
      <4> QED
        BY <4>1, <4>2, <4>3, SeqEqual
    <3>2. SubSeq(all, pos + 1, pos + n) = more
      <4> DEFINE piece == SubSeq(all, pos + 1, pos + n)
      <4>1. /\ piece \in Seq(Cell) /\ Len(piece) = (pos + n) - pos
            /\ \A i \in 1..((pos + n) - pos) : piece[i] = all[pos + i]
        BY <1>4, <2>1, <2>2, PieceIs
      <4>2. /\ Len(more) = (pos + n) - pos
            /\ \A i \in 1..((pos + n) - pos) : more[i] = w[pos + i]
        BY <1>3, <1>4, PieceIs
      <4>3. \A i \in 1..((pos + n) - pos) : all[pos + i] = w[pos + i]
        BY <1>4, <2>3
      <4> HIDE DEF more, piece
      <4>4. Len(piece) = Len(more) /\ \A i \in 1..Len(piece) : piece[i] = more[i]
        BY <4>1, <4>2, <4>3
      <4>5. piece = more
        BY <1>5, <4>1, <4>4, SeqEqual
      <4> QED
        BY <4>5 DEF piece
    <3> QED
      BY <3>1, <3>2
  <2>5. HowMany(SubSeq(all, 1, pos), C) + HowMany(SubSeq(all, pos + 1, pos + n), C)
          <= HowMany(all, C)
    BY <2>1, <2>2, HowManyCut
  <2> QED
    BY <2>4, <2>5 DEF all
<1>11. /\ HowMany(Take(w, pos), C) \in Nat /\ HowMany(Take(w, pos + n), C) \in Nat
       /\ HowMany(more, C) \in Nat
  <2>1. Take(w, pos) \in Seq(Cell) /\ Take(w, pos + n) \in Seq(Cell)
    BY <1>3, <1>4, TakeType
  <2> QED
    BY <1>5, <2>1, HowManyType
<1>12. /\ HowMany(<<>>, C) = 0 /\ HowMany(armor.buf, C) \in Nat /\ HowMany(header.in, C) \in Nat
       /\ Reading(C) \in Nat /\ Given(C) \in Nat
  BY CountType, LoadType DEF FullInv, IInv
<1> HIDE DEF more
<1>13. /\ Total(C) = Waiting(C) + Reading(C) + Given(C)
       /\ Total(C)' = Waiting(C)' + Reading(C) + Given(C)
  BY <1>9 DEF Total
<1>14. Waiting(C) \in Nat /\ Waiting(C)' = HowMany(more, C) + Waiting(C)
  BY <1>9, <1>11, <1>12
<1> QED
  BY <1>10, <1>11, <1>12, <1>13, <1>14

\* Decoding lines takes the content of the lines and keeps what follows them.
LEMMA ArmorDecodeCount ==
    ASSUME NEW a \in ArmorState, NEW buf \in Seq(Cell), NEW from \in 0..Len(buf),
           NEW C, Lasting(C)
    PROVE  \A o \in ArmorDecode(a, buf, from) :
              HowMany(o.out, C) + HowMany(o.back, C) + HowMany(o.a.buf, C) <= HowMany(buf, C)
<1> DEFINE lines == (Len(buf) - from) \div 2
           rest(l) == Drop(buf, from + 2 * l.last)
           next(l) == [a EXCEPT !.status = "Enabled", !.done = l.tail, !.buf = rest(l)]
           text(n) == [i \in 1..n |-> buf[from + 2 * i]]
<1>1. lines \in Nat /\ from + 2 * lines <= Len(buf) /\ Len(buf) \in Nat /\ from \in Nat
  <2>1. Len(buf) - from \in Nat /\ Len(buf) \in Nat
    BY LenProperties
  <2> QED
    BY <2>1, Z3
<1> HIDE DEF lines
<1>2. <<>> \in Seq(Cell) /\ HowMany(<<>>, C) = 0
  BY LoadType
<1>3. SUFFICES ASSUME NEW l \in ArmorLines(buf, from),
                      NEW o, o = IF l.bad
                                 THEN ArmorOutcome("UnexpectedError", <<>>, <<>>, next(l))
                                 ELSE ArmorOutcome(IF l.tail THEN "Success" ELSE "Pending",
                                                   Peel(text(l.last)), <<>>, next(l))
               PROVE  HowMany(o.out, C) + HowMany(o.back, C) + HowMany(o.a.buf, C)
                        <= HowMany(buf, C)
  BY Zenon DEF ArmorDecode
<1>4. l.last \in 0..lines
  <2>1. PICK n \in 0..lines :
           l = [last |-> n,
                bad  |-> \E i \in 1..lines : buf[from + 2 * i] =
                            [depth |-> 0, kind |-> "crc", val |-> 1],
                tail |-> \E i \in 1..lines : buf[from + 2 * i].kind = "tail"]
    BY Zenon DEF ArmorLines, lines
  <2> QED
    BY <2>1
<1>5. PICK n \in Nat : n = l.last /\ n <= lines
  BY <1>1, <1>4
<1>6. from + 2 * n \in 0..Len(buf)
  BY <1>1, <1>5
<1>7. text(n) \in Seq(Cell) /\ Len(text(n)) = n /\ \A i \in 1..n : text(n)[i] = buf[from + 2 * i]
  <2>1. \A i \in 1..n : from + 2 * i \in 1..Len(buf)
    BY <1>1, <1>5
  <2>2. \A i \in 1..n : buf[from + 2 * i] \in Cell
    BY <2>1, ElementOfSeq
  <2>3. text(n) \in [1..n -> Cell] /\ DOMAIN text(n) = 1..n
    BY <2>2
  <2>4. \A i \in 1..n : text(n)[i] = buf[from + 2 * i]
    OBVIOUS
  <2> HIDE DEF text
  <2>5. text(n) \in Seq(Cell)
    BY <2>3, IsASeq
  <2> QED
    BY <2>3, <2>4, <2>5, LenProperties
<1> HIDE DEF text
<1>8. /\ rest(l) \in Seq(Cell) /\ Len(rest(l)) = Len(buf) - (from + 2 * n)
      /\ \A i \in 1..Len(rest(l)) : rest(l)[i] = buf[from + 2 * n + i]
  <2> DEFINE m == from + 2 * n
  <2>1. rest(l) = Drop(buf, m) /\ m \in 0..Len(buf)
    BY <1>5, <1>6
  <2> HIDE DEF rest, m
  <2>2. /\ rest(l) \in Seq(Cell) /\ Len(rest(l)) = Len(buf) - m
        /\ \A i \in 1..Len(rest(l)) : rest(l)[i] = buf[m + i]
    BY <2>1, DropIs
  <2> QED
    BY <2>2 DEF m
<1> HIDE DEF rest
<1>9. HowMany(text(n), C) + HowMany(rest(l), C) <= HowMany(buf, C)
  <2> DEFINE t == text(n)
             u == rest(l)
             m == from + 2 * n
  <2>1. /\ t \in Seq(Cell) /\ Len(t) = n /\ \A i \in 1..n : t[i] = buf[from + 2 * i]
        /\ u \in Seq(Cell) /\ Len(u) = Len(buf) - m
        /\ \A i \in 1..Len(u) : u[i] = buf[m + i]
    BY <1>7, <1>8
  <2>2. /\ \A i \in 1..n : from + 2 * i \in 1..m
        /\ \A i \in 1..(Len(buf) - m) : m + i \in (m + 1)..Len(buf)
        /\ \A i, j \in 1..n : from + 2 * i = from + 2 * j => i = j
        /\ m \in 0..Len(buf)
    <3>1. m \in 0..Len(buf)
      BY <1>6
    <3>2. ASSUME NEW i \in 1..n PROVE from + 2 * i \in 1..m
      BY <1>1, <1>5, Z3
    <3>3. ASSUME NEW i \in 1..(Len(buf) - m) PROVE m + i \in (m + 1)..Len(buf)
      <4> HIDE DEF m
      <4> QED
        BY <1>1, <3>1
    <3>4. \A i, j \in 1..n : from + 2 * i = from + 2 * j => i = j
      BY <1>1, <1>5
    <3> QED
      BY <3>1, <3>2, <3>3, <3>4
  <2> HIDE DEF t, u, m
  <2> DEFINE f == [i \in 1..Len(t) |-> from + 2 * i]
             g == [i \in 1..Len(u) |-> m + i]
  <2>3. f \in [1..Len(t) -> 1..Len(buf)]
    BY <1>1, <2>1, <2>2
  <2>4. g \in [1..Len(u) -> 1..Len(buf)]
    BY <1>1, <2>1, <2>2
  <2>5. \A i, j \in 1..Len(t) : f[i] = f[j] => i = j
    BY <2>1, <2>2
  <2>6. \A i, j \in 1..Len(u) : g[i] = g[j] => i = j
    BY <1>1, <2>1, <2>2
  <2>7. \A i \in 1..Len(t), j \in 1..Len(u) : f[i] # g[j]
    <3>1. SUFFICES ASSUME NEW i \in 1..Len(t), NEW j \in 1..Len(u) PROVE f[i] # g[j]
      OBVIOUS
    <3>2. f[i] = from + 2 * i /\ g[j] = m + j
      OBVIOUS
    <3>3. f[i] \in 1..m /\ g[j] \in (m + 1)..Len(buf)
      BY <2>1, <2>2, <3>2
    <3> HIDE DEF f, g
    <3> QED
      BY <1>1, <2>2, <3>3
  <2>8. \A i \in 1..Len(t) : t[i] \in C => buf[f[i]] \in C
    BY <2>1
  <2>9. \A i \in 1..Len(u) : u[i] \in C => buf[g[i]] \in C
    BY <2>1
  <2> HIDE DEF f, g
  <2>10. HowMany(t, C) + HowMany(u, C) <= HowMany(buf, C)
    BY <2>1, <2>3, <2>4, <2>5, <2>6, <2>7, <2>8, <2>9, HowManyTaken
  <2> QED
    BY <2>10 DEF t, u
<1>10. Peel(text(n)) \in Seq(Cell) /\ HowMany(Peel(text(n)), C) <= HowMany(text(n), C)
  BY <1>7, PeelType DEF Lasting
<1>11. next(l).buf = rest(l)
  BY DEF ArmorState
<1> HIDE DEF next
<1>12. /\ HowMany(text(n), C) \in Nat /\ HowMany(rest(l), C) \in Nat /\ HowMany(buf, C) \in Nat
       /\ HowMany(Peel(text(n)), C) \in Nat
  BY <1>7, <1>8, <1>10, HowManyType
<1>13. CASE l.bad
  <2>1. o = ArmorOutcome("UnexpectedError", <<>>, <<>>, next(l))
    BY <1>3, <1>13
  <2>2. o.out = <<>> /\ o.back = <<>> /\ o.a.buf = rest(l)
    BY <1>11, <2>1 DEF ArmorOutcome
  <2> QED
    BY <1>2, <1>9, <1>12, <2>2
<1>14. CASE ~l.bad
  <2>1. o = ArmorOutcome(IF l.tail THEN "Success" ELSE "Pending", Peel(text(l.last)), <<>>, next(l))
    BY <1>3, <1>14
  <2>2. o.out = Peel(text(n)) /\ o.back = <<>> /\ o.a.buf = rest(l)
    BY <1>5, <1>11, <2>1 DEF ArmorOutcome
  <2> QED
    BY <1>2, <1>9, <1>10, <1>12, <2>2
<1> QED
  BY <1>13, <1>14

\* The armor reader gives out, gives back and keeps no more than it had.
LEMMA ReadArmorCount ==
    ASSUME TypeOK, NEW in \in Seq(Cell), armor.status # "Disabled", NEW C, Lasting(C)
    PROVE  \A o \in ReadArmor(armor, in) :
              HowMany(o.out, C) + HowMany(o.back, C) + HowMany(o.a.buf, C)
                <= HowMany(armor.buf, C) + HowMany(in, C)
<1> DEFINE buf  == armor.buf \o in
           seen == [armor EXCEPT !.entered = TRUE]
           kept == [armor EXCEPT !.buf = buf]
           more == [seen EXCEPT !.buf = buf]
           off  == [seen EXCEPT !.status = "Disabled", !.buf = <<>>]
           sum(o) == HowMany(o.out, C) + HowMany(o.back, C) + HowMany(o.a.buf, C)
<1>1. armor \in ArmorState /\ armor.buf \in Seq(Cell) /\ finish \in BOOLEAN
  BY DEF TypeOK, ArmorState
<1>2. /\ buf \in Seq(Cell) /\ Len(buf) \in Nat
      /\ HowMany(buf, C) <= HowMany(armor.buf, C) + HowMany(in, C)
  <2>1. buf \in Seq(Cell)
    BY <1>1, ConcatProperties
  <2> QED
    BY <1>1, <2>1, LenProperties, HowManyConcat
<1> HIDE DEF buf
<1>3. /\ seen \in ArmorState /\ kept.buf = buf /\ more.buf = buf /\ off.buf = <<>>
  BY <1>1, <1>2 DEF ArmorState
<1> HIDE DEF seen, kept, more, off
<1>4. /\ HowMany(buf, C) \in Nat /\ HowMany(armor.buf, C) \in Nat /\ HowMany(in, C) \in Nat
      /\ HowMany(<<>>, C) = 0
  BY <1>1, <1>2, HowManyType, LoadType
<1>5. SUFFICES ASSUME NEW o \in ReadArmor(armor, in)
               PROVE  sum(o) <= HowMany(armor.buf, C) + HowMany(in, C)
  OBVIOUS
<1>6. \/ o = ArmorOutcome("Success", <<>>, <<>>, kept)
      \/ o \in ArmorDecode(armor, buf, 0)
      \/ o = ArmorOutcome("Pending", <<>>, <<>>, armor)
      \/ o = ArmorOutcome("Pending", <<>>, <<>>, more)
      \/ Len(buf) >= ArmorMin /\ o \in ArmorDecode(seen, buf, 2)
      \/ o = ArmorOutcome("Success", <<>>, buf, off)
  BY <1>5, Zenon DEF ReadArmor, buf, seen, kept, more, off
<1>10. sum(o) \in Nat
  <2>1. o.out \in Seq(Cell) /\ o.back \in Seq(Cell) /\ o.a.buf \in Seq(Cell)
    BY <1>5, ReadArmorType DEF ArmorOK, ArmorState
  <2>2. /\ HowMany(o.out, C) \in Nat /\ HowMany(o.back, C) \in Nat
        /\ HowMany(o.a.buf, C) \in Nat
    BY <2>1, HowManyType
  <2> QED
    BY <2>2
<1>7. CASE o \in ArmorDecode(armor, buf, 0)
  <2>1. 0 \in 0..Len(buf)
    BY <1>2
  <2>2. sum(o) <= HowMany(buf, C)
    BY <1>1, <1>2, <1>7, <2>1, ArmorDecodeCount
  <2> HIDE DEF sum
  <2> QED
    BY <1>2, <1>4, <1>10, <2>2
<1>8. CASE Len(buf) >= ArmorMin /\ o \in ArmorDecode(seen, buf, 2)
  <2>1. 2 \in 0..Len(buf)
    BY <1>2, <1>8, ReaderAssumption DEF ReaderAssumption
  <2>2. sum(o) <= HowMany(buf, C)
    BY <1>2, <1>3, <1>8, <2>1, ArmorDecodeCount
  <2> HIDE DEF sum
  <2> QED
    BY <1>2, <1>4, <1>10, <2>2
<1>9. CASE \/ o = ArmorOutcome("Success", <<>>, <<>>, kept)
           \/ o = ArmorOutcome("Pending", <<>>, <<>>, armor)
           \/ o = ArmorOutcome("Pending", <<>>, <<>>, more)
           \/ o = ArmorOutcome("Success", <<>>, buf, off)
  <2>1. sum(o) = HowMany(<<>>, C) + HowMany(<<>>, C) + HowMany(buf, C)
        \/ sum(o) = HowMany(<<>>, C) + HowMany(<<>>, C) + HowMany(armor.buf, C)
        \/ sum(o) = HowMany(<<>>, C) + HowMany(buf, C) + HowMany(<<>>, C)
    BY <1>3, <1>9 DEF ArmorOutcome
  <2> HIDE DEF sum
  <2> QED
    BY <1>2, <1>4, <2>1
<1> QED
  BY <1>6, <1>7, <1>8, <1>9

\* ArmorOnEnter: what the reader gives out or back is the next buffer.
LEMMA ArmorCount == ASSUME FullInv, TypeOK', EnterArmor PROVE NoMore
<1>1. PICK o \in ReadArmor(armor, Top) :
         /\ armor' = o.a
         /\ stack' = IF Rejected(o.res) THEN Popped
                     ELSE IF o.a.status = "Disabled" THEN Push(Popped, o.back)
                     ELSE PushIf(Popped, o.out)
  BY DEF EnterArmor
<1>2. TypeOK /\ Top \in Seq(Cell) /\ armor.status # "Disabled"
  BY StackType DEF FullInv, IInv, EnterArmor
<1>3. o.out \in Seq(Cell) /\ o.back \in Seq(Cell) /\ o.a.buf \in Seq(Cell)
  BY <1>2, ReadArmorType DEF ArmorOK, ArmorState
<1>4. Popped = <<>> /\ Popped \in Seq(Seq(Cell))
  BY StackType DEF FullInv, IInv, ControlInv
<1>5. stack' = <<>> \/ stack' = <<o.back>> \/ stack' = <<o.out>>
  BY <1>1, <1>3, <1>4, PushType
<1>6. Top' = <<>> \/ Top' = o.back \/ Top' = o.out
  BY <1>5, SingleLen DEF Top
<1>7. UNCHANGED <<scn, pos, header, readers, output, returned>>
  BY DEF EnterArmor
<1>8. ASSUME NEW C, Lasting(C)
      PROVE  Waiting(C)' + Reading(C)' + Given(C)' <= Waiting(C) + Reading(C) + Given(C)
  <2>1. HowMany(o.out, C) + HowMany(o.back, C) + HowMany(o.a.buf, C)
          <= HowMany(armor.buf, C) + HowMany(Top, C)
    BY <1>2, <1>8, ReadArmorCount
  <2>2. /\ HowMany(o.out, C) \in Nat /\ HowMany(o.back, C) \in Nat
        /\ HowMany(o.a.buf, C) \in Nat /\ HowMany(<<>>, C) = 0
    BY <1>3, HowManyType, LoadType
  <2>3. HowMany(Top', C) \in Nat /\ HowMany(Top', C) <= HowMany(o.out, C) + HowMany(o.back, C)
    BY <1>6, <2>2
  <2>4. /\ Waiting(C)' = HowMany(Top', C) + HowMany(o.a.buf, C) + HowMany(header.in, C)
        /\ Reading(C)' = Reading(C) /\ Given(C)' = Given(C)
    BY <1>1, <1>7 DEF Waiting, Reading, Given
  <2>5. Waiting(C) = HowMany(Top, C) + HowMany(armor.buf, C) + HowMany(header.in, C)
    BY DEF Waiting
  <2>6. /\ HowMany(Top, C) \in Nat /\ HowMany(armor.buf, C) \in Nat
        /\ HowMany(header.in, C) \in Nat /\ Reading(C) \in Nat /\ Given(C) \in Nat
    BY <1>2, CountType
  <2> HIDE DEF HowMany
  <2>7. HowMany(Top', C) + HowMany(o.a.buf, C) <= HowMany(armor.buf, C) + HowMany(Top, C)
    BY <2>1, <2>2, <2>3, <2>6
  <2> QED
    BY <2>2, <2>3, <2>4, <2>5, <2>6, <2>7
<1> QED
  BY <1>2, <1>7, <1>8, CountKeeps

\* HeaderOnEnter: the header is gone, the rest stays in the header reader or
\* is the next buffer.
LEMMA HeaderReads ==
    ASSUME FullInv, EnterHeader
    PROVE  LET in == header.in \o Top
           IN  /\ in \in Seq(Cell) /\ in # <<>> /\ UNCHANGED <<scn, pos, armor, readers, output, returned>>
               /\ \/ header'.in = in /\ Top' = <<>>
                  \/ header'.in = Tail(in) /\ Top' = <<>>
                  \/ header'.in = <<>> /\ Top' = Tail(in)
               /\ emsg' = "Success" => /\ header'.type = in[1].kind /\ header'.in = <<>>
                                       /\ Top' = Tail(in)
<1> DEFINE in   == header.in \o Top
           wait == Len(in) < HeaderMax /\ ~finish
           type == IF \E t \in PacketTypes : StartsWith(in, t)
                   THEN in[1].kind ELSE "Unknown"
           res  == IF wait THEN "Pending"
                   ELSE IF type = "Unknown" THEN "UnsupportedPacketType"
                   ELSE "Success"
<1>1. /\ header' = IF wait THEN [header EXCEPT !.in = in]
                   ELSE [type |-> type,
                         in |-> IF res = "Success" THEN <<>> ELSE Tail(in)]
      /\ stack' = IF res = "Success" THEN PushIf(Popped, Tail(in)) ELSE Popped
      /\ emsg' = res
      /\ UNCHANGED <<scn, pos, armor, readers, output, returned>>
  BY Zenon DEF EnterHeader
<1>2. TypeOK /\ Top \in Seq(Cell) /\ header.in \in Seq(Cell) /\ <<>> \in Seq(Cell)
      /\ header \in [type : PacketTypes \cup {"Unknown"}, in : Seq(Cell)]
  BY StackType DEF FullInv, IInv, TypeOK
<1>3. in \in Seq(Cell) /\ in # <<>>
  <2>1. stack # <<>> /\ Head(stack) # <<>>
    BY EntersFrom DEF EnterHeader, FullInv, IInv, CanEnter, HeaderCanEnter
  <2>2. Top # <<>>
    BY <2>1 DEF Top
  <2> QED
    BY <1>2, <2>2, ConcatProperties
<1>4. Popped = <<>> /\ Popped \in Seq(Seq(Cell))
  BY StackType DEF FullInv, IInv, ControlInv
<1> HIDE DEF in, type
<1>5. Tail(in) \in Seq(Cell)
  BY <1>3, TailFewer
<1>6. /\ wait => res # "Success"
      /\ res = "Success" => type # "Unknown"
  OBVIOUS
<1> HIDE DEF wait, res
<1>7. emsg' = "Success" => /\ header'.type = type /\ type # "Unknown"
                           /\ header'.in = <<>> /\ Top' = Tail(in)
  <2>1. SUFFICES ASSUME res = "Success"
                 PROVE  /\ header'.type = type /\ type # "Unknown"
                        /\ header'.in = <<>> /\ Top' = Tail(in)
    BY <1>1
  <2>2. stack' = IF Tail(in) = <<>> THEN <<>> ELSE <<Tail(in)>>
    BY <1>1, <1>4, <1>5, <2>1, PushType
  <2>3. Top' = Tail(in)
    BY <2>2, SingleLen DEF Top
  <2> QED
    BY <1>1, <1>6, <2>1, <2>3
<1>8. \/ header'.in = in /\ Top' = <<>>
      \/ header'.in = Tail(in) /\ Top' = <<>>
      \/ header'.in = <<>> /\ Top' = Tail(in)
  <2>1. CASE wait
    BY <1>1, <1>2, <1>4, <1>6, <2>1 DEF Top
  <2>2. CASE ~wait /\ res # "Success"
    BY <1>1, <1>4, <2>2 DEF Top
  <2>3. CASE res = "Success"
    BY <1>1, <1>7, <2>3
  <2> QED
    BY <2>1, <2>2, <2>3
<1>9. type # "Unknown" => type = in[1].kind
  BY DEF type
<1> QED
  BY <1>1, <1>3, <1>7, <1>8, <1>9 DEF in

\* The octets that go no further are those the header is made of.
LEMMA HeaderCount ==
    ASSUME FullInv, TypeOK', EnterHeader
    PROVE  /\ NoMore
           /\ \A C : /\ Lasting(C) /\ emsg' = "Success"
                     /\ \A c \in Cell : c.kind = header'.type => c \in C
                     => Total(C)' + 1 <= Total(C)
<1> DEFINE in == header.in \o Top
<1>1. /\ in \in Seq(Cell) /\ in # <<>> /\ UNCHANGED <<scn, pos, armor, readers, output, returned>>
      /\ \/ header'.in = in /\ Top' = <<>>
         \/ header'.in = Tail(in) /\ Top' = <<>>
         \/ header'.in = <<>> /\ Top' = Tail(in)
      /\ emsg' = "Success" => /\ header'.type = in[1].kind /\ header'.in = <<>>
                              /\ Top' = Tail(in)
  BY HeaderReads
<1>2. TypeOK /\ Top \in Seq(Cell) /\ header.in \in Seq(Cell)
  BY StackType DEF FullInv, IInv, TypeOK
<1> HIDE DEF in
<1>3. \A C : /\ HowMany(in, C) <= HowMany(header.in, C) + HowMany(Top, C)
             /\ HowMany(Tail(in), C) <= HowMany(in, C)
             /\ in[1] \in C => HowMany(Tail(in), C) + 1 <= HowMany(in, C)
             /\ HowMany(in, C) \in Nat /\ HowMany(Tail(in), C) \in Nat
             /\ HowMany(<<>>, C) = 0
  <2>1. SUFFICES ASSUME NEW C
                 PROVE  /\ HowMany(in, C) <= HowMany(header.in, C) + HowMany(Top, C)
                        /\ HowMany(Tail(in), C) <= HowMany(in, C)
                        /\ in[1] \in C => HowMany(Tail(in), C) + 1 <= HowMany(in, C)
                        /\ HowMany(in, C) \in Nat /\ HowMany(Tail(in), C) \in Nat
                        /\ HowMany(<<>>, C) = 0
    OBVIOUS
  <2>2. HowMany(in, C) <= HowMany(header.in, C) + HowMany(Top, C)
    BY <1>2, HowManyConcat DEF in
  <2>3. Tail(in) \in Seq(Cell) /\ HowMany(Tail(in), C) <= HowMany(in, C)
    BY <1>1, TailFewer
  <2>4. in[1] \in C => HowMany(Tail(in), C) + 1 <= HowMany(in, C)
    BY <1>1, FirstCounts
  <2>5. HowMany(in, C) \in Nat /\ HowMany(Tail(in), C) \in Nat /\ HowMany(<<>>, C) = 0
    BY <1>1, <2>3, HowManyType, LoadType
  <2> QED
    BY <2>2, <2>3, <2>4, <2>5
<1>4. \A C : /\ Waiting(C)' = HowMany(Top', C) + HowMany(armor.buf, C) + HowMany(header'.in, C)
             /\ Waiting(C) = HowMany(Top, C) + HowMany(armor.buf, C) + HowMany(header.in, C)
             /\ Reading(C)' = Reading(C) /\ Given(C)' = Given(C)
  BY <1>1 DEF Waiting, Reading, Given
<1>5. \A C : /\ HowMany(Top, C) \in Nat /\ HowMany(armor.buf, C) \in Nat
             /\ HowMany(header.in, C) \in Nat /\ Reading(C) \in Nat /\ Given(C) \in Nat
  BY <1>2, CountType
<1>6. NoMore
  <2>1. ASSUME NEW C
        PROVE  Waiting(C)' + Reading(C)' + Given(C)' <= Waiting(C) + Reading(C) + Given(C)
    <3>1. /\ HowMany(Top', C) \in Nat /\ HowMany(header'.in, C) \in Nat
          /\ HowMany(Top', C) + HowMany(header'.in, C) <= HowMany(header.in, C) + HowMany(Top, C)
      <4>1. CASE header'.in = in /\ Top' = <<>>
        BY <1>3, <1>5, <4>1
      <4>2. CASE header'.in = Tail(in) /\ Top' = <<>>
        BY <1>3, <1>5, <4>2
      <4>3. CASE header'.in = <<>> /\ Top' = Tail(in)
        BY <1>3, <1>5, <4>3
      <4> QED
        BY <1>1, <4>1, <4>2, <4>3
    <3> HIDE DEF HowMany
    <3> QED
      BY <1>4, <1>5, <3>1
  <2> QED
    BY <1>1, <1>2, <2>1, CountKeeps
<1>7. ASSUME NEW C, emsg' = "Success", \A c \in Cell : c.kind = header'.type => c \in C
      PROVE  Total(C)' + 1 <= Total(C)
  <2>1. in[1] \in C
    <3>1. in[1] \in Cell
      BY <1>1, LenProperties, ElementOfSeq, EmptySeq
    <3> QED
      BY <1>1, <1>7, <3>1
  <2>2. HowMany(Tail(in), C) + 1 <= HowMany(header.in, C) + HowMany(Top, C)
    BY <1>3, <1>5, <2>1
  <2>3. Waiting(C)' = HowMany(Tail(in), C) + HowMany(armor.buf, C) + 0
    BY <1>1, <1>3, <1>4, <1>7
  <2> HIDE DEF HowMany
  <2> QED
    BY <1>3, <1>4, <1>5, <2>2, <2>3 DEF Total
<1> QED
  BY <1>6, <1>7

\* One reader changes.
LEMMA ReadingChanges ==
    ASSUME TypeOK, NEW t \in ReaderTypes, NEW rd \in Reader,
           readers' = [readers EXCEPT ![t] = rd], NEW C
    PROVE  Reading(C)' + Load(readers[t], C) = Reading(C) + Load(rd, C)
<1>1. readers \in [ReaderTypes -> Reader] /\ readers' \in [ReaderTypes -> Reader]
  BY DEF TypeOK
<1>2. \A u \in ReaderTypes : Load(readers[u], C) \in Nat /\ Load(readers'[u], C) \in Nat
  BY <1>1, LoadType
<1>3. readers'[t] = rd /\ \A u \in ReaderTypes \ {t} : readers'[u] = readers[u]
  BY <1>1
<1>4. Reading(C)' = Load(readers'["ESK"], C) + Load(readers'["SEIPD"], C)
                    + Load(readers'["SYM"], C) + Load(readers'["COMP"], C)
                    + Load(readers'["LIT"], C)
  BY DEF Reading
<1> HIDE DEF Load
<1>5. CASE t = "ESK"
  BY <1>2, <1>3, <1>4, <1>5 DEF Reading, ReaderTypes
<1>6. CASE t = "SEIPD"
  BY <1>2, <1>3, <1>4, <1>6 DEF Reading, ReaderTypes
<1>7. CASE t = "SYM"
  BY <1>2, <1>3, <1>4, <1>7 DEF Reading, ReaderTypes
<1>8. CASE t = "COMP"
  BY <1>2, <1>3, <1>4, <1>8 DEF Reading, ReaderTypes
<1>9. CASE t = "LIT"
  BY <1>2, <1>3, <1>4, <1>9 DEF Reading, ReaderTypes
<1> QED
  BY <1>5, <1>6, <1>7, <1>8, <1>9 DEF ReaderTypes

\* The sums of PacketCount.
LEMMA Balance ==
    /\ \A read, read1, old, new, fed, rest, out, top, top1, given, given1 \in Nat :
          /\ read1 + old = read + new /\ rest + out <= fed /\ fed <= old + top
          /\ new + top1 + given1 <= rest + out + given
          => read1 + top1 + given1 <= read + top + given
    /\ \A read, read1, top, top1, given, given1, a, h, more \in Nat :
          read1 + top1 + given1 <= read + top + given
          => (top1 + a + h) + read1 + (given1 + more) <= (top + a + h) + read + (given + more)
  OBVIOUS

\* The reader a packet gets has what it had and the buffer on the stack.
LEMMA FedLoad ==
    ASSUME TypeOK, NEW t \in ReaderTypes, NEW C
    PROVE  LET r   == GetOrCreatePacket(t)
               fed == At(r, r.step, r.in \o Top, r.held)
           IN  /\ fed \in Reader
               /\ Load(fed, C) <= Load(readers[t], C) + HowMany(Top, C)
<1> DEFINE r   == GetOrCreatePacket(t)
           fed == At(r, r.step, r.in \o Top, r.held)
<1>1. fed \in Reader
  BY PacketReaderType
<1>2. /\ readers[t] \in Reader /\ Top \in Seq(Cell) /\ <<>> \in Seq(Cell)
  BY StackType DEF TypeOK
<1>3. r = readers[t] \/ (r.in = <<>> /\ r.held = <<>>)
  BY DEF GetOrCreatePacket, NoReader
<1> HIDE DEF r
<1>4. Load(fed, C) = HowMany(r.in \o Top, C) + HowMany(r.held, C)
  BY AtLoad
<1> HIDE DEF fed
<1>5. HowMany(<<>>, C) = 0 /\ HowMany(Top, C) \in Nat /\ Load(readers[t], C) \in Nat
  BY <1>2, LoadType, HowManyType
<1>6. CASE r = readers[t]
  <2>1. r.in \in Seq(Cell) /\ r.held \in Seq(Cell) /\ r.in \o Top \in Seq(Cell)
    BY <1>2, <1>6, FieldsType, ConcatProperties
  <2>2. HowMany(r.in \o Top, C) <= HowMany(r.in, C) + HowMany(Top, C)
    BY <1>2, <2>1, HowManyConcat
  <2>3. HowMany(r.in, C) \in Nat /\ HowMany(r.held, C) \in Nat /\ HowMany(r.in \o Top, C) \in Nat
    BY <2>1, HowManyType
  <2>4. Load(readers[t], C) = HowMany(r.in, C) + HowMany(r.held, C)
    BY <1>6 DEF Load
  <2>5. Load(fed, C) <= Load(readers[t], C) + HowMany(Top, C)
    BY <1>4, <1>5, <2>2, <2>3, <2>4
  <2> QED
    BY <1>1, <2>5 DEF fed, r
<1>7. CASE r.in = <<>> /\ r.held = <<>>
  <2>1. r.in \o Top = Top
    BY <1>2, <1>7, ConcatEmptySeq
  <2>2. Load(fed, C) <= Load(readers[t], C) + HowMany(Top, C)
    BY <1>4, <1>5, <1>7, <2>1
  <2> QED
    BY <1>1, <2>2 DEF fed, r
<1> QED
  BY <1>3, <1>6, <1>7

\* PacketOnEnter: the reader gets the buffer, and what it gives is the next
\* buffer or output; a reader that is done gives its input back as well.
LEMMA PacketCount == ASSUME FullInv, TypeOK', EnterPacket PROVE NoMore
<1> DEFINE t == Current
           r == GetOrCreatePacket(t)
           e == IF NoKey(t) THEN "InvalidPassphrase" ELSE emsg
           fed == At(r, r.step, r.in \o Top, r.held)
<1>1. PICK o \in DoRead(t, fed, e, finish, Key) : PacketAccepts(t, o) \/ PacketRejects(t, o)
  BY Zenon DEF EnterPacket
<1>2. TypeOK /\ t \in ReaderTypes /\ e \in Results /\ finish \in BOOLEAN
      /\ Top \in Seq(Cell) /\ output \in Seq(Cell) /\ <<>> \in Seq(Cell)
  BY StackType DEF EnterPacket, FullInv, IInv, TypeOK, Results, Errors
<1>3. fed \in Reader /\ \A C : Load(fed, C) <= Load(readers[t], C) + HowMany(Top, C)
  BY <1>2, FedLoad
<1> HIDE DEF fed
<1>4. OutcomeOK(o) /\ (o.res = "Success" => t = "ESK")
  BY <1>1, <1>2, <1>3, DoReadType
<1>5. \A C : Lasting(C) => Keeps(fed, o, C)
  BY <1>1, <1>2, <1>3, DoReadKeeps
<1> HIDE DEF e, r, t
<1>6. Popped = <<>> /\ Popped \in Seq(Seq(Cell))
  BY StackType DEF FullInv, IInv, ControlInv
<1>7. UNCHANGED <<scn, pos, armor, header, returned>>
  BY DEF EnterPacket
<1>8. o.rd \in Reader /\ o.out \in Seq(Cell) /\ o.rd.in \in Seq(Cell) /\ o.rd.held \in Seq(Cell)
  BY <1>4, FieldsType DEF OutcomeOK
<1> DEFINE done == At(o.rd, o.rd.step, <<>>, o.rd.held)
<1>9. done \in Reader
  BY <1>2, <1>8, FieldsType DEF At, Reader
<1>10. \E rd \in Reader :
          /\ readers' = [readers EXCEPT ![t] = rd]
          /\ \/ rd = o.rd /\ Top' = <<>> /\ output' = output
             \/ rd = o.rd /\ Top' = o.out /\ output' = output
             \/ rd = o.rd /\ Top' = <<>> /\ output' = output \o o.out
             \/ rd = done /\ Top' = o.rd.in /\ output' = output \o o.out
  <2>1. CASE PacketRejects(t, o)
    BY <1>6, <1>8, <2>1 DEF PacketRejects, Top
  <2>2. CASE PacketAccepts(t, o) /\ o.res = "Success"
    <3>1. t = "ESK" /\ ~Passes(t, o) /\ IsFinalPacket(t)
      BY <1>4, <2>2 DEF Passes, IsFinalPacket
    <3>2. /\ readers' = [readers EXCEPT ![t] = done]
          /\ stack' = PushIf(Popped, o.rd.in) /\ output' = output \o o.out
      BY <2>2, <3>1 DEF PacketAccepts
    <3>3. stack' = IF o.rd.in = <<>> THEN <<>> ELSE <<o.rd.in>>
      BY <1>6, <1>8, <3>2, PushType
    <3>4. Top' = o.rd.in
      BY <3>3, SingleLen DEF Top
    <3> QED
      BY <1>9, <3>2, <3>4
  <2>3. CASE PacketAccepts(t, o) /\ o.res # "Success"
    <3>1. /\ readers' = [readers EXCEPT ![t] = o.rd]
          /\ stack' = IF Passes(t, o) THEN Push(Popped, o.out) ELSE Popped
          /\ output' = IF IsFinalPacket(t) THEN output \o o.out ELSE output
      BY <2>3 DEF PacketAccepts
    <3>2. CASE Passes(t, o)
      <4>1. stack' = <<o.out>> /\ output' = output
        BY <1>6, <1>8, <3>1, <3>2, PushType DEF Passes
      <4>2. Top' = o.out
        BY <4>1, SingleLen DEF Top
      <4> QED
        BY <1>8, <3>1, <4>1, <4>2
    <3>3. CASE ~Passes(t, o)
      <4>1. Top' = <<>>
        BY <1>6, <3>1, <3>3 DEF Top
      <4> QED
        BY <1>8, <3>1, <4>1
    <3> QED
      BY <3>2, <3>3
  <2> QED
    BY <1>1, <2>1, <2>2, <2>3
<1>11. PICK rd \in Reader :
          /\ readers' = [readers EXCEPT ![t] = rd]
          /\ \/ rd = o.rd /\ Top' = <<>> /\ output' = output
             \/ rd = o.rd /\ Top' = o.out /\ output' = output
             \/ rd = o.rd /\ Top' = <<>> /\ output' = output \o o.out
             \/ rd = done /\ Top' = o.rd.in /\ output' = output \o o.out
  BY <1>10
<1>12. ASSUME NEW C, Lasting(C)
       PROVE  Waiting(C)' + Reading(C)' + Given(C)' <= Waiting(C) + Reading(C) + Given(C)
  <2>1. Reading(C)' + Load(readers[t], C) = Reading(C) + Load(rd, C)
    BY <1>2, <1>11, ReadingChanges
  <2>2. Load(o.rd, C) + HowMany(o.out, C) <= Load(fed, C)
    BY <1>5, <1>12 DEF Keeps
  <2>3. Load(fed, C) <= Load(readers[t], C) + HowMany(Top, C)
    BY <1>3
  <2>4. /\ Load(o.rd, C) \in Nat /\ Load(fed, C) \in Nat /\ Load(rd, C) \in Nat
        /\ HowMany(o.out, C) \in Nat /\ HowMany(o.rd.in, C) \in Nat /\ HowMany(<<>>, C) = 0
        /\ HowMany(output, C) \in Nat
    BY <1>2, <1>3, <1>8, LoadType, HowManyType
  <2>5. Load(done, C) + HowMany(o.rd.in, C) = Load(o.rd, C) /\ Load(done, C) \in Nat
    <3>1. Load(done, C) = HowMany(<<>>, C) + HowMany(o.rd.held, C)
      BY AtLoad
    <3>2. Load(o.rd, C) = HowMany(o.rd.in, C) + HowMany(o.rd.held, C)
      BY DEF Load
    <3>3. HowMany(o.rd.held, C) \in Nat
      BY <1>8, HowManyType
    <3> QED
      BY <2>4, <3>1, <3>2, <3>3
  <2>6. HowMany(output \o o.out, C) <= HowMany(output, C) + HowMany(o.out, C)
        /\ HowMany(output \o o.out, C) \in Nat
    <3>1. output \o o.out \in Seq(Cell)
      BY <1>2, <1>8, ConcatProperties
    <3> QED
      BY <1>2, <1>8, <3>1, HowManyConcat, HowManyType
  <2>7. /\ Waiting(C)' = HowMany(Top', C) + HowMany(armor.buf, C) + HowMany(header.in, C)
        /\ Given(C)' = HowMany(output', C) + HowMany(returned, C)
    BY <1>7 DEF Waiting, Given
  <2>8. /\ Waiting(C) = HowMany(Top, C) + HowMany(armor.buf, C) + HowMany(header.in, C)
        /\ Given(C) = HowMany(output, C) + HowMany(returned, C)
    BY DEF Waiting, Given
  <2>9. /\ HowMany(Top, C) \in Nat /\ HowMany(armor.buf, C) \in Nat
        /\ HowMany(header.in, C) \in Nat /\ HowMany(returned, C) \in Nat
        /\ Reading(C) \in Nat /\ Load(readers[t], C) \in Nat
    BY <1>2, CountType
  <2>10. Reading(C)' \in Nat
    BY CountNext DEF Numbers
  <2> HIDE DEF done
  <2>11. /\ HowMany(Top', C) \in Nat /\ HowMany(output', C) \in Nat
         /\ Load(rd, C) + HowMany(Top', C) + HowMany(output', C)
              <= Load(o.rd, C) + HowMany(o.out, C) + HowMany(output, C)
    <3>1. CASE rd = o.rd /\ Top' = <<>> /\ output' = output
      BY <2>4, <3>1
    <3>2. CASE rd = o.rd /\ Top' = o.out /\ output' = output
      BY <2>4, <3>2
    <3>3. CASE rd = o.rd /\ Top' = <<>> /\ output' = output \o o.out
      BY <2>4, <2>6, <3>3
    <3>4. CASE rd = done /\ Top' = o.rd.in /\ output' = output \o o.out
      BY <2>4, <2>5, <2>6, <3>4
    <3> QED
      BY <1>11, <3>1, <3>2, <3>3, <3>4
  <2>12. Reading(C)' + HowMany(Top', C) + HowMany(output', C)
           <= Reading(C) + HowMany(Top, C) + HowMany(output, C)
    BY <2>1, <2>2, <2>3, <2>4, <2>9, <2>10, <2>11, Balance
  <2>13. (HowMany(Top', C) + HowMany(armor.buf, C) + HowMany(header.in, C))
           + Reading(C)' + (HowMany(output', C) + HowMany(returned, C))
         <= (HowMany(Top, C) + HowMany(armor.buf, C) + HowMany(header.in, C))
           + Reading(C) + (HowMany(output, C) + HowMany(returned, C))
    BY <2>4, <2>9, <2>10, <2>11, <2>12, Balance
  <2> QED
    BY <2>7, <2>8, <2>13
<1> QED
  BY <1>2, <1>7, <1>12, CountKeeps

\* Nothing is there before the first call.
LEMMA CountInit == ASSUME Init, TypeOK PROVE CountInv
<1>1. SUFFICES ASSUME NEW C, Lasting(C) PROVE Total(C) <= HowMany(Take(scn.wire, pos), C)
  BY DEF CountInv, Fed
<1>2. /\ Load(NoReader, C) = 0 /\ HowMany(<<>>, C) = 0
  BY LoadType
<1>3. /\ Top = <<>> /\ armor.buf = <<>> /\ header.in = <<>> /\ output = <<>> /\ returned = <<>>
      /\ \A t \in ReaderTypes : readers[t] = NoReader
  BY DEF Init, Top
<1>4. Waiting(C) = 0 /\ Given(C) = 0
  BY <1>2, <1>3 DEF Waiting, Given
<1>5. Reading(C) = 0
  BY <1>2, <1>3 DEF Reading, ReaderTypes
<1>6. Take(scn.wire, pos) \in Seq(Cell)
  BY ReaderAssumption, TakeType DEF ReaderAssumption, TypeOK
<1>7. HowMany(Take(scn.wire, pos), C) \in Nat
  BY <1>6, HowManyType
<1> QED
  BY <1>4, <1>5, <1>7 DEF Total

\* Every step keeps the count.
LEMMA StepAddsNone == ASSUME FullInv, TypeOK', [Next]_vars PROVE NoMore
<1>1. TypeOK /\ Len(scn.wire) \in Nat /\ pos \in 0..Len(scn.wire)
  BY ReaderAssumption, LenProperties DEF ReaderAssumption, FullInv, IInv, TypeOK
<1>2. ASSUME \/ EnterInit \/ EnterArmorDisabled \/ EnterEnd \/ EnterFail \/ PacketFaults
             \/ EnterFinishPacket \/ Throw \/ FinishWithoutData \/ UNCHANGED vars
      PROVE  NoMore
  <2>1. UNCHANGED <<scn, pos, stack, armor, header, readers, output, returned>>
    BY <1>2 DEF EnterInit, EnterArmorDisabled, EnterEnd, EnterFail, PacketFaults,
       EnterFinishPacket, Throw, FinishWithoutData, session, vars
  <2> QED
    BY <1>1, <2>1, QuietCount
<1>3. CASE Update
  <2>1. PICK n \in 1..(Len(scn.wire) - pos) : Feed(n, "update")
    BY <1>3 DEF Update
  <2>2. n \in 0..(Len(scn.wire) - pos)
    BY <1>1
  <2> QED
    BY <2>1, <2>2, FeedCount
<1>4. CASE FinishWithData
  <2> DEFINE n == Len(scn.wire) - pos
  <2>1. n \in 0..(Len(scn.wire) - pos) /\ Feed(n, "finishUpdate")
    BY <1>1, <1>4 DEF FinishWithData
  <2> HIDE DEF n
  <2> QED
    BY <2>1, FeedCount
<1>5. EnterArmor => NoMore
  BY ArmorCount
<1>6. EnterHeader => NoMore
  BY HeaderCount
<1>7. EnterPacket => NoMore
  BY PacketCount
<1> QED
  BY <1>2, <1>3, <1>4, <1>5, <1>6, <1>7, BufferEmptyCount, ReturnCount, Zenon DEF Next, Step

LEMMA StepKeepsCount == ASSUME FullInv, TypeOK', CountInv, [Next]_vars PROVE CountInv'
<1>1. NoMore
  BY StepAddsNone
<1>2. SUFFICES ASSUME NEW C, Lasting(C) PROVE Total(C)' <= Fed(C)'
  BY DEF CountInv
<1>3. Total(C)' + Fed(C) <= Total(C) + Fed(C)' /\ Total(C) <= Fed(C)
  BY <1>1, <1>2 DEF NoMore, CountInv
<1>4. Total(C) \in Nat /\ Fed(C) \in Nat
  BY FedType DEF FullInv, IInv
<1>5. Total(C)' \in Nat /\ Fed(C)' \in Nat
  BY FedNext DEF FedNumbers
<1> QED
  BY <1>3, <1>4, <1>5

\* The count holds in every behaviour.
LEMMA CountInvariance == Spec => [](FullInv /\ CountInv)
<1>1. ASSUME Init PROVE CountInv
  BY <1>1, TypeInit, CountInit DEF IInv
<1>2. FullInv => TypeOK
  BY DEF FullInv, IInv
<1>3. FullInv /\ TypeOK' /\ CountInv /\ [Next]_vars => CountInv'
  BY StepKeepsCount
<1> QED
  BY <1>1, <1>2, <1>3, ChainInvariance, PTL DEF Spec

\* Of a kind of octets, what has been fed holds all that is anywhere.
LEMMA OnTheWire ==
    ASSUME TypeOK, CountInv, NEW k, k # "junk", NEW v
    PROVE  /\ Total(OfKind(k, v)) <= Cardinality(Copies(scn.wire, k, v))
           /\ Total(OfKind(k, v)) <= HowMany(Take(scn.wire, pos), OfKind(k, v))
           /\ Cardinality(Copies(scn.wire, k, v)) \in Nat
<1> DEFINE C == OfKind(k, v)
<1>1. scn.wire \in Seq(Cell) /\ pos \in 0..Len(scn.wire)
  BY ReaderAssumption DEF ReaderAssumption, TypeOK
<1>2. Cardinality(Copies(scn.wire, k, v)) = HowMany(scn.wire, C)
  BY <1>1, CopiesIs
<1>3. Total(C) <= HowMany(Take(scn.wire, pos), C)
  BY KindsLast DEF CountInv, Fed
<1> HIDE DEF C
<1>4. /\ Take(scn.wire, pos) \in Seq(Cell) /\ Drop(scn.wire, pos) \in Seq(Cell)
      /\ HowMany(Take(scn.wire, pos), C) + HowMany(Drop(scn.wire, pos), C) <= HowMany(scn.wire, C)
  BY <1>1, TakeType, TakeDropFewer
<1>5. /\ HowMany(Take(scn.wire, pos), C) \in Nat /\ HowMany(Drop(scn.wire, pos), C) \in Nat
      /\ HowMany(scn.wire, C) \in Nat
  BY <1>1, <1>4, HowManyType
<1>6. Total(C) \in Nat
  BY CountType DEF Total
<1>7. Total(C) <= HowMany(scn.wire, C)
  BY <1>3, <1>4, <1>5, <1>6
<1> QED
  BY <1>2, <1>3, <1>5, <1>7 DEF C

-----------------------------------------------------------------------------
(* What a reader's answer says of its key, its window and its input.       *)

\* The window of the integrity protected packet is full or not yet there.
WindowOK(r) == Len(r.held) = IF r.step = 2 THEN MDCLen ELSE 0

\* The input that fills the window too late.
TooShort(r, fin) == fin /\ r.step < 2 /\ r.step + Len(r.in) <= PrefixLen + MDCLen

SaysOK(r, fin, o) == /\ o.res \notin Faults => WindowOK(o.rd)
                     /\ o.res # "InvalidPassphrase"
                     /\ o.res = "Undefined" => TooShort(r, fin)

\* Behind the version octet, the window is filled at once or never.
LEMMA ReadSEIPDBodySays ==
    ASSUME NEW r \in Reader, r.step > 0, WindowOK(r), NEW fin \in BOOLEAN, NEW key
    PROVE  \A o \in ReadSEIPDBody(r, fin, key) : SaysOK(r, fin, o)
<1> DEFINE n      == SEIPDStep(Len(r.in), fin)
           buf    == Peel(Take(r.in, n))
           rest   == Drop(r.in, n)
           body   == IF r.step = 1 THEN Drop(buf, PrefixLen) ELSE buf
           window == r.held \o body
           cut    == Len(window) - MDCLen
           bad    == At(r, r.step, rest, r.held)
           next   == At(r, 2, rest, Drop(window, cut))
<1>1. SUFFICES ASSUME NEW o \in ReadSEIPDBody(r, fin, key) PROVE SaysOK(r, fin, o)
  OBVIOUS
<1>2. \/ o \in Pending(<<>>, r)
      \/ n # 0 /\ Len(window) < MDCLen /\ o \in Reject("Undefined", r)
      \/ o \in Reject("InvalidSurrogateIV", bad)
      \/ ~(Len(window) < MDCLen) /\ o \in Pending(Take(window, cut), next)
  BY <1>1, Zenon DEF ReadSEIPDBody
<1>3. /\ r.in \in Seq(Cell) /\ r.held \in Seq(Cell) /\ Len(r.in) \in Nat /\ r.step \in 1..2
      /\ PrefixLen \in Nat \ {0} /\ MDCLen \in Nat \ {0}
  BY FieldsType, LenProperties, LayoutAssumption DEF LayoutAssumption
<1>4. n \in 0..Len(r.in)
  BY <1>3, SEIPDStepType
<1>5. fin => n = Len(r.in)
  BY DEF SEIPDStep
<1>6. ~fin => n = 0 \/ n >= PrefixLen + MDCLen
  BY <1>3, WholeType DEF SEIPDStep
<1> HIDE DEF n
<1>7. /\ Take(r.in, n) \in Seq(Cell) /\ Len(Take(r.in, n)) = n
  BY <1>3, <1>4, TakeType
<1>8. buf \in Seq(Cell) /\ Len(buf) = n
  BY <1>7, PeelType
<1> HIDE DEF buf, rest
<1>9. body \in Seq(Cell) /\ (r.step = 1 /\ PrefixLen <= n => Len(body) = n - PrefixLen)
  <2>1. CASE r.step = 1 /\ PrefixLen <= n
    <3>1. PrefixLen \in 0..Len(buf)
      BY <1>3, <1>8, <2>1
    <3> QED
      BY <1>8, <2>1, <3>1, TakeType
  <2>2. CASE r.step = 1 /\ ~(PrefixLen <= n)
    BY <1>3, <1>8, <2>2, DropFewer
  <2>3. CASE r.step # 1
    BY <1>8, <2>3
  <2> QED
    BY <2>1, <2>2, <2>3
<1> HIDE DEF body
<1>10. window \in Seq(Cell) /\ Len(window) = Len(r.held) + Len(body) /\ Len(body) \in Nat
       /\ Len(r.held) \in Nat
  BY <1>3, <1>9, ConcatProperties, LenProperties
<1> HIDE DEF window
<1>11. CASE o \in Pending(<<>>, r)
  BY <1>11 DEF SaysOK, Pending, Outcome, WindowOK
<1>12. CASE o \in Reject("InvalidSurrogateIV", bad)
  <2>1. o.res = "InvalidSurrogateIV" /\ o.rd.step = r.step /\ o.rd.held = r.held
    BY <1>12 DEF Reject, Outcome, At
  <2> QED
    BY <2>1 DEF SaysOK, WindowOK
<1>13. CASE n # 0 /\ Len(window) < MDCLen /\ o \in Reject("Undefined", r)
  <2>1. o.res = "Undefined"
    BY <1>13 DEF Reject, Outcome
  <2>2. r.step = 1
    BY <1>3, <1>10, <1>13 DEF WindowOK
  <2>3. n < PrefixLen + MDCLen
    <3>1. SUFFICES ASSUME n >= PrefixLen + MDCLen PROVE FALSE
      BY <1>3, <1>4
    <3>2. PrefixLen <= n
      BY <1>3, <1>4, <3>1
    <3> QED
      BY <1>3, <1>4, <1>9, <1>10, <1>13, <2>2, <3>1, <3>2
  <2>4. fin /\ n = Len(r.in)
    BY <1>3, <1>4, <1>5, <1>6, <1>13, <2>3
  <2>5. r.step + Len(r.in) <= PrefixLen + MDCLen
    BY <1>3, <2>2, <2>3, <2>4
  <2> QED
    BY <2>1, <2>2, <2>4, <2>5 DEF SaysOK, TooShort, Faults
<1>14. CASE ~(Len(window) < MDCLen) /\ o \in Pending(Take(window, cut), next)
  <2>1. cut \in 0..Len(window)
    BY <1>3, <1>10, <1>14
  <2>2. Len(Drop(window, cut)) = Len(window) - cut
    BY <1>10, <2>1, TakeType
  <2>3. Len(Drop(window, cut)) = MDCLen
    BY <1>3, <1>10, <2>2
  <2>4. o.res = "Pending" /\ o.rd.step = 2 /\ o.rd.held = Drop(window, cut)
    BY <1>14 DEF Pending, Outcome, At
  <2> QED
    BY <2>3, <2>4 DEF SaysOK, WindowOK
<1> QED
  BY <1>2, <1>11, <1>12, <1>13, <1>14

\* A reader with a key reports no missing one, and it uses its window before
\* it is full only when a truncated body ends.
LEMMA ReadSEIPDSays ==
    ASSUME NEW r \in Reader, WindowOK(r), NEW emsg0, emsg0 # "InvalidPassphrase",
           NEW fin \in BOOLEAN, NEW key
    PROVE  \A o \in ReadSEIPD(r, emsg0, fin, key) :
              /\ o.res \notin Faults => WindowOK(o.rd)
              /\ o.res # "InvalidPassphrase"
              /\ o.res = "Undefined" /\ r.keyed => TooShort(r, fin)
<1> DEFINE opened == At(r, 1, Tail(r.in), r.held)
<1>1. SUFFICES ASSUME NEW o \in ReadSEIPD(r, emsg0, fin, key)
               PROVE  /\ o.res \notin Faults => WindowOK(o.rd)
                      /\ o.res # "InvalidPassphrase"
                      /\ o.res = "Undefined" /\ r.keyed => TooShort(r, fin)
  OBVIOUS
<1>2. \/ o \in Reject("UnexpectedFormat", r)
      \/ ~r.keyed /\ o \in Reject("Undefined", r)
      \/ r.step # 0 /\ o \in ReadSEIPDBody(r, fin, key)
      \/ r.step = 0 /\ StartsWith(r.in, "version") /\ o \in ReadSEIPDBody(opened, fin, key)
  BY <1>1, Zenon DEF ReadSEIPD
<1>3. r.step \in 0..2 /\ r.in \in Seq(Cell)
  BY FieldsType
<1>4. CASE o \in Reject("UnexpectedFormat", r)
  BY <1>4 DEF Reject, Outcome, Faults
<1>5. CASE ~r.keyed /\ o \in Reject("Undefined", r)
  BY <1>5 DEF Reject, Outcome, Faults
<1>6. CASE r.step # 0 /\ o \in ReadSEIPDBody(r, fin, key)
  BY <1>3, <1>6, ReadSEIPDBodySays DEF SaysOK
<1>7. CASE r.step = 0 /\ StartsWith(r.in, "version") /\ o \in ReadSEIPDBody(opened, fin, key)
  <2>1. opened \in Reader
    BY <1>7, OpenedKeeps DEF StartsWith
  <2>2. opened.step = 1 /\ opened.in = Tail(r.in) /\ WindowOK(opened)
    BY <1>7 DEF At, WindowOK
  <2> HIDE DEF opened
  <2>3. SaysOK(opened, fin, o)
    BY <1>7, <2>1, <2>2, ReadSEIPDBodySays
  <2>4. TooShort(opened, fin) => TooShort(r, fin)
    <3>1. Len(Tail(r.in)) = Len(r.in) - 1 /\ Len(r.in) \in Nat
      BY <1>3, <1>7, StartsType, HeadTailProperties, LenProperties
    <3> QED
      BY <1>7, <2>2, <3>1, LayoutAssumption DEF TooShort, LayoutAssumption
  <2> QED
    BY <2>3, <2>4 DEF SaysOK
<1> QED
  BY <1>2, <1>4, <1>5, <1>6, <1>7

\* The other readers: only the symmetric packet asks for a key, and none of
\* them has a window.
LEMMA OthersSay ==
    ASSUME NEW t \in ReaderTypes, t # "SEIPD", NEW r \in Reader, NEW emsg0,
           NEW fin \in BOOLEAN, NEW key
    PROVE  \A o \in DoRead(t, r, emsg0, fin, key) :
              /\ o.res = "InvalidPassphrase" => emsg0 = "InvalidPassphrase"
              /\ o.res = "Undefined" => t = "SYM" /\ ~r.keyed
<1>1. SUFFICES ASSUME NEW o \in DoRead(t, r, emsg0, fin, key)
               PROVE  /\ o.res = "InvalidPassphrase" => emsg0 = "InvalidPassphrase"
                      /\ o.res = "Undefined" => t = "SYM" /\ ~r.keyed
  OBVIOUS
<1>2. CASE t = "ESK"
  BY <1>1, <1>2 DEF DoRead, ReadESK, ESKErrors, Reject, Pending, Outcome
<1>3. CASE t = "SYM"
  <2>1. \/ emsg0 = "InvalidPassphrase" /\ o.res = emsg0
        \/ ~r.keyed /\ o.res = "Undefined"
        \/ o.res \in {"Pending", "InvalidSurrogateIV"}
    BY <1>1, <1>3 DEF DoRead, ReadSYM, Reject, Pending, Outcome
  <2> QED
    BY <1>3, <2>1
<1>4. CASE t = "COMP"
  <2>1. \A x \in Reader : \A q \in Inflate(x, fin) : q.res \in {"Pending", "Exception"}
    <3>1. ASSUME NEW x \in Reader, NEW q \in Inflate(x, fin)
          PROVE  q.res \in {"Pending", "Exception"}
      <4>1. q \in Reject("Exception", x) \/ \E out, rd : q \in Pending(out, rd)
        BY <3>1, Zenon DEF Inflate
      <4> QED
        BY <4>1 DEF Reject, Pending, Outcome
    <3> QED
      BY <3>1
  <2>2. o.res \in {"Pending", "Exception", "UnsupportedCompressionAlgo"}
    <3>1. \/ o \in Inflate(r, fin)
          \/ StartsWith(r.in, "algo") /\ o \in Inflate(At(r, 1, Tail(r.in), r.held), fin)
          \/ o \in Reject("UnsupportedCompressionAlgo", r)
      BY <1>1, <1>4, Zenon DEF DoRead, ReadCOMP
    <3>2. StartsWith(r.in, "algo") => At(r, 1, Tail(r.in), r.held) \in Reader
      BY OpenedKeeps DEF StartsWith
    <3> QED
      BY <2>1, <3>1, <3>2 DEF Reject, Outcome
  <2> QED
    BY <2>2
<1>5. CASE t = "LIT"
  BY <1>1, <1>5 DEF DoRead, ReadLIT, ReadLITName, Reject, Pending, Outcome
<1> QED
  BY <1>2, <1>3, <1>4, <1>5 DEF ReaderTypes

-----------------------------------------------------------------------------
(* The invariant behind FinishVerifies and NeverUndefined.                 *)

\* A reader that is not made holds nothing, one that was made with a key has
\* it, and the MDC window is full from the first octet behind it on.
ReaderInv ==
    /\ \A t \in ReaderTypes : ~readers[t].made => readers[t] = NoReader
    /\ Key # "none" => \A t \in Ciphered : readers[t].made => readers[t].keyed
    /\ WindowOK(readers["SEIPD"])

\* An integrity protected packet that was read is in the chain until it is
\* verified, and none is read before something was fed.
Awaited == \E i \in Known : chain[i] = "SEIPD"
SeenInv ==
    /\ readers["SEIPD"].made => Awaited \/ FinishSEIPD(readers["SEIPD"]) = "Success"
    /\ pos = 0 => Known = {} /\ ~readers["SEIPD"].made

\* How Finish comes back.
EndInv ==
    /\ finish /\ st = "End" => Known = {}
    /\ pc = "running" /\ st = "FinishPacket" => emsg = "Success"
    /\ pc = "finished" => /\ finish /\ st \in {"End", "Fail"}
                          /\ failed => emsg = "InvalidPassphrase"

\* Only a session without a key misses one, and unless it analyzes it ends
\* with the first packet that wants it.
Locked == Key = "none" /\ ~scn.analyze /\ \E t \in Ciphered : readers[t].made
LockInv ==
    /\ emsg = "InvalidPassphrase" => Key = "none"
    /\ Locked => /\ st = "Fail" /\ failed /\ emsg = "InvalidPassphrase"
                 /\ pc \in {"running", "thrown"}

VerifyInv == ReaderInv /\ SeenInv /\ EndInv /\ LockInv /\ NeverUndefined

LEMMA VerifyInit == ASSUME Init PROVE VerifyInv
<1>1. /\ \A t \in ReaderTypes : readers[t] = NoReader
      /\ ~NoReader.made /\ NoReader.step = 0 /\ NoReader.held = <<>>
      /\ pc = "idle" /\ finish = FALSE /\ emsg = "None"
      /\ chain = [i \in 1..ChainMax |-> "Unknown"]
  BY DEF Init, NoReader
<1>2. ReaderInv
  BY <1>1 DEF ReaderInv, WindowOK, Ciphered, ReaderTypes
<1>3. SeenInv
  BY <1>1 DEF SeenInv, Known, ReaderTypes
<1>4. EndInv
  BY <1>1 DEF EndInv
<1>5. LockInv
  BY <1>1 DEF LockInv, Locked, Ciphered, ReaderTypes
<1>6. NeverUndefined
  BY <1>1 DEF NeverUndefined
<1> QED
  BY <1>2, <1>3, <1>4, <1>5, <1>6 DEF VerifyInv

\* A step that leaves the chain and the readers alone.
LEMMA QuietVerify ==
    ASSUME VerifyInv, UNCHANGED <<scn, chain, readers>>, pos' = 0 => pos = 0,
           emsg' = "InvalidPassphrase" => emsg = "InvalidPassphrase",
           ~Locked \/ (UNCHANGED <<st, failed, emsg>> /\ pc' \in {"running", "thrown"}),
           EndInv', NeverUndefined'
    PROVE  VerifyInv'
<1>1. ReaderInv'
  BY DEF VerifyInv, ReaderInv, Key
<1>2. SeenInv'
  BY DEF VerifyInv, SeenInv, Awaited, Known
<1>3. LockInv'
  BY DEF VerifyInv, LockInv, Locked, Key
<1> QED
  BY <1>1, <1>2, <1>3 DEF VerifyInv

\* A session that is not locked out goes on.
LEMMA NotLocked ==
    ASSUME LockInv, st # "Fail" \/ pc = "idle"
    PROVE  ~Locked
  BY DEF LockInv

\* The handlers that read no packet and no header.
LEMMA HandlerVerify ==
    ASSUME FullInv, VerifyInv,
           \/ EnterInit \/ EnterArmorDisabled \/ EnterArmor \/ EnterBufferEmpty
           \/ EnterEnd \/ EnterFail
    PROVE  VerifyInv'
<1>1. pc = "running" /\ CanExit(st)
  BY DEF EnterInit, EnterArmorDisabled, EnterArmor, EnterBufferEmpty, EnterEnd, EnterFail,
     Enters, Stuck
<1>2. ~Locked
  BY <1>1, NotLocked DEF CanExit, VerifyInv
<1>3. UNCHANGED <<scn, pos, pc, finish, chain, readers>>
  BY DEF EnterInit, EnterArmorDisabled, EnterArmor, EnterBufferEmpty, EnterEnd, EnterFail,
     session
<1>4. st' \in {"Init", "Armor", "BufferEmpty", "End", "Fail"}
  BY DEF EnterInit, EnterArmorDisabled, EnterArmor, EnterBufferEmpty, EnterEnd, EnterFail,
     Settle
<1>5. emsg' = "InvalidPassphrase" => emsg = "InvalidPassphrase"
  <2>1. CASE EnterArmor
    <3>1. PICK o \in ReadArmor(armor, Top) : emsg' = o.res
      BY <2>1 DEF EnterArmor
    <3>2. ArmorOK(o)
      BY <2>1, StackType, ReadArmorType DEF EnterArmor, FullInv, IInv
    <3> QED
      BY <3>1, <3>2 DEF ArmorOK
  <2>2. CASE ~EnterArmor
    BY <2>2 DEF EnterInit, EnterArmorDisabled, EnterBufferEmpty, EnterEnd, EnterFail, session
  <2> QED
    BY <2>1, <2>2
<1>6. finish /\ st' = "End" => Known = {}
  <2>1. CASE EnterEnd
    <3>1. EndCanEnter
      BY <2>1, EntersFrom DEF EnterEnd, CanEnter, FullInv, IInv
    <3> QED
      BY <3>1 DEF EndCanEnter, Known
  <2>2. CASE ~EnterEnd
    BY <2>2 DEF EnterInit, EnterArmorDisabled, EnterArmor, EnterBufferEmpty, EnterFail, Settle
  <2> QED
    BY <2>1, <2>2
<1>7. EndInv'
  BY <1>1, <1>3, <1>4, <1>6 DEF EndInv, Known
<1>8. NeverUndefined'
  BY <1>1, <1>3 DEF NeverUndefined
<1> QED
  BY <1>2, <1>3, <1>5, <1>7, <1>8, QuietVerify

\* The calls, and how they end.
LEMMA CallVerify ==
    ASSUME FullInv, VerifyInv,
           \/ Update \/ FinishWithData \/ FinishWithoutData \/ Throw \/ Return
    PROVE  VerifyInv'
<1>1. TypeOK /\ Len(scn.wire) \in Nat /\ pos \in 0..Len(scn.wire)
  BY ReaderAssumption, LenProperties DEF ReaderAssumption, FullInv, IInv, TypeOK
<1>2. CASE Update \/ FinishWithData
  <2>1. PICK n \in 0..(Len(scn.wire) - pos) : \E as : Feed(n, as)
    BY <1>1, <1>2 DEF Update, FinishWithData
  <2>2. /\ pc = "idle" /\ pc' = "running" /\ st' = "Start" /\ pos' = pos + n
        /\ UNCHANGED <<scn, finish, emsg, chain, readers>>
    BY <2>1 DEF Feed
  <2>3. ~Locked
    BY <2>2, NotLocked DEF VerifyInv
  <2>4. EndInv' /\ NeverUndefined'
    BY <2>2 DEF EndInv, NeverUndefined
  <2> QED
    BY <1>1, <2>2, <2>3, <2>4, QuietVerify
<1>3. CASE FinishWithoutData
  <2>1. /\ pc = "idle" /\ pc' = "running" /\ st' = "Start"
        /\ UNCHANGED <<scn, pos, emsg, chain, readers>>
    BY <1>3 DEF FinishWithoutData, FinishPass, session
  <2>2. ~Locked
    BY <2>1, NotLocked DEF VerifyInv
  <2>3. EndInv' /\ NeverUndefined'
    BY <2>1 DEF EndInv, NeverUndefined
  <2> QED
    BY <2>1, <2>2, <2>3, QuietVerify
<1>4. CASE Throw
  <2>1. pc' = "thrown" /\ UNCHANGED <<scn, pos, st, failed, finish, emsg, chain, readers>>
    BY <1>4 DEF Throw, session
  <2>2. EndInv' /\ NeverUndefined'
    BY <2>1 DEF VerifyInv, EndInv, NeverUndefined, Known
  <2> QED
    BY <2>1, <2>2, QuietVerify
<1>5. CASE Return
  <2>1. /\ pc = "running" /\ ~CanExit(st) /\ ~Throws
        /\ UNCHANGED <<scn, pos, emsg, chain, readers>>
    BY <1>5 DEF Return, Returning
  <2>2. ~Locked
    <3>1. SUFFICES ASSUME Locked PROVE FALSE
      OBVIOUS
    <3>2. failed /\ ~scn.analyze
      BY <3>1 DEF VerifyInv, LockInv, Locked
    <3> QED
      BY <2>1, <3>2 DEF Throws
  <2>3. failed => emsg = "InvalidPassphrase"
    BY <2>1 DEF Throws
  <2>4. st \in {"End", "Fail"}
    BY <2>1 DEF CanExit, FullInv, IInv, TypeOK, ControlInv, VerifyInv, EndInv
  <2>5. (finish <=> call = "finishPass") /\ finish \in BOOLEAN
        /\ call \in {"update", "finishUpdate", "finishPass"}
    BY <1>1, <2>1 DEF FullInv, IInv, TypeOK, ControlInv
  <2>6. \/ pc' = "idle" /\ UNCHANGED <<call, st, failed, finish>>
        \/ st' = "Start" /\ pc' = "running"
        \/ /\ pc' = "finished" /\ finish
           /\ UNCHANGED <<call, st, failed, finish>>
    BY <1>5, <2>5 DEF Return, FinishPass
  <2>7. EndInv' /\ NeverUndefined'
    BY <2>1, <2>3, <2>4, <2>6 DEF VerifyInv, EndInv, NeverUndefined, Known
  <2> QED
    BY <2>1, <2>2, <2>7, QuietVerify
<1> QED
  BY <1>2, <1>3, <1>4, <1>5

\* A header that can be read was fed.
LEMMA HeaderFed ==
    ASSUME TypeOK, CountInv, NEW t \in PacketTypes, StartsWith(header.in \o Top, t)
    PROVE  pos # 0
<1> DEFINE in == header.in \o Top
           v  == in[1].val
           C  == OfKind(t, v)
<1>1. header.in \in Seq(Cell) /\ Top \in Seq(Cell) /\ in \in Seq(Cell)
  BY StackType, ConcatProperties DEF TypeOK
<1>2. HowMany(in, C) <= HowMany(header.in, C) + HowMany(Top, C)
  BY <1>1, HowManyConcat
<1>3. StartsWith(in, t) /\ t # "junk"
  BY DEF PacketTypes, ReaderTypes
<1> HIDE DEF in
<1>4. 1 \in 1..Len(in) /\ in[1] \in Cell /\ in[1].kind = t
  BY <1>1, <1>3, StartsType, LenProperties, ElementOfSeq DEF StartsWith, Readable
<1>5. 1 \in Where(in, C)
  BY <1>1, <1>4, HowManyType DEF OfKind
<1> HIDE DEF C
<1>6. HowMany(in, C) # 0 /\ HowMany(in, C) \in Nat
  BY <1>1, <1>5, HowManyType, FS_EmptySet DEF HowMany
<1>7. Total(C) <= HowMany(Take(scn.wire, pos), C)
  BY <1>3, OnTheWire DEF C
<1>8. /\ HowMany(header.in, C) \in Nat /\ HowMany(Top, C) \in Nat
      /\ HowMany(armor.buf, C) \in Nat /\ Reading(C) \in Nat /\ Given(C) \in Nat
  BY CountType
<1>9. Total(C) = (HowMany(Top, C) + HowMany(armor.buf, C) + HowMany(header.in, C))
                 + Reading(C) + Given(C)
  BY DEF Total, Waiting
<1>10. SUFFICES ASSUME pos = 0 PROVE FALSE
  OBVIOUS
<1>11. Take(scn.wire, pos) = <<>>
  <2>1. scn.wire \in Seq(Cell)
    BY ReaderAssumption DEF ReaderAssumption, TypeOK
  <2>2. 0 \in 0..Len(scn.wire)
    BY <2>1, LenProperties
  <2>3. Take(scn.wire, 0) \in Seq(Cell) /\ Len(Take(scn.wire, 0)) = 0
    BY <2>1, <2>2, TakeType
  <2> QED
    BY <1>10, <2>3, EmptySeq
<1>12. HowMany(<<>>, C) = 0
  BY LoadType
<1>13. Total(C) <= 0
  BY <1>7, <1>11, <1>12
<1> HIDE DEF HowMany
<1> QED
  BY <1>2, <1>6, <1>8, <1>9, <1>13

\* HeaderOnEnter puts a new packet where none was.
LEMMA HeaderVerify == ASSUME FullInv, CountInv, VerifyInv, EnterHeader PROVE VerifyInv'
<1> DEFINE in   == header.in \o Top
           wait == Len(in) < HeaderMax /\ ~finish
           type == IF \E t \in PacketTypes : StartsWith(in, t)
                   THEN in[1].kind ELSE "Unknown"
           res  == IF wait THEN "Pending"
                   ELSE IF type = "Unknown" THEN "UnsupportedPacketType"
                   ELSE "Success"
<1>1. /\ emsg' = res
      /\ IF res = "Success" /\ it = EndIt
         THEN pc' = "undefined" /\ UNCHANGED chain
         ELSE /\ UNCHANGED pc
              /\ chain' = IF res = "Success" THEN [chain EXCEPT ![it] = type] ELSE chain
      /\ Settle("Header", Rejected(res))
      /\ UNCHANGED <<scn, pos, finish, it, readers>>
  BY Zenon DEF EnterHeader
<1>2. TypeOK /\ pc = "running" /\ st # "Fail" /\ it \notin Known
  BY HeaderPlace DEF EnterHeader, FullInv, IInv
<1>3. ~Locked
  BY <1>2, NotLocked DEF VerifyInv
<1>4. res = "Success" => pos # 0 /\ type # "Unknown"
  <2>1. SUFFICES ASSUME res = "Success" PROVE pos # 0 /\ type # "Unknown"
    OBVIOUS
  <2>2. type # "Unknown"
    BY <2>1
  <2>3. PICK t \in PacketTypes : StartsWith(in, t)
    BY <2>2
  <2> QED
    BY <1>2, <2>2, <2>3, HeaderFed
<1>5. res \in {"Pending", "UnsupportedPacketType", "Success"}
  OBVIOUS
<1> HIDE DEF res, type
<1>6. it = EndIt \/ it \in 1..ChainMax
  BY <1>2, Places
<1>7. chain' = chain \/ (res = "Success" /\ it \in 1..ChainMax /\ chain' = [chain EXCEPT ![it] = type])
  BY <1>1, <1>6
<1>8. ReaderInv'
  BY <1>1 DEF VerifyInv, ReaderInv, Key
<1>9. SeenInv'
  <2>1. CASE chain' = chain
    BY <1>1, <2>1 DEF VerifyInv, SeenInv, Awaited, Known
  <2>2. CASE res = "Success" /\ it \in 1..ChainMax /\ chain' = [chain EXCEPT ![it] = type]
    <3>1. /\ \A i \in 1..ChainMax : i # it => chain'[i] = chain[i]
          /\ Known' = Known \cup {it}
      BY <1>2, <1>4, <2>2, PlaceSet
    <3>2. Awaited => Awaited'
      BY <1>2, <3>1 DEF Awaited, Known
    <3>3. pos' # 0
      BY <1>1, <1>4, <2>2
    <3> QED
      BY <1>1, <3>2, <3>3 DEF VerifyInv, SeenInv
  <2> QED
    BY <1>7, <2>1, <2>2
<1>10. EndInv'
  BY <1>1, <1>2 DEF Settle, EndInv
<1>11. LockInv'
  BY <1>1, <1>3, <1>5 DEF LockInv, Locked, Key
<1>12. NeverUndefined'
  <2>1. pc' = "undefined" => it' >= ChainMax
    BY <1>1, <1>2, Places
  <2> QED
    BY <2>1 DEF NeverUndefined
<1> QED
  BY <1>8, <1>9, <1>10, <1>11, <1>12 DEF VerifyInv

\* FinishOnEnter takes an integrity protected packet out of the chain only
\* when it is verified.
LEMMA FinishPacketVerify ==
    ASSUME FullInv, VerifyInv, EnterFinishPacket
    PROVE  VerifyInv'
<1> DEFINE res == DoFinish(Current, readers[Current])
<1>1. /\ emsg' = res
      /\ IF Rejected(res) THEN UNCHANGED <<chain, it>> ELSE LeavePacket
      /\ Settle("FinishPacket", Rejected(res))
      /\ UNCHANGED <<scn, pos, pc, finish, readers>>
  BY Zenon DEF EnterFinishPacket
<1>2. /\ res \in {"Success", "UnexpectedFormat", "MDCError"}
      /\ Current = "SEIPD" => res = FinishSEIPD(readers["SEIPD"])
  BY DEF DoFinish, FinishSEIPD
<1> HIDE DEF res
<1>3. TypeOK /\ pc = "running" /\ st = "Packet" /\ finish /\ Current # "Unknown"
  BY EntersFrom DEF EnterFinishPacket, FullInv, IInv, CanEnter, FinishCanEnter
<1>4. it \in 1..ChainMax /\ it \in Known /\ Current = chain[it]
  <2>1. it \in Known
    BY <1>3, OnKnown DEF FullInv, IInv, ControlInv
  <2> QED
    BY <1>3, <2>1, Places DEF Current, Known
<1>5. ~Locked
  BY <1>3, NotLocked DEF VerifyInv
<1>6. ReaderInv'
  BY <1>1 DEF VerifyInv, ReaderInv, Key
<1>7. SeenInv'
  <2>1. CASE Rejected(res)
    BY <1>1, <2>1 DEF VerifyInv, SeenInv, Awaited, Known
  <2>2. CASE ~Rejected(res)
    <3>1. res = "Success" /\ chain' = [chain EXCEPT ![it] = "Unknown"]
      BY <1>1, <1>2, <2>2 DEF Rejected, LeavePacket
    <3>2. /\ \A i \in 1..ChainMax : i # it => chain'[i] = chain[i]
          /\ Known' = Known \ {it}
      BY <1>3, <1>4, <3>1, PlaceSet
    <3>3. pos # 0
      BY <1>4 DEF VerifyInv, SeenInv
    <3>4. CASE Current = "SEIPD"
      BY <1>1, <1>2, <3>1, <3>3, <3>4 DEF SeenInv
    <3>5. CASE Current # "SEIPD"
      <4>1. Awaited => Awaited'
        BY <1>4, <3>2, <3>5 DEF Awaited, Known
      <4> QED
        BY <1>1, <3>3, <4>1 DEF VerifyInv, SeenInv
    <3> QED
      BY <3>4, <3>5
  <2> QED
    BY <2>1, <2>2
<1>8. EndInv'
  BY <1>1, <1>2, <1>3 DEF Settle, EndInv, Rejected
<1>9. LockInv'
  BY <1>1, <1>2, <1>5 DEF LockInv, Locked, Key
<1>10. NeverUndefined'
  BY <1>1, <1>3 DEF NeverUndefined
<1> QED
  BY <1>6, <1>7, <1>8, <1>9, <1>10 DEF VerifyInv

\* The reader a packet gets goes on where it was, with its key.
LEMMA FedSays ==
    ASSUME TypeOK, ReaderInv, NEW t \in ReaderTypes
    PROVE  LET r   == GetOrCreatePacket(t)
               fed == At(r, r.step, r.in \o Top, r.held)
           IN  /\ fed \in Reader /\ fed.made
               /\ fed.step = readers[t].step /\ fed.in = readers[t].in \o Top
               /\ fed.held = readers[t].held
               /\ Key # "none" /\ t \in Ciphered => fed.keyed
               /\ t = "SEIPD" => WindowOK(fed)
<1> DEFINE r   == GetOrCreatePacket(t)
           fed == At(r, r.step, r.in \o Top, r.held)
<1>1. fed \in Reader
  BY PacketReaderType
<1>2. readers[t] \in Reader
  BY DEF TypeOK
<1>3. /\ r.made /\ r.step = readers[t].step /\ r.in = readers[t].in /\ r.held = readers[t].held
      /\ Key # "none" /\ t \in Ciphered => r.keyed
  <2>1. CASE IsNew(t)
    <3>1. readers[t] = NoReader
      BY <2>1 DEF IsNew, ReaderInv
    <3> QED
      BY <2>1, <3>1 DEF GetOrCreatePacket, NoKey, NoReader
  <2>2. CASE ~IsNew(t)
    <3>1. r = readers[t] /\ readers[t].made
      BY <2>2 DEF GetOrCreatePacket, IsNew
    <3> QED
      BY <3>1 DEF ReaderInv
  <2> QED
    BY <2>1, <2>2
<1> HIDE DEF r
<1>4. /\ fed.made = r.made /\ fed.step = r.step /\ fed.in = r.in \o Top /\ fed.held = r.held
      /\ fed.keyed = r.keyed
  BY DEF At
<1> HIDE DEF fed
<1>5. t = "SEIPD" => WindowOK(fed)
  BY <1>3, <1>4 DEF ReaderInv, WindowOK
<1> QED
  BY <1>1, <1>3, <1>4, <1>5 DEF fed, r

\* A packet that wants a key is refused when its reader is made without one.
LEMMA LockedOut ==
    ASSUME NEW t \in Ciphered, NEW r, NEW fin, NEW key,
           NEW o \in DoRead(t, r, "InvalidPassphrase", fin, key)
    PROVE  o.res = "InvalidPassphrase" /\ o.rd = r
<1>1. CASE t = "SEIPD"
  BY <1>1 DEF DoRead, ReadSEIPD, Reject, Outcome
<1>2. CASE t = "SYM"
  BY <1>2 DEF DoRead, ReadSYM, Reject, Outcome
<1> QED
  BY <1>1, <1>2 DEF Ciphered

\* The faults of PacketOnEnter are the ones that NeverUndefined names.
LEMMA PacketFaultsVerify == ASSUME FullInv, VerifyInv, PacketFaults PROVE VerifyInv'
<1>1. /\ pc' \in {"thrown", "undefined"}
      /\ UNCHANGED <<scn, pos, st, failed, finish, emsg, stack, chain, it, armor, readers>>
  BY Zenon DEF PacketFaults, session
<1>2. /\ TypeOK /\ pc = "running" /\ st # "Fail" /\ it # EndIt /\ Current # "Unknown"
      /\ it \in Known
  <2>1. pc = "running" /\ st # "Fail" /\ it # EndIt /\ Current # "Unknown"
    BY EntersFrom, PacketFrom DEF PacketFaults, FullInv, IInv, CanEnter, PacketCanEnter
  <2> QED
    BY <2>1, OnKnown DEF FullInv, IInv
<1>3. ~Locked
  BY <1>2, NotLocked DEF VerifyInv
<1>4. Current \in PacketTypes /\ it \in 1..ChainMax
  BY <1>2, Places DEF Current, Known
<1>5. pc' = "undefined" => \/ it >= ChainMax
                           \/ Current = "MDC"
                           \/ Key = "none" /\ scn.analyze /\ Current \in Ciphered
                           \/ KnownKey /\ readers["ESK"].step = 0
                           \/ TruncatedWindow
  <2> DEFINE t == Current
             r == GetOrCreatePacket(t)
             e == IF NoKey(t) THEN "InvalidPassphrase" ELSE emsg
             fed == At(r, r.step, r.in \o Top, r.held)
  <2>1. \/ t \notin ReaderTypes
        \/ t \in ReaderTypes /\ Unconfigured(t) /\ pc' = IF KnownKey THEN "undefined" ELSE "thrown"
        \/ /\ t \in ReaderTypes
           /\ \E o \in DoRead(t, fed, e, finish, Key) :
                 /\ o.res \in Faults \/ Overflows(t, o)
                 /\ pc' = IF o.res = "Exception" THEN "thrown" ELSE "undefined"
    BY Zenon DEF PacketFaults
  <2>2. CASE t \notin ReaderTypes
    BY <1>4, <2>2 DEF PacketTypes
  <2>3. CASE t \in ReaderTypes /\ Unconfigured(t) /\ pc' = IF KnownKey THEN "undefined" ELSE "thrown"
    BY <2>3 DEF Unconfigured
  <2>4. CASE /\ t \in ReaderTypes
             /\ \E o \in DoRead(t, fed, e, finish, Key) :
                   /\ o.res \in Faults \/ Overflows(t, o)
                   /\ pc' = IF o.res = "Exception" THEN "thrown" ELSE "undefined"
    <3>1. PICK o \in DoRead(t, fed, e, finish, Key) :
             /\ o.res \in Faults \/ Overflows(t, o)
             /\ pc' = IF o.res = "Exception" THEN "thrown" ELSE "undefined"
      BY <2>4
    <3>2. t \in ReaderTypes /\ finish \in BOOLEAN
      BY <1>2, <2>4 DEF TypeOK
    <3>3. /\ fed \in Reader
          /\ fed.step = readers[t].step /\ fed.in = readers[t].in \o Top
          /\ Key # "none" /\ t \in Ciphered => fed.keyed
          /\ t = "SEIPD" => WindowOK(fed)
      BY <1>2, <3>2, FedSays DEF VerifyInv
    <3>4. ASSUME Overflows(t, o) PROVE it >= ChainMax
      BY <1>4, <3>4 DEF Overflows
    <3>5. ASSUME o.res = "Undefined", Key = "none"
          PROVE  scn.analyze /\ t \in Ciphered
      <4>1. t \in Ciphered
        BY <3>1, <3>2, <3>3, <3>5, OthersSay DEF Ciphered
      <4>2. SUFFICES ASSUME ~scn.analyze PROVE FALSE
        BY <4>1
      <4>3. e = "InvalidPassphrase"
        BY <1>3, <3>5, <4>1, <4>2 DEF Locked, NoKey, IsNew
      <4> HIDE DEF e, fed
      <4> QED
        BY <3>1, <3>5, <4>1, <4>3, LockedOut
    <3>6. ASSUME o.res = "Undefined", Key # "none" PROVE TruncatedWindow
      <4>1. e = emsg /\ emsg # "InvalidPassphrase"
        BY <3>6 DEF NoKey, VerifyInv, LockInv
      <4> HIDE DEF e, fed
      <4>2. t = "SEIPD"
        <5>1. SUFFICES ASSUME t # "SEIPD" PROVE FALSE
          OBVIOUS
        <5>2. t = "SYM" /\ ~fed.keyed
          BY <3>1, <3>2, <3>3, <3>6, <5>1, OthersSay
        <5> QED
          BY <3>3, <3>6, <5>2 DEF Ciphered
      <4>3. o \in ReadSEIPD(fed, emsg, finish, Key)
        BY <3>1, <4>1, <4>2 DEF DoRead
      <4>4. fed.keyed /\ WindowOK(fed)
        BY <3>3, <3>6, <4>2 DEF Ciphered
      <4>5. TooShort(fed, finish)
        BY <3>2, <3>3, <3>6, <4>1, <4>3, <4>4, ReadSEIPDSays
      <4> QED
        BY <3>3, <4>2, <4>5 DEF TooShort, TruncatedWindow
    <3>7. pc' = "undefined" => o.res = "Undefined" \/ Overflows(t, o)
      BY <3>1 DEF Faults
    <3> HIDE DEF t
    <3> QED
      BY <3>4, <3>5, <3>6, <3>7 DEF t
  <2> QED
    BY <2>1, <2>2, <2>3, <2>4
<1>6. NeverUndefined'
  <2>1. /\ (it >= ChainMax)' <=> it >= ChainMax
        /\ Current' = Current /\ Key' = Key /\ KnownKey' = KnownKey
        /\ TruncatedWindow' <=> TruncatedWindow
    BY <1>1 DEF Current, EndIt, Key, KnownKey, TruncatedWindow, Top
  <2> QED
    BY <1>1, <1>5, <2>1 DEF NeverUndefined
<1>7. EndInv'
  BY <1>1 DEF VerifyInv, EndInv, Known
<1> QED
  BY <1>1, <1>3, <1>6, <1>7, QuietVerify

\* PacketOnEnter: the packet stays in the chain, unless it is a session key,
\* and its reader keeps its key and its window.
LEMMA PacketVerify == ASSUME FullInv, VerifyInv, EnterPacket PROVE VerifyInv'
<1> DEFINE t == Current
           r == GetOrCreatePacket(t)
           e == IF NoKey(t) THEN "InvalidPassphrase" ELSE emsg
           fed == At(r, r.step, r.in \o Top, r.held)
<1>1. PICK o \in DoRead(t, fed, e, finish, Key) :
         /\ o.res \notin Faults /\ emsg' = o.res
         /\ PacketAccepts(t, o) \/ PacketRejects(t, o)
  BY Zenon DEF EnterPacket
<1>2. /\ TypeOK /\ pc = "running" /\ st # "Fail" /\ it \in Known
  <2>1. pc = "running" /\ st # "Fail" /\ it # EndIt /\ Current # "Unknown"
    BY EntersFrom, PacketFrom DEF EnterPacket, FullInv, IInv, CanEnter, PacketCanEnter
  <2> QED
    BY <2>1, OnKnown DEF FullInv, IInv
<1>3. it \in 1..ChainMax /\ t = chain[it]
  BY <1>2, Places DEF Current, Known
<1>4. ~Locked /\ pos # 0
  BY <1>2, NotLocked DEF VerifyInv, SeenInv
<1>5. t \in ReaderTypes /\ e \in Results /\ finish \in BOOLEAN
  BY <1>2 DEF EnterPacket, TypeOK, Results, Errors
<1>6. /\ fed \in Reader /\ fed.made
      /\ Key # "none" /\ t \in Ciphered => fed.keyed
      /\ t = "SEIPD" => WindowOK(fed)
  BY <1>2, <1>5, FedSays DEF VerifyInv
<1>7. e = "InvalidPassphrase" => Key = "none"
  BY DEF NoKey, VerifyInv, LockInv
<1>8. ~scn.analyze /\ Key = "none" /\ t \in Ciphered => e = "InvalidPassphrase"
  BY <1>4 DEF Locked, NoKey, IsNew
<1> HIDE DEF e, fed, r
<1>9. OutcomeOK(o) /\ (o.res = "Success" => t = "ESK")
  BY <1>1, <1>5, <1>6, DoReadType
<1>10. o.rd.made /\ o.rd.keyed = fed.keyed
  BY <1>1, <1>5, <1>6, DoReadStays DEF Stays
<1>11. t = "SEIPD" => WindowOK(o.rd)
  <2>1. SUFFICES ASSUME t = "SEIPD" PROVE WindowOK(o.rd)
    OBVIOUS
  <2>2. CASE e = "InvalidPassphrase"
    <3>1. o.rd = fed
      BY <1>1, <2>1, <2>2, LockedOut DEF Ciphered
    <3> QED
      BY <1>6, <2>1, <3>1
  <2>3. CASE e # "InvalidPassphrase"
    <3>1. o \in ReadSEIPD(fed, e, finish, Key)
      BY <1>1, <2>1 DEF DoRead
    <3> QED
      BY <1>1, <1>5, <1>6, <2>1, <2>3, <3>1, ReadSEIPDSays
  <2> QED
    BY <2>2, <2>3
<1>12. o.res = "InvalidPassphrase" => Key = "none"
  <2>1. CASE t = "SEIPD" /\ e # "InvalidPassphrase"
    <3>1. o \in ReadSEIPD(fed, e, finish, Key)
      BY <1>1, <2>1 DEF DoRead
    <3> QED
      BY <1>5, <1>6, <2>1, <3>1, ReadSEIPDSays
  <2>2. CASE t # "SEIPD"
    BY <1>1, <1>5, <1>6, <1>7, <2>2, OthersSay
  <2> QED
    BY <1>7, <2>1, <2>2
<1>13. ASSUME ~scn.analyze, Key = "none", t \in Ciphered
       PROVE  o.res = "InvalidPassphrase"
  BY <1>1, <1>8, <1>13, LockedOut
<1> DEFINE done == At(o.rd, o.rd.step, <<>>, o.rd.held)
<1>14. \E rd : /\ rd \in {o.rd, done} /\ (t # "ESK" => rd = o.rd)
               /\ readers' = [readers EXCEPT ![t] = rd]
  BY <1>1, <1>9 DEF PacketAccepts, PacketRejects
<1>15. PICK rd : /\ rd \in {o.rd, done} /\ (t # "ESK" => rd = o.rd)
                 /\ readers' = [readers EXCEPT ![t] = rd]
  BY <1>14
<1>16. rd.made /\ rd.keyed = fed.keyed
  BY <1>10, <1>15, AtStays
<1> HIDE DEF done
<1>17. /\ readers'[t] = rd /\ \A u \in ReaderTypes : u # t => readers'[u] = readers[u]
       /\ UNCHANGED <<scn, pos, pc, finish>>
  <2>1. readers \in [ReaderTypes -> Reader]
    BY <1>2 DEF TypeOK
  <2>2. UNCHANGED <<scn, pos, pc, finish>>
    BY DEF EnterPacket
  <2> QED
    BY <1>5, <1>15, <2>1, <2>2
<1>18. chain' = chain \/ (t = "ESK" /\ chain' = [chain EXCEPT ![it] = "Unknown"])
  BY <1>1, <1>9 DEF PacketAccepts, PacketRejects
<1>19. \/ st' = "Packet"
       \/ st' = "Fail" /\ failed' /\ Rejected(o.res)
  BY <1>1 DEF PacketAccepts, PacketRejects, Settle
<1>20. o.res = "InvalidPassphrase" => st' = "Fail" /\ failed'
  BY <1>1 DEF PacketAccepts, PacketRejects, Settle, Rejected
<1> HIDE DEF t
<1>21. ReaderInv'
  <2>1. \A u \in ReaderTypes : ~readers'[u].made => readers'[u] = NoReader
    BY <1>16, <1>17 DEF VerifyInv, ReaderInv
  <2>2. Key # "none" => \A u \in Ciphered : readers'[u].made => readers'[u].keyed
    BY <1>6, <1>16, <1>17 DEF VerifyInv, ReaderInv, Ciphered, ReaderTypes
  <2>3. WindowOK(readers'["SEIPD"])
    BY <1>11, <1>15, <1>17 DEF VerifyInv, ReaderInv, ReaderTypes
  <2>4. Key' = Key
    BY <1>17 DEF Key
  <2> QED
    BY <2>1, <2>2, <2>3, <2>4 DEF ReaderInv, WindowOK
<1>22. SeenInv'
  <2>1. Awaited => Awaited'
    <3>1. CASE chain' = chain
      BY <3>1 DEF Awaited, Known
    <3>2. CASE t = "ESK" /\ chain' = [chain EXCEPT ![it] = "Unknown"]
      <4>1. /\ \A i \in 1..ChainMax : i # it => chain'[i] = chain[i]
            /\ Known' = Known \ {it}
        BY <1>2, <1>3, <3>2, PlaceSet
      <4> QED
        BY <1>3, <3>2, <4>1 DEF Awaited, Known
    <3> QED
      BY <1>18, <3>1, <3>2
  <2>2. t = "SEIPD" => Awaited
    BY <1>2, <1>3 DEF Awaited
  <2>3. t # "SEIPD" => readers'["SEIPD"] = readers["SEIPD"]
    BY <1>17 DEF ReaderTypes
  <2> QED
    BY <1>4, <1>17, <2>1, <2>2, <2>3 DEF VerifyInv, SeenInv
<1>23. EndInv'
  BY <1>2, <1>17, <1>19 DEF EndInv
<1>24. LockInv'
  <2>1. emsg' = "InvalidPassphrase" => Key' = "none"
    BY <1>1, <1>12, <1>17 DEF Key
  <2>2. ASSUME Locked'
        PROVE  st' = "Fail" /\ failed' /\ emsg' = "InvalidPassphrase"
    <3>1. Key = "none" /\ ~scn.analyze
      BY <1>17, <2>2 DEF Locked, Key
    <3>2. t \in Ciphered
      BY <1>4, <1>17, <2>2, <3>1 DEF Locked, Ciphered, ReaderTypes
    <3> QED
      BY <1>1, <1>13, <1>20, <3>1, <3>2
  <2> QED
    BY <1>2, <1>17, <2>1, <2>2 DEF LockInv
<1>25. NeverUndefined'
  BY <1>2, <1>17 DEF NeverUndefined
<1> QED
  BY <1>21, <1>22, <1>23, <1>24, <1>25 DEF VerifyInv

-----------------------------------------------------------------------------
(* The theorems.                                                           *)

LEMMA StepKeepsVerify ==
    ASSUME FullInv, CountInv, VerifyInv, [Next]_vars
    PROVE  VerifyInv'
<1>1. CASE UNCHANGED vars
  <2>1. UNCHANGED <<scn, pos, pc, call, st, failed, finish, emsg, chain, it, readers, stack>>
    BY <1>1 DEF vars, session
  <2>2. EndInv'
    BY <2>1 DEF VerifyInv, EndInv, Known
  <2>3. /\ Current' = Current /\ Key' = Key /\ KnownKey' = KnownKey
        /\ TruncatedWindow' = TruncatedWindow
    BY <2>1 DEF Current, Key, KnownKey, TruncatedWindow, EndIt, Top
  <2>4. NeverUndefined'
    BY <2>1, <2>3 DEF VerifyInv, NeverUndefined
  <2>5. ~Locked \/ (UNCHANGED <<st, failed, emsg>> /\ pc' \in {"running", "thrown"})
    BY <2>1 DEF VerifyInv, LockInv
  <2> QED
    BY <2>1, <2>2, <2>4, <2>5, QuietVerify
<1>2. EnterHeader => VerifyInv'
  BY HeaderVerify
<1>3. EnterPacket => VerifyInv'
  BY PacketVerify
<1>4. \/ EnterInit \/ EnterArmorDisabled \/ EnterArmor \/ EnterBufferEmpty
      \/ EnterEnd \/ EnterFail
      => VerifyInv'
  BY HandlerVerify
<1>5. Update \/ FinishWithData \/ FinishWithoutData \/ Throw \/ Return => VerifyInv'
  BY CallVerify
<1> QED
  BY <1>1, <1>2, <1>3, <1>4, <1>5, PacketFaultsVerify, FinishPacketVerify, Zenon DEF Next, Step

LEMMA VerifyInvariance == Spec => [](FullInv /\ CountInv /\ VerifyInv)
<1>1. Init => VerifyInv
  BY VerifyInit
<1>2. FullInv /\ CountInv /\ VerifyInv /\ [Next]_vars => VerifyInv'
  BY StepKeepsVerify
<1> QED
  BY <1>1, <1>2, CountInvariance, PTL DEF Spec

\* The ways a handler runs into undefined behaviour are the five that are
\* named, for every message: no reader but that of an encrypted packet uses a
\* cipher, and that of a session with a key has one; the MDC window is filled
\* before it is used, unless a truncated body is finished.
THEOREM UndefinedWays == Spec => []NeverUndefined
  BY VerifyInvariance, PTL DEF VerifyInv

\* A window that FinishSEIPD accepts holds the octets of an MDC.
LEMMA VerifiedHolds ==
    ASSUME NEW r \in Reader, FinishSEIPD(r) = "Success"
    PROVE  MDCLen - 1 <= HowMany(r.held, OfKind("sha", 0))
<1> DEFINE C == OfKind("sha", 0)
<1>1. /\ r.held \in Seq(Cell) /\ MDCLen \in Nat \ {0}
  BY FieldsType, LayoutAssumption DEF LayoutAssumption
<1>2. Len(r.held) = MDCLen /\ \A i \in 2..MDCLen : Readable(r.held[i], "sha") /\ r.held[i].val = 0
  BY DEF FinishSEIPD
<1>3. \A i \in 2..MDCLen : r.held[i] \in C
  BY <1>1, <1>2, ElementOfSeq DEF OfKind, Readable
<1> HIDE DEF C
<1>4. 2..MDCLen \subseteq Where(r.held, C) /\ IsFiniteSet(Where(r.held, C))
  BY <1>1, <1>2, <1>3, HowManyType
<1>5. IsFiniteSet(2..MDCLen) /\ Cardinality(2..MDCLen) = MDCLen - 1
  <2>1. CASE MDCLen = 1
    BY <1>1, <2>1, FS_Interval
  <2>2. CASE MDCLen # 1
    BY <1>1, <2>2, FS_Interval
  <2> QED
    BY <2>1, <2>2
<1>6. Cardinality(2..MDCLen) <= Cardinality(Where(r.held, C))
  BY <1>4, FS_Subset
<1> QED
  BY <1>5, <1>6 DEF HowMany, C

\* A Finish that returned normally, with a key, went over every packet that
\* was read: the one with an MDC accepted it.
LEMMA FinishedAccepts ==
    ASSUME FullInv, VerifyInv, pc = "finished", Key # "none", readers["SEIPD"].made
    PROVE  FinishSEIPD(readers["SEIPD"]) = "Success"
<1>1. TypeOK
  BY DEF FullInv, IInv
<1>2. finish /\ st \in {"End", "Fail"} /\ ~failed
  BY DEF VerifyInv, EndInv, LockInv
<1>3. st = "End"
  <2>1. SUFFICES ASSUME st = "Fail" PROVE FALSE
    BY <1>2
  <2>2. scn.wire = <<>>
    BY <1>2, <2>1 DEF FullInv, ChainInv, FailIsReported
  <2>3. pos = 0
    BY <1>1, <2>2 DEF TypeOK
  <2> QED
    BY <2>3 DEF VerifyInv, SeenInv
<1> QED
  BY <1>2, <1>3 DEF VerifyInv, EndInv, SeenInv, Awaited

\* Finish never comes back normally, with a key, from a message in which an
\* integrity protected packet was read and not verified: whatever is around
\* that packet, and however the message is cut and damaged, the octets of its
\* MDC were on the wire.
THEOREM MessagesVerified == Spec => []FinishVerifies
<1>1. ASSUME FullInv, CountInv, VerifyInv PROVE FinishVerifies
  <2> DEFINE C == OfKind("sha", 0)
             r == readers["SEIPD"]
  <2>1. SUFFICES ASSUME pc = "finished", r.made, Key # "none"
                 PROVE  Cardinality(Copies(scn.wire, "sha", 0)) >= MDCLen - 1
    BY DEF FinishVerifies
  <2>2. TypeOK /\ readers \in [ReaderTypes -> Reader] /\ r \in Reader
    BY <1>1 DEF FullInv, IInv, TypeOK, ReaderTypes
  <2>5. FinishSEIPD(r) = "Success"
    BY <1>1, <2>1, FinishedAccepts
  <2> HIDE DEF r
  <2>6. MDCLen - 1 <= HowMany(r.held, C)
    BY <2>2, <2>5, VerifiedHolds
  <2>7. Total(C) <= Cardinality(Copies(scn.wire, "sha", 0))
        /\ Cardinality(Copies(scn.wire, "sha", 0)) \in Nat
    BY <1>1, <2>2, OnTheWire
  <2> HIDE DEF C
  <2>8. HowMany(r.held, C) <= Total(C)
    <3>1. /\ \A t \in ReaderTypes : Load(readers[t], C) \in Nat
          /\ Waiting(C) \in Nat /\ Given(C) \in Nat
      BY <2>2, CountType
    <3>2. Load(r, C) <= Reading(C) /\ Reading(C) \in Nat
      BY <3>1 DEF Reading, ReaderTypes, r
    <3>3. HowMany(r.in, C) \in Nat /\ HowMany(r.held, C) \in Nat
      BY <2>2, FieldsType, HowManyType
    <3>4. Load(r, C) = HowMany(r.in, C) + HowMany(r.held, C)
      BY DEF Load
    <3> QED
      BY <3>1, <3>2, <3>3, <3>4 DEF Total
  <2>9. MDCLen \in Nat /\ HowMany(r.held, C) \in Nat /\ Total(C) \in Nat
    <3>1. MDCLen \in Nat
      BY LayoutAssumption DEF LayoutAssumption
    <3>2. r.held \in Seq(Cell)
      BY <2>2, FieldsType
    <3> QED
      BY <2>2, <3>1, <3>2, HowManyType, CountType DEF Total
  <2> QED
    BY <2>6, <2>7, <2>8, <2>9
<1> QED
  BY <1>1, VerifyInvariance, PTL

-----------------------------------------------------------------------------
(* The room in the chain.  A place that holds a packet with packets inside *)
(* was taken by a header, and that header is used up: as long as fewer of  *)
(* these were fed than the chain has places, there is one more.            *)

\* Headers of packets with packets inside, in any layer.
Wrapping == {c \in Cell : c.kind \in Wraps}

\* The places of such packets, and in the finishing pass those in front of
\* them that were finished; behind the innermost packet nothing is left to do.
Outer == {i \in Known : ~IsFinalPacket(chain[i])}
Over  == st = "FinishPacket" /\ stack = <<>> /\ Known = {}
Past  == IF AtWork /\ finish /\ ~Over THEN it - 1 ELSE 0
LastInv ==
    pc = "running" /\ finish /\ st = "Packet" /\ it \in Known /\ IsFinalPacket(chain[it]) =>
        stack = <<>>
RoomInv == Total(Wrapping) + Cardinality(Outer) + Past <= Fed(Wrapping) /\ LastInv

\* All cells of a kind are in it or none.
LEMMA WrappingIs ==
    /\ Lasting(Wrapping)
    /\ \A k \in Wraps : \A c \in Cell : c.kind = k => c \in Wrapping
<1>1. SUFFICES ASSUME NEW s \in Seq(Cell) PROVE HowMany(Peel(s), Wrapping) <= HowMany(s, Wrapping)
  BY DEF Lasting, Wrapping
<1>2. Peel(s) \in Seq(Cell) /\ Len(Peel(s)) = Len(s)
  BY PeelType
<1>3. \A i \in 1..Len(s) : Peel(s)[i] \in Wrapping => s[i] \in Wrapping
  <2>1. SUFFICES ASSUME NEW i \in 1..Len(s), Peel(s)[i] \in Wrapping PROVE s[i] \in Wrapping
    OBVIOUS
  <2>2. s[i] \in Cell /\ DOMAIN s = 1..Len(s)
    BY LenProperties, ElementOfSeq
  <2>3. Peel(s)[i] = IF s[i].depth > 0 THEN [s[i] EXCEPT !.depth = @ - 1] ELSE Junk
    BY <2>2 DEF Peel
  <2>4. Junk \notin Wrapping
    BY DEF Wrapping, Wraps, PacketTypes, ReaderTypes, Junk
  <2>5. [s[i] EXCEPT !.depth = @ - 1].kind = s[i].kind
    BY <2>2 DEF Cell
  <2> QED
    BY <2>1, <2>2, <2>3, <2>4, <2>5 DEF Wrapping
<1> QED
  BY <1>2, <1>3, HowManyMap

\* All of these are numbers.
LEMMA RoomType ==
    ASSUME TypeOK
    PROVE  /\ IsFiniteSet(Outer) /\ Cardinality(Outer) \in Nat /\ Outer \subseteq 1..ChainMax
           /\ Past \in Nat /\ Total(Wrapping) \in Nat /\ Fed(Wrapping) \in Nat
<1>1. ChainMax \in Nat \ {0} /\ it \in 1..(ChainMax + 1) /\ Known \subseteq 1..ChainMax
  BY Places
<1>2. IsFiniteSet(1..ChainMax)
  BY <1>1, FS_Interval
<1>3. Outer \subseteq 1..ChainMax
  BY <1>1 DEF Outer
<1>4. IsFiniteSet(Outer) /\ Cardinality(Outer) \in Nat
  BY <1>2, <1>3, FS_Subset, FS_CardinalityType
<1>5. Past \in Nat
  BY <1>1 DEF Past
<1> QED
  BY <1>3, <1>4, <1>5, FedType

RoomNumbers == Cardinality(Outer) \in Nat /\ Past \in Nat
LEMMA RoomNumbersHold == TypeOK => RoomNumbers
  BY RoomType DEF RoomNumbers

LEMMA RoomNext == TypeOK' => RoomNumbers'
  BY RoomNumbersHold, PTL

\* A step after which no more places are taken.
LEMMA RoomKeeps ==
    ASSUME FullInv, TypeOK', RoomInv, [Next]_vars, LastInv',
           Cardinality(Outer)' + Past' <= Cardinality(Outer) + Past
    PROVE  RoomInv'
<1>1. Total(Wrapping)' + Fed(Wrapping) <= Total(Wrapping) + Fed(Wrapping)'
  BY StepAddsNone, WrappingIs DEF NoMore, FullInv, IInv
<1>2. Total(Wrapping) + Cardinality(Outer) + Past <= Fed(Wrapping)
  BY DEF RoomInv
<1>3. /\ Total(Wrapping) \in Nat /\ Fed(Wrapping) \in Nat
      /\ Cardinality(Outer) \in Nat /\ Past \in Nat
  BY RoomType DEF FullInv, IInv
<1>4. Total(Wrapping)' \in Nat /\ Fed(Wrapping)' \in Nat
  BY FedNext DEF FedNumbers
<1>5. Cardinality(Outer)' \in Nat /\ Past' \in Nat
  BY RoomNext DEF RoomNumbers
<1>6. \A t0, t1, f0, f1, o0, o1, p0, p1 \in Nat :
         t1 + f0 <= t0 + f1 /\ t0 + o0 + p0 <= f0 /\ o1 + p1 <= o0 + p0
         => t1 + o1 + p1 <= f1
  OBVIOUS
<1>7. Total(Wrapping)' + Cardinality(Outer)' + Past' <= Fed(Wrapping)'
  BY <1>1, <1>2, <1>3, <1>4, <1>5, <1>6
<1> QED
  BY <1>7 DEF RoomInv

\* A step that leaves the chain alone and comes to a state without a packet.
LEMMA QuietRoom ==
    ASSUME FullInv, TypeOK', RoomInv, [Next]_vars, UNCHANGED chain,
           Past' <= Past, pc' = "running" => st' # "Packet"
    PROVE  RoomInv'
<1>1. Outer' = Outer
  BY DEF Outer, Known
<1>2. Cardinality(Outer) \in Nat /\ Past \in Nat
  BY RoomType DEF FullInv, IInv
<1>3. Past' \in Nat
  BY RoomNext DEF RoomNumbers
<1>4. LastInv'
  BY DEF LastInv
<1>5. Cardinality(Outer)' + Past' <= Cardinality(Outer) + Past
  BY <1>1, <1>2, <1>3
<1> QED
  BY <1>4, <1>5, RoomKeeps

\* The handlers that read nothing of a packet, and the calls.
LEMMA OthersRoom ==
    ASSUME FullInv, TypeOK', RoomInv, [Next]_vars,
           ~EnterHeader, ~EnterPacket, ~EnterFinishPacket
    PROVE  RoomInv'
<1>1. it \in 1..(ChainMax + 1) /\ ChainMax \in Nat /\ Past \in Nat
  BY Places, RoomType DEF FullInv, IInv
<1>2. CASE EnterInit
  <2>1. UNCHANGED <<chain, finish>> /\ it' = 1 /\ st' = "Init"
    BY <1>2 DEF EnterInit, Rewind, Settle
  <2>2. Past' = 0
    BY <2>1 DEF Past
  <2> QED
    BY <1>1, <2>1, <2>2, QuietRoom
<1>3. CASE EnterArmor \/ EnterArmorDisabled
  <2>1. /\ UNCHANGED <<pc, chain, it, finish>> /\ st' \in {"Armor", "Fail"}
        /\ pc = "running" /\ st = "Init"
    BY <1>3, EntersFrom DEF EnterArmor, EnterArmorDisabled, Settle, session, FullInv, IInv
  <2>2. it = 1
    BY <2>1 DEF FullInv, IInv, ControlInv
  <2>3. Past' = 0
    BY <2>1, <2>2 DEF Past
  <2> QED
    BY <1>1, <2>1, <2>3, QuietRoom
<1>4. CASE EnterBufferEmpty \/ EnterEnd \/ EnterFail
  <2>1. UNCHANGED chain /\ st' \in {"BufferEmpty", "End", "Fail"}
    BY <1>4 DEF EnterBufferEmpty, EnterEnd, EnterFail, Settle, session
  <2>2. Past' = 0
    BY <2>1 DEF Past, AtWork
  <2> QED
    BY <1>1, <2>1, <2>2, QuietRoom
<1>5. CASE PacketFaults \/ Throw
  <2>1. UNCHANGED chain /\ pc' # "running"
    BY <1>5 DEF PacketFaults, Throw, session
  <2>2. Past' = 0
    BY <2>1 DEF Past, AtWork
  <2> QED
    BY <1>1, <2>1, <2>2, QuietRoom
<1>6. CASE Return \/ FinishWithoutData \/ Update \/ FinishWithData
  <2>1. UNCHANGED chain /\ (pc' = "running" => st' = "Start")
    <3>1. CASE Return
      <4>1. call \in {"update", "finishUpdate", "finishPass"}
        BY DEF FullInv, IInv, TypeOK
      <4> QED
        BY <3>1, <4>1 DEF Return, FinishPass
    <3>2. CASE FinishWithoutData
      BY <3>2 DEF FinishWithoutData, FinishPass, session
    <3>3. CASE Update \/ FinishWithData
      BY <3>3 DEF Update, FinishWithData, Feed
    <3> QED
      BY <1>6, <3>1, <3>2, <3>3
  <2>2. Past' = 0
    BY <2>1 DEF Past, AtWork
  <2> QED
    BY <1>1, <2>1, <2>2, QuietRoom
<1>7. CASE UNCHANGED vars
  <2>1. UNCHANGED <<pc, st, finish, it, stack, chain>>
    BY <1>7 DEF vars, session
  <2>2. Outer' = Outer /\ Past' = Past
    BY <2>1 DEF Outer, Past, Known, AtWork, Over
  <2>3. LastInv'
    BY <2>1 DEF RoomInv, LastInv, Known
  <2>4. Cardinality(Outer) \in Nat
    BY RoomType DEF FullInv, IInv
  <2> QED
    BY <1>1, <2>2, <2>3, <2>4, RoomKeeps
<1> QED
  BY <1>2, <1>3, <1>4, <1>5, <1>6, <1>7, Zenon DEF Next, Step

\* HeaderOnEnter takes a place for a header that is used up.
LEMMA HeaderRoom == ASSUME FullInv, TypeOK', RoomInv, EnterHeader PROVE RoomInv'
<1>1. /\ pc = "running" /\ st \in {"Armor", "Packet", "FinishPacket"} /\ it \notin Known
      /\ stack # <<>>
  BY HeaderPlace, EntersFrom DEF EnterHeader, CanEnter, HeaderCanEnter, FullInv, IInv
<1>2. Past = IF finish THEN it - 1 ELSE 0
  BY <1>1 DEF Past, AtWork, Over
<1>3. /\ st' \in {"Header", "Fail"} /\ UNCHANGED <<finish, it>>
      /\ \/ UNCHANGED chain
         \/ /\ emsg' = "Success" /\ it # EndIt
            /\ chain' = [chain EXCEPT ![it] = header'.type]
            /\ header'.type # "Unknown"
  <2> DEFINE in   == header.in \o Top
             wait == Len(in) < HeaderMax /\ ~finish
             type == IF \E t \in PacketTypes : StartsWith(in, t)
                     THEN in[1].kind ELSE "Unknown"
             res  == IF wait THEN "Pending"
                     ELSE IF type = "Unknown" THEN "UnsupportedPacketType"
                     ELSE "Success"
  <2>1. /\ emsg' = res
        /\ header' = IF wait THEN [header EXCEPT !.in = in]
                     ELSE [type |-> type, in |-> IF res = "Success" THEN <<>> ELSE Tail(in)]
        /\ IF res = "Success" /\ it = EndIt
           THEN pc' = "undefined" /\ UNCHANGED chain
           ELSE /\ UNCHANGED pc
                /\ chain' = IF res = "Success" THEN [chain EXCEPT ![it] = type] ELSE chain
        /\ Settle("Header", Rejected(res))
        /\ UNCHANGED <<finish, it>>
    BY Zenon DEF EnterHeader
  <2>2. res = "Success" => ~wait /\ type # "Unknown"
    OBVIOUS
  <2> HIDE DEF in, wait, type, res
  <2>3. res = "Success" => header'.type = type
    BY <2>1, <2>2
  <2>4. st' \in {"Header", "Fail"}
    BY <2>1 DEF Settle
  <2>5. CASE res = "Success" /\ it # EndIt
    <3>1. chain' = [chain EXCEPT ![it] = header'.type] /\ header'.type # "Unknown"
      BY <2>1, <2>2, <2>3, <2>5
    <3> QED
      BY <2>1, <2>4, <2>5, <3>1
  <2>6. CASE ~(res = "Success" /\ it # EndIt)
    <3>1. UNCHANGED chain
      BY <2>1, <2>6
    <3> QED
      BY <2>1, <2>4, <3>1
  <2> QED
    BY <2>5, <2>6
<1>4. it \in 1..(ChainMax + 1) /\ ChainMax \in Nat /\ EndIt = ChainMax + 1
      /\ Known \subseteq 1..ChainMax /\ finish \in BOOLEAN
  BY Places DEF FullInv, IInv
<1>5. Past' <= Past /\ Past' \in Nat /\ Past \in Nat
  <2>1. Past' \in Nat
    BY RoomNext DEF RoomNumbers
  <2>2. Past' = 0 \/ (finish /\ Past' = it - 1)
    BY <1>3 DEF Past
  <2> QED
    BY <1>2, <1>4, <2>1, <2>2
<1>6. LastInv'
  BY <1>3 DEF LastInv
<1>7. [Next]_vars
  BY DEF Next, Step
<1>8. CASE UNCHANGED chain
  BY <1>3, <1>5, <1>7, <1>8, QuietRoom
<1>9. CASE ~UNCHANGED chain
  <2>1. it \in 1..ChainMax
    BY <1>3, <1>4, <1>9
  <2> DEFINE type == header'.type
  <2>2. /\ emsg' = "Success" /\ type # "Unknown"
        /\ chain' = [chain EXCEPT ![it] = type]
    BY <1>3, <1>9
  <2>3. type \in PacketTypes
    BY <2>2 DEF TypeOK
  <2> HIDE DEF type
  <2>4. /\ chain'[it] = type /\ Known' = Known \cup {it}
        /\ \A i \in 1..ChainMax : i # it => chain'[i] = chain[i]
    BY <2>1, <2>2, PlaceSet DEF FullInv, IInv
  <2>5. Outer' = IF IsFinalPacket(type) THEN Outer ELSE Outer \cup {it}
    BY <1>1, <1>4, <2>1, <2>4 DEF Outer
  <2>6. IsFiniteSet(Outer) /\ Cardinality(Outer) \in Nat /\ Total(Wrapping) \in Nat
        /\ Fed(Wrapping) \in Nat
    BY RoomType DEF FullInv, IInv
  <2>7. CASE IsFinalPacket(type)
    <3>1. Cardinality(Outer)' + Past' <= Cardinality(Outer) + Past
      BY <1>5, <2>5, <2>6, <2>7
    <3> QED
      BY <1>6, <1>7, <3>1, RoomKeeps
  <2>8. CASE ~IsFinalPacket(type)
    <3>1. Total(Wrapping)' + 1 <= Total(Wrapping)
      <4>1. \A c \in Cell : c.kind = header'.type => c \in Wrapping
        BY <2>3, <2>8, WrappingIs DEF Wraps, type
      <4> QED
        BY <2>2, <4>1, WrappingIs, HeaderCount
    <3>2. Cardinality(Outer)' <= Cardinality(Outer) + 1
      <4>1. Cardinality(Outer \cup {it})
              = IF it \in Outer THEN Cardinality(Outer) ELSE Cardinality(Outer) + 1
        BY <2>6, FS_AddElement
      <4> QED
        BY <2>5, <2>6, <2>8, <4>1
    <3>3. Fed(Wrapping)' = Fed(Wrapping)
      BY DEF EnterHeader, Fed
    <3>4. Total(Wrapping)' \in Nat /\ Cardinality(Outer)' \in Nat
      BY FedNext, RoomNext DEF FedNumbers, RoomNumbers
    <3>5. Total(Wrapping) + Cardinality(Outer) + Past <= Fed(Wrapping)
      BY DEF RoomInv
    <3>6. Total(Wrapping)' + Cardinality(Outer)' + Past' <= Fed(Wrapping)'
      BY <1>5, <2>6, <3>1, <3>2, <3>3, <3>4, <3>5
    <3> QED
      BY <1>6, <3>6 DEF RoomInv
  <2> QED
    BY <2>7, <2>8
<1> QED
  BY <1>8, <1>9

\* FinishOnEnter leaves a place behind: either one of a packet with packets
\* inside, or that of the innermost packet, behind which nothing is read.
LEMMA FinishPacketRoom ==
    ASSUME FullInv, TypeOK', RoomInv, EnterFinishPacket PROVE RoomInv'
<1> DEFINE res == DoFinish(Current, readers[Current])
<1>1. /\ IF Rejected(res) THEN UNCHANGED <<chain, it>> ELSE LeavePacket
      /\ Settle("FinishPacket", Rejected(res))
      /\ UNCHANGED <<pc, finish, stack>>
  BY Zenon DEF EnterFinishPacket
<1> HIDE DEF res
<1>2. pc = "running" /\ st = "Packet" /\ finish /\ Current # "Unknown"
  BY EntersFrom DEF EnterFinishPacket, FullInv, IInv, CanEnter, FinishCanEnter
<1>3. it \in Known /\ it \in 1..ChainMax /\ Known \subseteq 1..ChainMax /\ ChainMax \in Nat
  BY <1>2, OnKnown, Places DEF FullInv, IInv, ControlInv
<1>4. \A i \in Known : it <= i
  BY <1>2 DEF FullInv, ChainInv, IteratorInv, AtWork
<1>5. Past = it - 1
  BY <1>2 DEF Past, AtWork, Over
<1>6. [Next]_vars
  BY DEF Next, Step
<1>7. CASE Rejected(res)
  <2>1. UNCHANGED chain /\ st' = "Fail"
    BY <1>1, <1>7 DEF Settle
  <2>2. Past' = 0
    BY <2>1 DEF Past, AtWork
  <2> QED
    BY <1>3, <1>5, <1>6, <2>1, <2>2, QuietRoom
<1>8. CASE ~Rejected(res)
  <2>1. /\ chain' = [chain EXCEPT ![it] = "Unknown"] /\ it' = it + 1
        /\ st' = "FinishPacket"
    BY <1>1, <1>8 DEF LeavePacket, Settle
  <2>2. /\ Known' = Known \ {it}
        /\ \A i \in 1..ChainMax : i # it => chain'[i] = chain[i]
    BY <1>3, <2>1, PlaceSet DEF FullInv, IInv
  <2>3. Outer' = Outer \ {it}
    BY <1>3, <2>2 DEF Outer
  <2>4. IsFiniteSet(Outer) /\ Cardinality(Outer) \in Nat
    BY RoomType DEF FullInv, IInv
  <2>5. Cardinality(Outer \ {it})
          = IF it \in Outer THEN Cardinality(Outer) - 1 ELSE Cardinality(Outer)
    BY <2>4, FS_RemoveElement
  <2>6. LastInv'
    BY <2>1 DEF LastInv
  <2>7. CASE it \in Outer
    <3>1. Past' = 0 \/ Past' = it
      BY <1>3, <2>1 DEF Past
    <3>2. Cardinality(Outer)' + Past' <= Cardinality(Outer) + Past
      BY <1>3, <1>5, <2>3, <2>4, <2>5, <2>7, <3>1
    <3> QED
      BY <1>6, <2>6, <3>2, RoomKeeps
  <2>8. CASE it \notin Outer
    <3>1. IsFinalPacket(chain[it])
      BY <1>3, <2>8 DEF Outer
    <3>2. stack = <<>>
      BY <1>2, <1>3, <3>1 DEF RoomInv, LastInv
    <3>3. Known' = {}
      <4>1. SUFFICES ASSUME NEW j \in Known, j # it PROVE FALSE
        BY <2>2
      <4>2. it < j
        BY <1>3, <1>4, <4>1
      <4> QED
        BY <1>3, <3>1, <4>2 DEF FullInv, ChainInv, NestInv, BeenRead
    <3>4. Past' = 0
      BY <1>1, <2>1, <3>2, <3>3 DEF Past, Over
    <3>5. Cardinality(Outer)' + Past' <= Cardinality(Outer) + Past
      BY <1>3, <1>5, <2>3, <2>4, <2>5, <2>8, <3>4
    <3> QED
      BY <1>6, <2>6, <3>5, RoomKeeps
  <2> QED
    BY <2>7, <2>8
<1> QED
  BY <1>7, <1>8

\* PacketOnEnter frees a place at most: that of a session key packet.
LEMMA PacketRoom == ASSUME FullInv, TypeOK', RoomInv, EnterPacket PROVE RoomInv'
<1> DEFINE t == Current
           r == GetOrCreatePacket(t)
           e == IF NoKey(t) THEN "InvalidPassphrase" ELSE emsg
           fed == At(r, r.step, r.in \o Top, r.held)
<1>1. PICK o \in DoRead(t, fed, e, finish, Key) : PacketAccepts(t, o) \/ PacketRejects(t, o)
  BY Zenon DEF EnterPacket
<1>2. /\ t \in ReaderTypes /\ (o.res = "Success" => t = "ESK")
  <2>1. e \in Results /\ finish \in BOOLEAN /\ t \in ReaderTypes
    BY DEF EnterPacket, FullInv, IInv, TypeOK, Results, Errors
  <2>2. fed \in Reader
    BY <2>1, PacketReaderType DEF FullInv, IInv
  <2> HIDE DEF fed, e, r, t
  <2> QED
    BY <1>1, <2>1, <2>2, DoReadType
<1> HIDE DEF e, r, fed
<1>3. /\ pc = "running" /\ AtWork
      /\ it \in Known /\ it \in 1..ChainMax /\ t = chain[it]
      /\ EndIt = ChainMax + 1 /\ ChainMax \in Nat /\ Known \subseteq 1..ChainMax
  <2>1. pc = "running" /\ st \in {"Armor", "Header", "Packet", "FinishPacket"}
        /\ it # EndIt /\ Current # "Unknown"
    BY EntersFrom, PacketFrom DEF EnterPacket, FullInv, IInv, CanEnter, PacketCanEnter
  <2> QED
    BY <2>1, OnKnown, Places DEF AtWork, Current, FullInv, IInv
<1> HIDE DEF t
<1>4. UNCHANGED <<pc, finish>> /\ finish \in BOOLEAN
  BY Places DEF EnterPacket, FullInv, IInv
<1>5. Past = IF finish THEN it - 1 ELSE 0
  BY <1>3 DEF Past, Over
<1>6. [Next]_vars
  BY DEF Next, Step
<1>7. Popped = <<>>
  BY StackType DEF FullInv, IInv, ControlInv
<1>8. IsFiniteSet(Outer) /\ Cardinality(Outer) \in Nat /\ Past \in Nat
  BY RoomType DEF FullInv, IInv
<1>9. CASE PacketRejects(t, o)
  <2>1. UNCHANGED chain /\ st' = "Fail"
    BY <1>9 DEF PacketRejects, Settle
  <2>2. Past' = 0
    BY <2>1 DEF Past, AtWork
  <2> QED
    BY <1>6, <1>8, <2>1, <2>2, QuietRoom
<1>10. CASE PacketAccepts(t, o) /\ o.res # "Success"
  <2>1. /\ UNCHANGED chain /\ st' = "Packet"
        /\ stack' = IF Passes(t, o) THEN Push(Popped, o.out) ELSE Popped
        /\ finish => it' = it
    BY <1>10 DEF PacketAccepts, Advance, Settle
  <2>2. Past' = IF finish THEN it - 1 ELSE 0
    BY <1>3, <1>4, <2>1 DEF Past, AtWork, Over
  <2>3. Outer' = Outer
    BY <2>1 DEF Outer, Known
  <2>4. LastInv'
    <3>1. SUFFICES ASSUME finish, IsFinalPacket(chain[it]) PROVE stack' = <<>>
      BY <1>4, <2>1 DEF LastInv
    <3>2. ~Passes(t, o)
      BY <1>3, <3>1 DEF Passes
    <3> QED
      BY <1>7, <2>1, <3>2
  <2> QED
    BY <1>5, <1>6, <1>8, <2>2, <2>3, <2>4, RoomKeeps
<1>11. CASE PacketAccepts(t, o) /\ o.res = "Success"
  <2> DEFINE chain1 == [chain EXCEPT ![it] = "Unknown"]
  <2>1. t = "ESK" /\ ~Passes(t, o)
    BY <1>2, <1>11 DEF Passes, IsFinalPacket
  <2>2. chain' = chain1 /\ st' = "Packet" /\ Advance(t, o, chain1)
    BY <1>11 DEF PacketAccepts, Settle
  <2>3. \/ UNCHANGED it
        \/ /\ it' \in 1..EndIt /\ \A i \in 1..(it' - 1) : chain1[i] # "Unknown"
           /\ it' # EndIt => chain1[it'] = "Unknown"
    BY <2>1, <2>2 DEF Advance
  <2>4. chain1[it] = "Unknown" /\ chain' = chain1
    BY <1>3, <2>2, PlaceSet DEF FullInv, IInv
  <2> HIDE DEF chain1
  <2>5. it' \in 1..it
    <3>1. CASE UNCHANGED it
      BY <1>3, <3>1
    <3>2. CASE it' \in 1..EndIt /\ \A i \in 1..(it' - 1) : chain1[i] # "Unknown"
      <4>1. it \notin 1..(it' - 1)
        BY <2>4, <3>2
      <4>2. it' \in 1..(ChainMax + 1)
        BY <1>3, <3>2
      <4>3. \A p, q \in 1..(ChainMax + 1) : p \notin 1..(q - 1) => q \in 1..p
        BY <1>3
      <4>4. it \in 1..(ChainMax + 1)
        BY <1>3
      <4> QED
        BY <4>1, <4>2, <4>3, <4>4
    <3> QED
      BY <2>3, <3>1, <3>2
  <2>6. Past' = 0 \/ (finish /\ Past' = it' - 1)
    BY <1>4 DEF Past
  <2>7. Past' <= Past
    BY <1>3, <1>5, <1>8, <2>5, <2>6
  <2>8. Outer' = Outer
    <3>1. /\ Known' = Known \ {it}
          /\ \A i \in 1..ChainMax : i # it => chain'[i] = chain[i]
      BY <1>3, <2>2, PlaceSet DEF FullInv, IInv, chain1
    <3>2. it \notin Outer
      BY <1>3, <2>1 DEF Outer, IsFinalPacket
    <3> QED
      BY <1>3, <3>1, <3>2 DEF Outer
  <2>9. LastInv'
    <3>1. it' \notin Known'
      <4>1. it' \in 1..ChainMax /\ it' # EndIt
        BY <1>3, <2>5
      <4>2. chain'[it'] = "Unknown"
        BY <2>3, <2>4, <4>1
      <4> QED
        BY <4>2 DEF Known
    <3> QED
      BY <3>1 DEF LastInv
  <2>10. Past' \in Nat
    BY RoomNext DEF RoomNumbers
  <2>11. Cardinality(Outer)' + Past' <= Cardinality(Outer) + Past
    BY <1>8, <2>7, <2>8, <2>10
  <2> QED
    BY <1>6, <2>9, <2>11, RoomKeeps
<1> QED
  BY <1>1, <1>9, <1>10, <1>11

\* There is room before the first call, and every step keeps it.
LEMMA RoomInit == ASSUME Init, FullInv, CountInv PROVE RoomInv
<1>1. Known = {} /\ pc = "idle" /\ finish = FALSE
  <2>1. \A i \in 1..ChainMax : chain[i] = "Unknown"
    BY DEF Init
  <2> QED
    BY <2>1 DEF Init, Known
<1>2. Outer = {} /\ Past = 0 /\ LastInv
  BY <1>1 DEF Outer, Past, LastInv
<1>3. Cardinality(Outer) = 0
  BY <1>2, FS_EmptySet
<1>4. Total(Wrapping) <= Fed(Wrapping)
  BY WrappingIs DEF CountInv
<1>5. Total(Wrapping) \in Nat /\ Fed(Wrapping) \in Nat
  BY RoomType DEF FullInv, IInv
<1> QED
  BY <1>2, <1>3, <1>4, <1>5 DEF RoomInv

LEMMA RoomInvariance == Spec => [](FullInv /\ RoomInv)
<1>1. Init /\ FullInv /\ CountInv => RoomInv
  BY RoomInit
<1>2. FullInv => TypeOK
  BY DEF FullInv, IInv
<1>3. FullInv /\ TypeOK' /\ RoomInv /\ [Next]_vars => RoomInv'
  BY OthersRoom, HeaderRoom, FinishPacketRoom, PacketRoom
<1> QED
  BY <1>1, <1>2, <1>3, CountInvariance, PTL DEF Spec

\* What was fed of the headers, and that the places in front of a known one
\* are known.
LEMMA ChainHasRoom ==
    ASSUME FullInv, RoomInv
    PROVE  ChainInBounds
<1>0. SUFFICES ASSUME FewPackets(scn.wire)
               PROVE  /\ Enters("Header") => it # EndIt
                      /\ Enters("Packet") /\ ~IsFinalPacket(Current) => it < ChainMax
  BY DEF ChainInBounds
<1>1. TypeOK
  BY DEF FullInv, IInv
<1>2. /\ ChainMax \in Nat \ {0} /\ EndIt = ChainMax + 1 /\ it \in 1..EndIt
      /\ Known \subseteq 1..ChainMax /\ finish \in BOOLEAN
  BY <1>1, Places
<1>3. Cardinality(Outer) + Past < ChainMax
  <2>1. scn.wire \in Seq(Cell) /\ pos \in 0..Len(scn.wire)
    BY <1>1, ReaderAssumption DEF ReaderAssumption, TypeOK
  <2>2. {i \in DOMAIN scn.wire : scn.wire[i].kind \in Wraps} = Where(scn.wire, Wrapping)
    <3>1. \A i \in DOMAIN scn.wire : scn.wire[i] \in Cell
      BY <2>1, LenProperties, ElementOfSeq
    <3> QED
      BY <3>1 DEF Where, Wrapping
  <2>3. HowMany(scn.wire, Wrapping) < ChainMax
    BY <1>0, <2>2 DEF FewPackets, HowMany
  <2>4. /\ Take(scn.wire, pos) \in Seq(Cell) /\ Drop(scn.wire, pos) \in Seq(Cell)
        /\ HowMany(Take(scn.wire, pos), Wrapping) + HowMany(Drop(scn.wire, pos), Wrapping)
             <= HowMany(scn.wire, Wrapping)
    BY <2>1, TakeType, TakeDropFewer
  <2>5. /\ HowMany(Take(scn.wire, pos), Wrapping) \in Nat
        /\ HowMany(Drop(scn.wire, pos), Wrapping) \in Nat
        /\ HowMany(scn.wire, Wrapping) \in Nat
    BY <2>1, <2>4, HowManyType
  <2>6. Total(Wrapping) + Cardinality(Outer) + Past <= HowMany(Take(scn.wire, pos), Wrapping)
    BY DEF RoomInv, Fed
  <2>7. Cardinality(Outer) \in Nat /\ Past \in Nat /\ Total(Wrapping) \in Nat
    BY <1>1, RoomType
  <2> HIDE DEF HowMany
  <2> QED
    BY <1>2, <2>3, <2>4, <2>5, <2>6, <2>7
<1>4. IsFiniteSet(Outer) /\ Cardinality(Outer) \in Nat /\ Past \in Nat
  BY <1>1, RoomType
<1>5. ASSUME NEW n \in Nat, 1..n \subseteq Outer PROVE n < ChainMax
  <2>1. Cardinality(1..n) = n
    BY <1>5, FS_Interval
  <2>2. Cardinality(1..n) <= Cardinality(Outer)
    BY <1>4, <1>5, FS_Subset
  <2> QED
    BY <1>2, <1>3, <1>4, <2>1, <2>2
<1>6. ASSUME Enters("Header") PROVE it # EndIt
  <2>1. /\ pc = "running" /\ st \in {"Armor", "Packet", "FinishPacket"} /\ it \notin Known
        /\ \A i \in Known : BeenRead(i) /\ i < it
        /\ finish => Known = {}
        /\ ~finish => it = 1 \/ it - 1 \in Known
    BY <1>6, HeaderPlace
  <2>2. stack # <<>>
    BY <1>1, <1>6, EntersFrom DEF CanEnter, HeaderCanEnter
  <2>3. CASE finish
    <3>1. Past = it - 1
      BY <2>1, <2>2, <2>3 DEF Past, AtWork, Over
    <3> QED
      BY <1>2, <1>3, <1>4, <3>1
  <2>4. CASE ~finish /\ it # 1
    <3>1. it - 1 \in Known /\ it - 1 \in Nat
      BY <1>2, <2>1, <2>4
    <3>2. 1 \in Known
      BY <2>4, <3>1 DEF FullInv, ChainInv, NestInv
    <3>3. 1..(it - 1) \subseteq Known
      BY <3>1, <3>2 DEF FullInv, ChainInv, NestInv
    <3>4. 1..(it - 1) \subseteq Outer
      BY <2>1, <3>3 DEF Outer, BeenRead
    <3>5. it - 1 < ChainMax
      BY <1>5, <3>1, <3>4
    <3> QED
      BY <1>2, <3>5
  <2>5. CASE ~finish /\ it = 1
    BY <1>2, <2>5
  <2> QED
    BY <1>2, <2>3, <2>4, <2>5
<1>7. ASSUME Enters("Packet"), ~IsFinalPacket(Current) PROVE it < ChainMax
  <2>1. pc = "running" /\ AtWork /\ it \in Known /\ it \in 1..ChainMax /\ Current = chain[it]
    <3>1. /\ pc = "running" /\ st \in {"Armor", "Header", "Packet", "FinishPacket"}
          /\ it # EndIt /\ Current # "Unknown"
      BY <1>1, <1>7, EntersFrom, PacketFrom DEF CanEnter, PacketCanEnter
    <3> QED
      BY <1>1, <1>2, <3>1, OnKnown DEF AtWork, Current
  <2>2. it \in Outer
    BY <1>7, <2>1 DEF Outer
  <2>3. CASE finish
    <3>1. Past = it - 1
      BY <2>1, <2>3 DEF Past, Over
    <3>2. Cardinality(Outer) # 0
      BY <1>4, <2>2, FS_EmptySet
    <3> QED
      BY <1>2, <1>3, <1>4, <2>1, <3>1, <3>2
  <2>4. CASE ~finish
    <3>1. 1 \in Known
      BY <2>1, <2>4 DEF FullInv, ChainInv, NestInv
    <3>2. 1..it \subseteq Known
      BY <2>1, <3>1 DEF FullInv, ChainInv, NestInv
    <3>3. \A i \in Known : i < it => BeenRead(i)
      BY <2>1, <2>4 DEF FullInv, ChainInv, IteratorInv
    <3>4. 1..it \subseteq Outer
      <4>1. SUFFICES ASSUME NEW i \in 1..it PROVE i \in Outer
        OBVIOUS
      <4>2. i \in Known /\ (i = it \/ i < it)
        BY <1>2, <2>1, <3>2
      <4> QED
        BY <2>2, <3>3, <4>2 DEF Outer, BeenRead
    <3> QED
      BY <1>2, <1>5, <2>1, <3>4
  <2> QED
    BY <1>2, <2>3, <2>4
<1> QED
  BY <1>6, <1>7

\* As long as a message has fewer packets with packets inside than the chain
\* has places, in whatever layers they are, packet_chain_it never runs out of
\* the chain: for every message, broken or not, cut and length of the chain, in
\* the finishing pass too, in which the iterator goes over places that are free
\* again.
THEOREM FewPacketsFit == Spec => []ChainInBounds
<1>1. FullInv /\ RoomInv => ChainInBounds
  BY ChainHasRoom
<1> QED
  BY <1>1, RoomInvariance, PTL
===============================================================================
