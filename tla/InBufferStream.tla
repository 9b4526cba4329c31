---------------------------- MODULE InBufferStream ----------------------------
(***************************************************************************)
(* InBufferStream of memory_stream.cpp: how the body of a packet that      *)
(* comes in portions is put together again, whatever the pieces in which   *)
(* it is pushed, and taken out meanwhile.  One action is one turn of the   *)
(* loop in Push, or one call of a reader.                                  *)
(*                                                                         *)
(* A cell is [octet, id]: the value the code looks at, and, for the        *)
(* properties only, the number of a body octet or 0 for an octet of a      *)
(* length.  A scenario is the size of the first portion, which the packet  *)
(* header had (0 when the length comes first), the cells behind it, and    *)
(* how many octets the reader asks for at a time (0 for all there are, and *)
(* -1 for a reader that still waits for more before it takes any).         *)
(***************************************************************************)
EXTENDS PacketParsers, SequencesExt

CONSTANTS
    Scenarios,  \* what can be pushed
    ChunkMax,   \* bound on the size of one push
    LenMax,     \* the 5U of Push: octets to wait for before reading a length
    Wrap        \* size_t counts up to Wrap - 1

Cell == [octet : Octet, id : Nat]

ASSUME StreamAssumption ==
    /\ ChunkMax \in Nat \ {0} /\ LenMax \in Nat \ {0} /\ Wrap \in Nat \ {0}
    /\ \A s \in Scenarios : s \in [first : 0..(Wrap - 1), cells : Seq(Cell), ask : Int]

VARIABLES
    scn,      \* the scenario
    pos,      \* how many of its cells were pushed
    rest,     \* what the running Push has not looked at yet
    count,    \* count_: what is missing of the portion
    partial,  \* partial_length_
    lenbuf,   \* length_buffer_
    buffer,   \* buffer_
    at,       \* pos_ - begin_
    got,      \* history: all that was read
    pc        \* idle, pushing, or aborted by the assert

vars == <<scn, pos, rest, count, partial, lenbuf, buffer, at, got, pc>>

Take(s, n) == SubSeq(s, 1, n)
Drop(s, n) == SubSeq(s, n + 1, Len(s))
Least(a, b) == IF a < b THEN a ELSE b
Octets(s)  == [i \in DOMAIN s |-> s[i].octet]

\* SetPartialLength(true, first)
Init ==
    /\ scn \in Scenarios
    /\ pos = 0 /\ rest = <<>>
    /\ count = scn.first /\ partial = TRUE
    /\ lenbuf = <<>> /\ buffer = <<>> /\ at = 0 /\ got = <<>> /\ pc = "idle"

\* What was read goes, and begin_ and pos_ are set anew when all is pushed.
Forget_OneMore == buffer' = Drop(buffer, at + 1) /\ at' = 0
Forget == buffer' = Drop(buffer, at) /\ at' = 0
Push ==
    /\ pc = "idle" /\ pos < Len(scn.cells)
    /\ Forget
    /\ \E n \in 1..Least(ChunkMax, Len(scn.cells) - pos) :
          /\ rest' = SubSeq(scn.cells, pos + 1, pos + n)
          /\ pos' = pos + n
    /\ pc' = "pushing"
    /\ UNCHANGED <<scn, count, partial, lenbuf, got>>

\* Get, Read, and the two helpers that take all; at most what there is, and
\* nothing when there is nothing.
GetCount == Len(buffer) - at
Advance(n) ==
    /\ pc = "idle" /\ GetCount > 0
    /\ got' = got \o SubSeq(buffer, at + 1, at + n)
    /\ at' = at + n
    /\ UNCHANGED <<scn, pos, rest, count, partial, lenbuf, buffer, pc>>

Get     == scn.ask = 1 /\ Advance(1)
Read    == scn.ask > 1 /\ Advance(Least(scn.ask, GetCount))
ReadAll == scn.ask = 0 /\ Advance(GetCount)

-----------------------------------------------------------------------------
(* A turn of the loop.                                                     *)

\* First it takes what the portion still needs; in the last portion, and in a
\* body without portions, the count is only ever an upper bound.
Taken   == Least(Len(rest), count)
Missing_Uncounted == count
Missing == IF partial THEN count - Taken ELSE count
Untaken == Drop(rest, Taken)

\* Then, when the portion is complete, it collects octets for the next length.
AtLength == partial /\ Missing = 0
Fill_OneShort == Least(Len(Untaken), LenMax - 1 - Len(lenbuf))
Fill   == Least(Len(Untaken), LenMax - Len(lenbuf))
Filled == lenbuf \o Take(Untaken, Fill)
CanReadLength_Whole == Len(Filled) = LenMax
CanReadLength ==
    \/ Len(Filled) = LenMax
    \/ Filled # <<>> /\ IsOneOctet(Filled[1].octet)

\* assert(GetPartialCount() || it == buf.cend() || bytes2take), and the test
\* of the loop.
EndTurn_Waiting == pc' = IF rest' = <<>> /\ count' = 0 THEN "idle"
                         ELSE IF count' # 0 \/ Taken # 0 THEN "pushing" ELSE "aborted"
EndTurn == pc' = IF rest' = <<>> THEN "idle"
                 ELSE IF count' # 0 \/ Taken # 0 THEN "pushing" ELSE "aborted"

Turn == pc = "pushing" /\ EndTurn /\ UNCHANGED <<scn, pos, at, got>>

TakeBody ==
    /\ ~AtLength
    /\ rest' = Untaken /\ count' = Missing
    /\ buffer' = buffer \o Take(rest, Taken)
    /\ UNCHANGED <<partial, lenbuf>>
    /\ Turn

FillLength ==
    /\ AtLength /\ ~CanReadLength
    /\ rest' = Drop(Untaken, Fill) /\ count' = Missing /\ lenbuf' = Filled
    /\ buffer' = buffer \o Take(rest, Taken)
    /\ UNCHANGED partial
    /\ Turn

\* The octets behind the length go to the body and count as part of it.
LeaveRest_Uncounted(len, left) == count' = len
LeaveRest(len, left) == count' = (len - left) % Wrap

TakeLength ==
    /\ AtLength /\ CanReadLength
    /\ LET length == ReadLength(Octets(Filled))
           left   == Drop(Filled, length.size)
       IN  /\ LeaveRest(length.len, Len(left))
           /\ partial' = length.partial
           /\ buffer' = buffer \o Take(rest, Taken) \o left
    /\ rest' = Drop(Untaken, Fill) /\ lenbuf' = <<>>
    /\ Turn

Loop == TakeBody \/ FillLength \/ TakeLength
Next == Push \/ Loop \/ Get \/ Read \/ ReadAll

Spec == Init /\ [][Next]_vars

\* Push is a loop in one thread: it goes on by itself.
FairSpec == Spec /\ WF_vars(Loop)

-----------------------------------------------------------------------------
(* Properties.                                                             *)

TypeOK ==
    /\ scn \in Scenarios /\ pos \in 0..Len(scn.cells)
    /\ rest \in Seq(Cell) /\ count \in 0..(Wrap - 1) /\ partial \in BOOLEAN
    /\ lenbuf \in Seq(Cell) /\ Len(lenbuf) < LenMax
    /\ buffer \in Seq(Cell) /\ at \in 0..Len(buffer) /\ got \in Seq(Cell)
    /\ pc \in {"idle", "pushing", "aborted"}

IsBody(c) == c.id # 0
Body(s)   == FlattenSeq([i \in DOMAIN s |-> IF IsBody(s[i]) THEN <<s[i]>> ELSE <<>>])

\* What a writer with portions longer than LenMax makes: behind every length
\* its portion and then the next length, and nothing behind the last portion.
\* The body may end anywhere.
Starts(s) == {p \in DOMAIN s.cells : ~IsBody(s.cells[p]) /\ (p > 1 => IsBody(s.cells[p - 1]))}
LengthAt(s, p, k) == ReadLength(Octets(SubSeq(s.cells, p, p + k - 1)))
InPlace(s, p, length) ==
    LET end == p + length.size + length.len - 1
    IN  /\ length.len \in 0..(Wrap - 1)
        /\ \A i \in p..(p + length.size - 1) : ~IsBody(s.cells[i])
        /\ \A i \in (p + length.size)..Least(Len(s.cells), end) : IsBody(s.cells[i])
        /\ length.partial => /\ length.len > LenMax - length.size
                             /\ end < Len(s.cells) => end + 1 \in Starts(s)
        /\ ~length.partial => Len(s.cells) <= end
Framed(s) ==
    /\ \A i \in 1..Least(Len(s.cells), s.first) : IsBody(s.cells[i])
    /\ s.first < Len(s.cells) => s.first + 1 \in Starts(s)
    /\ \A p \in Starts(s) : \A k \in 1..Least(LenMax, Len(s.cells) + 1 - p) :
          k = LenMax \/ IsOneOctet(s.cells[p].octet) =>
              LengthAt(s, p, k).size \in 1..k /\ InPlace(s, p, LengthAt(s, p, k))

\* The body is not cut off inside a length.
Whole(s) ==
    \A p \in Starts(s) : p + LenMax - 1 > Len(s.cells) /\ ~IsOneOctet(s.cells[p].octet) =>
        \A i \in p..Len(s.cells) : ~IsBody(s.cells[i])

\* At every moment exactly the body octets pushed so far were read, are in the
\* stream, or are in length_buffer_ behind a length that is not complete: none
\* is lost, doubled or out of place, and no octet of a length is among them,
\* however the body was cut and however much was read between the cuts.
Unread   == Drop(buffer, at)
Unframed == got \o Unread \o Body(lenbuf) = Body(Take(scn.cells, pos - Len(rest)))

\* When everything was pushed, nothing of the body waits for more octets: a
\* length is only waited for where another one follows.
NothingWaits ==
    pc = "idle" /\ pos = Len(scn.cells) => got \o Unread = Body(scn.cells)

\* Between calls the count is the rest of the portion, so the cut does not
\* show in the state: a later push continues as if there had been one.
CutForgotten ==
    pc = "idle" /\ partial /\ lenbuf = <<>> /\ pos < Len(scn.cells) =>
        \A i \in 1..(Len(scn.cells) - pos) :
            (i <= count <=> \A j \in 1..i : IsBody(scn.cells[pos + j]))

\* memory_stream.cpp:188, the assert of the loop: every turn gets further.
AssertHolds == pc # "aborted"

\* A push ends, wherever the body is cut.
PushEnds == pc = "pushing" ~> pc # "pushing"
===============================================================================
