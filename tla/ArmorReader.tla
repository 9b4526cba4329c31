------------------------------ MODULE ArmorReader ------------------------------
(***************************************************************************)
(* armor_reader.cpp: how ASCII armor is taken off a text that comes in     *)
(* pieces.  The reader has a state machine of its own, which is not reset  *)
(* between calls; one action below is one NextState() that enters a state, *)
(* or one more turn of the loop over lines in ReadHeader and ReadPayload.  *)
(*                                                                         *)
(* A character is [ch, block, at]: its role in the format, and for base64  *)
(* the octets its block stands for and its place in the block.  Decoded    *)
(* octets are characters too, since a text that is no armor goes through.  *)
(*                                                                         *)
(* A definition Name_Variant in front of Name is not part of the model: it *)
(* is the mistake in that piece of code which some property is there for.  *)
(***************************************************************************)
EXTENDS Integers, SequencesExt

CONSTANTS
    Scenarios,  \* the texts that may come
    MinHeader,  \* kMinHeader
    MinTail,    \* kMinTail
    Separator,  \* kSeparator
    MaxLine,    \* kMaxLineLength
    Quad        \* kArmorBlockSize: symbols of a base64 block

Roles == {"header", "tail", "separator", "label", "text", "space", "cr", "lf",
          "eq", "b64", "sum", "octet"}
Char  == [ch : Roles, block : Seq(Nat), at : Nat]

ASSUME ArmorReaderAssumption ==
    /\ MinHeader \in Seq(Char) /\ MinTail \in Seq(Char) /\ Separator \in Seq(Char)
    /\ MinTail # <<>> /\ MinTail[1].ch = "tail"
    /\ MinHeader # <<>> /\ MaxLine \in Nat /\ Quad \in Nat \ {0}
    /\ \A i \in DOMAIN MinHeader : MinHeader[i].ch \notin {"cr", "lf"}
    /\ \A s \in Scenarios : s \in [text : Seq(Char), sound : BOOLEAN]

VARIABLES
    scn,      \* the scenario: a text, and whether it is to be readable
    pos,      \* how much of it was handed over
    pc,       \* idle, running, done, failed, or thrown by Botan
    looping,  \* inside the loop over lines of the current state's handler
    st,       \* current_state_ of the machine
    failed,   \* its failed flag
    finish,   \* finish_
    in,       \* in_stm_
    buf,      \* buffer_
    result,   \* result_
    status,   \* status_
    label,    \* label_
    crc,      \* what crc24_ has seen
    out,      \* the output of the running call
    emsg,     \* what the last call of Read or Finish reported
    given     \* history: all that went on to the next reader

reader == <<st, failed, in, buf, result, status, label, crc, out>>
vars == <<scn, pos, pc, looping, finish, reader, emsg, given>>

Take(s, n) == SubSeq(s, 1, n)
Drop(s, n) == SubSeq(s, n + 1, Len(s))

Plain(role)      == [ch |-> role, block |-> <<>>, at |-> 0]
Octet(value)     == [ch |-> "octet", block |-> <<value>>, at |-> 0]
Symbol(block, i) == [ch |-> "b64", block |-> block, at |-> i]
Sum(octets, i)   == [ch |-> "sum", block |-> octets, at |-> i]

Init ==
    /\ scn \in Scenarios
    /\ pos = 0 /\ pc = "idle" /\ looping = FALSE
    /\ st = "Start" /\ failed = FALSE /\ finish = FALSE
    /\ in = <<>> /\ buf = <<>>
    /\ result = "None" /\ status = "Unknown" /\ label = <<>> /\ crc = <<>>
    /\ out = <<>> /\ emsg = "None" /\ given = <<>>

-----------------------------------------------------------------------------
(* The state graph and the guards of its states.                           *)

\* The links in the order they are made.
Links == [Start       |-> <<"Unknown">>,
          Unknown     |-> <<"Unknown", "Disabled", "BeginHeader">>,
          BeginHeader |-> <<"BeginHeader", "Header">>,
          Header      |-> <<"Header", "Payload">>,
          Payload     |-> <<"Payload", "CRC">>,
          CRC         |-> <<"Tail">>,
          Tail        |-> <<"Tail", "TailFound">>,
          TailFound   |-> <<>>,
          Disabled    |-> <<>>,
          Fail        |-> <<>>]
States == DOMAIN Links

\* IsNotPendingOrBuffer, and AlwaysFalse for the two final states.
CanExit_HasInput(s) == s \in {"Start", "Fail"} \/ in # <<>>
CanExit_Always(s) == s \notin {"TailFound", "Disabled"}
CanExit(s) ==
    CASE s \in {"TailFound", "Disabled"} -> FALSE
      [] s \in {"Start", "Fail"}         -> TRUE
      [] OTHER -> result # "Pending" \/ in # <<>>

\* A state is entered again while its result is pending, and a new one only
\* when the last one was successful.
SharedCanEnter_Once(s) == result = "Success"
SharedCanEnter(s) == IF st = s THEN result = "Pending" ELSE result = "Success"

CanEnter(s) ==
    CASE s = "Unknown"  -> result \in {"None", "Pending"}
      [] s = "Disabled" -> result = "Disabled"
      [] OTHER          -> SharedCanEnter(s)

Machine == pc = "running" /\ ~looping

\* NextState gets to s: the first link whose target can be entered.
Enters(s) ==
    /\ Machine /\ CanExit(st)
    /\ \E i \in DOMAIN Links[st] :
          /\ Links[st][i] = s /\ CanEnter(s)
          /\ \A j \in 1..(i - 1) : ~CanEnter(Links[st][j])

\* A turn of the handler of s: the first one, or the next one of its loop.
Turn(s) == (Enters(s) \/ (pc = "running" /\ looping /\ st = s)) /\ st' = s

\* The handler ends with a result, or its loop goes on.
Report(res) == result' = res /\ looping' = FALSE
Loop == looping' = TRUE /\ UNCHANGED result

-----------------------------------------------------------------------------
(* NextLine: the lines in what the reader holds.  A '\r' ends a line with  *)
(* whatever character comes behind it.                                     *)

Held == buf \o in
Ends(b) == {i \in DOMAIN b : b[i].ch \in {"cr", "lf"}}
LineEnd(b) == Min(Ends(b))
HasLine_AtCR(b) == Ends(b) # {}
HasLine(b) == Ends(b) # {} /\ (b[LineEnd(b)].ch = "cr" => LineEnd(b) < Len(b))
Line(b) == Take(b, LineEnd(b) - 1)
Rest(b) == Drop(b, IF b[LineEnd(b)].ch = "cr" THEN LineEnd(b) + 1 ELSE LineEnd(b))

\* There is no line to read: wait for more, unless it is too long already.
NoLine ==
    /\ ~HasLine(Held)
    /\ buf' = Held /\ in' = <<>>
    /\ Report(IF Len(Held) > MaxLine THEN "UnexpectedFormat" ELSE "Pending")
    /\ UNCHANGED <<label, crc, out>>

ReadLine == HasLine(Held) /\ in' = <<>>
Skip     == buf' = Rest(Held)
Check(ok) == Report(IF ok THEN "Success" ELSE "UnexpectedFormat")

-----------------------------------------------------------------------------
(* The handlers.                                                           *)

\* ReadUnknown.  Too little to decide is kept in buffer_, or given back when
\* nothing more can come.
GiveBack(b) == in' = b /\ buf' = <<>>
EnterUnknown ==
    /\ Enters("Unknown") /\ st' = "Unknown"
    /\ \/ /\ Len(Held) < Len(MinHeader) /\ ~finish
          /\ buf' = Held /\ in' = <<>>
          /\ Report("Pending")
       \/ /\ Len(Held) < Len(MinHeader) /\ finish
          /\ in' = Held /\ buf' = Held
          /\ Report("Disabled")
       \/ /\ Len(Held) >= Len(MinHeader)
          /\ GiveBack(Held)
          /\ Report(IF IsPrefix(MinHeader, Held) THEN "Success" ELSE "Disabled")
    /\ UNCHANGED <<scn, pos, pc, failed, finish, status, label, crc, out, emsg, given>>

EnterDisabled ==
    /\ Enters("Disabled") /\ st' = "Disabled"
    /\ status' = "Disabled"
    /\ UNCHANGED <<scn, pos, pc, looping, failed, finish, in, buf, result, label,
                   crc, out, emsg, given>>

\* ReadBeginHeader: the label stands between kMinHeader and kSeparator.
LabelLen(line) == Len(line) - Len(MinHeader) - Len(Separator)
ReadBeginHeader ==
    LET line == Line(Held)
        size == LabelLen(line)
    IN  /\ ReadLine /\ Skip
        /\ IF size < 0 \/ size > MaxLine
           THEN Report("UnexpectedFormat") /\ UNCHANGED label
           ELSE /\ label' = Take(Drop(line, Len(MinHeader)), size)
                /\ Check(Drop(line, Len(MinHeader) + size) = Separator)
        /\ UNCHANGED <<crc, out>>

EnterBeginHeader ==
    /\ Turn("BeginHeader")
    /\ status' = "Enabled"
    /\ NoLine \/ ReadBeginHeader
    /\ UNCHANGED <<scn, pos, pc, failed, finish, emsg, given>>

\* ReadHeader: armor headers up to a blank line.
Blank(line) == \A i \in DOMAIN line : line[i].ch = "space"
ReadHeader ==
    /\ ReadLine /\ Skip
    /\ IF Blank(Line(Held)) THEN Report("Success") ELSE Loop
    /\ UNCHANGED <<label, crc, out>>

EnterHeader ==
    /\ Turn("Header")
    /\ NoLine \/ ReadHeader
    /\ UNCHANGED <<scn, pos, pc, failed, finish, status, emsg, given>>

\* base64_decode (external) of a line of whole blocks, as octet values.
IsBase64(c) == c.ch \in {"b64", "sum"}
DecodeBlock(s) ==
    IF \A i \in DOMAIN s : s[i] = Symbol(s[1].block, i) THEN s[1].block ELSE <<0>>
Decode(line) ==
    FlattenSeq([i \in 1..(Len(line) \div Quad) |->
                   DecodeBlock(SubSeq(line, (i - 1) * Quad + 1, i * Quad))])
Octets(values) == [i \in DOMAIN values |-> Octet(values[i])]

\* ReadPayload.  The line of the checksum goes back into buffer_, with its
\* end; a line that is not base64 makes Botan throw.
IsSumLine(line) == line # <<>> /\ line[1].ch = "eq"
PutBack(line) == buf' = Append(line, Plain("lf")) \o Rest(Held)
CountSum_PerCall(values) == crc' = (IF looping THEN crc ELSE <<>>) \o values
CountSum(values) == crc' = crc \o values
ReadPayload ==
    LET line == Line(Held)
    IN  /\ ReadLine
        /\ \/ /\ IsSumLine(line)
              /\ PutBack(line) /\ Report("Success")
              /\ UNCHANGED <<pc, crc, out>>
           \/ /\ ~IsSumLine(line) /\ Len(line) % Quad # 0
              /\ Skip /\ Report("UnexpectedFormat")
              /\ UNCHANGED <<pc, crc, out>>
           \/ /\ ~IsSumLine(line) /\ Len(line) % Quad = 0
              /\ \A i \in DOMAIN line : IsBase64(line[i])
              /\ Skip /\ Loop
              /\ CountSum(Decode(line))
              /\ out' = out \o Octets(Decode(line))
              /\ UNCHANGED pc
           \/ /\ ~IsSumLine(line) /\ Len(line) % Quad = 0
              /\ \E i \in DOMAIN line : ~IsBase64(line[i])
              /\ Skip /\ Loop /\ pc' = "thrown"
              /\ UNCHANGED <<crc, out>>
        /\ UNCHANGED label

EnterPayload ==
    /\ Turn("Payload")
    /\ (NoLine /\ UNCHANGED pc) \/ ReadPayload
    /\ UNCHANGED <<scn, pos, failed, finish, status, emsg, given>>

\* ReadCRC and ValidateCRC.
ValidateCRC_Size(sum) == Len(sum) = Quad
ValidateCRC(sum) == sum = [i \in 1..Quad |-> Sum(crc, i)]
ReadCRC ==
    LET line == Line(Held)
    IN  /\ ReadLine /\ Skip
        /\ Check(Len(line) = Quad + 1 /\ IsSumLine(line) /\ ValidateCRC(Tail(line)))
        /\ UNCHANGED <<label, crc, out>>

EnterCRC ==
    /\ Turn("CRC")
    /\ NoLine \/ ReadCRC
    /\ UNCHANGED <<scn, pos, pc, failed, finish, status, emsg, given>>

\* ReadTail.
ReadTail ==
    /\ ReadLine /\ Skip
    /\ Check(Line(Held) = MinTail \o label \o Separator)
    /\ UNCHANGED <<label, crc, out>>

EnterTail ==
    /\ Turn("Tail")
    /\ NoLine \/ ReadTail
    /\ UNCHANGED <<scn, pos, pc, failed, finish, status, emsg, given>>

EnterTailFound ==
    /\ Enters("TailFound") /\ st' = "TailFound"
    /\ UNCHANGED <<scn, pos, pc, looping, failed, finish, in, buf, result,
                   status, label, crc, out, emsg, given>>

\* No link can be followed, which is how the machine gets on from a wrong
\* format: Fail_OnEnter sets failed.
Stuck ==
    /\ Machine /\ CanExit(st) /\ st # "Fail"
    /\ \A i \in DOMAIN Links[st] : ~CanEnter(Links[st][i])

EnterFail ==
    /\ Stuck
    /\ st' = "Fail" /\ failed' = TRUE
    /\ UNCHANGED <<scn, pos, pc, looping, finish, in, buf, result, status, label,
                   crc, out, emsg, given>>

-----------------------------------------------------------------------------
(* The calls, as ArmorOnEnter makes them.                                  *)

\* Push and Read, or Finish.  When there is no armor the handler leaves the
\* piece where it is, which is as if it went through the in-stream.
Feed(n) ==
    /\ pc = "idle" /\ pc' = "running"
    /\ in' = in \o SubSeq(scn.text, pos + 1, pos + n)
    /\ pos' = pos + n
    /\ UNCHANGED <<scn, looping, st, failed, buf, result, status, label, crc, out,
                   emsg, given>>

Read == \E n \in 1..(Len(scn.text) - pos) : Feed(n) /\ UNCHANGED finish

\* Finish comes behind the last piece, or with it.
Finish == Feed(Len(scn.text) - pos) /\ finish' = TRUE

Returning == Machine /\ (~CanExit(st) \/ st = "Fail")

\* What Read makes of the machine and of result_.
Reported == IF failed THEN "UnexpectedError"
            ELSE IF result = "Disabled" THEN "Success" ELSE result
Refused == Reported \in {"UnexpectedError", "UnexpectedFormat"}

\* What was decoded in a call that fails is dropped.
Refuse ==
    /\ Returning /\ Refused
    /\ pc' = "failed" /\ emsg' = Reported
    /\ UNCHANGED <<scn, pos, looping, finish, reader, given>>

\* The output goes to the next reader, or the text itself when it is no armor.
Passed == IF status = "Disabled" THEN in ELSE <<>>
Return ==
    /\ Returning /\ ~Refused
    /\ emsg' = Reported
    /\ given' = given \o Passed \o out
    /\ out' = <<>>
    /\ in' = (IF status = "Disabled" THEN <<>> ELSE in)
    /\ pc' = IF finish THEN "done" ELSE "idle"
    /\ UNCHANGED <<scn, pos, looping, finish, st, failed, buf, result, status,
                   label, crc>>

Step == \/ EnterUnknown \/ EnterDisabled \/ EnterBeginHeader \/ EnterHeader
        \/ EnterPayload \/ EnterCRC \/ EnterTail \/ EnterTailFound \/ EnterFail
        \/ Refuse \/ Return

Next == Step \/ Read \/ Finish

Spec == Init /\ [][Next]_vars

\* A call that runs goes on running; nobody promises another call.
FairSpec == Spec /\ WF_vars(Step)

-----------------------------------------------------------------------------
(* Properties.                                                             *)

\* The types of the variables: what ArmorReaderImpl can hold.
TypeOK ==
    /\ scn \in Scenarios /\ pos \in 0..Len(scn.text)
    /\ pc \in {"idle", "running", "done", "failed", "thrown"}
    /\ looping \in BOOLEAN /\ failed \in BOOLEAN /\ finish \in BOOLEAN
    /\ st \in States
    /\ in \in Seq(Char) /\ buf \in Seq(Char)
    /\ result \in {"None", "Pending", "Disabled", "UnexpectedFormat", "Success"}
    /\ status \in {"Unknown", "Enabled", "Disabled"}
    /\ label \in Seq(Char) /\ crc \in Seq(Nat)
    /\ out \in Seq(Char) /\ given \in Seq(Char)
    /\ emsg \in {"None", "Success", "Pending", "UnexpectedFormat", "UnexpectedError"}

\* The octets of the base64 blocks that are complete in a stretch of text,
\* up to the tail: what comes behind it is no one's content.
BeforeTail(t) == Take(t, Min({i - 1 : i \in {i \in DOMAIN t : t[i].ch = "tail"}} \cup {Len(t)}))
BlockEnd(c) == c.ch = "b64" /\ c.at = Quad
Values(t) == FlattenSeq([i \in DOMAIN t |-> IF BlockEnd(t[i]) THEN t[i].block ELSE <<>>])
Content(t) == Octets(Values(BeforeTail(t)))
Armored(t) == IsPrefix(MinHeader, t)

\* The tail is accepted only behind a checksum over all that was given out,
\* and only with the label of the header; no cut of the text and no armor
\* header gets around either.
Occurs(s, t) == \E i \in 0..(Len(t) - Len(s)) : SubSeq(t, i + 1, i + Len(s)) = s
AcceptedIsChecked ==
    pc \in {"idle", "done"} /\ st = "TailFound" =>
        LET read == Take(scn.text, pos)
        IN  /\ Occurs([i \in 1..Quad |-> Sum(crc, i)], read)
            /\ given = Octets(crc)
            /\ Occurs(MinTail \o label \o Separator, read)
            /\ Occurs(MinHeader \o label \o Separator, read)

\* Every complete line is decoded in the call that completes it, no more and
\* no less: nothing a caller can see depends on where the text was cut.
LineEnds(t) == {0} \cup {i \in DOMAIN t : t[i].ch = "lf"}
PromptAndExact ==
    pc = "idle" /\ status = "Enabled" =>
        given = Content(Take(scn.text, Max(LineEnds(Take(scn.text, pos)))))

\* A text whose characters are where the format has them: a '\r' only in front
\* of a '\n', base64 lines of whole blocks, and no base64 and no tail before a
\* blank line behind the first one.  It may still be damaged or cut off.
LineAt(t, a, b) ==
    /\ a \in LineEnds(t) /\ b \in a..(Len(t) - 1) /\ t[b + 1].ch \in {"cr", "lf"}
    /\ \A i \in (a + 1)..b : t[i].ch \notin {"cr", "lf"}
WholeBlocks(line) ==
    \A k \in 1..(Len(line) \div Quad) :
        LET block == SubSeq(line, (k - 1) * Quad + 1, k * Quad)
        IN  \A i \in 1..Quad : block[i] = Symbol(block[1].block, i)
Regular(t) ==
    /\ \A i \in 1..(Len(t) - 1) : t[i].ch = "cr" => t[i + 1].ch = "lf"
    /\ \A a, b \in 0..Len(t) :
          LineAt(t, a, b) /\ (b - a) % Quad = 0 /\ (\A i \in (a + 1)..b : IsBase64(t[i])) =>
              WholeBlocks(SubSeq(t, a + 1, b))
    /\ \A i \in DOMAIN t : t[i].ch \in {"b64", "tail"} =>
          \E a, b \in 1..(i - 2) : LineAt(t, a, b) /\ Blank(SubSeq(t, a + 1, b))

\* The state CRC has no link to itself: it could not wait for its line.
CRCNeverWaits == st = "CRC" => result # "Pending"

\* A wrong format is always reported as UnexpectedError: the machine runs on
\* from a state with that result and fails, so Read never gets to say
\* UnexpectedFormat, at whatever character the text was cut.
FormatBecomesError == emsg # "UnexpectedFormat"

\* The machine fails only on a wrong format: no cut brings it to a state that
\* it cannot leave, although it is not reset between calls.
FailsOnFormat == st = "Fail" => result = "UnexpectedFormat"

\* What the caller of the armor reader may rely on: the octets in the armor,
\* or the text itself when it is none.
Promise == INSTANCE StreamDecoder WITH
    Sources <- Scenarios,
    Size    <- LAMBDA s : Len(s.text),
    Content <- LAMBDA s, n : IF Armored(s.text) THEN Content(Take(s.text, n))
                             ELSE Take(s.text, n),
    Sound   <- LAMBDA s : s.sound,
    src     <- scn,
    fed     <- pos,
    mode    <- CASE pc = "idle"    -> "open"
                 [] pc = "running" -> "busy"
                 [] pc = "done"    -> "done"
                 [] OTHER          -> "failed"
KeepsPromise == Promise!Spec

\* Every call comes back.
CallsReturn == pc = "running" ~> pc # "running"
===============================================================================
