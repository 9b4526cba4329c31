------------------------------ MODULE ArmorWriter ------------------------------
(***************************************************************************)
(* armor_writer.cpp: how octets become lines of ASCII armor, whatever the  *)
(* pieces in which they are written.                                       *)
(*                                                                         *)
(* Text is a sequence of [kind, octets]: a block (the four symbols of      *)
(* base64_encode and the up to BlockLen octets they stand for), the end of *)
(* a line, the header with its empty line, the footer, or the checksum     *)
(* (with the octets it was computed over).                                 *)
(*                                                                         *)
(* A definition Name_Variant in front of Name is not part of the model: it *)
(* is the mistake in that piece of code which some property is there for.  *)
(***************************************************************************)
EXTENDS Integers, SequencesExt

CONSTANTS
    BlockLen,    \* kArmorBlockLength: octets of a base64 block
    LineBlocks   \* blocks of kArmorLineLength symbols

ASSUME ArmorAssumption == BlockLen \in Nat \ {0} /\ LineBlocks \in Nat \ {0}

Take(s, n) == SubSeq(s, 1, n)
Drop(s, n) == SubSeq(s, n + 1, Len(s))

Text(kind, octets) == [kind |-> kind, octets |-> octets]
EndOfLine == Text("nl", <<>>)

\* base64_encode of all octets, and how many it takes: without finish those
\* of whole blocks.
Blocks(octets) ==
    [i \in 1..((Len(octets) + BlockLen - 1) \div BlockLen) |->
        Text("block", SubSeq(octets, (i - 1) * BlockLen + 1,
                             Min({i * BlockLen, Len(octets)})))]
Encodable(octets, finish) ==
    IF finish THEN Len(octets) ELSE (Len(octets) \div BlockLen) * BlockLen

\* Lines of equal length: slots is line_slots_, what is free in the last one.
FormatLines_FromStart(slots, blocks) ==
    FlattenSeq([i \in DOMAIN blocks |->
        IF i % LineBlocks = 0 THEN <<blocks[i], EndOfLine>> ELSE <<blocks[i]>>])
FormatLines(slots, blocks) ==
    FlattenSeq([i \in DOMAIN blocks |->
        IF i >= slots /\ (i - slots) % LineBlocks = 0
        THEN <<blocks[i], EndOfLine>> ELSE <<blocks[i]>>])
Slots_Unreset(slots, n) == slots - n
Slots(slots, n) == LineBlocks - ((LineBlocks - slots + n) % LineBlocks)

\* The writer after Start; part is part_ with part_length_, crc what crc24_
\* has seen.
Started == [status |-> "Header", part |-> <<>>, slots |-> LineBlocks, crc |-> <<>>]

Header(a) == IF a.status = "Header" THEN <<Text("header", <<>>)>> ELSE <<>>
Footer(crc) == <<EndOfLine, Text("crc", crc), EndOfLine, Text("footer", <<>>), EndOfLine>>

\* Write with octets in the in-stream: the writer and the text afterwards.
\* The part left from the last call comes first.
Payload(a, octets) == a.part \o octets
ArmorWrite(a, octets, finish) ==
    LET buf    == Payload(a, octets)
        taken  == Take(buf, Encodable(buf, finish))
        blocks == Blocks(taken)
        crc    == a.crc \o taken
    IN  IF octets = <<>> /\ ~finish THEN [a |-> a, out |-> <<>>]
        ELSE [a   |-> [status |-> IF finish THEN "Finished" ELSE "Payload",
                       part   |-> Drop(buf, Len(taken)),
                       slots  |-> Slots(a.slots, Len(blocks)),
                       crc    |-> crc],
              out |-> Header(a) \o FormatLines(a.slots, blocks)
                      \o (IF finish THEN Footer(crc) ELSE <<>>)]
================================================================================
