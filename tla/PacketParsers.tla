----------------------------- MODULE PacketParsers -----------------------------
(***************************************************************************)
(* Packet headers and the lengths in front of a body or of a portion of    *)
(* it: WriteLength, WritePacketHeader and WritePartialBlocks write them    *)
(* (packet_writer.cpp), ReadPacketHeader, ReadLength, ReadOldLength and    *)
(* TryOneOctetLength read them (packet_parsers.cpp).  An octet is a number *)
(* below 256.                                                              *)
(*                                                                         *)
(* A definition Name_Variant in front of Name is not part of the model: it *)
(* is the mistake in that piece of code which some property is there for.  *)
(***************************************************************************)
EXTENDS Integers, Sequences

Octet == 0..255

\* PacketType without Unknown.
TypeCodes == {3, 8, 9, 11, 18, 19}

-----------------------------------------------------------------------------
(* Lengths.                                                                *)

\* The octet of len that has n octets behind it, and four octets as a number.
Digit(len, n) == IF n = 0 THEN len % 256
                 ELSE IF n = 1 THEN (len \div 256) % 256
                 ELSE IF n = 2 THEN ((len \div 256) \div 256) % 256
                 ELSE (((len \div 256) \div 256) \div 256) % 256
Number(a, b, c, d) == ((a * 256 + b) * 256 + c) * 256 + d

WriteLength_Unbiased(len) ==
    IF len < 192 THEN <<len>>
    ELSE IF len < 8384 THEN <<(len \div 256) + 192, len % 256>>
    ELSE <<255, Digit(len, 3), Digit(len, 2), Digit(len, 1), Digit(len, 0)>>
WriteLength(len) ==
    IF len < 192 THEN <<len>>
    ELSE IF len < 8384 THEN <<((len - 192) \div 256) + 192, (len - 192) % 256>>
    ELSE <<255, Digit(len, 3), Digit(len, 2), Digit(len, 1), Digit(len, 0)>>

\* The octet in front of a portion of 2^power octets.
PartialOctet(power) == 224 + power

IsOneOctet(c) == c < 192     \* TryOneOctetLength
IsPartial(c)  == c >= 224 /\ c # 255

\* How many octets the length takes that begins with c.
LengthSize(c) == IF IsOneOctet(c) \/ IsPartial(c) THEN 1
                 ELSE IF c < 224 THEN 2 ELSE 5

\* ReadLength from s, which holds all octets of the length and begins at the
\* first.
ReadLength(s) ==
    [len     |-> IF IsOneOctet(s[1]) THEN s[1]
                 ELSE IF s[1] < 224 THEN (s[1] - 192) * 256 + s[2] + 192
                 ELSE IF IsPartial(s[1]) THEN 2 ^ (s[1] % 32)
                 ELSE Number(s[2], s[3], s[4], s[5]),
     partial |-> IsPartial(s[1]),
     size    |-> LengthSize(s[1])]

\* ReadOldLength: n octets, none for a length that is not given.
ReadOldLength(s, n) ==
    IF n = 0 THEN 0
    ELSE IF n = 1 THEN s[1]
    ELSE IF n = 2 THEN s[1] * 256 + s[2]
    ELSE Number(s[1], s[2], s[3], s[4])

-----------------------------------------------------------------------------
(* Headers: always of the new format when written, of both when read.      *)

\* The first octet; a header with a definite length has it behind, and the
\* length of a first portion is written with the portion.
TypeOctet(type) == 192 + type
WritePacketHeader(type, partial, len) ==
    <<TypeOctet(type)>> \o (IF partial THEN <<>> ELSE WriteLength(len))

\* The octets of an old length, from the two lowest bits.
OldLengthSize(c) == IF c % 4 = 3 THEN 0 ELSE 2 ^ (c % 4)

Header(type, len, partial, size) ==
    [type |-> type, len |-> len, partial |-> partial, size |-> size]

ReadPacketHeader_OldMask(s) ==
    LET new == ReadLength(Tail(s))
    IN  Header(s[1] % 16, new.len, new.partial, 1 + new.size)
ReadPacketHeader(s) ==
    IF (s[1] \div 64) % 2 = 1
    THEN LET new == ReadLength(Tail(s))
         IN  Header(s[1] % 64, new.len, new.partial, 1 + new.size)
    ELSE LET size == OldLengthSize(s[1])
             len  == ReadOldLength(Tail(s), size)
         IN  Header((s[1] % 64) \div 4, len, len = 0, 1 + size)
===============================================================================
