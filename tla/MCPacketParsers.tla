---------------------------- MODULE MCPacketParsers ----------------------------
(***************************************************************************)
(* The header codec over stretches of lengths: past the borders at 192 and *)
(* 8384 where the form of a length changes, and where the octets of a long *)
(* length carry; and over all partial lengths.  TLC counts the length up.  *)
(***************************************************************************)
EXTENDS PacketParsers

CONSTANTS Starts,    \* where the stretches start
          Span,      \* how long they are
          PowerMax   \* bound on the power of a portion, below TLC's integers

VARIABLE len

Init == len \in Starts
Next == /\ \E s \in Starts : len - s \in 0..(Span - 1)
        /\ len' = len + 1
Spec == Init /\ [][Next]_len

MCStarts == {0, 4000, 7900, 65200, 16776900, 2147483000}

\* A length is read as it was written, in all its forms, whatever follows it,
\* and takes as many octets as were written: no border between two forms is
\* off by one, and no length is mistaken for that of a portion.
LengthRoundTrip ==
    \A next \in {<<>>, <<0, 255, 224, 192, 1>>} :
        LET octets == WriteLength(len)
        IN  /\ \A i \in DOMAIN octets : octets[i] \in Octet
            /\ ReadLength(octets \o next)
                 = [len |-> len, partial |-> FALSE, size |-> Len(octets)]

\* A header with its length is read as it was written, and so is one of a body
\* in portions, where the first portion brings the length.
HeaderRoundTrip ==
    \A type \in TypeCodes :
        LET whole == WritePacketHeader(type, FALSE, len)
        IN  /\ ReadPacketHeader(whole) = Header(type, len, FALSE, Len(whole))
            /\ \A p \in 0..PowerMax :
                  ReadPacketHeader(WritePacketHeader(type, TRUE, 0) \o <<PartialOctet(p)>>)
                    = Header(type, 2 ^ p, TRUE, 2)
===============================================================================
