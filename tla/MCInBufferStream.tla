--------------------------- MODULE MCInBufferStream ---------------------------
(***************************************************************************)
(* Bodies in portions for InBufferStream.  The library's default portion   *)
(* is 2^4 octets, and with LenMax = 5 a length takes up to four octets of  *)
(* the body with it: portions of 2^3 and 2^4 are longer than that.         *)
(***************************************************************************)
EXTENDS InBufferStream

MCBody(from, n) == [i \in 1..n |-> [octet |-> (from + i) % 192, id |-> from + i]]
MCLength(octets) == [i \in DOMAIN octets |-> [octet |-> octets[i], id |-> 0]]

\* A portion of 2^p octets behind from octets of body, and the last portion of
\* n octets with its length written as octets.
Portion(p, from) == MCLength(<<PartialOctet(p)>>) \o MCBody(from, 2 ^ p)
Final(octets, from, n) == MCLength(octets) \o MCBody(from, n)

\* k portions of 2^p octets.
Portions(p, k) == FlattenSeq([i \in 1..k |-> Portion(p, (i - 1) * 2 ^ p)])

\* The same, seen from the packet reader: the header took the first length.
Opened(cells) == [first |-> ReadLength(<<cells[1].octet>>).len, cells |-> Tail(cells)]
Plain(cells)  == [first |-> 0, cells |-> cells]
Asking(s, n)  == [first |-> s.first, cells |-> s.cells, ask |-> n]

Ends(from) == {Final(WriteLength(n), from, n) : n \in 0..5}
              \cup {<<>>, Final(<<255, 0, 0, 0, 2>>, from, 2)}
Bodies(p, k) == {Portions(p, k) \o e : e \in Ends(k * 2 ^ p)}

MCSound ==
    {Asking(Opened(Portion(3, 0) \o Final(<<5>>, 8, 5)), 1)}
    \cup {Asking(Opened(b), 0) : b \in Bodies(3, 1) \cup Bodies(3, 2)}
    \cup {Asking(Opened(b), 7) : b \in Bodies(4, 1)}
    \cup {Asking(Plain(b), 5) : b \in Bodies(3, 1)}
    \cup {Asking(Opened(Portion(3, 0) \o Portion(4, 8) \o Final(WriteLength(193), 24, 193)), -1)}

\* The proofs are about bodies that are framed, as all of these are.
ASSUME MCFramed == \A s \in MCSound : Framed(s) /\ Whole(s)

\* Portions shorter than what a length takes with it.
MCTwo  == {Asking(Opened(Portions(1, 6)), 0)}
===============================================================================
