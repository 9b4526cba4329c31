----------------------------- MODULE PacketLayout -----------------------------
(***************************************************************************)
(* How packets lie inside each other, as cells: the layouts the library's  *)
(* own writer produces, without the lengths of portions.  MessageReader    *)
(* takes its scenarios from here, and MessageWriter is compared with them. *)
(***************************************************************************)
EXTENDS Integers, Sequences

CONSTANTS ESKLen, PrefixLen, MDCLen

PacketCell(d, k, v) == [depth |-> d, kind |-> k, val |-> v]
Deeper(c) == [c EXCEPT !.depth = c.depth + 1]
Nested(s) == [i \in DOMAIN s |-> Deeper(s[i])]
Run(d, k, n) == [i \in 1..n |-> PacketCell(d, k, 0)]

\* One packet of each kind around its body.
Lit(n) == <<PacketCell(0, "LIT", 0), PacketCell(0, "mode", 0), PacketCell(0, "name", 0)>>
          \o [i \in 1..n |-> PacketCell(0, "data", i)]
Comp(body) == <<PacketCell(0, "COMP", 0), PacketCell(0, "algo", 0)>>
              \o Nested(Append(body, PacketCell(0, "eoz", 0)))
Esk == <<PacketCell(0, "ESK", 0)>> \o Run(0, "esk", ESKLen)
Seipd(body, sha) == <<PacketCell(0, "SEIPD", 0), PacketCell(0, "version", 0)>>
                    \o Nested(Run(0, "prefix", PrefixLen) \o body
                              \o <<PacketCell(0, "tag", 0)>>
                              \o [i \in 1..(MDCLen - 1) |-> PacketCell(0, "sha", sha)])
Sym(body) == <<PacketCell(0, "SYM", 0)>> \o Nested(Run(0, "prefix", PrefixLen) \o body)
===============================================================================
