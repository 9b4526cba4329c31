--------------------------- MODULE MCMessageReader ---------------------------
(***************************************************************************)
(* Small scenarios for MessageReader: the layouts of PacketLayout and the  *)
(* ones the tests read, complete, cut short, damaged or locked, plain or   *)
(* armored.                                                                *)
(***************************************************************************)
EXTENDS MessageReader

INSTANCE PacketLayout

\* ASCII armor: every line is two cells, the second stands for its content.
Lines(s) == [i \in 1..(2 * Len(s)) |-> IF i % 2 = 1 THEN PacketCell(0, "nl", 0)
                                      ELSE Deeper(s[i \div 2])]
Armored(s, crc) == <<PacketCell(0, "begin", 0), PacketCell(0, "nl", 0)>> \o Lines(s)
    \o <<PacketCell(0, "nl", 0), PacketCell(0, "crc", crc),
         PacketCell(0, "nl", 0), PacketCell(0, "tail", 0)>>

Scn(w, secret, a, ok) == [wire |-> w, start |-> "passphrase", secret |-> secret,
                          analyze |-> a, intact |-> ok]
Cuts(w, lo) == {Scn(Take(w, n), "right", FALSE, FALSE) : n \in lo..(Len(w) - 1)}

Full    == Esk \o Seipd(Comp(Lit(2)), 0)
Stored  == Esk \o Seipd(Lit(1), 0)
BadMDC  == Esk \o Seipd(Lit(1), 1)
Legacy  == Esk \o Sym(Comp(Lit(1)))
Armed   == Armored(Esk \o Seipd(Lit(1), 0), 0)

\* The part of Stored that fills the MDC window.
Window  == Len(Esk) + 2 + PrefixLen + MDCLen

\* Whole messages, opened with the right key.
Intact == {Scn(w, "right", FALSE, TRUE) :
             w \in {Full, Stored, Legacy, Armed, Lit(2), Comp(Lit(1)),
                   Esk \o Seipd(Sym(Comp(Lit(1))), 0)}}
\* Four and five packets with packets inside, the last ones a cipher that goes
\* on with a further packet: one place is left in the chain for the first, and
\* none for the second.
Further(body) == <<PacketCell(0, "SYM", 0)>> \o Nested(body)
Deep == {Scn(Esk \o Seipd(Sym(Comp(w)), 0), "right", FALSE, FALSE) :
           w \in {Further(Lit(1)), Further(Further(Lit(1)))}}
\* The same read by an analyzer, with the key or without one; and, without
\* one, an encrypted message inside a compressed packet.
Analyzers == {Scn(w, "right", TRUE, TRUE) : w \in {Stored, Armed}}
             \cup {Scn(w, "empty", TRUE, FALSE) : w \in {Stored, Comp(Stored)}}
Locked  == {Scn(w, k, FALSE, FALSE) :
              w \in {Stored, Legacy, Armed}
                    \cup {Take(Stored, n) : n \in (Window - 2)..(Len(Stored) - 1)}
                    \cup {Take(Legacy, n) : n \in Len(Esk)..(Len(Legacy) - 1)},
              k \in {"wrong", "empty"}}
\* Damaged or unusual: two compressed packets inside each other share one
\* reader, which refuses the inner one; so do two key packets, which is fine.
Damaged == {Scn(w, "right", FALSE, FALSE) :
              w \in {BadMDC, Armored(Esk, 1), <<PacketCell(0, "junk", 0)>> \o Stored,
                     <<PacketCell(0, "ESK", 0), PacketCell(0, "junk", 0)>> \o Stored,
                     Comp(Comp(Lit(1))), Esk \o Seipd(Esk, 0)}}

\* The other variants of Start; and a message without the packet that names
\* the algorithms, opened in every way.
From(start, secret, w, ok) ==
    [wire |-> w, start |-> start, secret |-> secret, analyze |-> FALSE, intact |-> ok]
Keys == {From(start, "right", Stored, TRUE) : start \in Starts}
        \cup {From("key", "wrong", Stored, FALSE),
               From("askPassphrase", "empty", Stored, FALSE),
               From("askKey", "cancelled", Stored, FALSE)}
        \cup {From(start, "right", w, FALSE) : start \in {"passphrase", "key"},
                                              w \in {Seipd(Lit(1), 0), Sym(Lit(1))}}
        \cup {From("askPassphrase", "cancelled", Seipd(Lit(1), 0), FALSE)}

\* Inputs cut short: before the armor reader decides, in a header, in the MDC
\* window, in the literal packet, in a line of armor.
Short == Cuts(Stored, 0) \cup Cuts(Legacy, ArmorMin) \cup Cuts(Lit(2), 0)
         \cup Cuts(Armed, 2 * Window + 2)

\* Everything, also the scenarios whose undefined behaviour the findings are
\* about.
MCAll == Intact \cup Deep \cup Analyzers \cup Locked \cup Damaged \cup Keys \cup Short
         \cup {Scn(Armed, "empty", TRUE, FALSE),
               Scn(<<PacketCell(0, "MDC", 0)>> \o Run(0, "sha", 2), "right", FALSE, FALSE)}

\* A short whole literal message, and the locked armored one.
MCTiny  == {Scn(Take(Lit(1), 4), "right", FALSE, TRUE)}
MCLockedArmor == {Scn(Armed, "empty", TRUE, FALSE)}
=============================================================================
