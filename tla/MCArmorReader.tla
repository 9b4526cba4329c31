----------------------------- MODULE MCArmorReader -----------------------------
(***************************************************************************)
(* Small texts for ArmorReader: what ArmorWriter writes, the same as other *)
(* programs write it, damaged and truncated, and texts that are no armor.  *)
(***************************************************************************)
EXTENDS ArmorReader

CONSTANTS BlockLen, LineBlocks
Writer == INSTANCE ArmorWriter

MCHeader    == <<Plain("header"), Plain("header")>>
MCTail      == <<Plain("tail")>>
MCSeparator == <<Plain("separator")>>
MCLabel     == <<Plain("label")>>

LF == <<Plain("lf")>>
HeaderLine == MCHeader \o MCLabel \o MCSeparator \o LF
TailLine   == MCTail \o MCLabel \o MCSeparator

\* The characters of a piece of the text that ArmorWriter writes.
Chars(t) ==
    CASE t.kind = "header" -> HeaderLine \o LF
      [] t.kind = "nl"     -> LF
      [] t.kind = "block"  -> [i \in 1..Quad |-> Symbol(t.octets, i)]
      [] t.kind = "crc"    -> <<Plain("eq")>> \o [i \in 1..Quad |-> Sum(t.octets, i)]
      [] t.kind = "footer" -> TailLine

TextOf(pieces) == FlattenSeq([i \in DOMAIN pieces |-> Chars(pieces[i])])
Written(n) == TextOf(Writer!ArmorWrite(Writer!Started, [i \in 1..n |-> i], TRUE).out)

\* The same with other line ends.
WithCRLF(t) == FlattenSeq([i \in DOMAIN t |->
                   IF t[i].ch = "lf" THEN <<Plain("cr"), t[i]>> ELSE <<t[i]>>])

\* The same with armor headers, one of which looks like a checksum, and a
\* blank line that is not empty.
Headers == <<Plain("text"), Plain("space"), Plain("text")>> \o LF
           \o <<Plain("eq"), Plain("text")>> \o LF \o <<Plain("space"), Plain("space")>>
WithHeaders(t) == HeaderLine \o Headers \o Drop(t, Len(HeaderLine))

\* The same with all blocks in one line.
Unlined(n) == LET data == SelectSeq(Written(n), LAMBDA c : c.ch = "b64")
              IN  HeaderLine \o LF \o data \o LF \o <<Plain("eq")>>
                  \o SelectSeq(Written(n), LAMBDA c : c.ch = "sum") \o LF \o TailLine \o LF

Change(t, role, c) == [i \in DOMAIN t |-> IF t[i].ch = role THEN c ELSE t[i]]
Lose(t, role) == LET i == Min({i \in DOMAIN t : t[i].ch = role})
                 IN  Take(t, i - 1) \o Drop(t, i)

Good == {Written(n) : n \in {0, 1, 4, 5}}
        \cup {WithCRLF(Written(5)), WithHeaders(Written(3)), Unlined(5),
              Written(2) \o Written(1),
              Written(2) \o <<Plain("text"), Plain("text")>>}
NoArmor == {<<Plain("text"), Plain("header"), Plain("lf"), Plain("header"), Plain("text")>>,
            Tail(Written(1)), <<Plain("header"), Plain("text")>>}
\* A line of MaxLine symbols that ends with "\r\n" is too long only when it is
\* cut between them; one that is longer only when it is cut at all.
Longest == {WithCRLF(Unlined(5)), Unlined(7)}
Bad == {Change(Written(3), "sum", Sum(<<0>>, 1)), Lose(Written(3), "sum"),
        Lose(Written(3), "b64"), Lose(Written(3), "separator"),
        Lose(Written(3), "tail"), Change(Written(3), "lf", Plain("space")),
        Change(Written(3), "lf", Plain("cr")),
        Change(Written(3), "b64", Plain("text")),
        Change(Written(3), "label", Plain("lf"))}
       \cup {Take(Written(3), n) : n \in 0..(Len(Written(3)) - 1)}

MCTexts == [text : Good \cup NoArmor, sound : {TRUE}]
           \cup [text : Bad \cup Longest, sound : {FALSE}]

\* What the theorem about PromptAndExact asks of a text holds of all the sound ones.
ASSUME MCRegular == \A s \in MCTexts : s.sound => Regular(s.text)
===============================================================================
