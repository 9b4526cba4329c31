----------------------------- MODULE MessageWriter -----------------------------
(***************************************************************************)
(* MessageWriter: Update(buf, finish) of message_encryption.cpp drives the *)
(* packet writers of packet_writer.cpp, each of which takes what it is     *)
(* given, cuts its body into portions and hands them to the writer of the  *)
(* packet around it; the armor writer may come last.                       *)
(*                                                                         *)
(* An octet (or a field no property looks into) is a cell [depth, kind,    *)
(* val] as in PacketReaders: depth counts the encryption and compression   *)
(* around it.  Lengths are cells too: a portion of val octets follows (the *)
(* octet in the code has the power), or the last val octets of the body.   *)
(*                                                                         *)
(* A definition Name_Variant in front of Name is not part of the model: it *)
(* is the mistake in that piece of code which some property is there for.  *)
(***************************************************************************)
EXTENDS ArmorWriter

CONSTANTS
    Configs,     \* payload size, compression, armor and portion size
    ChunkMax,    \* bound on the payload of one Update
    ESKLen,      \* octets of the session key packet behind its header
    PrefixLen,   \* random octets in front of what is encrypted
    MDCLen,      \* kMDCLength
    Gran         \* update_granularity() of the cipher mode

ASSUME WriterAssumption ==
    /\ ChunkMax \in Nat \ {0} /\ ESKLen \in Nat \ {0} /\ PrefixLen \in Nat \ {0}
    /\ MDCLen \in Nat \ {0} /\ Gran \in Nat \ {0}
    /\ \A c \in Configs : c \in [size : Nat, compressed : BOOLEAN,
                                 armor : BOOLEAN, power : 0..30]

VARIABLES
    cfg,       \* message_config_
    fed,       \* how much payload the caller has handed over
    pc,        \* idle, running, finished
    finish,    \* the argument of the running Update
    next,      \* how many packet writers of the chain it has gone through
    buf,       \* temp_buf
    target,    \* target_buf
    esk,       \* write_esk_
    writers,   \* packet_map_
    armor,     \* armor_writer_
    output     \* history: all the caller was given

vars == <<cfg, fed, pc, finish, next, buf, target, esk, writers, armor, output>>

WriterTypes == {"LIT", "COMP", "SEIPD"}
Lengths     == {"portion", "last"}
Kinds == WriterTypes \cup Lengths
         \cup {"ESK", "esk", "version", "prefix", "tag", "sha", "algo", "eoz",
               "mode", "name", "data"}

Cell(kind, val) == [depth |-> 0, kind |-> kind, val |-> val]
Wrap(s)    == [i \in DOMAIN s |-> [s[i] EXCEPT !.depth = @ + 1]]
Fill(k, n) == [i \in 1..n |-> Cell(k, 0)]

\* packet_chain_, innermost packet first
Chain == IF cfg.compressed THEN <<"LIT", "COMP", "SEIPD">> ELSE <<"LIT", "SEIPD">>

\* A packet writer: write_header_, the write-once flag of the field in front
\* of its body, in_, out_, what the compressor keeps, what the hash has seen.
Writer(in) == [header |-> TRUE, first |-> TRUE, in |-> in, out |-> <<>>,
               held |-> <<>>, hashed |-> <<>>]
Prefix == Fill("prefix", PrefixLen)

Init ==
    /\ cfg \in Configs
    /\ fed = 0 /\ pc = "idle" /\ finish = FALSE /\ next = 0
    /\ buf = <<>> /\ target = <<>> /\ esk = TRUE
    /\ writers = [t \in WriterTypes |-> Writer(IF t = "SEIPD" THEN Prefix ELSE <<>>)]
    /\ armor = Started /\ output = <<>>

-----------------------------------------------------------------------------
(* DoWrite of the packet writers: what goes into the body, and the writer  *)
(* afterwards, with nothing in out.                                        *)

Once(w, field) == IF w.first THEN field ELSE <<>>
Body(w, body)  == [w |-> w, body |-> body]

WriteLIT(w) ==
    {Body([w EXCEPT !.first = FALSE, !.in = <<>>],
          Once(w, <<Cell("mode", 0), Cell("name", 0)>>) \o w.in)}

\* How much the compressor gives back before it finishes is its own choice.
Deflate(held, done) ==
    IF done THEN {[out |-> Append(held, Cell("eoz", 0)), held |-> <<>>]}
    ELSE {[out |-> Take(held, n), held |-> Drop(held, n)] : n \in {0, Len(held)}}

WriteCOMP(w, done) ==
    {Body([w EXCEPT !.first = FALSE, !.in = <<>>, !.held = z.held],
          Once(w, <<Cell("algo", 0)>>) \o Wrap(z.out))
     : z \in Deflate(w.held \o w.in, done)}

\* Without finish only whole steps of the cipher; with it the MDC at the end.
Encryptable(n, done) == IF done THEN n ELSE (n \div Gran) * Gran
Digest_Tagless(hashed) == hashed
Digest(hashed) == Append(hashed, Cell("tag", 0))
MDC == <<Cell("tag", 0)>> \o Fill("sha", MDCLen - 1)

WriteSEIPD(w, done) ==
    LET n     == Encryptable(Len(w.in), done)
        plain == Take(w.in, n)
        hash  == w.hashed \o plain
    IN  {Body([w EXCEPT !.first = FALSE, !.in = Drop(w.in, n),
                        !.hashed = IF done THEN Digest(hash) ELSE hash],
              Once(w, <<Cell("version", 0)>>)
                \o Wrap(IF done THEN plain \o MDC ELSE plain))}

DoWrite(t, w, done) ==
    CASE t = "LIT"   -> WriteLIT(w)
      [] t = "COMP"  -> WriteCOMP(w, done)
      [] t = "SEIPD" -> WriteSEIPD(w, done)

-----------------------------------------------------------------------------
(* Write and Finish of PacketWriter.                                       *)

\* WritePartialBlocks: as many portions as are complete, and what is left.
Portions_Single(s) == IF Len(s) >= 2 ^ cfg.power THEN 1 ELSE 0
Portions(s) == Len(s) \div 2 ^ cfg.power
Portion(s, i) == Take(Drop(s, (i - 1) * 2 ^ cfg.power), 2 ^ cfg.power)
PartialBlocks_Bare(s) ==
    <<Cell("portion", 2 ^ cfg.power)>> \o Take(s, Portions(s) * 2 ^ cfg.power)
PartialBlocks(s) ==
    FlattenSeq([i \in 1..Portions(s) |-> <<Cell("portion", 2 ^ cfg.power)>> \o Portion(s, i)])
Unfinished(s) == Drop(s, Portions(s) * 2 ^ cfg.power)

\* Everything DoWrite gave goes through out_.
Emit(w, body) == [w   |-> [w EXCEPT !.out = Unfinished(w.out \o body)],
                  out |-> PartialBlocks(w.out \o body)]

PacketHeader_Again(t, w) == <<Cell(t, 0)>>
PacketHeader(t, w) == IF w.header THEN <<Cell(t, 0)>> ELSE <<>>

Write(t, w) ==
    {LET e == Emit([b.w EXCEPT !.header = FALSE], b.body)
     IN  [w |-> e.w, out |-> PacketHeader(t, w) \o e.out] : b \in DoWrite(t, w, FALSE)}

\* What is left gets a length of its own, if there is any.
LastPortion(s) == IF s = <<>> THEN <<>> ELSE <<Cell("last", Len(s))>> \o s

Finish(t, w) ==
    UNION {{LET e == Emit(b.w, b.body)
            IN  [w   |-> [e.w EXCEPT !.out = <<>>],
                 out |-> u.out \o e.out \o LastPortion(e.w.out)]
            : b \in DoWrite(t, u.w, TRUE)} : u \in Write(t, w)}

-----------------------------------------------------------------------------
(* MessageWriterImpl::Update, one packet writer at a time.                 *)

\* The caller's next piece; without armor the session key packet goes
\* straight to the target, with armor through the armor writer.
WriteESK(piece) ==
    LET packet == IF esk THEN <<Cell("ESK", 0)>> \o Fill("esk", ESKLen) ELSE <<>>
        armed  == ArmorWrite(armor, packet, FALSE)
    IN  /\ esk' = FALSE
        /\ IF cfg.armor THEN armor' = armed.a /\ target' = armed.out
                        ELSE UNCHANGED armor /\ target' = packet
        /\ buf' = piece

Update ==
    /\ pc = "idle" /\ pc' = "running" /\ next' = 0
    /\ \E n \in 0..ChunkMax :
          /\ fed + n <= cfg.size /\ fed' = fed + n
          /\ finish' \in BOOLEAN /\ (finish' => fed' = cfg.size)
          /\ WriteESK([i \in 1..n |-> Cell("data", fed + i)])
    /\ UNCHANGED <<cfg, writers, output>>

\* One turn of the loop over packet_chain_.
PacketWriter ==
    /\ pc = "running" /\ next < Len(Chain) /\ next' = next + 1
    /\ LET t == Chain[next + 1]
           w == [writers[t] EXCEPT !.in = @ \o buf]
       IN  \E r \in (IF finish THEN Finish(t, w) ELSE Write(t, w)) :
              /\ writers' = [writers EXCEPT ![t] = r.w]
              /\ buf' = r.out
    /\ UNCHANGED <<cfg, fed, pc, finish, target, esk, armor, output>>

Return ==
    /\ pc = "running" /\ next = Len(Chain)
    /\ LET armed == ArmorWrite(armor, buf, finish)
       IN  IF cfg.armor
           THEN armor' = armed.a /\ output' = output \o target \o armed.out
           ELSE UNCHANGED armor /\ output' = output \o target \o buf
    /\ pc' = IF finish THEN "finished" ELSE "idle"
    /\ buf' = <<>> /\ target' = <<>>
    /\ UNCHANGED <<cfg, fed, finish, next, esk, writers>>

Loop == PacketWriter \/ Return
Next == Update \/ Loop
Spec == Init /\ [][Next]_vars

\* Update is one call in one thread: once begun it goes on by itself.
FairSpec == Spec /\ WF_vars(Loop)
-----------------------------------------------------------------------------
(* What a reader that waits for everything makes of the output so far.     *)

Junk == Cell("junk", 0)
Cells == Seq([depth : 0..2, kind : Kinds \cup {"junk"}, val : Nat])

\* One layer off every cell.
Peeled[s \in Cells] == [i \in DOMAIN s |-> IF s[i].depth > 0
                                           THEN [s[i] EXCEPT !.depth = @ - 1] ELSE Junk]

\* What is behind the fields that must come first, or in front of a trailer.
Behind(fields) ==
    [s \in Cells |-> IF IsPrefix(fields, s) THEN Drop(s, Len(fields))
                     ELSE IF IsPrefix(s, fields) THEN <<>> ELSE <<Junk>>]
Before(trailer) ==
    [s \in Cells |-> IF IsSuffix(trailer, s) THEN Take(s, Len(s) - Len(trailer)) ELSE s]

\* The body that comes in portions; a length covers exactly what belongs to it.
Unframed[s \in Cells] ==
    IF s = <<>> THEN <<>>
    ELSE LET size == s[1].val
         IN  IF s[1].depth # 0 \/ s[1].kind \notin Lengths THEN <<Junk>>
             ELSE IF 1 + size > Len(s) THEN Tail(s)
             ELSE IF s[1].kind = "last" /\ 1 + size < Len(s) THEN <<Junk>>
             ELSE SubSeq(s, 2, 1 + size) \o Unframed[Drop(s, 1 + size)]
Opened(t, s) == Unframed[Behind(<<Cell(t, 0)>>)[s]]

\* The octets behind the armor, the plaintext of the encrypted packet, the
\* literal packet and its content.
Octets(text) == FlattenSeq([i \in DOMAIN text |->
                              IF text[i].kind = "block" THEN text[i].octets ELSE <<>>])
Stream     == IF cfg.armor THEN Octets(output) ELSE output
SessionKey == <<Cell("ESK", 0)>> \o Fill("esk", ESKLen)
Plaintext  == Peeled[Behind(<<Cell("version", 0)>>)
                         [Opened("SEIPD", Behind(SessionKey)[Stream])]]
Protected  == Behind(Prefix)[Before(MDC)[Plaintext]]
Literal    == IF cfg.compressed
              THEN Before(<<Cell("eoz", 0)>>)
                       [Peeled[Behind(<<Cell("algo", 0)>>)[Opened("COMP", Protected)]]]
              ELSE Protected
Content    == Behind(<<Cell("mode", 0), Cell("name", 0)>>)[Opened("LIT", Literal)]

-----------------------------------------------------------------------------
(* Properties.                                                             *)

CellType == [depth : 0..2, kind : Kinds, val : Nat]
TextType == [kind : {"header", "block", "nl", "crc", "footer"}, octets : Seq(CellType)]
WriterType == [header : BOOLEAN, first : BOOLEAN, in : Seq(CellType),
               out : Seq(CellType), held : Seq(CellType), hashed : Seq(CellType)]

TypeOK ==
    /\ cfg \in Configs /\ fed \in 0..cfg.size
    /\ pc \in {"idle", "running", "finished"} /\ finish \in BOOLEAN
    /\ next \in 0..Len(Chain) /\ esk \in BOOLEAN
    /\ buf \in Seq(CellType)
    /\ target \in Seq(CellType \cup TextType) /\ output \in Seq(CellType \cup TextType)
    /\ writers \in [WriterTypes -> WriterType]
    /\ \A t \in WriterTypes : Len(writers[t].out) < 2 ^ cfg.power
    /\ armor.status \in {"Header", "Payload", "Finished"}
    /\ armor.slots \in 1..LineBlocks /\ armor.part \in Seq(CellType)
    /\ Len(armor.part) < BlockLen /\ armor.crc \in Seq(CellType)

\* The writer with a reader behind it promises what StreamDecoder says: what
\* comes out is the payload, in order, never anything else, and all of it when
\* the last call has returned; so all packets, portions and lines fit together
\* whatever the pieces in which the payload was handed over.
PayloadSize(c)   == c.size
Payloads(c, n)   == [i \in 1..n |-> Cell("data", i)]
EveryConfig(c)   == TRUE
Mode == CASE pc = "idle" -> "open" [] pc = "running" -> "busy" [] pc = "finished" -> "done"
Through == INSTANCE StreamDecoder WITH
    Sources <- Configs, Size <- PayloadSize, Content <- Payloads, Sound <- EveryConfig,
    src <- cfg, fed <- fed, given <- Content, mode <- Mode
KeepsPromise == Through!Spec

\* The digest of the MDC packet was computed over everything that was
\* encrypted in front of it, the tag included, each octet once and in order.
DigestCovers ==
    pc = "finished" =>
        writers["SEIPD"].hashed = Take(Plaintext, Len(Plaintext) - (MDCLen - 1))

\* Without the lengths of portions the message is exactly the one MessageReader
\* is checked on: every header and field once, at its place.
Layout == INSTANCE PacketLayout
Bare(s) == FlattenSeq([i \in DOMAIN s |-> IF s[i].kind \in Lengths THEN <<>> ELSE <<s[i]>>])
WritesLayout ==
    pc = "finished" =>
        LET literal == Layout!Lit(cfg.size)
        IN  Bare(Stream)
              = Layout!Esk \o Layout!Seipd(IF cfg.compressed THEN Layout!Comp(literal)
                                                              ELSE literal, 0)

\* Between calls the writer keeps back less than a portion per packet, a cipher
\* step and a block of armor, besides what the compressor keeps: it streams.
HoldsBackLittle ==
    pc = "idle" =>
        fed - Len(Content) <= Len(Chain) * (2 ^ cfg.power - 1) + (Gran - 1)
                              + Len(writers["COMP"].held)
                              + (IF cfg.armor THEN BlockLen - 1 ELSE 0)

\* The armor does not depend on the pieces in which it was written: only the
\* last block is short, all lines but the last are full, and the checksum is
\* that of all octets.
ArmorUncut ==
    pc = "finished" /\ cfg.armor =>
        output = ArmorWrite(Started, Stream, TRUE).out
        /\ \A i \in DOMAIN Blocks(Stream) :
              i < Len(Blocks(Stream)) => Len(Blocks(Stream)[i].octets) = BlockLen

\* packet_parsers.cpp:48: "After this packet there will be another with its
\* own length header", said of a portion: the last portion is of known length.
IsLength(c) == c.depth = 0 /\ c.kind \in Lengths
LastLengthIsKnown ==
    pc = "finished" => Last(SelectSeq(Stream, IsLength)).kind = "last"
================================================================================
