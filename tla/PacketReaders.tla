---------------------------- MODULE PacketReaders ----------------------------
(***************************************************************************)
(* The packet readers of packet_reader.cpp as operators: what one call of  *)
(* DoRead or DoFinish does with the octets a reader has in its in-stream.  *)
(*                                                                         *)
(* An octet (or a short run of octets that no property tells apart) is a   *)
(* cell [depth, kind, val].  kind names its role in the packet layout;     *)
(* depth counts the decryption, decompression and armor layers that must   *)
(* still be taken off before a reader may look at it; val numbers the      *)
(* payload octets.  A reader that looks at a cell too early, or takes off  *)
(* a layer that is not there, sees a junk cell, as the real reader would   *)
(* see garbage.                                                            *)
(*                                                                         *)
(* A reader is the record [made, in, step, held, keyed]:                   *)
(*   made   the object is in PacketFactory::packet_map_                    *)
(*   in     the unread content of in_                                      *)
(*   step   how far the fixed fields at the front of the body are read     *)
(*   held   mdc_ (SEIPD), or what the decompressor keeps back (COMP)       *)
(*   keyed  cipher_mode_ is not null                                       *)
(*                                                                         *)
(* A definition Name_Variant in front of Name is not part of the model: it *)
(* is the mistake in that piece of code which some property is there for.  *)
(***************************************************************************)
EXTENDS Integers, SequencesExt

CONSTANTS
    HeaderMax,   \* kHeaderMaxSize: octets the header reader waits for
    ESKLen,      \* kRequiredLength of the ESK packet
    PrefixLen,   \* random prefix of an encrypted packet, block_size + 2
    MDCLen,      \* kMDCLength: tag, length and SHA-1 at the end of SEIPD
    Gran         \* update_granularity() of the cipher mode

ASSUME LayoutAssumption ==
    /\ HeaderMax \in Nat \ {0}
    /\ ESKLen    \in Nat \ {0}
    /\ PrefixLen \in Nat \ {0}
    /\ MDCLen    \in Nat \ {0}
    /\ Gran      \in Nat \ {0}

\* The readers PacketFactory can build.  MDC (packet type 19) is known to
\* GetPacketSpec and therefore accepted as a header, but has no reader.
ReaderTypes == {"ESK", "SEIPD", "SYM", "COMP", "LIT"}
PacketTypes == ReaderTypes \cup {"MDC"}
Ciphered    == {"SEIPD", "SYM"}

BodyKinds  == {"esk", "version", "prefix", "tag", "sha", "algo", "eoz",
               "mode", "name", "data"}
ArmorKinds == {"begin", "nl", "crc", "tail"}
Kinds      == PacketTypes \cup BodyKinds \cup ArmorKinds \cup {"junk"}
Cell       == [depth : Nat, kind : Kinds, val : Nat]
Junk       == [depth |-> 0, kind |-> "junk", val |-> 0]

\* emsg_result.  Undefined stands for undefined behaviour (a null
\* cipher_mode_ or an empty mdc_ is used), Exception for an exception of the
\* Botan decompressor that leaves the library.
Errors  == {"InvalidPassphrase", "InvalidSurrogateIV", "MDCError",
            "UnexpectedError", "UnexpectedFormat", "UnsupportedAlgo",
            "UnsupportedCompressionAlgo", "UnsupportedPacketType",
            "UnsupportedS2K"}
Results == {"None", "Success", "Pending"} \cup Errors
Faults  == {"Undefined", "Exception"}

Take(s, n) == SubSeq(s, 1, n)
Drop(s, n) == SubSeq(s, n + 1, Len(s))
Readable(c, kind) == c.depth = 0 /\ c.kind = kind
StartsWith(s, kind) == s # <<>> /\ Readable(s[1], kind)

\* Take one layer off every cell: decrypt, inflate or base64-decode it.
Peel(s) == [i \in DOMAIN s |-> IF s[i].depth > 0
                               THEN [s[i] EXCEPT !.depth = @ - 1]
                               ELSE Junk]

Reader  == [made : BOOLEAN, in : Seq(Cell), step : 0..2, held : Seq(Cell),
            keyed : BOOLEAN]
NoReader == [made |-> FALSE, in |-> <<>>, step |-> 0, held |-> <<>>,
             keyed |-> FALSE]

\* The reader r further on: its position, its unread input, what it holds.
At(r, step, in, held) == [made |-> r.made, in |-> in, step |-> step,
                          held |-> held, keyed |-> r.keyed]

Outcome(res, out, rd) == [res |-> res, out |-> out, rd |-> rd]
Reject(res, rd) == {Outcome(res, <<>>, rd)}
Pending(out, rd) == {Outcome("Pending", out, rd)}

-----------------------------------------------------------------------------
(* Symmetric-key encrypted session key packet: the key derivation setup,   *)
(* which message_config and salt keep (step 1).                            *)

\* Which one depends on the field that is not as it has to be.
ESKErrors == {"UnexpectedFormat", "UnsupportedAlgo", "UnsupportedS2K"}
ReadESK(r) ==
    IF Len(r.in) < ESKLen THEN Pending(<<>>, r)
    ELSE LET rest == Drop(r.in, ESKLen)
         IN  IF \A i \in 1..ESKLen : Readable(r.in[i], "esk")
             THEN {Outcome("Success", <<>>, At(r, 1, rest, r.held))}
             ELSE UNION {Reject(res, At(r, 0, rest, r.held)) : res \in ESKErrors}

-----------------------------------------------------------------------------
(* The two encrypted packets.  emsg is state.emsg_result as the reader     *)
(* finds it, fin is state.finish_packets, key what the key provider gave.  *)

Whole(n) == (n \div Gran) * Gran

CheckPrefix_Not(prefix, key) == TRUE
CheckPrefix(prefix, key) ==
    key = "right" /\ \A i \in 1..PrefixLen : Readable(prefix[i], "prefix")

\* Symmetric packet: no version, no integrity protection.
ReadSYM(r, emsg, fin, key) ==
    LET skip == IF r.step = 0 THEN PrefixLen ELSE 0
        rest == Drop(r.in, skip)
        n    == IF fin THEN Len(rest) ELSE Whole(Len(rest))
    IN  IF emsg = "InvalidPassphrase" THEN Reject(emsg, r)
        ELSE IF Len(r.in) < skip THEN Pending(<<>>, r)
        ELSE IF ~r.keyed THEN Reject("Undefined", r)
        ELSE IF skip > 0 /\ ~CheckPrefix(Peel(r.in), key)
             THEN Reject("InvalidSurrogateIV", At(r, 0, rest, r.held))
        ELSE Pending(Peel(Take(rest, n)),
                     At(r, 1, Drop(rest, n), r.held))

\* How much of the input one DoRead of the integrity protected packet
\* decrypts: whole cipher steps, and none before prefix and MDC would fit.
SEIPDStep_Eager(len, fin)   == IF fin THEN len ELSE Whole(len)
SEIPDStep(len, fin) ==
    IF fin THEN len
    ELSE IF Whole(len) < PrefixLen + MDCLen THEN 0 ELSE Whole(len)

\* The body behind the version octet.  held is the window of the MDCLen
\* octets read last: they are written out only when more octets follow.
ReadSEIPDBody(r, fin, key) ==
    LET n      == SEIPDStep(Len(r.in), fin)
        buf    == Peel(Take(r.in, n))
        first  == r.step = 1
        rest   == Drop(r.in, n)
        window == r.held \o (IF first THEN Drop(buf, PrefixLen) ELSE buf)
        out    == Take(window, Len(window) - MDCLen)
    IN  IF n = 0 THEN Pending(<<>>, r)
        ELSE IF first /\ n >= PrefixLen /\ ~CheckPrefix(buf, key)
             THEN Reject("InvalidSurrogateIV", At(r, r.step, rest, r.held))
        ELSE IF Len(window) < MDCLen THEN Reject("Undefined", r)
        ELSE Pending(out, At(r, 2, rest, Drop(window, Len(window) - MDCLen)))

ReadSEIPD(r, emsg, fin, key) ==
    IF emsg = "InvalidPassphrase" THEN Reject(emsg, r)
    ELSE IF r.step = 0 /\ ~StartsWith(r.in, "version")
         THEN Reject("UnexpectedFormat", r)
    ELSE IF ~r.keyed THEN Reject("Undefined", r)
    ELSE IF r.step = 0
         THEN ReadSEIPDBody(At(r, 1, Tail(r.in), r.held), fin, key)
    ELSE ReadSEIPDBody(r, fin, key)

FinishSEIPD_TagOnly(r) ==
    IF StartsWith(r.held, "tag") THEN "Success" ELSE "UnexpectedFormat"
FinishSEIPD(r) ==
    IF ~StartsWith(r.held, "tag") THEN "UnexpectedFormat"
    ELSE IF Len(r.held) = MDCLen
            /\ \A i \in 2..MDCLen : Readable(r.held[i], "sha")
                                    /\ r.held[i].val = 0
         THEN "Success" ELSE "MDCError"

-----------------------------------------------------------------------------
(* Compressed packet.  How much the decompressor gives back before the end *)
(* of its stream is its own choice (external); at the end, or when the     *)
(* reader is told to finish, everything comes out, and finishing before    *)
(* the end of the stream throws, as does input that is not a stream.       *)

Inflate(r, fin) ==
    LET all   == r.held \o Peel(r.in)
        ended == all # <<>> /\ Readable(Last(all), "eoz")
        sound == \A i \in DOMAIN all : all[i].kind # "junk"
    IN  IF r.step = 2 /\ all = <<>> THEN Pending(<<>>, r)
        ELSE IF ~sound \/ r.step = 2 \/ (fin /\ ~ended)
             THEN Reject("Exception", r)
        ELSE IF ended THEN Pending(Front(all), At(r, 2, <<>>, <<>>))
        ELSE UNION {Pending(Take(all, n), At(r, 1, <<>>, Drop(all, n)))
                    : n \in 0..Len(all)}

ReadCOMP(r, fin) ==
    IF r.step > 0 THEN Inflate(r, fin)
    ELSE IF StartsWith(r.in, "algo")
         THEN Inflate(At(r, 1, Tail(r.in), r.held), fin)
    ELSE Reject("UnsupportedCompressionAlgo", r)

-----------------------------------------------------------------------------
(* Literal packet: mode and name length, name and date, then the payload.  *)

ReadLITName(r) ==
    IF r.step = 2 THEN Pending(r.in, At(r, 2, <<>>, r.held))
    ELSE IF r.in = <<>> THEN Pending(<<>>, r)
    ELSE Pending(Tail(r.in), At(r, 2, <<>>, r.held))

ReadLIT(r) ==
    IF r.step > 0 THEN ReadLITName(r)
    ELSE IF r.in = <<>> THEN Pending(<<>>, r)
    ELSE IF StartsWith(r.in, "mode")
         THEN ReadLITName(At(r, 1, Tail(r.in), r.held))
    ELSE Reject("UnexpectedFormat", At(r, 0, Tail(r.in), r.held))

-----------------------------------------------------------------------------

\* ESK and Literal are final packets: their output is not parsed further.
IsFinalPacket(t) == t \in {"ESK", "LIT"}

\* PacketRWBase::Read
DoRead(t, r, emsg, fin, key) ==
    CASE t = "ESK"   -> ReadESK(r)
      [] t = "SEIPD" -> ReadSEIPD(r, emsg, fin, key)
      [] t = "SYM"   -> ReadSYM(r, emsg, fin, key)
      [] t = "COMP"  -> ReadCOMP(r, fin)
      [] t = "LIT"   -> ReadLIT(r)

\* PacketRWBase::Finish
DoFinish(t, r) == IF t = "SEIPD" THEN FinishSEIPD(r) ELSE "Success"
=============================================================================
