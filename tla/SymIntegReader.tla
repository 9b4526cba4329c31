---------------------------- MODULE SymIntegReader ----------------------------
(***************************************************************************)
(* SymmetricIntegProtectedRW of packet_reader.cpp octet by octet: how      *)
(* DoRead moves decrypted octets through prefix_, buf and the window mdc_, *)
(* so that the MDC at the end of the packet is neither written out nor     *)
(* hashed.  PacketReaders models the same reader by the window it should   *)
(* keep; this module shows that the code keeps it.                         *)
(*                                                                         *)
(* Octets are their positions in the body behind the version octet: first  *)
(* the random prefix, then the payload, then the MDC.  The body was sealed *)
(* with sealed octets, of which total arrive.  Decryption does not change  *)
(* positions, so buf is a stretch of consecutive numbers.                  *)
(***************************************************************************)
EXTENDS Integers, Sequences

CONSTANTS
    PrefixLen,   \* prefix_len, block_size + 2
    MDCLen,      \* kMDCLength
    Gran,        \* update_granularity() of the cipher mode
    PayloadMax   \* bound on the payload of a model-checked body

ASSUME WindowAssumption ==
    /\ PrefixLen  \in Nat \ {0}
    /\ MDCLen     \in Nat \ {0}
    /\ Gran       \in Nat \ {0}
    /\ PayloadMax \in Nat

VARIABLES
    sealed, total,  \* the body that was written, and how much of it arrives
    genuine,        \* its octets are the ones that were written
    opens,          \* CheckPrefix accepts the key
    fed,            \* octets pushed into in_
    taken,          \* octets read from in_ and decrypted
    prefix,         \* prefix_.size()
    mdc, out,       \* mdc_, and what was written to the output
    hashed,         \* what hash_ was given
    pc              \* open, read (the DoRead that finishes is over), or the end

body == <<sealed, total, genuine, opens>>
vars == <<body, fed, taken, prefix, mdc, out, hashed, pc>>

\* The positions behind a, up to b.
Seg(a, b) == [i \in 1..(b - a) |-> a + i]

Init ==
    /\ \E n \in 0..PayloadMax : sealed = PrefixLen + n + MDCLen
    /\ total \in 0..sealed /\ genuine \in BOOLEAN /\ opens \in BOOLEAN
    /\ fed = 0 /\ taken = 0 /\ prefix = 0
    /\ mdc = <<>> /\ out = <<>> /\ hashed = <<>> /\ pc = "open"

-----------------------------------------------------------------------------

\* bytes2update, when in_ holds count octets
Step_Eager(count, fin)     == IF fin THEN count ELSE (count \div Gran) * Gran
Step_Remainder(count, fin) ==
    LET whole == count % Gran
    IN  IF fin THEN count ELSE IF whole < PrefixLen + MDCLen THEN 0 ELSE whole
Step(count, fin) ==
    LET whole == (count \div Gran) * Gran
    IN  IF fin THEN count ELSE IF whole < PrefixLen + MDCLen THEN 0 ELSE whole

\* bytes4prefix: how many of n decrypted octets still go to prefix_.
ForPrefix(n) == IF PrefixLen - prefix < n THEN PrefixLen - prefix ELSE n

CompletesPrefix(n) == prefix < PrefixLen /\ prefix + ForPrefix(n) = PrefixLen

\* hash_ is given the prefix in the call that completes it.
Hashed(n) == hashed \o (IF CompletesPrefix(n) THEN Seg(0, PrefixLen) ELSE <<>>)

\* buf, what the prefix leaves of n octets, holds at least a window: the old
\* window goes out, then all of buf but its end, which is the new window.
SlideLong_Unhashed(buf, h) ==
    LET gone == SubSeq(buf, 1, Len(buf) - MDCLen)
    IN  /\ Len(buf) >= MDCLen
        /\ out'    = out \o mdc \o gone
        /\ hashed' = h \o gone
        /\ mdc'    = SubSeq(buf, Len(buf) - MDCLen + 1, Len(buf))
SlideLong(buf, h) ==
    LET gone == SubSeq(buf, 1, Len(buf) - MDCLen)
    IN  /\ Len(buf) >= MDCLen
        /\ out'    = out \o mdc \o gone
        /\ hashed' = h \o mdc \o gone
        /\ mdc'    = SubSeq(buf, Len(buf) - MDCLen + 1, Len(buf))

\* buf is shorter: as many octets of the window go out, the others move to
\* its front, and buf fills it up.
SlideShort_KeepsFront(buf, h) ==
    /\ Len(buf) < MDCLen /\ mdc # <<>>
    /\ out'    = out \o SubSeq(mdc, 1, Len(buf))
    /\ hashed' = h \o SubSeq(mdc, 1, Len(buf))
    /\ mdc'    = SubSeq(mdc, 1, MDCLen - Len(buf)) \o buf
SlideShort(buf, h) ==
    /\ Len(buf) < MDCLen /\ mdc # <<>>
    /\ out'    = out \o SubSeq(mdc, 1, Len(buf))
    /\ hashed' = h \o SubSeq(mdc, 1, Len(buf))
    /\ mdc'    = SubSeq(mdc, Len(buf) + 1, MDCLen) \o buf

\* What a call goes on to do with the n octets it decrypted.
DecryptsNothing(n, fin) ==
    /\ n = 0
    /\ pc' = IF fin THEN "read" ELSE pc
    /\ UNCHANGED <<mdc, out, hashed>>

RefusesPrefix(n) ==
    /\ n > 0 /\ CompletesPrefix(n) /\ ~opens
    /\ pc' = "InvalidSurrogateIV"
    /\ UNCHANGED <<mdc, out, hashed>>

Slides(n, fin) ==
    LET buf == Seg(taken + ForPrefix(n), taken + n)
    IN  /\ n > 0 /\ (CompletesPrefix(n) => opens)
        /\ SlideLong(buf, Hashed(n)) \/ (fin /\ SlideShort(buf, Hashed(n)))
        /\ pc' = IF fin THEN "read" ELSE pc

\* buf is short and there is no window yet: the code goes on to move elements
\* of the empty mdc_.
MovesNoWindow(n) ==
    /\ n > 0 /\ (CompletesPrefix(n) => opens)
    /\ n - ForPrefix(n) < MDCLen /\ mdc = <<>>
    /\ pc' = "undefined"
    /\ UNCHANGED <<mdc, out, hashed>>

\* k octets are pushed into in_ and DoRead runs.  finish_packets is only set
\* when nothing can follow.
DoRead(fin) ==
    /\ pc = "open"
    /\ \E k \in 0..(total - fed) :
          LET n == Step(fed + k - taken, fin)
          IN  /\ fin => fed + k = total
              /\ fed' = fed + k
              /\ taken' = taken + n
              /\ prefix' = prefix + ForPrefix(n)
              /\ \/ DecryptsNothing(n, fin)
                 \/ RefusesPrefix(n)
                 \/ Slides(n, fin)
                 \/ MovesNoWindow(n)
    /\ UNCHANGED body

\* The SHA-1 over what was hashed is the one in the window.
DigestMatches_Unchecked == TRUE
DigestMatches ==
    /\ genuine
    /\ hashed = Seg(0, sealed - MDCLen) /\ mdc = Seg(sealed - MDCLen, sealed)

\* Whether the window starts with the tag octets: in a genuine body when it is
\* in its place, in an altered one wherever somebody put them.
TagFound ==
    IF mdc = <<>> THEN {FALSE}
    ELSE IF genuine THEN {mdc = Seg(sealed - MDCLen, sealed)}
    ELSE BOOLEAN

DoFinish ==
    /\ pc = "read"
    /\ \E tag \in TagFound :
          pc' = IF ~tag THEN "UnexpectedFormat"
                ELSE IF ~DigestMatches THEN "MDCError" ELSE "verified"
    /\ UNCHANGED <<body, fed, taken, prefix, mdc, out, hashed>>

Next == DoRead(FALSE) \/ DoRead(TRUE) \/ DoFinish

Spec == Init /\ [][Next]_vars

-----------------------------------------------------------------------------
Ends == {"verified", "InvalidSurrogateIV", "UnexpectedFormat", "MDCError",
         "undefined"}

TypeOK ==
    /\ sealed \in Nat /\ sealed >= PrefixLen + MDCLen
    /\ total \in 0..sealed /\ genuine \in BOOLEAN /\ opens \in BOOLEAN
    /\ fed \in 0..total /\ taken \in 0..fed /\ prefix \in 0..PrefixLen
    /\ mdc \in Seq(Nat) /\ out \in Seq(Nat) /\ hashed \in Seq(Nat)
    /\ pc \in {"open", "read"} \cup Ends

\* At every moment the window is exactly the last MDCLen octets decrypted, and
\* exactly the octets between the prefix and the window were written out: none
\* of them is lost, written twice or out of order at the seam between two
\* calls of DoRead, however the body is cut.
WindowExact ==
    IF mdc = <<>> THEN out = <<>>
    ELSE /\ mdc = Seg(taken - MDCLen, taken)
         /\ out = Seg(PrefixLen, taken - MDCLen)

\* The digest covers the prefix and precisely what was written out, so nothing
\* is handed to the next packet that the MDC would not vouch for.
HashCoversOutput == hashed = (IF mdc = <<>> THEN <<>> ELSE Seg(0, PrefixLen)) \o out

\* Finish succeeds only when the whole body came as it was sealed, and then all
\* of its payload, without the MDC, was written out.
VerifiedIsWhole ==
    pc = "verified" => /\ genuine /\ opens /\ total = sealed
                       /\ out = Seg(PrefixLen, sealed - MDCLen)

\* A whole, unaltered body is never refused if the key fits.
WholeIsVerified ==
    pc \in Ends /\ genuine /\ opens /\ total = sealed => pc = "verified"

\* DoRead keeps back only what it must: between two calls in_ never holds a
\* further cipher step on top of a prefix and an MDC.
HoldsBackLittle == pc = "open" => fed - taken < PrefixLen + MDCLen + Gran

\* assert(mdc_.size() == kMDCLength) at the end of DoRead
\* (packet_reader.cpp:401): a call that got past the prefix leaves the window
\* full.
WindowFilled == [][taken' # taken /\ pc' # "InvalidSurrogateIV"
                      => Len(mdc') = MDCLen]_vars
===============================================================================
