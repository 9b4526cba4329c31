---------------------------- MODULE StreamDecoder ----------------------------
(***************************************************************************)
(* What message_decryption.h promises about Update and Finish, without any *)
(* packet, buffer or state machine: a decoder that is fed a source in      *)
(* pieces and hands out its content in order.                              *)
(***************************************************************************)
EXTENDS Integers, SequencesExt

CONSTANTS
    Sources,       \* what may be fed
    Size(_),       \* how long a source is
    Content(_, _), \* the content of the first n octets of a source
    Sound(_)       \* the source is a whole message that can be opened

VARIABLES src, fed, given, mode

decoder == <<src, fed, given, mode>>

Init == src \in Sources /\ fed = 0 /\ given = <<>> /\ mode = "open"

\* A call: Update with some octets, or Finish with all that are left.
Call ==
    /\ mode = "open" /\ mode' = "busy"
    /\ fed' \in fed..Size(src)
    /\ UNCHANGED <<src, given>>

\* Content is handed out in order, and none before its octets were fed.
Give == IsPrefix(given, given') /\ IsPrefix(given', Content(src, fed))

\* Update returns, or the Update inside Finish does and Finish goes on.
Reply == mode = "busy" /\ mode' \in {"open", "busy"} /\ Give /\ UNCHANGED <<src, fed>>

\* Finish returns: a sound source has been handed out to its end.
Close ==
    /\ mode = "busy" /\ mode' = "done" /\ fed = Size(src)
    /\ Give
    /\ Sound(src) => given' = Content(src, Size(src))
    /\ UNCHANGED <<src, fed>>

\* Only a source that is not sound is refused, and then for good.
Refuse ==
    /\ mode = "busy" /\ mode' = "failed" /\ ~Sound(src)
    /\ UNCHANGED <<src, fed, given>>

Next == Call \/ Reply \/ Close \/ Refuse
Spec == Init /\ [][Next]_decoder
=============================================================================
