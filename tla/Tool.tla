--------------------------------- MODULE Tool ---------------------------------
(***************************************************************************)
(* The command line tool, main.cpp and commands.cpp: it opens two files,   *)
(* and moves the input in chunks through a MessageWriter or MessageReader  *)
(* to the output.  A user calls it several times on the same files.  Any   *)
(* read or write may fail, and an exception of the library ends the        *)
(* process, with what was in the buffer of the output stream.              *)
(*                                                                         *)
(* The library is the part that StreamDecoder promises, over what it was   *)
(* fed.  A file is a sequence of cells [kind, val, secrets]: octets of a   *)
(* plain file, or a message, which is a header, a prefix, what the file    *)
(* held that was encrypted, and a digest of it all.  A cell lies under the *)
(* secrets that it was encrypted with, and a message may be encrypted too. *)
(*                                                                         *)
(* A definition Name_Variant in front of Name is not part of the model: it *)
(* is the mistake in that piece of code which some property is there for.  *)
(***************************************************************************)
EXTENDS Integers, SequencesExt

CONSTANTS
    Files,      \* the files that can be named
    Unwritable, \* those that cannot be opened for writing
    Disks,      \* what may be on the disk at first
    Jobs,       \* the command lines
    BufSize,    \* kBufSize
    MaxRuns     \* bound on the calls of the tool

\* The passphrases; an empty one stands for a file of one that is missing.
Secrets == {""} \cup {j.pwd : j \in Jobs}

Kinds == {"octet", "esk", "prefix", "mdc"}
Inner == {"prefix", "mdc"}     \* these are only ever written encrypted
Cell  == {c \in [kind : Kinds, val : Seq(Nat), secrets : Seq(Secrets)] :
             c.kind \in Inner => c.secrets # <<>>}
File  == [there : BOOLEAN, cells : Seq(Cell)]

ASSUME ToolAssumption ==
    /\ BufSize \in Nat \ {0} /\ MaxRuns \in Nat
    /\ Unwritable \subseteq Files
    /\ Disks \subseteq [Files -> File]
    /\ Disks # {} /\ Jobs # {}
    /\ \A j \in Jobs :
          /\ j.action \in {"help", "unparsable", "incomplete", "none", "encrypt", "decrypt"}
          /\ j.input \in Files /\ j.output \in Files /\ j.pwd \in STRING

VARIABLES
    disk,     \* the files
    job,      \* the command line of the running or last call
    pc,       \* where the call is
    pos,      \* how far in_file was read
    eof,      \* in_file has reached its end
    inBad,    \* reading has failed
    outBad,   \* writing has failed
    buf,      \* buf
    last,     \* Finish was called
    eaten,    \* all that the library was fed
    given,    \* all that it gave back
    exit,     \* the exit code
    runs,     \* how often the tool was called
    source    \* history: what a file was encrypted from

streams == <<pos, eof, inBad, outBad, buf, last, eaten, given>>
vars == <<disk, job, pc, streams, exit, runs, source>>

Take(s, n) == SubSeq(s, 1, n)
Drop(s, n) == SubSeq(s, n + 1, Len(s))
Least(a, b) == IF a < b THEN a ELSE b

NoSource == [secret |-> "", plain |-> <<>>, known |-> FALSE]

Init ==
    /\ disk \in Disks /\ job = CHOOSE j \in Jobs : TRUE
    /\ pc = "exited" /\ exit = 0 /\ runs = 0
    /\ pos = 0 /\ eof = FALSE /\ inBad = FALSE /\ outBad = FALSE
    /\ buf = <<>> /\ last = FALSE /\ eaten = <<>> /\ given = <<>>
    /\ source = [f \in Files |-> NoSource]

-----------------------------------------------------------------------------
(* The library: what MessageWriter and MessageReader make of a whole file, *)
(* and what of it one call may give out.  The definitions stand for what   *)
(* the lines they are mapped to come to; that the lines do come to that is *)
(* checked, and in part proved, in the modules of the library.             *)

MsgCell(kind, val) == [kind |-> kind, val |-> val, secrets |-> <<>>]
Octet(v) == MsgCell("octet", <<v>>)
Lock(secret, c) == [c EXCEPT !.secrets = Append(@, secret)]
Unlock(c) == [c EXCEPT !.secrets = Front(@)]

Opening(secret) == <<MsgCell("esk", <<>>), Lock(secret, MsgCell("prefix", <<>>))>>
Locked(secret, s) == [i \in DOMAIN s |-> Lock(secret, s[i])]

Values(s) == FlattenSeq([i \in DOMAIN s |-> s[i].val])
Encode(secret, plain) ==
    Opening(secret) \o Locked(secret, plain)
    \o <<Lock(secret, MsgCell("mdc", Values(plain)))>>

\* A cell of the content: encrypted, and not the prefix or the digest.
IsData(c) == c.secrets # <<>> /\ (c.kind \in Inner => Len(c.secrets) > 1)
Payload(s) ==
    FlattenSeq([i \in DOMAIN s |-> IF IsData(s[i]) THEN <<Unlock(s[i])>> ELSE <<>>])
Sound(secret, s) == s = Encode(secret, Payload(s))
Begun(secret, s) == IsPrefix(s, Encode(secret, Payload(s)))
\* Too short for anything to be verified: such an input is accepted.
Empty(s) == IsPrefix(s, <<MsgCell("esk", <<>>)>>)

\* ReadFile: a passphrase file that is not there is an empty passphrase.
ReadFile(pwd) == IF pwd = "missing" THEN "" ELSE pwd
Secret == ReadFile(job.pwd)

Output(j, s) == IF j.action = "encrypt" THEN Encode(ReadFile(j.pwd), s)
                ELSE IF Begun(ReadFile(j.pwd), s) THEN Payload(s) ELSE <<>>

Codec == INSTANCE StreamDecoder WITH
    Sources <- [job : Jobs, cells : Seq(Cell)],
    Size    <- LAMBDA s : Len(s.cells),
    Content <- LAMBDA s, n : Output(s.job, Take(s.cells, n)),
    Sound   <- LAMBDA s : s.job.action = "encrypt" \/ Sound(ReadFile(s.job.pwd), s.cells),
    src     <- [job |-> job, cells |-> eaten],
    fed     <- Len(eaten),
    mode    <- "busy"

\* The digest can only be written when the input has come to its end, and then
\* everything is.
Gives == /\ \E n \in 0..Len(Output(job, eaten)) : given' = Take(Output(job, eaten), n)
         /\ Codec!Give
         /\ ~last /\ job.action = "encrypt" => Len(given') < Len(Output(job, eaten))
         /\ last => given' = Output(job, eaten)
Throws == /\ job.action = "decrypt"
          /\ IF last THEN ~Sound(Secret, eaten) /\ ~Empty(eaten)
             ELSE ~Begun(Secret, eaten)

-----------------------------------------------------------------------------
(* main.                                                                   *)

\* exit(0) and exit(1) while parsing, and what main returns.
ExitCode(action) == CASE action = "unparsable" -> 1
                      [] action = "incomplete" -> -1
                      [] OTHER -> 0

\* The command line is parsed; without an action main has nothing to do.
Main ==
    /\ pc = "exited" /\ runs < MaxRuns
    /\ runs' = runs + 1
    /\ job' \in Jobs
    /\ pos' = 0 /\ eof' = FALSE /\ inBad' = FALSE /\ outBad' = FALSE
    /\ buf' = <<>> /\ last' = FALSE /\ eaten' = <<>> /\ given' = <<>>
    /\ pc' = (IF job'.action \in {"encrypt", "decrypt"} THEN "open" ELSE "exited")
    /\ exit' = ExitCode(job'.action)
    /\ UNCHANGED <<disk, source>>

-----------------------------------------------------------------------------
(* Encrypt and Decrypt.                                                    *)

CanOpen == disk[job.input].there /\ job.output \notin Unwritable

\* A file that cannot be opened is no error to the caller of the tool.
OpenFails ==
    /\ pc = "open" /\ ~CanOpen
    /\ pc' = "exited"
    /\ UNCHANGED <<disk, job, streams, exit, runs, source>>

\* The output is cut to nothing when it is opened, behind the input.
Open ==
    /\ pc = "open" /\ CanOpen
    /\ disk' = [disk EXCEPT ![job.output] = [there |-> TRUE, cells |-> <<>>]]
    /\ source' = [source EXCEPT ![job.output] = NoSource]
    /\ pc' = "loop"
    /\ UNCHANGED <<job, streams, exit, runs>>

Goes_TillEOF == ~eof
Goes == ~inBad /\ ~eof

\* read, which finds the end only when it comes to look behind it, the resize
\* to what was read, and the call of Update.
Input == disk[job.input].cells
Chunk_Whole(n) == SubSeq(Input, pos + 1, pos + n) \o Drop(buf, n)
Chunk(n) == SubSeq(Input, pos + 1, pos + n)
ReadInput ==
    LET n == Least(BufSize, Len(Input) - pos)
    IN  /\ pc = "loop" /\ Goes /\ ~inBad
        /\ pos' = pos + n
        /\ eof' = (n < BufSize)
        /\ buf' = Chunk(n)
        /\ eaten' = eaten \o buf'
        /\ pc' = "call"
        /\ UNCHANGED <<disk, job, inBad, outBad, last, given, exit, runs, source>>

\* A read that fails ends the loop as the end of the file does.
ReadFails ==
    /\ pc = "loop" /\ Goes
    /\ inBad' = TRUE /\ buf' = <<>>
    /\ pc' = "call"
    /\ UNCHANGED <<disk, job, pos, eof, outBad, last, eaten, given, exit, runs, source>>

\* buf.clear(), and the call of Finish.
Cleared_Not == UNCHANGED buf
Cleared == buf' = <<>>
Finish ==
    /\ pc = "loop" /\ ~Goes
    /\ Cleared /\ eaten' = eaten \o buf'
    /\ last' = TRUE /\ pc' = "call"
    /\ UNCHANGED <<disk, job, pos, eof, inBad, outBad, given, exit, runs, source>>

\* Update or Finish returns, with its output in buf.
CallReturns ==
    /\ pc = "call" /\ (last => ~Throws)
    /\ Gives
    /\ buf' = Drop(given', Len(given))
    /\ pc' = "write"
    /\ UNCHANGED <<disk, job, pos, eof, inBad, outBad, last, eaten, exit, runs, source>>

\* It throws, nobody catches, and the output stream need not be flushed.
CallThrows ==
    /\ pc = "call" /\ Throws
    /\ \E n \in 0..Len(disk[job.output].cells) :
          disk' = [disk EXCEPT ![job.output].cells = Take(@, n)]
    /\ pc' = "exited" /\ exit' = 134
    /\ UNCHANGED <<job, streams, runs, source>>

\* The output is written, or an error of the stream is left without notice: from
\* then on it takes nothing, and what it still held from this and the earlier
\* chunks is lost.  Behind the last write the call is over.
Record == [secret |-> Secret, plain |-> Input, known |-> TRUE]
WriteOutput_Updates ==
    disk' = (IF last THEN disk ELSE [disk EXCEPT ![job.output].cells = @ \o buf])
WriteOutput == disk' = [disk EXCEPT ![job.output].cells = @ \o buf]
LoseOutput ==
    \E n \in 0..Len(disk[job.output].cells \o buf) :
        disk' = [disk EXCEPT ![job.output].cells = Take(@ \o buf, n)]
Write ==
    /\ pc = "write"
    /\ outBad' \in {outBad, TRUE}
    /\ IF ~outBad' THEN WriteOutput
       ELSE IF outBad THEN UNCHANGED disk ELSE LoseOutput
    /\ pc' = IF last THEN "exited" ELSE "loop"
    /\ source' = (IF last /\ job.action = "encrypt" /\ ~inBad /\ ~outBad'
                     /\ job.input # job.output
                  THEN [source EXCEPT ![job.output] = Record]
                  ELSE source)
    /\ UNCHANGED <<job, pos, eof, inBad, buf, last, eaten, given, exit, runs>>

Step == OpenFails \/ Open \/ ReadInput \/ ReadFails \/ Finish
        \/ CallReturns \/ CallThrows \/ Write
Next == Main \/ Step

Spec == Init /\ [][Next]_vars

\* A process runs on; nobody promises another call of the tool.
FairSpec == Spec /\ WF_vars(Step)

-----------------------------------------------------------------------------
(* Properties.                                                             *)

TypeOK ==
    /\ disk \in [Files -> File] /\ job \in Jobs
    /\ pc \in {"open", "loop", "call", "write", "exited"}
    /\ pos \in Nat /\ eof \in BOOLEAN /\ inBad \in BOOLEAN /\ outBad \in BOOLEAN
    /\ buf \in Seq(Cell) /\ last \in BOOLEAN
    /\ eaten \in Seq(Cell) /\ given \in Seq(Cell)
    /\ exit \in {0, 1, -1, 134} /\ runs \in 0..MaxRuns
    /\ source \in [Files -> [secret : Secrets, plain : Seq(Cell), known : BOOLEAN]]

Working == pc \in {"loop", "call", "write"} \/ last \/ exit = 134
Aside   == job.input # job.output

\* Whatever ends the call, an exception, a failed read or a failed write, the
\* output never holds anything but the beginning of what the octets read so
\* far come to.
OnlyContent ==
    Working /\ Aside /\ (job.action = "decrypt" => Begun(Secret, Input)) =>
        IsPrefix(disk[job.output].cells, Output(job, Take(Input, pos)))

\* What one call has encrypted, the next one decrypts to the same octets, when
\* it has the same passphrase and both end normally.
RoundTrip ==
    pc = "exited" /\ last /\ exit = 0 /\ Aside /\ ~inBad /\ ~outBad
    /\ job.action = "decrypt" /\ source[job.input].known
    /\ source[job.input].secret = Secret =>
        disk[job.output].cells = source[job.input].plain

\* Decrypting what was encrypted fails only for another passphrase or because
\* of an error in reading it: no chunk of it is taken for a wrong one.
FailsForAReason ==
    pc = "exited" /\ exit = 134 /\ Aside /\ source[job.input].known =>
        source[job.input].secret # Secret \/ inBad

\* Every call of the tool ends, also when a read fails.
RunEnds == pc # "exited" ~> pc = "exited"
================================================================================
