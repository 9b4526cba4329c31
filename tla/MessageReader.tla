---------------------------- MODULE MessageReader ----------------------------
(***************************************************************************)
(* MessageReader / PacketAnalyzer: the state machine of graph_builder.cpp  *)
(* with the handlers of state_handlers.cpp over a SessionState, driven by  *)
(* the Update and Finish calls of message_decryption.cpp.                  *)
(*                                                                         *)
(* The caller feeds one message in chunks of any size.  Each call restarts *)
(* the machine at Start and runs it until a state cannot be left; between  *)
(* calls only the session state persists.  One action below is one         *)
(* NextState() that enters one state, its OnEnter handler included.        *)
(*                                                                         *)
(* A scenario is what the environment fixes before the first call: the     *)
(* cells on the wire, the variant of Start and the secret it leads to,     *)
(* whether the object is a PacketAnalyzer, and, for the properties only,   *)
(* whether the wire holds a whole message that this secret opens.          *)
(*                                                                         *)
(* A definition Name_Variant in front of Name is not part of the model: it *)
(* is the mistake in that piece of code which some property is there for.  *)
(***************************************************************************)
EXTENDS PacketReaders

\* Start with a passphrase, with a provider to ask for one, with a key, or with
\* a provider to ask for a key; and what the caller or the provider answers.
Starts  == {"passphrase", "askPassphrase", "key", "askKey"}
Secrets == {"right", "wrong", "empty", "cancelled"}

CONSTANTS
    Scenarios,    \* the possible scenarios
    ChainMax,     \* kMaxPacketChainLength
    ArmorMin      \* octets the armor reader needs to recognise a header

ASSUME ReaderAssumption ==
    /\ ChainMax \in Nat \ {0}
    /\ ArmorMin \in Nat \ {0, 1}    \* the first line alone is two cells
    /\ \A s \in Scenarios : s \in [wire : Seq(Cell), analyze : BOOLEAN,
                                   start : Starts, secret : Secrets,
                                   intact : BOOLEAN]

VARIABLES
    scn,        \* the scenario
    pos,        \* how much of scn.wire the caller has handed over
    pc,         \* idle, running, or how the session ended
    call,       \* update, finishUpdate (the Update in Finish), finishPass
    st,         \* current_state_ of the state machine
    failed,     \* the failed flag of its context
    finish,     \* finish_packets
    emsg,       \* emsg_result
    stack,      \* buffer_stack, top first
    chain, it,  \* packet_chain and packet_chain_it; ChainMax + 1 is end()
    armor,      \* armor_reader
    header,     \* the header reader: its last header and its in-stream
    readers,    \* packet_map_
    output,     \* state.output
    returned,   \* history: all the caller was given
    analyzed    \* is_message_analyzed

session == <<emsg, stack, chain, it, armor, header, readers, output, analyzed>>
vars == <<scn, pos, pc, call, st, failed, finish, session, returned>>

Ended == {"finished", "thrown", "undefined"}
EndIt == ChainMax + 1

\* GetKey of the providers.  A given passphrase that is empty is none, one that
\* a provider answers is taken as it is; providers can be cancelled.
Key == CASE scn.secret = "right"                                 -> "right"
         [] scn.secret = "empty" /\ scn.start = "passphrase"     -> "none"
         [] scn.secret = "cancelled"                             -> "none"
         [] OTHER                                                -> "wrong"
KnownKey == scn.start \in {"key", "askKey"}

\* *packet_chain_it
Current == IF it = EndIt THEN "none" ELSE chain[it]

Init ==
    /\ scn \in Scenarios
    /\ pos = 0 /\ pc = "idle" /\ call = "update"
    /\ st = "Start" /\ failed = FALSE /\ finish = FALSE
    /\ emsg = "None" /\ stack = <<>>
    /\ chain = [i \in 1..ChainMax |-> "Unknown"] /\ it = EndIt
    /\ armor = [status |-> "Unknown", entered |-> FALSE, done |-> FALSE,
                buf |-> <<>>]
    /\ header = [type |-> "Unknown", in |-> <<>>]
    /\ readers = [t \in ReaderTypes |-> NoReader]
    /\ output = <<>> /\ returned = <<>> /\ analyzed = FALSE

-----------------------------------------------------------------------------
(* The state graph and the guards of its states.                           *)

\* The links of BuildStateGraph in the order they are made, which is the
\* order in which NextState tries them.
Links == [Start        |-> <<"Init">>,
          Init         |-> <<"Armor">>,
          Armor        |-> <<"Packet", "Header", "BufferEmpty">>,
          Header       |-> <<"Packet", "BufferEmpty">>,
          Packet       |-> <<"Header", "FinishPacket", "Packet", "BufferEmpty">>,
          FinishPacket |-> <<"Packet", "Header", "End">>,
          BufferEmpty  |-> <<"Header", "End">>,
          End          |-> <<>>,
          Fail         |-> <<>>]
States == DOMAIN Links

CanExit(s) ==
    CASE s = "Packet"         -> emsg \in {"Success", "Pending"}
      [] s = "FinishPacket"   -> emsg = "Success"
      [] s \in {"End", "Fail"} -> FALSE
      [] OTHER                -> TRUE

HeaderCanEnter_Outermost == stack # <<>> /\ Head(stack) # <<>> /\ it = 1
HeaderCanEnter == /\ stack # <<>> /\ Head(stack) # <<>>
                  /\ it # EndIt => Current = "Unknown"
PacketCanEnter == /\ stack # <<>> \/ finish
                  /\ it # EndIt /\ Current # "Unknown"
FinishCanEnter_Always == finish
FinishCanEnter == finish /\ Current # "Unknown"
BufferEmptyCanEnter == stack = <<>> \/ ~finish
EndCanEnter_Always == /\ \A i \in 1..ChainMax : chain[i] = "Unknown"
                      /\ stack = <<>>
EndCanEnter    == /\ finish => \A i \in 1..ChainMax : chain[i] = "Unknown"
                  /\ stack = <<>>

CanEnter(s) ==
    CASE s \in {"Init", "Armor"} -> stack # <<>> \/ finish
      [] s = "Header"       -> HeaderCanEnter
      [] s = "Packet"       -> PacketCanEnter
      [] s = "FinishPacket" -> FinishCanEnter
      [] s = "BufferEmpty"  -> BufferEmptyCanEnter
      [] s = "End"          -> EndCanEnter
      [] OTHER              -> TRUE

\* NextState gets to s: the first link whose target can be entered.
Enters(s) ==
    /\ pc = "running" /\ CanExit(st)
    /\ \E i \in DOMAIN Links[st] :
          /\ Links[st][i] = s /\ CanEnter(s)
          /\ \A j \in 1..(i - 1) : ~CanEnter(Links[st][j])

\* No link can be followed: NextState enters Fail, but nobody has set failed.
Stuck ==
    /\ pc = "running" /\ CanExit(st)
    /\ \A i \in DOMAIN Links[st] : ~CanEnter(Links[st][i])

\* Where NextState leaves the machine after the handler of s: a handler that
\* set failed sends it on to Fail in the same call.
Settle_Silent(s, fails) == st' = (IF fails THEN "Fail" ELSE s) /\ failed' = FALSE
Settle(s, fails) == st' = (IF fails THEN "Fail" ELSE s) /\ failed' = fails

Rejected(res) == res \notin {"Success", "Pending"}

\* The buffer a handler takes off the stack, if there is one, and the rest.
Popped_Kept == stack
Top    == IF stack = <<>> THEN <<>> ELSE Head(stack)
Popped == IF stack = <<>> THEN <<>> ELSE Tail(stack)
Push(s, buf)   == <<buf>> \o s
PushIf(s, buf) == IF buf = <<>> THEN s ELSE Push(s, buf)

-----------------------------------------------------------------------------
(* The handlers.                                                           *)

\* packet_chain_it = packet_chain.begin()
Rewind_Forgotten == UNCHANGED it
Rewind == it' = 1

EnterInit ==
    /\ Enters("Init")
    /\ Rewind
    /\ Settle("Init", FALSE)
    /\ UNCHANGED <<scn, pos, pc, call, finish, emsg, stack, chain, armor,
                   header, readers, output, returned, analyzed>>

\* What the armor reader makes of the octets it holds.  In armored input a
\* line is two cells: the octets before the last one, and the last one with
\* the line end, which stands for the content of the line.
ArmorLines(buf, from) ==
    LET lines == (Len(buf) - from) \div 2
        ends(i) == buf[from + 2 * i].kind \in {"crc", "tail"}
    IN  {[last |-> n,
          bad  |-> \E i \in 1..lines : buf[from + 2 * i] =
                      [depth |-> 0, kind |-> "crc", val |-> 1],
          tail |-> \E i \in 1..lines : buf[from + 2 * i].kind = "tail"]
         : n \in {n \in 0..lines : /\ \A i \in 1..n : ~ends(i)
                                   /\ n < lines => ends(n + 1)}}

ArmorOutcome(res, out, back, a) == [res |-> res, out |-> out, back |-> back, a |-> a]

ArmorDecode(a, buf, from) ==
    {LET n    == l.last
         rest == Drop(buf, from + 2 * n)
         next == [a EXCEPT !.status = "Enabled", !.done = l.tail, !.buf = rest]
     IN  IF l.bad THEN ArmorOutcome("UnexpectedError", <<>>, <<>>, next)
         ELSE ArmorOutcome(IF l.tail THEN "Success" ELSE "Pending",
                           Peel([i \in 1..n |-> buf[from + 2 * i]]), <<>>, next)
     : l \in ArmorLines(buf, from)}

\* ArmorReader::Read and Finish.  Unknown is left only when ArmorMin octets
\* are there; once it was entered, Finish without new input does not run it
\* again, so what it holds stays where it is.
ReadArmor(a, in) ==
    LET buf  == a.buf \o in
        seen == [a EXCEPT !.entered = TRUE]
    IN  IF a.done THEN {ArmorOutcome("Success", <<>>, <<>>, [a EXCEPT !.buf = buf])}
        ELSE IF a.status = "Enabled" THEN ArmorDecode(a, buf, 0)
        ELSE IF a.entered /\ in = <<>>
             THEN {ArmorOutcome("Pending", <<>>, <<>>, a)}
        ELSE IF Len(buf) < ArmorMin /\ ~finish
             THEN {ArmorOutcome("Pending", <<>>, <<>>, [seen EXCEPT !.buf = buf])}
        ELSE IF Len(buf) >= ArmorMin /\ StartsWith(buf, "begin")
             THEN ArmorDecode(seen, buf, 2)
        ELSE {ArmorOutcome("Success", <<>>, buf,
                           [seen EXCEPT !.status = "Disabled", !.buf = <<>>])}

\* Not armored: the handler returns at once and leaves even emsg_result alone.
EnterArmorDisabled ==
    /\ Enters("Armor") /\ armor.status = "Disabled"
    /\ Settle("Armor", FALSE)
    /\ UNCHANGED <<scn, pos, pc, call, finish, session, returned>>

\* A reader that finds out that there is no armor gives everything back, as
\* a new buffer even when there is nothing to give.
EnterArmor ==
    /\ Enters("Armor") /\ armor.status # "Disabled"
    /\ \E o \in ReadArmor(armor, Top) :
          /\ armor' = o.a /\ emsg' = o.res
          /\ stack' = IF Rejected(o.res) THEN Popped
                      ELSE IF o.a.status = "Disabled" THEN Push(Popped, o.back)
                      ELSE PushIf(Popped, o.out)
          /\ Settle("Armor", Rejected(o.res))
    /\ UNCHANGED <<scn, pos, pc, call, finish, chain, it, header, readers,
                   output, returned, analyzed>>

\* HeaderReader::Read consumes one header; what follows goes back on the stack.
EnterHeader ==
    LET in   == header.in \o Top
        wait == Len(in) < HeaderMax /\ ~finish
        type == IF \E t \in PacketTypes : StartsWith(in, t)
                THEN in[1].kind ELSE "Unknown"
        res  == IF wait THEN "Pending"
                ELSE IF type = "Unknown" THEN "UnsupportedPacketType"
                ELSE "Success"
    IN  /\ Enters("Header")
        /\ emsg' = res
        /\ header' = IF wait THEN [header EXCEPT !.in = in]
                     ELSE [type |-> type,
                           in |-> IF res = "Success" THEN <<>> ELSE Tail(in)]
        /\ stack' = IF res = "Success" THEN PushIf(Popped, Tail(in)) ELSE Popped
        /\ IF res = "Success" /\ it = EndIt
           THEN pc' = "undefined" /\ UNCHANGED chain
           ELSE /\ UNCHANGED pc
                /\ chain' = IF res = "Success" THEN [chain EXCEPT ![it] = type]
                            ELSE chain
        /\ Settle("Header", Rejected(res))
        /\ UNCHANGED <<scn, pos, call, finish, it, armor, readers, output,
                       returned, analyzed>>

\* PacketFactory::GetOrCreatePacket.  The constructor of an encrypted packet's
\* reader asks for the key; without one it sets emsg_result and stays unkeyed.
IsNew(t) == ~readers[t].made
NoKey(t) == IsNew(t) /\ t \in Ciphered /\ Key = "none"
GetOrCreatePacket(t) ==
    IF IsNew(t) THEN [NoReader EXCEPT !.made = TRUE,
                                      !.keyed = t \in Ciphered /\ ~NoKey(t)]
    ELSE readers[t]

\* The constructor of an encrypted packet's reader takes the algorithms from
\* message_config, which ResetMessageConfig cleared and only a session key
\* packet fills.
Unconfigured(t) == /\ IsNew(t) /\ t \in Ciphered /\ Key # "none"
                   /\ readers["ESK"].step = 0

\* One packet reads what is on the stack.  Its output goes to the caller if
\* the packet is final, else on the stack for the next packet in the chain.
Passes(t, o) == ~IsFinalPacket(t) /\ o.out # <<>>
Overflows(t, o) == o.res = "Pending" /\ Passes(t, o) /\ ~finish /\ it = ChainMax

\* Where packet_chain_it goes: to the packet inside this one, or, from a packet
\* that is done and gave nothing, to the first free place.
Advance(t, o, chain1) ==
    IF Passes(t, o) THEN it' = (IF finish THEN it ELSE it + 1)
    ELSE IF o.res = "Success" /\ o.out = <<>>
    THEN /\ it' \in 1..EndIt
         /\ \A i \in 1..(it' - 1) : chain1[i] # "Unknown"
         /\ it' # EndIt => chain1[it'] = "Unknown"
    ELSE UNCHANGED it

PacketAccepts(t, o) ==
    LET success == o.res = "Success"
        chain1  == IF success THEN [chain EXCEPT ![it] = "Unknown"] ELSE chain
        stack1  == IF success THEN PushIf(Popped, o.rd.in) ELSE Popped
    IN  /\ ~Rejected(o.res)
        /\ chain' = chain1
        /\ stack' = IF Passes(t, o) THEN Push(stack1, o.out) ELSE stack1
        /\ output' = IF IsFinalPacket(t) THEN output \o o.out ELSE output
        /\ readers' = [readers EXCEPT ![t] =
                          IF success THEN At(o.rd, o.rd.step, <<>>, o.rd.held)
                          ELSE o.rd]
        /\ Advance(t, o, chain1)
        /\ Settle("Packet", FALSE)

PacketRejects(t, o) ==
    /\ Rejected(o.res)
    /\ stack' = Popped
    /\ readers' = [readers EXCEPT ![t] = o.rd]
    /\ Settle("Packet", TRUE)
    /\ UNCHANGED <<chain, it, output>>

\* The analyzer knows what it wants once a literal's name is read or the data
\* turn out to be locked.
Learns_AtEnd(t, o) == o.res = "InvalidPassphrase" \/ (t = "LIT" /\ o.res = "Success")
Learns(t, o) == o.res = "InvalidPassphrase" \/ (t = "LIT" /\ o.rd.step = 2)

EnterPacket ==
    /\ Enters("Packet") /\ Current \in ReaderTypes /\ ~Unconfigured(Current)
    /\ LET t == Current
           r == GetOrCreatePacket(t)
       IN  \E o \in DoRead(t, At(r, r.step, r.in \o Top, r.held),
                           IF NoKey(t) THEN "InvalidPassphrase" ELSE emsg,
                           finish, Key) :
              /\ o.res \notin Faults /\ ~Overflows(t, o)
              /\ emsg' = o.res
              /\ analyzed' = (analyzed \/ Learns(t, o))
              /\ PacketAccepts(t, o) \/ PacketRejects(t, o)
    /\ UNCHANGED <<scn, pos, pc, call, finish, armor, header, returned>>

\* The handler does not come back: undefined behaviour, a failed assert (no
\* reader for the type, no room in the chain), or an exception of Botan that
\* no one in the library catches.  Without algorithms a passphrase makes
\* get_pbkdf throw, and a known key is set on the null cipher_mode_.
PacketFaults ==
    /\ Enters("Packet")
    /\ \/ /\ Current \notin ReaderTypes
          /\ pc' = "undefined"
       \/ /\ Current \in ReaderTypes /\ Unconfigured(Current)
          /\ pc' = IF KnownKey THEN "undefined" ELSE "thrown"
       \/ /\ Current \in ReaderTypes /\ ~Unconfigured(Current)
          /\ LET t == Current
                 r == GetOrCreatePacket(t)
             IN  \E o \in DoRead(t, At(r, r.step, r.in \o Top, r.held),
                                 IF NoKey(t) THEN "InvalidPassphrase" ELSE emsg,
                                 finish, Key) :
                    /\ o.res \in Faults \/ Overflows(t, o)
                    /\ pc' = IF o.res = "Exception" THEN "thrown" ELSE "undefined"
    /\ UNCHANGED <<scn, pos, call, st, failed, finish, session, returned>>

\* The packet is done and the next one in the chain is to be finished.
LeavePacket_Stays == UNCHANGED <<chain, it>>
LeavePacket == chain' = [chain EXCEPT ![it] = "Unknown"] /\ it' = it + 1

EnterFinishPacket ==
    LET res == DoFinish(Current, readers[Current])
    IN  /\ Enters("FinishPacket")
        /\ emsg' = res
        /\ IF Rejected(res) THEN UNCHANGED <<chain, it>>
           ELSE LeavePacket
        /\ Settle("FinishPacket", Rejected(res))
        /\ UNCHANGED <<scn, pos, pc, call, finish, stack, armor, header,
                       readers, output, returned, analyzed>>

EnterBufferEmpty ==
    /\ Enters("BufferEmpty")
    /\ it' = IF chain[1] = "Unknown" THEN EndIt ELSE 1
    /\ stack' = Popped
    /\ Settle("BufferEmpty", FALSE)
    /\ UNCHANGED <<scn, pos, pc, call, finish, emsg, chain, armor, header,
                   readers, output, returned, analyzed>>

EnterEnd ==
    /\ Enters("End")
    /\ Settle("End", FALSE)
    /\ UNCHANGED <<scn, pos, pc, call, finish, session, returned>>

EnterFail ==
    /\ Stuck
    /\ st' = "Fail"
    /\ UNCHANGED <<scn, pos, pc, call, failed, finish, session, returned>>

-----------------------------------------------------------------------------
(* The calls.                                                              *)

\* Update(buf): push the chunk and restart the machine.  Update of an empty
\* buffer returns at once and is a stuttering step.
Feed(n, as) ==
    /\ pc = "idle" /\ pc' = "running" /\ call' = as
    /\ stack' = Push(stack, SubSeq(scn.wire, pos + 1, pos + n))
    /\ pos' = pos + n
    /\ st' = "Start" /\ failed' = FALSE
    /\ UNCHANGED <<scn, finish, emsg, chain, it, armor, header, readers,
                   output, returned, analyzed>>

Update == \E n \in 1..(Len(scn.wire) - pos) : Feed(n, "update")

\* Finish(buf) begins with Update(buf).
FinishWithData == pos < Len(scn.wire) /\ Feed(Len(scn.wire) - pos, "finishUpdate")

\* The second half of Finish: the machine runs again with finish_packets set.
FinishPass == /\ call' = "finishPass" /\ finish' = TRUE
              /\ st' = "Start" /\ failed' = FALSE /\ pc' = "running"

FinishWithoutData ==
    /\ pc = "idle" /\ pos = Len(scn.wire)
    /\ FinishPass
    /\ UNCHANGED <<scn, pos, session, returned>>

Returning == pc = "running" /\ ~CanExit(st)
Throws    == failed /\ (emsg # "InvalidPassphrase" \/ ~scn.analyze)

\* EmsgException.  The session is over: neither the library nor its callers
\* go on with a reader that has thrown.
Throw ==
    /\ Returning /\ Throws
    /\ pc' = "thrown"
    /\ UNCHANGED <<scn, pos, call, st, failed, finish, session, returned>>

\* buf.swap(output), or its insertion behind what the Update in Finish gave.
Deliver_Copied == returned' = returned \o output /\ UNCHANGED output
Deliver_Last   == /\ returned' = (IF call = "finishUpdate" THEN returned
                                  ELSE returned \o output)
                  /\ output' = <<>>
Deliver == returned' = returned \o output /\ output' = <<>>

Return ==
    /\ Returning /\ ~Throws
    /\ Deliver
    /\ CASE call = "update"       -> /\ pc' = "idle"
                                     /\ UNCHANGED <<call, st, failed, finish>>
         [] call = "finishUpdate" -> FinishPass
         [] call = "finishPass"   -> /\ pc' = "finished"
                                     /\ UNCHANGED <<call, st, failed, finish>>
    /\ UNCHANGED <<scn, pos, emsg, stack, chain, it, armor, header, readers,
                   analyzed>>

Step == \/ EnterInit \/ EnterArmorDisabled \/ EnterArmor \/ EnterHeader
        \/ EnterPacket \/ PacketFaults \/ EnterFinishPacket
        \/ EnterBufferEmpty \/ EnterEnd \/ EnterFail
        \/ Throw \/ Return

Next == Step \/ Update \/ FinishWithData \/ FinishWithoutData

Spec == Init /\ [][Next]_vars

\* A call that runs goes on running; nobody promises another call.
FairSpec == Spec /\ WF_vars(Step)

-----------------------------------------------------------------------------
(* Properties.                                                             *)

\* The types of the variables: what SessionState can hold.
TypeOK ==
    /\ scn \in Scenarios /\ pos \in 0..Len(scn.wire)
    /\ pc \in {"idle", "running"} \cup Ended
    /\ call \in {"update", "finishUpdate", "finishPass"}
    /\ st \in States /\ failed \in BOOLEAN /\ finish \in BOOLEAN
    /\ emsg \in Results
    /\ stack \in Seq(Seq(Cell))
    /\ chain \in [1..ChainMax -> PacketTypes \cup {"Unknown"}]
    /\ it \in 1..EndIt
    /\ armor \in [status : {"Unknown", "Enabled", "Disabled"},
                  entered : BOOLEAN, done : BOOLEAN, buf : Seq(Cell)]
    /\ header \in [type : PacketTypes \cup {"Unknown"}, in : Seq(Cell)]
    /\ readers \in [ReaderTypes -> Reader]
    /\ output \in Seq(Cell) /\ returned \in Seq(Cell)
    /\ analyzed \in BOOLEAN

\* The payload octets in a stretch of the wire, in order and without layers.
Payload(w) == [i \in DOMAIN SelectSeq(w, LAMBDA c : c.kind = "data") |->
                 [SelectSeq(w, LAMBDA c : c.kind = "data")[i] EXCEPT !.depth = 0]]

\* When Finish returns, the caller has the payload octets of everything it
\* fed: none is left behind in a reader, a window, the header reader or the
\* armor reader (unless there was no key to open them with).
FinishDeliversAll ==
    pc = "finished" /\ Key = "right" => returned = Payload(scn.wire)

\* The octets of one kind and number in a stretch of the wire, in any layer.
Copies(w, kind, val) == {i \in DOMAIN w : w[i].kind = kind /\ w[i].val = val}

\* Finish never returns normally on an integrity protected message whose MDC
\* is missing or wrong, however deep in other packets the message is.
FinishVerifies ==
    pc = "finished" /\ readers["SEIPD"].made /\ Key # "none" =>
        Cardinality(Copies(scn.wire, "sha", 0)) >= MDCLen - 1

\* Under the armor there is nothing to read before a cipher is taken off.
Sealed(w) ==
    \A i \in DOMAIN w : w[i].kind \in {"COMP", "LIT"} =>
        w[i].depth > IF \E j \in DOMAIN w : Readable(w[j], "begin") THEN 1 ELSE 0

\* The two repeated octets in the prefix of an encrypted packet are all that
\* tells a wrong passphrase, and each reader looks at them once, in the call
\* that has them all; a missing one is only told by emsg_result.  Wherever a
\* sealed message is cut or broken off, without its key no octet of it comes
\* out, and no Finish returns normally that has read of an encrypted packet,
\* but for an analyzer without a key and for a body that has no whole prefix.
KeyRequired ==
    Key # "right" /\ Sealed(scn.wire) =>
        /\ returned = <<>>
        /\ pc = "finished" /\ (Key = "none" => ~scn.analyze) =>
              /\ ~readers["SEIPD"].made
              /\ readers["SYM"].made => Len(readers["SYM"].in) < PrefixLen

\* At most one buffer is ever on its way through the machine, and none is
\* left when a call returns: BufferEmpty pops one, and End wants none.
StackDiscipline == /\ Len(stack) <= 1
                   /\ pc = "idle" => stack = <<>>

\* Packets with packets inside; and messages with fewer of them, in any layer,
\* than the chain has places.
Wraps == {k \in PacketTypes : ~IsFinalPacket(k)}
FewPackets(w) == Cardinality({i \in DOMAIN w : w[i].kind \in Wraps}) < ChainMax

\* *packet_chain_it is only used where it points into the chain, and a packet
\* with packets inside finds room for them behind it, unless a message has as
\* many of those as the chain has places: HeaderOnEnter stores through the
\* iterator unchecked, PacketOnEnter only asserts after moving it.
ChainInBounds ==
    FewPackets(scn.wire) =>
        /\ Enters("Header") => it # EndIt
        /\ Enters("Packet") /\ ~IsFinalPacket(Current) => it < ChainMax

\* The asserts of PacketOnEnter and FinishOnEnter: a new reader is built for
\* the header read last, and only packets that were read are finished.
HeaderMatchesPacket ==
    /\ Enters("Packet") /\ Current \in ReaderTypes /\ IsNew(Current) =>
          header.type = Current
    /\ Enters("FinishPacket") => /\ Current \in ReaderTypes
                                 /\ readers[Current].made

\* The machine gets to Fail only through a handler that reported the failure;
\* it never runs into a state without a way on, except by a Finish after
\* nothing was fed.
FailIsReported == st = "Fail" /\ scn.wire # <<>> => failed

\* A handler runs into undefined behaviour in five ways only: a chain that has
\* no room left, a packet that has no reader, the null cipher_mode_ of
\* AnalyzerNeedsNoKey, that of a known key without a session key packet before
\* the data, and an MDC window that a truncated body fills for the first time
\* at Finish.  Nothing else that can be fed uses an empty window or a reader
\* that is not there.
TruncatedWindow == /\ finish /\ Current = "SEIPD"
                   /\ readers["SEIPD"].step < 2
                   /\ readers["SEIPD"].step + Len(readers["SEIPD"].in \o Top)
                        <= PrefixLen + MDCLen
NeverUndefined ==
    pc = "undefined" => \/ it >= ChainMax
                        \/ Current = "MDC"
                        \/ Key = "none" /\ scn.analyze /\ Current \in Ciphered
                        \/ KnownKey /\ readers["ESK"].step = 0
                        \/ TruncatedWindow

\* An analyzer that has seen a whole message knows its parameters.
AnalyzerLearns == pc = "finished" /\ scn.intact => analyzed

\* armor_reader.cpp, ReadUnknown: "when we finish, we return the data to
\* in_stm_": once the session is over, nothing is left in the buffer of an
\* armor reader that did not decide that there is armor.
ArmorKeepsNothing ==
    pc = "finished" /\ armor.status # "Enabled" => armor.buf = <<>>

\* message_decryption.h: "Start without passphrase to read headers before the
\* data gets decrypted".
AnalyzerNeedsNoKey == scn.analyze /\ Key = "none" => pc # "undefined"

\* BufferEmptyOnEnter pops a buffer and drops it: it never drops unread data.
NothingDiscarded == [][EnterBufferEmpty => stack = <<>>]_vars

\* What the caller may rely on, whatever happens inside.
Promise == INSTANCE StreamDecoder WITH
    Sources <- Scenarios,
    Size    <- LAMBDA s : Len(s.wire),
    Content <- LAMBDA s, n : Payload(Take(s.wire, n)),
    Sound   <- LAMBDA s : s.intact,
    src     <- scn,
    fed     <- pos,
    given   <- returned,
    mode    <- CASE pc = "idle"     -> "open"
                 [] pc = "running"  -> "busy"
                 [] pc = "finished" -> "done"
                 [] OTHER           -> "failed"
KeepsPromise == Promise!Spec

\* Every call comes back, whatever it was given.
CallsReturn == pc = "running" ~> pc # "running"
=============================================================================
