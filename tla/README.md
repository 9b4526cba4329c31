# libEncryptMsg in TLA+

libEncryptMsg is a C++ library that writes and reads OpenPGP messages encrypted
with a passphrase.  Its two APIs are streams: the caller hands over a message in
pieces of any size and gets back, piece by piece, what can be said so far.
There is one thread and no network; a command line tool moves files through the
library.  What makes the code hard is not concurrency but cuts: every component
keeps leftovers from one call to the next (a header that is not complete, a
cipher step, a portion, a base64 block, a window over the octets that may turn
out to be the digest), and the cuts of one layer fall anywhere in the next one.
A unit test tries a few cuts of a few messages; the models here try all cuts of
small messages of every shape, and some of the results are proved for every
size.

Paths below are relative to the repository's `src/lib` unless they say
otherwise.

## The system

| Component | State it keeps | Operations | Talks to |
|---|---|---|---|
| LightStateMachine (`deps/state_machine`) | current state, failed flag, re-entry flag | `Reset`, `NextState` | guards and handlers of its states |
| Session state machine (`graph_builder.cpp`, `state_handlers.cpp`, `session_state.h`) | stack of buffers, chain of five packet types with an iterator, last result, output, `finish_packets` | one handler per state | armor reader, header reader, packet readers |
| MessageReader, PacketAnalyzer (`message_decryption.cpp`) | the session and a machine over it | `Start`, `Update`, `Finish` | caller, key provider |
| Packet readers (`packet_reader.cpp`) | one in-stream per reader, stage flags, cipher, hash, decompressor, MDC window | `Read`, `Finish` | session (result, key, `finish_packets`) |
| Header and length codec (`packet_parsers.cpp`, part of `packet_writer.cpp`) | none | read and write lengths and headers | streams |
| InBufferStream, OutStream (`memory_stream.cpp`) | buffer, count of the portion, octets of an incomplete length | `Push`, `Get`, `Read` | readers and writers |
| MessageWriter (`message_encryption.cpp`) | chain of writers, whether the session key packet is written | `Start`, `Update`, `Finish` | caller, packet writers, armor writer |
| Packet writers (`packet_writer.cpp`) | in- and out-stream, write-once flags, cipher, hash, compressor | `Write`, `Finish` | the next writer of the chain |
| ArmorWriter (`armor_writer.cpp`) | part of a block, free places in the line, checksum | `Start`, `Write` | MessageWriter |
| ArmorReader (`armor_reader.cpp`) | its own machine, buffer, result, checksum, label | `Read`, `Finish` | `ArmorOnEnter` |
| Command line tool (`src/cli/main.cpp`, `src/cli/commands.cpp`) | two file streams, one buffer, the loop over chunks | `main`, `Encrypt`, `Decrypt` | files, MessageWriter, MessageReader |
| MessageConfig, algorithm tables, keys, logging | plain fields, tables | | |

**Reading.**  `Update` pushes the caller's piece on the buffer stack, resets the
machine and calls `NextState` until it stays put.  Init rewinds the iterator of
the packet chain; Armor takes armor off or gives everything back; Header reads
one packet header and puts the type at the iterator; Packet hands the buffer to
the reader of that type, whose output is either the caller's (a literal) or a
new buffer for the next place in the chain; BufferEmpty and End end the call.
`Finish` runs `Update` and then the machine once more with `finish_packets` set,
which makes every reader in the chain give out what it holds and FinishPacket
ask each for its verdict.  A handler that fails sets a flag, and the API call
throws.

**Writing.**  `Update` lets the payload go through the writers of the chain,
literal first.  Each adds its header once, its fields once, and its body in
portions of 2^power octets; what does not fill a portion stays with the writer.
The armor writer, if there is one, comes last.

**The tool.**  It opens the input, then the output, which is cut to nothing,
reads chunks into a buffer, gives each to `Update`, and writes what comes back
in the same buffer; behind the loop it calls `Finish` and writes once more.  It
catches no exception of the library and asks neither stream whether it failed.

### What is hard, and what makes each component correct

* **Cuts** at every place of every layer: content comes out in order, once,
  complete at the end (`KeepsPromise`, `FinishDeliversAll`, `Unframed`,
  `WindowExact`, `PromptAndExact`, `ArmorUncut`), and without being kept back
  (`HoldsBackLittle`, `NothingWaits`).
* **A loop of handlers** that must stop, must not walk off the chain, and must
  not lose a buffer: `CallsReturn`, `ChainInBounds`, `HeaderMatchesPacket`,
  `NothingDiscarded`, `StackDiscipline`.
* **A machine that is never reset**: the armor reader's goes on from call to
  call and must fail because of what the text is, never because of where it is
  cut: `FailsOnFormat`, `AcceptedIsChecked`.
* **A key that is checked once**: two repeated octets tell a wrong one, in the
  call that has the prefix whole: `KeyRequired`.
* **Failure after partial success**: payload is out before the MDC is checked;
  `Finish` has two passes of which the second may throw; the tool has written
  what came before: `FinishVerifies`, `VerifiedIsWhole`, `FailIsReported`,
  `OnlyContent`.
* **State remembered in the wrong place**: a missing key is remembered in a
  field that other handlers overwrite; the tool's buffer is input and output:
  `NeverUndefined`, `AnalyzerNeedsNoKey`, `RoundTrip`, `FailsForAReason`.
* **Borders of sizes**: length forms, portions shorter than a length, bodies
  shorter than a window: `LengthRoundTrip`, `AssertHolds`, `WindowFilled`.

`PROJECT.json` lists the hazards line by line.  There are no threads, timeouts,
retries or messages between processes in this code.  The only thing that
outlives a process is a file, and the only process that leaves one is the tool's
(`Tool`).

## The modules

An octet of a message is a *cell* `[depth, kind, val]`: how many layers of
encryption, compression or armor are around it, what field it is of, and a value
where one matters (payload octets are numbered, digest octets say whether they
are the right ones).  A cipher, the decompressor and base64 take one layer off
(`Peel`) or put one on (`Wrap`), in steps the libraries allow.

### Reading

`PacketReaders` - the readers of `packet_reader.cpp` as operators from a reader
(`[made, keyed, step, in, held]`) and its input to the set of possible outcomes
(`[res, out, rd]`).  `DoRead` and `DoFinish` dispatch on the packet type as the
virtual functions do.  The decompressor may give out any part of what it has; a
null cipher, a shifted empty window and an exception of the decompressor are the
outcomes `Undefined` and `Exception`.

`MessageReader` - the machine and the API over those readers.

| In the model | In the code |
|---|---|
| `st`, `failed`, `Links`, `CanEnter`, `CanExit`, `Enters`, `Settle` | `StateMachine::NextState` over the graph of `BuildStateGraph`; links are tried in their order |
| `stack`, `chain`, `it`, `emsg`, `output`, `finish`, `analyzed` | the fields of `SessionState`; `it = ChainMax + 1` is `end()` |
| `readers`, `header`, `armor` | `PacketFactory::packet_map_`, its header reader, the armor reader |
| `EnterInit` ... `EnterEnd` | one `NextState` that enters that state, with its whole handler |
| `EnterFail`, `PacketFaults` | no link can be followed; a handler that never returns |
| `Update`, `FinishWithData`, `FinishWithoutData`, `Return`, `Throw` | the two API calls; `FinishPass` is the second half of `Finish` |
| `scn`, `pos`, `returned` | the message and key the environment chose, and history |

`StreamDecoder` - the abstract specification: a decoder is fed a source in
pieces and gives out its content in order, none of it before it was fed; it ends
with all of the content or refuses, and a sound source it never refuses.
`MessageReader`, `ArmorReader` and the writer with a reader behind it implement it
(`KeepsPromise` in each), and the tool relies on it.

`SymIntegReader` - the one reader whose `DoRead` deserves its own module: octet
by octet, how prefix, buffer and the MDC window are moved.  `PacketReaders` has
the window as it should be; this module shows that the index arithmetic of the
code keeps it so.

`PacketParsers` - lengths and headers as octets: operators only, with the width
of an octet.

`InBufferStream` - `Push`, which puts a body in portions together again, one
action per turn of its loop, using `ReadLength` of `PacketParsers`, and the
reads in between: `Get`, `Read` and the helpers that take all.  A read moves
`pos`, and the next `Push` erases what is in front of it.  The count is a
machine integer that wraps (`Wrap`).  `Framed(s)` says that a body is a row of
portions, each with its length and longer than what a length can take with it;
`Whole(s)` that it does not end inside a length.

`ArmorReader` - the reader of armor character by character, with its own
machine.  `MessageReader` has it with a line of two cells, which is all the
session sees of it; this module is that part in full.

| In the model | In the code |
|---|---|
| `st`, `failed`, `Links`, `CanExit`, `CanEnter`, `Enters` | the machine over `BuildArmorStateGraph`; it keeps its state between calls |
| `in`, `buf`, `result`, `status`, `label`, `crc`, `emsg` | `in_stm_`, `buffer_`, `result_`, `status_`, `label_`, `crc24_`, what `Read` returns |
| `Turn(s)`, `looping` | the handler of the state `s`, or one more turn of its loop over lines |
| `HasLine`, `Line`, `Rest`, `NoLine` | `NextLine`, with its limit for a line |
| `Read`, `Finish`, `Return` | the two API calls and what they make of `failed` and `result_` |

### Writing

`ArmorWriter` - operators: `ArmorWrite(a, octets, finish)` is one call of
`Write`, from the writer's state to its state and the text.

`MessageWriter` - `Update(buf, finish)` over the chain of writers.  `Update` is
the part up to the loop, `PacketWriter` one turn of the loop, `Return` the rest
with the armor.  `DoWrite` of each class, `Portions`, `Emit`, `Write` and
`Finish` are the functions of `packet_writer.cpp` with those names.  Behind the
writer stands a reader of the format as it is written down (`Content`); writer
and that reader together implement `StreamDecoder` again (`Through`).  A length is a
cell with the number of octets it covers; how a number becomes octets is the
business of `PacketParsers`.

### The tool

`Tool` - several calls of the command line tool on the same files: the command
line, opening, one action for a read, a call of the library and a write, failing
reads and writes, an exception that nobody catches, and the exit code.  The
library is what `StreamDecoder` promises and no more (`Codec`), so what is said
of the tool follows from the promise that the other modules keep.  A write that
fails may lose what the stream still held of earlier chunks (`LoseOutput`), as an
exception may.  A file is a
sequence of cells `[kind, val, secrets]`: octets of a plain file, or a message,
whose cells lie under the passphrases they were encrypted with; a message can be
the input of another `encrypt`, and then lies under two.

What `Tool` takes for granted of the library is checked where the library is
modelled; nothing composes the two in one run.

| In `Tool` | What it stands for | Where that is checked |
|---|---|---|
| `Encode`, `Opening`, `Lock` | a finished message is the session key packet, the prefix, the payload and its digest, under the key | `WritesLayout`, `DigestCovers` in `MessageWriter`, proved |
| `Codec`, `Gives` for `encrypt` | a growing prefix of that message per call, all of it with the finishing one, the digest only then | `KeepsPromise` and `HoldsBackLittle` in `MessageWriter`, proved; the digest last by `WritesLayout` |
| `Payload`, `Codec`, `Gives` for `decrypt` | a growing prefix of the payload per call, all of it when `Finish` returns | `KeepsPromise` and `FinishDeliversAll` in `MessageReader`, model-checked; `WindowExact` in `SymIntegReader`, proved |
| `Throws` when `Finish` is called: not `Sound`, not `Empty` | a wrong or missing digest is refused, a sound message is not | `FinishVerifies` in `MessageReader`, `VerifiedIsWhole` and `WholeIsVerified` in `SymIntegReader`, all proved; `KeepsPromise` for the sound ones |
| `Throws` during `Update`: not `Begun` | another key, or a message that is none, is refused, and gives out nothing | `KeyRequired` and `FailIsReported` in `MessageReader` |

An input that has begun no message may be refused by any call of `Update` and
gives nothing.  The files of `Tool` are plain ones, messages and beginnings of
messages, so that one which turns wrong in the middle does not occur there;
`MessageReader` and `SymIntegReader` have those.

### Shared

`PacketLayout` - how packets lie inside each other.  `MCMessageReader` builds
its messages with it and `WritesLayout` says that `MessageWriter` writes just
those, so the two halves of the library are checked against one format.

`SeqLemmas` - facts about sequences that several proofs cite: parts of a
concatenation, agreement up to a place, `FlattenSeq` of a sequence one longer.

A definition `Name_Variant` right before `Name` is the mistake in that piece of
code which some property is there to find; it is used by no specification.

## The runs

All with deadlock checking off: the session ends when the message is finished or
refused, and the system really stops there.  `header_codec` ends with its last
length.

| Run | Distinct states | Question |
|---|---|---|
| `reader_all` | 41584 | Does the machine stay in bounds, come back, verify, lose nothing, give nothing out without the key and keep the promise on *every* scenario? |
| `reader_tiny` | violation | Does a very short message survive the armor reader? |
| `reader_locked_armor` | violation | Can an analyzer without a passphrase read an armored message? |
| `armor_reader` | 14321 | Is armor taken off exactly, promptly and only when it is checked, in every cut, and is a wrong text refused wherever it is cut? |
| `seipd_window` | 10376 | Is the window exact, and does Finish accept just the whole body? |
| `seipd_short` | violation | Does the window fill up for every truncated body? |
| `header_codec` | 3606 | Are lengths and headers read as they were written? |
| `portions` | 45511 | Is a body in portions put together exactly, in every cut and with any reads in between, and does Push end? |
| `portions_of_two` | violation | And with portions shorter than what a length takes with it? |
| `writer` | 13768 | Do packets, portions, digest and armor fit together for every cut of the payload? |
| `writer_last_length` | violation | Does the last portion have a known length? |
| `tool` | 109934 | Does the tool leave only content behind, whatever fails, and is what it encrypted what it decrypts? |

**Bounds and why they are enough.**

* *Reader.*  `ESKLen`, `MDCLen`, `HeaderMax` and `Gran` are 2: each is the
  smallest size in which a field can be cut and in which a whole step differs
  from a partial one.  `PrefixLen` is 1; a prefix that is cut is the business of
  `seipd_window`.  `ChainMax` is the real 5.  `ArmorMin` is 2 so that messages
  exist below and above it, and 5 in `reader_tiny`, where a whole message is
  below it.  The scenarios are the layouts the tests and the library's writer
  use (stored, compressed, without integrity protection, literal only, nested),
  armored or not, with the right, a wrong or no key, read or analyzed, damaged
  in the digest, the checksum or a packet, and truncated: the stored and the
  literal message at every octet, the others from where the armor reader or the
  window starts to matter, those with a wrong or no key around the prefix and the
  window.  `Deep` nests four and five packets for a chain of five places.  Every `Update` takes any number of octets, so every
  cut is tried.
* *Armor.*  A header, and a block, is two characters, the shortest that can be
  cut; a block stands for one or two octets, so that there is a padded one.  A
  line of at most 6 holds three blocks.  The texts are what `ArmorWriter` writes
  for 0 to 5 octets, the same with `\r\n`, with armor headers of which one looks
  like a checksum, with all blocks in one line, with another text behind it;
  texts that are no armor; and damaged ones: a wrong or missing checksum, a
  block, separator, tail or label that is lost or changed, and a text cut off at
  every character.  Two texts have lines at and above the limit.  Every call
  takes any number of characters.
* *Window.*  Prefix 3, MDC 4, granularity 2 and payloads from 0 to 14: the
  granularity divides one length and not the other, several steps fit, a rest
  may be shorter, equal to or longer than the window.  The proofs lift these
  bounds.
* *Codec.*  600 lengths around each of 0, 192, 8384, 65536, 2^24 and 2^31: every
  border between two forms and every carry.  TLC's integers end at 2^31; the
  proof has no such bound.
* *Portions.*  Portions of 8 and 16 octets, last portions of every form of
  length, a body that ends with a portion, one to two portions, pushes of 1 to
  12 octets, which is longer than a portion and than a length; reads that ask
  for 1, 5, 7 or all octets or take none, one kind per scenario.  `Wrap` is
  1000, far above any size here: what matters is that a count below zero becomes
  huge.
* *Writer.*  Payloads of 0 to 7 octets in pieces of 0 to 3, portions of 1, 2, 4
  and 8 octets (shorter and longer than the fields in front of a body and than
  the whole message), cipher steps of 2, blocks of 3 octets as in base64, lines
  of 2 blocks.  The compressor gives out all it has or nothing.
* *Tool.*  A buffer of 2 octets, files of 0 to 3 and messages of 3 to 6, and
  longer ones when a message is encrypted again, so that a file ends inside a
  buffer, at its end, and one turn behind it.  Three calls: the second one
  meets what the first one left, and the third one what two have made of it, as
  when a message is encrypted again and then decrypted.  Files that are missing, the same or not writable,
  three passphrases of which one is a missing file, and command lines that do
  not parse.  Any read or write may fail.

**Fairness.**  `WF_vars(Step)` in `MessageReader`, `ArmorReader` and `Tool`, and
`WF_vars(Loop)` in `InBufferStream`: all are loops in one thread, which goes on
as long as there is a step.  No fairness is assumed of the caller, who may never
call again; `Step` of the tool is what one process does, and does not contain
the next call of it.  In the tool a failing read or write is as fair as one that
succeeds, and it is the end of a file of finite size that ends the loop.

### What the runs found

Each violation run checks one statement of the sources.

1. `reader_tiny`: a message shorter than the armor header stays in the armor
   reader.  `Finish` without new input does not enter the machine's Unknown
   state again, so "when we finish, we return the data" (`armor_reader.cpp:230`)
   does not happen, and the call returns normally without the content.
2. `reader_locked_armor`: without a key `cipher_mode_` is null and only
   `emsg_result` tells; on armored input `ArmorOnEnter` overwrites it, and the
   next `DoRead` uses the null pointer (`packet_reader.cpp:319`).
3. `seipd_short`: a body truncated inside prefix or MDC is decrypted only at
   `Finish` and moved through an empty `mdc_` (`packet_reader.cpp:397`).
4. `portions_of_two`: portions of two octets, which `SetPartialLengthPower`
   allows, make the count of `Push` wrap (`memory_stream.cpp:183`); with
   portions of four octets its assert fails.
5. `writer_last_length`: a body that is a multiple of the portion size ends with
   a partial length (`packet_writer.cpp:216`).  The library's own reader does
   not mind.

## What is proved

By TLAPS, for every value of the constants that the named assumptions
(`LayoutAssumption`, `ReaderAssumption`, `WindowAssumption`,
`ArmorReaderAssumption`, `StreamAssumption`, `WriterAssumption`,
`ArmorAssumption`, `ToolAssumption`) allow; TLC evaluates these in the
runs.

* `SymIntegReader_proofs`: `TypeCorrect`, `WindowCorrect`, `HashCorrect`,
  `VerifiedCorrect`, `WholeAccepted` (`WholeIsVerified`) and `LittleHeldBack`
  (`HoldsBackLittle`).  `WindowExact` is not inductive: to move the window one
  must know that a window exists only after prefix and MDC were decrypted, that
  the prefix counter is what was decrypted up to its length, and that the hash
  is the whole stretch up to the window.  `WindowInv` says so, and the proof
  goes by the kinds of call: decrypts nothing, refuses the prefix, slides by a
  long or a short rest, or has no window to move.  The facts about stretches of
  positions (`Seg`) are lemmas at the start.  Holds for all prefix and MDC
  lengths, granularities, bodies and cuts.
* `MessageReader_proofs`: `DoReadType`, outcomes of a packet reader are well
  typed, a reader that fails gives nothing out, and only the session key packet
  ends with Success; on it rest `TypeCorrect`, `StackCorrect`
  (`StackDiscipline`) and `NothingLost` (`NothingDiscarded`).  That `BufferEmptyOnEnter` never drops a
  buffer depends on where the machine may have come from: `ControlInv` states,
  for each state, what is on the stack and where the iterator stands (outside
  the finishing pass the buffer on top is not empty; in BufferEmpty and End
  there is none; in Packet the iterator is in the chain).  One lemma per action;
  `EntersFrom` derives the predecessor of a state from the graph.  Holds for all
  messages, chain lengths and sizes.
  On top of that come `HeadersMatch` (`HeaderMatchesPacket`) and
  `FailuresReported` (`FailIsReported`).
  `NestInv`: the known places of the chain have no gap, a packet with another
  one inside it was read, and one that no reader was built for has the type of
  the header read last.  `IteratorInv`: where the iterator stands, before and in
  the finishing pass.  `BufferInv`: in the finishing pass an empty buffer is on
  the stack only when nothing was ever fed; that is the one case in which
  NextState may find no link, as `StuckOnNothing` shows state by state.  Holds
  for all messages, keys, chain lengths and sizes.
  The second half of the module is about the octets: `UndefinedWays`
  (`NeverUndefined`), `MessagesVerified` (`FinishVerifies`) and `FewPacketsFit`
  (`ChainInBounds`).
  They rest on conservation: `CountInv` says that of each kind and number
  the octets on the stack, in the armor reader, the header reader, the packet
  readers, the output and with the caller are together no more than were fed
  (`HowMany` and its lemmas in `SeqLemmas` count them).  The first two share
  `VerifyInv`: `ReaderInv`, what the flags of a reader say about what it holds;
  `SeenInv`, that an integrity protected packet is still awaited by the chain or
  its window holds a right digest; `EndInv`, that a normal return of Finish has
  asked every reader in the chain; and `LockInv`, that a missing key is reported
  for as long as it matters.  The octets of the digest are then on the wire by
  the count.  Holds for all messages, keys, chain lengths and sizes.  The proof
  found that `NeverUndefined`, as it stood, named one way too few: an analyzer
  without a key uses the null cipher also on an encrypted message inside a
  compressed one, where it is not the armor reader that overwrites the result
  but the reader of the outer packet.  That message is now among the scenarios.
  The count also bounds the chain.  `ChainInBounds` speaks of every message
  with fewer packets with packets inside than the chain has places
  (`FewPackets`), in whatever layers, whole or broken: a message with more of
  them can run off the chain, which is what `UndefinedWays` allows for.  The
  scenarios hold both (`Deep`): one with four such packets, which leaves a single
  place, and one with five, which overflows.
  `RoomInv` adds to what is left of the headers of such packets the places they
  have taken, and in the finishing pass the places FinishOnEnter has left, which
  are free again but in front of the iterator: together no more than the headers
  that were fed, since HeaderOnEnter uses up a header for each place it takes.
  Only behind the innermost packet is a place left that no such header took, and
  there `Over` says that nothing is left to read.
* `ArmorReader_proofs`: three invariants, one on top of the other.  `ControlInv`
  says which results the handler of each state can leave behind, and that CRC is
  only entered with its line at hand; `TypeCorrect`, `CRCNever`,
  `FailsOnlyOnFormat` (`FailsOnFormat`) and `FormatNeverReported`
  (`FormatBecomesError`) follow.  `TextInv` relates the reader to the text it
  was handed: what it holds is the rest of that text, what it has kept as label
  and checksum stands in it, and behind which place.  `AcceptsOnlyChecked`
  (`AcceptedIsChecked`) follows: a tail is accepted only behind the checksum of
  all that was given out, and with the label of the header.  For every text,
  cut, header, separator and line length.  `ExactForRegular` says that
  `PromptAndExact` holds for every `Regular` text in every cut: a '\r' stands only
  in front of a '\n', a line of base64 is whole blocks, and there is no base64 and
  no tail before a blank line behind the first one.  The text may be damaged in
  every other way, or cut off.  Without the first of these it is false: a lone
  '\r' ends a line for the reader, and the character behind it, whatever it is,
  goes with it (TLC shows it when a '\n' of the payload becomes "\r ").
  `ExactInv` says where the reader stands: at the end n of a line (`At(n)`), with
  everything before n decoded, and with what follows n in its hands; or in front
  of a line that it has put back without its '\r' (`PutBackFrom`).  An idle reader
  has no whole line left.  `LineOfText` brings a line the reader finds back to
  the text, `LineAdds` and `DecodeWhole` say that decoding it adds just what a
  reader of the whole text finds there, and `HeadersGoOn` that the header lines,
  which the reader skips, hold nothing to decode.  `MCRegular` evaluates `Regular`
  for all sound scenarios of the run.
* `InBufferStream_proofs`: `Types`, `UnframedAlways`, `AssertHoldsAlways`,
  `CutForgottenAlways` and `NothingWaitsAlways`, for bodies that are framed
  (`Framed`; the last one also `Whole`), with portions of every size, pushes and
  reads of every size.  The invariant `Standing` says where in the body the
  stream stands: inside the portion whose count runs, at the octets of a length
  it has not got all of, or behind the end, and that what was read and what
  waits is the body up to there.  `LengthReadBack` says that every length of up
  to four octets is read back as written, whatever follows, by the three forms
  of a length; `LengthIs` and `LengthPlace` connect it with
  `ReadLength`.  Without `Framed` the claims are false: `portions_of_two`.  TLC
  evaluates `Framed` and `Whole` for the bodies of `portions` (`MCFramed`).
* `MessageWriter_proofs`: `TypeCorrect` and `ArmorInOnePiece` (`ArmorUncut`).
  For the types, `DepthInv` bounds the layers around a cell by the packets it
  has gone through.  `ArmorInv` says what the armor writer has written between
  any two of its calls: the header and the lines of all the octets its checksum
  has seen, which are whole blocks until it finishes, with as much room in the
  last line as that many blocks leave.  That blocks and lines of a sequence are
  those of its parts, one behind the other, are lemmas of their own
  (`BlocksConcat`, `LinesConcat`, with `SlotsLater` for where a line ends), and
  `LinesHold` says that the octets can be got back from them.  For every
  payload, portion size, block and line length and every cut.
  The second half of the module is `FlowInv`, the ledger of the writers: there
  are sequences `c[1]` to `c[n + 1]`, one between any two writers of the chain,
  such that the first with what is on its way is the payload handed over, each
  writer has given `c[i + 1]` for `c[i]`, and the last stands behind the session
  key packet in what the armor writer has seen or the caller has.  `Wrote` says
  what a writer has given for what it has taken, without a word on the cuts: the
  header, the fields and the layer around what was taken, in whole portions,
  where the rest of a portion, of a cipher step and of the compressor is still
  with the writer, or all of it with the trailer once it has finished.  It
  holds because portions do not depend on the pieces (`PortionsGoOn`), nor
  layers (`WrapConcat`).
* `MessageWriterStream_proofs`: `Delivers` (`KeepsPromise`, the refinement of
  `StreamDecoder`), `DigestRight` (`DigestCovers`) and `Streams`
  (`HoldsBackLittle`), from `FlowInv`.  The argument goes reader by reader:
  `Prompt(R, came, went, k)` says that the reader `R` makes `came` of `went`, of
  every start of `went` a start of `came`, longer for a longer one, and is never
  more than `k` octets behind.  `PromptThen` composes two readers and adds up
  what they keep back; then each step of reading is `Prompt` for what the writer
  of that packet does (`UnframedReads` for the portions, `BehindReads` for
  fields, `PeeledReads` for a layer, `BeforeReads` for a trailer, which nothing
  in front of it may look like, `NoTrailer`), and `LayerWhole` says that of a
  finished packet all comes back.  `ReadInv`, that what can be read so far is
  the payload up to some octet, carries the refinement from step to step;
  `ContentGrows` says that it never shrinks.  `Unframed` is recursive on the
  rest of the octets: `UnframedIs` shows that there is such a function, by
  taking together those for the lengths up to `n`.  For every payload,
  compressed or not, armored or not, and every portion size, cipher step,
  prefix, digest, block and line length and cut into calls, whatever the
  compressor gives back meanwhile.
  `LayoutWritten` (`WritesLayout`) is the other end of the pair: what
  `MessageReader` is checked on is what these writers write.  From the payload
  outwards the finished packet of each writer, without the lengths of portions
  (`Bare`), is that packet as the layout has it (`BarePacket`, `FinalPackets`):
  lengths disappear from what was joined as from each part (`BareConcat`), from
  cells with layers around them as from the cells (`BareLayer`), and of portions
  with their lengths just the body is left (`BareFrames`).
* `Tool_proofs`: `ToolTypeCorrect` (`TypeOK`), `ToolWritesOnlyContent`
  (`OnlyContent`), `ToolRoundTrip` (`RoundTrip`) and `ToolFailsForAReason`
  (`FailsForAReason`).  None of the three is inductive.  `IInv` adds, in the
  order in which octets move: `Fed`, what the library was fed is the input up to
  `pos`, and all of it once the end of the file was seen; `Gave`, what the
  library gave is a beginning of what that comes to, without the digest before
  `Finish`, all of it afterwards; `Wrote`, the output is what the library gave,
  but for the buffer or what a failed write or an exception has lost; and
  `Remembered`, a file known to be a message still is that message, so that what
  one call says of its output is there for the next one.  `Phase` says what is
  still untouched before the output is open.  The lemmas in front are about
  `Encode` and `Payload`: `EncodeIs`, that a message has the content it was
  made of, whether or not that is a message itself; `BegunIs`, that whatever has
  begun a message has its content's beginning and no more; and what a step of
  `StreamDecoder` may then give.  For all files, contents, command lines, sizes
  of the buffer and numbers of calls, with reads and writes that fail.  The proof
  found a flaw of the model: a cell that was encrypted lost its kind, so that a
  message encrypted again and decrypted was another one, which two calls are too
  few to see.
* `SeqLemmas`: what several of them share.  `NatInduct` is induction over a set of
  naturals, by its least element, and `FlattenExists` with it says that the
  community modules' `FlattenSeq` is the function its definition chooses;
  `SeqInduct` is induction over sequences, for the set of those that have the
  property; with that, facts about `Body`, `Octets` and `FormatLines`, which are folded over a
  sequence of any length, can be proved.

TLC agrees with the inductive invariants of `MessageReader`, `SymIntegReader`,
`ArmorReader`, `InBufferStream`, `MessageWriter` and `Tool` on the instances of
their runs, but for `ExactInv`, which speaks of any line put back and cannot be
enumerated.

**Only model-checked**: the liveness properties (`CallsReturn`, `PushEnds`,
`RunEnds`), which are beyond the prover; the refinement of `StreamDecoder` by
`MessageReader` and by `ArmorReader` (that by the writer is proved);
and `HeaderRoundTrip` and `LengthRoundTrip`, which walk through lengths one by
one and of which `LengthReadBack` is the general form.
`KeyRequired` is checked only as well.
`AnalyzerLearns` and `FinishDeliversAll` are not theorems of every message: they
say that the scenarios, which have the layouts of the tests and of the writer,
are understood and come out in full.

## What is not modelled

* Portions inside `MessageReader`: bodies are there without the lengths of their
  portions, which `InBufferStream` puts together.  Bodies of definite length and
  old-format headers only occur in `PacketParsers`; no reader ends at the end of
  a definite body, so a scenario's body goes on to the end of the message.
* Calls to an object that has thrown or finished, and a second `Start`: unstated
  in the API and unused in the repository.
* A wrong key that passes the check of the repeated prefix octets (one in 2^16);
  for integrity protected data the MDC check behind it is modelled.
* Cipher, hash, compression and base64 themselves (Botan), the derivation of
  keys, algorithm tables, configuration fields, logging: tables and calls that
  keep no state between the steps of a message.  Whether a key fits and an
  algorithm is known is part of a scenario.
* Two calls of the tool on the same files at the same time, its `--armor` switch
  and the log file.
* Cuts inside a packet header at `Finish` (a header is one cell, with a second
  one in front of the body where `HeaderMax` matters), and inside the name and
  date of a literal: such an input is refused or read on like one that is cut
  next to it, and no property depends on where.
* A portion power of 31, where `1 << power` overflows an `int`.

## Plan

1. The composition of `MessageWriter`, `InBufferStream` and the readers: real
   lengths in the reader, definite bodies, and old-format headers.  It needs
   cells for lengths in `PacketLayout` and the stream inside `PacketReaders`.
2. `ArmorWriter` behind `ArmorReader` as one system: what was written in any
   pieces is read in any pieces.  Today the texts of `armor_reader` are what
   `ArmorWriter` writes in one piece, and `ArmorUncut` says that it writes the
   same in any.
3. Proofs: that `SymIntegReader` implements the window of `PacketReaders`; and
   the refinement of `StreamDecoder` by `MessageReader`.
