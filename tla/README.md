# A TLA+ model of DeviceSimulator

DeviceSimulator is a TCP server that plays a device under test equipment: it parses
requests of a binary protocol, looks each one up in a table of rules, and answers as
the rule plans - at once, late, in fragments, glued to other answers, with noise or a
bad checksum, not at all, or by closing the connection. This directory models it in
TLA+, checks it with TLC on small instances and proves its safety properties with
TLAPS: the server, the decoder of its protocol, the configuration it is built from, the
program around it, and what a client observes of the whole.

Paths below are relative to the repository's root; `Server.cpp`, `Codec.cpp` and
`Configuration.cpp` stand for `DeviceSimulatorServer.cpp`,
`DemoBinaryProtocolCodec.cpp` and `Configuration.cpp` in `src/core/src/`.

## Inventory

| Component | State | Operations | Hard parts |
|---|---|---|---|
| `DeviceSimulatorServer` (`Server.cpp`) | listener, one client, request queue, output queue, the transmission being fragmented, three timers, session generation and ordinal, random generator, telemetry sequence, five flags | `start`, `stop`; slots `acceptPendingConnections`, `readClientData`, `handleClientDisconnected`, `processOutputQueue`, `writeNextFragment`, `publishTelemetry`; posted calls and delayed lambdas | interleaving of callbacks, re-entrant release of a session, calls that outlive their session, bounded queue, lost wakeups |
| Rules and faults (`Rules.h`) | none | `matches`, `findMatch`, `isValid`, the plan constructors | limits and combinations of faults |
| `DemoBinaryProtocolCodec` (`Codec.cpp`) | receive buffer | `append`, `encode`, `corruptChecksum`, `adjustPayloadLength`, `reset` | frames cut anywhere, resynchronisation, full buffer |
| Configuration (`Configuration.cpp`) | none | `load`, `validate`, `createServer` | agreement of the validator with the runtime's checks |
| Command line (`src/cli/main.cpp`) | stop flag set by a signal | five commands | exit codes, signals and a polling timer |
| Protocol types (`Protocol.h`) | - | - | - |

How they interact: the command line loads and validates a configuration, the factory
turns it into options, rules and telemetry, and creates the server. For each client
the server makes a codec, feeds it what the socket delivers, queues the requests it
returns, and runs one request at a time through the rules; the plan's response is
encoded by the codec and joins the output queue, which telemetry frames join too.
Everything runs in one thread. Callbacks of Qt's event loop are the only concurrency:
they run to completion but in any order, and a callback may be nested in another,
because `disconnectFromHost` emits `disconnected()` before it returns when the socket
has nothing left to send.

What makes each correct:

- server: replies in the order of requests, each request answered as its plan says,
  nothing of one session in another, frames whole on the wire, the output queue
  bounded, nothing behind the response that disconnects, telemetry numbered
  consecutively, reproducible drops; queues that never get stuck;
- codec: the requests found do not depend on how the bytes were cut; a good frame
  after noise is found; the buffer is bounded; what is encoded decodes to itself;
- configuration: the loader is strict, and what the validator accepts the runtime can
  execute;
- command line: the server listens only when it should, nothing stays open, a stop
  request is obeyed, and the exit code tells what happened;
- the whole: a client gets what the configuration file describes.

## Modules

| Module | Contents |
|---|---|
| `Rules` | rules and the lookup of the first that matches |
| `Faults` | plans, faults, their validation and the drop decision, as operators |
| `DeviceSimulatorServer` | the server: state, member functions, callbacks, `Spec`, `FairSpec` |
| `ServerProperties` | what makes the server correct |
| `ReplyService` | abstract specification: what the client of a session is promised |
| `ServerRefinesService` | the refinement mapping and `ServiceImplemented` |
| `DeviceSimulatorServerProofs` | proofs: types, bound of the output, isolation of sessions |
| `ServerOutputProofs` | proofs: writes, fragments, the coalescing window, no lost output |
| `ServerRequestProofs` | proofs: what is answered, in which order, how a session ends, and that the server implements `ReplyService` |
| `EmbeddingApplication` | the server in an application whose slot stops it |
| `Frames` | the frames of the protocol, byte by byte: encoding, CRC, falsification |
| `DemoBinaryProtocolCodec` | the incremental decoder |
| `FrameStream` | abstract specification: the requests in a stream of bytes |
| `CodecProperties` | what makes the decoder correct, and that it implements `FrameStream` |
| `CodecProofs` | proofs about the decoder: that refinement, and that what is encoded decodes to itself |
| `Configuration` | from a JSON document to a server: loader, validator, factory |
| `CommandLine` | `main()`: arguments, commands, signals, exit codes |
| `CommandLineProperties` | what makes the program and its configuration correct |
| `ConfigurationProofs` | lemmas: what a document without errors may be relied on for |
| `CommandLineProofs` | proofs about the program and what it builds from a document |
| `SequenceFacts` | lemmas about sequences, sums and sets of naturals |
| `ConfiguredServer` | composition: the server with the options and rules of a document |
| `ConfiguredServerProofs` | proofs: what a document lets a client expect is what it gets |
| `Documents` | short forms for writing JSON documents |
| `MCDeviceSimulatorServer`, `MCCodec`, `MCCommandLine`, `MCConfiguredServer`, `MCEmbeddingApplication` | instances for TLC |

A definition whose comment begins "Seeded fault" is a wrong variant of the definition
after it, or of one named there. No specification uses it; `PROJECT.json` pairs it with
the property that rejects it.

### How the model corresponds to the code: the server

The server's state is one record, `srv`, with a field for each member variable (the
name without `m_`). A member function is an operator from record to record named
after it, so that nested calls compose as in the code: `executePlan` calls
`queueResponse`, which calls `enqueueTransmission`, which calls `processOutputQueue`,
and any of them may release the session and return to a caller that goes on with what
it had in mind. A callback of the event loop is one action. Fields that are not
members of the class are the socket's and the loop's:

- `client`, `closing`, `unsent`: a socket is attached; it was asked to disconnect and
  waits for its buffer; its buffer is not empty. `DisconnectFromHost` releases the
  session at once or marks the socket as closing; `Flush` empties the buffer.
- `acceptCalls`, `requestCalls`, `outputCalls`: how many `QTimer::singleShot(0, ...)`
  calls are posted. They belong to the server, not to a session, and are not cancelled.
- `delayed`: the lambdas of delayed responses with what they captured.
- `pending`: the listener holds a connection that was not taken yet.
- `wire`, `received`: what the session wrote, write by write, and the requests it
  got. They are history: no guard of the server reads them, only the bounds do.

Data is abstract where no property looks at it. A request is a record with a command;
a payload, and a frame, is its length; the contents of frames, the text of events and
log messages are left out. A probability is a percentage. Corrupted checksums and
wrong length fields change no length, so only their refusal is kept: `CodecMutates` says
whether the embedding program's codec can falsify frames (a codec of another class than
`DemoBinaryProtocolCodec` cannot, and the session ends). A transmission
carries the session and request it came from, which the code does not have; they
exist for the properties.

A callback makes at most one write and one random draw, so its nondeterminism is one
pair `io`: whether the socket accepts the write, and how the draw comes out. Timers
have no durations: a running timer may fire at any moment, in any order.

### The decoder

`append` (`Codec.cpp:86`) alternates between putting bytes into `m_buffer`, as many as
there is room for, and `parseAvailable` (line 203), a loop with one branch for each way
the buffer may begin. Each pass through either loop is one action, so that the
intermediate states are states of the model: `FillBuffer`, `BufferEmpty`,
`DiscardAllNoise`, `DiscardNoise`, `WaitForBytes`, `RejectLength`, `RejectChecksum`,
`RejectVersion`, `TakeRequest`. `pc` says which loop runs, `data` and `offset` are the
argument and how far it was copied, `result` is what the call has gathered. Bytes are
real bytes and the CRC is computed as the code does, bit by bit: whether a piece of
payload looks like a header or a frame is the point of the model.

`stream` is what the peer sends on a connection and `arrived` how far TCP has delivered
it, in pieces of any size. `found`, `reported` and `taken` are history: requests and
counts of discarded bytes that calls have returned, and offsets of frames taken off the
buffer. `encode`, `corruptChecksum` and `adjustPayloadLength` have no state; `Frames` has
them as operators, and the streams of the run are made with them.

### The configuration

A JSON value is a record with a kind. `FromJson`, `Validate` and `ServerOf` are the
loader, the validator and the factory; each section has a record of the reading function
of each property (`ServerTypes`, `FaultTypes`, ...) and one of defaults, and `Readable`
is what `rejectUnknown` and the `read...` calls demand. The loader stops at the first
error and the validator collects all; the model keeps whether a document loads, and the
set of paths the validator reports.

A text is a sequence of words, equal when they differ in case only. The constant
`HexValue` says which words are hexadecimal bytes; two of them may have one value, as
"1" and "0x01" do, which is what duplicate rules are about. Numbers are integers with
hundredths, enough to tell an integer from a fraction and to write a probability.
Objects are sequences of members: keys are compared without regard to case
(`Configuration.cpp:35`), so that one object can hold two members with matching keys,
and the first is read.

### The program

`phase` is where `main()` is; each step is one action. A signal comes between any two
steps (`Deliver`). Before its handler is installed it kills the process, afterwards it
sets `StopRequested`; the C standard lets `std::signal` leave the handler installed or
not, and both happen. The polling timer reads the flag and clears it in two steps. Of
the server only `listening` and `connected` are kept here: what `stop` and the
destructor do to the rest is `DeviceSimulatorServer`'s.

### Compositions

`ConfiguredServer` substitutes what `ServerOf` makes of a document for the constants of
`DeviceSimulatorServer`, and compares the server's writes with the document itself, not
with the plans made from it. `EmbeddingApplication` adds to the server the step that the
program does not take and an application may: `stop()` called from a slot connected to
`requestReceived`, in the middle of the loop of `readClientData` (`Server.cpp:229-235`).

### Departures and assumptions

- A write is accepted whole or refused (`QTcpSocket` buffers what it accepts). A
  refusal is possible at any write when `"write"` is in `Failures`.
- A connection may wait in the listener while `newConnection` has not been delivered
  yet. This is the weakest assumption about Qt, and it lets the deferred accept of
  `handleClientDisconnected` (`Server.cpp:250`) meet every other callback.
- A peer may disconnect at any moment, also while the socket is closing. A closing
  socket reads nothing more.
- The options are valid, since `start` refuses others, and the sum of the random seed
  and the session ordinal fits an `int` (`SeedAssumption`).
- Objects and arrays of a file have numbered members and items (`FilesAssumption`), as
  those that `QJsonDocument` makes have.
- What a simulator sends (`SessionsAssumption`) is any sequence of messages, each with
  noise before it and perhaps a falsified checksum, in which nothing looks like a header
  but the first two bytes of each frame and what lies inside frames that are not
  falsified. That much is needed: a false header claims up to `maxPayloadLength` bytes that
  follow it, as the code has it, so after noise of any content a message may be late or
  be lost. `FramesFound` and `StreamDecoded` say what holds of streams of any content.
- Slots connected to the server's signals do not call back into it, but in
  `EmbeddingApplication`. The command line connects one that logs.
- The decoder's calls and the server's callbacks run on one thread, as they do in the
  code; nothing is assumed of the order in which their bytes and events come.

## Runs

The first eight take their rules from `AllRules`: the command says what the rule plans
(`SLOW` delays, `SPLIT` and `EXACT` send fragments, `PAIR` and `TRIPLE` coalesce,
`FORGED` asks for a bad checksum and length, `LAST` disconnects after it is sent,
`HANGUP` disconnects at once, `LOSSY` drops half the time, and so on; `UNKNOWN` has no
rule).

| Run | Question | Distinct states |
|---|---|---|
| `requests` | What is answered, in which order, and what follows a scheduled disconnect? | 283 000 |
| `output` | What reaches the socket when fragments, coalescing and telemetry compete for a full queue? | 394 000 |
| `sessions` | What survives from one session to the next, with stop, restart, refused clients and every external failure? | 582 000 |
| `failures` | Is anything stuck after a handler throws, a plan or an encoding is refused, or a write fails? | 146 000 |
| `liveness` | Are requests served, output sent and scheduled disconnects done? | 154 000 |
| `service` | Does the server implement `ReplyService`? | 37 000 |
| `unknown_small_payload` | Is an unknown command always answered? (No.) | violation |
| `stop_in_slot` | Do requests end with their session when a slot stops the server? (No.) | violation |
| `codec` | Are the requests in a stream found, all and only they, however it is cut? | 21 100 |
| `program` | Do exit codes, endings and stop requests mean what they should; is the loader strict; can the runtime execute what the validator accepts? | 26 400 |
| `negative_unused_delay` | Does every response of a valid file execute? (No.) | violation |
| `sample` | Does a client of the sample configuration get what the document says? | 7 900 |

Deadlock is checked in `codec`: a call in progress always has a step, and between calls
there is another stream. It is not checked in the others: a program ends, and a server
that was stopped, or whose client sends nothing more, rightly waits for ever, as does a
run that has used up its bounds.

Properties that are worth a word:

- `AnswersFollowPlans` and `NoLostRequest` say that, as long as the connection is
  open, each request taken was answered, is about to be, or was to be silent. A
  response lost anywhere between the rule and the queue violates them.
- `NoLostOutput` is the invariant behind the output's liveness: whatever waits has a
  timer or a posted call that will look at it.
- `FramesContiguous` reads the pieces on the wire: a frame is begun only when the one
  before it is complete.
- `SessionIsolation` covers delayed lambdas and posted calls that arrive in a later
  session.
- `CoalesceWindowFresh` states that an expired window is always consumed by the
  batch it belongs to. It holds because the timer runs only while the head of the
  queue waits for company.
- `TelemetryConsecutive` holds while the session is open. After a release in the
  middle of `publishTelemetry` the sequence number is one too high until the next
  client is attached, which resets it.

- `FramesFound` says which frames the decoder takes, as a property of the stream: those
  with a right checksum at the left of what has not been taken. That a wrong length or
  checksum costs one byte and not a frame is what it rejects variants for.
  `StreamDecoded` says the same with an abstract specification that has no buffer, so
  that the cuts cannot matter; `MessagesGetThrough` relates it to what a simulator sends,
  at every moment and not only in the end: nothing of a message is found before its last
  byte, and the message at once with it.
- `OneFrameHeldBack` shows that with valid options the branch `BufferLimitExceeded`
  (`Codec.cpp:94`) is never taken: outside the parser the buffer always has room.
- `ConfiguredPlansExecute` relates three independent pieces of code: the validator, the
  factory and the check the server makes when a plan is executed. It excepts the one
  disagreement they have, and `negative_unused_delay` shows that one.
- `LoaderIsStrict` is an equivalence: the loader refuses every document that has an
  unknown property or a wrong type at any depth, and no other. It excepts objects that
  spell a key twice (see below).
- `DocumentHonoured` and `WritesAsDocumented` read the JSON document, the second down to
  the sizes of the writes of each reply, and are about loader, factory, rules, queues and
  timers together.

### Bounds

`MaxSessions`, `MaxRequests` (of a session), `MaxBatch` (requests of one read),
`MaxTelemetry` (frames of a session) and `MaxGeneration` (calls of `stop`) are guards
of actions of the environment, never of the server's own steps. Two sessions suffice
for everything that leaks from one to the next; three requests give one in progress,
one waiting and one arriving. The output queue has room for 2 or 3 instead of 128,
so that it is full within reach; the sequence counter wraps at 3 and starts at 2, so
that the first frame already wraps. Limits of the options are small so that each of
them is exceeded by some rule.

`codec`: payloads of at most 10 bytes, the least that holds a frame inside a payload; a
buffer of 20, the least the codec accepts, so that pieces of a stream exceed it; twelve
streams of up to 34 bytes, cut in every way and read one after the other: sessions of
intact, falsified and noisy messages, lengths that are too large and that fit another
frame, another version, truncated frames, half headers. `program`: some 2200 files, each
with one thing on or beyond a limit or a type in the place of another, and for timing
faults every combination around the limits; they are run, and four of them meet every
command line. `sample`: the seven rules of the sample file and a command without one,
two requests, pipelined or not, and a telemetry frame. `ProgramSpec` is `Spec` with
that choice of files and command lines.

### Fairness

`FairSpec` assumes that the event loop delivers what was posted and the timers that
expired (`NewConnection`, `AcceptCall`, `RequestCall`, `OutputCall`,
`CoalesceTimeout`, `FragmentTimeout`, `DelayElapsed`) and that the network takes the
bytes of the socket (`Flush`). Qt's event loop justifies the first; the second is an
assumption about the peer, and the code needs it: it has no timeout for a socket that
is closing. Nothing is assumed of clients, of telemetry ticks, or of `start` and
`stop`. Each conjunct is weak fairness, with the guard of the action in place of
`ENABLED`.

The decoder's `Spec` has `WF_vars(Running)`: a call runs on to its end, on the thread
that made it. Nothing obliges the peer to send. The program's has `WF_phase(MainMoves)`:
`main()` does not stay where it can go on, in particular the timer of its event loop,
which fires every 100 ms, finds the stop request. No signal is assumed to come.

### Findings

- `unknown_small_payload`: the README (line 64) and `docs/architecture.md` (line 20)
  promise that an unknown command is answered with `0xFF` and the payload
  `01 <command>`. `DeviceSimulatorOptions::isValid` accepts a `maxPayloadLength` of 0 or
  1; the codec then refuses to encode the two bytes, and the server closes the
  connection (`Server.cpp:593`).
- `negative_unused_delay`: `docs/configuration.md` (line 21) says that values outside the
  limits are errors. A negative `fragmentDelayMs` without fragments, or a negative
  `coalesceWindowMs` without coalescing, passes the validator
  (`Configuration.cpp:593-606`) and is refused by `FaultInjectionOptions::isValid`
  (`Rules.h:42`) at every execution of the rule, which closes the connection.
- `stop_in_slot`: `docs/architecture.md` (line 31) says that a client's requests are
  cleared when it is gone. `readClientData` emits `requestReceived` before it enqueues;
  a slot that calls `stop()` releases the session in between, the request is enqueued
  nevertheless, and the next client gets the answer.

Two more are visible in the model without a run of their own. Of "PORT" and "port" in one
object only the first is read, and the other may have any type (`Configuration.cpp:35`);
hence `EachKeyOnce` in `LoaderIsStrict`. And hexadecimal text is not looked at where it is
not used: in the response of a rule that does not respond (`RespondErrors`), and in
telemetry that is off (`TelemetryErrors`).

## Proofs

The proofs are for every rule table, limit, bound, stream, document and command line,
under the assumptions named in the modules (`OptionsAssumption`, `RuleTableAssumption`,
`ServerAssumption`, `SeedAssumption`, `CodecAssumption`, `StreamsAssumption`,
`SessionsAssumption`, `HexAssumption`, `ArgumentsAssumption`, `FilesAssumption`,
`SignalsAssumption`, `DocumentAssumption`, `ServerAssumptions`). Each says that options
are valid, that a value has its type, what a JSON array is, that the server is the one a
document describes, or what noise is; the runs evaluate all of them. Each theorem below
says that `Spec` of the module implies the property, always.

| Module | Theorems and what they state |
|---|---|
| `DeviceSimulatorServerProofs` | `TypeCorrect`: `TypeOK`; `OutputBounded`: `OutputQueueBounded`; `SessionsIsolated`: `SessionIsolation`; `CleanRelease`: `ReleasedClean` |
| `ServerOutputProofs` | `WindowsFresh`: `CoalesceWindowFresh`; `OutputNotLost`: `NoLostOutput`; `FramesNotInterleaved`: `FramesContiguous`; `WritesAgree`: `CoalescedWritesAgree` |
| `ServerRequestProofs` | `RequestsNotLost`: `NoLostRequest`; `RepliesOrdered`: `RepliesInOrder`; `PlansFollowed`: `AnswersFollowPlans`; `FarewellIsLast`: `DisconnectIsLast`; `TelemetryNumbered`: `TelemetryConsecutive`; `DropsReproducible`: `ReproducibleDrops`; `DisconnectSettlesIt`: the action property `NothingAfterScheduledDisconnect`; `ServiceIsImplemented`: `ServiceImplemented`, the refinement of `ReplyService` |
| `ConfiguredServerProofs` | `DocumentIsHonoured`: `DocumentHonoured`, the service as the document describes it; `WritesFollowDocument`: `WritesAsDocumented` |
| `CodecProofs` | `TypeCorrect`: `TypeOK`; `HeldBackIsShort`: `OneFrameHeldBack`; `NoByteLost`: `BytesAccounted`; `ResynchronisationFindsFrames`: `FramesFound`; `StreamIsDecoded`: `StreamDecoded`, the refinement of `FrameStream`; `MessagesArrive`: `MessagesGetThrough` |
| `CommandLineProofs` | `TypeCorrect`: `TypeOK`; `ExitCodesTold`: `ExitCodesMean`; `ListeningIsRunning`: `ListensOnlyToRun`; `NothingLeftOpen`: `EndLeavesNothingOpen`; `BuiltServersStart`: `ConfiguredServersStart`; `BuiltPlansExecute`: `ConfiguredPlansExecute`; `BuiltRulesReachable`: `EveryRuleReachable`; `LoadingIsStrict`: `LoaderIsStrict` |

### The server

Callbacks nest: any function that writes may release the session and return to a caller
that goes on. So the invariants are predicates of a record, proved of each member
function for any record that meets the function's precondition, and an action's step
puts those lemmas together in the order of the calls. There are three layers, one module
each.

1. `Inv(s)` (theorem `Invariance`): the four properties of the first row and what makes
   them inductive. The active transmission is of the attached session too (a fragment
   writes it later), and no delayed lambda has a generation ahead of the server's, nor the
   server's own unless a client is attached (`Dated`): that is why a raised generation
   makes every earlier lambda stale.
2. `OutputInv(s)` (theorem `OutputInvariance`): `Inv` and `Settled(s)`, in three parts.
   `Fresh`: an open window is that of the batch at the head of the queue, and an expired
   one is consumed before the callback ends. `Wired`: every transmission that waits is
   `Proper` (without that a fragment of no bytes would be written for ever, so this rests
   on the validation of plans), every write agrees with itself, and the pieces on the wire
   are contiguous up to `fragmentOffset` of the active transmission - or up to the end of a
   frame when nothing is being written. `Flowing`: what waits has a timer or a posted
   call. Inside a callback, between queueing and looking at the queue, only parts of
   `Settled` hold; each function's lemma names those it needs.
3. `RequestInv(s)` (theorem `RequestInvariance`): `OutputInv`, `Waiting` and `Serving(s)`.
   `Serving` relates the session's requests to its line of outgoing transmissions,
   written or waiting: the queue is the rest of what was received (`Aligned`), at most one
   request is in progress and its one delayed lambda carries its answer (`Held`), the line
   is in order, as planned, complete for the requests done, numbered, and ends with a
   farewell if it has one (`Told`), which stops requests and telemetry (`Leaving`), and
   the random draws are those of the requests (`Drawn`). A session that is ending may have
   lost transmissions (`Thins`), never reordered any. While a request is in the hand of a
   callback none of that holds as it stands; `InHand` and `Dealt` say what does, and that
   every way out of `executePlan` and `queueResponse` restores it.

The refinement needs one more fact of each callback, `Moves(s, t)`: of an open session, a
callback takes a request, gives a delayed answer, publishes telemetry, or leaves the line
alone, and at most one of these. Each is a turn of `ReplyService` (`TurnRefines`), and
release and attachment are `Close` and `Open`. `Concluded`, of the same callbacks, is the
action property.

### The server of a document

`ConfiguredServer` is the server with the constants that the factory makes of a valid
document; the theorems of the server hold of it as they stand, and what is left to show is
that the plan of a message is what the document says. `ConfigurationProofs` has it that no
two rules of a valid document answer the same message, so that the first match, which the
server takes, and the only rule, which the document is read for, are one
(`PlanDocumented`); a message with no rule gets the plan for unknown commands.
`DocumentIsHonoured` follows, since the two services then promise the same
(`PromisesDocumented`).

`WritesFollowDocument` speaks of single writes, so it needs to know where each piece of a
frame stands among those of its reply. `AllCut`, in `OutputInv`, is that invariant: each
piece is the next one of the transmission begun last, from where the sizes before it
reach (`Reach`) to where its own does, and `Ordinal`, the number of pieces since that
beginning, is `fragmentIndex` of the transmission being written. `Carries`, in
`RequestInv`, adds that every reply on the line carries the sizes of the plan of the
request it names. Since a reply is begun once, the pieces that carry it are those since
its beginning (`ReplyPieces`), and the n-th of them is the n-th of the sizes.

### The decoder

Every step has one of five shapes (lemma `StepShape`): a call or a stream begins
(`Begins`, `Resets`), bytes are put into the buffer (`Fills`), or leave it as a frame or
not (`Takes`, `Skips`). Each part of the invariant is preserved by each shape. `CodecInv`
(theorem `CodecInvariance`) has the types; `Held`: outside the parser the buffer is empty or waits, that is, it begins
like a frame of allowed length that is not whole, which is what keeps it short; `Placed`:
buffer and argument are the pieces of the stream that begin where the counts say;
`Accounted`: what left the buffer is in a request or a diagnostic; `Sorted`: of what left
it, whole frames were taken and everything else lies in one or was rejected. What makes
`Sorted` inductive is that a verdict is final: bytes that are a whole frame, or rejected,
stay so when more arrive, which is not so of bytes that wait.

`StreamIsDecoded` adds `Read`: however much of the stream will arrive, what `FrameStream`
reads in it is what was got up to now, followed by what it reads from the buffer on. The
reading is a recursive function chosen by its equation, so that such a function exists
is proved first (`ReadsExists`, over the distance to the end) and that there is only one
(`ReadsUnique`); then the equation may be used. Between calls the buffer waits or is
empty, nothing is read from it on, and the requests found are all of them.

`MessagesArrive` says what those requests are when a simulator sends them. The CRC of any
bytes is two bytes (`CrcType`): its two recursive functions exist because their arguments
get smaller (`SequenceFacts!RecursionExists`), and what they yield is bounded along the
same descent (`RecursionHolds`). So a frame is its message laid out byte by byte
(`EncodeFacts`); of bytes that begin like it fewer wait, all of them are whole and read as
that message, and with a falsified checksum they are rejected (`FrameRead`). Where nothing
looks like a header the reading moves on (`NoiseSkipped`). Together they say what is read
of an item of a session (`ItemRead`): nothing while its last byte is to come, then its
message, or nothing if it was falsified; and by induction what is read of the first n
items (`ItemsRead`). After a frame that is intact the reading goes on where it ends,
whatever its payload contains; only of noise and falsified frames is anything assumed.

### The program and the configuration

`Established` says what each phase of `main()` may rely on: arguments that agree, a file
that loads, a configuration without errors, a server built of it; `listening` is a
function of the phase. With it every exit code is traced to its `return`. The three
properties about what is built rest on `ConfigurationProofs`: if the validator reports
no error in a section, the value satisfies what the server's own code asks of it, section
by section, and if it reports no duplicate then the first rule for a command is the only
one. `LoadingIsStrict` goes section by section too: where each key is spelled once, a
reading function finds the one member there is, so that what it asks of the value found
is what the property asks of the members.

### What stays with TLC

- Liveness: `RequestsAreServed`, `OutputIsSent`, `ScheduledDisconnectHappens`,
  `AppendReturns` and `StopRequestObeyed` need fairness and `ENABLED`. `NoLostRequest`
  and `NoLostOutput` are their safety parts, and proved.
- The properties that are expected to fail.

Induction is over a set of naturals that holds 0 and with each number its successor
(`SequenceFacts!Induction`, from the existence of a least element), since theorems with
an operator for a parameter cannot be used.

## Not modelled

- The syntax of JSON, and how Qt cuts a text into hexadecimal words: a document is a
  value, a text a sequence of words.
- The texts of diagnostics and errors, of events, of the log and of the program's output.
- A handler for unknown commands passed by an embedding application: it is a rule that
  matches everything, last in the table.
- `handleSocketError`, which only logs; events and signals, but for the slot of
  `EmbeddingApplication`.
- The decoder and the server in one state space: the server's `ReadClientData` takes the
  requests of any one `append`, which `StreamDecoded` shows to be those of the bytes that
  arrived. The server never calls `reset`; it makes a codec for each session.
- `sample-config` reads a resource compiled into the program; that it opens is left open.
- Durations: no property depends on one timer being shorter than another.
- `randomSeed + m_sessionOrdinal` beyond the range of an `int`.
- A limit on pipelined requests, and a timeout of a closing socket whose peer does not
  read: the code has neither, so there is nothing to check.

## Plan

1. (done) `Rules`, `DeviceSimulatorServer`, `ReplyService` and the refinement, their
   runs, type correctness and three safety invariants proved.
2. (done) The decoder against `FrameStream`; configuration and program; the compositions
   `ConfiguredServer` and `EmbeddingApplication`.
3. (done) Proofs about the server: output, requests, the end of a session, and that it
   implements `ReplyService`.
4. (done) Proofs about the decoder, that it implements `FrameStream`, about the program for
   every file and command line, and about what is built for every document.
5. (done) `LoaderIsStrict` for every document; `DocumentHonoured` and `WritesAsDocumented`
   for every valid document.
6. (done) That what `Encode` writes decodes to itself, for every message, and
   `MessagesGetThrough` for every session, noise and falsified frames included.

Every invariant and every safety property of steps that a run checks is proved. What could
come next needs durations (a timeout for a closing socket, if the code gets one) or a
prover for fairness.
