---------------------- MODULE DeviceSimulatorServer ----------------------
(***************************************************************************)
(* DeviceSimulator::DeviceSimulatorServer: one TCP client at a time, a     *)
(* queue of requests, a queue of outgoing transmissions, three timers.     *)
(*                                                                         *)
(* The program is one thread that runs event-loop callbacks to completion. *)
(* A callback calls other members directly, and a call may destroy the     *)
(* session under its caller (disconnectFromHost emits disconnected()       *)
(* synchronously when nothing is left to flush).  The object's state is    *)
(* therefore one record, srv; each member function is an operator from     *)
(* record to record, so that nested calls compose in the order of the      *)
(* code; each callback is one action.                                      *)
(*                                                                         *)
(* Outside the code: QTcpServer and QTcpSocket.  A socket buffers what is  *)
(* written, so at most one thing can go wrong inside a callback - a write  *)
(* is refused - and each callback makes at most one write and one random   *)
(* draw.  io = [accepted, below] is how these two come out.                *)
(*                                                                         *)
(* A definition whose comment begins "Seeded fault" is a wrong variant of  *)
(* the one after it; PROJECT.json names the property that rejects it.      *)
(***************************************************************************)
EXTENDS Rules, FiniteSets

CONSTANTS
    OutputQueueCapacity,  \* transmissions queued or being written
    RandomSeed,           \* options.randomSeed
    CodecMutates,         \* the factory makes DemoBinaryProtocolCodecs
    TelemetryEnabled,     \* telemetryOptions.isEnabled()
    TelemetryPayload,     \* payload length of a telemetry frame
    InitialSequence,      \* telemetryOptions.initialSequence
    SequenceModulus,      \* 2^16 in the program: the range of a quint16
    Failures,             \* the external calls that may fail, see MayFail
    MaxSessions,          \* bound: sessions that may begin
    MaxRequests,          \* bound: requests a client sends in a session
    MaxBatch,             \* bound: requests completed by one read
    MaxTelemetry,         \* bound: telemetry frames of a session
    MaxGeneration         \* bound: stop() is called below this generation

MaxInt == 2147483647   \* the largest int of the platforms built for

ExternalCalls == {"listen", "codecFactory", "parser", "frameFactory", "write"}

ASSUME ServerAssumption ==
    /\ OutputQueueCapacity \in Nat \ {0}
    /\ CodecMutates \in BOOLEAN
    /\ TelemetryEnabled \in BOOLEAN
    /\ TelemetryPayload \in Nat
    /\ SequenceModulus \in Nat /\ SequenceModulus > 1
    /\ InitialSequence \in 0..SequenceModulus - 1
    /\ Failures \subseteq ExternalCalls
    /\ MaxSessions \in Nat /\ MaxRequests \in Nat /\ MaxBatch \in Nat
    /\ MaxTelemetry \in Nat /\ MaxGeneration \in Nat

\* randomSeed + m_sessionOrdinal is an int: it must not overflow.
ASSUME SeedAssumption == RandomSeed \in Int /\ RandomSeed + MaxSessions <= MaxInt

MayFail(call) == {ok \in BOOLEAN : ok \/ call \in Failures}

Outcomes == [accepted : MayFail("write"), below : BOOLEAN]

-----------------------------------------------------------------------------
(* The values the server handles.  session, id and telemetry say where a   *)
(* value comes from; the code does not carry session.                      *)

Request == [session : Nat, id : Nat, message : Messages]

Response == [session : Nat, id : Nat, telemetry : BOOLEAN, payload : Nat]

Transmission ==
    [session : Nat, id : Nat, telemetry : BOOLEAN, size : Nat, fragmentSizes : Seq(Nat),
     coalesceCount : Nat, disconnectAfterSend : BOOLEAN]

\* The bytes from..to of a transmission, as handed to the socket.
Piece == [of : Transmission, from : Nat, to : Nat]

ValidFaults == {f \in FaultInjectionOptions : FaultsAreValid(f)}

\* The captures of the lambda that executePlan gives to QTimer::singleShot.
DelayedResponse == [generation : Nat, response : Response, faults : ValidFaults]

Server ==
    [listening : BOOLEAN, stopping : BOOLEAN,
     pending : BOOLEAN,                 \* the listener holds a connection
     client : BOOLEAN,                  \* m_client and m_codec are set
     closing : BOOLEAN,                 \* the socket closes once flushed
     unsent : BOOLEAN,                  \* the socket's buffer is not empty
     wire : Seq(Seq(Piece)),            \* the writes of the session
     received : Seq(Messages),          \* the requests of the session
     sessionGeneration : Nat, sessionOrdinal : Nat,
     randomSeed : Int, randomDraws : Nat,
     telemetrySequence : Nat,
     requestQueue : Seq(Request), outputQueue : Seq(Transmission),
     activeTransmission : Seq(Transmission),          \* std::optional
     fragmentOffset : Nat, fragmentIndex : Nat,
     processingRequest : BOOLEAN, writing : BOOLEAN,
     coalesceWindowExpired : BOOLEAN, disconnectScheduled : BOOLEAN,
     coalesceTimer : BOOLEAN, fragmentTimer : BOOLEAN, telemetryTimer : BOOLEAN,
     acceptCalls : Nat, requestCalls : Nat, outputCalls : Nat, \* posted singleShot(0)
     delayed : SUBSET DelayedResponse]

VARIABLE srv

vars == <<srv>>

Init ==
    srv = [listening |-> FALSE, stopping |-> FALSE, pending |-> FALSE,
           client |-> FALSE, closing |-> FALSE, unsent |-> FALSE,
           wire |-> <<>>, received |-> <<>>,
           sessionGeneration |-> 0, sessionOrdinal |-> 0,
           randomSeed |-> RandomSeed, randomDraws |-> 0,
           telemetrySequence |-> 1,
           requestQueue |-> <<>>, outputQueue |-> <<>>, activeTransmission |-> <<>>,
           fragmentOffset |-> 0, fragmentIndex |-> 0,
           processingRequest |-> FALSE, writing |-> FALSE,
           coalesceWindowExpired |-> FALSE, disconnectScheduled |-> FALSE,
           coalesceTimer |-> FALSE, fragmentTimer |-> FALSE, telemetryTimer |-> FALSE,
           acceptCalls |-> 0, requestCalls |-> 0, outputCalls |-> 0,
           delayed |-> {}]

-----------------------------------------------------------------------------
(* The end of a session. *)

ReleaseClient(s) ==
    [listening |-> s.listening, stopping |-> s.stopping, pending |-> s.pending,
     client |-> FALSE, closing |-> FALSE, unsent |-> FALSE,
     wire |-> <<>>, received |-> <<>>,
     sessionGeneration |-> s.sessionGeneration + 1, sessionOrdinal |-> s.sessionOrdinal,
     randomSeed |-> s.randomSeed, randomDraws |-> s.randomDraws,
     telemetrySequence |-> InitialSequence,
     requestQueue |-> <<>>, outputQueue |-> <<>>, activeTransmission |-> <<>>,
     fragmentOffset |-> 0, fragmentIndex |-> 0,
     processingRequest |-> FALSE, writing |-> FALSE,
     coalesceWindowExpired |-> FALSE, disconnectScheduled |-> FALSE,
     coalesceTimer |-> FALSE, fragmentTimer |-> FALSE, telemetryTimer |-> FALSE,
     acceptCalls |-> s.acceptCalls, requestCalls |-> s.requestCalls,
     outputCalls |-> s.outputCalls, delayed |-> s.delayed]

\* Seeded fault: the session ends but its queues and timers are kept.
HandleDisconnectedKeepingQueues(s) ==
    [s EXCEPT !.client = FALSE, !.closing = FALSE, !.unsent = FALSE, !.wire = <<>>,
              !.received = <<>>, !.sessionGeneration = @ + 1]

HandleClientDisconnected(s) ==
    LET released == ReleaseClient(s)
    IN  IF ~s.stopping /\ s.listening /\ s.pending
        THEN [released EXCEPT !.acceptCalls = @ + 1]
        ELSE released

\* QAbstractSocket::disconnectFromHost: with unsent bytes the socket goes on
\* until they are flushed, else disconnected() is emitted before it returns.
DisconnectFromHost(s) ==
    IF s.unsent THEN [s EXCEPT !.closing = TRUE] ELSE HandleClientDisconnected(s)

\* QIODevice::write of one block of pieces, which a socket that is still
\* connected, or closing, puts into its buffer.
Write(s, pieces) == [s EXCEPT !.wire = Append(@, pieces), !.unsent = TRUE]

-----------------------------------------------------------------------------
(* Writing transmissions. *)

\* Seeded fault: nothing is posted for the transmissions that wait.
FinishWithoutOutputCall(s, transmission) ==
    IF transmission.disconnectAfterSend THEN DisconnectFromHost(s) ELSE s

\* Seeded fault: the disconnect after the last response is forgotten.
FinishWithoutDisconnect(s, transmission) == [s EXCEPT !.outputCalls = @ + 1]

FinishTransmission(s, transmission) ==
    IF transmission.disconnectAfterSend
    THEN DisconnectFromHost(s)
    ELSE [s EXCEPT !.outputCalls = @ + 1]

\* One fragment of the active transmission.  mid() gives no more than what
\* remains, so that a fragment size beyond it is an incomplete write too.
WriteFragment(s, transmission, accepted) ==
    LET remaining == transmission.size - s.fragmentOffset
        listed == s.fragmentIndex < Len(transmission.fragmentSizes)
        count == IF listed THEN transmission.fragmentSizes[s.fragmentIndex + 1] ELSE remaining
        end == s.fragmentOffset + (IF count > remaining THEN remaining ELSE count)
        piece == [of |-> transmission, from |-> s.fragmentOffset, to |-> end]
        indexed == IF listed THEN [s EXCEPT !.fragmentIndex = @ + 1] ELSE s
        written == IF accepted THEN Write(indexed, <<piece>>) ELSE indexed
        advanced == [written EXCEPT !.fragmentOffset = end]
    IN  CASE ~accepted \/ count > remaining -> DisconnectFromHost(written)
          [] accepted /\ count < remaining -> [advanced EXCEPT !.fragmentTimer = TRUE]
          [] accepted /\ count = remaining ->
               FinishTransmission(
                   [advanced EXCEPT !.activeTransmission = <<>>, !.writing = FALSE],
                   transmission)

WriteNextFragment(s, accepted) ==
    IF s.activeTransmission = <<>> \/ ~s.client
    THEN [s EXCEPT !.activeTransmission = <<>>, !.writing = FALSE]
    ELSE WriteFragment(s, Head(s.activeTransmission), accepted)

\* Seeded fault: the transmission being written does not hold back others.
WriteTransmissionUnguarded(s, accepted) ==
    LET begun == [s EXCEPT !.outputQueue = Tail(@), !.fragmentOffset = 0, !.fragmentIndex = 0,
                           !.activeTransmission = <<Head(s.outputQueue)>>]
    IN  WriteNextFragment(begun, accepted)

\* writeTransmission of the dequeued head.
WriteTransmission(s, accepted) ==
    WriteNextFragment(
        [s EXCEPT !.outputQueue = Tail(@), !.writing = TRUE,
                  !.fragmentOffset = 0, !.fragmentIndex = 0,
                  !.activeTransmission = <<Head(s.outputQueue)>>],
        accepted)

WriteCoalesced(s, count, accepted) ==
    LET batch == SubSeq(s.outputQueue, 1, count)
        pieces == [i \in 1..Len(batch) |-> [of |-> batch[i], from |-> 0, to |-> batch[i].size]]
        taken == [s EXCEPT !.writing = TRUE,
                           !.outputQueue = SubSeq(@, count + 1, Len(@))]
        written == [Write(taken, pieces) EXCEPT !.writing = FALSE]
    IN  CASE ~accepted -> DisconnectFromHost(taken)
          [] accepted /\ (\E i \in 1..Len(batch) : batch[i].disconnectAfterSend) ->
               DisconnectFromHost(written)
          [] OTHER -> [written EXCEPT !.outputCalls = @ + 1]

\* Seeded fault: transmissions that do not ask for coalescing are taken along.
CompatibleCountOfAny(queue) ==
    LET limit == Head(queue).coalesceCount
    IN  IF Len(queue) < limit THEN Len(queue) ELSE limit

\* How many transmissions at the head of the queue share the leader's write.
CompatibleCount(queue) ==
    LET leader == Head(queue)
        stops == {i \in 2..Len(queue) :
                    \/ i > leader.coalesceCount
                    \/ queue[i].fragmentSizes # <<>>
                    \/ queue[i].coalesceCount # leader.coalesceCount}
    IN  IF stops = {} THEN Len(queue) ELSE Min(stops) - 1

\* Seeded fault: the window is never closed.
OpenWindowUntimed(s) == s

OpenWindow(s) == [s EXCEPT !.coalesceTimer = TRUE]

\* Seeded fault: the next batch finds its window expired already.
CloseWindowKeepingFlag(s) == [s EXCEPT !.coalesceTimer = FALSE]

CloseWindow(s) == [s EXCEPT !.coalesceTimer = FALSE, !.coalesceWindowExpired = FALSE]

ProcessOutputQueue(s, accepted) ==
    IF s.writing \/ ~s.client \/ s.outputQueue = <<>> THEN s
    ELSE LET leader == Head(s.outputQueue)
             coalesces == leader.coalesceCount > 1 /\ leader.fragmentSizes = <<>>
             count == CompatibleCount(s.outputQueue)
             waits == /\ count < leader.coalesceCount
                      /\ count = Len(s.outputQueue)
                      /\ ~s.coalesceWindowExpired
         IN  CASE coalesces /\ waits -> OpenWindow(s)
               [] coalesces /\ ~waits -> WriteCoalesced(CloseWindow(s), count, accepted)
               [] ~coalesces -> WriteTransmission(CloseWindow(s), accepted)

-----------------------------------------------------------------------------
(* Queueing transmissions.  QueueResponse's boolean result is Queued. *)

ActiveWriteCount(s) == IF s.writing THEN 1 ELSE 0

\* Seeded fault: the transmission being written is not counted.
QueueFullWithoutActive(s) == Len(s.outputQueue) >= OutputQueueCapacity

OutputQueueFull(s) == Len(s.outputQueue) + ActiveWriteCount(s) >= OutputQueueCapacity

\* What DemoBinaryProtocolCodec refuses to encode, and to adjust; only a
\* codec of this class can falsify frames.
PayloadTooLong(payload) == payload > Options.maxPayloadLength

LengthNotUInt16(length) == length \notin 0..MaxUInt16

Falsifies(faults) == faults.invalidLengthAdjustment # 0 \/ faults.corruptChecksum

EncodingFails(payload, faults) ==
    \/ PayloadTooLong(payload)
    \/ Falsifies(faults) /\ ~CodecMutates
    \/ /\ faults.invalidLengthAdjustment # 0
       /\ LengthNotUInt16(payload + faults.invalidLengthAdjustment)

Queued(s, response, faults) ==
    s.client /\ ~EncodingFails(response.payload, faults) /\ ~OutputQueueFull(s)

\* Seeded fault: a transmission beyond the limit is dropped silently.
EnqueueOrDrop(s, transmission, accepted) ==
    IF OutputQueueFull(s) THEN s
    ELSE ProcessOutputQueue([s EXCEPT !.outputQueue = Append(@, transmission)], accepted)

EnqueueTransmission(s, transmission, accepted) ==
    IF OutputQueueFull(s)
    THEN DisconnectFromHost(s)
    ELSE ProcessOutputQueue([s EXCEPT !.outputQueue = Append(@, transmission)], accepted)

TransmissionOf(response, faults) ==
    [session |-> response.session, id |-> response.id, telemetry |-> response.telemetry,
     size |-> OutboundSize(response.payload, faults),
     fragmentSizes |-> faults.fragmentSizes, coalesceCount |-> faults.coalesceCount,
     disconnectAfterSend |-> faults.disconnectAfterSend]

\* Seeded fault: requests go on being processed.
ScheduleTimerOnly(s) == [s EXCEPT !.telemetryTimer = FALSE]

ScheduleDisconnect(s) == [s EXCEPT !.disconnectScheduled = TRUE, !.telemetryTimer = FALSE]

QueueResponse(s, response, faults, accepted) ==
    LET scheduled == IF faults.disconnectAfterSend THEN ScheduleDisconnect(s) ELSE s
    IN  CASE ~s.client -> s
          [] s.client /\ EncodingFails(response.payload, faults) -> DisconnectFromHost(s)
          [] OTHER -> EnqueueTransmission(scheduled, TransmissionOf(response, faults), accepted)

-----------------------------------------------------------------------------
(* Requests. *)

\* Seeded fault: nothing is posted for the requests that wait.
FinishWithoutRequestCall(s) == [s EXCEPT !.processingRequest = FALSE]

FinishRequest(s) == [s EXCEPT !.processingRequest = FALSE, !.requestCalls = @ + 1]

\* A request that ends the session: no further request is kicked off.
AbortRequest(s) == DisconnectFromHost([s EXCEPT !.processingRequest = FALSE])

\* The end of executePlan, and of the delayed lambda.
AnswerRequest(s, response, faults, accepted) ==
    LET queued == QueueResponse(s, response, faults, accepted)
    IN  IF Queued(s, response, faults)
        THEN FinishRequest(queued)
        ELSE [queued EXCEPT !.processingRequest = FALSE]

\* Seeded fault: the next request need not wait for the delayed answer.
DelayWithoutHolding(s, response, faults) ==
    [s EXCEPT !.processingRequest = FALSE,
              !.delayed = @ \cup {[generation |-> s.sessionGeneration,
                                   response |-> response, faults |-> faults]}]

DelayResponse(s, response, faults) ==
    [s EXCEPT !.delayed = @ \cup {[generation |-> s.sessionGeneration,
                                   response |-> response, faults |-> faults]}]

\* The Respond behaviour, once its faults are known to be valid.
ExecuteResponse(s, response, faults, io) ==
    LET drawn == IF DrawsForDrop(faults) THEN [s EXCEPT !.randomDraws = @ + 1] ELSE s
    IN  CASE ShouldDrop(faults, io.below) -> FinishRequest(drawn)
          [] ~ShouldDrop(faults, io.below) /\ faults.delayMs > 0 ->
               DelayResponse(drawn, response, faults)
          [] OTHER -> AnswerRequest(drawn, response, faults, io.accepted)

ExecutePlan(s, request, plan, io) ==
    LET response == [session |-> request.session, id |-> request.id,
                     telemetry |-> FALSE, payload |-> plan.payload]
    IN  CASE plan.behavior \in {"NoResponse", "DropResponse"} -> FinishRequest(s)
          [] plan.behavior = "Disconnect" ->
               DisconnectFromHost(ScheduleDisconnect([s EXCEPT !.processingRequest = FALSE]))
          [] plan.behavior = "Throws" -> AbortRequest(s)
          [] plan.behavior = "Respond" ->
               IF plan.hasResponse /\ ValidateFaults(plan.faults, plan.payload)
               THEN ExecuteResponse(s, response, plan.faults, io)
               ELSE AbortRequest(s)

\* Seeded fault: a scheduled disconnect does not stop the requests.
CanProcessWhenScheduled(s) == ~s.processingRequest /\ s.client /\ s.requestQueue # <<>>

CanProcess(s) ==
    ~s.processingRequest /\ ~s.disconnectScheduled /\ s.client /\ s.requestQueue # <<>>

ProcessNextRequest(s, io) ==
    IF CanProcess(s)
    THEN ExecutePlan([s EXCEPT !.requestQueue = Tail(@), !.processingRequest = TRUE],
                     Head(s.requestQueue), PlanFor(Head(s.requestQueue).message), io)
    ELSE s

-----------------------------------------------------------------------------
(* Sessions. *)

\* Seeded fault: every session is seeded alike.
SeedAlike(s) == [s EXCEPT !.randomSeed = RandomSeed, !.randomDraws = 0]

Seed(s) == [s EXCEPT !.randomSeed = RandomSeed + s.sessionOrdinal, !.randomDraws = 0]

AttachClient(s) ==
    [Seed(s) EXCEPT
              !.sessionGeneration = @ + 1,
              !.sessionOrdinal = @ + 1,
              !.client = TRUE,
              !.disconnectScheduled = FALSE,
              !.telemetrySequence = InitialSequence,
              !.telemetryTimer = TelemetryEnabled]

\* setMaxPendingConnections(1): the loop finds at most one connection.  It is
\* refused while a client is attached, or when no codec can be made for it.
AcceptPendingConnections(s, made) ==
    LET taken == [s EXCEPT !.pending = FALSE]
    IN  IF s.pending /\ ~s.client /\ made THEN AttachClient(taken) ELSE taken

-----------------------------------------------------------------------------
(* The callbacks, and the calls of the embedding program. *)

Start ==
    /\ ~srv.listening
    /\ \E ok \in MayFail("listen") :
         srv' = [srv EXCEPT !.stopping = FALSE, !.listening = ok]

\* abort() is called after the disconnected() signal was cut off, close()
\* drops the connections the listener holds.
Stop ==
    /\ srv.listening \/ srv.client
    /\ srv.sessionGeneration < MaxGeneration
    /\ srv' = ReleaseClient([srv EXCEPT !.stopping = TRUE, !.listening = FALSE,
                                        !.pending = FALSE])

\* A client connects to the listener.
Connect ==
    /\ srv.listening /\ ~srv.pending
    /\ srv.sessionOrdinal < MaxSessions
    /\ srv' = [srv EXCEPT !.pending = TRUE]

\* QTcpServer::newConnection.
NewConnection ==
    /\ srv.pending
    /\ \E made \in MayFail("codecFactory") : srv' = AcceptPendingConnections(srv, made)

\* The call posted when a session ended while a connection was pending.
AcceptCall ==
    /\ srv.acceptCalls > 0
    /\ \E made \in MayFail("codecFactory") :
         srv' = AcceptPendingConnections([srv EXCEPT !.acceptCalls = @ - 1], made)

Arrivals(s, messages) ==
    [i \in 1..Len(messages) |->
        [session |-> s.sessionOrdinal, id |-> Len(s.received) + i, message |-> messages[i]]]

\* readyRead: the parser completes some requests, none if the data is noise
\* or the beginning of a frame.  A closing socket reads no more.
ReadClientData ==
    /\ srv.client /\ ~srv.closing
    /\ \E n \in 0..MaxBatch : \E messages \in [1..n -> Messages], io \in Outcomes :
         /\ Len(srv.received) + n <= MaxRequests
         /\ srv' = ProcessNextRequest(
                       [srv EXCEPT !.requestQueue = @ \o Arrivals(srv, messages),
                                   !.received = @ \o messages], io)

ParserFails ==
    /\ srv.client /\ ~srv.closing
    /\ "parser" \in Failures
    /\ srv' = DisconnectFromHost(srv)

\* The peer closes the connection, or it breaks.
PeerDisconnects ==
    /\ srv.client
    /\ srv' = HandleClientDisconnected(srv)

\* The socket's buffer is sent; a socket that was closing is then closed.
Flush ==
    /\ srv.unsent
    /\ LET flushed == [srv EXCEPT !.unsent = FALSE]
       IN  srv' = IF srv.closing THEN HandleClientDisconnected(flushed) ELSE flushed

RequestCall ==
    /\ srv.requestCalls > 0
    /\ \E io \in Outcomes :
         srv' = ProcessNextRequest([srv EXCEPT !.requestCalls = @ - 1], io)

OutputCall ==
    /\ srv.outputCalls > 0
    /\ \E io \in Outcomes :
         srv' = ProcessOutputQueue([srv EXCEPT !.outputCalls = @ - 1], io.accepted)

CoalesceTimeout ==
    /\ srv.coalesceTimer
    /\ \E io \in Outcomes :
         srv' = ProcessOutputQueue([srv EXCEPT !.coalesceTimer = FALSE,
                                               !.coalesceWindowExpired = TRUE], io.accepted)

FragmentTimeout ==
    /\ srv.fragmentTimer
    /\ \E io \in Outcomes :
         srv' = WriteNextFragment([srv EXCEPT !.fragmentTimer = FALSE], io.accepted)

\* What the session's writes carry, piece by piece.
WirePieces(s) == FlattenSeq(s.wire)

\* The transmissions a write begins: every one of a block, none if the write
\* continues one.
Begun(write) == IF write[1].from = 0 THEN [i \in DOMAIN write |-> write[i].of] ELSE <<>>

StartedTransmissions(s) == FlattenSeq([w \in DOMAIN s.wire |-> Begun(s.wire[w])])

\* The transmissions of the session in the order they were queued: those
\* that reached the wire, and those still in the queue.
Outgoing(s) == StartedTransmissions(s) \o s.outputQueue

TelemetryIn(frames) == {i \in DOMAIN frames : frames[i].telemetry}

\* Seeded fault: the 16 bit counter does not wrap.
NextSequenceUnwrapped(sequence) == sequence + 1

NextSequence(sequence) == (sequence + 1) % SequenceModulus

PublishTelemetry(s, made, accepted) ==
    LET frame == [session |-> s.sessionOrdinal, id |-> s.telemetrySequence,
                  telemetry |-> TRUE, payload |-> TelemetryPayload]
        queued == QueueResponse(s, frame, NoFaults, accepted)
    IN  CASE ~s.client \/ ~TelemetryEnabled \/ s.disconnectScheduled -> s
          [] s.client /\ TelemetryEnabled /\ ~s.disconnectScheduled /\ ~made ->
               DisconnectFromHost(s)
          [] OTHER ->
               IF Queued(s, frame, NoFaults)
               THEN [queued EXCEPT !.telemetrySequence = NextSequence(@)]
               ELSE queued

TelemetryTimeout ==
    /\ srv.telemetryTimer
    /\ Cardinality(TelemetryIn(Outgoing(srv))) < MaxTelemetry
    /\ \E made \in MayFail("frameFactory"), io \in Outcomes :
         srv' = PublishTelemetry(srv, made, io.accepted)

\* Seeded fault: the lambda does not check the generation it was made in.
RunDelayedUnchecked(s, capture, accepted) ==
    IF ~s.client THEN s ELSE AnswerRequest(s, capture.response, capture.faults, accepted)

\* The body of the lambda given to QTimer::singleShot(delayMs).
RunDelayed(s, capture, accepted) ==
    IF capture.generation # s.sessionGeneration \/ ~s.client
    THEN s
    ELSE AnswerRequest(s, capture.response, capture.faults, accepted)

DelayElapsed ==
    \E capture \in srv.delayed, io \in Outcomes :
        srv' = RunDelayed([srv EXCEPT !.delayed = @ \ {capture}], capture, io.accepted)

Next ==
    \/ Start
    \/ Stop
    \/ Connect
    \/ NewConnection
    \/ AcceptCall
    \/ ReadClientData
    \/ ParserFails
    \/ PeerDisconnects
    \/ Flush
    \/ RequestCall
    \/ OutputCall
    \/ CoalesceTimeout
    \/ FragmentTimeout
    \/ TelemetryTimeout
    \/ DelayElapsed

Spec == Init /\ [][Next]_vars

\* The event loop delivers what was posted and the timers that expired; the
\* network takes the bytes of the socket (the peer keeps reading).  Nothing
\* makes anyone start or stop the server, connect, send or disconnect.
\* Each conjunct is WF_vars(A), with ENABLED <<A>>_vars written as the guard of
\* A: a callback that runs always changes srv.
Fairness ==
    /\ []<>(~srv.pending) \/ []<><<NewConnection>>_vars
    /\ []<>(srv.acceptCalls = 0) \/ []<><<AcceptCall>>_vars
    /\ []<>(~srv.unsent) \/ []<><<Flush>>_vars
    /\ []<>(srv.requestCalls = 0) \/ []<><<RequestCall>>_vars
    /\ []<>(srv.outputCalls = 0) \/ []<><<OutputCall>>_vars
    /\ []<>(~srv.coalesceTimer) \/ []<><<CoalesceTimeout>>_vars
    /\ []<>(~srv.fragmentTimer) \/ []<><<FragmentTimeout>>_vars
    /\ []<>(srv.delayed = {}) \/ []<><<DelayElapsed>>_vars

FairSpec == Spec /\ Fairness

=============================================================================
