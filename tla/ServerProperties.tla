-------------------------- MODULE ServerProperties --------------------------
(***************************************************************************)
(* What makes DeviceSimulatorServer correct.                               *)
(***************************************************************************)
EXTENDS DeviceSimulatorServer

\* Every field of the server's record has its type.
TypeOK == srv \in Server

LiveDelayed(s) == {d \in s.delayed : d.generation = s.sessionGeneration}

IsActive(s) == s.activeTransmission # <<>>

\* Nothing of an earlier session reaches a client: what is queued, being
\* written, written or still delayed for the attached client was made for a
\* request, or a telemetry tick, of its own session, although delayed lambdas
\* and posted calls outlive the session that made them
\* (DeviceSimulatorServer.cpp:544, 417-438).
SessionIsolation ==
    srv.client =>
        /\ \A i \in DOMAIN srv.requestQueue :
             srv.requestQueue[i].session = srv.sessionOrdinal
        /\ \A i \in DOMAIN srv.outputQueue :
             srv.outputQueue[i].session = srv.sessionOrdinal
        /\ \A w \in DOMAIN srv.wire : \A i \in DOMAIN srv.wire[w] :
             srv.wire[w][i].of.session = srv.sessionOrdinal
        /\ \A d \in LiveDelayed(srv) : d.response.session = srv.sessionOrdinal

\* The session's output never exceeds its limit, counting the transmission
\* that is being written in fragments (DeviceSimulatorServer.cpp:629-638).
OutputQueueBounded == Len(srv.outputQueue) + ActiveWriteCount(srv) <= OutputQueueCapacity

\* No request is forgotten: while the connection is open, a request that waits
\* has something that will take it - a posted processNextRequest, or a request
\* in progress whose delayed answer is still to come - unless a disconnect is
\* scheduled (DeviceSimulatorServer.cpp:442, 475).
NoLostRequest ==
    srv.client /\ ~srv.closing =>
        /\ srv.processingRequest => LiveDelayed(srv) # {}
        /\ srv.requestQueue # <<>> =>
             srv.processingRequest \/ srv.disconnectScheduled \/ srv.requestCalls > 0

\* No output is forgotten: while the connection is open, a transmission that
\* waits has something that will write it, and a transmission begun has its
\* fragment timer running (DeviceSimulatorServer.cpp:267, 289, 332, 721).
NoLostOutput ==
    srv.client /\ ~srv.closing =>
        /\ srv.writing => srv.fragmentTimer /\ IsActive(srv)
        /\ srv.outputQueue # <<>> =>
             srv.writing \/ srv.coalesceTimer \/ srv.outputCalls > 0

\* Fragments of different frames never interleave: on the wire every frame is
\* begun at its first byte, continued where it stopped, and finished before
\* the next one begins (DeviceSimulatorServer.cpp:267, 305-345).
FramesContiguous ==
    LET pieces == WirePieces(srv)
    IN  \A i \in DOMAIN pieces :
            IF i = 1 \/ pieces[i - 1].to = pieces[i - 1].of.size
            THEN pieces[i].from = 0
            ELSE pieces[i].of = pieces[i - 1].of /\ pieces[i].from = pieces[i - 1].to

\* A write that carries several transmissions carries only whole frames that
\* asked for coalescing alike, and no more of them than they asked for
\* (DeviceSimulatorServer.cpp:272-282).
CoalescedWritesAgree ==
    \A w \in DOMAIN srv.wire :
        LET write == srv.wire[w]
        IN  Len(write) > 1 =>
              \A i \in DOMAIN write :
                  /\ write[i].from = 0 /\ write[i].to = write[i].of.size
                  /\ write[i].of.fragmentSizes = <<>>
                  /\ write[i].of.coalesceCount = write[1].of.coalesceCount
                  /\ Len(write) <= write[i].of.coalesceCount

\* Replies leave in the order of their requests, none twice, delayed ones
\* included (DeviceSimulatorServer.cpp:442, 448).
RepliesInOrder ==
    srv.client =>
        LET out == Outgoing(srv)
            replies == DOMAIN out \ TelemetryIn(out)
        IN  /\ \A i, j \in replies : i < j => out[i].id < out[j].id
            /\ \A i \in replies, d \in LiveDelayed(srv) : out[i].id < d.response.id
            /\ \A i \in replies, j \in DOMAIN srv.requestQueue :
                 out[i].id < srv.requestQueue[j].id

Consumed(s) == Len(s.received) - Len(s.requestQueue)

Answered(s, id) ==
    \/ \E i \in DOMAIN Outgoing(s) : ~Outgoing(s)[i].telemetry /\ Outgoing(s)[i].id = id
    \/ \E d \in LiveDelayed(s) : d.response.id = id

\* What the client was told to expect of a request, from its plan alone.
MustAnswer(plan) == plan.behavior = "Respond" /\ plan.faults.dropProbability = 0

MayAnswer(plan) == plan.behavior = "Respond" /\ plan.faults.dropProbability < 100

\* As long as the connection stays open, each request taken from the queue is
\* answered if its plan says so, and only then: neither a reply nor a silence
\* is handed to another request (DeviceSimulatorServer.cpp:478-561).
AnswersFollowPlans ==
    srv.client /\ ~srv.closing =>
        \A id \in 1..Consumed(srv) :
            LET plan == PlanFor(srv.received[id])
            IN  /\ MustAnswer(plan) => Answered(srv, id)
                /\ Answered(srv, id) => MayAnswer(plan)

\* README.md:64 and docs/architecture.md:20 promise that an unknown command is
\* answered with 0xFF and the payload 01 <command>.  The code closes the
\* connection instead when maxPayloadLength is below 2: encode() refuses the
\* default answer (DeviceSimulatorServer.cpp:593-599, 798-801).
UnknownCommandsAnswered ==
    srv.client =>
        \A id \in 1..Consumed(srv) :
            FindMatch(srv.received[id]) = 0 => Answered(srv, id)

\* A response that disconnects after it is sent is the last of its session:
\* nothing is queued, delayed or published behind it
\* (DeviceSimulatorServer.cpp:350, 442, 620-623).
DisconnectIsLast ==
    \A i \in DOMAIN Outgoing(srv) :
        Outgoing(srv)[i].disconnectAfterSend =>
            i = Len(Outgoing(srv)) /\ LiveDelayed(srv) = {} /\ ~srv.telemetryTimer

\* Telemetry frames of a session carry consecutive sequence numbers from the
\* initial one, wrapping at 2^16, and the next number continues them
\* (DeviceSimulatorServer.cpp:355-358, 398).
TelemetryConsecutive ==
    srv.client /\ ~srv.closing =>
        LET out == Outgoing(srv)
            ticks == TelemetryIn(out)
            Number(before) == (InitialSequence + Cardinality(before)) % SequenceModulus
        IN  /\ \A i \in ticks : out[i].id = Number({j \in ticks : j < i})
            /\ srv.telemetrySequence = Number(ticks)

ConsumedDraws(s) ==
    Cardinality({id \in 1..Consumed(s) :
        LET plan == PlanFor(s.received[id])
        IN  /\ plan.behavior = "Respond" /\ plan.hasResponse
            /\ ValidateFaults(plan.faults, plan.payload)
            /\ DrawsForDrop(plan.faults)})

\* Drops can be reproduced: the generator of a session is a function of the
\* configured seed and of how many clients were attached before, and of the
\* session's own requests with a probability - whatever earlier sessions, or
\* telemetry, did (DeviceSimulatorServer.cpp:391, 528, 732-741).
ReproducibleDrops ==
    srv.client =>
        /\ srv.randomSeed = RandomSeed + srv.sessionOrdinal - 1
        /\ srv.randomDraws = ConsumedDraws(srv)

\* The coalescing window that expired is used by the batch it was opened for
\* and never shortens the window of a later one
\* (DeviceSimulatorServer.cpp:91-94, 287-301).
CoalesceWindowFresh ==
    /\ ~srv.coalesceWindowExpired
    /\ srv.coalesceTimer =>
         /\ srv.outputQueue # <<>> /\ ~srv.writing
         /\ Head(srv.outputQueue).coalesceCount > Len(srv.outputQueue)

\* Without a client nothing of a session is left: no queued work, no running
\* timer, no flag that would bind the next session
\* (DeviceSimulatorServer.cpp:417-438).  telemetrySequence is not listed: a
\* telemetry frame whose write failed still counts it up after the release.
ReleasedClean ==
    ~srv.client =>
        /\ srv.requestQueue = <<>> /\ srv.outputQueue = <<>> /\ ~IsActive(srv)
        /\ ~srv.coalesceTimer /\ ~srv.fragmentTimer /\ ~srv.telemetryTimer
        /\ ~srv.processingRequest /\ ~srv.writing
        /\ ~srv.coalesceWindowExpired /\ ~srv.disconnectScheduled
        /\ LiveDelayed(srv) = {}

SameSession == srv.client /\ srv'.client /\ srv.sessionOrdinal = srv'.sessionOrdinal

\* Once a disconnect is scheduled, the session takes no request and queues no
\* response or telemetry any more; it only sends what it has
\* (DeviceSimulatorServer.cpp:350, 442, 500, 621).
NothingAfterScheduledDisconnect ==
    [][srv.disconnectScheduled /\ SameSession =>
          /\ srv'.disconnectScheduled
          /\ Consumed(srv') = Consumed(srv)
          /\ Len(Outgoing(srv')) <= Len(Outgoing(srv))]_vars

\* Every request is taken from the queue, or its session ends.
RequestsAreServed == srv.requestQueue # <<>> ~> srv.requestQueue = <<>>

\* Everything queued is written completely, or its session ends.
OutputIsSent ==
    (srv.outputQueue # <<>> \/ srv.writing) ~> (srv.outputQueue = <<>> /\ ~srv.writing)

\* A disconnect that was scheduled happens.
ScheduledDisconnectHappens == srv.disconnectScheduled ~> ~srv.client

=============================================================================
