------------------------ MODULE ServerRefinesService ------------------------
(***************************************************************************)
(* DeviceSimulatorServer implements ReplyService.  The session of the      *)
(* service ends as soon as the server decides to close the connection: a   *)
(* socket that is closing is flushed, but nothing is promised of it.       *)
(***************************************************************************)
EXTENDS ServerProperties

IsOpen == srv.client /\ ~srv.closing

FrameOf(t) == [telemetry |-> t.telemetry, id |-> t.id]

Line == [i \in DOMAIN Outgoing(srv) |-> FrameOf(Outgoing(srv)[i])]

\* What the plans promise for each message.
MustReplyMessages == {m \in Messages : MustAnswer(PlanFor(m))}
MayReplyMessages == {m \in Messages : MayAnswer(PlanFor(m))}
FarewellMessages == {m \in Messages : PlanFor(m).faults.disconnectAfterSend}

Abstract ==
    INSTANCE ReplyService WITH
        Requests <- Messages,
        MustReply <- MustReplyMessages,
        MayReply <- MayReplyMessages,
        Farewells <- FarewellMessages,
        FirstNumber <- InitialSequence,
        Modulus <- SequenceModulus,
        open <- IsOpen,
        asked <- IF IsOpen THEN srv.received ELSE <<>>,
        taken <- IF IsOpen THEN Consumed(srv) ELSE 0,
        held <- IsOpen /\ srv.processingRequest,
        line <- IF IsOpen THEN Line ELSE <<>>,
        sent <- IF IsOpen THEN Len(StartedTransmissions(srv)) ELSE 0

\* Every behaviour of the server is a behaviour of the service: the order of
\* requests, replies and telemetry that the client sees does not depend on
\* delays, fragments, coalescing, the limits of the queue or the order of the
\* event loop's callbacks (DeviceSimulatorServer.cpp:265-345, 440-642).
ServiceImplemented == Abstract!Service
=============================================================================
