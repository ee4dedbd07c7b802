-------------------------- MODULE ConfiguredServer --------------------------
(***************************************************************************)
(* DeviceSimulatorServer as the program runs it: with the options, rules   *)
(* and telemetry that a JSON document is turned into.  What a client       *)
(* observes is compared with what the document says, across the loader,    *)
(* the factory, the rules, the queues and the timers.                      *)
(***************************************************************************)
EXTENDS ServerRefinesService, Configuration

CONSTANT Document       \* the configuration file

Configured == FromJson(Document)

Simulated == ServerOf(Configured)

SimulatedOptions == Simulated.options

\* The rules of a document have no further predicate.
SimulatedRules ==
    [n \in DOMAIN Simulated.rules |->
        [requestCommand |-> Simulated.rules[n].requestCommand,
         additionalMatch |-> Messages, plan |-> Simulated.rules[n].plan]]

SimulatedSeed == Simulated.randomSeed

SimulatesTelemetry == Simulated.telemetry.enabled

SimulatedTelemetry == Simulated.telemetry.payload

ASSUME DocumentAssumption == Loads(Document) /\ Validate(Configured) = {}

\* The factory makes codecs of one class, whose frames it can falsify, and
\* telemetry that starts at the default sequence number.
ASSUME ServerAssumptions ==
    /\ Options = SimulatedOptions /\ RuleTable = SimulatedRules
    /\ RandomSeed = SimulatedSeed
    /\ TelemetryEnabled = SimulatesTelemetry /\ TelemetryPayload = SimulatedTelemetry
    /\ CodecMutates /\ InitialSequence = 1 /\ Messages \subseteq [command : Byte]

-----------------------------------------------------------------------------
(* What the document says, read without the help of ServerOf. *)

\* The rules for a message: at most one, as the document is valid.
RulesFor(message) ==
    {n \in DOMAIN Configured.rules :
        HexValue[Configured.rules[n].requestCommand[1]] = message.command}

SomeRule(message, Good(_)) == \E n \in RulesFor(message) : Good(Configured.rules[n])

Responds(rule) == rule.behavior = <<"Respond">>

\* docs/fault-injection.md:17 and README.md:64: a rule that responds, or no
\* rule at all, gives an answer; a dropped one is the exception.
DocumentedAnswers ==
    {m \in Messages :
        \/ RulesFor(m) = {}
        \/ SomeRule(m, LAMBDA rule : Responds(rule) /\ rule.faults.dropProbability = 0)}

DocumentedChances ==
    {m \in Messages :
        \/ RulesFor(m) = {}
        \/ SomeRule(m, LAMBDA rule : Responds(rule) /\ rule.faults.dropProbability < 100)}

DocumentedFarewells ==
    {m \in Messages : SomeRule(m, LAMBDA rule : rule.faults.disconnectAfterSend)}

Documented ==
    INSTANCE ReplyService WITH
        Requests <- Messages,
        MustReply <- DocumentedAnswers,
        MayReply <- DocumentedChances,
        Farewells <- DocumentedFarewells,
        FirstNumber <- InitialSequence,
        Modulus <- SequenceModulus,
        open <- IsOpen,
        asked <- IF IsOpen THEN srv.received ELSE <<>>,
        taken <- IF IsOpen THEN Consumed(srv) ELSE 0,
        held <- IsOpen /\ srv.processingRequest,
        line <- IF IsOpen THEN Line ELSE <<>>,
        sent <- IF IsOpen THEN Len(StartedTransmissions(srv)) ELSE 0

\* A client of the configured simulator gets the service that the document
\* describes: answers to the commands it answers, silence for the others, and
\* nothing after an answer that disconnects (Configuration.cpp:669-766,
\* Rules.h:66-147, DeviceSimulatorServer.cpp:440-642).
DocumentHonoured == Documented!Service

\* The sizes of the writes that the reply to message takes, by the document.
DocumentedWrites(message) ==
    IF RulesFor(message) = {} THEN <<FixedFrameOverhead + 2>>
    ELSE LET rule == Configured.rules[CHOOSE n \in RulesFor(message) : TRUE]
             sizes == rule.faults.fragmentSizes
             rest == FixedFrameOverhead + Len(rule.response.payloadHex)
                         + Len(rule.faults.noisePrefixHex) - Total(sizes)
         IN  IF rest > 0 THEN Append(sizes, rest) ELSE sizes

\* Which of the first i pieces carry the reply to request id.
Carriers(pieces, i, id) == {j \in 1..i : ~pieces[j].of.telemetry /\ pieces[j].of.id = id}

IsNthWrite(piece, n, writes) == n <= Len(writes) /\ piece.to - piece.from = writes[n]

WrittenAsDocumented(pieces, i) ==
    pieces[i].of.telemetry
        \/ IsNthWrite(pieces[i], Cardinality(Carriers(pieces, i, pieces[i].of.id)),
                      DocumentedWrites(srv.received[pieces[i].of.id]))

\* What has been written of a reply is what the document lets one expect: the
\* frame, after its noise, cut at the fragment sizes, with what they leave over
\* as a last write, though telemetry and other replies come in between: the
\* n-th piece that carries a reply has the n-th of these sizes
\* (docs/configuration.md:45, Configuration.cpp:700-744,
\* DeviceSimulatorServer.cpp:305-345, 575-642).
WritesAsDocumented ==
    srv.client =>
        \A i \in DOMAIN WirePieces(srv) : WrittenAsDocumented(WirePieces(srv), i)
=============================================================================
