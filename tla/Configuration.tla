---------------------------- MODULE Configuration ----------------------------
(***************************************************************************)
(* From a JSON document to a server (Configuration.cpp): reading the       *)
(* document into a configuration, validating it, and building the server   *)
(* it describes.  All three are pure.                                      *)
(*                                                                         *)
(* A text is the sequence of its words, which are compared without regard  *)
(* to case; texts that differ in case or blanks only are the same text.    *)
(* A number is an integer and hundredths to add to it.  An object is the   *)
(* sequence of its members in the order QJsonObject iterates over them;    *)
(* spellings of a key that differ in case are different members of it.     *)
(*                                                                         *)
(* A definition whose comment begins "Seeded fault" is a wrong variant of  *)
(* the one after it; PROJECT.json names the property that rejects it.      *)
(***************************************************************************)
EXTENDS Faults

CONSTANTS
    HexValue,       \* the words that are hexadecimal bytes, and their values
    IpAddresses     \* the texts that QHostAddress reads as an address

ASSUME HexAssumption == HexValue \in [DOMAIN HexValue -> Byte]

Text(words) == [kind |-> "string", words |-> words]
Number(integer, hundredths) ==
    [kind |-> "number", integer |-> integer, hundredths |-> hundredths]
Truth(value) == [kind |-> "bool", truth |-> value]
List(items) == [kind |-> "array", items |-> items]
Object(members) == [kind |-> "object", members |-> members]
Member(key, value) == [key |-> key, value |-> value]
Null == [kind |-> "null"]
Undefined == [kind |-> "undefined"]

MaxInt32 == 2147483647
Int32 == (-MaxInt32 - 1)..MaxInt32

-----------------------------------------------------------------------------
(* Reading an object's properties.  The type of a property is the name of  *)
(* the function that reads it.                                             *)

\* The value of the first member whose key matches.
FindValue(object, name) ==
    LET found == SelectInSeq(object.members, LAMBDA m : m.key = name)
    IN  IF found = 0 THEN Undefined ELSE object.members[found].value

RejectUnknown(object, allowed) ==
    \A i \in DOMAIN object.members : object.members[i].key \in allowed

IsInt(value) == value.kind = "number" /\ value.hundredths = 0 /\ value.integer \in Int32

HasType(value, type) ==
    CASE type = "readString"   -> value.kind = "string"
      [] type = "readBool"     -> value.kind = "bool"
      [] type = "readInt"      -> IsInt(value)
      [] type = "readDouble"   -> value.kind = "number"
      [] type = "readIntArray" -> /\ value.kind = "array"
                                  /\ \A i \in DOMAIN value.items : IsInt(value.items[i])

\* A double is kept in hundredths.
ValueRead(value, type) ==
    CASE type = "readString"   -> value.words
      [] type = "readBool"     -> value.truth
      [] type = "readInt"      -> value.integer
      [] type = "readDouble"   -> 100 * value.integer + value.hundredths
      [] type = "readIntArray" -> [i \in DOMAIN value.items |-> value.items[i].integer]

TypesMatch(object, types) ==
    \A name \in DOMAIN types :
        LET value == FindValue(object, name)
        IN  value = Undefined \/ HasType(value, types[name])

Readable(object, types) == RejectUnknown(object, DOMAIN types) /\ TypesMatch(object, types)

\* What is not given keeps its default.
Read(object, types, defaults) ==
    [name \in DOMAIN types |->
        LET value == FindValue(object, name)
        IN  IF value = Undefined THEN defaults[name] ELSE ValueRead(value, types[name])]

Section(object, name) ==
    LET value == FindValue(object, name)
    IN  IF value = Undefined THEN Object(<<>>) ELSE value

SectionReadable(object, name, types) ==
    Section(object, name).kind = "object" /\ Readable(Section(object, name), types)

-----------------------------------------------------------------------------
(* The properties of each section and their defaults. *)

ServerTypes == [host |-> "readString", port |-> "readInt"]
ServerDefaults == [host |-> <<"127.0.0.1">>, port |-> 9000]

ProtocolTypes == [name |-> "readString", version |-> "readInt"]
ProtocolDefaults == [name |-> <<"DemoBinaryProtocol">>, version |-> 1]

LimitsDefaults ==
    [maxPayloadLength |-> 4096, maxBufferedBytes |-> 8192, maxDelayMs |-> 30000,
     maxFragmentCount |-> 64, maxNoiseLength |-> 256, maxCoalesceCount |-> 64]
LimitsTypes == [name \in DOMAIN LimitsDefaults |-> "readInt"]

SimulationTypes == [randomSeed |-> "readInt"]
SimulationDefaults == [randomSeed |-> 20260804]

ResponseTypes == [command |-> "readString", payloadHex |-> "readString"]
ResponseDefaults == [command |-> <<>>, payloadHex |-> <<>>]

FaultTypes ==
    [delayMs |-> "readInt", dropProbability |-> "readDouble", corruptChecksum |-> "readBool",
     invalidLengthAdjustment |-> "readInt", noisePrefixHex |-> "readString",
     fragmentSizes |-> "readIntArray", fragmentDelayMs |-> "readInt",
     coalesceCount |-> "readInt", coalesceWindowMs |-> "readInt",
     disconnectAfterSend |-> "readBool"]
FaultDefaults ==
    [delayMs |-> 0, dropProbability |-> 0, corruptChecksum |-> FALSE,
     invalidLengthAdjustment |-> 0, noisePrefixHex |-> <<>>, fragmentSizes |-> <<>>,
     fragmentDelayMs |-> 0, coalesceCount |-> 1, coalesceWindowMs |-> 50,
     disconnectAfterSend |-> FALSE]

RuleTypes == [requestCommand |-> "readString", behavior |-> "readString"]
RuleDefaults == [requestCommand |-> <<>>, behavior |-> <<"Respond">>]

TelemetryTypes ==
    [enabled |-> "readBool", intervalMs |-> "readInt", command |-> "readString",
     payloadHex |-> "readString"]
TelemetryDefaults ==
    [enabled |-> FALSE, intervalMs |-> 1000, command |-> <<"0x90">>, payloadHex |-> <<>>]

LoggingTypes == [minimumLevel |-> "readString"]
LoggingDefaults == [minimumLevel |-> <<"Information">>]

-----------------------------------------------------------------------------
(* ConfigurationLoader::fromJson. *)

\* Seeded fault: unknown properties of a rule are not refused.
RuleReadableLoosely(rule) ==
    /\ rule.kind = "object"
    /\ TypesMatch(rule, RuleTypes)
    /\ SectionReadable(rule, "response", ResponseTypes)
    /\ SectionReadable(rule, "faults", FaultTypes)

RuleReadable(rule) ==
    /\ rule.kind = "object"
    /\ RejectUnknown(rule, {"requestCommand", "behavior", "response", "faults"})
    /\ TypesMatch(rule, RuleTypes)
    /\ SectionReadable(rule, "response", ResponseTypes)
    /\ SectionReadable(rule, "faults", FaultTypes)

ReadRule(rule) ==
    LET texts == Read(rule, RuleTypes, RuleDefaults)
    IN  [requestCommand |-> texts.requestCommand, behavior |-> texts.behavior,
         hasResponse |-> FindValue(rule, "response") # Undefined,
         response |-> Read(Section(rule, "response"), ResponseTypes, ResponseDefaults),
         faults |-> Read(Section(rule, "faults"), FaultTypes, FaultDefaults)]

RulesOf(root) ==
    LET rules == FindValue(root, "rules") IN IF rules = Undefined THEN List(<<>>) ELSE rules

\* The document is read; text that is not JSON is a document of no kind of value.
Loads(document) ==
    /\ document.kind = "object"
    /\ RejectUnknown(document, {"server", "protocol", "limits", "simulation", "rules",
                                "telemetry", "logging"})
    /\ SectionReadable(document, "server", ServerTypes)
    /\ SectionReadable(document, "protocol", ProtocolTypes)
    /\ SectionReadable(document, "limits", LimitsTypes)
    /\ SectionReadable(document, "simulation", SimulationTypes)
    /\ RulesOf(document).kind = "array"
    /\ \A i \in DOMAIN RulesOf(document).items : RuleReadable(RulesOf(document).items[i])
    /\ SectionReadable(document, "telemetry", TelemetryTypes)
    /\ SectionReadable(document, "logging", LoggingTypes)

FromJson(document) ==
    LET Of(name, types, defaults) == Read(Section(document, name), types, defaults)
        rules == RulesOf(document).items
    IN  [server |-> Of("server", ServerTypes, ServerDefaults),
         protocol |-> Of("protocol", ProtocolTypes, ProtocolDefaults),
         limits |-> Of("limits", LimitsTypes, LimitsDefaults),
         simulation |-> Of("simulation", SimulationTypes, SimulationDefaults),
         rules |-> [i \in DOMAIN rules |-> ReadRule(rules[i])],
         telemetry |-> Of("telemetry", TelemetryTypes, TelemetryDefaults),
         logging |-> Of("logging", LoggingTypes, LoggingDefaults)]

-----------------------------------------------------------------------------
(* ConfigurationValues: one byte, and bytes, in hexadecimal. *)

ParsesAsHexByte(text) == Len(text) = 1 /\ text[1] \in DOMAIN HexValue

\* 0 where the text does not parse.
HexByte(text) == IF ParsesAsHexByte(text) THEN HexValue[text[1]] ELSE 0

ParsesAsHexBytes(text) == \A i \in DOMAIN text : text[i] \in DOMAIN HexValue

\* How many bytes the text stands for: none where it does not parse.
HexLength(text) == IF ParsesAsHexBytes(text) THEN Len(text) ELSE 0

-----------------------------------------------------------------------------
(* ConfigurationValidator: the paths at which it reports an error. *)

\* Bounds the validator has of its own.
ConfigurableDelayMs == 300000
ConfigurableNoiseLength == 65536
ConfigurableIntervalMs == 86400000

Behaviors == {<<"Respond">>, <<"NoResponse">>, <<"DropResponse">>, <<"Disconnect">>}

LogLevels == {<<"Trace">>, <<"Debug">>, <<"Information">>, <<"Warning">>, <<"Error">>, <<"None">>}

Check(condition, path) == IF condition THEN {} ELSE {path}

\* Seeded fault: the overhead of a frame is forgotten.
LimitErrorsWithoutOverhead(limits) ==
    UNION {Check(limits.maxPayloadLength \in 0..MaxUInt16, "maxPayloadLength"),
           Check(limits.maxBufferedBytes \in limits.maxPayloadLength..(1024 * 1024),
                 "maxBufferedBytes"),
           Check(limits.maxDelayMs \in 0..ConfigurableDelayMs, "maxDelayMs"),
           Check(limits.maxFragmentCount \in 1..256, "maxFragmentCount"),
           Check(limits.maxNoiseLength \in 0..ConfigurableNoiseLength, "maxNoiseLength"),
           Check(limits.maxCoalesceCount \in 1..64, "maxCoalesceCount")}

LimitErrors(limits) ==
    UNION {Check(limits.maxPayloadLength \in 0..MaxUInt16, "maxPayloadLength"),
           Check(limits.maxBufferedBytes
                     \in (limits.maxPayloadLength + FixedFrameOverhead)..(1024 * 1024),
                 "maxBufferedBytes"),
           Check(limits.maxDelayMs \in 0..ConfigurableDelayMs, "maxDelayMs"),
           Check(limits.maxFragmentCount \in 1..256, "maxFragmentCount"),
           Check(limits.maxNoiseLength \in 0..ConfigurableNoiseLength, "maxNoiseLength"),
           Check(limits.maxCoalesceCount \in 1..64, "maxCoalesceCount")}

\* Seeded fault: the spellings are compared.
DuplicateText(rules, n) ==
    \E i \in 1..(n - 1) : rules[i].requestCommand = rules[n].requestCommand

\* Another rule before rule n has its command.
Duplicate(rules, n) ==
    \E i \in 1..(n - 1) : /\ ParsesAsHexByte(rules[i].requestCommand)
                         /\ HexByte(rules[i].requestCommand) = HexByte(rules[n].requestCommand)

CommandErrors(rules, n) ==
    Check(ParsesAsHexByte(rules[n].requestCommand) /\ ~Duplicate(rules, n), "requestCommand")

ResponseErrors(response, limits) ==
    Check(ParsesAsHexByte(response.command), "response.command")
        \cup Check(ParsesAsHexBytes(response.payloadHex)
                       /\ Len(response.payloadHex) <= limits.maxPayloadLength,
                   "response.payloadHex")

\* What is checked of the faults whatever the rule responds.
FaultErrors(f, limits) ==
    LET fragments == f.fragmentSizes # <<>>
    IN  UNION {
            Check(f.delayMs \in 0..limits.maxDelayMs, "delayMs"),
            Check(f.dropProbability \in 0..100, "dropProbability"),
            Check(ParsesAsHexBytes(f.noisePrefixHex)
                      /\ Len(f.noisePrefixHex) <= limits.maxNoiseLength, "noisePrefixHex"),
            Check(/\ Len(f.fragmentSizes) <= limits.maxFragmentCount
                  /\ \A i \in DOMAIN f.fragmentSizes : f.fragmentSizes[i] > 0, "fragmentSizes"),
            Check(fragments => f.fragmentDelayMs \in 0..limits.maxDelayMs, "fragmentDelayMs"),
            Check(f.coalesceCount \in 1..limits.maxCoalesceCount, "coalesceCount"),
            Check(f.coalesceCount > 1 => f.coalesceWindowMs \in 0..limits.maxDelayMs,
                  "coalesceWindowMs"),
            Check(~(fragments /\ f.coalesceCount > 1), "faults")}

\* Seeded fault: the payload is not counted in the adjusted length.
OutgoingErrorsOfHeader(f, payload) ==
    Check(f.invalidLengthAdjustment \in 0..MaxUInt16, "invalidLengthAdjustment")
        \cup Check(Total(f.fragmentSizes)
                       <= FixedFrameOverhead + payload + HexLength(f.noisePrefixHex),
                   "fragmentSizes")

\* What is checked of the faults of a response of payload bytes.
OutgoingErrors(f, payload) ==
    Check(payload + f.invalidLengthAdjustment \in 0..MaxUInt16, "invalidLengthAdjustment")
        \cup Check(Total(f.fragmentSizes)
                       <= FixedFrameOverhead + payload + HexLength(f.noisePrefixHex),
                   "fragmentSizes")

RespondErrors(rule, limits) ==
    IF ~rule.hasResponse THEN {"response"}
    ELSE ResponseErrors(rule.response, limits)
             \cup (IF ParsesAsHexBytes(rule.response.payloadHex)
                   THEN OutgoingErrors(rule.faults, Len(rule.response.payloadHex)) ELSE {})

\* A rule whose behavior is unknown is not looked at further.
RuleErrors(rules, n, limits) ==
    LET rule == rules[n]
    IN  CommandErrors(rules, n) \cup
            IF rule.behavior \notin Behaviors THEN {"behavior"}
            ELSE FaultErrors(rule.faults, limits) \cup
                     IF rule.behavior = <<"Respond">> THEN RespondErrors(rule, limits)
                     ELSE Check(~rule.faults.disconnectAfterSend, "disconnectAfterSend")

TelemetryErrors(telemetry, limits) ==
    IF ~telemetry.enabled THEN {}
    ELSE UNION {Check(telemetry.intervalMs \in 50..ConfigurableIntervalMs, "intervalMs"),
                Check(ParsesAsHexByte(telemetry.command), "command"),
                Check(ParsesAsHexBytes(telemetry.payloadHex)
                          /\ Len(telemetry.payloadHex) <= limits.maxPayloadLength, "payloadHex")}

Validate(c) ==
    UNION {Check(c.server.host \in IpAddresses, "host"),
           Check(c.server.port \in 1..MaxUInt16, "port"),
           Check(c.protocol.name = <<"DemoBinaryProtocol">>, "name"),
           Check(c.protocol.version \in Byte, "version"),
           LimitErrors(c.limits),
           UNION {RuleErrors(c.rules, n, c.limits) : n \in DOMAIN c.rules},
           TelemetryErrors(c.telemetry, c.limits),
           Check(c.logging.minimumLevel \in LogLevels, "minimumLevel")}

-----------------------------------------------------------------------------
(* SimulatorConfigurationFactory::createServer, for a valid configuration. *)

\* Seeded fault: the connection is kept after every answer.
FaultsOfStaying(f) ==
    [delayMs |-> f.delayMs, dropProbability |-> f.dropProbability,
     corruptChecksum |-> f.corruptChecksum,
     invalidLengthAdjustment |-> f.invalidLengthAdjustment,
     noisePrefix |-> HexLength(f.noisePrefixHex), fragmentSizes |-> f.fragmentSizes,
     fragmentDelayMs |-> f.fragmentDelayMs, coalesceCount |-> f.coalesceCount,
     coalesceWindowMs |-> f.coalesceWindowMs, disconnectAfterSend |-> FALSE]

\* Seeded fault: the noise is lost.
FaultsOfSilence(f) ==
    [delayMs |-> f.delayMs, dropProbability |-> f.dropProbability,
     corruptChecksum |-> f.corruptChecksum,
     invalidLengthAdjustment |-> f.invalidLengthAdjustment,
     noisePrefix |-> 0, fragmentSizes |-> f.fragmentSizes,
     fragmentDelayMs |-> f.fragmentDelayMs, coalesceCount |-> f.coalesceCount,
     coalesceWindowMs |-> f.coalesceWindowMs, disconnectAfterSend |-> f.disconnectAfterSend]

FaultsOf(f) ==
    [delayMs |-> f.delayMs, dropProbability |-> f.dropProbability,
     corruptChecksum |-> f.corruptChecksum,
     invalidLengthAdjustment |-> f.invalidLengthAdjustment,
     noisePrefix |-> HexLength(f.noisePrefixHex), fragmentSizes |-> f.fragmentSizes,
     fragmentDelayMs |-> f.fragmentDelayMs, coalesceCount |-> f.coalesceCount,
     coalesceWindowMs |-> f.coalesceWindowMs, disconnectAfterSend |-> f.disconnectAfterSend]

PlanOf(rule) ==
    IF rule.behavior = <<"Respond">>
    THEN Respond(HexLength(rule.response.payloadHex), FaultsOf(rule.faults))
    ELSE Silent(rule.behavior[1])

ServerOf(c) ==
    [options |-> [name \in DOMAIN c.limits \ {"maxBufferedBytes"} |-> c.limits[name]],
     codec |-> [version |-> c.protocol.version % 256,
                maxPayloadLength |-> c.limits.maxPayloadLength,
                maxBufferedBytes |-> c.limits.maxBufferedBytes],
     randomSeed |-> c.simulation.randomSeed,
     rules |-> [n \in DOMAIN c.rules |->
                   [requestCommand |-> HexByte(c.rules[n].requestCommand),
                    plan |-> PlanOf(c.rules[n])]],
     telemetry |-> [enabled |-> c.telemetry.enabled, intervalMs |-> c.telemetry.intervalMs,
                    payload |-> HexLength(c.telemetry.payloadHex)]]

=============================================================================
