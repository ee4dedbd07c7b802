------------------------- MODULE ConfigurationProofs -------------------------
(***************************************************************************)
(* What a configuration without errors may be relied on for, whatever the  *)
(* document it was read from: lemmas about the loader's and the            *)
(* validator's operators, one for each part of the server that is built.   *)
(***************************************************************************)
EXTENDS Configuration, SequenceFacts

-----------------------------------------------------------------------------
(* Errors. *)

\* No errors at all are no errors of any part.
LEMMA NoErrors ==
    ASSUME NEW S, UNION S = {}
    PROVE  \A errors \in S : errors = {}
<1> SUFFICES ASSUME NEW errors \in S, NEW path \in errors PROVE FALSE
  OBVIOUS
<1> QED
  <2>1. path \in UNION S
    OBVIOUS
  <2> QED
    BY <2>1

\* What a valid configuration's limits are.
LEMMA LimitsValid ==
    ASSUME NEW limits, LimitErrors(limits) = {}
    PROVE  /\ limits.maxPayloadLength \in 0..MaxUInt16
           /\ limits.maxBufferedBytes
                \in (limits.maxPayloadLength + FixedFrameOverhead)..(1024 * 1024)
           /\ limits.maxDelayMs \in 0..ConfigurableDelayMs
           /\ limits.maxFragmentCount \in 1..256
           /\ limits.maxNoiseLength \in 0..ConfigurableNoiseLength
           /\ limits.maxCoalesceCount \in 1..64
<1> DEFINE c1 == limits.maxPayloadLength \in 0..MaxUInt16
           c2 == limits.maxBufferedBytes
                   \in (limits.maxPayloadLength + FixedFrameOverhead)..(1024 * 1024)
           c3 == limits.maxDelayMs \in 0..ConfigurableDelayMs
           c4 == limits.maxFragmentCount \in 1..256
           c5 == limits.maxNoiseLength \in 0..ConfigurableNoiseLength
           c6 == limits.maxCoalesceCount \in 1..64
           S == {Check(c1, "maxPayloadLength"), Check(c2, "maxBufferedBytes"),
                 Check(c3, "maxDelayMs"), Check(c4, "maxFragmentCount"),
                 Check(c5, "maxNoiseLength"), Check(c6, "maxCoalesceCount")}
<1>1. UNION S = {}
  BY DEF LimitErrors
<1> HIDE DEF c1, c2, c3, c4, c5, c6
<1>2. \A errors \in S : errors = {}
  BY <1>1, NoErrors
<1>3. c1 /\ c2 /\ c3 /\ c4 /\ c5 /\ c6
  BY <1>2, Zenon DEF Check
<1> QED
  BY <1>3 DEF c1, c2, c3, c4, c5, c6

\* The parts of a valid configuration.
LEMMA PartsValid ==
    ASSUME NEW c, Validate(c) = {}
    PROVE  /\ LimitErrors(c.limits) = {}
           /\ \A n \in DOMAIN c.rules : RuleErrors(c.rules, n, c.limits) = {}
           /\ TelemetryErrors(c.telemetry, c.limits) = {}
<1> DEFINE R == {RuleErrors(c.rules, n, c.limits) : n \in DOMAIN c.rules}
           S == {Check(c.server.host \in IpAddresses, "host"),
                 Check(c.server.port \in 1..MaxUInt16, "port"),
                 Check(c.protocol.name = <<"DemoBinaryProtocol">>, "name"),
                 Check(c.protocol.version \in Byte, "version"),
                 LimitErrors(c.limits),
                 UNION R,
                 TelemetryErrors(c.telemetry, c.limits),
                 Check(c.logging.minimumLevel \in LogLevels, "minimumLevel")}
<1>1. UNION S = {}
  BY DEF Validate
<1>2. \A errors \in S : errors = {}
  BY <1>1, NoErrors
<1>3. UNION R = {} /\ LimitErrors(c.limits) = {} /\ TelemetryErrors(c.telemetry, c.limits) = {}
  BY <1>2
<1>4. \A errors \in R : errors = {}
  BY <1>3, NoErrors
<1> QED
  BY <1>3, <1>4

-----------------------------------------------------------------------------
(* Rules. *)

\* What the validator's checks of faults say.
LEMMA FaultsValid ==
    ASSUME NEW f, NEW limits, FaultErrors(f, limits) = {}
    PROVE  /\ f.delayMs \in 0..limits.maxDelayMs
           /\ f.dropProbability \in 0..100
           /\ ParsesAsHexBytes(f.noisePrefixHex) /\ Len(f.noisePrefixHex) <= limits.maxNoiseLength
           /\ Len(f.fragmentSizes) <= limits.maxFragmentCount
           /\ \A i \in DOMAIN f.fragmentSizes : f.fragmentSizes[i] > 0
           /\ f.fragmentSizes # <<>> => f.fragmentDelayMs \in 0..limits.maxDelayMs
           /\ f.coalesceCount \in 1..limits.maxCoalesceCount
           /\ f.coalesceCount > 1 => f.coalesceWindowMs \in 0..limits.maxDelayMs
           /\ ~(f.fragmentSizes # <<>> /\ f.coalesceCount > 1)
<1> DEFINE c1 == f.delayMs \in 0..limits.maxDelayMs
           c2 == f.dropProbability \in 0..100
           c3 == ParsesAsHexBytes(f.noisePrefixHex) /\ Len(f.noisePrefixHex) <= limits.maxNoiseLength
           c4 == /\ Len(f.fragmentSizes) <= limits.maxFragmentCount
                 /\ \A i \in DOMAIN f.fragmentSizes : f.fragmentSizes[i] > 0
           c5 == f.fragmentSizes # <<>> => f.fragmentDelayMs \in 0..limits.maxDelayMs
           c6 == f.coalesceCount \in 1..limits.maxCoalesceCount
           c7 == f.coalesceCount > 1 => f.coalesceWindowMs \in 0..limits.maxDelayMs
           c8 == ~(f.fragmentSizes # <<>> /\ f.coalesceCount > 1)
           S == {Check(c1, "delayMs"), Check(c2, "dropProbability"), Check(c3, "noisePrefixHex"),
                 Check(c4, "fragmentSizes"), Check(c5, "fragmentDelayMs"),
                 Check(c6, "coalesceCount"), Check(c7, "coalesceWindowMs"), Check(c8, "faults")}
<1>1. UNION S = {}
  BY DEF FaultErrors
<1> HIDE DEF c1, c2, c3, c4, c5, c6, c7, c8
<1>2. \A errors \in S : errors = {}
  BY <1>1, NoErrors
<1>3. c1 /\ c2 /\ c3 /\ c4 /\ c5 /\ c6 /\ c7 /\ c8
  BY <1>2, Zenon DEF Check
<1> QED
  BY <1>3 DEF c1, c2, c3, c4, c5, c6, c7, c8

\* What the validator's checks of a response say.
LEMMA RespondValid ==
    ASSUME NEW rule, NEW limits, RespondErrors(rule, limits) = {}
    PROVE  /\ ParsesAsHexBytes(rule.response.payloadHex)
           /\ Len(rule.response.payloadHex) <= limits.maxPayloadLength
           /\ Len(rule.response.payloadHex) + rule.faults.invalidLengthAdjustment
                \in 0..MaxUInt16
           /\ Total(rule.faults.fragmentSizes)
                <= FixedFrameOverhead + Len(rule.response.payloadHex)
                     + HexLength(rule.faults.noisePrefixHex)
<1> DEFINE r == rule.response
           payload == Len(r.payloadHex)
           c1 == ParsesAsHexByte(r.command)
           c2 == ParsesAsHexBytes(r.payloadHex) /\ payload <= limits.maxPayloadLength
           c3 == payload + rule.faults.invalidLengthAdjustment \in 0..MaxUInt16
           c4 == Total(rule.faults.fragmentSizes)
                   <= FixedFrameOverhead + payload + HexLength(rule.faults.noisePrefixHex)
<1>1. /\ rule.hasResponse
      /\ ResponseErrors(r, limits) = {}
      /\ ParsesAsHexBytes(r.payloadHex) => OutgoingErrors(rule.faults, payload) = {}
  BY DEF RespondErrors
<1>2. Check(c1, "response.command") = {} /\ Check(c2, "response.payloadHex") = {}
  BY <1>1 DEF ResponseErrors
<1>3. c2
  <2> HIDE DEF c2
  <2> QED
    BY <1>2, Zenon DEF Check
<1>4. Check(c3, "invalidLengthAdjustment") = {} /\ Check(c4, "fragmentSizes") = {}
  BY <1>1, <1>3 DEF OutgoingErrors
<1>5. c3 /\ c4
  <2> HIDE DEF c3, c4
  <2> QED
    BY <1>4, Zenon DEF Check
<1> QED
  BY <1>3, <1>5

\* The parts of a valid rule.
LEMMA RuleValid ==
    ASSUME NEW rules, NEW n, NEW limits, RuleErrors(rules, n, limits) = {}
    PROVE  /\ ParsesAsHexByte(rules[n].requestCommand) /\ ~Duplicate(rules, n)
           /\ rules[n].behavior \in Behaviors
           /\ FaultErrors(rules[n].faults, limits) = {}
           /\ rules[n].behavior = <<"Respond">> => RespondErrors(rules[n], limits) = {}
<1> DEFINE rule == rules[n]
           c == ParsesAsHexByte(rule.requestCommand) /\ ~Duplicate(rules, n)
<1>1. CommandErrors(rules, n) = {}
  BY DEF RuleErrors
<1>2. Check(c, "requestCommand") = {}
  BY <1>1 DEF CommandErrors
<1>3. c
  <2> HIDE DEF c
  <2> QED
    BY <1>2, Zenon DEF Check
<1>4. rule.behavior \in Behaviors
  BY DEF RuleErrors
<1>5. /\ FaultErrors(rule.faults, limits) = {}
      /\ rule.behavior = <<"Respond">> => RespondErrors(rule, limits) = {}
  BY <1>4 DEF RuleErrors
<1> QED
  BY <1>3, <1>4, <1>5

-----------------------------------------------------------------------------
(* What was read. *)

\* An int property is an integer, whether it was given or not.
LEMMA ReadInteger ==
    ASSUME NEW object, NEW types, NEW defaults, NEW name \in DOMAIN types,
           TypesMatch(object, types), types[name] = "readInt", defaults[name] \in Int
    PROVE  Read(object, types, defaults)[name] \in Int
<1> DEFINE value == FindValue(object, name)
<1>1. value = Undefined \/ HasType(value, "readInt")
  BY DEF TypesMatch
<1>2. Read(object, types, defaults)[name] =
        IF value = Undefined THEN defaults[name] ELSE ValueRead(value, "readInt")
  BY DEF Read
<1> HIDE DEF value
<1>3. ASSUME HasType(value, "readInt") PROVE ValueRead(value, "readInt") \in Int
  <2>1. IsInt(value)
    BY <1>3, Zenon DEF HasType
  <2>2. value.integer \in Int32
    BY <2>1, Zenon DEF IsInt
  <2>3. Int32 \subseteq Int
    <3>1. MaxInt32 \in Int
      BY SMT DEF MaxInt32
    <3> QED
      BY <3>1, SMT DEF Int32
  <2>4. ValueRead(value, "readInt") = value.integer
    BY Zenon DEF ValueRead
  <2> QED
    BY <2>2, <2>3, <2>4
<1> QED
  BY <1>1, <1>2, <1>3

\* The delays that may go unused are integers in every loaded rule.
LEMMA ReadDelays ==
    ASSUME NEW rule, RuleReadable(rule)
    PROVE  /\ ReadRule(rule).faults.fragmentDelayMs \in Int
           /\ ReadRule(rule).faults.coalesceWindowMs \in Int
<1> DEFINE section == Section(rule, "faults")
           f == Read(section, FaultTypes, FaultDefaults)
<1>1. TypesMatch(section, FaultTypes)
  BY DEF RuleReadable, SectionReadable, Readable
<1>2. ReadRule(rule).faults = f
  BY DEF ReadRule
<1> HIDE DEF section
<1>3. /\ "fragmentDelayMs" \in DOMAIN FaultTypes /\ FaultTypes["fragmentDelayMs"] = "readInt"
      /\ FaultDefaults["fragmentDelayMs"] \in Int
      /\ "coalesceWindowMs" \in DOMAIN FaultTypes /\ FaultTypes["coalesceWindowMs"] = "readInt"
      /\ FaultDefaults["coalesceWindowMs"] \in Int
  BY DEF FaultTypes, FaultDefaults
<1> QED
  BY <1>1, <1>2, <1>3, ReadInteger

-----------------------------------------------------------------------------
(* What is built. *)

\* The limits the server gets, as a function of their names.
OptionsOf(limits) == [name \in DOMAIN limits \ {"maxBufferedBytes"} |-> limits[name]]

LimitNames == {"maxPayloadLength", "maxBufferedBytes", "maxDelayMs", "maxFragmentCount",
               "maxNoiseLength", "maxCoalesceCount"}

\* A valid configuration's limits are options the server accepts.
LEMMA OptionsValid ==
    ASSUME NEW limits, DOMAIN limits = LimitNames, LimitErrors(limits) = {}
    PROVE  /\ OptionsOf(limits) \in ValidOptions
           /\ OptionsOf(limits).maxDelayMs = limits.maxDelayMs
           /\ OptionsOf(limits).maxFragmentCount = limits.maxFragmentCount
           /\ OptionsOf(limits).maxNoiseLength = limits.maxNoiseLength
           /\ OptionsOf(limits).maxCoalesceCount = limits.maxCoalesceCount
<1> DEFINE o == OptionsOf(limits)
           names == {"maxPayloadLength", "maxDelayMs", "maxFragmentCount",
                     "maxNoiseLength", "maxCoalesceCount"}
<1>1. o = [name \in names |-> limits[name]]
  BY DEF OptionsOf, LimitNames
<1>2. /\ limits.maxPayloadLength \in 0..MaxUInt16
      /\ limits.maxDelayMs \in 0..ConfigurableDelayMs
      /\ limits.maxFragmentCount \in 1..256
      /\ limits.maxNoiseLength \in 0..ConfigurableNoiseLength
      /\ limits.maxCoalesceCount \in 1..64
  BY LimitsValid
<1>3. ConfigurableDelayMs = MaxDelayMs /\ ConfigurableNoiseLength = MaxNoiseLength
  BY DEF ConfigurableDelayMs, MaxDelayMs, ConfigurableNoiseLength, MaxNoiseLength
<1> DEFINE r == [maxPayloadLength |-> limits.maxPayloadLength, maxDelayMs |-> limits.maxDelayMs,
                 maxFragmentCount |-> limits.maxFragmentCount,
                 maxNoiseLength |-> limits.maxNoiseLength,
                 maxCoalesceCount |-> limits.maxCoalesceCount]
<1> HIDE DEF o
<1>4. o = r
  BY <1>1
<1>5. r \in ValidOptions
  BY <1>2, <1>3, Zenon DEF ValidOptions
<1> QED
  BY <1>4, <1>5 DEF o

\* The codec, too, accepts its options, and its version is a byte.
LEMMA CodecOptionsValid ==
    ASSUME NEW c, LimitErrors(c.limits) = {}
    PROVE  /\ ValidCodecOptions(ServerOf(c).codec)
           /\ ServerOf(c).codec.maxPayloadLength = c.limits.maxPayloadLength
<1>1. /\ c.limits.maxPayloadLength \in 0..MaxUInt16
      /\ c.limits.maxBufferedBytes
           \in (c.limits.maxPayloadLength + FixedFrameOverhead)..(1024 * 1024)
  BY LimitsValid
<1>2. /\ ServerOf(c).codec.maxPayloadLength = c.limits.maxPayloadLength
      /\ ServerOf(c).codec.maxBufferedBytes = c.limits.maxBufferedBytes
  BY DEF ServerOf
<1> DEFINE codec == ServerOf(c).codec
<1> HIDE DEF codec
<1>3. ValidCodecOptions(codec)
  BY <1>1, <1>2, SMT DEF ValidCodecOptions, codec
<1> QED
  BY <1>2, <1>3 DEF codec

\* Telemetry that is switched on ticks at an interval start accepts, and its
\* payload fits a frame.
LEMMA TelemetryValid ==
    ASSUME NEW telemetry, NEW limits, TelemetryErrors(telemetry, limits) = {}, telemetry.enabled
    PROVE  /\ telemetry.intervalMs \in 50..ConfigurableIntervalMs
           /\ HexLength(telemetry.payloadHex) <= limits.maxPayloadLength
<1> DEFINE c1 == telemetry.intervalMs \in 50..ConfigurableIntervalMs
           c2 == ParsesAsHexByte(telemetry.command)
           c3 == /\ ParsesAsHexBytes(telemetry.payloadHex)
                 /\ Len(telemetry.payloadHex) <= limits.maxPayloadLength
           S == {Check(c1, "intervalMs"), Check(c2, "command"), Check(c3, "payloadHex")}
<1>1. UNION S = {}
  BY DEF TelemetryErrors
<1> HIDE DEF c1, c2, c3
<1>2. \A errors \in S : errors = {}
  BY <1>1, NoErrors
<1>3. c1 /\ c3
  BY <1>2, Zenon DEF Check
<1> QED
  BY <1>3 DEF c1, c3, HexLength

-----------------------------------------------------------------------------
(* What a valid configuration guarantees of its server. *)

\* Every loaded configuration has all the limits.
LEMMA LimitsRead ==
    ASSUME NEW document
    PROVE  DOMAIN FromJson(document).limits = LimitNames
<1>1. FromJson(document).limits = Read(Section(document, "limits"), LimitsTypes, LimitsDefaults)
  BY DEF FromJson
<1>2. DOMAIN LimitsTypes = LimitNames
  BY DEF LimitsTypes, LimitsDefaults, LimitNames
<1> QED
  BY <1>1, <1>2 DEF Read

\* What start and the codec demand of the server, it has; and its telemetry
\* can be encoded.
LEMMA ServerValid ==
    ASSUME NEW c, DOMAIN c.limits = LimitNames, Validate(c) = {}
    PROVE  LET s == ServerOf(c)
           IN  /\ s.options \in ValidOptions
               /\ ValidCodecOptions(s.codec)
               /\ s.telemetry.enabled =>
                      /\ s.telemetry.intervalMs \in 50..ConfigurableIntervalMs
                      /\ s.telemetry.payload <= s.codec.maxPayloadLength
<1> DEFINE s == ServerOf(c)
<1>1. LimitErrors(c.limits) = {} /\ TelemetryErrors(c.telemetry, c.limits) = {}
  BY PartsValid
<1>2. s.options \in ValidOptions
  <2>1. s.options = OptionsOf(c.limits)
    BY DEF ServerOf, OptionsOf
  <2> QED
    BY <1>1, <2>1, OptionsValid
<1>3. ValidCodecOptions(s.codec) /\ s.codec.maxPayloadLength = c.limits.maxPayloadLength
  BY <1>1, CodecOptionsValid
<1>4. /\ s.telemetry.enabled = c.telemetry.enabled
      /\ s.telemetry.intervalMs = c.telemetry.intervalMs
      /\ s.telemetry.payload = HexLength(c.telemetry.payloadHex)
  BY DEF ServerOf
<1>5. c.telemetry.enabled => /\ c.telemetry.intervalMs \in 50..ConfigurableIntervalMs
                             /\ HexLength(c.telemetry.payloadHex) <= c.limits.maxPayloadLength
  BY <1>1, TelemetryValid
<1> HIDE DEF s
<1>6. s.telemetry.enabled => /\ s.telemetry.intervalMs \in 50..ConfigurableIntervalMs
                             /\ s.telemetry.payload <= s.codec.maxPayloadLength
  BY <1>3, <1>4, <1>5, Zenon
<1> QED
  BY <1>2, <1>3, <1>6 DEF s

\* The plan of a valid rule is what its behavior says, and a planned response
\* can be executed unless one of the delays it does not use is negative.
LEMMA PlanValid ==
    ASSUME NEW c, DOMAIN c.limits = LimitNames, Validate(c) = {}, NEW n \in DOMAIN c.rules,
           c.rules[n].faults.fragmentDelayMs \in Int, c.rules[n].faults.coalesceWindowMs \in Int
    PROVE  LET plan == PlanOf(c.rules[n])
               f == plan.faults
           IN  plan.behavior = "Respond" =>
                 /\ plan.payload <= c.limits.maxPayloadLength
                 /\ \/ PlanExecutable(OptionsOf(c.limits), f, plan.payload)
                    \/ f.fragmentSizes = <<>> /\ f.fragmentDelayMs < 0
                    \/ f.coalesceCount = 1 /\ f.coalesceWindowMs < 0
<1> DEFINE rule == c.rules[n]
           g == rule.faults
           limits == c.limits
           f == FaultsOf(g)
           o == OptionsOf(limits)
<1>1. LimitErrors(limits) = {} /\ RuleErrors(c.rules, n, limits) = {}
  BY PartsValid
<1>2. /\ rule.behavior \in Behaviors
      /\ FaultErrors(g, limits) = {}
      /\ rule.behavior = <<"Respond">> => RespondErrors(rule, limits) = {}
  BY <1>1, RuleValid
<1>3. CASE rule.behavior # <<"Respond">>
  <2>1. rule.behavior[1] # "Respond"
    BY <1>2, <1>3 DEF Behaviors
  <2>2. PlanOf(rule).behavior = rule.behavior[1]
    BY <1>3 DEF PlanOf, Silent
  <2> QED
    BY <2>1, <2>2
<1>4. CASE rule.behavior = <<"Respond">>
  <2> DEFINE payload == HexLength(rule.response.payloadHex)
  <2>1. PlanOf(rule).payload = payload /\ PlanOf(rule).faults = f
    BY <1>4 DEF PlanOf, Respond
  <2>2. /\ ParsesAsHexBytes(rule.response.payloadHex)
        /\ Len(rule.response.payloadHex) <= limits.maxPayloadLength
        /\ Len(rule.response.payloadHex) + g.invalidLengthAdjustment \in 0..MaxUInt16
        /\ Total(g.fragmentSizes)
             <= FixedFrameOverhead + Len(rule.response.payloadHex) + HexLength(g.noisePrefixHex)
    BY <1>2, <1>4, RespondValid
  <2>3. /\ payload <= limits.maxPayloadLength
        /\ payload + g.invalidLengthAdjustment \in 0..MaxUInt16
        /\ Total(g.fragmentSizes) <= FixedFrameOverhead + payload + HexLength(g.noisePrefixHex)
    <3>1. payload = Len(rule.response.payloadHex)
      BY <2>2 DEF HexLength
    <3> HIDE DEF payload
    <3> QED
      BY <2>2, <3>1
  <2> HIDE DEF payload
  <2>4. /\ g.delayMs \in 0..limits.maxDelayMs
        /\ g.dropProbability \in 0..100
        /\ ParsesAsHexBytes(g.noisePrefixHex) /\ Len(g.noisePrefixHex) <= limits.maxNoiseLength
        /\ Len(g.fragmentSizes) <= limits.maxFragmentCount
        /\ \A i \in DOMAIN g.fragmentSizes : g.fragmentSizes[i] > 0
        /\ g.fragmentSizes # <<>> => g.fragmentDelayMs \in 0..limits.maxDelayMs
        /\ g.coalesceCount \in 1..limits.maxCoalesceCount
        /\ g.coalesceCount > 1 => g.coalesceWindowMs \in 0..limits.maxDelayMs
        /\ ~(g.fragmentSizes # <<>> /\ g.coalesceCount > 1)
    BY <1>2, FaultsValid
  <2>5. /\ f.delayMs = g.delayMs /\ f.dropProbability = g.dropProbability
        /\ f.invalidLengthAdjustment = g.invalidLengthAdjustment
        /\ f.noisePrefix = HexLength(g.noisePrefixHex) /\ f.fragmentSizes = g.fragmentSizes
        /\ f.fragmentDelayMs = g.fragmentDelayMs /\ f.coalesceCount = g.coalesceCount
        /\ f.coalesceWindowMs = g.coalesceWindowMs
    BY DEF FaultsOf
  <2>6. HexLength(g.noisePrefixHex) = Len(g.noisePrefixHex)
    BY <2>4 DEF HexLength
  <2>7. /\ o.maxDelayMs = limits.maxDelayMs /\ o.maxFragmentCount = limits.maxFragmentCount
        /\ o.maxNoiseLength = limits.maxNoiseLength
        /\ o.maxCoalesceCount = limits.maxCoalesceCount
    BY <1>1, OptionsValid
  <2>8. limits.maxDelayMs \in Int /\ limits.maxCoalesceCount \in Int
    <3>1. ConfigurableDelayMs \in Int
      BY SMT DEF ConfigurableDelayMs
    <3>2. limits.maxDelayMs \in 0..ConfigurableDelayMs /\ limits.maxCoalesceCount \in 1..64
      BY <1>1, LimitsValid
    <3> QED
      BY <3>1, <3>2, SMT
  <2> HIDE DEF f, o, g, limits
  <2>9. g.fragmentDelayMs \in Int /\ g.coalesceWindowMs \in Int
    BY DEF g
  <2>10. SUFFICES ASSUME g.fragmentSizes = <<>> => g.fragmentDelayMs >= 0,
                         g.coalesceCount = 1 => g.coalesceWindowMs >= 0
                  PROVE  PlanExecutable(o, f, payload)
    BY <2>1, <2>3, <2>5, <2>9, SMT DEF f, o, g, limits
  <2>11. g.coalesceCount \in Nat /\ (g.coalesceCount = 1 \/ g.coalesceCount > 1)
    BY <2>4, <2>8, SMT
  <2>12. /\ g.delayMs >= 0 /\ g.delayMs <= limits.maxDelayMs
         /\ g.fragmentDelayMs >= 0 /\ g.coalesceWindowMs >= 0
         /\ g.coalesceCount >= 1 /\ g.coalesceCount <= limits.maxCoalesceCount
         /\ g.fragmentSizes # <<>> => g.fragmentDelayMs <= limits.maxDelayMs
         /\ g.coalesceCount > 1 => g.coalesceWindowMs <= limits.maxDelayMs
         /\ g.fragmentSizes = <<>> \/ g.coalesceCount = 1
    BY <2>4, <2>8, <2>9, <2>10, <2>11, SMT
  <2>13. FaultsAreValid(f)
    BY <2>4, <2>5, <2>12, Zenon DEF FaultsAreValid
  <2>14. Total(f.fragmentSizes) <= OutboundSize(payload, f)
    BY <2>3, <2>5, Zenon DEF OutboundSize
  <2> QED
    BY <2>3, <2>4, <2>5, <2>6, <2>7, <2>12, <2>13, <2>14, Zenon DEF PlanExecutable
<1> QED
  BY <1>3, <1>4

\* The server's first rule for the command of rule n.
FirstFor(rules, n) ==
    SelectInSeq(rules, LAMBDA rule : rule.requestCommand = rules[n].requestCommand)

\* Where the rules are a sequence, each rule of a valid configuration is the
\* first of the server's rules for its command.
LEMMA RuleReachable ==
    ASSUME NEW c, Validate(c) = {}, NEW k \in Nat, DOMAIN c.rules = 1..k, NEW n \in 1..k
    PROVE  FirstFor(ServerOf(c).rules, n) = n
<1> DEFINE rules == ServerOf(c).rules
           command(i) == c.rules[i].requestCommand
           I == {i \in 1..Len(rules) : rules[i].requestCommand = rules[n].requestCommand}
<1>1. rules = [i \in 1..k |-> [requestCommand |-> HexByte(command(i)), plan |-> PlanOf(c.rules[i])]]
  BY DEF ServerOf
<1>2. \A i \in 1..k : ParsesAsHexByte(command(i)) /\ ~Duplicate(c.rules, i)
  BY PartsValid, RuleValid
<1>3. Len(rules) = k
  <2> HIDE DEF rules
  <2> QED
    BY <1>1
<1>4. \A i \in 1..k : rules[i].requestCommand = HexByte(command(i))
  BY <1>1
<1> HIDE DEF rules
<1>5. n \in I /\ I \subseteq 1..k
  BY <1>3
<1>6. ASSUME NEW i \in I PROVE n <= i
  <2>1. i \in 1..k /\ HexByte(command(i)) = HexByte(command(n))
    BY <1>4, <1>5
  <2>2. i \notin 1..(n - 1)
    BY <1>2, <2>1 DEF Duplicate
  <2> QED
    BY <2>1, <2>2
<1> HIDE DEF I
<1>7. (CHOOSE x \in I : \A y \in I : x <= y) = n
  <2>1. \A x \in I : (\A y \in I : x <= y) => x = n
    BY <1>5, <1>6
  <2> QED
    BY <1>5, <1>6, <2>1
<1>8. FirstFor(rules, n) = n
  BY <1>5, <1>7 DEF FirstFor, SelectInSeq, Min, I
<1> QED
  BY <1>8 DEF rules

-----------------------------------------------------------------------------
(* What the loader reads. *)

\* FindValue gives the value of a member with the key, if there is one.
LEMMA ValueFound ==
    ASSUME NEW object, NEW name,
           Len(object.members) \in Nat, DOMAIN object.members = 1..Len(object.members)
    PROVE  \/ /\ \A i \in DOMAIN object.members : object.members[i].key # name
              /\ FindValue(object, name) = Undefined
           \/ \E i \in DOMAIN object.members :
                  /\ object.members[i].key = name
                  /\ FindValue(object, name) = object.members[i].value
<1> DEFINE members == object.members
           I == {i \in 1..Len(members) : members[i].key = name}
           found == IF I # {} THEN CHOOSE x \in I : \A y \in I : x <= y ELSE 0
<1>1. SelectInSeq(members, LAMBDA m : m.key = name) = found
  BY DEF SelectInSeq, Min
<1>2. FindValue(object, name) = IF found = 0 THEN Undefined ELSE members[found].value
  <2> HIDE DEF found
  <2> QED
    BY <1>1 DEF FindValue
<1>3. CASE I = {}
  <2>1. found = 0
    BY <1>3
  <2>2. \A i \in DOMAIN members : members[i].key # name
    BY <1>3
  <2> HIDE DEF found
  <2> QED
    BY <1>2, <2>1, <2>2
<1>4. CASE I # {}
  <2>1. I \subseteq Nat
    OBVIOUS
  <2>2. \E x \in I : \A y \in I : x <= y
    <3> HIDE DEF I
    <3> QED
      BY <1>4, <2>1, MinOfNaturals
  <2>3. found \in I
    <3> HIDE DEF I
    <3> QED
      BY <1>4, <2>2
  <2> HIDE DEF found
  <2>4. found # 0 /\ found \in DOMAIN members /\ members[found].key = name
    BY <2>3
  <2> QED
    BY <1>2, <2>4
<1> QED
  BY <1>3, <1>4
=============================================================================
