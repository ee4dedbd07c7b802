------------------------ MODULE CommandLineProperties ------------------------
(***************************************************************************)
(* What the program and its configuration guarantee.                       *)
(***************************************************************************)
EXTENDS CommandLine

TypeOK ==
    /\ phase \in Phases
    /\ arguments \in Arguments /\ file \in Files
    /\ configuration # None => Loads(file) /\ configuration = FromJson(file)
    /\ server # None => Validate(configuration) = {} /\ server = ServerOf(configuration)
    /\ listening \in BOOLEAN /\ connected \in BOOLEAN
    /\ connected => listening
    /\ handlers \subseteq {"SIGINT", "SIGTERM"}
    /\ StopRequested \in BOOLEAN /\ exitCode \in 0..2

-----------------------------------------------------------------------------
(* The process. *)

GoodArguments ==
    \/ arguments.option \in {"help", "version"}
    \/ /\ arguments.option = "none"
       /\ <<arguments.positional, arguments.config>> \in
              {<<(<<"run">>), TRUE>>, <<(<<"validate">>), TRUE>>, <<(<<"sample-config">>), FALSE>>,
               <<(<<"version">>), FALSE>>, <<(<<"help">>), FALSE>>}

AsksFor(command) == arguments.option = "none" /\ arguments.positional = <<command>>

ValidFile == Loads(file) /\ Validate(FromJson(file)) = {}

\* docs/configuration.md:51-55: 1 for wrong arguments, 2 for a file, a
\* configuration or a start that failed, 0 for success (main.cpp:84-217).
ExitCodesMean ==
    phase = "exited" =>
        /\ exitCode = 1 <=> ~GoodArguments
        /\ exitCode = 2 => AsksFor("validate") \/ AsksFor("run") \/ AsksFor("sample-config")
        /\ (exitCode = 2 /\ AsksFor("validate")) => ~ValidFile
        /\ (exitCode = 0 /\ (AsksFor("validate") \/ AsksFor("run"))) => ValidFile

\* The server listens only for the run command and a valid file
\* (docs/configuration.md:3, main.cpp:113-201).
ListensOnlyToRun == listening => AsksFor("run") /\ ValidFile

\* Whichever way the program ends, nothing listens and no client stays
\* connected; when exec() has returned that is already so (main.cpp:179-180,
\* 203-217; README.md:57).
EndLeavesNothingOpen ==
    (Ended \/ phase = "stopped") => ~listening /\ ~connected

\* A requested stop ends the program, whichever step the signal interrupts and
\* although the flag is read and cleared in two steps (main.cpp:203-217).
StopRequestObeyed == StopRequested ~> Ended

-----------------------------------------------------------------------------
(* What a validated configuration may rely on. *)

\* The options the validator lets through are those start() and the codec
\* accept: of a server that was built, only listening can fail, and every
\* telemetry frame can be encoded (Configuration.cpp:495-521, 634-653, 684-698;
\* DeviceSimulatorServer.cpp:13-68; DemoBinaryProtocolCodec.cpp:48-75).
ConfiguredServersStart ==
    server # None =>
        /\ StartAccepts
        /\ server.telemetry.enabled =>
               server.telemetry.payload <= server.codec.maxPayloadLength

ExecutablePlan(plan) ==
    plan.behavior = "Respond" =>
        /\ plan.payload <= server.codec.maxPayloadLength
        /\ PlanExecutable(server.options, plan.faults, plan.payload)

\* A fragment delay without fragments, or a window without coalescing.
UnusedNegative(f) ==
    \/ f.fragmentSizes = <<>> /\ f.fragmentDelayMs < 0
    \/ f.coalesceCount = 1 /\ f.coalesceWindowMs < 0

\* The validator and the server's own check of a plan, which are written
\* independently, agree on every response but those with a negative delay that
\* is not used (Configuration.cpp:568-631; Rules.h:33-63;
\* DeviceSimulatorServer.cpp:505-560).
ConfiguredPlansExecute ==
    server # None =>
        \A n \in DOMAIN server.rules :
            LET plan == server.rules[n].plan
            IN  ExecutablePlan(plan) \/ UnusedNegative(plan.faults)

\* No rule is hidden behind an earlier one: each configured rule is the first
\* for its command, though "1" and "0x01" spell the same command
\* (Configuration.cpp:523-536).
EveryRuleReachable ==
    server # None =>
        \A n \in DOMAIN server.rules :
            SelectInSeq(server.rules,
                LAMBDA rule : rule.requestCommand = server.rules[n].requestCommand) = n

\* docs/configuration.md:21, docs/fault-injection.md:35: values outside the
\* limits are errors, so that every response of a validated configuration is
\* executed (Configuration.cpp:593-606, Rules.h:42).
EveryResponseExecutes ==
    server # None => \A n \in DOMAIN server.rules : ExecutablePlan(server.rules[n].plan)

-----------------------------------------------------------------------------
(* What the loader lets through. *)

Fits(member, types) == member.key \in DOMAIN types /\ HasType(member.value, types[member.key])

\* Every member, of whichever spelling, is a property of its type.
Strict(object, types) == \A i \in DOMAIN object.members : Fits(object.members[i], types)

AllNamed(object, name, Good(_)) ==
    \A i \in DOMAIN object.members :
        object.members[i].key = name => Good(object.members[i].value)

StrictSection(name, types) ==
    AllNamed(file, name, LAMBDA value : value.kind = "object" /\ Strict(value, types))

StrictRule(rule) ==
    LET StrictPart(name, types) ==
            AllNamed(rule, name, LAMBDA value : value.kind = "object" /\ Strict(value, types))
    IN  /\ StrictPart("response", ResponseTypes) /\ StrictPart("faults", FaultTypes)
        /\ \A i \in DOMAIN rule.members :
               rule.members[i].key \in {"response", "faults"} \/ Fits(rule.members[i], RuleTypes)

StrictFile ==
    /\ file.kind = "object"
    /\ \A i \in DOMAIN file.members :
           file.members[i].key \in {"server", "protocol", "limits", "simulation", "rules",
                                    "telemetry", "logging"}
    /\ StrictSection("server", ServerTypes) /\ StrictSection("protocol", ProtocolTypes)
    /\ StrictSection("limits", LimitsTypes) /\ StrictSection("simulation", SimulationTypes)
    /\ StrictSection("telemetry", TelemetryTypes) /\ StrictSection("logging", LoggingTypes)
    /\ AllNamed(file, "rules",
           LAMBDA value : /\ value.kind = "array"
                          /\ \A i \in DOMAIN value.items :
                                 value.items[i].kind = "object" /\ StrictRule(value.items[i]))

\* No object of the file has two members with keys that match: neither the
\* root, nor a section, nor a rule, nor a part of a rule.
EachKeyOnce ==
    LET sections == ValuesIn({file})
        rules == ValuesIn(sections)
        parts == ValuesIn(rules)
    IN  \A value \in {file} \cup sections \cup rules \cup parts :
            value.kind = "object" =>
                \A i, j \in DOMAIN value.members :
                    value.members[i].key = value.members[j].key => i = j

\* The loader accepts exactly the documents in which every property, at every
\* depth, is known and has its type - as long as no object spells a key twice
\* (Configuration.cpp:35-188, 328-469).
LoaderIsStrict ==
    EachKeyOnce => (Loads(file) <=> StrictFile)
=============================================================================
