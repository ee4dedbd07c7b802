---------------------------- MODULE MCCommandLine ----------------------------
(***************************************************************************)
(* Command lines and configuration files for TLC.                          *)
(***************************************************************************)
EXTENDS CommandLineProperties, Documents

MCHexValue ==
    [word \in {"01", "0x01", "02", "0x02", "0x81", "0x90"} |->
        CASE word \in {"01", "0x01"} -> 1 [] word \in {"02", "0x02"} -> 2
          [] word = "0x81" -> 129 [] word = "0x90" -> 144]

MCIpAddresses == {<<"127.0.0.1">>, <<"0.0.0.0">>}

SmallLimits ==
    [maxPayloadLength |-> Whole(2), maxBufferedBytes |-> Whole(12), maxDelayMs |-> Whole(10),
     maxFragmentCount |-> Whole(2), maxNoiseLength |-> Whole(1), maxCoalesceCount |-> Whole(2)]

\* The file with the given rules and other sections.
FileWith(rules, sections) ==
    Obj(sections @@ [limits |-> Obj(SmallLimits), rules |-> List(rules)])

Response(payload) == Obj([command |-> Text(<<"0x81">>), payloadHex |-> Text(payload)])

Rule(command, behavior, response, faults) ==
    [requestCommand |-> Text(<<command>>), behavior |-> Text(<<behavior>>),
     response |-> Response(response), faults |-> Obj(faults)]

Plain == Rule("0x01", "Respond", <<"01">>, <<>>)

NoSections == [server |-> Obj(<<>>)]

-----------------------------------------------------------------------------
\* Every combination of delays, fragments and coalescing around the limits.
TimingFiles ==
    {FileWith(<<Obj(Rule("0x01", behavior, <<"01">>,
                  [delayMs |-> Whole(delay), fragmentSizes |-> Ints(sizes),
                   fragmentDelayMs |-> Whole(gap), coalesceCount |-> Whole(count),
                   coalesceWindowMs |-> Whole(window)]))>>, NoSections) :
        behavior \in {"Respond", "NoResponse"}, delay \in {-1, 10, 11},
        sizes \in {<<>>, <<4, 7>>, <<0>>, <<1, 1, 1>>}, gap \in {-1, 10, 11},
        count \in 0..3, window \in {-1, 10, 11}}

\* Payloads, noise, adjusted lengths and fragment totals around theirs.
LengthFiles ==
    {FileWith(<<Obj(Rule("0x01", behavior, payload,
                  [noisePrefixHex |-> Text(noise), invalidLengthAdjustment |-> Whole(adjustment),
                   fragmentSizes |-> Ints(sizes), dropProbability |-> Percent(drop),
                   disconnectAfterSend |-> Truth(adjustment = 0)]))>>, NoSections) :
        behavior \in {"Respond", "DropResponse", "Explode"},
        payload \in {<<>>, <<"01", "02">>, <<"01", "GG">>, <<"01", "02", "01">>},
        noise \in {<<>>, <<"02">>, <<"GG">>, <<"01", "01">>}, adjustment \in {-1, 0, 65534},
        sizes \in {<<>>, <<6, 5>>, <<6, 6>>}, drop \in {0, 101}}

RuleFiles ==
    {FileWith(<<Obj(Plain), Obj(Rule(command, "Disconnect", <<>>, <<>>)),
                Obj(Rule("0x02", "Respond", <<>>, <<>>))>>, NoSections) :
        command \in {"0x81", "01", "02", "GG"}}

\* One limit at a time on and beyond its bounds.
LimitFiles ==
    {Obj([limits |-> Obj((name :> Whole(value)) @@ SmallLimits)]) :
        name \in DOMAIN SmallLimits,
        value \in {-1, 0, 1, 11, 64, 65, 256, 257, 65536, 65537, 300000, 300001, 1048577}}

SectionFiles ==
    {FileWith(<<Obj(Plain)>>, [server |-> Obj([port |-> Whole(port), host |-> Text(host)])]) :
        port \in {0, 1, 65535, 65536}, host \in {<<"0.0.0.0">>, <<"localhost">>}}
    \cup {FileWith(<<>>, [protocol |-> Obj([name |-> Text(<<name>>), version |-> Whole(version)])]) :
            name \in {"DemoBinaryProtocol", "Modbus"}, version \in {-1, 0, 255, 256}}
    \cup {FileWith(<<>>, [telemetry |-> Obj([enabled |-> Truth(enabled), payloadHex |-> Text(payload),
                                            intervalMs |-> Whole(interval)])]) :
            enabled \in BOOLEAN, interval \in {49, 50, 86400000, 86400001},
            payload \in {<<"01", "02">>, <<"GG">>, <<"01", "01", "01">>}}
    \cup {FileWith(<<>>, [logging |-> Obj([minimumLevel |-> Text(<<level>>)]),
                          simulation |-> Obj([randomSeed |-> Whole(2147483647)])]) :
            level \in {"None", "Verbose"}}

\* Values of every kind in the place of every property, and unknown ones.
Values == {Whole(1), Number(1, 50), Truth(TRUE), Text(<<"01">>), Ints(<<1>>),
           List(<<Number(1, 50)>>), Obj(<<>>), Obj([bogus |-> Whole(1)]), Null}

TypeFiles ==
    {Obj(name :> value) :
        name \in {"server", "protocol", "limits", "simulation", "rules", "telemetry", "logging",
                  "bogus"}, value \in Values}
    \cup {Obj(section :> Obj(name :> value)) :
            section \in {"server", "telemetry", "limits"},
            name \in {"port", "host", "enabled", "maxDelayMs"}, value \in Values}
    \cup {Obj([rules |-> List(<<Obj((name :> value) @@ Plain)>>)]) :
            name \in {"requestCommand", "behavior", "response", "faults", "bogus"},
            value \in Values}
    \cup {Obj([rules |-> List(<<Obj(Rule("0x01", "Respond", <<>>, name :> value))>>)]) :
            name \in DOMAIN FaultTypes \cup {"bogus"}, value \in Values}
    \cup {Obj([rules |-> List(<<value>>)]) : value \in Values}
    \cup {Malformed, List(<<>>), Null}

\* "PORT" beside "port".
RespelledFile ==
    Obj([server |-> Object(<<Member("port", Whole(9000)), Member("port", Text(<<"9000">>))>>)])

ManyFiles == TimingFiles \cup LengthFiles \cup RuleFiles \cup LimitFiles
                \cup SectionFiles \cup TypeFiles \cup {RespelledFile}

RunIt == {[positional |-> <<"run">>, config |-> TRUE, option |-> "none"]}

\* tests/test_configuration.cpp: the default configuration is valid.
ASSUME DefaultIsValid == Loads(Obj(<<>>)) /\ Validate(FromJson(Obj(<<>>))) = {}

-----------------------------------------------------------------------------
(* Every file is run; a few of them meet every command line. *)

FewFiles == {Unreadable, Malformed, FileWith(<<Obj(Plain)>>, NoSections),
             Obj([server |-> Obj([port |-> Whole(0)])])}

AllFiles == ManyFiles \cup FewFiles

AllArguments ==
    [positional : {<<>>, <<"run", "run">>} \cup {<<c>> : c \in Commands \cup {"other"}},
     config : BOOLEAN, option : {"none", "help", "version", "unknown"}]

ProgramInit == Init /\ (arguments \in RunIt \/ file \in FewFiles)

ProgramSpec == ProgramInit /\ [][Next]_vars /\ WF_phase(MainMoves)
=============================================================================
