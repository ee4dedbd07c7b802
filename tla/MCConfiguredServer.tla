------------------------- MODULE MCConfiguredServer -------------------------
(***************************************************************************)
(* The simulator run with samples/simulator.sample.json.                   *)
(***************************************************************************)
EXTENDS ConfiguredServer, Documents

MCHexValue ==
    ("0x01" :> 1) @@ ("0x02" :> 2) @@ ("0x03" :> 3) @@ ("0x04" :> 4) @@ ("0x05" :> 5)
        @@ ("0x06" :> 6) @@ ("0x08" :> 8) @@ ("0x81" :> 129) @@ ("0x83" :> 131)
        @@ ("0x84" :> 132) @@ ("0x85" :> 133) @@ ("0x86" :> 134) @@ ("0x88" :> 136)
        @@ ("0x90" :> 144) @@ ("01" :> 1) @@ ("02" :> 2) @@ ("03" :> 3) @@ ("10" :> 16)
        @@ ("20" :> 32) @@ ("11" :> 17) @@ ("22" :> 34) @@ ("33" :> 51) @@ ("44" :> 68)
        @@ ("55" :> 85) @@ ("66" :> 102) @@ ("DE" :> 222) @@ ("AD" :> 173) @@ ("00" :> 0)
        @@ ("FA" :> 250) @@ ("0C" :> 12) @@ ("E4" :> 228)

MCIpAddresses == {<<"127.0.0.1">>}

\* One command for each rule, and 0x07, for which there is none.
MCMessages == [command : 1..8]

ResponseRule(request, command, payload, faults) ==
    Obj([requestCommand |-> Text(<<request>>), behavior |-> Text(<<"Respond">>),
         response |-> Obj([command |-> Text(<<command>>), payloadHex |-> Text(payload)]),
         faults |-> Obj(faults)])

SampleRules ==
    <<ResponseRule("0x01", "0x81", <<"01", "02", "03">>, [delayMs |-> Whole(100)]),
      Obj([requestCommand |-> Text(<<"0x02">>), behavior |-> Text(<<"NoResponse">>)]),
      ResponseRule("0x03", "0x83", <<"10", "20">>, [corruptChecksum |-> Truth(TRUE)]),
      ResponseRule("0x04", "0x84", <<"11", "22", "33", "44">>,
          [fragmentSizes |-> Ints(<<3, 2>>), fragmentDelayMs |-> Whole(20)]),
      ResponseRule("0x06", "0x86", <<"55", "66">>,
          [noisePrefixHex |-> Text(<<"DE", "AD">>), invalidLengthAdjustment |-> Whole(1)]),
      ResponseRule("0x05", "0x85", <<"00">>, [disconnectAfterSend |-> Truth(TRUE)]),
      ResponseRule("0x08", "0x88", <<"01">>,
          [coalesceCount |-> Whole(2), coalesceWindowMs |-> Whole(50)])>>

SampleDocument ==
    Obj([server |-> Obj([host |-> Text(<<"127.0.0.1">>), port |-> Whole(9000)]),
         protocol |-> Obj([name |-> Text(<<"DemoBinaryProtocol">>), version |-> Whole(1)]),
         limits |-> Obj([maxPayloadLength |-> Whole(4096), maxBufferedBytes |-> Whole(8192),
                         maxDelayMs |-> Whole(30000), maxFragmentCount |-> Whole(64),
                         maxNoiseLength |-> Whole(256), maxCoalesceCount |-> Whole(64)]),
         simulation |-> Obj([randomSeed |-> Whole(20260804)]),
         rules |-> List(SampleRules),
         telemetry |-> Obj([enabled |-> Truth(TRUE), intervalMs |-> Whole(1000),
                            command |-> Text(<<"0x90">>),
                            payloadHex |-> Text(<<"00", "FA", "0C", "E4">>)]),
         logging |-> Obj([minimumLevel |-> Text(<<"Information">>)])])
=============================================================================
