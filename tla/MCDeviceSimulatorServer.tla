--------------------- MODULE MCDeviceSimulatorServer ---------------------
(***************************************************************************)
(* Instances of DeviceSimulatorServer for TLC.  Each message has a command *)
(* of its own and the rule table plans one kind of answer for it; a run    *)
(* picks the messages its client sends.  UNKNOWN has no rule.              *)
(***************************************************************************)
EXTENDS ServerRefinesService

CONSTANT Commands       \* the commands the run's client sends

MCMessages == {[command |-> c] : c \in Commands}

MCOptions ==
    [maxPayloadLength |-> 4, maxDelayMs |-> 100, maxFragmentCount |-> 3,
     maxNoiseLength |-> 2, maxCoalesceCount |-> 3]

\* No payload but the empty one and single bytes fit.
SmallPayloadOptions == [MCOptions EXCEPT !.maxPayloadLength = 1]

Rule(command, plan) ==
    [requestCommand |-> command, additionalMatch |-> MCMessages, plan |-> plan]

With(payload, faults) == Respond(payload, faults @@ NoFaults)

AllRules ==
    <<Rule("PLAIN", Respond(1, NoFaults)),
      Rule("FORGED", With(0, [corruptChecksum |-> TRUE, invalidLengthAdjustment |-> 3])),
      Rule("SLOW", With(1, [delayMs |-> 20])),
      Rule("SPLIT", With(1, [fragmentSizes |-> <<2, 3>>, fragmentDelayMs |-> 5,
                             noisePrefix |-> 2])),
      Rule("BADSPLIT", With(1, [fragmentSizes |-> <<4, -1>>])),
      Rule("EXACT", With(0, [fragmentSizes |-> <<4, 6>>, delayMs |-> 20])),
      Rule("PAIR", With(1, [coalesceCount |-> 2])),
      Rule("TRIPLE", With(2, [coalesceCount |-> 3])),
      Rule("PAIRLAST", With(1, [coalesceCount |-> 2, disconnectAfterSend |-> TRUE])),
      Rule("LAST", With(1, [disconnectAfterSend |-> TRUE])),
      Rule("SLOWLAST", With(1, [disconnectAfterSend |-> TRUE, delayMs |-> 20])),
      Rule("LOSSY", With(1, [dropProbability |-> 50])),
      Rule("LOST", With(1, [dropProbability |-> 100])),
      Rule("MUTE", Silent("NoResponse")),
      Rule("DROP", Silent("DropResponse")),
      Rule("HANGUP", Silent("Disconnect")),
      Rule("THROWS", Silent("Throws")),
      Rule("HOLLOW", [Respond(0, NoFaults) EXCEPT !.hasResponse = FALSE]),
      Rule("TOOSLOW", With(1, [delayMs |-> 200])),
      Rule("TOOLONG", Respond(5, NoFaults))>>

\* The rules for the commands of the run.
MCRules == SelectSeq(AllRules, LAMBDA rule : rule.requestCommand \in Commands)
=============================================================================
