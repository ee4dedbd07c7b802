------------------------------- MODULE Rules -------------------------------
(***************************************************************************)
(* Matching a request to a rule, and what the rule plans for it            *)
(* (Rules.h and DeviceSimulatorServer.cpp).                                *)
(***************************************************************************)
EXTENDS Faults

CONSTANTS
    Options,        \* the limits of DeviceSimulatorOptions the server reads
    Messages,       \* the requests a client may send: records with a command
    RuleTable       \* the server's rules, in matching order

\* additionalMatch is the set of messages the optional predicate accepts.
SimulationRule ==
    [requestCommand : {m.command : m \in Messages},
     additionalMatch : SUBSET Messages, plan : ResponsePlan]

ASSUME OptionsAssumption == Options \in ValidOptions

ASSUME RuleTableAssumption == RuleTable \in Seq(SimulationRule)

-----------------------------------------------------------------------------
(* Matching. *)

Matches(rule, message) ==
    message.command = rule.requestCommand /\ message \in rule.additionalMatch

\* The index of the first rule that matches, 0 for none.
FindMatch(message) == SelectInSeq(RuleTable, LAMBDA rule : Matches(rule, message))

\* The default answer to an unknown command: 0xFF with payload 01 <command>.
UnknownCommandResponse == Respond(2, NoFaults)

PlanFor(message) ==
    LET match == FindMatch(message)
    IN  IF match # 0 THEN RuleTable[match].plan ELSE UnknownCommandResponse

ValidateFaults(f, payload) == PlanExecutable(Options, f, payload)

=============================================================================
