------------------------------- MODULE Faults -------------------------------
(***************************************************************************)
(* Response plans and their faults (Rules.h), and what makes them          *)
(* executable (Rules.h and DeviceSimulatorServer.cpp).                     *)
(*                                                                         *)
(* Payloads and noise are represented by their lengths, a probability by   *)
(* the integer percentage it stands for.  The frame mutations              *)
(* (corruptChecksum, invalidLengthAdjustment) change bytes but no length,  *)
(* so only their ability to fail is kept.                                  *)
(***************************************************************************)
EXTENDS Frames

FaultInjectionOptions ==
    [delayMs : Int, dropProbability : Int, corruptChecksum : BOOLEAN,
     invalidLengthAdjustment : Int, noisePrefix : Nat, fragmentSizes : Seq(Int),
     fragmentDelayMs : Int, coalesceCount : Int, coalesceWindowMs : Int,
     disconnectAfterSend : BOOLEAN]

NoFaults ==
    [delayMs |-> 0, dropProbability |-> 0, corruptChecksum |-> FALSE,
     invalidLengthAdjustment |-> 0, noisePrefix |-> 0, fragmentSizes |-> <<>>,
     fragmentDelayMs |-> 0, coalesceCount |-> 1, coalesceWindowMs |-> 50,
     disconnectAfterSend |-> FALSE]

\* "Throws" is a handler that raises an exception instead of planning.
SimulationBehavior == {"Respond", "NoResponse", "DropResponse", "Disconnect", "Throws"}

\* payload is the length of the response's payload; it means nothing unless
\* hasResponse (std::optional<ProtocolResponse>).
ResponsePlan ==
    [behavior : SimulationBehavior, hasResponse : BOOLEAN,
     payload : Nat, faults : FaultInjectionOptions]

Respond(payload, faults) ==
    [behavior |-> "Respond", hasResponse |-> TRUE, payload |-> payload, faults |-> faults]

Silent(behavior) ==
    [behavior |-> behavior, hasResponse |-> FALSE, payload |-> 0, faults |-> NoFaults]

\* The largest delay and the longest noise that can be allowed.
MaxDelayMs == 300000
MaxNoiseLength == 65536

\* What DeviceSimulatorOptions::isValid accepts; start() refuses the rest.
ValidOptions ==
    [maxPayloadLength : 0..MaxUInt16, maxDelayMs : 0..MaxDelayMs,
     maxFragmentCount : 1..256, maxNoiseLength : 0..MaxNoiseLength, maxCoalesceCount : 1..64]

-----------------------------------------------------------------------------
(* What makes a plan executable. *)

\* Seeded fault: fragment sizes are not checked.
FaultsAreValidButSizes(f) ==
    /\ f.delayMs >= 0 /\ f.fragmentDelayMs >= 0 /\ f.coalesceWindowMs >= 0
    /\ f.dropProbability \in 0..100
    /\ f.coalesceCount >= 1
    /\ f.fragmentSizes = <<>> \/ f.coalesceCount = 1

FaultsAreValid(f) ==
    /\ f.delayMs >= 0 /\ f.fragmentDelayMs >= 0 /\ f.coalesceWindowMs >= 0
    /\ f.dropProbability \in 0..100
    /\ f.coalesceCount >= 1
    /\ \A i \in DOMAIN f.fragmentSizes : f.fragmentSizes[i] > 0
    /\ f.fragmentSizes = <<>> \/ f.coalesceCount = 1

\* Bytes handed to the socket for one response.
OutboundSize(payload, f) == FixedFrameOverhead + payload + f.noisePrefix

\* The server's last check, before it encodes the response.
PlanExecutable(limits, f, payload) ==
    /\ FaultsAreValid(f)
    /\ f.delayMs <= limits.maxDelayMs
    /\ f.fragmentSizes # <<>> => f.fragmentDelayMs <= limits.maxDelayMs
    /\ f.coalesceCount > 1 => f.coalesceWindowMs <= limits.maxDelayMs
    /\ Len(f.fragmentSizes) <= limits.maxFragmentCount
    /\ f.noisePrefix <= limits.maxNoiseLength
    /\ f.coalesceCount <= limits.maxCoalesceCount
    /\ payload + f.invalidLengthAdjustment \in 0..MaxUInt16
    /\ Total(f.fragmentSizes) <= OutboundSize(payload, f)

\* A draw is made only for a probability strictly between 0 and 1.
DrawsForDrop(f) == f.dropProbability > 0 /\ f.dropProbability < 100

\* below says how the draw came out; it matters only when there is one.
ShouldDrop(f, below) ==
    \/ f.dropProbability >= 100
    \/ DrawsForDrop(f) /\ below

=============================================================================
