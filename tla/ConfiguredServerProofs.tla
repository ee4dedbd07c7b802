------------------------ MODULE ConfiguredServerProofs ------------------------
(***************************************************************************)
(* Proofs about DeviceSimulatorServer run with a JSON document: for every  *)
(* document that loads and validates, the client of the server gets what   *)
(* the document says.                                                      *)
(*                                                                         *)
(* The plan for a message is the plan of the one rule the document has for *)
(* it (PlanDocumented), so what ServerRequestProofs shows in terms of      *)
(* plans holds in terms of the document.                                   *)
(***************************************************************************)
EXTENDS ConfiguredServer, ServerRequestProofs, ConfigurationProofs

\* The rules of the server are those of the document, one for one.
LEMMA TableDocumented ==
    /\ Len(RuleTable) \in Nat /\ DOMAIN RuleTable = 1..Len(RuleTable)
    /\ DOMAIN Configured.rules = DOMAIN RuleTable
    /\ \A n \in DOMAIN RuleTable :
         /\ RuleTable[n].requestCommand = HexByte(Configured.rules[n].requestCommand)
         /\ RuleTable[n].additionalMatch = Messages
         /\ RuleTable[n].plan = PlanOf(Configured.rules[n])
<1> DEFINE rules == Simulated.rules
<1>1. Len(RuleTable) \in Nat /\ DOMAIN RuleTable = 1..Len(RuleTable)
  BY RuleTableAssumption, LenProperties
<1>2. rules = [n \in DOMAIN Configured.rules |->
                  [requestCommand |-> HexByte(Configured.rules[n].requestCommand),
                   plan |-> PlanOf(Configured.rules[n])]]
  BY DEF Simulated, ServerOf
<1>3. RuleTable = [n \in DOMAIN rules |->
                      [requestCommand |-> rules[n].requestCommand,
                       additionalMatch |-> Messages, plan |-> rules[n].plan]]
  BY ServerAssumptions DEF SimulatedRules
<1> HIDE DEF rules
<1>4. DOMAIN RuleTable = DOMAIN rules /\ DOMAIN rules = DOMAIN Configured.rules
  BY <1>2, <1>3
<1> QED
  BY <1>1, <1>2, <1>3, <1>4

\* What a valid document says in a rule, and the plan it makes.
LEMMA RuleDocumented ==
    ASSUME NEW n \in DOMAIN Configured.rules
    PROVE  LET rule == Configured.rules[n]
               plan == PlanOf(rule)
           IN  /\ HexByte(rule.requestCommand) = HexValue[rule.requestCommand[1]]
               /\ ~Duplicate(Configured.rules, n)
               /\ ParsesAsHexByte(rule.requestCommand)
               /\ Responds(rule) <=> plan.behavior = "Respond"
               /\ Responds(rule) => /\ plan.faults = FaultsOf(rule.faults)
                                    /\ plan.payload = Len(rule.response.payloadHex)
                                    /\ plan.faults.noisePrefix = Len(rule.faults.noisePrefixHex)
               /\ ~Responds(rule) => plan.faults = NoFaults /\ ~rule.faults.disconnectAfterSend
<1> DEFINE rule == Configured.rules[n]
           limits == Configured.limits
<1>1. RuleErrors(Configured.rules, n, limits) = {}
  BY DocumentAssumption, PartsValid
<1>2. /\ ParsesAsHexByte(rule.requestCommand) /\ ~Duplicate(Configured.rules, n)
      /\ rule.behavior \in Behaviors
      /\ FaultErrors(rule.faults, limits) = {}
      /\ rule.behavior = <<"Respond">> => RespondErrors(rule, limits) = {}
  BY <1>1, RuleValid
<1>3. HexByte(rule.requestCommand) = HexValue[rule.requestCommand[1]]
  BY <1>2 DEF HexByte
<1>4. ParsesAsHexBytes(rule.faults.noisePrefixHex)
  BY <1>2, FaultsValid
<1>5. CASE Responds(rule)
  <2>1. ParsesAsHexBytes(rule.response.payloadHex)
    BY <1>2, <1>5, RespondValid DEF Responds
  <2>2. PlanOf(rule) = Respond(HexLength(rule.response.payloadHex), FaultsOf(rule.faults))
    BY <1>5 DEF Responds, PlanOf
  <2>3. PlanOf(rule).behavior = "Respond" /\ PlanOf(rule).faults = FaultsOf(rule.faults)
        /\ PlanOf(rule).payload = Len(rule.response.payloadHex)
    BY <2>1, <2>2 DEF Respond, HexLength
  <2>4. FaultsOf(rule.faults).noisePrefix = Len(rule.faults.noisePrefixHex)
    BY <1>4 DEF FaultsOf, HexLength
  <2> QED
    BY <1>2, <1>3, <1>5, <2>3, <2>4
<1>6. CASE ~Responds(rule)
  <2>1. PlanOf(rule) = Silent(rule.behavior[1])
    BY <1>6 DEF Responds, PlanOf
  <2>2. rule.behavior[1] # "Respond"
    BY <1>2, <1>6 DEF Responds, Behaviors
  <2>3. PlanOf(rule).behavior # "Respond" /\ PlanOf(rule).faults = NoFaults
    BY <2>1, <2>2 DEF Silent
  <2>4. Check(~rule.faults.disconnectAfterSend, "disconnectAfterSend") = {}
    BY <1>1, <1>2, <1>6 DEF RuleErrors, Responds
  <2>5. ~rule.faults.disconnectAfterSend
    BY <2>4 DEF Check
  <2> QED
    BY <1>2, <1>3, <1>6, <2>3, <2>5
<1> QED
  BY <1>5, <1>6

\* Two rules of a valid document are for different commands.
LEMMA RulesDiffer ==
    ASSUME NEW i \in DOMAIN Configured.rules, NEW j \in DOMAIN Configured.rules,
           HexByte(Configured.rules[i].requestCommand)
               = HexByte(Configured.rules[j].requestCommand)
    PROVE  i = j
<1>1. i \in 1..Len(RuleTable) /\ j \in 1..Len(RuleTable) /\ Len(RuleTable) \in Nat
  BY TableDocumented
<1>2. /\ ~Duplicate(Configured.rules, i) /\ ~Duplicate(Configured.rules, j)
      /\ ParsesAsHexByte(Configured.rules[i].requestCommand)
      /\ ParsesAsHexByte(Configured.rules[j].requestCommand)
  BY RuleDocumented
<1>3. ~(i < j) /\ ~(j < i)
  BY <1>1, <1>2 DEF Duplicate
<1> QED
  BY <1>1, <1>3

\* The plan for a message is that of the document's only rule for it.
LEMMA PlanDocumented ==
    ASSUME NEW m \in Messages
    PROVE  \/ RulesFor(m) = {} /\ PlanFor(m) = UnknownCommandResponse
           \/ \E n \in DOMAIN Configured.rules :
                  RulesFor(m) = {n} /\ PlanFor(m) = PlanOf(Configured.rules[n])
<1> DEFINE I == {i \in 1..Len(RuleTable) : Matches(RuleTable[i], m)}
           found == IF I # {} THEN CHOOSE x \in I : \A y \in I : x <= y ELSE 0
<1>1. FindMatch(m) = found
  BY DEF FindMatch, SelectInSeq, Min
<1>2. I = RulesFor(m)
  <2>1. DOMAIN Configured.rules = 1..Len(RuleTable)
    BY TableDocumented
  <2>2. \A n \in 1..Len(RuleTable) :
            Matches(RuleTable[n], m)
                <=> HexValue[Configured.rules[n].requestCommand[1]] = m.command
    BY <2>1, TableDocumented, RuleDocumented DEF Matches
  <2> QED
    BY <2>1, <2>2 DEF RulesFor
<1>3. \A i, j \in I : i = j
  BY <1>2, RulesDiffer, RuleDocumented DEF RulesFor
<1>4. I \subseteq 1..Len(RuleTable) /\ Len(RuleTable) \in Nat
  BY TableDocumented
<1>5. CASE I = {}
  <2>1. found = 0
    BY <1>5
  <2> QED
    BY <1>1, <1>2, <1>5, <2>1 DEF PlanFor
<1>6. CASE I # {}
  <2>1. PICK n \in I : I = {n}
    BY <1>3, <1>6
  <2>2. n \in Nat /\ n # 0 /\ n \in DOMAIN Configured.rules
    BY <1>4, TableDocumented
  <2>3. found = n
    <3> HIDE DEF I
    <3> QED
      BY <2>1, <2>2
  <2>4. PlanFor(m) = RuleTable[n].plan
    <3> HIDE DEF found
    <3> QED
      BY <1>1, <2>2, <2>3 DEF PlanFor
  <2> QED
    BY <1>2, <2>1, <2>2, <2>4, TableDocumented
<1> QED
  BY <1>5, <1>6

\* What the plans promise for each message is what the document does.
LEMMA PromisesDocumented ==
    /\ DocumentedAnswers = MustReplyMessages
    /\ DocumentedChances = MayReplyMessages
    /\ DocumentedFarewells = FarewellMessages
<1>1. ASSUME NEW m \in Messages
      PROVE  /\ m \in DocumentedAnswers <=> MustAnswer(PlanFor(m))
             /\ m \in DocumentedChances <=> MayAnswer(PlanFor(m))
             /\ m \in DocumentedFarewells <=> PlanFor(m).faults.disconnectAfterSend
  <2>1. CASE RulesFor(m) = {} /\ PlanFor(m) = UnknownCommandResponse
    <3>1. /\ PlanFor(m).behavior = "Respond" /\ PlanFor(m).faults.dropProbability = 0
          /\ ~PlanFor(m).faults.disconnectAfterSend
      BY <2>1 DEF UnknownCommandResponse, Respond, NoFaults
    <3> QED
      BY <2>1, <3>1 DEF DocumentedAnswers, DocumentedChances, DocumentedFarewells, SomeRule,
         MustAnswer, MayAnswer
  <2>2. ASSUME NEW n \in DOMAIN Configured.rules,
               RulesFor(m) = {n}, PlanFor(m) = PlanOf(Configured.rules[n])
        PROVE  /\ m \in DocumentedAnswers <=> MustAnswer(PlanFor(m))
               /\ m \in DocumentedChances <=> MayAnswer(PlanFor(m))
               /\ m \in DocumentedFarewells <=> PlanFor(m).faults.disconnectAfterSend
    <3> DEFINE rule == Configured.rules[n]
               plan == PlanFor(m)
    <3>1. /\ Responds(rule) <=> plan.behavior = "Respond"
          /\ Responds(rule) => plan.faults = FaultsOf(rule.faults)
          /\ ~Responds(rule) => plan.faults = NoFaults /\ ~rule.faults.disconnectAfterSend
      BY <2>2, RuleDocumented
    <3>2. /\ Responds(rule) => /\ plan.faults.dropProbability = rule.faults.dropProbability
                               /\ plan.faults.disconnectAfterSend
                                      = rule.faults.disconnectAfterSend
          /\ ~Responds(rule) => ~plan.faults.disconnectAfterSend
      BY <3>1 DEF FaultsOf, NoFaults
    <3>3. /\ m \in DocumentedAnswers <=> Responds(rule) /\ rule.faults.dropProbability = 0
          /\ m \in DocumentedChances <=> Responds(rule) /\ rule.faults.dropProbability < 100
          /\ m \in DocumentedFarewells <=> rule.faults.disconnectAfterSend
      BY <2>2 DEF DocumentedAnswers, DocumentedChances, DocumentedFarewells, SomeRule
    <3> HIDE DEF rule, plan
    <3> QED
      BY <3>1, <3>2, <3>3 DEF MustAnswer, MayAnswer, plan
  <2> QED
    BY <2>1, <2>2, PlanDocumented
<1>2. /\ DocumentedAnswers \subseteq Messages /\ DocumentedChances \subseteq Messages
      /\ DocumentedFarewells \subseteq Messages
  BY DEF DocumentedAnswers, DocumentedChances, DocumentedFarewells
<1> QED
  BY <1>1, <1>2 DEF MustReplyMessages, MayReplyMessages, FarewellMessages

-----------------------------------------------------------------------------
(* The service the document describes. *)

\* The service of the document is the service of the plans.
LEMMA ServiceDocumented ==
    /\ Abstract!ServiceInit => Documented!ServiceInit
    /\ [Abstract!ServiceNext]_(Abstract!serviceVars)
         => [Documented!ServiceNext]_(Documented!serviceVars)
<1> USE PromisesDocumented
<1>1. Abstract!ServiceInit => Documented!ServiceInit
  BY DEF Abstract!ServiceInit, Abstract!NoSession, Documented!ServiceInit, Documented!NoSession
<1>2. Abstract!serviceVars = Documented!serviceVars
  BY DEF Abstract!serviceVars, Documented!serviceVars
<1>3. UNCHANGED Abstract!serviceVars => UNCHANGED Documented!serviceVars
  BY DEF Abstract!serviceVars, Documented!serviceVars
<1>4. Abstract!Open => Documented!Open
  BY DEF Abstract!Open, Documented!Open
<1>5. Abstract!Close => Documented!Close
  BY DEF Abstract!Close, Documented!Close, Abstract!NoSession, Documented!NoSession
<1>6. Abstract!Turn => Documented!Turn
  <2>1. Abstract!Take => Documented!Take
    BY DEF Abstract!Take, Documented!Take, Abstract!SaidFarewell, Documented!SaidFarewell,
           Abstract!Reply, Documented!Reply
  <2>2. Abstract!Give => Documented!Give
    BY DEF Abstract!Give, Documented!Give, Abstract!Reply, Documented!Reply
  <2>3. Abstract!Publish => Documented!Publish
    <3>1. \A S : Abstract!Cardinality(S) = Documented!Cardinality(S)
      BY DEF Abstract!Cardinality, Documented!Cardinality
    <3>2. \A frames : Abstract!Telemetry(frames) = Documented!Telemetry(frames)
      BY <3>1 DEF Abstract!Telemetry, Documented!Telemetry, Abstract!Count, Documented!Count
    <3> QED
      BY <3>2 DEF Abstract!Publish, Documented!Publish, Abstract!SaidFarewell,
         Documented!SaidFarewell
  <2>4. \A s, t : Abstract!IsPrefix(s, t) => Documented!IsPrefix(s, t)
    BY DEF Abstract!IsPrefix, Documented!IsPrefix
  <2> QED
    BY <2>1, <2>2, <2>3, <2>4 DEF Abstract!Turn, Documented!Turn
<1> QED
  BY <1>1, <1>3, <1>4, <1>5, <1>6, Zenon DEF Abstract!ServiceNext, Documented!ServiceNext

\* A client of the simulator gets the service its configuration file describes,
\* whatever valid file that is (Configuration.cpp:669-766, Rules.h:66-147,
\* DeviceSimulatorServer.cpp:440-642).
THEOREM DocumentIsHonoured == Spec => DocumentHonoured
<1>1. Init => Documented!ServiceInit
  <2>1. Init => ~IsOpen
    BY DEF Init, IsOpen
  <2> QED
    BY <2>1 DEF Documented!ServiceInit, Documented!NoSession
<1>2. RequestInvariant /\ RequestInvariant' /\ [Next]_vars =>
        [Documented!ServiceNext]_(Documented!serviceVars)
  BY StepServes, MovesRefines, ServiceDocumented DEF RequestInvariant, Serves
<1> QED
  BY <1>1, <1>2, RequestInvariance, PTL DEF Spec, DocumentHonoured, Documented!Service


-----------------------------------------------------------------------------
(* What is written of a reply. *)

\* More pieces begin no fewer transmissions, and as many only if none of them
\* begins one.
LEMMA BeginningsBetween ==
    ASSUME NEW pieces, NEW i \in Nat, NEW j \in 0..i
    PROVE  /\ Beginnings(pieces, i) \in Nat /\ Beginnings(pieces, j) \in Nat
           /\ Beginnings(pieces, j) <= Beginnings(pieces, i)
           /\ Beginnings(pieces, j) = Beginnings(pieces, i)
                <=> \A m \in (j + 1)..i : pieces[m].from # 0
<1> DEFINE B(k) == {m \in 1..k : pieces[m].from = 0}
<1>1. IsFiniteSet(1..i) /\ B(i) \subseteq 1..i /\ B(j) \subseteq B(i)
  BY FS_Interval
<1>2. IsFiniteSet(B(i)) /\ IsFiniteSet(B(j))
  BY <1>1, FS_Subset
<1>3. Beginnings(pieces, i) = Cardinality(B(i)) /\ Beginnings(pieces, j) = Cardinality(B(j))
  BY DEF Beginnings
<1>4. B(j) = B(i) <=> \A m \in (j + 1)..i : pieces[m].from # 0
  <2>1. \A m \in 1..i : m \in 1..j \/ m \in (j + 1)..i
    OBVIOUS
  <2>2. \A m \in (j + 1)..i : m \in 1..i /\ m \notin 1..j
    OBVIOUS
  <2> QED
    BY <1>1, <2>1, <2>2
<1> HIDE DEF B
<1>5. /\ Cardinality(B(i)) \in Nat /\ Cardinality(B(j)) \in Nat
      /\ Cardinality(B(j)) <= Cardinality(B(i))
      /\ Cardinality(B(j)) = Cardinality(B(i)) => B(j) = B(i)
  BY <1>1, <1>2, FS_Subset, FS_CardinalityType
<1> QED
  BY <1>3, <1>4, <1>5

\* The fragments up to any one end within those listed.
LEMMA ReachWithin ==
    ASSUME NEW sizes \in Seq(Nat), NEW k \in 0..Len(sizes)
    PROVE  Reach(sizes, k) <= Total(sizes)
<1> DEFINE n == Len(sizes)
           S == {d \in Nat : d <= n => Reach(sizes, n - d) <= Total(sizes)}
<1>1. /\ n \in Nat /\ Reach(sizes, n) = Total(sizes)
      /\ \A i \in 0..n : Reach(sizes, i) \in Nat
      /\ \A i \in 1..n : Reach(sizes, i) = Reach(sizes, i - 1) + sizes[i] /\ sizes[i] \in Nat
  BY ReachStep, LenProperties
<1> HIDE DEF n
<1>2. 0 \in S
  BY <1>1
<1>3. ASSUME NEW d \in S PROVE d + 1 \in S
  <2> SUFFICES ASSUME d + 1 <= n PROVE Reach(sizes, n - (d + 1)) <= Total(sizes)
    OBVIOUS
  <2> DEFINE i == n - d
  <2>0. d \in Nat /\ d <= n /\ (d <= n => Reach(sizes, n - d) <= Total(sizes))
    BY <1>1
  <2>1. /\ i \in 1..n /\ i \in 0..n /\ i - 1 \in 0..n /\ n - (d + 1) = i - 1 /\ n \in 0..n
        /\ Reach(sizes, i) <= Total(sizes)
    BY <1>1, <2>0
  <2> HIDE DEF i, S
  <2>2. /\ Reach(sizes, i) = Reach(sizes, i - 1) + sizes[i] /\ sizes[i] \in Nat
        /\ Reach(sizes, i - 1) \in Nat /\ Reach(sizes, n) \in Nat
    BY <1>1, <2>1
  <2>3. Reach(sizes, i - 1) <= Total(sizes)
    BY <1>1, <2>1, <2>2
  <2> QED
    BY <2>1, <2>3
<1>4. Nat \subseteq S
  <2> HIDE DEF S
  <2>1. \A d \in Nat : d \in S => d + 1 \in S
    BY <1>3
  <2> QED
    BY <1>2, <2>1, Induction
<1>5. n - k \in Nat /\ n - k <= n /\ n - (n - k) = k
  BY <1>1 DEF n
<1>6. n - k \in S
  BY <1>4, <1>5
<1> QED
  BY <1>5, <1>6

\* A piece of a frame that fits its fragments has the size listed for it or, if
\* there is none, what they leave over.
LEMMA CutSize ==
    ASSUME NEW piece \in Piece, NEW k, Cut(piece, k),
           Total(piece.of.fragmentSizes) <= piece.of.size,
           piece.from # piece.of.size
    PROVE  LET sizes == piece.of.fragmentSizes
               rest == piece.of.size - Total(sizes)
           IN  /\ k \in 1..Len(sizes) => piece.to - piece.from = sizes[k]
               /\ k \notin 1..Len(sizes) => /\ k = Len(sizes) + 1 /\ rest > 0
                                            /\ piece.to - piece.from = rest
<1> DEFINE sizes == piece.of.fragmentSizes
           n == Len(sizes)
           size == piece.of.size
           total == Total(sizes)
<1>1. /\ sizes \in Seq(Nat) /\ size \in Nat /\ n \in Nat
  BY LenProperties DEF Piece, Transmission
<1>2. /\ total \in Nat /\ Reach(sizes, n) = total
      /\ \A i \in 1..n : /\ Reach(sizes, i) = Reach(sizes, i - 1) + sizes[i]
                         /\ Reach(sizes, i) \in Nat /\ Reach(sizes, i - 1) \in Nat
                         /\ sizes[i] \in Nat
                         /\ Reach(sizes, i) <= total
  <2>1. /\ \A i \in 0..n : Reach(sizes, i) \in Nat
        /\ \A i \in 1..n : Reach(sizes, i) = Reach(sizes, i - 1) + sizes[i]
        /\ Reach(sizes, n) = total
    BY <1>1, ReachStep
  <2>2. \A i \in 1..n : i \in 0..n /\ i - 1 \in 0..n /\ sizes[i] \in Nat
    BY <1>1
  <2>3. \A i \in 0..n : Reach(sizes, i) <= total
    BY <1>1, ReachWithin
  <2> QED
    BY <1>1, <2>1, <2>2, <2>3
<1>3. /\ k \in 1..(n + 1) /\ piece.from = Reach(sizes, k - 1)
      /\ piece.to = LET reach == IF k <= n THEN Reach(sizes, k) ELSE size
                    IN  IF reach > size THEN size ELSE reach
  BY DEF Cut
<1>4. total <= size /\ piece.from # size
  OBVIOUS
<1> HIDE DEF sizes, n, size, total
<1>5. CASE k \in 1..n
  <2>1. k <= n /\ ~(Reach(sizes, k) > size)
    BY <1>1, <1>2, <1>4, <1>5
  <2>2. piece.to = Reach(sizes, k)
    BY <1>3, <2>1
  <2>3. Reach(sizes, k) = Reach(sizes, k - 1) + sizes[k]
        /\ Reach(sizes, k - 1) \in Nat /\ sizes[k] \in Nat
    BY <1>2, <1>5
  <2>4. piece.to - piece.from = sizes[k]
    BY <1>3, <2>2, <2>3
  <2> QED
    BY <1>5, <2>4 DEF sizes, n
<1>6. CASE k \notin 1..n
  <2>1. k = n + 1 /\ ~(k <= n) /\ k - 1 = n
    BY <1>1, <1>3, <1>6
  <2>2. piece.from = total /\ piece.to = size
    BY <1>1, <1>2, <1>3, <2>1
  <2> QED
    BY <1>1, <1>2, <1>4, <1>6, <2>1, <2>2 DEF sizes, n, total, size
<1> QED
  BY <1>5, <1>6


\* A piece of a reply carries a member of the line of replies, and the pieces
\* that carry the same one are those since it began.
LEMMA ReplyPieces ==
    ASSUME NEW s, s \in Server, Wired(s), NEW n, InOrder(Outgoing(s), n), n \in Nat,
           NEW i \in DOMAIN WirePieces(s), ~WirePieces(s)[i].of.telemetry
    PROVE  LET pieces == WirePieces(s)
           IN  /\ \E r \in Replies(Outgoing(s)) : Outgoing(s)[r] = pieces[i].of
               /\ Cardinality(Carriers(pieces, i, pieces[i].of.id)) = Ordinal(pieces, i)
<1> DEFINE pieces == WirePieces(s)
           started == StartedTransmissions(s)
           line == Outgoing(s)
           b(j) == Beginnings(pieces, j)
           id == pieces[i].of.id
           same == Carriers(pieces, i, id)
           since == {j \in 1..i : \A m \in (j + 1)..i : pieces[m].from # 0}
<1>1. /\ pieces \in Seq(Piece) /\ started \in Seq(Transmission)
      /\ line = started \o s.outputQueue /\ s.outputQueue \in Seq(Transmission)
  BY WireTypes, FieldTypes DEF Outgoing
<1>2. /\ Len(pieces) \in Nat /\ i \in 1..Len(pieces) /\ DOMAIN pieces = 1..Len(pieces)
      /\ i \in Nat
  BY <1>1, LenProperties
<1>3. \A k \in DOMAIN started : k \in DOMAIN line /\ line[k] = started[k]
  BY <1>1
<1>4. ASSUME NEW j \in 1..i
      PROVE  b(j) \in DOMAIN line /\ line[b(j)] = pieces[j].of
  <2>1. j \in DOMAIN pieces
    BY <1>2
  <2>2. b(j) \in DOMAIN started /\ started[b(j)] = pieces[j].of
    BY <2>1 DEF Wired, AllCut
  <2> HIDE DEF b, pieces
  <2> QED
    BY <1>3, <2>2
<1>5. ASSUME NEW j \in 1..i, ~pieces[j].of.telemetry PROVE b(j) \in Replies(line)
  BY <1>4, <1>5 DEF Replies, TelemetryIn
<1>6. ASSUME NEW j \in 1..i
      PROVE  /\ b(i) \in Nat /\ b(j) \in Nat /\ b(j) <= b(i)
             /\ b(j) = b(i) <=> j \in since
  <2>1. j \in 0..i
    BY <1>2
  <2> QED
    BY <1>2, <2>1, BeginningsBetween
<1>7. i \in 1..i /\ ~pieces[i].of.telemetry
  BY <1>2
<1> HIDE DEF pieces, started, line, b, id, since
<1>8. ASSUME NEW j \in 1..i PROVE j \in same <=> j \in since
  <2>1. j \in same <=> ~pieces[j].of.telemetry /\ pieces[j].of.id = id
    BY DEF Carriers
  <2>2. ASSUME j \in since PROVE j \in same
    <3>1. pieces[j].of = pieces[i].of
      BY <1>4, <1>6, <1>7, <2>2
    <3> QED
      BY <1>7, <2>1, <3>1 DEF id
  <2>3. ASSUME j \in same, j \notin since PROVE FALSE
    <3>1. b(j) < b(i) /\ b(j) \in Replies(line) /\ b(i) \in Replies(line)
      BY <1>5, <1>6, <1>7, <2>1, <2>3
    <3>2. /\ line[b(j)].id < line[b(i)].id
          /\ line[b(j)].id \in 1..n /\ line[b(i)].id \in 1..n
      BY <3>1 DEF InOrder, line
    <3>3. line[b(j)].id = line[b(i)].id
      BY <1>4, <1>7, <2>1, <2>3 DEF id
    <3> QED
      BY <3>2, <3>3
  <2> QED
    BY <2>2, <2>3
<1>9. same = since
  <2>1. same \subseteq 1..i /\ since \subseteq 1..i
    BY DEF Carriers, since
  <2> QED
    BY <1>8, <2>1
<1>10. Cardinality(same) = Ordinal(pieces, i)
  BY <1>9 DEF Ordinal, since
<1>11. \E r \in Replies(line) : line[r] = pieces[i].of
  BY <1>4, <1>5, <1>7
<1> QED
  BY <1>10, <1>11 DEF pieces, line, id

\* A piece that is not the first of its transmission has bytes left to carry.
LEMMA PieceBegins ==
    ASSUME NEW pieces \in Seq(Piece), Contiguous(pieces), NEW i \in DOMAIN pieces,
           pieces[i].from # 0
    PROVE  pieces[i].from # pieces[i].of.size
<1>1. /\ ~(i = 1 \/ pieces[i - 1].to = pieces[i - 1].of.size)
      /\ pieces[i].of = pieces[i - 1].of /\ pieces[i].from = pieces[i - 1].to
  BY DEF Contiguous, Follows
<1> QED
  BY <1>1

\* The sizes of the writes that a plan's reply takes are those the document lists.
LEMMA WritesDocumented ==
    ASSUME NEW m \in Messages, MayAnswer(PlanFor(m)), Executable(PlanFor(m))
    PROVE  LET plan == PlanFor(m)
               sizes == plan.faults.fragmentSizes
               size == OutboundSize(plan.payload, plan.faults)
               rest == size - Total(sizes)
           IN  /\ Total(sizes) <= size
               /\ DocumentedWrites(m) = IF rest > 0 THEN Append(sizes, rest) ELSE sizes
<1> DEFINE plan == PlanFor(m)
           sizes == plan.faults.fragmentSizes
           size == OutboundSize(plan.payload, plan.faults)
           rest == size - Total(sizes)
<1>0. plan.payload \in Nat /\ plan.faults.noisePrefix \in Nat /\ Total(sizes) \in Nat
  <2>1. plan \in ResponsePlan
    BY PlanTypes
  <2>2. plan.payload \in Nat /\ plan.faults \in ValidFaults
    BY <2>1 DEF ResponsePlan, ValidFaults, Executable, ValidateFaults, PlanExecutable
  <2>3. sizes \in Seq(Nat) /\ plan.faults.noisePrefix \in Nat
    BY <2>2, FaultOptionTypes
  <2> HIDE DEF plan, sizes
  <2>4. Total(sizes) \in Nat
    BY <2>3, SumType DEF Total, SumOf
  <2> QED
    BY <2>2, <2>3, <2>4
<1>1. Total(sizes) <= size /\ plan.behavior = "Respond"
  BY DEF Executable, ValidateFaults, PlanExecutable
<1>2. ASSUME RulesFor(m) = {}, plan = UnknownCommandResponse
      PROVE  DocumentedWrites(m) = IF rest > 0 THEN Append(sizes, rest) ELSE sizes
  <2>1. /\ sizes = <<>> /\ plan.payload = 2 /\ plan.faults.noisePrefix = 0
    BY <1>2 DEF UnknownCommandResponse, Respond, NoFaults
  <2>2. Total(sizes) = 0
    BY <2>1, SumOfNone DEF Total, SumOf
  <2>3. rest = FixedFrameOverhead + 2 /\ rest > 0
    BY <2>1, <2>2 DEF OutboundSize, FixedFrameOverhead
  <2>4. DocumentedWrites(m) = <<FixedFrameOverhead + 2>>
    BY <1>2 DEF DocumentedWrites
  <2>5. \A x : Append(<<>>, x) = <<x>>
    OBVIOUS
  <2> HIDE DEF sizes, rest
  <2> QED
    BY <2>1, <2>3, <2>4, <2>5
<1>3. ASSUME NEW k \in DOMAIN Configured.rules,
             RulesFor(m) = {k}, plan = PlanOf(Configured.rules[k])
      PROVE  DocumentedWrites(m) = IF rest > 0 THEN Append(sizes, rest) ELSE sizes
  <2> DEFINE rule == Configured.rules[k]
  <2>1. /\ Responds(rule) /\ plan.faults = FaultsOf(rule.faults)
        /\ plan.payload = Len(rule.response.payloadHex)
        /\ plan.faults.noisePrefix = Len(rule.faults.noisePrefixHex)
    BY <1>1, <1>3, RuleDocumented
  <2>2. sizes = rule.faults.fragmentSizes
    BY <2>1 DEF FaultsOf
  <2>3. size = FixedFrameOverhead + Len(rule.response.payloadHex)
                   + Len(rule.faults.noisePrefixHex)
    BY <2>1 DEF OutboundSize
  <2>4. RulesFor(m) # {} /\ (CHOOSE x \in RulesFor(m) : TRUE) = k
    BY <1>3
  <2> DEFINE listed == rule.faults.fragmentSizes
             more == FixedFrameOverhead + Len(rule.response.payloadHex)
                         + Len(rule.faults.noisePrefixHex) - Total(listed)
  <2>5. DocumentedWrites(m) = IF more > 0 THEN Append(listed, more) ELSE listed
    BY <2>4 DEF DocumentedWrites
  <2>6. listed = sizes
    BY <2>2
  <2>7. more = rest
    <3> DEFINE length == Len(rule.response.payloadHex)
               noise == Len(rule.faults.noisePrefixHex)
               total == Total(sizes)
    <3>1. length \in Nat /\ noise \in Nat /\ total \in Nat /\ FixedFrameOverhead \in Nat
      BY <1>0, <2>1 DEF FixedFrameOverhead
    <3>2. /\ size = FixedFrameOverhead + length + noise /\ rest = size - total
          /\ more = FixedFrameOverhead + length + noise - total
      BY <2>3, <2>6
    <3> HIDE DEF length, noise, total, more, rest, size
    <3> QED
      BY <3>1, <3>2
  <2> HIDE DEF listed, more, sizes, rest
  <2> QED
    BY <2>5, <2>6, <2>7
<1> QED
  BY <1>1, <1>2, <1>3, PlanDocumented


\* Every piece of a reply on the wire is the next write the document lists for
\* the request, whatever was sent in between, for every valid document
\* (Configuration.cpp:700-744, DeviceSimulatorServer.cpp:305-345, 575-642).
THEOREM WritesFollowDocument == Spec => []WritesAsDocumented
<1>1. RequestInvariant => WritesAsDocumented
  <2> DEFINE pieces == WirePieces(srv)
             line == Outgoing(srv)
  <2> SUFFICES ASSUME RequestInvariant, srv.client, NEW i \in DOMAIN pieces,
                      ~pieces[i].of.telemetry
               PROVE  LET id == pieces[i].of.id
                          writes == DocumentedWrites(srv.received[id])
                          n == Cardinality(Carriers(pieces, i, id))
                      IN  n <= Len(writes) /\ pieces[i].to - pieces[i].from = writes[n]
    BY DEF WritesAsDocumented, WrittenAsDocumented, IsNthWrite
  <2> DEFINE p == pieces[i]
             m == srv.received[p.of.id]
             plan == PlanFor(m)
             sizes == plan.faults.fragmentSizes
             size == OutboundSize(plan.payload, plan.faults)
             rest == size - Total(sizes)
             n == Cardinality(Carriers(pieces, i, p.of.id))
             writes == DocumentedWrites(m)
  <2>1. /\ srv \in Server /\ Wired(srv) /\ Contiguous(pieces)
        /\ AllCut(pieces, StartedTransmissions(srv))
        /\ InOrder(line, Done(srv)) /\ AsPlanned(line, srv.received) /\ Done(srv) \in Nat
        /\ Done(srv) <= Consumed(srv) /\ Aligned(srv)
    BY DoneTypes DEF RequestInvariant, RequestInv, OutputInv, Inv, Settled, Wired, Serving, Told
  <2>2. pieces \in Seq(Piece) /\ p \in Piece /\ line \in Seq(Transmission)
    BY <2>1, WireTypes, LenProperties
  <2>3. /\ \E r \in Replies(line) : line[r] = p.of
        /\ n = Ordinal(pieces, i)
    BY <2>1, ReplyPieces
  <2>4. Cut(p, n)
    BY <2>1, <2>3 DEF AllCut
  <2>5. i \in Nat \ {0}
    BY <2>2, LenProperties
  <2> HIDE DEF pieces, line, n
  <2>6. PICK r \in Replies(line) : line[r] = p.of
    BY <2>3
  <2>7. p.of.id \in 1..Done(srv) /\ MayAnswer(plan) /\ Carries(p.of, plan)
    BY <2>1, <2>6 DEF InOrder, AsPlanned
  <2>8. m \in Messages
    <3>1. /\ srv.received \in Seq(Messages) /\ Len(srv.received) \in Nat
          /\ Consumed(srv) \in Nat /\ Consumed(srv) <= Len(srv.received)
      BY <2>1, FieldTypes, ConsumedTypes, LenProperties DEF Aligned, Consumed
    <3>2. p.of.id \in 1..Len(srv.received)
      BY <2>1, <2>7, <3>1
    <3> QED
      BY <3>1, <3>2, ElementOfSeq
  <2>9. /\ p.of.size = size /\ p.of.fragmentSizes = sizes /\ Executable(plan)
    BY <2>7 DEF Carries
  <2>10. /\ Total(sizes) <= size
         /\ writes = IF rest > 0 THEN Append(sizes, rest) ELSE sizes
    BY <2>7, <2>8, <2>9, WritesDocumented
  <2>11. p.from # size
    <3>1. CASE p.from # 0
      BY <2>1, <2>2, <2>9, <3>1, PieceBegins DEF pieces
    <3>2. CASE p.from = 0
      <4>1. plan.payload \in Nat /\ plan.faults.noisePrefix \in Nat
        <5>1. plan \in ResponsePlan
          BY <2>8, PlanTypes
        <5> QED
          BY <5>1 DEF ResponsePlan, FaultInjectionOptions
      <4>2. size # 0
        BY <4>1 DEF OutboundSize, FixedFrameOverhead
      <4> QED
        BY <3>2, <4>2
    <3> QED
      BY <3>1, <3>2
  <2> DEFINE pSizes == p.of.fragmentSizes
             pRest == p.of.size - Total(pSizes)
  <2>12. /\ n \in 1..Len(pSizes) => p.to - p.from = pSizes[n]
         /\ n \notin 1..Len(pSizes) => /\ n = Len(pSizes) + 1 /\ pRest > 0
                                      /\ p.to - p.from = pRest
    <3> HIDE DEF p
    <3>1. Total(pSizes) <= p.of.size /\ p.from # p.of.size
      BY <2>9, <2>10, <2>11
    <3> QED
      BY <2>2, <2>4, <3>1, CutSize
  <2>13. pSizes = sizes /\ pRest = rest
    BY <2>9
  <2>14. pSizes \in Seq(Nat) /\ pRest \in Int
    <3> HIDE DEF p
    <3>1. pSizes \in Seq(Nat) /\ p.of.size \in Nat
      BY <2>2 DEF Piece, Transmission
    <3>2. Total(pSizes) \in Nat
      BY <3>1, SumType DEF Total, SumOf
    <3> QED
      BY <3>1, <3>2
  <2> HIDE DEF p, m, sizes, rest, writes, pSizes, pRest
  <2>15. n <= Len(writes) /\ p.to - p.from = writes[n]
    BY <2>10, <2>12, <2>13, <2>14
  <2> QED
    BY <2>15 DEF p, m, n, writes
<1> QED
  BY <1>1, RequestInvariance, PTL
=============================================================================
