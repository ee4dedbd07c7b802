-------------------------- MODULE ServerRequestProofs --------------------------
(***************************************************************************)
(* Proofs about the requests of DeviceSimulatorServer: what is queued,     *)
(* taken and answered, in which order, and how a session takes its leave.  *)
(*                                                                         *)
(* Serving(s) relates the requests of a session to its line of outgoing    *)
(* transmissions.  Inside a callback a request may be in hand: taken from  *)
(* the queue, or its delayed answer come due, and not answered yet         *)
(* (InHand).  Dealt(s, t) says how a request in hand is dealt with, and    *)
(* one lemma for each part of Serving shows that the part holds again.     *)
(* Last comes the proof that the server implements ReplyService.           *)
(***************************************************************************)
EXTENDS ServerOutputProofs, FiniteSetTheorems, ServerRefinesService

Replies(line) == DOMAIN line \ TelemetryIn(line)

\* The requests of the session that have been dealt with.
Done(s) == IF s.processingRequest THEN Consumed(s) - 1 ELSE Consumed(s)

\* The queue holds the last of the session's requests, in their order.
Aligned(s) ==
    /\ Len(s.requestQueue) <= Len(s.received)
    /\ \A i \in DOMAIN s.requestQueue :
         /\ s.requestQueue[i].id = Consumed(s) + i
         /\ s.requestQueue[i].message = s.received[Consumed(s) + i]

\* response and faults are those of the plan for the last request taken.
Asked(s, response, faults) ==
    LET plan == PlanFor(s.received[Consumed(s)])
    IN  /\ Consumed(s) > 0 /\ response.id = Consumed(s) /\ ~response.telemetry
        /\ response.payload = plan.payload /\ faults = plan.faults
        /\ MayAnswer(plan) /\ Executable(plan)

\* A request is in progress exactly while its delayed answer is to come.
Held(s) ==
    /\ s.processingRequest <=> LiveDelayed(s) # {}
    /\ \A d \in LiveDelayed(s) : Asked(s, d.response, d.faults)
    /\ \A d, e \in LiveDelayed(s) : d = e

\* Replies come in the order of the requests, of which n are dealt with.
InOrder(line, n) ==
    /\ \A i \in Replies(line) : line[i].id \in 1..n
    /\ \A i, j \in Replies(line) : i < j => line[i].id < line[j].id

\* Nothing follows a transmission after which the session ends.
Final(line) == \A i, j \in DOMAIN line : i < j => ~line[i].disconnectAfterSend

Farewell(line) == \E i \in DOMAIN line : line[i].disconnectAfterSend

\* x has the length and the fragments of the frame that plan asks for.
Carries(x, plan) ==
    /\ Executable(plan)
    /\ x.size = OutboundSize(plan.payload, plan.faults)
    /\ x.fragmentSizes = plan.faults.fragmentSizes

\* Every reply is one its request's plan allows and carries what the plan
\* says, and only such a reply ends the session.
AsPlanned(line, received) ==
    /\ \A i \in Replies(line) :
         LET plan == PlanFor(received[line[i].id])
         IN  /\ MayAnswer(plan) /\ Carries(line[i], plan)
             /\ line[i].disconnectAfterSend <=> plan.faults.disconnectAfterSend
    /\ \A i \in TelemetryIn(line) : ~line[i].disconnectAfterSend

\* Of the first n requests, all that must be answered are.
Complete(line, received, n) ==
    \A id \in 1..n : MustAnswer(PlanFor(received[id])) => \E i \in Replies(line) : line[i].id = id

\* The number of a telemetry frame with so many before it.
TickNumber(before) == (InitialSequence + Cardinality(before)) % SequenceModulus

\* Telemetry is numbered consecutively, and sequence is the next number.
Numbered(line, sequence) ==
    /\ \A i \in TelemetryIn(line) : line[i].id = TickNumber({j \in TelemetryIn(line) : j < i})
    /\ sequence = TickNumber(TelemetryIn(line))

\* A line that fits the requests of s.  In a session that is ending,
\* transmissions may be missing.
Told(s, line) ==
    /\ InOrder(line, Done(s)) /\ Final(line) /\ AsPlanned(line, s.received)
    /\ Farewell(line) => s.disconnectScheduled
    /\ ~s.closing =>
         Complete(line, s.received, Done(s)) /\ Numbered(line, s.telemetrySequence)

\* Once a disconnect is scheduled, no request is in progress and telemetry stops.
Leaving(s) == s.disconnectScheduled => ~s.processingRequest /\ ~s.telemetryTimer

\* A request whose plan draws from the session's generator.
Draws(message) ==
    LET plan == PlanFor(message)
    IN  Executable(plan) /\ DrawsForDrop(plan.faults)

\* The generator is that of the session, with k draws to come for the request in hand.
Drawn(s, k) ==
    /\ s.randomSeed = RandomSeed + s.sessionOrdinal - 1
    /\ s.randomDraws + k = Cardinality({id \in 1..Consumed(s) : Draws(s.received[id])})

\* Something will take the requests that wait.
Waiting(s) ==
    s.client /\ ~s.closing /\ s.requestQueue # <<>> =>
        s.processingRequest \/ s.disconnectScheduled \/ s.requestCalls > 0

\* What holds of the requests of an attached client.
Serving(s) ==
    s.client =>
        /\ Aligned(s) /\ Held(s) /\ Told(s, Outgoing(s)) /\ Leaving(s) /\ Drawn(s, 0)

\* What a callback preserves about the requests and the output.
RequestInv(s) == OutputInv(s) /\ Serving(s) /\ Waiting(s)

-----------------------------------------------------------------------------
(* Lines of transmissions. *)

\* Types of what a line is asked about.
LEMMA LineTypes ==
    ASSUME NEW line \in Seq(Transmission)
    PROVE  /\ Len(line) \in Nat /\ DOMAIN line = 1..Len(line)
           /\ \A i \in DOMAIN line :
                /\ line[i].id \in Nat /\ line[i].telemetry \in BOOLEAN
                /\ line[i].disconnectAfterSend \in BOOLEAN
           /\ Replies(line) = {i \in DOMAIN line : ~line[i].telemetry}
           /\ TelemetryIn(line) = {i \in DOMAIN line : line[i].telemetry}
<1>1. \A i \in DOMAIN line : line[i] \in Transmission
  OBVIOUS
<1>2. \A t \in Transmission : /\ t.id \in Nat /\ t.telemetry \in BOOLEAN
                              /\ t.disconnectAfterSend \in BOOLEAN
  BY DEF Transmission
<1>3. Len(line) \in Nat /\ DOMAIN line = 1..Len(line)
  BY LenProperties
<1> QED
  BY <1>1, <1>2, <1>3 DEF Replies, TelemetryIn

\* A transmission at the end of a line.
LEMMA AppendedLine ==
    ASSUME NEW line \in Seq(Transmission), NEW x \in Transmission
    PROVE  LET n == Len(line) IN
           /\ Append(line, x) \in Seq(Transmission) /\ n \in Nat
           /\ DOMAIN line = 1..n /\ DOMAIN Append(line, x) = 1..(n + 1)
           /\ \A i \in 1..n : Append(line, x)[i] = line[i]
           /\ Append(line, x)[n + 1] = x
           /\ TelemetryIn(Append(line, x)) =
                IF x.telemetry THEN TelemetryIn(line) \cup {n + 1} ELSE TelemetryIn(line)
           /\ Replies(Append(line, x)) =
                IF x.telemetry THEN Replies(line) ELSE Replies(line) \cup {n + 1}
<1> DEFINE longer == Append(line, x)
           n == Len(line)
<1>1. /\ longer \in Seq(Transmission) /\ n \in Nat
      /\ DOMAIN line = 1..n /\ DOMAIN longer = 1..(n + 1)
      /\ \A i \in 1..n : longer[i] = line[i]
      /\ longer[n + 1] = x
  BY AppendProperties
<1> HIDE DEF longer, n
<1>2. x.telemetry \in BOOLEAN
  BY DEF Transmission
<1>3. 1..(n + 1) = (1..n) \cup {n + 1} /\ n + 1 \notin 1..n
  BY <1>1
<1>4. TelemetryIn(longer) = IF x.telemetry THEN TelemetryIn(line) \cup {n + 1} ELSE TelemetryIn(line)
  BY <1>1, <1>2, <1>3 DEF TelemetryIn
<1>5. Replies(longer) = IF x.telemetry THEN Replies(line) ELSE Replies(line) \cup {n + 1}
  BY <1>1, <1>2, <1>3 DEF Replies, TelemetryIn
<1> QED
  BY <1>1, <1>4, <1>5 DEF longer, n

\* What a line keeps of its order when transmissions are dropped from it.
LEMMA ThinnedLine ==
    ASSUME NEW long \in Seq(Transmission), NEW short \in Seq(Transmission),
           Thins(long, short), NEW n \in Nat, NEW received
    PROVE  /\ InOrder(long, n) => InOrder(short, n)
           /\ Final(long) => Final(short)
           /\ AsPlanned(long, received) => AsPlanned(short, received)
           /\ Farewell(short) => Farewell(long)
<1>1. \A i \in Replies(short) : \E k \in Replies(long) : short[i] = long[k]
  BY LineTypes DEF Thins
<1>2. \A i, j \in Replies(short) : i < j =>
        \E k, l \in Replies(long) : k < l /\ short[i] = long[k] /\ short[j] = long[l]
  <2> SUFFICES ASSUME NEW i \in Replies(short), NEW j \in Replies(short), i < j
               PROVE  \E k, l \in Replies(long) :
                          k < l /\ short[i] = long[k] /\ short[j] = long[l]
    OBVIOUS
  <2>1. i \in DOMAIN short /\ j \in DOMAIN short /\ ~short[i].telemetry /\ ~short[j].telemetry
    BY LineTypes
  <2>2. PICK k \in DOMAIN long, l \in DOMAIN long :
            k < l /\ short[i] = long[k] /\ short[j] = long[l]
    BY <2>1 DEF Thins
  <2>3. k \in Replies(long) /\ l \in Replies(long)
    BY <2>1, <2>2, LineTypes
  <2> QED
    BY <2>2, <2>3
<1>3. \A i \in TelemetryIn(short) : \E k \in TelemetryIn(long) : short[i] = long[k]
  BY LineTypes DEF Thins
<1>4. InOrder(long, n) => InOrder(short, n)
  BY <1>1, <1>2 DEF InOrder
<1>5. Final(long) => Final(short)
  BY DEF Thins, Final
<1>6. AsPlanned(long, received) => AsPlanned(short, received)
  BY <1>1, <1>3 DEF AsPlanned
<1>7. Farewell(short) => Farewell(long)
  BY DEF Thins, Farewell
<1> QED
  BY <1>4, <1>5, <1>6, <1>7

\* What is said of n requests is said of more.
LEMMA InOrderMore ==
    ASSUME NEW line \in Seq(Transmission), NEW n \in Nat, NEW m \in Nat, n <= m, InOrder(line, n)
    PROVE  InOrder(line, m)
BY DEF InOrder

\* A reply to the next request keeps the order.
LEMMA InOrderReply ==
    ASSUME NEW line \in Seq(Transmission), NEW n \in Nat, InOrder(line, n),
           NEW x \in Transmission, ~x.telemetry, x.id = n + 1
    PROVE  InOrder(Append(line, x), n + 1)
<1> DEFINE longer == Append(line, x)
           m == Len(line)
<1>1. /\ m \in Nat /\ Replies(longer) = Replies(line) \cup {m + 1}
      /\ DOMAIN line = 1..m
      /\ \A i \in 1..m : longer[i] = line[i]
      /\ longer[m + 1] = x
  BY AppendedLine
<1> HIDE DEF longer, m
<1>2. Replies(line) \subseteq 1..m
  BY <1>1 DEF Replies
<1>3. \A i \in Replies(line) : longer[i].id \in 1..n
  BY <1>1, <1>2 DEF InOrder
<1>4. \A i \in Replies(longer) : longer[i].id \in 1..(n + 1)
  BY <1>1, <1>3
<1>5. ASSUME NEW i \in Replies(longer), NEW j \in Replies(longer), i < j
      PROVE  longer[i].id < longer[j].id
  <2>1. i \in Replies(line)
    BY <1>1, <1>2, <1>5
  <2>2. CASE j \in Replies(line)
    BY <1>1, <1>2, <1>5, <2>1, <2>2 DEF InOrder
  <2>3. CASE j = m + 1
    BY <1>1, <1>3, <2>1, <2>3
  <2> QED
    BY <1>1, <2>2, <2>3
<1>6. InOrder(longer, n + 1)
  BY <1>4, <1>5 DEF InOrder
<1> QED
  BY <1>6 DEF longer

\* Telemetry does not disturb the order of the replies.
LEMMA InOrderTelemetry ==
    ASSUME NEW line \in Seq(Transmission), NEW n \in Nat, InOrder(line, n),
           NEW x \in Transmission, x.telemetry
    PROVE  InOrder(Append(line, x), n)
<1> DEFINE longer == Append(line, x)
           m == Len(line)
<1>1. /\ m \in Nat /\ Replies(longer) = Replies(line)
      /\ DOMAIN line = 1..m
      /\ \A i \in 1..m : longer[i] = line[i]
  BY AppendedLine
<1> HIDE DEF longer, m
<1>2. Replies(line) \subseteq 1..m
  BY <1>1 DEF Replies
<1>3. InOrder(longer, n)
  BY <1>1, <1>2 DEF InOrder
<1> QED
  BY <1>3 DEF longer

\* A line without a farewell may be continued, and the farewell may be last.
LEMMA FinalAppend ==
    ASSUME NEW line \in Seq(Transmission), ~Farewell(line), NEW x \in Transmission
    PROVE  /\ Final(Append(line, x))
           /\ Farewell(Append(line, x)) => x.disconnectAfterSend
<1> DEFINE longer == Append(line, x)
           m == Len(line)
<1>1. /\ m \in Nat /\ DOMAIN longer = 1..(m + 1) /\ DOMAIN line = 1..m
      /\ \A i \in 1..m : longer[i] = line[i]
      /\ longer[m + 1] = x
  BY AppendedLine
<1> HIDE DEF longer, m
<1>2. \A i \in 1..m : ~longer[i].disconnectAfterSend
  BY <1>1 DEF Farewell
<1>3. \A i \in DOMAIN longer : i \in 1..m \/ i = m + 1
  BY <1>1
<1>4. Final(longer)
  <2> SUFFICES ASSUME NEW i \in DOMAIN longer, NEW j \in DOMAIN longer, i < j
               PROVE  ~longer[i].disconnectAfterSend
    BY DEF Final
  <2>1. i \in 1..m
    BY <1>1
  <2> QED
    BY <1>2, <2>1
<1>5. Farewell(longer) => x.disconnectAfterSend
  BY <1>1, <1>2, <1>3 DEF Farewell
<1> QED
  BY <1>4, <1>5 DEF longer

\* One more reply that follows its plan.
LEMMA AsPlannedReply ==
    ASSUME NEW line \in Seq(Transmission), NEW received, AsPlanned(line, received),
           NEW x \in Transmission, ~x.telemetry,
           MayAnswer(PlanFor(received[x.id])), Carries(x, PlanFor(received[x.id])),
           x.disconnectAfterSend <=> PlanFor(received[x.id]).faults.disconnectAfterSend
    PROVE  AsPlanned(Append(line, x), received)
<1> DEFINE longer == Append(line, x)
           m == Len(line)
<1>1. /\ m \in Nat /\ DOMAIN line = 1..m
      /\ Replies(longer) = Replies(line) \cup {m + 1}
      /\ TelemetryIn(longer) = TelemetryIn(line)
      /\ \A i \in 1..m : longer[i] = line[i]
      /\ longer[m + 1] = x
  BY AppendedLine
<1> HIDE DEF longer, m
<1>2. Replies(line) \subseteq 1..m /\ TelemetryIn(line) \subseteq 1..m
  BY <1>1 DEF Replies, TelemetryIn
<1>3. \A i \in Replies(longer) :
        LET plan == PlanFor(received[longer[i].id])
        IN  /\ MayAnswer(plan) /\ Carries(longer[i], plan)
            /\ longer[i].disconnectAfterSend <=> plan.faults.disconnectAfterSend
  BY <1>1, <1>2 DEF AsPlanned
<1>4. \A i \in TelemetryIn(longer) : ~longer[i].disconnectAfterSend
  BY <1>1, <1>2 DEF AsPlanned
<1>5. AsPlanned(longer, received)
  BY <1>3, <1>4 DEF AsPlanned
<1> QED
  BY <1>5 DEF longer

\* One more telemetry frame; it never ends the session.
LEMMA AsPlannedTelemetry ==
    ASSUME NEW line \in Seq(Transmission), NEW received, AsPlanned(line, received),
           NEW x \in Transmission, x.telemetry, ~x.disconnectAfterSend
    PROVE  AsPlanned(Append(line, x), received)
<1> DEFINE longer == Append(line, x)
           m == Len(line)
<1>1. /\ m \in Nat /\ DOMAIN line = 1..m
      /\ Replies(longer) = Replies(line)
      /\ TelemetryIn(longer) = TelemetryIn(line) \cup {m + 1}
      /\ \A i \in 1..m : longer[i] = line[i]
      /\ longer[m + 1] = x
  BY AppendedLine
<1> HIDE DEF longer, m
<1>2. Replies(line) \subseteq 1..m /\ TelemetryIn(line) \subseteq 1..m
  BY <1>1 DEF Replies, TelemetryIn
<1>3. AsPlanned(longer, received)
  BY <1>1, <1>2 DEF AsPlanned
<1> QED
  BY <1>3 DEF longer

\* What was answered stays answered, and a reply answers its request.
LEMMA CompleteAppend ==
    ASSUME NEW line \in Seq(Transmission), NEW received, NEW n \in Nat,
           Complete(line, received, n), NEW x \in Transmission
    PROVE  /\ Complete(Append(line, x), received, n)
           /\ ~x.telemetry /\ x.id = n + 1 => Complete(Append(line, x), received, n + 1)
<1> DEFINE longer == Append(line, x)
           m == Len(line)
<1>1. /\ m \in Nat /\ DOMAIN line = 1..m
      /\ Replies(line) \subseteq Replies(longer)
      /\ ~x.telemetry => m + 1 \in Replies(longer)
      /\ \A i \in 1..m : longer[i] = line[i]
      /\ longer[m + 1] = x
  BY AppendedLine
<1> HIDE DEF longer, m
<1>2. Replies(line) \subseteq 1..m
  BY <1>1 DEF Replies
<1>3. Complete(longer, received, n)
  BY <1>1, <1>2 DEF Complete
<1>4. ~x.telemetry /\ x.id = n + 1 => Complete(longer, received, n + 1)
  <2> SUFFICES ASSUME ~x.telemetry, x.id = n + 1, NEW id \in 1..(n + 1),
                      MustAnswer(PlanFor(received[id]))
               PROVE  \E i \in Replies(longer) : longer[i].id = id
    BY DEF Complete
  <2>1. CASE id \in 1..n
    BY <1>3, <2>1 DEF Complete
  <2>2. CASE id = n + 1
    BY <1>1, <2>2
  <2> QED
    BY <2>1, <2>2
<1> QED
  BY <1>3, <1>4 DEF longer

\* Adding 1 before or after the remainder is taken is the same.
LEMMA RemainderNext ==
    ASSUME NEW a \in Nat, NEW m \in Nat, m > 1
    PROVE  ((a % m) + 1) % m = (a + 1) % m
<1> DEFINE q == a \div m
           r == a % m
<1>1. q \in Nat /\ r \in 0..(m - 1) /\ a = m * q + r
  OBVIOUS
<1>2. \A p \in Nat, t \in Nat : t < m => (m * p + t) % m = t
  OBVIOUS
<1> HIDE DEF q, r
<1>3. CASE r + 1 < m
  <2>1. a + 1 = m * q + (r + 1)
    BY <1>1
  <2>2. (m * q + (r + 1)) % m = r + 1
    BY <1>1, <1>2, <1>3
  <2>3. (r + 1) % m = r + 1
    BY <1>1, <1>3
  <2> QED
    BY <2>1, <2>2, <2>3 DEF r
<1>4. CASE r + 1 = m
  <2>1. a + 1 = m * (q + 1) + 0
    BY <1>1, <1>4
  <2>2. (m * (q + 1) + 0) % m = 0
    BY <1>1, <1>2
  <2>3. (m * 1 + 0) % m = 0
    BY <1>2
  <2>4. m * 1 + 0 = m
    OBVIOUS
  <2>5. (r + 1) % m = 0
    BY <1>4, <2>3, <2>4
  <2> QED
    BY <2>1, <2>2, <2>5 DEF r
<1> QED
  BY <1>1, <1>3, <1>4

\* The telemetry frames of a line can be counted.
LEMMA TelemetryFinite ==
    ASSUME NEW line \in Seq(Transmission)
    PROVE  IsFiniteSet(TelemetryIn(line)) /\ Cardinality(TelemetryIn(line)) \in Nat
<1>1. TelemetryIn(line) \subseteq 1..Len(line) /\ Len(line) \in Nat
  BY LineTypes
<1>2. IsFiniteSet(1..Len(line))
  BY <1>1, FS_Interval
<1> QED
  BY <1>1, <1>2, FS_Subset, FS_CardinalityType

\* A reply leaves the numbers of telemetry alone, the next frame continues them.
LEMMA NumberedAppend ==
    ASSUME NEW line \in Seq(Transmission), NEW sequence, Numbered(line, sequence),
           NEW x \in Transmission
    PROVE  /\ ~x.telemetry => Numbered(Append(line, x), sequence)
           /\ x.telemetry /\ x.id = sequence =>
                Numbered(Append(line, x), NextSequence(sequence))
<1> DEFINE longer == Append(line, x)
           m == Len(line)
           ticks == TelemetryIn(line)
<1>1. /\ m \in Nat /\ DOMAIN line = 1..m /\ ticks \subseteq 1..m
      /\ TelemetryIn(longer) = IF x.telemetry THEN ticks \cup {m + 1} ELSE ticks
      /\ \A i \in 1..m : longer[i] = line[i]
      /\ longer[m + 1] = x
  BY AppendedLine, LineTypes
<1>2. IsFiniteSet(ticks) /\ Cardinality(ticks) \in Nat
  BY TelemetryFinite
<1>3. /\ \A i \in ticks : line[i].id = TickNumber({j \in ticks : j < i})
      /\ sequence = TickNumber(ticks)
  BY DEF Numbered
<1> HIDE DEF longer, m, ticks
<1>4. CASE ~x.telemetry
  <2>1. Numbered(longer, sequence)
    BY <1>1, <1>3, <1>4 DEF Numbered
  <2> QED
    BY <1>4, <2>1 DEF longer
<1>5. CASE x.telemetry /\ x.id = sequence
  <2> DEFINE more == ticks \cup {m + 1}
  <2>1. TelemetryIn(longer) = more /\ m + 1 \notin ticks
    BY <1>1, <1>5
  <2>2. Cardinality(more) = Cardinality(ticks) + 1
    BY <1>2, <2>1, FS_AddElement
  <2>3. TickNumber(more) = NextSequence(sequence)
    <3>1. InitialSequence + Cardinality(ticks) \in Nat
      BY <1>2, ServerAssumption
    <3>2. TickNumber(more) = ((InitialSequence + Cardinality(ticks)) + 1) % SequenceModulus
      BY <1>2, <2>2, ServerAssumption DEF TickNumber
    <3> QED
      BY <1>3, <3>1, <3>2, RemainderNext, ServerAssumption DEF TickNumber, NextSequence
  <2>4. ASSUME NEW i \in more
        PROVE  longer[i].id = TickNumber({j \in more : j < i})
    <3>1. CASE i \in ticks
      <4>1. {j \in more : j < i} = {j \in ticks : j < i}
        BY <1>1, <3>1
      <4> QED
        BY <1>1, <1>3, <3>1, <4>1
    <3>2. CASE i = m + 1
      <4>1. \A j \in more : j < i <=> j \in ticks
        BY <1>1, <2>1, <3>2
      <4>2. {j \in more : j < i} = ticks
        BY <4>1
      <4> QED
        BY <1>1, <1>3, <1>5, <3>2, <4>2
    <3> QED
      BY <3>1, <3>2
  <2> HIDE DEF more
  <2>5. Numbered(longer, NextSequence(sequence))
    BY <2>1, <2>3, <2>4 DEF Numbered
  <2> QED
    BY <1>5, <2>5 DEF longer
<1> QED
  BY <1>4, <1>5

-----------------------------------------------------------------------------
(* A request in hand, and what can be done with it. *)

\* The flags the proofs about requests read are Booleans.
LEMMA FlagTypes ==
    ASSUME NEW s, s \in Server
    PROVE  /\ s.client \in BOOLEAN /\ s.closing \in BOOLEAN /\ s.unsent \in BOOLEAN
           /\ s.processingRequest \in BOOLEAN /\ s.disconnectScheduled \in BOOLEAN
           /\ s.telemetryTimer \in BOOLEAN
           /\ s.randomSeed \in Int
BY DEF Server

\* Where the queue is aligned, what was taken from it can be counted.
LEMMA ConsumedTypes ==
    ASSUME NEW s, s \in Server, Aligned(s)
    PROVE  /\ Consumed(s) \in Nat /\ Consumed(s) <= Len(s.received)
           /\ Len(s.received) \in Nat /\ Len(s.requestQueue) \in Nat
<1>1. Len(s.received) \in Nat /\ Len(s.requestQueue) \in Nat
  BY FieldTypes, LenProperties
<1>2. Len(s.requestQueue) <= Len(s.received)
  BY DEF Aligned
<1>3. \A m, n \in Nat : m <= n => n - m \in Nat /\ n - m <= n
  OBVIOUS
<1>4. Consumed(s) = Len(s.received) - Len(s.requestQueue)
  BY DEF Consumed
<1> QED
  BY <1>1, <1>2, <1>3, <1>4, Zenon

\* The line of a session is a line of transmissions.
LEMMA OutgoingType ==
    ASSUME NEW s, Inv(s)
    PROVE  Outgoing(s) \in Seq(Transmission)
BY WireTypes DEF Inv

\* A line fits the requests if it does before transmissions are dropped from it.
LEMMA ToldThinned ==
    ASSUME NEW t, NEW line \in Seq(Transmission), NEW short \in Seq(Transmission),
           /\ Done(t) \in Nat
           /\ InOrder(line, Done(t)) /\ Final(line) /\ AsPlanned(line, t.received)
           /\ Farewell(line) => t.disconnectScheduled
           /\ ~t.closing =>
                Complete(line, t.received, Done(t)) /\ Numbered(line, t.telemetrySequence)
           /\ short = line \/ (t.closing /\ Thins(line, short))
    PROVE  Told(t, short)
<1>1. CASE short = line
  BY <1>1 DEF Told
<1>2. CASE t.closing /\ Thins(line, short)
  <2>1. /\ InOrder(short, Done(t)) /\ Final(short) /\ AsPlanned(short, t.received)
        /\ Farewell(short) => Farewell(line)
    BY <1>2, ThinnedLine
  <2> QED
    BY <1>2, <2>1 DEF Told
<1> QED
  BY <1>1, <1>2

\* t continues the session of s: the same requests and the same generator.
Stays(s, t) ==
    /\ s.client /\ (s.closing => t.closing)
    /\ t.sessionGeneration = s.sessionGeneration /\ t.sessionOrdinal = s.sessionOrdinal
    /\ t.received = s.received /\ t.requestQueue = s.requestQueue
    /\ t.telemetrySequence = s.telemetrySequence
    /\ t.randomSeed = s.randomSeed /\ t.randomDraws = s.randomDraws

\* The request in hand is answered later.
Postponed(s, t, response, faults) ==
    t.client =>
        /\ Stays(s, t) /\ SameOutput(s, t)
        /\ t.processingRequest /\ t.closing = s.closing
        /\ t.delayed = s.delayed \cup {[generation |-> s.sessionGeneration,
                                        response |-> response, faults |-> faults]}
        /\ t.disconnectScheduled = s.disconnectScheduled
        /\ t.telemetryTimer = s.telemetryTimer

\* The request in hand is answered.
Replied(s, t, response, faults) ==
    t.client =>
        /\ Stays(s, t) /\ Sends(s, Append(Outgoing(s), TransmissionOf(response, faults)), t)
        /\ ~t.processingRequest /\ t.delayed = s.delayed
        /\ t.requestCalls = s.requestCalls + 1
        /\ t.disconnectScheduled = (s.disconnectScheduled \/ faults.disconnectAfterSend)
        /\ t.telemetryTimer = (s.telemetryTimer /\ ~faults.disconnectAfterSend)

\* The request in hand ends the session, with what was sent before.
Failed(s, t) ==
    t.client =>
        /\ Stays(s, t) /\ Outgoing(t) = Outgoing(s)
        /\ ~t.processingRequest /\ t.delayed = s.delayed /\ t.closing
        /\ s.disconnectScheduled => t.disconnectScheduled
        /\ t.disconnectScheduled => s.disconnectScheduled \/ ~t.telemetryTimer
        /\ t.telemetryTimer => s.telemetryTimer

\* The request in hand is not answered.
Ignored(s, t) ==
    t.client =>
        /\ Stays(s, t) /\ SameOutput(s, t)
        /\ ~t.processingRequest /\ t.delayed = s.delayed /\ t.closing = s.closing
        /\ t.requestCalls = s.requestCalls + 1
        /\ t.disconnectScheduled = s.disconnectScheduled
        /\ t.telemetryTimer = s.telemetryTimer

\* A request was taken and nothing was done with it yet.
InHand(s) ==
    /\ OutputInv(s) /\ s.client /\ s.processingRequest /\ ~s.disconnectScheduled
    /\ Aligned(s) /\ Consumed(s) > 0 /\ LiveDelayed(s) = {}
    /\ Told(s, Outgoing(s))

\* What remains to be shown of the state in which the request in hand is dealt with.
LEMMA StaysServing ==
    ASSUME NEW s, InHand(s), Drawn(s, 0), NEW t, Stays(s, t),
           /\ Held(t) /\ Told(t, Outgoing(t)) /\ Leaving(t)
    PROVE  Serving(t)
<1>1. Aligned(t)
  BY DEF InHand, Stays, Aligned, Consumed
<1>2. Drawn(t, 0)
  BY DEF Stays, Drawn, Consumed
<1> QED
  BY <1>1, <1>2 DEF Serving

\* The numbers of requests dealt with, before and after.
LEMMA StaysDone ==
    ASSUME NEW s, InHand(s), NEW t, Stays(s, t)
    PROVE  /\ Consumed(t) = Consumed(s) /\ Consumed(s) \in Nat
           /\ Done(s) = Consumed(s) - 1 /\ Done(s) \in Nat
           /\ t.processingRequest => Done(t) = Done(s)
           /\ ~t.processingRequest => Done(t) = Done(s) + 1
<1>1. Consumed(t) = Consumed(s)
  BY DEF Stays, Consumed
<1>2. Consumed(s) \in Nat
  BY ConsumedTypes DEF InHand, OutputInv, Inv
<1> QED
  BY <1>1, <1>2 DEF InHand, Done

\* Without a request in progress nothing is held.
LEMMA NothingHeld ==
    ASSUME NEW s, InHand(s), NEW t, Stays(s, t), ~t.processingRequest, t.delayed = s.delayed
    PROVE  Held(t)
BY DEF InHand, Stays, Held, LiveDelayed

\* A postponed answer is the one thing that is held.
LEMMA PostponedServing ==
    ASSUME NEW s, InHand(s), Drawn(s, 0), NEW response, NEW faults, Asked(s, response, faults),
           NEW t, OutputInv(t), Postponed(s, t, response, faults)
    PROVE  Serving(t) /\ Waiting(t)
<1> SUFFICES ASSUME t.client PROVE Serving(t) /\ Waiting(t)
  BY DEF Serving, Waiting
<1> DEFINE capture == [generation |-> s.sessionGeneration, response |-> response,
                       faults |-> faults]
<1>1. /\ Stays(s, t) /\ Outgoing(t) = Outgoing(s)
      /\ t.processingRequest /\ t.closing = s.closing
      /\ t.delayed = s.delayed \cup {capture}
      /\ t.disconnectScheduled = s.disconnectScheduled
  BY SameOutputFacts DEF Postponed
<1>2. capture.generation = s.sessionGeneration /\ capture.response = response
      /\ capture.faults = faults
  OBVIOUS
<1> HIDE DEF capture
<1>3. LiveDelayed(t) = {capture}
  BY <1>1, <1>2 DEF InHand, Stays, LiveDelayed
<1>4. Asked(t, response, faults)
  BY <1>1 DEF Asked, Stays, Consumed
<1>5. Held(t)
  BY <1>1, <1>2, <1>3, <1>4 DEF Held
<1>6. Done(t) = Done(s) /\ t.received = s.received /\ t.telemetrySequence = s.telemetrySequence
  BY <1>1, StaysDone DEF Stays
<1>7. Told(t, Outgoing(t))
  BY <1>1, <1>6 DEF InHand, Told
<1>8. Leaving(t)
  BY <1>1 DEF InHand, Leaving
<1>9. Serving(t)
  BY <1>1, <1>5, <1>7, <1>8, StaysServing
<1> QED
  BY <1>1, <1>9 DEF Waiting

\* A reply is the answer to the request in hand.
LEMMA RepliedServing ==
    ASSUME NEW s, InHand(s), Drawn(s, 0), NEW response \in Response, NEW faults \in ValidFaults,
           Asked(s, response, faults),
           NEW t, OutputInv(t), Replied(s, t, response, faults)
    PROVE  Serving(t) /\ Waiting(t)
<1> SUFFICES ASSUME t.client PROVE Serving(t) /\ Waiting(t)
  BY DEF Serving, Waiting
<1> DEFINE x == TransmissionOf(response, faults)
           line == Outgoing(s)
           longer == Append(line, x)
           n == Done(s)
<1>1. /\ Stays(s, t) /\ Sends(s, longer, t)
      /\ ~t.processingRequest /\ t.delayed = s.delayed
      /\ t.requestCalls = s.requestCalls + 1
      /\ t.disconnectScheduled = (s.disconnectScheduled \/ faults.disconnectAfterSend)
      /\ t.telemetryTimer = (s.telemetryTimer /\ ~faults.disconnectAfterSend)
  BY DEF Replied
<1>2. /\ x \in Transmission /\ ~x.telemetry /\ x.id = Consumed(s)
      /\ x.disconnectAfterSend = faults.disconnectAfterSend
      /\ x.size = OutboundSize(response.payload, faults)
      /\ x.fragmentSizes = faults.fragmentSizes
  <2>1. x \in Transmission
    BY TransmissionTypes
  <2> QED
    BY <2>1 DEF TransmissionOf, Asked
<1>3. /\ Consumed(t) = Consumed(s) /\ n \in Nat /\ Done(t) = n + 1 /\ Consumed(s) = n + 1
  BY <1>1, StaysDone
<1>4. /\ line \in Seq(Transmission) /\ longer \in Seq(Transmission)
      /\ Outgoing(t) \in Seq(Transmission)
  BY <1>2, OutgoingType, AppendProperties DEF InHand, OutputInv
<1>5. /\ InOrder(line, n) /\ Final(line) /\ AsPlanned(line, s.received)
      /\ Farewell(line) => s.disconnectScheduled
      /\ ~s.closing => Complete(line, s.received, n) /\ Numbered(line, s.telemetrySequence)
  BY DEF InHand, Told
<1>6. t.received = s.received /\ t.telemetrySequence = s.telemetrySequence
      /\ (s.closing => t.closing)
  BY <1>1 DEF Stays
<1>7. /\ Asked(s, response, faults) /\ ~s.disconnectScheduled
      /\ PlanFor(s.received[x.id]).faults = faults /\ MayAnswer(PlanFor(s.received[x.id]))
      /\ Carries(x, PlanFor(s.received[x.id]))
  BY <1>2 DEF Asked, InHand, Carries
<1>8. Outgoing(t) = longer \/ (t.closing /\ Thins(longer, Outgoing(t)))
  BY <1>1 DEF Sends
<1> HIDE DEF x, line, n
<1>9. InOrder(longer, Done(t))
  BY <1>2, <1>3, <1>4, <1>5, InOrderReply
<1>10. Final(longer) /\ (Farewell(longer) => x.disconnectAfterSend)
  BY <1>2, <1>4, <1>5, <1>7, FinalAppend
<1>11. AsPlanned(longer, t.received)
  BY <1>2, <1>4, <1>5, <1>6, <1>7, AsPlannedReply
<1>12. ~t.closing => /\ Complete(longer, t.received, Done(t))
                     /\ Numbered(longer, t.telemetrySequence)
  BY <1>2, <1>3, <1>4, <1>5, <1>6, CompleteAppend, NumberedAppend
<1>13. Farewell(longer) => t.disconnectScheduled
  BY <1>1, <1>2, <1>10
<1> HIDE DEF longer
<1>14. Told(t, Outgoing(t))
  <2>1. Done(t) \in Nat
    BY <1>3
  <2> QED
    BY <1>4, <1>8, <1>9, <1>10, <1>11, <1>12, <1>13, <2>1, ToldThinned
<1>15. Held(t)
  BY <1>1, NothingHeld
<1>16. Leaving(t)
  BY <1>1, <1>7 DEF Leaving
<1>17. Serving(t)
  BY <1>1, <1>14, <1>15, <1>16, StaysServing
<1>18. t.requestCalls > 0
  BY <1>1, FieldTypes DEF InHand, OutputInv, Inv
<1> QED
  BY <1>17, <1>18 DEF Waiting

\* A session that the request in hand ends keeps what it said.
LEMMA FailedServing ==
    ASSUME NEW s, InHand(s), Drawn(s, 0), NEW t, OutputInv(t), Failed(s, t)
    PROVE  Serving(t) /\ Waiting(t)
<1> SUFFICES ASSUME t.client PROVE Serving(t) /\ Waiting(t)
  BY DEF Serving, Waiting
<1>1. /\ Stays(s, t) /\ Outgoing(t) = Outgoing(s)
      /\ ~t.processingRequest /\ t.delayed = s.delayed /\ t.closing
      /\ s.disconnectScheduled => t.disconnectScheduled
      /\ t.disconnectScheduled => s.disconnectScheduled \/ ~t.telemetryTimer
  BY DEF Failed
<1>2. Done(s) \in Nat /\ Done(t) = Done(s) + 1 /\ t.received = s.received
  BY <1>1, StaysDone DEF Stays
<1>3. Outgoing(s) \in Seq(Transmission)
  BY OutgoingType DEF InHand, OutputInv
<1>4. Told(t, Outgoing(t))
  <2>1. InOrder(Outgoing(s), Done(t))
    BY <1>2, <1>3, InOrderMore DEF InHand, Told
  <2> QED
    BY <1>1, <1>2, <2>1 DEF InHand, Told
<1>5. Held(t)
  BY <1>1, NothingHeld
<1>6. Leaving(t)
  BY <1>1 DEF InHand, Leaving
<1> QED
  BY <1>1, <1>4, <1>5, <1>6, StaysServing DEF Waiting

\* A request that need not be answered may be ignored.
LEMMA IgnoredServing ==
    ASSUME NEW s, InHand(s), Drawn(s, 0), ~MustAnswer(PlanFor(s.received[Consumed(s)])),
           NEW t, OutputInv(t), Ignored(s, t)
    PROVE  Serving(t) /\ Waiting(t)
<1> SUFFICES ASSUME t.client PROVE Serving(t) /\ Waiting(t)
  BY DEF Serving, Waiting
<1>1. /\ Stays(s, t) /\ Outgoing(t) = Outgoing(s)
      /\ ~t.processingRequest /\ t.delayed = s.delayed /\ t.closing = s.closing
      /\ t.requestCalls = s.requestCalls + 1
      /\ t.disconnectScheduled = s.disconnectScheduled
  BY SameOutputFacts DEF Ignored
<1>2. /\ Done(s) \in Nat /\ Done(t) = Done(s) + 1 /\ Consumed(s) = Done(s) + 1
      /\ t.received = s.received /\ t.telemetrySequence = s.telemetrySequence
  BY <1>1, StaysDone DEF Stays
<1>3. Outgoing(s) \in Seq(Transmission)
  BY OutgoingType DEF InHand, OutputInv
<1>4. Told(t, Outgoing(t))
  <2>1. InOrder(Outgoing(s), Done(t))
    BY <1>2, <1>3, InOrderMore DEF InHand, Told
  <2>2. Complete(Outgoing(s), s.received, Done(s)) => Complete(Outgoing(s), s.received, Done(t))
    BY <1>2 DEF Complete
  <2> QED
    BY <1>1, <1>2, <2>1, <2>2 DEF InHand, Told
<1>5. Held(t)
  BY <1>1, NothingHeld
<1>6. Leaving(t)
  BY <1>1 DEF InHand, Leaving
<1>7. t.requestCalls > 0
  BY <1>1, FieldTypes DEF InHand, OutputInv, Inv
<1> QED
  BY <1>1, <1>4, <1>5, <1>6, <1>7, StaysServing DEF Waiting

-----------------------------------------------------------------------------
(* How the request in hand is dealt with. *)

\* The end of a request that is not answered, or was (DeviceSimulatorServer.cpp:472-476).
LEMMA FinishRequestIgnores ==
    ASSUME NEW s, OutputInv(s)
    PROVE  /\ Ignored(s, FinishRequest(s))
           /\ FinishRequest(s).client = s.client
<1> DEFINE t == FinishRequest(s)
<1>1. s \in Server
  BY DEF OutputInv, Inv
<1>2. /\ t.client = s.client /\ t.closing = s.closing
      /\ t.sessionGeneration = s.sessionGeneration /\ t.sessionOrdinal = s.sessionOrdinal
      /\ t.received = s.received /\ t.requestQueue = s.requestQueue
      /\ t.telemetrySequence = s.telemetrySequence
      /\ t.randomSeed = s.randomSeed /\ t.randomDraws = s.randomDraws
      /\ t.processingRequest = FALSE /\ t.delayed = s.delayed
      /\ t.requestCalls = s.requestCalls + 1
      /\ t.disconnectScheduled = s.disconnectScheduled /\ t.telemetryTimer = s.telemetryTimer
      /\ SameOutput(s, t)
  BY <1>1 DEF Server, FinishRequest, SameOutput
<1> HIDE DEF t
<1>3. Ignored(s, t) /\ t.client = s.client
  BY <1>2 DEF Ignored, Stays
<1> QED
  BY <1>3 DEF t

\* Closing the connection keeps the session as it is until it is over.
LEMMA DisconnectStays ==
    ASSUME NEW s, OutputInv(s), s.client
    PROVE  LET t == DisconnectFromHost(s)
           IN  t.client => /\ Stays(s, t) /\ Outgoing(t) = Outgoing(s) /\ t.closing
                           /\ t.processingRequest = s.processingRequest
                           /\ t.delayed = s.delayed
                           /\ t.disconnectScheduled = s.disconnectScheduled
                           /\ t.telemetryTimer = s.telemetryTimer
<1> DEFINE t == DisconnectFromHost(s)
<1>1. Kept(s, t) /\ (t.client => t.closing /\ SameOutput(s, t))
  BY DisconnectOutput DEF OutputInv, Settled
<1> HIDE DEF t
<1>2. t.client => Stays(s, t)
  BY <1>1 DEF Kept, Stays
<1>3. t.client => Outgoing(t) = Outgoing(s)
  BY <1>1, SameOutputFacts
<1> QED
  BY <1>1, <1>2, <1>3 DEF Kept, t

\* A request that is aborted ends the session (DeviceSimulatorServer.cpp:502-524).
LEMMA AbortRequestFails ==
    ASSUME NEW s, OutputInv(s), s.client
    PROVE  Failed(s, AbortRequest(s))
<1> DEFINE idle == [s EXCEPT !.processingRequest = FALSE]
           t == DisconnectFromHost(idle)
<1>1. OutputInv(idle)
  BY RequestFlagsOutput
<1>2. /\ idle.client = s.client /\ idle.closing = s.closing
      /\ idle.processingRequest = FALSE /\ idle.delayed = s.delayed
      /\ idle.disconnectScheduled = s.disconnectScheduled
      /\ idle.telemetryTimer = s.telemetryTimer
      /\ SameOutput(s, idle)
  BY DEF OutputInv, Inv, Server, SameOutput
<1>3. Stays(s, idle)
  BY DEF OutputInv, Inv, Server, Stays
<1> HIDE DEF idle
<1>4. t.client => /\ Stays(idle, t) /\ Outgoing(t) = Outgoing(idle) /\ t.closing
                  /\ t.processingRequest = idle.processingRequest
                  /\ t.delayed = idle.delayed
                  /\ t.disconnectScheduled = idle.disconnectScheduled
                  /\ t.telemetryTimer = idle.telemetryTimer
  BY <1>1, <1>2, DisconnectStays
<1> HIDE DEF t
<1>5. Outgoing(idle) = Outgoing(s)
  BY <1>2, SameOutputFacts
<1>6. Failed(s, t)
  BY <1>2, <1>3, <1>4, <1>5 DEF Failed, Stays
<1> QED
  BY <1>6 DEF AbortRequest, t, idle

\* A Disconnect plan ends the session (DeviceSimulatorServer.cpp:497-504).
LEMMA HangUpFails ==
    ASSUME NEW s, OutputInv(s), s.client
    PROVE  Failed(s, DisconnectFromHost(ScheduleDisconnect([s EXCEPT !.processingRequest = FALSE])))
<1> DEFINE idle == [s EXCEPT !.processingRequest = FALSE]
           last == ScheduleDisconnect(idle)
           t == DisconnectFromHost(last)
<1>0. idle.client = s.client
  BY DEF OutputInv, Inv, Server
<1>1. OutputInv(idle)
  BY RequestFlagsOutput
<1>2. /\ last.client = s.client /\ last.closing = s.closing
      /\ last.processingRequest = FALSE /\ last.delayed = s.delayed
      /\ last.disconnectScheduled = TRUE /\ last.telemetryTimer = FALSE
      /\ last.outputCalls = s.outputCalls
      /\ SameOutput(s, last)
  BY DEF OutputInv, Inv, Server, SameOutput, ScheduleDisconnect
<1>3. Stays(s, last)
  BY DEF OutputInv, Inv, Server, Stays, ScheduleDisconnect
<1>4. Inv(last)
  <2> HIDE DEF idle
  <2> QED
    BY <1>0, <1>1, ScheduleDisconnectInv DEF OutputInv
<1> HIDE DEF idle, last
<1>5. OutputInv(last)
  BY <1>2, <1>4, SettledSame DEF OutputInv
<1>6. t.client => /\ Stays(last, t) /\ Outgoing(t) = Outgoing(last) /\ t.closing
                  /\ t.processingRequest = last.processingRequest
                  /\ t.delayed = last.delayed
                  /\ t.disconnectScheduled = last.disconnectScheduled
                  /\ t.telemetryTimer = last.telemetryTimer
  BY <1>2, <1>5, DisconnectStays
<1> HIDE DEF t
<1>7. Outgoing(last) = Outgoing(s)
  BY <1>2, SameOutputFacts
<1>8. Failed(s, t)
  BY <1>2, <1>3, <1>6, <1>7 DEF Failed, Stays
<1> QED
  BY <1>8 DEF t, last, idle

\* Answering replies to the request, or ends the session
\* (DeviceSimulatorServer.cpp:547-560, 593-642).
LEMMA AnswerRequestReplies ==
    ASSUME NEW s, OutputInv(s), s.client, NEW response \in Response,
           response.session = s.sessionOrdinal,
           NEW faults \in ValidFaults, NEW accepted \in BOOLEAN
    PROVE  LET t == AnswerRequest(s, response, faults, accepted)
           IN  Replied(s, t, response, faults) \/ Failed(s, t)
<1> DEFINE u == QueueResponse(s, response, faults, accepted)
           v == Scheduled(s, faults)
           line == Append(Outgoing(s), TransmissionOf(response, faults))
           idle == [u EXCEPT !.processingRequest = FALSE]
           t == AnswerRequest(s, response, faults, accepted)
<1>1. OutputInv(u)
  BY QueueResponseInv, QueueResponseOutput DEF OutputInv
<1>2. \/ ~Queued(s, response, faults) /\ Kept(s, u)
         /\ (u.client => u.closing /\ Outgoing(u) = Outgoing(s))
      \/ ~Queued(s, response, faults) /\ Kept(v, u)
         /\ (u.client => u.closing /\ Outgoing(u) = Outgoing(s))
      \/ Queued(s, response, faults) /\ Kept(v, u) /\ Sends(s, line, u)
  BY QueueResponseOutput DEF OutputInv
<1>3. /\ v.client /\ v.closing = s.closing
      /\ v.sessionGeneration = s.sessionGeneration
      /\ v.sessionOrdinal = s.sessionOrdinal
      /\ v.requestQueue = s.requestQueue /\ v.received = s.received
      /\ v.processingRequest = s.processingRequest /\ v.requestCalls = s.requestCalls
      /\ v.delayed = s.delayed /\ v.telemetrySequence = s.telemetrySequence
      /\ v.randomSeed = s.randomSeed /\ v.randomDraws = s.randomDraws
      /\ v.disconnectScheduled = (s.disconnectScheduled \/ faults.disconnectAfterSend)
      /\ v.telemetryTimer = (s.telemetryTimer /\ ~faults.disconnectAfterSend)
  BY ScheduledFields DEF OutputInv
<1>4. /\ idle.client = u.client /\ idle.closing = u.closing
      /\ idle.processingRequest = FALSE /\ idle.delayed = u.delayed
      /\ idle.disconnectScheduled = u.disconnectScheduled
      /\ idle.telemetryTimer = u.telemetryTimer
      /\ SameOutput(u, idle)
  BY <1>1 DEF OutputInv, Inv, Server, SameOutput
<1>5. u.client => Stays(u, idle)
  BY <1>1 DEF OutputInv, Inv, Server, Stays
<1>6. Ignored(u, FinishRequest(u)) /\ FinishRequest(u).client = u.client
  BY <1>1, FinishRequestIgnores
<1>7. t = IF Queued(s, response, faults) THEN FinishRequest(u) ELSE idle
  BY DEF AnswerRequest
<1>8. faults.disconnectAfterSend \in BOOLEAN /\ s.disconnectScheduled \in BOOLEAN
      /\ s.telemetryTimer \in BOOLEAN
  BY FaultOptionTypes, FlagTypes DEF OutputInv, Inv
<1> HIDE DEF u, v, idle, t, line
<1>9. CASE Queued(s, response, faults)
  <2> SUFFICES ASSUME t.client PROVE Replied(s, t, response, faults)
    BY DEF t, Replied
  <2>1. /\ t = FinishRequest(u) /\ u.client /\ Kept(v, u) /\ Sends(s, line, u)
    BY <1>2, <1>6, <1>7, <1>9
  <2>2. /\ Stays(u, t) /\ SameOutput(u, t)
        /\ ~t.processingRequest /\ t.delayed = u.delayed /\ t.closing = u.closing
        /\ t.requestCalls = u.requestCalls + 1
        /\ t.disconnectScheduled = u.disconnectScheduled
        /\ t.telemetryTimer = u.telemetryTimer
    BY <1>6, <2>1 DEF Ignored
  <2>3. Stays(s, t)
    BY <1>3, <2>1, <2>2 DEF Kept, Stays
  <2>4. Sends(s, line, t)
    BY <2>1, <2>2, SameOutputFacts DEF Sends
  <2>5. /\ t.delayed = s.delayed /\ t.requestCalls = s.requestCalls + 1
        /\ t.disconnectScheduled = (s.disconnectScheduled \/ faults.disconnectAfterSend)
        /\ t.telemetryTimer = (s.telemetryTimer /\ ~faults.disconnectAfterSend)
    BY <1>3, <2>1, <2>2 DEF Kept
  <2> QED
    BY <2>2, <2>3, <2>4, <2>5 DEF Replied, line
<1>10. CASE ~Queued(s, response, faults)
  <2> SUFFICES ASSUME t.client PROVE Failed(s, t)
    BY DEF t, Failed
  <2>1. t = idle /\ u.client /\ u.closing /\ Outgoing(u) = Outgoing(s)
        /\ (Kept(s, u) \/ Kept(v, u))
    BY <1>2, <1>4, <1>7, <1>10
  <2>2. Outgoing(t) = Outgoing(s)
    BY <1>4, <2>1, SameOutputFacts
  <2>3. Stays(s, t) /\ t.delayed = s.delayed
    BY <1>3, <1>4, <1>5, <2>1 DEF Kept, Stays
  <2>4. \/ /\ u.disconnectScheduled = s.disconnectScheduled
           /\ u.telemetryTimer = s.telemetryTimer
        \/ /\ u.disconnectScheduled = (s.disconnectScheduled \/ faults.disconnectAfterSend)
           /\ u.telemetryTimer = (s.telemetryTimer /\ ~faults.disconnectAfterSend)
    BY <1>3, <2>1 DEF Kept
  <2>5. /\ s.disconnectScheduled => t.disconnectScheduled
        /\ t.disconnectScheduled => s.disconnectScheduled \/ ~t.telemetryTimer
        /\ t.telemetryTimer => s.telemetryTimer
    BY <1>4, <1>8, <2>1, <2>4
  <2> QED
    BY <1>4, <2>1, <2>2, <2>3, <2>5 DEF Failed
<1> QED
  BY <1>9, <1>10 DEF t

\* Dealing with the request in hand: the session ends, or the request is ignored,
\* answered or postponed as its plan says.
Dealt(s, t) ==
    \/ Failed(s, t)
    \/ ~MustAnswer(PlanFor(s.received[Consumed(s)])) /\ Ignored(s, t)
    \/ \E response \in Response, faults \in ValidFaults :
         /\ Asked(s, response, faults)
         /\ Replied(s, t, response, faults) \/ Postponed(s, t, response, faults)

\* One turn of the conversation, as long as the connection stays open: what t
\* says of the last request taken in s.
Turns(s, t) ==
    LET plan == PlanFor(s.received[Consumed(s)])
    IN  t.client /\ ~t.closing =>
          /\ ~s.closing /\ t.received = s.received /\ t.requestQueue = s.requestQueue
          /\ Len(StartedTransmissions(s)) <= Len(StartedTransmissions(t))
          /\ \/ ~MustAnswer(plan) /\ Outgoing(t) = Outgoing(s) /\ ~t.processingRequest
             \/ MayAnswer(plan) /\ Outgoing(t) = Outgoing(s) /\ t.processingRequest
             \/ /\ MayAnswer(plan) /\ ~t.processingRequest
                /\ \E x \in Transmission :
                     ~x.telemetry /\ x.id = Consumed(s) /\ Outgoing(t) = Append(Outgoing(s), x)

\* However the request in hand is dealt with, the requests are served on.
LEMMA DealtServing ==
    ASSUME NEW s, InHand(s), Drawn(s, 0), NEW t, OutputInv(t), Dealt(s, t)
    PROVE  RequestInv(t) /\ Turns(s, t)
<1>0. Len(StartedTransmissions(s)) <= Len(StartedTransmissions(s))
  BY WireTypes, LenProperties DEF InHand, OutputInv, Inv
<1>1. CASE Failed(s, t)
  <2>1. Turns(s, t)
    BY <1>1 DEF Failed, Turns
  <2> QED
    BY <1>1, <2>1, FailedServing DEF RequestInv
<1>2. CASE ~MustAnswer(PlanFor(s.received[Consumed(s)])) /\ Ignored(s, t)
  <2>1. Turns(s, t)
    <3> SUFFICES ASSUME t.client, ~t.closing PROVE Turns(s, t)
      BY DEF Turns
    <3>1. Outgoing(t) = Outgoing(s) /\ StartedTransmissions(t) = StartedTransmissions(s)
      BY <1>2, SameOutputFacts DEF Ignored
    <3> QED
      BY <1>0, <1>2, <3>1 DEF Ignored, Stays, Turns
  <2> QED
    BY <1>2, <2>1, IgnoredServing DEF RequestInv
<1>3. ASSUME NEW response \in Response, NEW faults \in ValidFaults, Asked(s, response, faults),
             Postponed(s, t, response, faults)
      PROVE  RequestInv(t) /\ Turns(s, t)
  <2>1. Turns(s, t)
    <3> SUFFICES ASSUME t.client, ~t.closing PROVE Turns(s, t)
      BY DEF Turns
    <3>1. Outgoing(t) = Outgoing(s) /\ StartedTransmissions(t) = StartedTransmissions(s)
      BY <1>3, SameOutputFacts DEF Postponed
    <3> QED
      BY <1>0, <1>3, <3>1 DEF Postponed, Stays, Turns, Asked
  <2> QED
    BY <1>3, <2>1, PostponedServing DEF RequestInv
<1>4. ASSUME NEW response \in Response, NEW faults \in ValidFaults, Asked(s, response, faults),
             Replied(s, t, response, faults)
      PROVE  RequestInv(t) /\ Turns(s, t)
  <2>1. Turns(s, t)
    <3> SUFFICES ASSUME t.client, ~t.closing PROVE Turns(s, t)
      BY DEF Turns
    <3> DEFINE x == TransmissionOf(response, faults)
    <3>1. x \in Transmission /\ ~x.telemetry /\ x.id = Consumed(s)
      <4>1. x \in Transmission
        BY TransmissionTypes
      <4> QED
        BY <1>4, <4>1 DEF TransmissionOf, Asked
    <3>2. /\ Stays(s, t) /\ ~t.processingRequest /\ Outgoing(t) = Append(Outgoing(s), x)
          /\ Len(StartedTransmissions(s)) <= Len(StartedTransmissions(t))
      BY <1>4 DEF Replied, Sends
    <3> HIDE DEF x
    <3> QED
      BY <1>4, <3>1, <3>2 DEF Stays, Turns, Asked
  <2> QED
    BY <1>4, <2>1, RepliedServing DEF RequestInv
<1> QED
  BY <1>1, <1>2, <1>3, <1>4 DEF Dealt

\* A draw changes nothing but the count of draws.
LEMMA DrawnForHand ==
    ASSUME NEW s, InHand(s), NEW faults \in ValidFaults,
           Drawn(s, IF DrawsForDrop(faults) THEN 1 ELSE 0)
    PROVE  LET u == DrawnFor(s, faults)
           IN  /\ InHand(u) /\ Drawn(u, 0) /\ SameOutput(s, u)
               /\ u.client /\ u.closing = s.closing /\ u.sessionOrdinal = s.sessionOrdinal
               /\ u.sessionGeneration = s.sessionGeneration
               /\ u.received = s.received /\ u.requestQueue = s.requestQueue
<1> DEFINE u == DrawnFor(s, faults)
<1>1. Inv(u)
  BY DrawnForInv DEF InHand, OutputInv
<1>2. /\ SameOutput(s, u) /\ u.client = s.client /\ u.closing = s.closing
      /\ u.outputCalls = s.outputCalls
      /\ u.sessionGeneration = s.sessionGeneration /\ u.sessionOrdinal = s.sessionOrdinal
      /\ u.received = s.received /\ u.requestQueue = s.requestQueue
      /\ u.processingRequest = s.processingRequest /\ u.delayed = s.delayed
      /\ u.disconnectScheduled = s.disconnectScheduled
      /\ u.telemetrySequence = s.telemetrySequence
      /\ u.randomSeed = s.randomSeed
      /\ u.randomDraws = s.randomDraws + (IF DrawsForDrop(faults) THEN 1 ELSE 0)
  <2>1. s \in Server /\ s.randomDraws \in Nat
    BY FieldTypes DEF InHand, OutputInv, Inv
  <2>2. CASE DrawsForDrop(faults)
    <3>1. u = [s EXCEPT !.randomDraws = s.randomDraws + 1]
      BY <2>2 DEF DrawnFor
    <3> QED
      BY <2>1, <2>2, <3>1 DEF Server, SameOutput
  <2>3. CASE ~DrawsForDrop(faults)
    <3>1. u = s
      BY <2>3 DEF DrawnFor
    <3> HIDE DEF u
    <3> QED
      BY <2>1, <2>3, <3>1 DEF SameOutput
  <2> QED
    BY <2>2, <2>3
<1> HIDE DEF u
<1>3. OutputInv(u)
  BY <1>1, <1>2, SettledSame DEF InHand, OutputInv
<1>4. Outgoing(u) = Outgoing(s)
  BY <1>2, SameOutputFacts
<1>5. Consumed(u) = Consumed(s) /\ Done(u) = Done(s) /\ LiveDelayed(u) = LiveDelayed(s)
  BY <1>2 DEF Consumed, Done, LiveDelayed
<1>6. Aligned(u) /\ Told(u, Outgoing(u))
  BY <1>2, <1>4, <1>5 DEF InHand, Aligned, Told
<1>7. InHand(u)
  BY <1>2, <1>3, <1>5, <1>6 DEF InHand
<1>8. Drawn(u, 0)
  <2>1. u.randomDraws \in Nat
    BY <1>1, FieldTypes DEF Inv
  <2>2. u.randomDraws + 0 = s.randomDraws + (IF DrawsForDrop(faults) THEN 1 ELSE 0)
    BY <1>2, <2>1
  <2> QED
    BY <1>2, <1>5, <2>2 DEF Drawn
<1> QED
  BY <1>2, <1>7, <1>8 DEF InHand, u

\* A response is dropped, postponed or given as its faults say
\* (DeviceSimulatorServer.cpp:526-560).
LEMMA ExecuteResponseServing ==
    ASSUME NEW s, InHand(s), NEW response \in Response,
           response.session = s.sessionOrdinal,
           NEW faults \in ValidFaults, NEW io \in Outcomes,
           Drawn(s, IF DrawsForDrop(faults) THEN 1 ELSE 0),
           Executable(PlanFor(s.received[Consumed(s)])),
           PlanFor(s.received[Consumed(s)]).faults = faults,
           PlanFor(s.received[Consumed(s)]).payload = response.payload,
           response.id = Consumed(s), ~response.telemetry
    PROVE  LET t == ExecuteResponse(s, response, faults, io)
           IN  RequestInv(t) /\ Turns(s, t)
<1> DEFINE u == DrawnFor(s, faults)
           t == ExecuteResponse(s, response, faults, io)
           late == DelayResponse(u, response, faults)
           plan == PlanFor(s.received[Consumed(s)])
<1>1. /\ InHand(u) /\ Drawn(u, 0) /\ SameOutput(s, u)
      /\ u.client /\ u.closing = s.closing /\ u.sessionOrdinal = s.sessionOrdinal
      /\ u.received = s.received /\ u.requestQueue = s.requestQueue
  BY DrawnForHand
<1>2. io.accepted \in BOOLEAN
  BY DEF Outcomes, MayFail
<1>3. OutputInv(t)
  BY ExecuteResponseOutput DEF InHand
<1>4. \/ ShouldDrop(faults, io.below) /\ t = FinishRequest(u)
      \/ ~ShouldDrop(faults, io.below) /\ t = late
      \/ ~ShouldDrop(faults, io.below) /\ t = AnswerRequest(u, response, faults, io.accepted)
  BY ExecuteResponseCases
<1>5. faults.dropProbability \in 0..100
  BY DEF ValidFaults, FaultsAreValid
<1>6. /\ plan.behavior = "Respond" /\ plan.faults = faults /\ Consumed(u) = Consumed(s)
      /\ plan.payload = response.payload /\ Executable(plan)
  BY <1>1 DEF Consumed, Executable
<1> HIDE DEF u, t, plan
<1>7. ShouldDrop(faults, io.below) => ~MustAnswer(plan)
  BY <1>5, <1>6 DEF ShouldDrop, DrawsForDrop, MustAnswer
<1>8. ~ShouldDrop(faults, io.below) => Asked(u, response, faults)
  <2>1. ~ShouldDrop(faults, io.below) => MayAnswer(plan)
    BY <1>5, <1>6 DEF ShouldDrop, MayAnswer
  <2> QED
    BY <1>1, <1>6, <2>1 DEF Asked, InHand, plan
<1>9. Dealt(u, t)
  <2>1. CASE ShouldDrop(faults, io.below) /\ t = FinishRequest(u)
    BY <1>1, <1>6, <1>7, <2>1, FinishRequestIgnores DEF Dealt, InHand, plan
  <2>2. CASE ~ShouldDrop(faults, io.below) /\ t = late
    <3>1. u \in Server
      BY <1>1 DEF InHand, OutputInv, Inv
    <3>2. /\ late.client = u.client /\ late.closing = u.closing
          /\ late.processingRequest = u.processingRequest
          /\ late.delayed = u.delayed \cup {[generation |-> u.sessionGeneration,
                                             response |-> response, faults |-> faults]}
          /\ late.disconnectScheduled = u.disconnectScheduled
          /\ late.telemetryTimer = u.telemetryTimer
          /\ SameOutput(u, late)
      BY <3>1 DEF Server, DelayResponse, SameOutput
    <3>3. Stays(u, late)
      BY <1>1, <3>1 DEF Server, DelayResponse, Stays
    <3> HIDE DEF late
    <3>4. Postponed(u, t, response, faults)
      BY <1>1, <2>2, <3>2, <3>3 DEF Postponed, InHand
    <3> QED
      BY <1>8, <2>2, <3>4 DEF Dealt
  <2>3. CASE ~ShouldDrop(faults, io.below)
             /\ t = AnswerRequest(u, response, faults, io.accepted)
    <3>1. Replied(u, t, response, faults) \/ Failed(u, t)
      BY <1>1, <1>2, <2>3, AnswerRequestReplies DEF InHand
    <3> QED
      BY <1>8, <2>3, <3>1 DEF Dealt
  <2> QED
    BY <1>4, <2>1, <2>2, <2>3
<1>10. RequestInv(t) /\ Turns(u, t)
  BY <1>1, <1>3, <1>9, DealtServing
<1>11. Turns(s, t)
  BY <1>1, <1>6, <1>10, SameOutputFacts DEF Turns
<1> QED
  BY <1>10, <1>11 DEF t

\* executePlan (DeviceSimulatorServer.cpp:478-561) deals with the request in hand
\* as its plan says.
LEMMA ExecutePlanServing ==
    ASSUME NEW s, InHand(s), NEW request \in Request, request.session = s.sessionOrdinal,
           NEW io \in Outcomes,
           request.id = Consumed(s), request.message = s.received[Consumed(s)],
           PlanFor(request.message) \in ResponsePlan,
           Drawn(s, IF Draws(request.message) THEN 1 ELSE 0)
    PROVE  LET t == ExecutePlan(s, request, PlanFor(request.message), io)
           IN  RequestInv(t) /\ Turns(s, t)
<1> DEFINE plan == PlanFor(request.message)
           t == ExecutePlan(s, request, plan, io)
           hung == DisconnectFromHost(ScheduleDisconnect([s EXCEPT !.processingRequest = FALSE]))
           response == ResponseTo(request, plan)
<1>1. OutputInv(s) /\ s.client
  BY DEF InHand
<1>2. OutputInv(t)
  BY <1>1, ExecutePlanOutput
<1>3. Failed(s, hung) /\ Failed(s, AbortRequest(s)) /\ Ignored(s, FinishRequest(s))
  BY <1>1, HangUpFails, AbortRequestFails, FinishRequestIgnores
<1>4. \/ plan.behavior \in {"NoResponse", "DropResponse"} /\ t = FinishRequest(s)
      \/ plan.behavior = "Disconnect" /\ t = hung
      \/ ~Executable(plan) /\ t = AbortRequest(s)
      \/ /\ Executable(plan) /\ plan.faults \in ValidFaults
         /\ response \in Response /\ response.session = request.session
         /\ t = ExecuteResponse(s, response, plan.faults, io)
  BY ExecutePlanCases
<1>5. /\ response.id = request.id /\ response.telemetry = FALSE
      /\ response.payload = plan.payload
  BY DEF ResponseTo
<1>6. Draws(request.message) <=> Executable(plan) /\ DrawsForDrop(plan.faults)
  BY DEF Draws
<1> HIDE DEF plan, t, hung, response
<1>7. CASE Executable(plan) /\ plan.faults \in ValidFaults
           /\ response \in Response /\ response.session = request.session
           /\ t = ExecuteResponse(s, response, plan.faults, io)
  <2>1. Drawn(s, IF DrawsForDrop(plan.faults) THEN 1 ELSE 0)
    BY <1>6, <1>7
  <2>2. plan = PlanFor(s.received[Consumed(s)]) /\ Executable(plan)
    BY <1>7 DEF plan
  <2> QED
    BY <1>5, <1>7, <2>1, <2>2, ExecuteResponseServing DEF t, plan
<1>8. CASE ~Executable(plan)
  <2>1. Drawn(s, 0)
    BY <1>6, <1>8
  <2>2. plan.behavior \in {"NoResponse", "DropResponse"} =>
          ~MustAnswer(PlanFor(s.received[Consumed(s)]))
    BY DEF MustAnswer, plan
  <2>3. Dealt(s, t)
    BY <1>3, <1>4, <1>8, <2>2 DEF Dealt
  <2> QED
    BY <1>2, <2>1, <2>3, DealtServing DEF t, plan
<1>9. CASE plan.behavior # "Respond"
  BY <1>8, <1>9 DEF Executable
<1> QED
  BY <1>4, <1>7, <1>8, <1>9 DEF Executable

-----------------------------------------------------------------------------
(* Taking the next request. *)

\* Taking one more request counts one more draw if its plan has one.
LEMMA DrawsNext ==
    ASSUME NEW received, NEW n \in Nat
    PROVE  Cardinality({id \in 1..(n + 1) : Draws(received[id])}) =
             Cardinality({id \in 1..n : Draws(received[id])})
               + (IF Draws(received[n + 1]) THEN 1 ELSE 0)
<1> DEFINE S(m) == {id \in 1..m : Draws(received[id])}
<1>1. IsFiniteSet(S(n)) /\ Cardinality(S(n)) \in Nat
  <2>1. IsFiniteSet(1..n) /\ S(n) \subseteq 1..n
    BY FS_Interval
  <2> QED
    BY <2>1, FS_Subset, FS_CardinalityType
<1>2. \A id : id \in 1..(n + 1) <=> id \in 1..n \/ id = n + 1
  OBVIOUS
<1>3. n + 1 \notin 1..n
  OBVIOUS
<1>4. CASE Draws(received[n + 1])
  <2>1. S(n + 1) = S(n) \cup {n + 1} /\ n + 1 \notin S(n)
    BY <1>2, <1>3, <1>4
  <2> QED
    BY <1>1, <1>4, <2>1, FS_AddElement
<1>5. CASE ~Draws(received[n + 1])
  <2>1. S(n + 1) = S(n)
    BY <1>2, <1>3, <1>5
  <2> QED
    BY <1>1, <1>5, <2>1
<1> QED
  BY <1>4, <1>5

\* The next request is taken from the queue (DeviceSimulatorServer.cpp:440-448).
LEMMA RequestTakenInHand ==
    ASSUME NEW s, OutputInv(s), Serving(s), CanProcess(s)
    PROVE  LET t == RequestTaken(s)
               request == Head(s.requestQueue)
           IN  /\ InHand(t) /\ Consumed(t) = Consumed(s) + 1
               /\ request.id = Consumed(t) /\ request.message = t.received[Consumed(t)]
               /\ Drawn(t, IF Draws(request.message) THEN 1 ELSE 0)
               /\ SameOutput(s, t) /\ t.closing = s.closing /\ t.received = s.received
<1> DEFINE t == RequestTaken(s)
           rest == Tail(s.requestQueue)
           request == Head(s.requestQueue)
           c == Consumed(s)
<1>1. /\ ~s.processingRequest /\ ~s.disconnectScheduled /\ s.client /\ s.requestQueue # <<>>
  BY DEF CanProcess
<1>2. /\ Aligned(s) /\ Held(s) /\ Told(s, Outgoing(s)) /\ Drawn(s, 0)
  BY <1>1 DEF Serving
<1>3. s \in Server /\ s.requestQueue \in Seq(Request) /\ s.randomDraws \in Nat
  BY FieldTypes DEF OutputInv, Inv
<1>4. /\ Len(rest) = Len(s.requestQueue) - 1 /\ 1 \in DOMAIN s.requestQueue
      /\ request = s.requestQueue[1] /\ Len(s.requestQueue) \in Nat
      /\ rest \in Seq(Request)
      /\ DOMAIN rest = 1..(Len(s.requestQueue) - 1)
      /\ DOMAIN s.requestQueue = 1..Len(s.requestQueue)
      /\ \A i \in DOMAIN rest : rest[i] = s.requestQueue[i + 1]
  BY <1>1, <1>3, HeadTailProperties, LenProperties
<1>5. c \in Nat /\ Len(s.received) \in Nat /\ Len(s.requestQueue) <= Len(s.received)
  BY <1>2, <1>3, ConsumedTypes DEF Aligned
<1>6. Inv(t) /\ t.client
  BY RequestTakenInv DEF OutputInv
<1>7. /\ SameOutput(s, t) /\ t.closing = s.closing /\ t.outputCalls = s.outputCalls
      /\ t.sessionGeneration = s.sessionGeneration /\ t.sessionOrdinal = s.sessionOrdinal
      /\ t.received = s.received /\ t.requestQueue = rest
      /\ t.processingRequest = TRUE /\ t.delayed = s.delayed
      /\ t.disconnectScheduled = s.disconnectScheduled
      /\ t.telemetrySequence = s.telemetrySequence
      /\ t.randomSeed = s.randomSeed /\ t.randomDraws = s.randomDraws
  BY <1>3 DEF Server, RequestTaken, SameOutput
<1>8. request.id = c + 1 /\ request.message = s.received[c + 1]
  BY <1>2, <1>4 DEF Aligned
<1> HIDE DEF t, rest, request
<1>9. Consumed(t) = c + 1
  <2>1. Consumed(t) = Len(s.received) - (Len(s.requestQueue) - 1)
    BY <1>4, <1>7 DEF Consumed
  <2>2. c = Len(s.received) - Len(s.requestQueue)
    BY DEF Consumed
  <2> QED
    BY <1>4, <1>5, <2>1, <2>2
<1>10. OutputInv(t)
  BY <1>1, <1>6, <1>7, SettledSame DEF OutputInv
<1>11. Aligned(t)
  <2>1. \A i \in DOMAIN rest : i + 1 \in DOMAIN s.requestQueue /\ (c + 1) + i = c + (i + 1)
    BY <1>4, <1>5
  <2>2. \A i \in DOMAIN rest : /\ rest[i].id = c + (i + 1)
                               /\ rest[i].message = s.received[c + (i + 1)]
    BY <1>2, <1>4, <2>1 DEF Aligned
  <2>3. Len(rest) <= Len(s.received)
    BY <1>4, <1>5
  <2> QED
    BY <1>7, <1>9, <2>1, <2>2, <2>3 DEF Aligned
<1>12. LiveDelayed(t) = {}
  BY <1>1, <1>2, <1>7 DEF Held, LiveDelayed
<1>13. Told(t, Outgoing(t))
  <2>1. Done(t) = Done(s)
    BY <1>1, <1>5, <1>7, <1>9 DEF Done
  <2>2. Outgoing(t) = Outgoing(s)
    BY <1>7, SameOutputFacts
  <2> QED
    BY <1>2, <1>7, <2>1, <2>2 DEF Told
<1>14. InHand(t)
  BY <1>1, <1>5, <1>6, <1>7, <1>9, <1>10, <1>11, <1>12, <1>13 DEF InHand
<1>15. Drawn(t, IF Draws(request.message) THEN 1 ELSE 0)
  <2> DEFINE now == Cardinality({id \in 1..c : Draws(s.received[id])})
             next == Cardinality({id \in 1..(c + 1) : Draws(s.received[id])})
  <2>1. s.randomSeed = RandomSeed + s.sessionOrdinal - 1 /\ s.randomDraws + 0 = now
    BY <1>2 DEF Drawn
  <2>2. next = now + (IF Draws(s.received[c + 1]) THEN 1 ELSE 0)
    BY <1>5, DrawsNext
  <2>3. next = Cardinality({id \in 1..Consumed(t) : Draws(t.received[id])})
    BY <1>7, <1>9
  <2> HIDE DEF now, next
  <2>4. now = s.randomDraws
    BY <1>3, <2>1
  <2> QED
    BY <1>7, <1>8, <2>1, <2>2, <2>3, <2>4 DEF Drawn
<1>16. request.id = Consumed(t) /\ request.message = t.received[Consumed(t)]
  BY <1>7, <1>8, <1>9
<1> QED
  BY <1>7, <1>9, <1>14, <1>15, <1>16 DEF t, request, c

\* processNextRequest (DeviceSimulatorServer.cpp:440-470) serves the next request,
\* or finds that something else will.
LEMMA ProcessNextRequestServing ==
    ASSUME NEW s, OutputInv(s), Serving(s), NEW io \in Outcomes
    PROVE  LET t == ProcessNextRequest(s, io)
           IN  /\ RequestInv(t)
               /\ CanProcess(s) => Turns(RequestTaken(s), t)
               /\ ~CanProcess(s) => t = s
<1>1. CASE ~CanProcess(s)
  <2>1. ProcessNextRequest(s, io) = s
    BY <1>1 DEF ProcessNextRequest
  <2>2. Waiting(s)
    BY <1>1 DEF CanProcess, Waiting
  <2> QED
    BY <1>1, <2>1, <2>2 DEF RequestInv
<1>2. CASE CanProcess(s)
  <2> DEFINE request == Head(s.requestQueue)
             u == RequestTaken(s)
             t == ExecutePlan(u, request, PlanFor(request.message), io)
  <2>1. /\ request \in Request
        /\ request.session = u.sessionOrdinal /\ PlanFor(request.message) \in ResponsePlan
    BY <1>2, RequestTakenInv DEF OutputInv
  <2>2. /\ InHand(u) /\ request.id = Consumed(u) /\ request.message = u.received[Consumed(u)]
        /\ Drawn(u, IF Draws(request.message) THEN 1 ELSE 0)
    BY <1>2, RequestTakenInHand
  <2>3. ProcessNextRequest(s, io) = t
    BY <1>2 DEF ProcessNextRequest, RequestTaken
  <2> HIDE DEF u, request
  <2>4. RequestInv(t) /\ Turns(u, t)
    BY <2>1, <2>2, ExecutePlanServing
  <2> QED
    BY <1>2, <2>3, <2>4 DEF u
<1> QED
  BY <1>1, <1>2

-----------------------------------------------------------------------------
(* What else happens to a session. *)

\* If t is still attached, its requests are those of s, apart from posted calls.
SameRequests(s, t) ==
    t.client =>
        /\ s.client /\ (s.closing => t.closing)
        /\ t.sessionOrdinal = s.sessionOrdinal
        /\ t.requestQueue = s.requestQueue /\ t.received = s.received
        /\ t.processingRequest = s.processingRequest
        /\ LiveDelayed(t) = LiveDelayed(s)
        /\ t.disconnectScheduled = s.disconnectScheduled
        /\ t.telemetryTimer = s.telemetryTimer /\ t.telemetrySequence = s.telemetrySequence
        /\ t.randomSeed = s.randomSeed /\ t.randomDraws = s.randomDraws

\* What a step of the output keeps.
LEMMA KeptRequests ==
    ASSUME NEW s, NEW t, Kept(s, t)
    PROVE  SameRequests(s, t)
BY DEF Kept, SameRequests, LiveDelayed

\* A session whose requests are untouched is served on, whatever was sent.
LEMMA SameServing ==
    ASSUME NEW s, NEW t, Inv(s), Inv(t), Serving(s), SameRequests(s, t),
           t.client => Outgoing(t) = Outgoing(s)
                         \/ (t.closing /\ Thins(Outgoing(s), Outgoing(t)))
    PROVE  Serving(t)
<1> SUFFICES ASSUME t.client PROVE Serving(t)
  BY DEF Serving
<1>1. /\ s.client /\ (s.closing => t.closing)
      /\ t.sessionOrdinal = s.sessionOrdinal
      /\ t.requestQueue = s.requestQueue /\ t.received = s.received
      /\ t.processingRequest = s.processingRequest
      /\ LiveDelayed(t) = LiveDelayed(s)
      /\ t.disconnectScheduled = s.disconnectScheduled
      /\ t.telemetryTimer = s.telemetryTimer /\ t.telemetrySequence = s.telemetrySequence
      /\ t.randomSeed = s.randomSeed /\ t.randomDraws = s.randomDraws
  BY DEF SameRequests
<1>2. Aligned(s) /\ Held(s) /\ Told(s, Outgoing(s)) /\ Leaving(s) /\ Drawn(s, 0)
  BY <1>1 DEF Serving
<1>3. Consumed(t) = Consumed(s) /\ Done(t) = Done(s)
  BY <1>1 DEF Consumed, Done
<1>4. Aligned(t) /\ Leaving(t) /\ Drawn(t, 0)
  BY <1>1, <1>2, <1>3 DEF Aligned, Leaving, Drawn
<1>5. Held(t)
  BY <1>1, <1>2, <1>3 DEF Held, Asked
<1>6. Done(s) \in Nat
  <2>1. Consumed(s) \in Nat
    BY <1>2, ConsumedTypes DEF Inv
  <2>2. s.processingRequest => Consumed(s) > 0
    BY <1>2 DEF Held, Asked
  <2> QED
    BY <2>1, <2>2 DEF Done
<1>7. Outgoing(s) \in Seq(Transmission) /\ Outgoing(t) \in Seq(Transmission)
  BY OutgoingType
<1>8. Told(t, Outgoing(t))
  <2>1. /\ Done(t) \in Nat
        /\ InOrder(Outgoing(s), Done(t)) /\ Final(Outgoing(s))
        /\ AsPlanned(Outgoing(s), t.received)
        /\ Farewell(Outgoing(s)) => t.disconnectScheduled
        /\ ~t.closing => /\ Complete(Outgoing(s), t.received, Done(t))
                         /\ Numbered(Outgoing(s), t.telemetrySequence)
        /\ Outgoing(t) = Outgoing(s) \/ (t.closing /\ Thins(Outgoing(s), Outgoing(t)))
    BY <1>1, <1>2, <1>3, <1>6 DEF Told
  <2> QED
    BY <1>7, <2>1, ToldThinned
<1> QED
  BY <1>4, <1>5, <1>8 DEF Serving

\* A step of the output leaves the requests to be served.
LEMMA SendingServing ==
    ASSUME NEW s, NEW t, RequestInv(s), OutputInv(t), Kept(s, t), Sends(s, Outgoing(s), t)
    PROVE  RequestInv(t)
<1>1. Serving(t)
  BY KeptRequests, SameServing DEF RequestInv, OutputInv, Sends
<1>2. Waiting(t)
  BY DEF RequestInv, Kept, Waiting
<1> QED
  BY <1>1, <1>2 DEF RequestInv

\* A callback that touches neither requests nor output.
LEMMA UntouchedServing ==
    ASSUME NEW s, NEW t, RequestInv(s), OutputInv(t), SameRequests(s, t), SameOutput(s, t),
           t.requestCalls = s.requestCalls
    PROVE  RequestInv(t)
<1>1. Serving(t)
  BY SameServing, SameOutputFacts DEF RequestInv, OutputInv
<1>2. Waiting(t)
  BY DEF RequestInv, SameRequests, Waiting
<1> QED
  BY <1>1, <1>2 DEF RequestInv

\* Without a client there is nothing to serve.
LEMMA NobodyServed ==
    ASSUME NEW t, OutputInv(t), ~t.client
    PROVE  RequestInv(t)
BY DEF RequestInv, Serving, Waiting

\* Closing the connection leaves what was said.
LEMMA DisconnectServing ==
    ASSUME NEW s, RequestInv(s), s.client
    PROVE  RequestInv(DisconnectFromHost(s))
<1> DEFINE t == DisconnectFromHost(s)
<1>1. OutputInv(s) /\ Inv(t)
  BY DisconnectInv DEF RequestInv, OutputInv
<1>2. Settled(t) /\ Kept(s, t) /\ (t.client => t.closing /\ SameOutput(s, t))
  BY <1>1, DisconnectOutput DEF OutputInv, Settled
<1> HIDE DEF t
<1>3. Len(StartedTransmissions(s)) <= Len(StartedTransmissions(s))
  BY <1>1, WireTypes, LenProperties DEF OutputInv, Inv
<1>4. Sends(s, Outgoing(s), t)
  BY <1>2, <1>3, SameOutputFacts DEF Sends
<1> QED
  BY <1>1, <1>2, <1>4, SendingServing DEF OutputInv, t

-----------------------------------------------------------------------------
(* The callbacks. *)

\* What is said of n requests is said of any list that has the same first n.
LEMMA SamePrefix ==
    ASSUME NEW line \in Seq(Transmission), NEW n \in Nat, InOrder(line, n),
           NEW received, NEW longer, \A id \in 1..n : longer[id] = received[id]
    PROVE  /\ AsPlanned(line, received) => AsPlanned(line, longer)
           /\ Complete(line, received, n) => Complete(line, longer, n)
<1>1. \A i \in Replies(line) : longer[line[i].id] = received[line[i].id]
  BY DEF InOrder
<1>2. AsPlanned(line, received) => AsPlanned(line, longer)
  BY <1>1 DEF AsPlanned
<1>3. Complete(line, received, n) => Complete(line, longer, n)
  BY DEF Complete
<1> QED
  BY <1>2, <1>3

\* The dealt-with requests of a served session are among those taken.
LEMMA DoneTypes ==
    ASSUME NEW s, s \in Server, Aligned(s), Held(s)
    PROVE  Done(s) \in Nat /\ Done(s) <= Consumed(s)
<1>1. Consumed(s) \in Nat
  BY ConsumedTypes
<1>2. s.processingRequest => Consumed(s) > 0
  BY DEF Held, Asked
<1> QED
  BY <1>1, <1>2 DEF Done

\* Newly parsed requests go to the end of the queue; nothing that was taken
\* before changes (DeviceSimulatorServer.cpp:200-237).
LEMMA ReadServing ==
    ASSUME NEW s, OutputInv(s), Serving(s), s.client,
           NEW n \in Nat, NEW messages \in [1..n -> Messages]
    PROVE  LET t == ReadIn(s, messages)
           IN  /\ OutputInv(t) /\ Serving(t) /\ SameOutput(s, t) /\ Consumed(t) = Consumed(s)
               /\ t.disconnectScheduled = s.disconnectScheduled
               /\ t.sessionOrdinal = s.sessionOrdinal
<1> DEFINE t == ReadIn(s, messages)
           q == s.requestQueue
           r == s.received
           arr == Arrivals(s, messages)
           c == Consumed(s)
<1>1. Inv(t) /\ s \in Server
  BY ReadInv DEF OutputInv, Inv
<1>2. /\ SameOutput(s, t) /\ t.client = s.client /\ t.closing = s.closing
      /\ t.outputCalls = s.outputCalls
      /\ t.sessionGeneration = s.sessionGeneration /\ t.sessionOrdinal = s.sessionOrdinal
      /\ t.requestQueue = q \o arr /\ t.received = r \o messages
      /\ t.processingRequest = s.processingRequest /\ t.delayed = s.delayed
      /\ t.disconnectScheduled = s.disconnectScheduled
      /\ t.telemetryTimer = s.telemetryTimer /\ t.telemetrySequence = s.telemetrySequence
      /\ t.randomSeed = s.randomSeed /\ t.randomDraws = s.randomDraws
  BY <1>1 DEF Server, ReadIn, SameOutput
<1> HIDE DEF t
<1>3. OutputInv(t)
  BY <1>1, <1>2, SettledSame DEF OutputInv
<1>4. Aligned(s) /\ Held(s) /\ Told(s, Outgoing(s)) /\ Leaving(s) /\ Drawn(s, 0)
  BY DEF Serving
<1>5. /\ messages \in Seq(Messages) /\ Len(messages) = n
      /\ arr \in Seq(Request) /\ Len(arr) = n
      /\ \A j \in 1..n : arr[j].id = Len(r) + j /\ arr[j].message = messages[j]
  <2>1. messages \in Seq(Messages) /\ Len(messages) = n /\ arr \in Seq(Request)
    BY ArrivalsTypes, SeqDef DEF OutputInv
  <2>2. arr = [i \in 1..n |-> [session |-> s.sessionOrdinal, id |-> Len(r) + i,
                               message |-> messages[i]]]
    BY <2>1 DEF Arrivals
  <2> HIDE DEF arr
  <2>3. Len(arr) = n
    BY <2>1, <2>2, LenProperties
  <2> QED
    BY <2>1, <2>2, <2>3
<1>6. /\ q \in Seq(Request) /\ r \in Seq(Messages)
      /\ Len(q) \in Nat /\ Len(r) \in Nat /\ c \in Nat /\ c = Len(r) - Len(q)
      /\ DOMAIN q = 1..Len(q) /\ Len(q) <= Len(r) /\ c <= Len(r)
  <2>1. q \in Seq(Request) /\ r \in Seq(Messages)
    BY <1>1, FieldTypes
  <2>2. c \in Nat /\ c <= Len(r) /\ Len(q) <= Len(r)
    BY <1>1, <1>4, ConsumedTypes DEF Aligned
  <2> QED
    BY <2>1, <2>2, LenProperties DEF Consumed
<1>7. \A i \in DOMAIN q : q[i].id = c + i /\ q[i].message = r[c + i]
  BY <1>4 DEF Aligned
<1> HIDE DEF q, r, arr
<1>8. /\ Len(q \o arr) = Len(q) + n /\ DOMAIN (q \o arr) = 1..(Len(q) + n)
      /\ \A i \in 1..(Len(q) + n) :
           (q \o arr)[i] = IF i <= Len(q) THEN q[i] ELSE arr[i - Len(q)]
  <2>1. q \in Seq(Request) /\ arr \in Seq(Request) /\ Len(arr) = n
    BY <1>5, <1>6
  <2>2. /\ q \o arr \in Seq(Request) /\ Len(q \o arr) = Len(q) + Len(arr)
        /\ \A i \in 1..(Len(q) + Len(arr)) :
             (q \o arr)[i] = IF i <= Len(q) THEN q[i] ELSE arr[i - Len(q)]
    BY <2>1, ConcatProperties, Zenon
  <2>3. DOMAIN (q \o arr) = 1..Len(q \o arr)
    BY <2>2, LenProperties
  <2> QED
    BY <2>1, <2>2, <2>3
<1>9. /\ Len(r \o messages) = Len(r) + n
      /\ \A i \in 1..(Len(r) + n) :
           (r \o messages)[i] = IF i <= Len(r) THEN r[i] ELSE messages[i - Len(r)]
  <2>1. r \in Seq(Messages) /\ messages \in Seq(Messages) /\ Len(messages) = n
    BY <1>5, <1>6
  <2>2. /\ Len(r \o messages) = Len(r) + Len(messages)
        /\ \A i \in 1..(Len(r) + Len(messages)) :
             (r \o messages)[i] = IF i <= Len(r) THEN r[i] ELSE messages[i - Len(r)]
    BY <2>1, ConcatProperties, Zenon
  <2> QED
    BY <2>1, <2>2
<1> DEFINE more == q \o arr
           all == r \o messages
<1>10. Consumed(t) = c
  <2>1. Consumed(t) = (Len(r) + n) - (Len(q) + n)
    BY <1>2, <1>8, <1>9 DEF Consumed
  <2>2. \A a, b, d \in Nat : (a + d) - (b + d) = a - b
    OBVIOUS
  <2> QED
    BY <1>6, <2>1, <2>2, Zenon
<1> HIDE DEF more, all, c
<1>11. Aligned(t)
  <2>1. ASSUME NEW i \in 1..(Len(q) + n)
        PROVE  more[i].id = c + i /\ more[i].message = all[c + i]
    <3>1. c + i \in 1..(Len(r) + n)
      BY <1>6
    <3>2. CASE i <= Len(q)
      <4>1. i \in DOMAIN q /\ c + i <= Len(r)
        BY <1>6, <3>2
      <4> QED
        BY <1>7, <1>8, <1>9, <3>1, <3>2, <4>1 DEF more, all
    <3>3. CASE ~(i <= Len(q))
      <4> DEFINE j == i - Len(q)
      <4>1. j \in 1..n /\ c + i = Len(r) + j /\ ~(c + i <= Len(r)) /\ (c + i) - Len(r) = j
        BY <1>6, <3>3
      <4>2. more[i] = arr[j] /\ all[c + i] = messages[j]
        BY <1>8, <1>9, <3>1, <3>3, <4>1 DEF more, all
      <4> HIDE DEF j
      <4> QED
        BY <1>5, <4>1, <4>2
    <3> QED
      BY <3>2, <3>3
  <2>2. Len(more) <= Len(all)
    BY <1>6, <1>8, <1>9 DEF more, all
  <2>3. t.requestQueue = more /\ t.received = all /\ DOMAIN more = 1..(Len(q) + n)
    BY <1>2, <1>8 DEF more, all
  <2> QED
    BY <1>10, <2>1, <2>2, <2>3 DEF Aligned
<1>12. \A id \in 1..c : all[id] = r[id]
  BY <1>6, <1>9 DEF all
<1>13. t.received = all /\ s.received = r
  BY <1>2 DEF all, r
<1>14. Consumed(s) = c
  BY DEF c
<1>15. Held(t)
  <2>1. LiveDelayed(t) = LiveDelayed(s)
    BY <1>2 DEF LiveDelayed
  <2>2. \A d \in LiveDelayed(s) : Asked(t, d.response, d.faults)
    BY <1>4, <1>6, <1>10, <1>12, <1>13, <1>14 DEF Held, Asked
  <2> QED
    BY <1>2, <1>4, <2>1, <2>2 DEF Held
<1>16. Told(t, Outgoing(t))
  <2>1. Outgoing(t) = Outgoing(s) /\ Outgoing(s) \in Seq(Transmission)
    BY <1>2, SameOutputFacts, OutgoingType DEF OutputInv
  <2>2. Done(t) = Done(s)
    BY <1>2, <1>10, <1>14 DEF Done
  <2>3. Done(s) \in Nat /\ Done(s) <= c
    BY <1>1, <1>4, <1>14, DoneTypes
  <2>4. \A id \in 1..Done(s) : all[id] = r[id]
    BY <1>6, <1>12, <2>3
  <2>5. /\ InOrder(Outgoing(s), Done(s)) /\ AsPlanned(Outgoing(s), r)
        /\ ~s.closing => Complete(Outgoing(s), r, Done(s))
    BY <1>4, <1>13 DEF Told
  <2>6. /\ AsPlanned(Outgoing(s), all)
        /\ ~s.closing => Complete(Outgoing(s), all, Done(s))
    BY <2>1, <2>3, <2>4, <2>5, SamePrefix
  <2> QED
    BY <1>2, <1>4, <1>13, <2>1, <2>2, <2>6 DEF Told
<1>17. Leaving(t)
  BY <1>2, <1>4 DEF Leaving
<1>18. Drawn(t, 0)
  <2>1. {id \in 1..c : Draws(all[id])} = {id \in 1..c : Draws(r[id])}
    BY <1>12
  <2> QED
    BY <1>2, <1>4, <1>10, <1>13, <1>14, <2>1 DEF Drawn
<1>19. Serving(t)
  BY <1>11, <1>15, <1>16, <1>17, <1>18 DEF Serving
<1> QED
  BY <1>2, <1>3, <1>10, <1>19 DEF t, c

\* A delayed answer that came due puts its request in hand again
\* (DeviceSimulatorServer.cpp:542-552).
LEMMA ElapsedInHand ==
    ASSUME NEW s, RequestInv(s), NEW capture \in s.delayed,
           s.client, capture.generation = s.sessionGeneration
    PROVE  LET t == Elapsed(s, capture)
           IN  /\ InHand(t) /\ Drawn(t, 0) /\ Asked(t, capture.response, capture.faults)
               /\ SameOutput(s, t) /\ t.closing = s.closing /\ t.received = s.received
               /\ t.requestQueue = s.requestQueue
<1> DEFINE t == Elapsed(s, capture)
<1>1. Inv(t) /\ s \in Server
  BY ElapsedInv DEF RequestInv, OutputInv, Inv
<1>2. /\ SameOutput(s, t) /\ t.client = s.client /\ t.closing = s.closing
      /\ t.outputCalls = s.outputCalls
      /\ t.sessionGeneration = s.sessionGeneration /\ t.sessionOrdinal = s.sessionOrdinal
      /\ t.requestQueue = s.requestQueue /\ t.received = s.received
      /\ t.processingRequest = s.processingRequest /\ t.delayed = s.delayed \ {capture}
      /\ t.disconnectScheduled = s.disconnectScheduled
      /\ t.telemetryTimer = s.telemetryTimer /\ t.telemetrySequence = s.telemetrySequence
      /\ t.randomSeed = s.randomSeed /\ t.randomDraws = s.randomDraws
  BY <1>1 DEF Server, Elapsed, SameOutput
<1> HIDE DEF t
<1>3. OutputInv(t)
  BY <1>1, <1>2, SettledSame DEF RequestInv, OutputInv
<1>4. Aligned(s) /\ Held(s) /\ Told(s, Outgoing(s)) /\ Leaving(s) /\ Drawn(s, 0)
  BY DEF RequestInv, Serving
<1>5. capture \in LiveDelayed(s)
  BY DEF LiveDelayed
<1>6. s.processingRequest /\ Asked(s, capture.response, capture.faults)
  BY <1>4, <1>5 DEF Held
<1>7. LiveDelayed(t) = {}
  BY <1>2, <1>4, <1>5 DEF Held, LiveDelayed
<1>8. Consumed(t) = Consumed(s) /\ Done(t) = Done(s) /\ Outgoing(t) = Outgoing(s)
  BY <1>2, SameOutputFacts DEF Consumed, Done
<1>9. Aligned(t) /\ Drawn(t, 0) /\ Told(t, Outgoing(t))
  BY <1>2, <1>4, <1>8 DEF Aligned, Drawn, Told
<1>10. Asked(t, capture.response, capture.faults)
  BY <1>2, <1>6, <1>8 DEF Asked
<1>11. InHand(t)
  BY <1>2, <1>3, <1>4, <1>6, <1>7, <1>9, <1>10 DEF InHand, Leaving, Asked
<1> QED
  BY <1>2, <1>9, <1>10, <1>11 DEF t

\* The reply that was held is given, in a session that stays open.
Gives(s, t) ==
    /\ s.client /\ ~s.closing /\ s.processingRequest /\ ~t.processingRequest
    /\ t.received = s.received /\ t.requestQueue = s.requestQueue
    /\ Len(StartedTransmissions(s)) <= Len(StartedTransmissions(t))
    /\ \E x \in Transmission :
         ~x.telemetry /\ x.id = Consumed(s) /\ Outgoing(t) = Append(Outgoing(s), x)

\* A delayed lambda answers the request in progress, or does nothing
\* (DeviceSimulatorServer.cpp:542-552).
LEMMA RunDelayedServing ==
    ASSUME NEW s, RequestInv(s), NEW capture \in s.delayed, NEW accepted \in BOOLEAN
    PROVE  LET t == RunDelayed(Elapsed(s, capture), capture, accepted)
           IN  /\ RequestInv(t)
               /\ \/ ~s.disconnectScheduled /\ (t.client /\ ~t.closing => Gives(s, t))
                  \/ SameRequests(s, t) /\ SameOutput(s, t)
<1> DEFINE u == Elapsed(s, capture)
           t == RunDelayed(u, capture, accepted)
<1>1. /\ Inv(u) /\ capture.response \in Response /\ capture.faults \in ValidFaults
      /\ capture.generation = u.sessionGeneration /\ u.client =>
             capture.response.session = u.sessionOrdinal
  BY ElapsedInv DEF RequestInv, OutputInv
<1>2. OutputInv(t)
  BY RunDelayedOutput DEF RequestInv
<1>3. /\ SameOutput(s, u) /\ u.client = s.client /\ u.closing = s.closing
      /\ u.outputCalls = s.outputCalls /\ u.requestCalls = s.requestCalls
      /\ u.sessionGeneration = s.sessionGeneration /\ u.sessionOrdinal = s.sessionOrdinal
      /\ u.requestQueue = s.requestQueue /\ u.received = s.received
      /\ u.processingRequest = s.processingRequest /\ u.delayed = s.delayed \ {capture}
      /\ u.disconnectScheduled = s.disconnectScheduled
      /\ u.telemetryTimer = s.telemetryTimer /\ u.telemetrySequence = s.telemetrySequence
      /\ u.randomSeed = s.randomSeed /\ u.randomDraws = s.randomDraws
  BY DEF RequestInv, OutputInv, Inv, Server, Elapsed, SameOutput
<1>4. t = IF capture.generation # u.sessionGeneration \/ ~u.client
          THEN u
          ELSE AnswerRequest(u, capture.response, capture.faults, accepted)
  BY DEF RunDelayed
<1> HIDE DEF u, t
<1>5. CASE s.client /\ capture.generation = s.sessionGeneration
  <2>1. /\ InHand(u) /\ Drawn(u, 0) /\ Asked(u, capture.response, capture.faults)
    BY <1>5, ElapsedInHand DEF u
  <2>2. t = AnswerRequest(u, capture.response, capture.faults, accepted)
    BY <1>3, <1>4, <1>5
  <2>3. OutputInv(u) /\ u.client /\ u.processingRequest /\ ~u.disconnectScheduled
    BY <2>1 DEF InHand
  <2>4. capture.response.session = u.sessionOrdinal
    BY <1>1, <1>3, <1>5
  <2>5. Replied(u, t, capture.response, capture.faults) \/ Failed(u, t)
    BY <1>1, <2>2, <2>3, <2>4, AnswerRequestReplies
  <2>6. Dealt(u, t)
    BY <1>1, <2>1, <2>5 DEF Dealt
  <2>7. RequestInv(t)
    BY <1>2, <2>1, <2>6, DealtServing
  <2>8. ASSUME t.client, ~t.closing PROVE Gives(s, t)
    <3> DEFINE x == TransmissionOf(capture.response, capture.faults)
    <3>1. Replied(u, t, capture.response, capture.faults)
      BY <2>5, <2>8 DEF Failed
    <3>2. x \in Transmission /\ ~x.telemetry /\ x.id = Consumed(u)
      <4>1. x \in Transmission
        BY <1>1, TransmissionTypes
      <4> QED
        BY <2>1, <4>1 DEF TransmissionOf, Asked
    <3>3. /\ Stays(u, t) /\ ~t.processingRequest /\ Outgoing(t) = Append(Outgoing(u), x)
          /\ Len(StartedTransmissions(u)) <= Len(StartedTransmissions(t))
      BY <2>8, <3>1 DEF Replied, Sends
    <3> HIDE DEF x
    <3>4. /\ Outgoing(u) = Outgoing(s) /\ StartedTransmissions(u) = StartedTransmissions(s)
          /\ Consumed(u) = Consumed(s)
      BY <1>3, SameOutputFacts DEF Consumed
    <3>5. /\ ~s.closing /\ t.received = s.received /\ t.requestQueue = s.requestQueue
      BY <1>3, <2>8, <3>3 DEF Stays
    <3> QED
      BY <1>3, <1>5, <2>3, <3>2, <3>3, <3>4, <3>5 DEF Gives
  <2> QED
    BY <1>3, <2>3, <2>7, <2>8 DEF u, t
<1>6. CASE ~(s.client /\ capture.generation = s.sessionGeneration)
  <2>1. t = u
    BY <1>3, <1>4, <1>6
  <2>2. OutputInv(u)
    BY <1>2, <2>1
  <2>3. SameRequests(s, u)
    BY <1>3, <1>6 DEF SameRequests, LiveDelayed
  <2>4. RequestInv(u)
    BY <1>3, <2>2, <2>3, UntouchedServing
  <2> QED
    BY <1>3, <2>1, <2>3, <2>4 DEF u, t
<1> QED
  BY <1>5, <1>6

\* A telemetry frame is no request's reply.
Ticks(s, t) ==
    t.client =>
        /\ s.client /\ (s.closing => t.closing) /\ ~s.disconnectScheduled
        /\ t.sessionOrdinal = s.sessionOrdinal
        /\ t.requestQueue = s.requestQueue /\ t.received = s.received
        /\ t.processingRequest = s.processingRequest
        /\ LiveDelayed(t) = LiveDelayed(s) /\ t.requestCalls = s.requestCalls
        /\ t.disconnectScheduled = s.disconnectScheduled
        /\ t.telemetryTimer = s.telemetryTimer
        /\ t.telemetrySequence = NextSequence(s.telemetrySequence)
        /\ t.randomSeed = s.randomSeed /\ t.randomDraws = s.randomDraws
        /\ Len(StartedTransmissions(s)) <= Len(StartedTransmissions(t))
        /\ \E x \in Transmission :
             /\ x.telemetry /\ x.id = s.telemetrySequence /\ ~x.disconnectAfterSend
             /\ \/ Outgoing(t) = Append(Outgoing(s), x)
                \/ t.closing /\ Thins(Append(Outgoing(s), x), Outgoing(t))

\* A telemetry frame leaves the replies as they are.
LEMMA TicksServing ==
    ASSUME NEW s, RequestInv(s), NEW t, OutputInv(t), Ticks(s, t)
    PROVE  RequestInv(t)
<1> SUFFICES ASSUME t.client PROVE RequestInv(t)
  BY NobodyServed
<1>1. /\ s.client /\ (s.closing => t.closing) /\ ~s.disconnectScheduled
      /\ t.sessionOrdinal = s.sessionOrdinal
      /\ t.requestQueue = s.requestQueue /\ t.received = s.received
      /\ t.processingRequest = s.processingRequest
      /\ LiveDelayed(t) = LiveDelayed(s) /\ t.requestCalls = s.requestCalls
      /\ t.disconnectScheduled = s.disconnectScheduled
      /\ t.telemetryTimer = s.telemetryTimer
      /\ t.telemetrySequence = NextSequence(s.telemetrySequence)
      /\ t.randomSeed = s.randomSeed /\ t.randomDraws = s.randomDraws
  BY DEF Ticks
<1>2. PICK x \in Transmission :
        /\ x.telemetry /\ x.id = s.telemetrySequence /\ ~x.disconnectAfterSend
        /\ \/ Outgoing(t) = Append(Outgoing(s), x)
           \/ t.closing /\ Thins(Append(Outgoing(s), x), Outgoing(t))
  BY DEF Ticks
<1> DEFINE line == Outgoing(s)
           longer == Append(line, x)
           n == Done(s)
<1>3. Aligned(s) /\ Held(s) /\ Told(s, line) /\ Leaving(s) /\ Drawn(s, 0)
  BY <1>1 DEF RequestInv, Serving
<1>4. s \in Server /\ Inv(s) /\ Inv(t)
  BY DEF RequestInv, OutputInv, Inv
<1>5. Consumed(t) = Consumed(s) /\ Done(t) = n /\ n \in Nat
  BY <1>1, <1>3, <1>4, DoneTypes DEF Consumed, Done
<1>6. line \in Seq(Transmission) /\ longer \in Seq(Transmission)
      /\ Outgoing(t) \in Seq(Transmission)
  BY <1>4, OutgoingType, AppendProperties
<1>7. /\ InOrder(line, n) /\ AsPlanned(line, s.received) /\ ~Farewell(line)
      /\ ~s.closing => Complete(line, s.received, n) /\ Numbered(line, s.telemetrySequence)
  BY <1>1, <1>3 DEF Told
<1> HIDE DEF line, n
<1>8. InOrder(longer, n) /\ AsPlanned(longer, s.received)
  BY <1>2, <1>5, <1>6, <1>7, InOrderTelemetry, AsPlannedTelemetry
<1>9. Final(longer) /\ ~Farewell(longer)
  BY <1>2, <1>6, <1>7, FinalAppend
<1>10. ~s.closing => /\ Complete(longer, s.received, n)
                     /\ Numbered(longer, NextSequence(s.telemetrySequence))
  BY <1>2, <1>5, <1>6, <1>7, CompleteAppend, NumberedAppend
<1>11. Outgoing(t) = longer \/ (t.closing /\ Thins(longer, Outgoing(t)))
  BY <1>2 DEF line
<1> HIDE DEF longer
<1>12. Told(t, Outgoing(t))
  <2>1. /\ Done(t) \in Nat
        /\ InOrder(longer, Done(t)) /\ Final(longer) /\ AsPlanned(longer, t.received)
        /\ Farewell(longer) => t.disconnectScheduled
        /\ ~t.closing =>
             Complete(longer, t.received, Done(t)) /\ Numbered(longer, t.telemetrySequence)
        /\ Outgoing(t) = longer \/ (t.closing /\ Thins(longer, Outgoing(t)))
    BY <1>1, <1>5, <1>8, <1>9, <1>10, <1>11
  <2> QED
    BY <1>6, <2>1, ToldThinned
<1>13. Aligned(t) /\ Leaving(t) /\ Drawn(t, 0)
  BY <1>1, <1>3, <1>5 DEF Aligned, Leaving, Drawn
<1>14. Held(t)
  BY <1>1, <1>3, <1>5 DEF Held, Asked
<1>15. Serving(t)
  BY <1>12, <1>13, <1>14 DEF Serving
<1>16. Waiting(t)
  BY <1>1 DEF RequestInv, Waiting
<1> QED
  BY <1>15, <1>16 DEF RequestInv

-----------------------------------------------------------------------------
(* How a callback moves the conversation on. *)

\* t has the requests of s, and perhaps more after them.
Extends(s, t) ==
    t.received = s.received \/ \E more \in Seq(Messages) : t.received = s.received \o more

\* The next request was taken: ignored, answered later, or answered at once.
Takes(s, t) ==
    LET plan == PlanFor(t.received[Consumed(t)])
    IN  /\ ~s.processingRequest /\ ~s.disconnectScheduled /\ Consumed(t) = Consumed(s) + 1
        /\ \/ ~MustAnswer(plan) /\ Outgoing(t) = Outgoing(s) /\ ~t.processingRequest
           \/ MayAnswer(plan) /\ Outgoing(t) = Outgoing(s) /\ t.processingRequest
           \/ /\ MayAnswer(plan) /\ ~t.processingRequest
              /\ \E x \in Transmission :
                   ~x.telemetry /\ x.id = Consumed(t) /\ Outgoing(t) = Append(Outgoing(s), x)

\* A telemetry frame was queued.
Publishes(s, t) ==
    /\ ~s.disconnectScheduled
    /\ Consumed(t) = Consumed(s) /\ t.processingRequest = s.processingRequest
    /\ \E x \in Transmission :
         x.telemetry /\ x.id = s.telemetrySequence /\ Outgoing(t) = Append(Outgoing(s), x)

\* Nothing was taken, and nothing added to what is to be sent.
Continues(s, t) ==
    /\ Consumed(t) = Consumed(s) /\ t.processingRequest = s.processingRequest
    /\ Outgoing(t) = Outgoing(s)

\* A session that has just begun.
Empty(t) ==
    /\ t.received = <<>> /\ Consumed(t) = 0 /\ ~t.processingRequest
    /\ Outgoing(t) = <<>> /\ StartedTransmissions(t) = <<>>

\* What a callback does to a conversation that is open after it.
Moves(s, t) ==
    t.client /\ ~t.closing =>
        \/ ~s.client /\ Empty(t)
        \/ /\ s.client /\ ~s.closing /\ Extends(s, t)
           /\ Len(StartedTransmissions(s)) <= Len(StartedTransmissions(t))
           /\ Takes(s, t) \/ Gives(s, t) \/ Publishes(s, t) \/ Continues(s, t)

\* After a disconnect was scheduled nothing is taken and nothing added.
Concluded(s, t) ==
    s.disconnectScheduled /\ s.client /\ t.client /\ s.sessionOrdinal = t.sessionOrdinal =>
        /\ t.disconnectScheduled /\ Consumed(t) = Consumed(s)
        /\ Len(Outgoing(t)) <= Len(Outgoing(s))

\* What a callback does to the requests.
Serves(s, t) == RequestInv(t) /\ Moves(s, t) /\ Concluded(s, t)

\* Nothing is said of a session that is over.
LEMMA GoneServes ==
    ASSUME NEW s, NEW t, OutputInv(t), ~t.client
    PROVE  Serves(s, t)
BY NobodyServed DEF Serves, Moves, Concluded

\* A step that only sends, or drops what a closing session had to send.
LEMMA SendingMoves ==
    ASSUME NEW s, NEW t, Inv(s), SameRequests(s, t),
           t.client => /\ Outgoing(t) = Outgoing(s)
                            \/ (t.closing /\ Thins(Outgoing(s), Outgoing(t)))
                       /\ ~t.closing => Len(StartedTransmissions(s)) <= Len(StartedTransmissions(t))
    PROVE  Moves(s, t) /\ Concluded(s, t)
<1>1. t.client => Consumed(t) = Consumed(s) /\ t.received = s.received
  BY DEF SameRequests, Consumed
<1>2. Moves(s, t)
  BY <1>1 DEF SameRequests, Moves, Extends, Continues
<1>3. Len(Outgoing(s)) <= Len(Outgoing(s))
  BY OutgoingType, LenProperties
<1>4. Concluded(s, t)
  BY <1>1, <1>3 DEF SameRequests, Concluded, Thins
<1> QED
  BY <1>2, <1>4

\* A step of the output.
LEMMA KeptServes ==
    ASSUME NEW s, NEW t, RequestInv(s), OutputInv(t), Kept(s, t), Sends(s, Outgoing(s), t)
    PROVE  Serves(s, t)
<1>1. RequestInv(t)
  BY SendingServing
<1>2. Moves(s, t) /\ Concluded(s, t)
  BY KeptRequests, SendingMoves DEF RequestInv, OutputInv, Sends
<1> QED
  BY <1>1, <1>2 DEF Serves

\* A step that touches neither requests nor output, whatever calls it posts.
LEMMA UntouchedMoves ==
    ASSUME NEW s, NEW t, Inv(s), SameRequests(s, t), SameOutput(s, t)
    PROVE  Moves(s, t) /\ Concluded(s, t)
<1>1. Outgoing(t) = Outgoing(s) /\ StartedTransmissions(t) = StartedTransmissions(s)
  BY SameOutputFacts
<1>2. Len(StartedTransmissions(s)) <= Len(StartedTransmissions(s))
  BY WireTypes, LenProperties DEF Inv
<1> QED
  BY <1>1, <1>2, SendingMoves

\* A step that leaves requests, output and posted calls alone serves them.
LEMMA UntouchedServes ==
    ASSUME NEW s, NEW t, RequestInv(s), OutputInv(t), SameRequests(s, t), SameOutput(s, t),
           t.requestCalls = s.requestCalls
    PROVE  Serves(s, t)
BY UntouchedServing, UntouchedMoves DEF Serves, RequestInv, OutputInv

\* Closing the connection.
LEMMA DisconnectServes ==
    ASSUME NEW s, RequestInv(s), s.client
    PROVE  Serves(s, DisconnectFromHost(s))
<1> DEFINE t == DisconnectFromHost(s)
<1>1. RequestInv(t)
  BY DisconnectServing
<1>2. Inv(s) /\ Kept(s, t) /\ (t.client => SameOutput(s, t))
  BY DisconnectOutput DEF RequestInv, OutputInv, Settled
<1> HIDE DEF t
<1>3. Moves(s, t) /\ Concluded(s, t)
  BY <1>2, KeptRequests, UntouchedMoves DEF Moves, Concluded
<1> QED
  BY <1>1, <1>3 DEF Serves, t

\* processNextRequest (DeviceSimulatorServer.cpp:440-448) called when v has the
\* requests of s and perhaps more.
LEMMA ProcessNextRequestServes ==
    ASSUME NEW s, Inv(s), NEW v, OutputInv(v), Serving(v), NEW io \in Outcomes,
           /\ SameOutput(s, v) /\ v.client = s.client /\ v.closing = s.closing
           /\ v.sessionOrdinal = s.sessionOrdinal /\ v.processingRequest = s.processingRequest
           /\ v.disconnectScheduled = s.disconnectScheduled
           /\ Consumed(v) = Consumed(s) /\ Extends(s, v)
    PROVE  Serves(s, ProcessNextRequest(v, io))
<1> DEFINE t == ProcessNextRequest(v, io)
           u == RequestTaken(v)
<1>1. /\ RequestInv(t)
      /\ CanProcess(v) => Turns(u, t)
      /\ ~CanProcess(v) => t = v
  BY ProcessNextRequestServing
<1>2. /\ Outgoing(v) = Outgoing(s)
      /\ StartedTransmissions(v) = StartedTransmissions(s)
      /\ Len(StartedTransmissions(s)) <= Len(StartedTransmissions(s))
      /\ Len(Outgoing(s)) <= Len(Outgoing(s))
  BY SameOutputFacts, OutgoingType, WireTypes, LenProperties DEF Inv
<1>3. CASE ~CanProcess(v)
  <2>1. t = v
    BY <1>1, <1>3
  <2>2. Moves(s, v)
    BY <1>2 DEF Moves, Continues
  <2>3. Concluded(s, v)
    BY <1>2 DEF Concluded
  <2> QED
    BY <1>1, <2>1, <2>2, <2>3 DEF Serves
<1>4. CASE CanProcess(v)
  <2>1. ~s.disconnectScheduled /\ ~s.processingRequest /\ s.client
    BY <1>4 DEF CanProcess
  <2>2. /\ Consumed(u) = Consumed(v) + 1
        /\ SameOutput(v, u) /\ u.closing = v.closing /\ u.received = v.received
    BY <1>4, RequestTakenInHand
  <2>3. Outgoing(u) = Outgoing(s) /\ StartedTransmissions(u) = StartedTransmissions(s)
    BY <1>2, <2>2, SameOutputFacts
  <2>4. Turns(u, t)
    BY <1>1, <1>4
  <2> HIDE DEF t, u
  <2>5. ASSUME t.client, ~t.closing PROVE Moves(s, t)
    <3>1. /\ ~u.closing /\ t.received = u.received /\ t.requestQueue = u.requestQueue
          /\ Len(StartedTransmissions(u)) <= Len(StartedTransmissions(t))
      BY <2>4, <2>5 DEF Turns
    <3>2. Consumed(t) = Consumed(u) /\ Consumed(t) = Consumed(s) + 1
      BY <2>2, <3>1 DEF Consumed
    <3>3. Takes(s, t)
      BY <2>1, <2>3, <2>4, <2>5, <3>1, <3>2 DEF Turns, Takes
    <3>4. Extends(s, t)
      BY <2>2, <3>1 DEF Extends
    <3> QED
      BY <2>1, <2>2, <2>3, <3>1, <3>3, <3>4 DEF Moves
  <2>6. Moves(s, t)
    BY <2>5 DEF Moves
  <2>7. Concluded(s, t)
    BY <2>1 DEF Concluded
  <2> QED
    BY <1>1, <2>6, <2>7 DEF Serves, t
<1> QED
  BY <1>3, <1>4

\* Neither a draw nor a disconnect comes of the default faults.
LEMMA NoFaultsScheduled ==
    ASSUME NEW s
    PROVE  Scheduled(s, NoFaults) = s /\ NoFaults.disconnectAfterSend = FALSE
BY DEF Scheduled, NoFaults

\* A telemetry tick queues the next frame, ends the session or does nothing
\* (DeviceSimulatorServer.cpp:347-366).
LEMMA PublishTelemetryServes ==
    ASSUME NEW s, RequestInv(s), NEW made \in BOOLEAN, NEW accepted \in BOOLEAN
    PROVE  Serves(s, PublishTelemetry(s, made, accepted))
<1> DEFINE t == PublishTelemetry(s, made, accepted)
           frame == TelemetryFrame(s)
           u == Published(s, accepted)
           next == [u EXCEPT !.telemetrySequence = NextSequence(u.telemetrySequence)]
           x == TransmissionOf(frame, NoFaults)
<1>1. OutputInv(t) /\ Inv(s) /\ Settled(s)
  BY PublishTelemetryOutput DEF RequestInv, OutputInv
<1>2. \/ t = s
      \/ s.client /\ t = DisconnectFromHost(s)
      \/ /\ s.client /\ ~s.disconnectScheduled
         /\ frame \in Response /\ frame.session = s.sessionOrdinal /\ Inv(u)
         /\ t = IF Queued(s, frame, NoFaults) THEN next ELSE u
  BY <1>1, PublishTelemetryCases
<1>3. CASE t = s
  <2>1. SameRequests(s, s) /\ SameOutput(s, s)
    BY DEF SameRequests, SameOutput
  <2> QED
    BY <1>1, <1>3, <2>1, UntouchedServes
<1>4. CASE s.client /\ t = DisconnectFromHost(s)
  BY <1>4, DisconnectServes
<1>5. CASE /\ s.client /\ ~s.disconnectScheduled
           /\ frame \in Response /\ frame.session = s.sessionOrdinal /\ Inv(u)
           /\ t = IF Queued(s, frame, NoFaults) THEN next ELSE u
  <2>1. /\ Kept(s, u)
        /\ \/ ~Queued(s, frame, NoFaults) /\ (u.client => u.closing /\ Outgoing(u) = Outgoing(s))
           \/ Queued(s, frame, NoFaults) /\ Sends(s, Append(Outgoing(s), x), u)
    <3>1. Scheduled(s, NoFaults) = s
      BY NoFaultsScheduled
    <3>2. u = QueueResponse(s, frame, NoFaults, accepted)
      BY DEF Published
    <3> HIDE DEF u, x, frame
    <3> QED
      BY <1>1, <1>5, <3>1, <3>2, NoFaultsValid, QueueResponseOutput DEF x
  <2>2. x \in Transmission /\ x.telemetry /\ x.id = s.telemetrySequence /\ ~x.disconnectAfterSend
    <3>1. x \in Transmission
      BY <1>5, NoFaultsValid, TransmissionTypes
    <3>2. frame.telemetry = TRUE /\ frame.id = s.telemetrySequence
      BY DEF TelemetryFrame
    <3> HIDE DEF frame
    <3> QED
      BY <3>1, <3>2, NoFaultsScheduled DEF TransmissionOf
  <2>3. /\ SameOutput(u, next) /\ next.client = u.client /\ next.closing = u.closing
        /\ next.sessionGeneration = u.sessionGeneration
        /\ next.sessionOrdinal = u.sessionOrdinal
        /\ next.requestQueue = u.requestQueue /\ next.received = u.received
        /\ next.processingRequest = u.processingRequest
        /\ next.requestCalls = u.requestCalls /\ next.delayed = u.delayed
        /\ next.disconnectScheduled = u.disconnectScheduled
        /\ next.telemetryTimer = u.telemetryTimer
        /\ next.telemetrySequence = NextSequence(u.telemetrySequence)
        /\ next.randomSeed = u.randomSeed /\ next.randomDraws = u.randomDraws
    <3> HIDE DEF u
    <3> QED
      BY <1>5 DEF Inv, Server, SameOutput
  <2> HIDE DEF t, u, next, x, frame
  <2>4. CASE ~Queued(s, frame, NoFaults)
    <3>1. t = u
      BY <1>5, <2>4
    <3>2. SameRequests(s, u) /\ (u.client => u.closing /\ Outgoing(u) = Outgoing(s))
      BY <2>1, <2>4, KeptRequests
    <3>3. Serving(u)
      BY <1>1, <1>5, <3>2, SameServing DEF RequestInv
    <3>4. Waiting(u)
      BY <3>2 DEF Waiting
    <3>5. Moves(s, u) /\ Concluded(s, u)
      BY <1>1, <3>2, SendingMoves
    <3> QED
      BY <1>1, <3>1, <3>3, <3>4, <3>5 DEF Serves, RequestInv, t
  <2>5. CASE Queued(s, frame, NoFaults)
    <3>1. t = next
      BY <1>5, <2>5
    <3>2. /\ Outgoing(t) = Outgoing(u) /\ StartedTransmissions(t) = StartedTransmissions(u)
      BY <2>3, <3>1, SameOutputFacts
    <3>3. t.client => /\ Kept(s, u) /\ u.client
                      /\ Outgoing(t) = Append(Outgoing(s), x)
                           \/ (t.closing /\ Thins(Append(Outgoing(s), x), Outgoing(t)))
                      /\ Len(StartedTransmissions(s)) <= Len(StartedTransmissions(t))
      BY <2>1, <2>3, <2>5, <3>1, <3>2 DEF Sends
    <3>4. Ticks(s, t)
      BY <1>5, <2>2, <2>3, <3>1, <3>3 DEF Kept, Ticks, LiveDelayed
    <3>5. RequestInv(t)
      BY <1>1, <3>4, TicksServing
    <3>6. Concluded(s, t)
      BY <1>5 DEF Concluded
    <3>7. Moves(s, t)
      <4> SUFFICES ASSUME t.client, ~t.closing PROVE Moves(s, t)
        BY DEF Moves
      <4>1. /\ Consumed(t) = Consumed(s) /\ t.processingRequest = s.processingRequest
            /\ t.received = s.received /\ ~s.closing
        BY <3>4 DEF Ticks, Consumed
      <4>2. Publishes(s, t)
        BY <1>5, <2>2, <3>3, <4>1 DEF Publishes
      <4> QED
        BY <1>5, <3>3, <4>1, <4>2 DEF Moves, Extends
    <3> QED
      BY <3>5, <3>6, <3>7 DEF Serves, t
  <2> QED
    BY <2>4, <2>5
<1> QED
  BY <1>2, <1>3, <1>4, <1>5

\* Of no requests, none draws.
LEMMA NothingDrawn ==
    ASSUME NEW received
    PROVE  Cardinality({id \in 1..0 : Draws(received[id])}) = 0
<1>1. {id \in 1..0 : Draws(received[id])} = {}
  OBVIOUS
<1> QED
  BY <1>1, FS_EmptySet

\* A new session has no requests yet (DeviceSimulatorServer.cpp:368-415).
LEMMA AttachClientServes ==
    ASSUME NEW s, RequestInv(s), ~s.client, OutputInv(AttachClient(s))
    PROVE  Serves(s, AttachClient(s))
<1> DEFINE t == AttachClient(s)
<1>1. s \in Server /\ Inv(s)
  BY DEF RequestInv, OutputInv, Inv
<1>2. /\ t.client = TRUE /\ t.closing = s.closing
      /\ t.sessionGeneration = s.sessionGeneration + 1
      /\ t.sessionOrdinal = s.sessionOrdinal + 1
      /\ t.requestQueue = s.requestQueue /\ t.received = s.received
      /\ t.outputQueue = s.outputQueue /\ t.wire = s.wire
      /\ t.processingRequest = s.processingRequest /\ t.delayed = s.delayed
      /\ t.disconnectScheduled = FALSE
      /\ t.telemetrySequence = InitialSequence
      /\ t.randomSeed = RandomSeed + s.sessionOrdinal /\ t.randomDraws = 0
  BY <1>1 DEF Server, AttachClient, Seed
<1> HIDE DEF t
<1>3. /\ s.requestQueue = <<>> /\ s.outputQueue = <<>> /\ s.wire = <<>> /\ s.received = <<>>
      /\ ~s.processingRequest
  BY <1>1 DEF Inv, Quiet
<1>4. StartedTransmissions(t) = <<>> /\ Outgoing(t) = <<>>
  <2>1. StartedTransmissions(t) = <<>>
    BY <1>2, <1>3, EmptyWire
  <2> QED
    BY <1>2, <1>3, <2>1 DEF Outgoing
<1>5. Consumed(t) = 0 /\ Done(t) = 0
  BY <1>2, <1>3 DEF Consumed, Done
<1>6. Aligned(t)
  BY <1>2, <1>3 DEF Aligned
<1>7. LiveDelayed(t) = {}
  <2>1. \A d \in s.delayed : d.generation \in Nat /\ d.generation < s.sessionGeneration
    BY <1>1, FieldTypes DEF Inv, Dated, DelayedResponse
  <2>2. s.sessionGeneration \in Nat
    BY <1>1, FieldTypes
  <2>3. \A d \in s.delayed : d.generation # s.sessionGeneration + 1
    BY <2>1, <2>2
  <2> QED
    BY <1>2, <2>3 DEF LiveDelayed
<1>8. Held(t)
  BY <1>2, <1>3, <1>7 DEF Held
<1>9. Told(t, <<>>)
  <2>1. TelemetryIn(<<>>) = {} /\ Replies(<<>>) = {}
    BY DEF TelemetryIn, Replies
  <2>2. TickNumber({}) = InitialSequence
    <3>1. Cardinality({}) = 0
      BY FS_EmptySet
    <3>2. \A m \in Nat : \A i \in 0..(m - 1) : m > 1 => (i + 0) % m = i
      OBVIOUS
    <3> QED
      BY <3>1, <3>2, ServerAssumption DEF TickNumber
  <2>3. Numbered(<<>>, InitialSequence)
    BY <2>1, <2>2 DEF Numbered
  <2>4. Complete(<<>>, t.received, 0)
    BY DEF Complete
  <2>5. InOrder(<<>>, 0) /\ AsPlanned(<<>>, t.received)
    BY <2>1 DEF InOrder, AsPlanned
  <2>6. Final(<<>>) /\ ~Farewell(<<>>)
    BY DEF Final, Farewell
  <2> QED
    BY <1>2, <1>5, <2>3, <2>4, <2>5, <2>6 DEF Told
<1>10. Leaving(t)
  BY <1>2 DEF Leaving
<1>11. Drawn(t, 0)
  <2>1. t.randomSeed = RandomSeed + t.sessionOrdinal - 1
    BY <1>1, <1>2, FieldTypes, SeedAssumption
  <2>2. Cardinality({id \in 1..0 : Draws(t.received[id])}) = 0
    BY NothingDrawn
  <2> QED
    BY <1>2, <1>5, <2>1, <2>2 DEF Drawn
<1>12. Serving(t)
  BY <1>4, <1>6, <1>8, <1>9, <1>10, <1>11 DEF Serving
<1>13. Waiting(t)
  BY <1>2, <1>3 DEF Waiting
<1>14. Moves(s, t)
  BY <1>2, <1>3, <1>4, <1>5 DEF Moves, Empty
<1>15. Concluded(s, t)
  BY DEF Concluded
<1> QED
  BY <1>12, <1>13, <1>14, <1>15 DEF Serves, RequestInv, t

\* A connection is attached or refused (DeviceSimulatorServer.cpp:184-198).
LEMMA AcceptPendingConnectionsServes ==
    ASSUME NEW s, RequestInv(s), NEW made \in BOOLEAN
    PROVE  Serves(s, AcceptPendingConnections(s, made))
<1> DEFINE taken == [s EXCEPT !.pending = FALSE]
           t == AttachClient(taken)
<1>1. OutputInv(AcceptPendingConnections(s, made))
  BY AcceptPendingConnectionsOutput DEF RequestInv
<1>2. AcceptPendingConnections(s, made) = IF s.pending /\ ~s.client /\ made THEN t ELSE taken
  BY DEF AcceptPendingConnections
<1>3. /\ SameOutput(s, taken) /\ SameRequests(s, taken) /\ taken.client = s.client
      /\ taken.requestCalls = s.requestCalls
  BY DEF RequestInv, OutputInv, Inv, Server, SameOutput, SameRequests, LiveDelayed
<1>4. OutputInv(taken)
  <2>1. AcceptPendingConnections(s, FALSE) = taken
    BY DEF AcceptPendingConnections
  <2> QED
    BY <2>1, AcceptPendingConnectionsOutput DEF RequestInv
<1> HIDE DEF taken
<1>5. Serves(s, taken)
  BY <1>3, <1>4, UntouchedServes
<1>6. CASE s.pending /\ ~s.client /\ made
  <2>1. RequestInv(taken) /\ ~taken.client /\ OutputInv(t)
    BY <1>1, <1>2, <1>3, <1>5, <1>6 DEF Serves
  <2>2. Serves(taken, t)
    BY <2>1, AttachClientServes
  <2>3. Serves(s, t)
    BY <1>6, <2>1, <2>2 DEF Serves, Moves, Concluded
  <2> QED
    BY <1>2, <1>6, <2>3
<1>7. CASE ~(s.pending /\ ~s.client /\ made)
  BY <1>2, <1>5, <1>7
<1> QED
  BY <1>6, <1>7

\* The constructed server has no requests.
LEMMA InitServing == Init => RequestInv(srv)
<1> SUFFICES ASSUME Init PROVE RequestInv(srv)
  OBVIOUS
<1>1. OutputInv(srv) /\ ~srv.client
  BY InitOutput DEF Init
<1> QED
  BY <1>1, NobodyServed

\* Every callback and every call of the embedding program serves the requests.
LEMMA StepServes == RequestInv(srv) /\ [Next]_vars => Serves(srv, srv')
<1> SUFFICES ASSUME RequestInv(srv), [Next]_vars PROVE Serves(srv, srv')
  OBVIOUS
<1>0. /\ \A call : MayFail(call) \subseteq BOOLEAN
      /\ \A io \in Outcomes : io.accepted \in BOOLEAN
  BY DEF MayFail, Outcomes
<1>00. /\ OutputInv(srv) /\ Inv(srv) /\ Settled(srv) /\ srv \in Server
       /\ OutputInv(srv') /\ Inv(srv')
  BY StepOutput DEF RequestInv, OutputInv, Inv
<1> DEFINE Unserved(t) ==
        SameRequests(srv, t) /\ SameOutput(srv, t) /\ t.requestCalls = srv.requestCalls
<1>1. CASE Start
  <2>1. PICK ok \in BOOLEAN : srv' = [srv EXCEPT !.stopping = FALSE, !.listening = ok]
    BY <1>0, <1>1 DEF Start
  <2>2. Unserved(srv')
    BY <1>00, <2>1 DEF Server, SameOutput, SameRequests, LiveDelayed
  <2> QED
    BY <1>00, <2>2, UntouchedServes
<1>2. CASE Stop
  <2>1. ~srv'.client
    BY <1>2 DEF Stop, ReleaseClient
  <2> QED
    BY <1>00, <2>1, GoneServes
<1>3. CASE Connect
  <2>1. Unserved(srv')
    BY <1>00, <1>3 DEF Server, SameOutput, SameRequests, LiveDelayed, Connect
  <2> QED
    BY <1>00, <2>1, UntouchedServes
<1>4. CASE NewConnection
  BY <1>0, <1>4, AcceptPendingConnectionsServes DEF NewConnection
<1>5. CASE AcceptCall
  <2> DEFINE t == [srv EXCEPT !.acceptCalls = @ - 1]
  <2>1. srv.acceptCalls - 1 \in Nat
    BY <1>5, <1>00, FieldTypes DEF AcceptCall
  <2>2. Inv([srv EXCEPT !.acceptCalls = srv.acceptCalls - 1])
    BY <1>00, <2>1, AcceptCallsInv
  <2>3. Unserved(t) /\ t.outputCalls = srv.outputCalls /\ t.client = srv.client
        /\ t.closing = srv.closing /\ t.sessionOrdinal = srv.sessionOrdinal
    BY <1>00 DEF Server, SameOutput, SameRequests, LiveDelayed
  <2>4. Inv(t)
    BY <2>2
  <2>5. PICK made \in BOOLEAN : srv' = AcceptPendingConnections(t, made)
    BY <1>0, <1>5 DEF AcceptCall
  <2> HIDE DEF t
  <2>6. OutputInv(t)
    BY <1>00, <2>3, <2>4, SettledSame DEF OutputInv
  <2>7. RequestInv(t) /\ Serves(t, srv')
    BY <2>3, <2>5, <2>6, UntouchedServing, AcceptPendingConnectionsServes
  <2>8. Moves(srv, srv')
    <3>1. /\ Outgoing(t) = Outgoing(srv)
          /\ StartedTransmissions(t) = StartedTransmissions(srv)
      BY <2>3, SameOutputFacts
    <3> SUFFICES ASSUME srv'.client, ~srv'.closing PROVE Moves(srv, srv')
      BY DEF Moves
    <3>2. CASE ~srv.client
      BY <2>3, <2>7, <3>2 DEF Serves, Moves
    <3>3. CASE srv.client
      <4>1. t.received = srv.received /\ Consumed(t) = Consumed(srv)
            /\ t.requestQueue = srv.requestQueue
            /\ t.processingRequest = srv.processingRequest
            /\ t.disconnectScheduled = srv.disconnectScheduled
            /\ t.telemetrySequence = srv.telemetrySequence
        BY <2>3, <3>3 DEF SameRequests, Consumed
      <4>2. /\ Takes(t, srv') <=> Takes(srv, srv')
            /\ Gives(t, srv') <=> Gives(srv, srv')
            /\ Publishes(t, srv') <=> Publishes(srv, srv')
            /\ Continues(t, srv') <=> Continues(srv, srv')
            /\ Extends(t, srv') <=> Extends(srv, srv')
        BY <2>3, <3>1, <4>1 DEF Takes, Gives, Publishes, Continues, Extends
      <4> QED
        BY <2>3, <2>7, <3>1, <3>3, <4>2 DEF Serves, Moves
    <3> QED
      BY <3>2, <3>3
  <2>9. Concluded(srv, srv')
    <3>1. Outgoing(t) = Outgoing(srv)
      BY <2>3, SameOutputFacts
    <3>2. srv.client => /\ Consumed(t) = Consumed(srv)
                        /\ t.disconnectScheduled = srv.disconnectScheduled
      BY <2>3 DEF SameRequests, Consumed
    <3> QED
      BY <2>3, <2>7, <3>1, <3>2 DEF Serves, Concluded
  <2> QED
    BY <2>7, <2>8, <2>9 DEF Serves
<1>6. CASE ReadClientData
  <2>1. PICK n \in 0..MaxBatch :
          \E messages \in [1..n -> Messages], io \in Outcomes :
              srv' = ProcessNextRequest(ReadIn(srv, messages), io)
    BY <1>6 DEF ReadClientData, ReadIn
  <2>2. PICK messages \in [1..n -> Messages], io \in Outcomes :
          srv' = ProcessNextRequest(ReadIn(srv, messages), io)
    BY <2>1
  <2> DEFINE t == ReadIn(srv, messages)
  <2>3. n \in Nat /\ srv.client
    BY <1>6, ServerAssumption DEF ReadClientData
  <2>4. /\ OutputInv(t) /\ Serving(t) /\ SameOutput(srv, t) /\ Consumed(t) = Consumed(srv)
        /\ t.disconnectScheduled = srv.disconnectScheduled
        /\ t.sessionOrdinal = srv.sessionOrdinal
    BY <1>00, <2>3, ReadServing DEF RequestInv
  <2>5. /\ t.client = srv.client /\ t.closing = srv.closing
        /\ t.processingRequest = srv.processingRequest
        /\ t.received = srv.received \o messages
    BY <1>00 DEF Server, ReadIn
  <2>6. messages \in Seq(Messages)
    BY <1>00, <2>3, ArrivalsTypes
  <2> HIDE DEF t
  <2>7. Extends(srv, t)
    BY <2>5, <2>6 DEF Extends
  <2> QED
    BY <1>00, <2>2, <2>4, <2>5, <2>7, ProcessNextRequestServes DEF t
<1>7. CASE ParserFails
  BY <1>7, DisconnectServes DEF ParserFails
<1>8. CASE PeerDisconnects
  BY <1>00, <1>8, DisconnectedClient, GoneServes DEF PeerDisconnects
<1>9. CASE Flush
  <2> DEFINE t == [srv EXCEPT !.unsent = FALSE]
  <2>1. Unserved(t)
    BY <1>00 DEF Server, SameOutput, SameRequests, LiveDelayed
  <2>2. srv' = IF srv.closing THEN HandleClientDisconnected(t) ELSE t
    BY <1>9 DEF Flush
  <2> HIDE DEF t
  <2>3. CASE srv.closing
    BY <1>00, <2>2, <2>3, DisconnectedClient, GoneServes
  <2>4. CASE ~srv.closing
    BY <1>00, <2>1, <2>2, <2>4, UntouchedServes
  <2> QED
    BY <2>3, <2>4
<1>10. CASE RequestCall
  <2> DEFINE t == [srv EXCEPT !.requestCalls = @ - 1]
  <2>1. srv.requestCalls - 1 \in Nat
    BY <1>10, <1>00, FieldTypes DEF RequestCall
  <2>2. Inv([srv EXCEPT !.requestCalls = srv.requestCalls - 1])
    BY <1>00, <2>1, RequestCallsInv
  <2>3. /\ SameOutput(srv, t) /\ t.client = srv.client /\ t.closing = srv.closing
        /\ t.outputCalls = srv.outputCalls /\ t.sessionOrdinal = srv.sessionOrdinal
        /\ t.processingRequest = srv.processingRequest
        /\ t.disconnectScheduled = srv.disconnectScheduled
        /\ t.received = srv.received /\ t.requestQueue = srv.requestQueue
        /\ SameRequests(srv, t)
    BY <1>00 DEF Server, SameOutput, SameRequests, LiveDelayed
  <2>4. Inv(t)
    BY <2>2
  <2>5. PICK io \in Outcomes : srv' = ProcessNextRequest(t, io)
    BY <1>10 DEF RequestCall
  <2> HIDE DEF t
  <2>6. OutputInv(t)
    BY <1>00, <2>3, <2>4, SettledSame DEF OutputInv
  <2>7. Serving(t)
    BY <1>00, <2>3, <2>4, SameServing, SameOutputFacts DEF RequestInv
  <2>8. Consumed(t) = Consumed(srv) /\ Extends(srv, t)
    BY <2>3 DEF Consumed, Extends
  <2> QED
    BY <1>00, <2>3, <2>5, <2>6, <2>7, <2>8, ProcessNextRequestServes
<1>11. CASE OutputCall
  <2> DEFINE t == [srv EXCEPT !.outputCalls = srv.outputCalls - 1]
  <2>1. srv.outputCalls - 1 \in Nat
    BY <1>11, <1>00, FieldTypes DEF OutputCall
  <2>2. Inv(t)
    BY <1>00, <2>1, OutputCallsInv
  <2>3. /\ SameOutput(srv, t) /\ t.client = srv.client /\ t.closing = srv.closing
    BY <1>00 DEF Server, SameOutput
  <2>4. Kept(srv, t)
    BY <1>00 DEF Server, Kept
  <2>5. PICK io \in Outcomes : srv' = ProcessOutputQueue(t, io.accepted)
    BY <1>11 DEF OutputCall
  <2> HIDE DEF t
  <2>6. /\ Wired(t) /\ Outgoing(t) = Outgoing(srv)
        /\ StartedTransmissions(t) = StartedTransmissions(srv)
    BY <1>00, <2>3, SameOutputFacts DEF Settled
  <2>7. Ready(t)
    BY <1>00, <2>2, <2>3, <2>6 DEF Ready, Fresh, Settled, Flowing, SameOutput
  <2>8. Kept(t, srv') /\ Sends(t, Outgoing(t), srv')
    BY <1>0, <2>5, <2>7, ProcessOutputQueueOutput
  <2>9. Kept(srv, srv') /\ Sends(srv, Outgoing(srv), srv')
    BY <2>4, <2>6, <2>8, KeptTwice DEF Sends
  <2> QED
    BY <1>00, <2>9, KeptServes
<1>12. CASE CoalesceTimeout
  <2> DEFINE t == [srv EXCEPT !.coalesceTimer = FALSE, !.coalesceWindowExpired = TRUE]
  <2>1. srv.client /\ srv.coalesceTimer
    BY <1>12, <1>00 DEF CoalesceTimeout, Inv, Quiet
  <2>2. t \in Server /\ SameSessionData(srv, t)
    BY <1>00 DEF Server, SameSessionData
  <2>3. /\ t.fragmentOffset = srv.fragmentOffset /\ t.fragmentTimer = srv.fragmentTimer
        /\ t.fragmentIndex = srv.fragmentIndex /\ t.closing = srv.closing
        /\ Kept(srv, t)
    BY <1>00 DEF Server, Kept
  <2>4. PICK io \in Outcomes : srv' = ProcessOutputQueue(t, io.accepted)
    BY <1>12 DEF CoalesceTimeout
  <2> HIDE DEF t
  <2>5. Inv(t)
    BY <1>00, <2>1, <2>2, SameInv
  <2>6. /\ WirePieces(t) = WirePieces(srv) /\ Outgoing(t) = Outgoing(srv)
        /\ StartedTransmissions(t) = StartedTransmissions(srv)
    BY <2>2 DEF WirePieces, StartedTransmissions, Outgoing, SameSessionData
  <2>7. Wired(t)
    <3>1. Midway(srv) => Midway(t)
      BY <2>2, <2>3, <2>6 DEF Midway, SameSessionData
    <3> QED
      BY <1>00, <2>2, <2>3, <2>6, <3>1 DEF Settled, Wired, SameSessionData
  <2>8. Ready(t)
    BY <1>00, <2>1, <2>2, <2>3, <2>5, <2>7 DEF Ready, Fresh, Settled, Flowing, SameSessionData
  <2>9. Kept(t, srv') /\ Sends(t, Outgoing(t), srv')
    BY <1>0, <2>4, <2>8, ProcessOutputQueueOutput
  <2>10. Kept(srv, srv') /\ Sends(srv, Outgoing(srv), srv')
    BY <2>3, <2>6, <2>9, KeptTwice DEF Sends
  <2> QED
    BY <1>00, <2>10, KeptServes
<1>13. CASE FragmentTimeout
  <2> DEFINE t == [srv EXCEPT !.fragmentTimer = FALSE]
  <2>1. srv.fragmentTimer /\ srv.writing /\ Midway(srv) /\ srv.activeTransmission # <<>>
    BY <1>13, <1>00 DEF FragmentTimeout, Settled, Wired, Midway
  <2>2. srv.client
    BY <1>00, <2>1 DEF Inv, Quiet
  <2>3. Inv(t)
    BY <1>00, FragmentTimerInv
  <2>4. /\ t.wire = srv.wire /\ t.outputQueue = srv.outputQueue
        /\ t.activeTransmission = srv.activeTransmission
        /\ t.fragmentOffset = srv.fragmentOffset /\ t.writing = srv.writing
        /\ t.fragmentIndex = srv.fragmentIndex
        /\ t.fragmentTimer = FALSE /\ t.coalesceTimer = srv.coalesceTimer
        /\ t.coalesceWindowExpired = srv.coalesceWindowExpired /\ t.client = srv.client
    BY <1>00 DEF Server
  <2>5. Kept(srv, t)
    BY <1>00 DEF Server, Kept
  <2>6. PICK io \in Outcomes : srv' = WriteNextFragment(t, io.accepted)
    BY <1>13 DEF FragmentTimeout
  <2> HIDE DEF t
  <2>7. /\ WirePieces(t) = WirePieces(srv)
        /\ StartedTransmissions(t) = StartedTransmissions(srv)
        /\ Outgoing(t) = Outgoing(srv)
    BY <2>4 DEF WirePieces, StartedTransmissions, Outgoing
  <2>8. Wired(t) /\ Midway(t)
    BY <1>00, <2>1, <2>4, <2>7 DEF Settled, Wired, Midway
  <2>9. NoWindow(t)
    BY <1>00, <2>1, <2>4 DEF Settled, Fresh, NoWindow
  <2>10. Writing(t)
    BY <2>1, <2>2, <2>3, <2>4, <2>8, <2>9 DEF Writing
  <2>11. Kept(t, srv') /\ Sends(t, FullLine(t), srv')
    BY <1>0, <2>6, <2>10, WriteFragmentOutput
  <2>12. FullLine(t) = Outgoing(srv)
    BY <2>4, <2>7, <2>8 DEF FullLine, Outgoing, Midway
  <2>13. Kept(srv, srv') /\ Sends(srv, Outgoing(srv), srv')
    BY <2>5, <2>7, <2>11, <2>12, KeptTwice DEF Sends
  <2> QED
    BY <1>00, <2>13, KeptServes
<1>14. CASE TelemetryTimeout
  BY <1>0, <1>14, PublishTelemetryServes DEF TelemetryTimeout
<1>15. CASE DelayElapsed
  <2>1. PICK capture \in srv.delayed, io \in Outcomes :
          srv' = RunDelayed(Elapsed(srv, capture), capture, io.accepted)
    BY <1>15 DEF DelayElapsed, Elapsed
  <2>2. /\ RequestInv(srv')
        /\ \/ ~srv.disconnectScheduled /\ (srv'.client /\ ~srv'.closing => Gives(srv, srv'))
           \/ SameRequests(srv, srv') /\ SameOutput(srv, srv')
    BY <1>0, <2>1, RunDelayedServing
  <2>3. CASE SameRequests(srv, srv') /\ SameOutput(srv, srv')
    BY <1>00, <2>2, <2>3, UntouchedMoves DEF Serves
  <2>4. CASE ~srv.disconnectScheduled /\ (srv'.client /\ ~srv'.closing => Gives(srv, srv'))
    <3>1. Concluded(srv, srv')
      BY <2>4 DEF Concluded
    <3>2. Moves(srv, srv')
      BY <2>4 DEF Moves, Gives, Extends
    <3> QED
      BY <2>2, <3>1, <3>2 DEF Serves
  <2> QED
    BY <2>2, <2>3, <2>4
<1>16. CASE UNCHANGED vars
  <2>1. srv' = srv
    BY <1>16 DEF vars
  <2>2. Unserved(srv')
    BY <2>1 DEF SameOutput, SameRequests
  <2> QED
    BY <1>00, <2>2, UntouchedServes
<1> QED
  BY <1>1, <1>2, <1>3, <1>4, <1>5, <1>6, <1>7, <1>8, <1>9, <1>10, <1>11, <1>12, <1>13,
     <1>14, <1>15, <1>16 DEF Next

-----------------------------------------------------------------------------
(* What holds of the requests of every session. *)

RequestInvariant == RequestInv(srv)

\* Between any two callbacks the requests are served
\* (DeviceSimulatorServer.cpp:200-237, 440-642).
THEOREM RequestInvariance == Spec => []RequestInvariant
<1>1. Init => RequestInvariant
  BY InitServing DEF RequestInvariant
<1>2. RequestInvariant /\ [Next]_vars => RequestInvariant'
  BY StepServes DEF RequestInvariant, Serves
<1> QED
  BY <1>1, <1>2, PTL DEF Spec

\* While the connection is open, a request that waits has something that will
\* take it, and a request in progress an answer that is to come
\* (DeviceSimulatorServer.cpp:442, 475).
THEOREM RequestsNotLost == Spec => []NoLostRequest
<1>1. RequestInvariant => NoLostRequest
  BY DEF RequestInvariant, RequestInv, Serving, Held, Waiting, NoLostRequest
<1> QED
  BY <1>1, RequestInvariance, PTL

\* Replies leave in the order of their requests, none twice, whatever was
\* delayed (DeviceSimulatorServer.cpp:442, 448).
THEOREM RepliesOrdered == Spec => []RepliesInOrder
<1>1. RequestInvariant => RepliesInOrder
  <2> SUFFICES ASSUME RequestInvariant, srv.client PROVE RepliesInOrder
    BY DEF RepliesInOrder
  <2> DEFINE out == Outgoing(srv)
             c == Consumed(srv)
  <2>1. Aligned(srv) /\ Held(srv) /\ InOrder(out, Done(srv)) /\ srv \in Server /\ Inv(srv)
    BY DEF RequestInvariant, RequestInv, OutputInv, Inv, Serving, Told
  <2>2. c \in Nat /\ Done(srv) \in Nat /\ Done(srv) <= c
    BY <2>1, ConsumedTypes, DoneTypes
  <2>3. LiveDelayed(srv) # {} => Done(srv) = c - 1
    BY <2>1 DEF Held, Done
  <2>4. \A d \in LiveDelayed(srv) : d.response.id = c
    BY <2>1 DEF Held, Asked
  <2>5. \A j \in DOMAIN srv.requestQueue : srv.requestQueue[j].id = c + j
    BY <2>1 DEF Aligned
  <2>6. DOMAIN srv.requestQueue = 1..Len(srv.requestQueue)
    BY <2>1, FieldTypes, LenProperties
  <2>7. Replies(out) = DOMAIN out \ TelemetryIn(out)
    BY DEF Replies
  <2> HIDE DEF out, c
  <2>8. \A i \in Replies(out), j \in DOMAIN srv.requestQueue :
          out[i].id < srv.requestQueue[j].id
    <3> SUFFICES ASSUME NEW i \in Replies(out), NEW j \in DOMAIN srv.requestQueue
                 PROVE  out[i].id < srv.requestQueue[j].id
      OBVIOUS
    <3>1. out[i].id \in 1..Done(srv)
      BY <2>1 DEF InOrder
    <3>2. j \in Nat /\ j > 0
      BY <2>6
    <3> QED
      BY <2>2, <2>5, <3>1, <3>2
  <2>9. \A i \in Replies(out), d \in LiveDelayed(srv) : out[i].id < d.response.id
    <3> SUFFICES ASSUME NEW i \in Replies(out), NEW d \in LiveDelayed(srv)
                 PROVE  out[i].id < d.response.id
      OBVIOUS
    <3>1. out[i].id \in 1..Done(srv)
      BY <2>1 DEF InOrder
    <3> QED
      BY <2>2, <2>3, <2>4, <3>1
  <2>10. \A i, j \in Replies(out) : i < j => out[i].id < out[j].id
    BY <2>1 DEF InOrder
  <2> QED
    BY <2>7, <2>8, <2>9, <2>10 DEF RepliesInOrder, out
<1> QED
  BY <1>1, RequestInvariance, PTL

\* As long as the connection stays open, a request that was taken is answered
\* if its plan says so, and only then (DeviceSimulatorServer.cpp:478-561).
THEOREM PlansFollowed == Spec => []AnswersFollowPlans
<1>1. RequestInvariant => AnswersFollowPlans
  <2> SUFFICES ASSUME RequestInvariant, srv.client, ~srv.closing, NEW id \in 1..Consumed(srv)
               PROVE  LET plan == PlanFor(srv.received[id])
                      IN  /\ MustAnswer(plan) => Answered(srv, id)
                          /\ Answered(srv, id) => MayAnswer(plan)
    BY DEF AnswersFollowPlans
  <2> DEFINE out == Outgoing(srv)
             plan == PlanFor(srv.received[id])
             n == Done(srv)
  <2>1. /\ Aligned(srv) /\ Held(srv) /\ AsPlanned(out, srv.received)
        /\ Complete(out, srv.received, n)
        /\ srv \in Server /\ out \in Seq(Transmission)
    BY OutgoingType DEF RequestInvariant, RequestInv, OutputInv, Inv, Serving, Told
  <2>2. /\ Consumed(srv) \in Nat /\ n \in Nat
        /\ n = IF srv.processingRequest THEN Consumed(srv) - 1 ELSE Consumed(srv)
    BY <2>1, ConsumedTypes, DoneTypes DEF Done
  <2>3. Answered(srv, id) <=> \/ \E i \in Replies(out) : out[i].id = id
                              \/ \E d \in LiveDelayed(srv) : d.response.id = id
    BY <2>1, LineTypes DEF Answered
  <2> HIDE DEF out, n
  <2>4. CASE id \in 1..n
    <3>1. MustAnswer(plan) => \E i \in Replies(out) : out[i].id = id
      BY <2>1, <2>4 DEF Complete
    <3>2. (\E i \in Replies(out) : out[i].id = id) => MayAnswer(plan)
      BY <2>1 DEF AsPlanned
    <3>3. \A d \in LiveDelayed(srv) : d.response.id = id => MayAnswer(plan)
      BY <2>1 DEF Held, Asked
    <3> QED
      BY <2>3, <3>1, <3>2, <3>3
  <2>5. CASE id \notin 1..n
    <3>1. srv.processingRequest /\ id = Consumed(srv)
      BY <2>2, <2>5
    <3>2. PICK d \in LiveDelayed(srv) : d.response.id = id /\ MayAnswer(plan)
      BY <2>1, <3>1 DEF Held, Asked
    <3> QED
      BY <2>3, <3>2
  <2> QED
    BY <2>4, <2>5
<1> QED
  BY <1>1, RequestInvariance, PTL

\* Nothing is queued, delayed or published behind a response that disconnects
\* after it is sent (DeviceSimulatorServer.cpp:350, 442, 620-623).
THEOREM FarewellIsLast == Spec => []DisconnectIsLast
<1>1. RequestInvariant => DisconnectIsLast
  <2> SUFFICES ASSUME RequestInvariant, NEW i \in DOMAIN Outgoing(srv),
                      Outgoing(srv)[i].disconnectAfterSend
               PROVE  i = Len(Outgoing(srv)) /\ LiveDelayed(srv) = {} /\ ~srv.telemetryTimer
    BY DEF DisconnectIsLast
  <2>1. Inv(srv) /\ Outgoing(srv) \in Seq(Transmission)
    BY OutgoingType DEF RequestInvariant, RequestInv, OutputInv
  <2>2. srv.client
    <3>1. Outgoing(srv) # <<>>
      OBVIOUS
    <3> QED
      BY <2>1, <3>1, ReleasedSettled
  <2>3. Held(srv) /\ Told(srv, Outgoing(srv)) /\ Leaving(srv)
    BY <2>2 DEF RequestInvariant, RequestInv, Serving
  <2>4. srv.disconnectScheduled
    BY <2>3 DEF Told, Farewell
  <2>5. LiveDelayed(srv) = {} /\ ~srv.telemetryTimer
    BY <2>3, <2>4 DEF Leaving, Held
  <2> DEFINE out == Outgoing(srv)
             n == Len(out)
  <2>6. DOMAIN out = 1..n /\ n \in Nat
    BY <2>1, LenProperties
  <2>7. \A j \in DOMAIN out : ~(i < j)
    BY <2>3 DEF Told, Final
  <2>8. i \in DOMAIN out
    OBVIOUS
  <2> HIDE DEF n, out
  <2>9. i \in 1..n /\ n \in 1..n
    BY <2>6, <2>8
  <2>10. i = n
    BY <2>6, <2>7, <2>9
  <2> QED
    BY <2>5, <2>10 DEF n, out
<1> QED
  BY <1>1, RequestInvariance, PTL

\* Telemetry frames carry consecutive numbers from the initial one, whatever is
\* sent between them (DeviceSimulatorServer.cpp:355-358, 398).
THEOREM TelemetryNumbered == Spec => []TelemetryConsecutive
<1>1. RequestInvariant => TelemetryConsecutive
  BY DEF RequestInvariant, RequestInv, Serving, Told, Numbered, TickNumber, TelemetryConsecutive
<1> QED
  BY <1>1, RequestInvariance, PTL

\* The generator of a session is a function of the configured seed, of the
\* number of sessions before and of the session's own requests
\* (DeviceSimulatorServer.cpp:391, 528, 732-741).
THEOREM DropsReproducible == Spec => []ReproducibleDrops
<1>1. RequestInvariant => ReproducibleDrops
  <2> SUFFICES ASSUME RequestInvariant, srv.client PROVE ReproducibleDrops
    BY DEF ReproducibleDrops
  <2>1. Drawn(srv, 0) /\ srv \in Server
    BY DEF RequestInvariant, RequestInv, OutputInv, Inv, Serving
  <2>2. ConsumedDraws(srv) = Cardinality({id \in 1..Consumed(srv) : Draws(srv.received[id])})
    BY DEF ConsumedDraws, Draws, Executable
  <2>3. srv.randomDraws + 0 = srv.randomDraws
    BY <2>1, FieldTypes
  <2> QED
    BY <2>1, <2>2, <2>3 DEF Drawn, ReproducibleDrops
<1> QED
  BY <1>1, RequestInvariance, PTL

\* Once a disconnect is scheduled, no step takes a request or queues a response
\* or a telemetry frame (DeviceSimulatorServer.cpp:350, 442, 500, 621).
THEOREM DisconnectSettlesIt == Spec => NothingAfterScheduledDisconnect
<1>1. RequestInvariant /\ [Next]_vars =>
        [srv.disconnectScheduled /\ SameSession =>
            /\ srv'.disconnectScheduled
            /\ Consumed(srv') = Consumed(srv)
            /\ Len(Outgoing(srv')) <= Len(Outgoing(srv))]_vars
  BY StepServes DEF RequestInvariant, Serves, Concluded, SameSession
<1> QED
  BY <1>1, RequestInvariance, PTL DEF Spec, NothingAfterScheduledDisconnect

-----------------------------------------------------------------------------
(* The service.  Moves(s, t), which every callback makes, says in terms of *)
(* the server what a turn of the service says in its own: a request taken, *)
(* a held reply given, a telemetry frame published, or neither, and frames *)
(* sent from the head of the line.  What remains is the change of terms.   *)

\* Some service's frames for a line of transmissions.
FramesOf(line) == [i \in DOMAIN line |-> FrameOf(line[i])]

\* Frames are those of the transmissions, one for one.
LEMMA FramesTypes ==
    ASSUME NEW line \in Seq(Transmission)
    PROVE  /\ DOMAIN FramesOf(line) = DOMAIN line /\ Len(FramesOf(line)) = Len(line)
           /\ Len(line) \in Nat
           /\ \A i \in DOMAIN line : /\ FramesOf(line)[i].telemetry = line[i].telemetry
                                     /\ FramesOf(line)[i].id = line[i].id
<1>1. Len(line) \in Nat /\ DOMAIN line = 1..Len(line)
  BY LenProperties
<1>2. DOMAIN FramesOf(line) = 1..Len(line)
  BY <1>1 DEF FramesOf
<1>3. Len(FramesOf(line)) = Len(line)
  BY <1>1, <1>2 DEF FramesOf
<1>4. \A i \in DOMAIN line : /\ FramesOf(line)[i].telemetry = line[i].telemetry
                             /\ FramesOf(line)[i].id = line[i].id
  BY DEF FramesOf, FrameOf
<1> QED
  BY <1>1, <1>2, <1>3, <1>4

\* One more transmission is one more frame.
LEMMA FramesAppend ==
    ASSUME NEW line \in Seq(Transmission), NEW x \in Transmission
    PROVE  FramesOf(Append(line, x)) = Append(FramesOf(line), FrameOf(x))
<1> DEFINE longer == Append(line, x)
           n == Len(line)
           S == {FrameOf(y) : y \in Transmission}
<1>1. /\ longer \in Seq(Transmission) /\ n \in Nat
      /\ DOMAIN line = 1..n /\ DOMAIN longer = 1..(n + 1)
      /\ \A i \in 1..n : longer[i] = line[i]
      /\ longer[n + 1] = x
  BY AppendedLine
<1>2. FramesOf(line) \in Seq(S) /\ Len(FramesOf(line)) = n
  <2>1. \A i \in 1..n : line[i] \in Transmission
    BY <1>1
  <2>2. FramesOf(line) \in [1..n -> S]
    BY <1>1, <2>1 DEF FramesOf
  <2> QED
    BY <1>1, <2>2, SeqDef, LenProperties, FramesTypes
<1>3. FrameOf(x) \in S
  OBVIOUS
<1> HIDE DEF longer, n, S
<1>4. DOMAIN FramesOf(line) = 1..n
  BY <1>1 DEF FramesOf
<1>5. FramesOf(longer) = [i \in 1..(n + 1) |-> FrameOf(longer[i])]
  BY <1>1 DEF FramesOf
<1>6. FramesOf(longer) \in [1..(n + 1) -> S]
  <2>1. \A i \in 1..(n + 1) : longer[i] \in Transmission
    BY <1>1
  <2> QED
    BY <1>5, <2>1 DEF S
<1>7. FramesOf(longer) \in Seq(S) /\ Len(FramesOf(longer)) = n + 1
  BY <1>1, <1>6, SeqDef, LenProperties
<1>8. /\ Append(FramesOf(line), FrameOf(x)) \in Seq(S)
      /\ Len(Append(FramesOf(line), FrameOf(x))) = n + 1
      /\ \A i \in 1..n : Append(FramesOf(line), FrameOf(x))[i] = FramesOf(line)[i]
      /\ Append(FramesOf(line), FrameOf(x))[n + 1] = FrameOf(x)
  BY <1>2, <1>3, AppendProperties
<1>9. \A i \in 1..(n + 1) : FramesOf(longer)[i] = Append(FramesOf(line), FrameOf(x))[i]
  <2> SUFFICES ASSUME NEW i \in 1..(n + 1)
               PROVE  FramesOf(longer)[i] = Append(FramesOf(line), FrameOf(x))[i]
    OBVIOUS
  <2>1. CASE i \in 1..n
    BY <1>1, <1>5, <1>8, <2>1 DEF FramesOf
  <2>2. CASE i = n + 1
    BY <1>1, <1>5, <1>8, <2>2
  <2>3. i \in 1..n \/ i = n + 1
    BY <1>1
  <2> QED
    BY <2>1, <2>2, <2>3
<1> QED
  BY <1>7, <1>8, <1>9, SeqEqual DEF longer

\* A sequence is a prefix of its continuations.
LEMMA ExtendsPrefix ==
    ASSUME NEW s, NEW t, s.received \in Seq(Messages), Extends(s, t)
    PROVE  IsPrefix(s.received, t.received)
<1> DEFINE r == s.received
<1>1. Len(r) \in Nat
  BY LenProperties
<1> HIDE DEF r
<1>2. CASE t.received = r
  BY <1>1, <1>2 DEF IsPrefix, r
<1>3. ASSUME NEW more \in Seq(Messages), t.received = r \o more
      PROVE  IsPrefix(r, t.received)
  <2>1. r \in Seq(Messages)
    BY DEF r
  <2>2. /\ r \o more \in Seq(Messages) /\ Len(r \o more) = Len(r) + Len(more)
        /\ \A i \in 1..(Len(r) + Len(more)) :
             (r \o more)[i] = IF i <= Len(r) THEN r[i] ELSE more[i - Len(r)]
    BY <2>1, ConcatProperties, Zenon
  <2>3. Len(more) \in Nat
    BY LenProperties
  <2> DEFINE all == r \o more
  <2> HIDE DEF all
  <2>4. all \in Seq(Messages) /\ Len(r) <= Len(all) /\ Len(all) \in Nat
    BY <1>1, <2>2, <2>3 DEF all
  <2>5. \A i \in 1..Len(r) : all[i] = r[i]
    BY <1>1, <2>2, <2>3 DEF all
  <2> DEFINE a == SubSeq(r, 1, Len(r))
             b == SubSeq(all, 1, Len(r))
  <2>6. /\ a \in Seq(Messages) /\ Len(a) = Len(r) /\ \A i \in 1..Len(r) : a[i] = r[i]
    BY <1>1, <2>1, SubSeqProperties
  <2>7. /\ b \in Seq(Messages) /\ Len(b) = Len(r) /\ \A i \in 1..Len(r) : b[i] = all[i]
    BY <1>1, <2>4, SubSeqProperties
  <2> HIDE DEF a, b
  <2>8. a = b
    BY <2>5, <2>6, <2>7, SeqEqual
  <2> QED
    BY <1>3, <2>4, <2>8 DEF IsPrefix, a, b, all
<1> QED
  BY <1>2, <1>3 DEF Extends, r

-----------------------------------------------------------------------------
(* The service's view of an open session. *)

\* What the mapped variables are while a session is open.
View(s) ==
    /\ OutputInv(s) /\ s.client /\ ~s.closing /\ Serving(s)
    /\ Outgoing(s) \in Seq(Transmission)
    /\ Consumed(s) \in Nat /\ Consumed(s) <= Len(s.received) /\ Len(s.received) \in Nat
    /\ \A id \in 1..Len(s.received) : s.received[id] \in Messages
    /\ Len(StartedTransmissions(s)) \in Nat
    /\ Len(StartedTransmissions(s)) <= Len(Outgoing(s))
    /\ s.processingRequest \in BOOLEAN /\ s.received \in Seq(Messages)

\* An open session of the server is one the service can see.
LEMMA ViewOfOpen ==
    ASSUME NEW s, RequestInv(s), s.client, ~s.closing
    PROVE  View(s)
<1>1. OutputInv(s) /\ Serving(s) /\ s \in Server /\ Inv(s) /\ Aligned(s)
  BY DEF RequestInv, OutputInv, Inv, Serving
<1>2. Consumed(s) \in Nat /\ Consumed(s) <= Len(s.received) /\ Len(s.received) \in Nat
  BY <1>1, ConsumedTypes
<1>3. s.received \in Seq(Messages) /\ s.processingRequest \in BOOLEAN
  BY <1>1, FieldTypes, FlagTypes
<1>4. \A id \in 1..Len(s.received) : s.received[id] \in Messages
  BY <1>3, LenProperties
<1>5. Outgoing(s) \in Seq(Transmission)
  BY <1>1, OutgoingType
<1>6. /\ Len(StartedTransmissions(s)) \in Nat
      /\ Len(StartedTransmissions(s)) <= Len(Outgoing(s))
  <2>1. StartedTransmissions(s) \in Seq(Transmission) /\ s.outputQueue \in Seq(Transmission)
    BY <1>1, WireTypes, FieldTypes
  <2> DEFINE a == StartedTransmissions(s)
             b == s.outputQueue
  <2>2. Outgoing(s) = a \o b
    BY DEF Outgoing
  <2> HIDE DEF a, b
  <2>3. Len(a \o b) = Len(a) + Len(b) /\ Len(a) \in Nat /\ Len(b) \in Nat
    BY <2>1, ConcatProperties, LenProperties DEF a, b
  <2> QED
    BY <2>2, <2>3 DEF a
<1> QED
  BY <1>1, <1>2, <1>3, <1>4, <1>5, <1>6 DEF View

\* The frames of an open session say what the service says of them: before a
\* disconnect is scheduled there is no farewell, and the next telemetry frame
\* has the session's next number.
LEMMA ViewFacts ==
    ASSUME NEW s, View(s)
    PROVE  LET frames == FramesOf(Outgoing(s)) IN
           /\ ~s.disconnectScheduled =>
                \A i \in DOMAIN frames :
                  ~(~frames[i].telemetry /\ s.received[frames[i].id] \in FarewellMessages)
           /\ (InitialSequence + Cardinality({i \in DOMAIN frames : frames[i].telemetry}))
                % SequenceModulus = s.telemetrySequence
<1> DEFINE out == Outgoing(s)
           frames == FramesOf(out)
<1>1. out \in Seq(Transmission) /\ Told(s, out) /\ ~s.closing
  BY DEF View, Serving
<1> HIDE DEF out
<1>2. /\ DOMAIN frames = DOMAIN out
      /\ \A i \in DOMAIN out : frames[i].telemetry = out[i].telemetry /\ frames[i].id = out[i].id
  BY <1>1, FramesTypes
<1> HIDE DEF frames
<1>3. ASSUME ~s.disconnectScheduled, NEW i \in DOMAIN frames, ~frames[i].telemetry
      PROVE  s.received[frames[i].id] \notin FarewellMessages
  <2>1. i \in DOMAIN out /\ ~out[i].telemetry /\ frames[i].id = out[i].id
    BY <1>2, <1>3
  <2>2. i \in Replies(out)
    BY <1>1, <2>1, LineTypes
  <2>3. ~out[i].disconnectAfterSend
    BY <1>1, <1>3, <2>1 DEF Told, Farewell
  <2>4. ~PlanFor(s.received[out[i].id]).faults.disconnectAfterSend
    BY <1>1, <2>2, <2>3 DEF Told, AsPlanned
  <2> QED
    BY <2>1, <2>4 DEF FarewellMessages
<1>4. {i \in DOMAIN frames : frames[i].telemetry} = TelemetryIn(out)
  BY <1>2 DEF TelemetryIn
<1>5. s.telemetrySequence = TickNumber(TelemetryIn(out))
  BY <1>1 DEF Told, Numbered
<1>6. /\ ~s.disconnectScheduled =>
           \A i \in DOMAIN frames :
             ~(~frames[i].telemetry /\ s.received[frames[i].id] \in FarewellMessages)
      /\ (InitialSequence + Cardinality({i \in DOMAIN frames : frames[i].telemetry}))
           % SequenceModulus = s.telemetrySequence
  BY <1>3, <1>4, <1>5 DEF TickNumber
<1> QED
  BY <1>6 DEF frames, out

-----------------------------------------------------------------------------
(* The turns of the service. *)

\* A request taken, in the server's terms, is one taken in the service's.
LEMMA TakesRefines ==
    ASSUME View(srv), View(srv'), Takes(srv, srv')
    PROVE  Abstract!Take
<1> DEFINE c == Consumed(srv)
           d == Consumed(srv')
           message == srv'.received[d]
           plan == PlanFor(message)
           a == FramesOf(Outgoing(srv))
           b == FramesOf(Outgoing(srv'))
<1>1. IsOpen /\ IsOpen'
  BY DEF View, IsOpen
<1>2. /\ c \in Nat /\ d \in Nat /\ d = c + 1 /\ d <= Len(srv'.received)
      /\ Len(srv'.received) \in Nat
      /\ ~srv.processingRequest /\ ~srv.disconnectScheduled
  BY DEF View, Takes
<1>3. c < Len(srv'.received) /\ message \in Messages
  <2>1. d \in 1..Len(srv'.received) /\ c < Len(srv'.received)
    BY <1>2
  <2> QED
    BY <2>1 DEF View
<1>4. ~Abstract!SaidFarewell
  <2>1. \A i \in DOMAIN a : ~(~a[i].telemetry /\ srv.received[a[i].id] \in FarewellMessages)
    BY <1>2, ViewFacts
  <2> QED
    BY <1>1, <2>1 DEF Abstract!SaidFarewell, Line, FramesOf
<1>5. /\ \/ message \notin MustReplyMessages /\ b = a /\ ~srv'.processingRequest
         \/ message \in MayReplyMessages /\ b = Append(a, Abstract!Reply(d)) /\ ~srv'.processingRequest
         \/ message \in MayReplyMessages /\ b = a /\ srv'.processingRequest
  <2>1. CASE ~MustAnswer(plan) /\ Outgoing(srv') = Outgoing(srv) /\ ~srv'.processingRequest
    BY <2>1 DEF MustReplyMessages
  <2>2. CASE MayAnswer(plan) /\ Outgoing(srv') = Outgoing(srv) /\ srv'.processingRequest
    BY <1>3, <2>2 DEF MayReplyMessages
  <2>3. CASE /\ MayAnswer(plan) /\ ~srv'.processingRequest
             /\ \E x \in Transmission :
                  ~x.telemetry /\ x.id = d /\ Outgoing(srv') = Append(Outgoing(srv), x)
    <3>1. PICK x \in Transmission :
            ~x.telemetry /\ x.id = d /\ Outgoing(srv') = Append(Outgoing(srv), x)
      BY <2>3
    <3>2. b = Append(a, FrameOf(x))
      BY <3>1, FramesAppend DEF View
    <3>3. x.telemetry = FALSE
      BY <3>1 DEF Transmission
    <3>4. FrameOf(x) = Abstract!Reply(d)
      BY <3>1, <3>3 DEF FrameOf, Abstract!Reply
    <3> QED
      BY <1>3, <2>3, <3>2, <3>4 DEF MayReplyMessages
  <2> QED
    BY <2>1, <2>2, <2>3 DEF Takes
<1>6. srv.processingRequest \in BOOLEAN /\ srv'.processingRequest \in BOOLEAN
  BY DEF View
<1> QED
  BY <1>1, <1>2, <1>3, <1>4, <1>5, <1>6 DEF Abstract!Take, Line, FramesOf

\* A held reply given is one the service gives.
LEMMA GivesRefines ==
    ASSUME View(srv), View(srv'), Gives(srv, srv')
    PROVE  Abstract!Give
<1> DEFINE c == Consumed(srv)
           a == FramesOf(Outgoing(srv))
           b == FramesOf(Outgoing(srv'))
<1>1. IsOpen /\ IsOpen'
  BY DEF View, IsOpen
<1>2. PICK x \in Transmission :
        ~x.telemetry /\ x.id = c /\ Outgoing(srv') = Append(Outgoing(srv), x)
  BY DEF Gives
<1>3. b = Append(a, FrameOf(x))
  BY <1>2, FramesAppend DEF View
<1>4. x.telemetry = FALSE
  BY <1>2 DEF Transmission
<1>5. FrameOf(x) = Abstract!Reply(c)
  BY <1>2, <1>4 DEF FrameOf, Abstract!Reply
<1>6. Consumed(srv') = c /\ srv.processingRequest /\ ~srv'.processingRequest
  BY DEF Gives, Consumed
<1> QED
  BY <1>1, <1>3, <1>5, <1>6 DEF Abstract!Give, Line, FramesOf

\* A telemetry frame queued is the one the service publishes next.
LEMMA PublishesRefines ==
    ASSUME View(srv), View(srv'), Publishes(srv, srv')
    PROVE  Abstract!Publish
<1> DEFINE a == FramesOf(Outgoing(srv))
           b == FramesOf(Outgoing(srv'))
<1>1. IsOpen /\ IsOpen'
  BY DEF View, IsOpen
<1>2. PICK x \in Transmission : /\ x.telemetry /\ x.id = srv.telemetrySequence
                                /\ Outgoing(srv') = Append(Outgoing(srv), x)
  BY DEF Publishes
<1>3. b = Append(a, FrameOf(x))
  BY <1>2, FramesAppend DEF View
<1>4. x.telemetry = TRUE
  BY <1>2 DEF Transmission
<1>5. (InitialSequence + Cardinality({i \in DOMAIN a : a[i].telemetry})) % SequenceModulus
        = srv.telemetrySequence
  BY ViewFacts
<1>6. FrameOf(x) = Abstract!Telemetry(a)
  <2>1. \A S : Abstract!Cardinality(S) = Cardinality(S)
    BY DEF Cardinality, Abstract!Cardinality
  <2> QED
    BY <1>2, <1>4, <1>5, <2>1 DEF FrameOf, Abstract!Telemetry, Abstract!Count
<1>7. ~Abstract!SaidFarewell
  <2>1. \A i \in DOMAIN a : ~(~a[i].telemetry /\ srv.received[a[i].id] \in FarewellMessages)
    BY ViewFacts DEF Publishes
  <2> QED
    BY <1>1, <2>1 DEF Abstract!SaidFarewell, Line, FramesOf
<1>8. Consumed(srv') = Consumed(srv) /\ srv'.processingRequest = srv.processingRequest
  BY DEF Publishes
<1> QED
  BY <1>1, <1>3, <1>6, <1>7, <1>8 DEF Abstract!Publish, Line, FramesOf

\* A session that stays open takes one turn of the service.
LEMMA TurnRefines ==
    ASSUME View(srv), View(srv'), Extends(srv, srv'),
           /\ Len(StartedTransmissions(srv)) <= Len(StartedTransmissions(srv'))
           /\ \/ Takes(srv, srv') \/ Gives(srv, srv')
              \/ Publishes(srv, srv') \/ Continues(srv, srv')
    PROVE  Abstract!Turn
<1>1. IsOpen = TRUE /\ IsOpen' = TRUE
  BY DEF View, IsOpen
<1>2. srv'.received \in Seq(Messages) /\ IsPrefix(srv.received, srv'.received)
  BY ExtendsPrefix DEF View
<1>3. Abstract!IsPrefix(srv.received, srv'.received)
  BY <1>2 DEF IsPrefix, Abstract!IsPrefix
<1>4. Abstract!Take \/ Abstract!Give \/ Abstract!Publish
      \/ UNCHANGED <<IF IsOpen THEN Consumed(srv) ELSE 0, IsOpen /\ srv.processingRequest,
                     IF IsOpen THEN Line ELSE <<>>>>
  <2>1. CASE Continues(srv, srv')
    BY <1>1, <2>1 DEF Continues, Line
  <2> QED
    BY <2>1, TakesRefines, GivesRefines, PublishesRefines
<1>5. Len(StartedTransmissions(srv')) \in
        Len(StartedTransmissions(srv))..Len(FramesOf(Outgoing(srv')))
  <2> DEFINE m == Len(StartedTransmissions(srv))
             n == Len(StartedTransmissions(srv'))
             k == Len(FramesOf(Outgoing(srv')))
  <2>1. k = Len(Outgoing(srv')) /\ k \in Nat
    BY FramesTypes DEF View
  <2>2. m \in Nat /\ n \in Nat /\ m <= n /\ n <= k
    BY <2>1 DEF View
  <2> HIDE DEF m, n, k
  <2>3. n \in m..k
    BY <2>1, <2>2
  <2> QED
    BY <2>3 DEF m, n, k
<1> QED
  BY <1>1, <1>2, <1>3, <1>4, <1>5 DEF Abstract!Turn, Line, FramesOf

\* Whatever a callback does is a step of the service, or nothing it speaks of.
LEMMA MovesRefines ==
    ASSUME RequestInv(srv), RequestInv(srv'), Moves(srv, srv')
    PROVE  [Abstract!ServiceNext]_(Abstract!serviceVars)
<1>1. /\ srv.client \in BOOLEAN /\ srv.closing \in BOOLEAN
      /\ srv'.client \in BOOLEAN /\ srv'.closing \in BOOLEAN
  BY FlagTypes DEF RequestInv, OutputInv, Inv
<1>2. CASE ~IsOpen /\ ~IsOpen'
  <2>1. UNCHANGED Abstract!serviceVars
    BY <1>2 DEF Abstract!serviceVars, IsOpen
  <2> QED
    BY <2>1
<1>3. CASE IsOpen /\ ~IsOpen'
  <2>1. Abstract!Close
    BY <1>1, <1>3 DEF Abstract!Close, Abstract!NoSession, IsOpen
  <2> QED
    BY <2>1 DEF Abstract!ServiceNext
<1>4. CASE ~IsOpen /\ IsOpen'
  <2>1. Empty(srv')
    BY <1>4 DEF IsOpen, Moves
  <2>2. Line' = <<>>
    <3>1. \A t : FramesOf(<<>>) = <<>>
      BY DEF FramesOf
    <3> QED
      BY <2>1, <3>1 DEF Line, FramesOf, Empty
  <2>3. Len(StartedTransmissions(srv')) = 0
    BY <2>1 DEF Empty
  <2>4. Abstract!Open
    BY <1>4, <2>1, <2>2, <2>3 DEF Abstract!Open, Empty
  <2> QED
    BY <2>4 DEF Abstract!ServiceNext
<1>5. CASE IsOpen /\ IsOpen'
  <2>1. View(srv) /\ View(srv')
    BY <1>5, ViewOfOpen DEF IsOpen
  <2>2. /\ Extends(srv, srv')
        /\ Len(StartedTransmissions(srv)) <= Len(StartedTransmissions(srv'))
        /\ \/ Takes(srv, srv') \/ Gives(srv, srv')
           \/ Publishes(srv, srv') \/ Continues(srv, srv')
    BY <1>5 DEF IsOpen, Moves
  <2>3. Abstract!Turn
    BY <2>1, <2>2, TurnRefines
  <2> QED
    BY <2>3 DEF Abstract!ServiceNext
<1> QED
  BY <1>2, <1>3, <1>4, <1>5

\* Every behaviour of the server is a behaviour of the service
\* (DeviceSimulatorServer.cpp:265-345, 440-642).
THEOREM ServiceIsImplemented == Spec => ServiceImplemented
<1>1. Init => Abstract!ServiceInit
  <2>1. Init => ~IsOpen
    BY DEF Init, IsOpen
  <2> QED
    BY <2>1 DEF Abstract!ServiceInit, Abstract!NoSession
<1>2. RequestInvariant /\ RequestInvariant' /\ [Next]_vars =>
        [Abstract!ServiceNext]_(Abstract!serviceVars)
  BY StepServes, MovesRefines DEF RequestInvariant, Serves
<1> QED
  BY <1>1, <1>2, RequestInvariance, PTL DEF Spec, ServiceImplemented, Abstract!Service
=============================================================================
