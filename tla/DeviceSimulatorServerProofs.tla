-------------------- MODULE DeviceSimulatorServerProofs --------------------
(***************************************************************************)
(* Proofs about DeviceSimulatorServer for every rule table, every limit    *)
(* and every bound on sessions, requests and telemetry.                    *)
(*                                                                         *)
(* The state is one record and a callback is a composition of operators on *)
(* it, so the invariant is a predicate Inv(s) of records.  Each operator   *)
(* has a lemma that it preserves Inv, in the order in which the model      *)
(* defines them; a callback then needs only the lemmas of what it calls.   *)
(* A lemma about an update names the result t, proves its type and which   *)
(* fields changed, hides t, and derives the parts of Inv from those facts. *)
(***************************************************************************)
EXTENDS ServerProperties, SequenceFacts

\* The output queue and the transmission being written fit the limit.
Bounded(s) == Len(s.outputQueue) + ActiveWriteCount(s) <= OutputQueueCapacity

\* Everything in a line of requests or transmissions belongs to the session of s.
Own(s, line) == \A i \in DOMAIN line : line[i].session = s.sessionOrdinal

OwnWrite(s, pieces) == \A i \in DOMAIN pieces : pieces[i].of.session = s.sessionOrdinal

\* What the server holds for an attached client was made in its session.
Isolated(s) ==
    s.client =>
        /\ Own(s, s.requestQueue) /\ Own(s, s.outputQueue) /\ Own(s, s.activeTransmission)
        /\ \A w \in DOMAIN s.wire : OwnWrite(s, s.wire[w])
        /\ \A d \in s.delayed :
             d.generation = s.sessionGeneration => d.response.session = s.sessionOrdinal

\* Without a client no work, timer or flag of a session is left.
Quiet(s) ==
    ~s.client =>
        /\ s.requestQueue = <<>> /\ s.outputQueue = <<>> /\ s.activeTransmission = <<>>
        /\ s.wire = <<>> /\ s.received = <<>>
        /\ ~s.coalesceTimer /\ ~s.fragmentTimer /\ ~s.telemetryTimer
        /\ ~s.processingRequest /\ ~s.writing
        /\ ~s.coalesceWindowExpired /\ ~s.disconnectScheduled

\* A delayed lambda was made in this session or in an earlier generation:
\* attaching or releasing a client makes every earlier capture stale.
Dated(s) ==
    \A d \in s.delayed :
        d.generation < s.sessionGeneration \/ (s.client /\ d.generation = s.sessionGeneration)

\* The inductive invariant, as a predicate of the record: every member function
\* preserves it, so it also holds between the nested calls of a callback.
Inv(s) == s \in Server /\ Bounded(s) /\ Isolated(s) /\ Quiet(s) /\ Dated(s)

ServerInvariant == Inv(srv)

\* t differs from s in nothing the invariant reads, flags and timers aside.
SameSessionData(s, t) ==
    /\ t.client = s.client
    /\ t.sessionGeneration = s.sessionGeneration /\ t.sessionOrdinal = s.sessionOrdinal
    /\ t.requestQueue = s.requestQueue /\ t.outputQueue = s.outputQueue
    /\ t.activeTransmission = s.activeTransmission /\ t.wire = s.wire
    /\ t.writing = s.writing /\ t.delayed = s.delayed /\ t.received = s.received

SameFlags(s, t) ==
    /\ t.coalesceTimer = s.coalesceTimer /\ t.fragmentTimer = s.fragmentTimer
    /\ t.telemetryTimer = s.telemetryTimer /\ t.processingRequest = s.processingRequest
    /\ t.coalesceWindowExpired = s.coalesceWindowExpired
    /\ t.disconnectScheduled = s.disconnectScheduled

\* Changing only fields the invariant does not read preserves it; flags and
\* timers of an attached client are such fields.
LEMMA SameInv ==
    ASSUME NEW s, NEW t, Inv(s), t \in Server, SameSessionData(s, t),
           s.client \/ SameFlags(s, t)
    PROVE  Inv(t)
<1>1. Bounded(t)
  BY DEF Inv, SameSessionData, Bounded, ActiveWriteCount
<1>2. Isolated(t)
  BY DEF Inv, SameSessionData, Isolated, Own, OwnWrite
<1>3. Quiet(t)
  BY DEF Inv, SameSessionData, SameFlags, Quiet
<1>4. Dated(t)
  BY DEF Inv, SameSessionData, Dated
<1> QED
  BY <1>1, <1>2, <1>3, <1>4 DEF Inv

\* The types of the fields the proofs use.
LEMMA FieldTypes ==
    ASSUME NEW s, s \in Server
    PROVE  /\ s.client \in BOOLEAN /\ s.writing \in BOOLEAN
           /\ s.wire \in Seq(Seq(Piece)) /\ s.received \in Seq(Messages)
           /\ s.sessionGeneration \in Nat /\ s.sessionOrdinal \in Nat
           /\ s.randomDraws \in Nat /\ s.telemetrySequence \in Nat
           /\ s.requestQueue \in Seq(Request) /\ s.outputQueue \in Seq(Transmission)
           /\ s.activeTransmission \in Seq(Transmission)
           /\ s.fragmentOffset \in Nat /\ s.fragmentIndex \in Nat
           /\ s.acceptCalls \in Nat /\ s.requestCalls \in Nat /\ s.outputCalls \in Nat
           /\ s.delayed \subseteq DelayedResponse
BY DEF Server

\* releaseClient (DeviceSimulatorServer.cpp:417-438) preserves the invariant:
\* it raises the generation, so the captures that survive it are stale.
LEMMA ReleaseInv ==
    ASSUME NEW s, Inv(s)
    PROVE  Inv(ReleaseClient(s))
<1> DEFINE r == ReleaseClient(s)
<1>1. r \in Server
  BY ServerAssumption DEF Server, ReleaseClient, Inv
<1>2. Bounded(r) /\ Isolated(r) /\ Quiet(r)
  BY ServerAssumption DEF Server, ReleaseClient, Bounded, Isolated, Quiet, ActiveWriteCount
<1>3. Dated(r)
  <2>1. r.delayed = s.delayed /\ r.sessionGeneration = s.sessionGeneration + 1
    BY DEF ReleaseClient
  <2> HIDE DEF r
  <2>2. \A d \in s.delayed : d.generation \in Nat
    BY FieldTypes DEF Inv, DelayedResponse
  <2>3. s.sessionGeneration \in Nat
    BY FieldTypes DEF Inv
  <2>4. \A d \in s.delayed : d.generation <= s.sessionGeneration
    BY <2>2, <2>3 DEF Inv, Dated
  <2> QED
    BY <2>1, <2>2, <2>3, <2>4 DEF Dated
<1> QED
  BY <1>1, <1>2, <1>3 DEF Inv

\* Posting or running a deferred accept preserves the invariant.
LEMMA AcceptCallsInv ==
    ASSUME NEW s, Inv(s), NEW n \in Nat
    PROVE  Inv([s EXCEPT !.acceptCalls = n])
<1> DEFINE t == [s EXCEPT !.acceptCalls = n]
<1>1. t \in Server
  BY DEF Server, Inv
<1>2. SameSessionData(s, t) /\ SameFlags(s, t)
  BY DEF Server, Inv, SameSessionData, SameFlags
<1> QED
  BY <1>1, <1>2, SameInv

\* Posting or running a processNextRequest call preserves the invariant.
LEMMA RequestCallsInv ==
    ASSUME NEW s, Inv(s), NEW n \in Nat
    PROVE  Inv([s EXCEPT !.requestCalls = n])
<1> DEFINE t == [s EXCEPT !.requestCalls = n]
<1>1. t \in Server
  BY DEF Server, Inv
<1>2. SameSessionData(s, t) /\ SameFlags(s, t)
  BY DEF Server, Inv, SameSessionData, SameFlags
<1> QED
  BY <1>1, <1>2, SameInv

\* Posting or running a processOutputQueue call preserves the invariant.
LEMMA OutputCallsInv ==
    ASSUME NEW s, Inv(s), NEW n \in Nat
    PROVE  Inv([s EXCEPT !.outputCalls = n])
<1> DEFINE t == [s EXCEPT !.outputCalls = n]
<1>1. t \in Server
  BY DEF Server, Inv
<1>2. SameSessionData(s, t) /\ SameFlags(s, t)
  BY DEF Server, Inv, SameSessionData, SameFlags
<1> QED
  BY <1>1, <1>2, SameInv

\* handleClientDisconnected (DeviceSimulatorServer.cpp:239-253) preserves the
\* invariant.
LEMMA DisconnectedInv ==
    ASSUME NEW s, Inv(s)
    PROVE  Inv(HandleClientDisconnected(s))
<1> DEFINE r == ReleaseClient(s)
<1>1. Inv(r)
  BY ReleaseInv
<1>2. r.acceptCalls + 1 \in Nat
  BY <1>1, FieldTypes DEF Inv
<1>3. Inv([r EXCEPT !.acceptCalls = r.acceptCalls + 1])
  BY <1>1, <1>2, AcceptCallsInv
<1> QED
  BY <1>1, <1>3 DEF HandleClientDisconnected

\* disconnectFromHost preserves the invariant, whether it emits disconnected()
\* before it returns or not (DeviceSimulatorServer.cpp:502, 598, 635, 719).
LEMMA DisconnectInv ==
    ASSUME NEW s, Inv(s)
    PROVE  Inv(DisconnectFromHost(s))
<1> DEFINE t == [s EXCEPT !.closing = TRUE]
<1>1. t \in Server
  BY DEF Server, Inv
<1>2. SameSessionData(s, t) /\ SameFlags(s, t)
  BY DEF Server, Inv, SameSessionData, SameFlags
<1>3. Inv(t)
  BY <1>1, <1>2, SameInv
<1> QED
  BY <1>3, DisconnectedInv DEF DisconnectFromHost

\* Writing pieces of the session's own transmissions preserves the invariant.
LEMMA WriteInv ==
    ASSUME NEW s, Inv(s), s.client, NEW pieces \in Seq(Piece), OwnWrite(s, pieces)
    PROVE  Inv(Write(s, pieces))
<1> DEFINE w == Append(s.wire, pieces)
           t == [s EXCEPT !.wire = w, !.unsent = TRUE]
<1>1. w \in Seq(Seq(Piece))
  BY FieldTypes, AppendProperties DEF Inv
<1>2. \A i \in DOMAIN w : OwnWrite(s, w[i])
  <2>1. s.wire \in Seq(Seq(Piece))
    BY FieldTypes DEF Inv
  <2>2. \A i \in DOMAIN s.wire : OwnWrite(s, s.wire[i])
    BY DEF Inv, Isolated
  <2>3. \A i \in DOMAIN w : (i \in DOMAIN s.wire /\ w[i] = s.wire[i]) \/ w[i] = pieces
    BY <2>1
  <2> QED
    BY <2>2, <2>3
<1> HIDE DEF w
<1>3. t \in Server
  BY <1>1 DEF Server, Inv
<1>4. t.wire = w /\ SameSessionData([s EXCEPT !.wire = w], t) /\ SameFlags(s, t)
  BY DEF Server, Inv, SameSessionData, SameFlags
<1>5. /\ t.client = s.client /\ t.sessionOrdinal = s.sessionOrdinal
      /\ t.sessionGeneration = s.sessionGeneration
      /\ t.requestQueue = s.requestQueue /\ t.outputQueue = s.outputQueue
      /\ t.activeTransmission = s.activeTransmission /\ t.writing = s.writing
      /\ t.delayed = s.delayed
  BY DEF Server, Inv
<1> HIDE DEF t
<1>6. Bounded(t) /\ Dated(t) /\ Quiet(t)
  BY <1>5 DEF Inv, Bounded, Dated, Quiet, ActiveWriteCount
<1>7. Isolated(t)
  BY <1>2, <1>4, <1>5 DEF Inv, Isolated, Own, OwnWrite
<1>8. Inv(t)
  BY <1>3, <1>6, <1>7 DEF Inv
<1> QED
  BY <1>8 DEF Write, t, w

\* Dropping the active transmission preserves the invariant.
LEMMA IdleInv ==
    ASSUME NEW s, Inv(s)
    PROVE  Inv([s EXCEPT !.activeTransmission = <<>>, !.writing = FALSE])
<1> DEFINE t == [s EXCEPT !.activeTransmission = <<>>, !.writing = FALSE]
<1>1. t \in Server
  <2>1. ASSUME NEW a \in Seq(Transmission)
        PROVE  [s EXCEPT !.activeTransmission = a, !.writing = FALSE] \in Server
    BY DEF Server, Inv
  <2>2. <<>> \in Seq(Transmission)
    OBVIOUS
  <2> QED
    BY <2>1, <2>2
<1>2. /\ t.client = s.client /\ t.sessionOrdinal = s.sessionOrdinal
      /\ t.sessionGeneration = s.sessionGeneration
      /\ t.requestQueue = s.requestQueue /\ t.outputQueue = s.outputQueue
      /\ t.activeTransmission = <<>> /\ t.writing = FALSE
      /\ t.delayed = s.delayed /\ t.wire = s.wire
      /\ t.received = s.received /\ SameFlags(s, t)
  BY DEF Server, Inv, SameFlags
<1> HIDE DEF t
<1>3. Bounded(t)
  <2>1. Len(s.outputQueue) \in Nat
    BY FieldTypes, LenProperties DEF Inv
  <2>2. ActiveWriteCount(t) = 0 /\ ActiveWriteCount(s) \in 0..1
    BY <1>2 DEF ActiveWriteCount
  <2>3. Len(s.outputQueue) + ActiveWriteCount(s) <= OutputQueueCapacity
    BY DEF Inv, Bounded
  <2>4. OutputQueueCapacity \in Nat
    BY ServerAssumption
  <2>5. Len(s.outputQueue) + 0 <= OutputQueueCapacity
    BY <2>1, <2>2, <2>3, <2>4
  <2> QED
    BY <1>2, <2>2, <2>5 DEF Bounded
<1>4. Dated(t) /\ Quiet(t)
  BY <1>2 DEF Inv, Dated, Quiet, SameFlags
<1>5. Isolated(t)
  BY <1>2 DEF Inv, Isolated, Own, OwnWrite
<1> QED
  BY <1>1, <1>3, <1>4, <1>5 DEF Inv, t

\* finishTransmission (DeviceSimulatorServer.cpp:701-723) preserves the invariant.
LEMMA FinishTransmissionInv ==
    ASSUME NEW s, Inv(s), NEW transmission
    PROVE  Inv(FinishTransmission(s, transmission))
<1>1. s.outputCalls + 1 \in Nat
  BY FieldTypes DEF Inv
<1>2. Inv([s EXCEPT !.outputCalls = s.outputCalls + 1])
  BY <1>1, OutputCallsInv
<1> QED
  BY <1>2, DisconnectInv DEF FinishTransmission

\* Moving to another fragment preserves the invariant.
LEMMA FragmentIndexInv ==
    ASSUME NEW s, Inv(s), NEW n \in Nat
    PROVE  Inv([s EXCEPT !.fragmentIndex = n])
<1> DEFINE t == [s EXCEPT !.fragmentIndex = n]
<1>1. t \in Server
  BY DEF Server, Inv
<1>2. SameSessionData(s, t) /\ SameFlags(s, t)
  BY DEF Server, Inv, SameSessionData, SameFlags
<1> QED
  BY <1>1, <1>2, SameInv

\* Moving within the active transmission preserves the invariant.
LEMMA FragmentOffsetInv ==
    ASSUME NEW s, Inv(s), NEW n \in Nat
    PROVE  Inv([s EXCEPT !.fragmentOffset = n])
<1> DEFINE t == [s EXCEPT !.fragmentOffset = n]
<1>1. t \in Server
  BY DEF Server, Inv
<1>2. SameSessionData(s, t) /\ SameFlags(s, t)
  BY DEF Server, Inv, SameSessionData, SameFlags
<1> QED
  BY <1>1, <1>2, SameInv

\* The fragment timer may run for an attached client and may always be stopped.
LEMMA FragmentTimerInv ==
    ASSUME NEW s, Inv(s), NEW b \in BOOLEAN, s.client \/ ~b
    PROVE  Inv([s EXCEPT !.fragmentTimer = b])
<1> DEFINE t == [s EXCEPT !.fragmentTimer = b]
<1>1. t \in Server
  BY DEF Server, Inv
<1>2. SameSessionData(s, t)
  BY DEF Server, Inv, SameSessionData
<1>3. s.client \/ SameFlags(s, t)
  BY DEF Server, Inv, SameFlags, Quiet
<1> QED
  BY <1>1, <1>2, <1>3, SameInv

\* The parts of writeNextFragment (DeviceSimulatorServer.cpp:313-344): what is
\* left of the active transmission, the fragment that is due, where it ends,
\* and the state after the write and after the offset moved.
Remaining(s) == Head(s.activeTransmission).size - s.fragmentOffset

Listed(s) == s.fragmentIndex < Len(Head(s.activeTransmission).fragmentSizes)

FragmentSize(s) ==
    IF Listed(s) THEN Head(s.activeTransmission).fragmentSizes[s.fragmentIndex + 1]
    ELSE Remaining(s)

FragmentEnd(s) ==
    s.fragmentOffset + (IF FragmentSize(s) > Remaining(s) THEN Remaining(s) ELSE FragmentSize(s))

Fragment(s) ==
    [of |-> Head(s.activeTransmission), from |-> s.fragmentOffset, to |-> FragmentEnd(s)]

Indexed(s) == IF Listed(s) THEN [s EXCEPT !.fragmentIndex = @ + 1] ELSE s

Written(s, accepted) == IF accepted THEN Write(Indexed(s), <<Fragment(s)>>) ELSE Indexed(s)

Advanced(s, accepted) == [Written(s, accepted) EXCEPT !.fragmentOffset = FragmentEnd(s)]

\* A fragment is a piece of the session's own active transmission, and compares
\* with what remains.
LEMMA FragmentTypes ==
    ASSUME NEW s, Inv(s), s.client, s.activeTransmission # <<>>
    PROVE  /\ Head(s.activeTransmission) \in Transmission
           /\ Remaining(s) \in Int /\ FragmentSize(s) \in Int /\ FragmentEnd(s) \in Nat
           /\ Fragment(s) \in Piece /\ Fragment(s).of.session = s.sessionOrdinal
           /\ Listed(s) => s.fragmentIndex + 1 \in
                               DOMAIN Head(s.activeTransmission).fragmentSizes
<1> DEFINE transmission == Head(s.activeTransmission)
<1>1. transmission \in Transmission /\ transmission.session = s.sessionOrdinal
  <2>1. s.activeTransmission \in Seq(Transmission)
    BY FieldTypes DEF Inv
  <2>2. 1 \in DOMAIN s.activeTransmission /\ transmission = s.activeTransmission[1]
    BY <2>1
  <2> QED
    BY <2>1, <2>2 DEF Inv, Isolated, Own
<1>2. s.fragmentOffset \in Nat /\ s.fragmentIndex \in Nat
  BY FieldTypes DEF Inv
<1> HIDE DEF transmission
<1>3. transmission.size \in Nat /\ transmission.fragmentSizes \in Seq(Nat)
  BY <1>1 DEF Transmission
<1>4. Remaining(s) \in Int /\ Remaining(s) = transmission.size - s.fragmentOffset
  BY <1>2, <1>3 DEF Remaining, transmission
<1>5. Listed(s) => s.fragmentIndex + 1 \in DOMAIN transmission.fragmentSizes
  BY <1>2, <1>3 DEF Listed, transmission
<1>6. /\ Listed(s) => FragmentSize(s) \in Nat
      /\ ~Listed(s) => FragmentSize(s) = Remaining(s)
  <2>1. CASE Listed(s)
    <3>1. transmission.fragmentSizes[s.fragmentIndex + 1] \in Nat
      BY <1>3, <1>5, <2>1
    <3> QED
      BY <2>1, <3>1 DEF FragmentSize, transmission
  <2>2. CASE ~Listed(s)
    BY <2>2 DEF FragmentSize
  <2> QED
    BY <2>1, <2>2
<1>7. FragmentEnd(s) \in Nat
  BY <1>2, <1>3, <1>4, <1>6 DEF FragmentEnd
<1>8. Fragment(s) \in Piece /\ Fragment(s).of.session = s.sessionOrdinal
  BY <1>1, <1>2, <1>7 DEF Fragment, Piece, transmission
<1> QED
  BY <1>1, <1>4, <1>5, <1>6, <1>7, <1>8 DEF transmission

\* Writing a fragment and moving on preserve the invariant.
LEMMA AdvancedInv ==
    ASSUME NEW s, Inv(s), s.client, s.activeTransmission # <<>>, NEW accepted \in BOOLEAN
    PROVE  /\ Inv(Indexed(s)) /\ Inv(Written(s, accepted)) /\ Inv(Advanced(s, accepted))
           /\ Indexed(s).client /\ Written(s, accepted).client /\ Advanced(s, accepted).client
<1> DEFINE indexed == Indexed(s)
           written == Written(s, accepted)
<1>1. Inv(indexed) /\ indexed.client /\ indexed.sessionOrdinal = s.sessionOrdinal
  <2>1. s.fragmentIndex + 1 \in Nat
    BY FieldTypes DEF Inv
  <2>2. Inv([s EXCEPT !.fragmentIndex = s.fragmentIndex + 1])
    BY <2>1, FragmentIndexInv
  <2>3. Inv(indexed)
    BY <2>2 DEF Indexed
  <2>4. indexed.client /\ indexed.sessionOrdinal = s.sessionOrdinal
    BY DEF Indexed, Inv, Server
  <2> QED
    BY <2>3, <2>4
<1> HIDE DEF indexed
<1>2. Inv(written)
  <2>1. <<Fragment(s)>> \in Seq(Piece) /\ OwnWrite(indexed, <<Fragment(s)>>)
    BY <1>1, FragmentTypes DEF OwnWrite
  <2> QED
    BY <1>1, <2>1, WriteInv DEF Written, indexed
<1>3. written.client
  BY <1>1 DEF Inv, Server, Write, Written, indexed
<1> HIDE DEF written
<1>4. Inv(Advanced(s, accepted)) /\ Advanced(s, accepted).client
  <2>1. FragmentEnd(s) \in Nat
    BY FragmentTypes
  <2>2. Inv([written EXCEPT !.fragmentOffset = FragmentEnd(s)])
    BY <1>2, <2>1, FragmentOffsetInv
  <2>3. [written EXCEPT !.fragmentOffset = FragmentEnd(s)].client
    BY <1>2, <1>3 DEF Inv, Server
  <2> QED
    BY <2>2, <2>3 DEF Advanced, written
<1> QED
  BY <1>1, <1>2, <1>3, <1>4 DEF indexed, written

\* The three ways a fragment ends.
LEMMA WriteFragmentCases ==
    ASSUME NEW s, Inv(s), s.client, s.activeTransmission # <<>>, NEW accepted \in BOOLEAN
    PROVE  LET t == WriteFragment(s, Head(s.activeTransmission), accepted)
               advanced == Advanced(s, accepted)
           IN  \/ /\ ~accepted \/ FragmentSize(s) > Remaining(s)
                  /\ t = DisconnectFromHost(Written(s, accepted))
               \/ /\ accepted /\ FragmentSize(s) < Remaining(s)
                  /\ t = [advanced EXCEPT !.fragmentTimer = TRUE]
               \/ /\ accepted /\ FragmentSize(s) = Remaining(s)
                  /\ t = FinishTransmission(
                             [advanced EXCEPT !.activeTransmission = <<>>, !.writing = FALSE],
                             Head(s.activeTransmission))
<1> DEFINE transmission == Head(s.activeTransmission)
           advanced == Advanced(s, accepted)
<1>1. WriteFragment(s, transmission, accepted) =
        CASE ~accepted \/ FragmentSize(s) > Remaining(s) ->
               DisconnectFromHost(Written(s, accepted))
          [] accepted /\ FragmentSize(s) < Remaining(s) -> [advanced EXCEPT !.fragmentTimer = TRUE]
          [] accepted /\ FragmentSize(s) = Remaining(s) ->
               FinishTransmission([advanced EXCEPT !.activeTransmission = <<>>,
                                                   !.writing = FALSE], transmission)
  BY DEF WriteFragment, Advanced, Written, Indexed, Fragment, FragmentEnd, FragmentSize,
         Remaining, Listed
<1>2. \/ FragmentSize(s) > Remaining(s) \/ FragmentSize(s) < Remaining(s)
      \/ FragmentSize(s) = Remaining(s)
  BY FragmentTypes
<1> HIDE DEF transmission, advanced
<1> QED
  BY <1>1, <1>2 DEF transmission, advanced

\* Writing one fragment (DeviceSimulatorServer.cpp:313-344) preserves the
\* invariant, also when the fragment is longer than what remains.
LEMMA WriteFragmentInv ==
    ASSUME NEW s, Inv(s), s.client, s.activeTransmission # <<>>, NEW accepted \in BOOLEAN
    PROVE  Inv(WriteFragment(s, Head(s.activeTransmission), accepted))
<1> DEFINE transmission == Head(s.activeTransmission)
           advanced == Advanced(s, accepted)
           written == Written(s, accepted)
<1>1. Inv(advanced) /\ advanced.client /\ Inv(written)
  BY AdvancedInv
<1> HIDE DEF transmission, advanced, written
<1>2. Inv(DisconnectFromHost(written))
  BY <1>1, DisconnectInv
<1>3. Inv([advanced EXCEPT !.fragmentTimer = TRUE])
  BY <1>1, FragmentTimerInv
<1>4. Inv(FinishTransmission([advanced EXCEPT !.activeTransmission = <<>>,
                                              !.writing = FALSE], transmission))
  BY <1>1, IdleInv, FinishTransmissionInv
<1> QED
  BY <1>2, <1>3, <1>4, WriteFragmentCases DEF transmission, advanced, written

\* writeNextFragment (DeviceSimulatorServer.cpp:305-345) preserves the invariant.
LEMMA WriteNextFragmentInv ==
    ASSUME NEW s, Inv(s), NEW accepted \in BOOLEAN
    PROVE  Inv(WriteNextFragment(s, accepted))
<1>1. CASE s.activeTransmission = <<>> \/ ~s.client
  BY <1>1, IdleInv DEF WriteNextFragment
<1>2. CASE ~(s.activeTransmission = <<>> \/ ~s.client)
  BY <1>2, WriteFragmentInv DEF WriteNextFragment
<1> QED
  BY <1>1, <1>2

\* What Bounded says of the length of the queue alone.
LEMMA QueueLength ==
    ASSUME NEW s, Inv(s)
    PROVE  /\ Len(s.outputQueue) \in Nat
           /\ Len(s.outputQueue) <= OutputQueueCapacity
           /\ s.writing => Len(s.outputQueue) + 1 <= OutputQueueCapacity
<1>1. Len(s.outputQueue) \in Nat
  BY FieldTypes, LenProperties DEF Inv
<1>2. Len(s.outputQueue) + ActiveWriteCount(s) <= OutputQueueCapacity
  BY DEF Inv, Bounded
<1>3. OutputQueueCapacity \in Nat
  BY ServerAssumption
<1>4. ActiveWriteCount(s) \in 0..1 /\ (s.writing => ActiveWriteCount(s) = 1)
  BY DEF ActiveWriteCount
<1> QED
  BY <1>1, <1>2, <1>3, <1>4

\* The head of the queue becomes the active transmission.
Dequeued(s) ==
    [s EXCEPT !.outputQueue = Tail(@), !.writing = TRUE,
              !.fragmentOffset = 0, !.fragmentIndex = 0,
              !.activeTransmission = <<Head(s.outputQueue)>>]

\* Taking the head of the queue as the active transmission preserves the
\* invariant (DeviceSimulatorServer.cpp:644-651).
LEMMA DequeuedInv ==
    ASSUME NEW s, Inv(s), s.client, s.outputQueue # <<>>
    PROVE  Inv(Dequeued(s))
<1> DEFINE rest == Tail(s.outputQueue)
           active == <<Head(s.outputQueue)>>
           t == [s EXCEPT !.outputQueue = rest, !.writing = TRUE,
                          !.fragmentOffset = 0, !.fragmentIndex = 0,
                          !.activeTransmission = active]
<1>1. s.outputQueue \in Seq(Transmission)
  BY FieldTypes DEF Inv
<1>2. rest \in Seq(Transmission) /\ Len(rest) = Len(s.outputQueue) - 1
  BY <1>1, HeadTailProperties
<1>3. active \in Seq(Transmission)
  <2>1. Head(s.outputQueue) \in Transmission
    BY <1>1, HeadTailProperties
  <2> QED
    BY <2>1
<1>4. Own(s, s.outputQueue)
  BY DEF Inv, Isolated
<1>5. Own(s, rest) /\ Own(s, active)
  <2>1. \A i \in DOMAIN rest : i + 1 \in DOMAIN s.outputQueue /\ rest[i] = s.outputQueue[i + 1]
    BY <1>1, HeadTailProperties
  <2>2. 1 \in DOMAIN s.outputQueue /\ \A i \in DOMAIN active : active[i] = s.outputQueue[1]
    BY <1>1
  <2> QED
    BY <1>4, <2>1, <2>2 DEF Own
<1> HIDE DEF rest, active
<1>6. t \in Server
  BY <1>2, <1>3 DEF Server, Inv
<1>7. /\ t.client = s.client /\ t.sessionOrdinal = s.sessionOrdinal
      /\ t.sessionGeneration = s.sessionGeneration
      /\ t.requestQueue = s.requestQueue /\ t.outputQueue = rest
      /\ t.activeTransmission = active /\ t.writing = TRUE
      /\ t.delayed = s.delayed /\ t.wire = s.wire
  BY DEF Server, Inv
<1> HIDE DEF t
<1>8. Bounded(t)
  BY <1>2, <1>7, QueueLength DEF Bounded, ActiveWriteCount
<1>9. Dated(t) /\ Quiet(t)
  BY <1>7 DEF Inv, Dated, Quiet
<1>10. Isolated(t)
  BY <1>5, <1>7 DEF Inv, Isolated, Own, OwnWrite
<1>11. Inv(t)
  BY <1>6, <1>8, <1>9, <1>10 DEF Inv
<1> QED
  BY <1>11 DEF Dequeued, t, rest, active, Inv, Server

\* Writing its first fragment then preserves the invariant too.
LEMMA WriteTransmissionInv ==
    ASSUME NEW s, Inv(s), s.client, s.outputQueue # <<>>, NEW accepted \in BOOLEAN
    PROVE  Inv(WriteTransmission(s, accepted))
<1>1. WriteTransmission(s, accepted) = WriteNextFragment(Dequeued(s), accepted)
  BY DEF WriteTransmission, Dequeued
<1> QED
  BY <1>1, DequeuedInv, WriteNextFragmentInv

\* Ending a write preserves the invariant.
LEMMA WritingInv ==
    ASSUME NEW s, Inv(s)
    PROVE  Inv([s EXCEPT !.writing = FALSE])
<1> DEFINE t == [s EXCEPT !.writing = FALSE]
<1>1. t \in Server
  BY DEF Server, Inv
<1>2. /\ t.client = s.client /\ t.sessionOrdinal = s.sessionOrdinal
      /\ t.sessionGeneration = s.sessionGeneration
      /\ t.requestQueue = s.requestQueue /\ t.outputQueue = s.outputQueue
      /\ t.activeTransmission = s.activeTransmission /\ t.writing = FALSE
      /\ t.delayed = s.delayed /\ t.wire = s.wire
      /\ t.received = s.received /\ SameFlags(s, t)
  BY DEF Server, Inv, SameFlags
<1> HIDE DEF t
<1>3. Bounded(t)
  <2>1. ActiveWriteCount(t) = 0
    BY <1>2 DEF ActiveWriteCount
  <2> QED
    BY <1>2, <2>1, QueueLength DEF Bounded
<1>4. Dated(t) /\ Quiet(t)
  BY <1>2 DEF Inv, Dated, Quiet, SameFlags
<1>5. Isolated(t)
  BY <1>2 DEF Inv, Isolated, Own, OwnWrite
<1> QED
  BY <1>1, <1>3, <1>4, <1>5 DEF Inv, t

\* The parts of writeCoalescedTransmissions (DeviceSimulatorServer.cpp:653-699):
\* the batch and what stays queued, its pieces, and the state once the batch was
\* taken and once it was written.
Batch(s, count) == SubSeq(s.outputQueue, 1, count)

Rest(s, count) == SubSeq(s.outputQueue, count + 1, Len(s.outputQueue))

Block(s, count) ==
    [i \in 1..Len(Batch(s, count)) |->
        [of |-> Batch(s, count)[i], from |-> 0, to |-> Batch(s, count)[i].size]]

Taken(s, count) == [s EXCEPT !.writing = TRUE, !.outputQueue = Rest(s, count)]

BlockWritten(s, count) == [Write(Taken(s, count), Block(s, count)) EXCEPT !.writing = FALSE]

\* The batch and the rest are the transmissions of the queue, in its order.
LEMMA BatchTypes ==
    ASSUME NEW s, Inv(s), NEW count \in 1..Len(s.outputQueue)
    PROVE  /\ s.outputQueue \in Seq(Transmission)
           /\ Batch(s, count) \in Seq(Transmission) /\ Len(Batch(s, count)) = count
           /\ \A i \in 1..count : Batch(s, count)[i] = s.outputQueue[i]
           /\ Rest(s, count) \in Seq(Transmission)
           /\ Len(Rest(s, count)) = Len(s.outputQueue) - count
           /\ \A i \in 1..Len(Rest(s, count)) : Rest(s, count)[i] = s.outputQueue[i + count]
           /\ Block(s, count) \in Seq(Piece) /\ Len(Block(s, count)) = count
           /\ \A i \in 1..count :
                Block(s, count)[i] = [of |-> s.outputQueue[i], from |-> 0,
                                      to |-> s.outputQueue[i].size]
<1> DEFINE batch == Batch(s, count)
           rest == Rest(s, count)
           pieces == Block(s, count)
<1>1. s.outputQueue \in Seq(Transmission) /\ Len(s.outputQueue) \in Nat
  BY FieldTypes, QueueLength DEF Inv
<1>2. /\ rest \in Seq(Transmission) /\ Len(rest) = Len(s.outputQueue) - count
      /\ \A i \in 1..Len(rest) : rest[i] = s.outputQueue[i + count]
  <2>1. /\ rest \in Seq(Transmission) /\ Len(rest) = Len(s.outputQueue) - count
        /\ \A i \in 1..Len(rest) : rest[i] = s.outputQueue[count + i]
    BY <1>1, SubSeqProperties DEF Rest
  <2> HIDE DEF rest
  <2>2. \A i \in 1..Len(rest) : count + i = i + count
    BY <1>1, <2>1
  <2> QED
    BY <2>1, <2>2
<1>3. /\ batch \in Seq(Transmission) /\ Len(batch) = count
      /\ \A i \in 1..count : batch[i] = s.outputQueue[i]
  BY <1>1, SubSeqProperties DEF Batch
<1> HIDE DEF rest, batch
<1>4. \A i \in 1..count : batch[i] \in Transmission
  BY <1>3
<1>5. pieces = [i \in 1..count |-> [of |-> batch[i], from |-> 0, to |-> batch[i].size]]
  BY <1>3 DEF Block, batch
<1>6. pieces \in [1..count -> Piece]
  <2>1. \A i \in 1..count : [of |-> batch[i], from |-> 0, to |-> batch[i].size] \in Piece
    BY <1>4 DEF Piece, Transmission
  <2> QED
    BY <1>5, <2>1
<1>7. pieces \in Seq(Piece) /\ Len(pieces) = count
  <2>1. count \in Nat
    BY <1>1
  <2>2. pieces \in Seq(Piece)
    BY <1>6, <2>1, SeqDef
  <2> HIDE DEF pieces
  <2> QED
    BY <1>6, <2>1, <2>2, LenProperties
<1>8. \A i \in 1..count : pieces[i] = [of |-> s.outputQueue[i], from |-> 0,
                                       to |-> s.outputQueue[i].size]
  BY <1>3, <1>5
<1> QED
  BY <1>1, <1>2, <1>3, <1>7, <1>8 DEF rest, batch, pieces

\* Taking a batch preserves the invariant, and so does writing it.
LEMMA BlockWrittenInv ==
    ASSUME NEW s, Inv(s), s.client, NEW count \in 1..Len(s.outputQueue)
    PROVE  Inv(Taken(s, count)) /\ Inv(BlockWritten(s, count)) /\ Taken(s, count).client
<1> DEFINE rest == Rest(s, count)
           pieces == Block(s, count)
           taken == [s EXCEPT !.writing = TRUE, !.outputQueue = rest]
<1>1. Own(s, s.outputQueue) /\ Len(s.outputQueue) \in Nat
  BY QueueLength DEF Inv, Isolated
<1>2. /\ rest \in Seq(Transmission) /\ Len(rest) = Len(s.outputQueue) - count
      /\ \A i \in 1..Len(rest) : rest[i] = s.outputQueue[i + count]
      /\ s.outputQueue \in Seq(Transmission)
  BY BatchTypes
<1>3. /\ pieces \in Seq(Piece) /\ Len(pieces) = count
      /\ \A i \in 1..count : pieces[i].of = s.outputQueue[i]
  <2>1. /\ pieces \in Seq(Piece) /\ Len(pieces) = count
        /\ \A i \in 1..count : pieces[i] = [of |-> s.outputQueue[i], from |-> 0,
                                             to |-> s.outputQueue[i].size]
    BY BatchTypes
  <2> HIDE DEF pieces
  <2> QED
    BY <2>1
<1> HIDE DEF rest, pieces
<1>4. Own(s, rest)
  <2>1. ASSUME NEW i \in DOMAIN rest PROVE rest[i].session = s.sessionOrdinal
    <3>1. i \in 1..Len(rest) /\ rest[i] = s.outputQueue[i + count]
      BY <1>2
    <3>2. i + count \in DOMAIN s.outputQueue
      BY <1>1, <1>2, <3>1
    <3> QED
      BY <1>1, <3>1, <3>2 DEF Own
  <2> QED
    BY <2>1 DEF Own
<1>5. \A i \in DOMAIN pieces : pieces[i].of.session = s.sessionOrdinal
  <2>1. ASSUME NEW i \in DOMAIN pieces PROVE pieces[i].of.session = s.sessionOrdinal
    <3>1. i \in 1..count /\ i \in DOMAIN s.outputQueue
      BY <1>1, <1>2, <1>3
    <3> QED
      BY <1>1, <1>3, <3>1 DEF Own
  <2> QED
    BY <2>1
<1>6. taken \in Server
  BY <1>2 DEF Server, Inv
<1>7. /\ taken.client = s.client /\ taken.sessionOrdinal = s.sessionOrdinal
      /\ taken.sessionGeneration = s.sessionGeneration
      /\ taken.requestQueue = s.requestQueue /\ taken.outputQueue = rest
      /\ taken.activeTransmission = s.activeTransmission /\ taken.writing = TRUE
      /\ taken.delayed = s.delayed /\ taken.wire = s.wire
  BY DEF Server, Inv
<1> HIDE DEF taken
<1>8. Bounded(taken)
  BY <1>1, <1>2, <1>7, QueueLength, ServerAssumption DEF Bounded, ActiveWriteCount
<1>9. Dated(taken) /\ Quiet(taken)
  BY <1>7 DEF Inv, Dated, Quiet
<1>10. Isolated(taken)
  BY <1>4, <1>7 DEF Inv, Isolated, Own, OwnWrite
<1>11. Inv(taken)
  BY <1>6, <1>8, <1>9, <1>10 DEF Inv
<1>12. Inv([Write(taken, pieces) EXCEPT !.writing = FALSE])
  <2>1. OwnWrite(taken, pieces)
    BY <1>5, <1>7 DEF OwnWrite
  <2> QED
    BY <1>3, <1>7, <1>11, <2>1, WriteInv, WritingInv
<1> QED
  BY <1>7, <1>11, <1>12 DEF Taken, BlockWritten, taken, rest, pieces

\* The three ways a block ends.
LEMMA WriteCoalescedCases ==
    ASSUME NEW s, NEW count, NEW accepted \in BOOLEAN
    PROVE  LET t == WriteCoalesced(s, count, accepted)
               written == BlockWritten(s, count)
           IN  \/ ~accepted /\ t = DisconnectFromHost(Taken(s, count))
               \/ accepted /\ t = DisconnectFromHost(written)
               \/ accepted /\ t = [written EXCEPT !.outputCalls = written.outputCalls + 1]
<1> DEFINE written == BlockWritten(s, count)
<1>1. WriteCoalesced(s, count, accepted) =
         CASE ~accepted -> DisconnectFromHost(Taken(s, count))
           [] accepted /\ (\E i \in 1..Len(Batch(s, count)) :
                              Batch(s, count)[i].disconnectAfterSend) ->
                DisconnectFromHost(written)
           [] OTHER -> [written EXCEPT !.outputCalls = @ + 1]
  BY DEF WriteCoalesced, BlockWritten, Taken, Block, Batch, Rest
<1> HIDE DEF written
<1> QED
  BY <1>1 DEF written

\* Writing a batch from the head of the queue in one block
\* (DeviceSimulatorServer.cpp:653-699) preserves the invariant.
LEMMA WriteCoalescedInv ==
    ASSUME NEW s, Inv(s), s.client, NEW count \in 1..Len(s.outputQueue), NEW accepted \in BOOLEAN
    PROVE  Inv(WriteCoalesced(s, count, accepted))
<1> DEFINE written == BlockWritten(s, count)
<1>1. Inv(Taken(s, count)) /\ Inv(written)
  BY BlockWrittenInv
<1> HIDE DEF written
<1>2. Inv(DisconnectFromHost(Taken(s, count))) /\ Inv(DisconnectFromHost(written))
  BY <1>1, DisconnectInv
<1>3. Inv([written EXCEPT !.outputCalls = written.outputCalls + 1])
  <2>1. written.outputCalls + 1 \in Nat
    BY <1>1, FieldTypes DEF Inv
  <2> QED
    BY <1>1, <2>1, OutputCallsInv
<1> QED
  BY <1>2, <1>3, WriteCoalescedCases DEF written

\* compatibleCount (DeviceSimulatorServer.cpp:271-282) is at least one and at
\* most the length of the queue, so a batch can be taken.
LEMMA CompatibleCountBounds ==
    ASSUME NEW queue \in Seq(Transmission), queue # <<>>
    PROVE  CompatibleCount(queue) \in 1..Len(queue)
<1> DEFINE stops == {i \in 2..Len(queue) :
                       \/ i > Head(queue).coalesceCount
                       \/ queue[i].fragmentSizes # <<>>
                       \/ queue[i].coalesceCount # Head(queue).coalesceCount}
<1>1. Len(queue) \in Nat /\ Len(queue) >= 1
  BY LenProperties
<1>2. stops \subseteq 2..Len(queue) /\ stops \subseteq Nat
  BY <1>1
<1>3. CompatibleCount(queue) = IF stops = {} THEN Len(queue) ELSE Min(stops) - 1
  BY DEF CompatibleCount
<1> HIDE DEF stops
<1>4. stops # {} => Min(stops) \in stops
  BY <1>2, MinOfNaturals DEF Min
<1>5. CASE stops = {}
  BY <1>1, <1>3, <1>5
<1>6. CASE stops # {}
  <2>1. Min(stops) \in 2..Len(queue)
    BY <1>2, <1>4, <1>6
  <2> HIDE DEF Min
  <2>2. Min(stops) - 1 \in 1..Len(queue)
    BY <1>1, <2>1
  <2> QED
    BY <1>3, <1>6, <2>2
<1> QED
  BY <1>5, <1>6

\* Starting the coalescing window preserves the invariant.
LEMMA OpenWindowInv ==
    ASSUME NEW s, Inv(s), s.client
    PROVE  Inv(OpenWindow(s))
<1> DEFINE t == [s EXCEPT !.coalesceTimer = TRUE]
<1>1. t \in Server
  BY DEF Server, Inv
<1>2. SameSessionData(s, t)
  BY DEF Server, Inv, SameSessionData
<1> QED
  BY <1>1, <1>2, SameInv DEF OpenWindow

\* Closing the coalescing window preserves the invariant and the session's data.
LEMMA CloseWindowInv ==
    ASSUME NEW s, Inv(s), s.client
    PROVE  Inv(CloseWindow(s)) /\ SameSessionData(s, CloseWindow(s))
<1> DEFINE t == [s EXCEPT !.coalesceTimer = FALSE, !.coalesceWindowExpired = FALSE]
<1>1. t \in Server
  BY DEF Server, Inv
<1>2. SameSessionData(s, t)
  BY DEF Server, Inv, SameSessionData
<1> QED
  BY <1>1, <1>2, SameInv DEF CloseWindow

\* processOutputQueue (DeviceSimulatorServer.cpp:265-303) preserves the invariant.
LEMMA ProcessOutputQueueInv ==
    ASSUME NEW s, Inv(s), NEW accepted \in BOOLEAN
    PROVE  Inv(ProcessOutputQueue(s, accepted))
<1>1. CASE s.writing \/ ~s.client \/ s.outputQueue = <<>>
  BY <1>1 DEF ProcessOutputQueue
<1>2. CASE ~(s.writing \/ ~s.client \/ s.outputQueue = <<>>)
  <2> DEFINE c == CloseWindow(s)
             count == CompatibleCount(s.outputQueue)
  <2>1. Inv(OpenWindow(s))
    BY <1>2, OpenWindowInv
  <2>2. Inv(c) /\ c.client /\ c.outputQueue = s.outputQueue
    BY <1>2, CloseWindowInv DEF SameSessionData
  <2>3. count \in 1..Len(c.outputQueue)
    BY <1>2, <2>2, FieldTypes, CompatibleCountBounds DEF Inv
  <2> HIDE DEF c, count
  <2>4. Inv(WriteCoalesced(c, count, accepted))
    BY <2>2, <2>3, WriteCoalescedInv
  <2>5. Inv(WriteTransmission(c, accepted))
    BY <1>2, <2>2, WriteTransmissionInv
  <2> DEFINE leader == Head(s.outputQueue)
             coalesces == leader.coalesceCount > 1 /\ leader.fragmentSizes = <<>>
             waits == /\ count < leader.coalesceCount
                      /\ count = Len(s.outputQueue)
                      /\ ~s.coalesceWindowExpired
  <2>6. ProcessOutputQueue(s, accepted) =
          CASE coalesces /\ waits -> OpenWindow(s)
            [] coalesces /\ ~waits -> WriteCoalesced(c, count, accepted)
            [] ~coalesces -> WriteTransmission(c, accepted)
    BY <1>2 DEF ProcessOutputQueue, c, count
  <2> HIDE DEF coalesces, waits
  <2> QED
    BY <2>1, <2>4, <2>5, <2>6
<1> QED
  BY <1>1, <1>2

\* Faults that are valid have natural fragment sizes and coalesce count.
LEMMA FaultOptionTypes ==
    ASSUME NEW faults \in ValidFaults
    PROVE  /\ faults.fragmentSizes \in Seq(Nat) /\ faults.coalesceCount \in Nat
           /\ faults.noisePrefix \in Nat /\ faults.disconnectAfterSend \in BOOLEAN
<1>1. faults \in FaultInjectionOptions /\ FaultsAreValid(faults)
  BY DEF ValidFaults
<1>2. /\ faults.fragmentSizes \in Seq(Int) /\ faults.coalesceCount \in Int
      /\ faults.noisePrefix \in Nat /\ faults.disconnectAfterSend \in BOOLEAN
  BY <1>1 DEF FaultInjectionOptions
<1>3. faults.coalesceCount >= 1 /\ \A i \in DOMAIN faults.fragmentSizes : faults.fragmentSizes[i] > 0
  BY <1>1 DEF FaultsAreValid
<1>4. faults.fragmentSizes \in Seq(Nat)
  <2>1. PICK n \in Nat : faults.fragmentSizes \in [1..n -> Int]
    BY <1>2, SeqDef
  <2>2. \A i \in 1..n : faults.fragmentSizes[i] \in Nat
    BY <1>3, <2>1
  <2>3. faults.fragmentSizes \in [1..n -> Nat]
    BY <2>1, <2>2
  <2> QED
    BY <2>3, SeqDef
<1> QED
  BY <1>2, <1>3, <1>4

\* A response and its valid faults make a transmission of the same session.
LEMMA TransmissionTypes ==
    ASSUME NEW response \in Response, NEW faults \in ValidFaults
    PROVE  /\ TransmissionOf(response, faults) \in Transmission
           /\ TransmissionOf(response, faults).session = response.session
<1>1. OutboundSize(response.payload, faults) \in Nat
  BY FaultOptionTypes DEF Response, OutboundSize, FixedFrameOverhead
<1> QED
  BY <1>1, FaultOptionTypes DEF Response, Transmission, TransmissionOf

\* A transmission of the session is queued only below the limit
\* (DeviceSimulatorServer.cpp:629-638), which preserves the invariant.
LEMMA QueuedInv ==
    ASSUME NEW s, Inv(s), s.client, NEW transmission \in Transmission,
           transmission.session = s.sessionOrdinal, ~OutputQueueFull(s)
    PROVE  Inv([s EXCEPT !.outputQueue = Append(s.outputQueue, transmission)])
<1> DEFINE line == Append(s.outputQueue, transmission)
           t == [s EXCEPT !.outputQueue = line]
<1>1. s.outputQueue \in Seq(Transmission) /\ Own(s, s.outputQueue)
  BY FieldTypes DEF Inv, Isolated
<1>2. /\ line \in Seq(Transmission) /\ Len(line) = Len(s.outputQueue) + 1
      /\ Own(s, line)
  BY <1>1, AppendProperties DEF Own
<1> HIDE DEF line
<1>3. t \in Server
  BY <1>2 DEF Server, Inv
<1>4. /\ t.client = s.client /\ t.sessionOrdinal = s.sessionOrdinal
      /\ t.sessionGeneration = s.sessionGeneration
      /\ t.requestQueue = s.requestQueue /\ t.outputQueue = line
      /\ t.activeTransmission = s.activeTransmission /\ t.writing = s.writing
      /\ t.delayed = s.delayed /\ t.wire = s.wire
  BY DEF Server, Inv
<1> HIDE DEF t
<1>5. Bounded(t)
  <2>1. ActiveWriteCount(t) = ActiveWriteCount(s) /\ ActiveWriteCount(s) \in 0..1
    BY <1>4 DEF ActiveWriteCount
  <2>2. ~(Len(s.outputQueue) + ActiveWriteCount(s) >= OutputQueueCapacity)
    BY DEF OutputQueueFull
  <2> QED
    BY <1>2, <1>4, <2>1, <2>2, QueueLength, ServerAssumption DEF Bounded
<1>6. Dated(t) /\ Quiet(t)
  BY <1>4 DEF Inv, Dated, Quiet
<1>7. Isolated(t)
  BY <1>2, <1>4 DEF Inv, Isolated, Own, OwnWrite
<1>8. Inv(t)
  BY <1>3, <1>5, <1>6, <1>7 DEF Inv
<1> QED
  BY <1>8 DEF t, line

\* enqueueTransmission (DeviceSimulatorServer.cpp:627-642) preserves the invariant.
LEMMA EnqueueTransmissionInv ==
    ASSUME NEW s, Inv(s), s.client, NEW transmission \in Transmission,
           transmission.session = s.sessionOrdinal, NEW accepted \in BOOLEAN
    PROVE  Inv(EnqueueTransmission(s, transmission, accepted))
<1>1. CASE OutputQueueFull(s)
  BY <1>1, DisconnectInv DEF EnqueueTransmission
<1>2. CASE ~OutputQueueFull(s)
  BY <1>2, QueuedInv, ProcessOutputQueueInv DEF EnqueueTransmission
<1> QED
  BY <1>1, <1>2

\* Scheduling a disconnect preserves the invariant and the session's data.
LEMMA ScheduleDisconnectInv ==
    ASSUME NEW s, Inv(s), s.client
    PROVE  Inv(ScheduleDisconnect(s)) /\ SameSessionData(s, ScheduleDisconnect(s))
<1> DEFINE t == [s EXCEPT !.disconnectScheduled = TRUE, !.telemetryTimer = FALSE]
<1>1. t \in Server
  BY DEF Server, Inv
<1>2. SameSessionData(s, t)
  BY DEF Server, Inv, SameSessionData
<1> QED
  BY <1>1, <1>2, SameInv DEF ScheduleDisconnect

\* queueResponse (DeviceSimulatorServer.cpp:563-625) preserves the invariant.
LEMMA QueueResponseInv ==
    ASSUME NEW s, Inv(s), NEW response \in Response,
           s.client => response.session = s.sessionOrdinal,
           NEW faults \in ValidFaults, NEW accepted \in BOOLEAN
    PROVE  Inv(QueueResponse(s, response, faults, accepted))
<1> DEFINE scheduled == IF faults.disconnectAfterSend THEN ScheduleDisconnect(s) ELSE s
<1>1. CASE ~s.client
  BY <1>1 DEF QueueResponse
<1>2. CASE s.client /\ EncodingFails(response.payload, faults)
  BY <1>2, DisconnectInv DEF QueueResponse
<1>3. CASE s.client /\ ~EncodingFails(response.payload, faults)
  <2>1. Inv(scheduled) /\ scheduled.client /\ scheduled.sessionOrdinal = s.sessionOrdinal
    BY <1>3, ScheduleDisconnectInv DEF SameSessionData
  <2> HIDE DEF scheduled
  <2>2. Inv(EnqueueTransmission(scheduled, TransmissionOf(response, faults), accepted))
    BY <1>3, <2>1, TransmissionTypes, EnqueueTransmissionInv
  <2> QED
    BY <1>3, <2>2 DEF QueueResponse, scheduled
<1> QED
  BY <1>1, <1>2, <1>3

\* A request may be in progress for an attached client only.
LEMMA ProcessingRequestInv ==
    ASSUME NEW s, Inv(s), NEW b \in BOOLEAN, s.client \/ ~b
    PROVE  Inv([s EXCEPT !.processingRequest = b])
<1> DEFINE t == [s EXCEPT !.processingRequest = b]
<1>1. t \in Server
  BY DEF Server, Inv
<1>2. SameSessionData(s, t)
  BY DEF Server, Inv, SameSessionData
<1>3. s.client \/ SameFlags(s, t)
  BY DEF Server, Inv, SameFlags, Quiet
<1> QED
  BY <1>1, <1>2, <1>3, SameInv

\* finishRequest (DeviceSimulatorServer.cpp:472-476) preserves the invariant.
LEMMA FinishRequestInv ==
    ASSUME NEW s, Inv(s)
    PROVE  Inv(FinishRequest(s))
<1> DEFINE t == [s EXCEPT !.processingRequest = FALSE]
           u == [t EXCEPT !.requestCalls = t.requestCalls + 1]
<1>1. Inv(t)
  BY ProcessingRequestInv
<1>2. FinishRequest(s) = u
  BY DEF FinishRequest, Inv, Server
<1>3. t.requestCalls + 1 \in Nat
  <2> HIDE DEF t
  <2> QED
    BY <1>1, FieldTypes DEF Inv
<1> HIDE DEF t
<1>4. Inv(u)
  BY <1>1, <1>3, RequestCallsInv
<1> QED
  BY <1>2, <1>4

\* Ending the session over a request preserves the invariant.
LEMMA AbortRequestInv ==
    ASSUME NEW s, Inv(s)
    PROVE  Inv(AbortRequest(s))
BY ProcessingRequestInv, DisconnectInv DEF AbortRequest

\* Answering a request of the session preserves the invariant, even when the
\* session ends in the call (DeviceSimulatorServer.cpp:547-560).
LEMMA AnswerRequestInv ==
    ASSUME NEW s, Inv(s), NEW response \in Response,
           s.client => response.session = s.sessionOrdinal,
           NEW faults \in ValidFaults, NEW accepted \in BOOLEAN
    PROVE  Inv(AnswerRequest(s, response, faults, accepted))
<1> DEFINE queued == QueueResponse(s, response, faults, accepted)
<1>1. Inv(queued)
  BY QueueResponseInv
<1> HIDE DEF queued
<1>2. Inv(FinishRequest(queued)) /\ Inv([queued EXCEPT !.processingRequest = FALSE])
  BY <1>1, FinishRequestInv, ProcessingRequestInv
<1> QED
  BY <1>2 DEF AnswerRequest, queued

\* A delayed response captures the generation of its own session
\* (DeviceSimulatorServer.cpp:536-553), which preserves the invariant.
LEMMA DelayResponseInv ==
    ASSUME NEW s, Inv(s), s.client, NEW response \in Response,
           response.session = s.sessionOrdinal, NEW faults \in ValidFaults
    PROVE  Inv(DelayResponse(s, response, faults))
<1> DEFINE capture == [generation |-> s.sessionGeneration,
                       response |-> response, faults |-> faults]
           captures == s.delayed \cup {capture}
           t == [s EXCEPT !.delayed = captures]
<1>1. capture \in DelayedResponse
  BY FieldTypes DEF Inv, DelayedResponse
<1>2. captures \subseteq DelayedResponse
  BY <1>1, FieldTypes DEF Inv
<1>3. capture.generation = s.sessionGeneration /\ capture.response.session = s.sessionOrdinal
  OBVIOUS
<1> HIDE DEF capture
<1>4. \A d \in captures : d \in s.delayed \/ d = capture
  OBVIOUS
<1> HIDE DEF captures
<1>5. t \in Server
  BY <1>2 DEF Server, Inv
<1>6. /\ t.client = s.client /\ t.sessionOrdinal = s.sessionOrdinal
      /\ t.sessionGeneration = s.sessionGeneration
      /\ t.requestQueue = s.requestQueue /\ t.outputQueue = s.outputQueue
      /\ t.activeTransmission = s.activeTransmission /\ t.writing = s.writing
      /\ t.delayed = captures /\ t.wire = s.wire
  BY DEF Server, Inv
<1> HIDE DEF t
<1>7. Bounded(t) /\ Quiet(t)
  BY <1>6 DEF Inv, Bounded, Quiet, ActiveWriteCount
<1>8. Dated(t)
  BY <1>3, <1>4, <1>6 DEF Inv, Dated
<1>9. Isolated(t)
  BY <1>3, <1>4, <1>6 DEF Inv, Isolated, Own, OwnWrite
<1>10. Inv(t)
  BY <1>5, <1>7, <1>8, <1>9 DEF Inv
<1> QED
  BY <1>10 DEF DelayResponse, t, captures, capture

\* The default faults are valid.
LEMMA NoFaultsValid == NoFaults \in ValidFaults
<1>1. NoFaults \in FaultInjectionOptions
  BY DEF NoFaults, FaultInjectionOptions
<1>2. FaultsAreValid(NoFaults)
  BY DEF NoFaults, FaultsAreValid
<1> QED
  BY <1>1, <1>2 DEF ValidFaults

\* Every message has a plan: that of the first rule that matches or the default
\* (DeviceSimulatorServer.cpp:450-460).
LEMMA PlanTypes ==
    ASSUME NEW message \in Messages
    PROVE  PlanFor(message) \in ResponsePlan
<1> DEFINE match == FindMatch(message)
           hits == {i \in 1..Len(RuleTable) : Matches(RuleTable[i], message)}
<1>1. RuleTable \in Seq(SimulationRule) /\ Len(RuleTable) \in Nat
  BY RuleTableAssumption, LenProperties
<1>2. match = IF hits # {} THEN Min(hits) ELSE 0
  BY DEF FindMatch, SelectInSeq
<1>3. hits \subseteq 1..Len(RuleTable) /\ hits \subseteq Nat
  BY <1>1
<1> HIDE DEF hits
<1>4. match = 0 \/ match \in 1..Len(RuleTable)
  <2>1. CASE hits = {}
    BY <1>2, <2>1
  <2>2. CASE hits # {}
    <3>1. \E i \in hits : \A j \in hits : i <= j
      BY <1>3, <2>2, MinOfNaturals
    <3>2. match \in hits
      BY <1>2, <2>2, <3>1 DEF Min
    <3> QED
      BY <1>3, <3>2
  <2> QED
    BY <2>1, <2>2
<1>5. PlanFor(message) = IF match # 0 THEN RuleTable[match].plan ELSE UnknownCommandResponse
  BY DEF PlanFor
<1> HIDE DEF match
<1>6. CASE match # 0
  <2>1. RuleTable[match] \in SimulationRule
    BY <1>1, <1>4, <1>6
  <2>2. RuleTable[match].plan \in ResponsePlan
    BY <2>1 DEF SimulationRule
  <2> QED
    BY <1>5, <1>6, <2>2
<1>7. CASE match = 0
  <2>1. NoFaults \in FaultInjectionOptions
    BY NoFaultsValid DEF ValidFaults
  <2> HIDE DEF NoFaults
  <2>2. UnknownCommandResponse \in ResponsePlan
    BY <2>1 DEF UnknownCommandResponse, Respond, ResponsePlan, SimulationBehavior
  <2> QED
    BY <1>5, <1>7, <2>2
<1> QED
  BY <1>6, <1>7

\* A draw, when the faults ask for one.
DrawnFor(s, faults) == IF DrawsForDrop(faults) THEN [s EXCEPT !.randomDraws = @ + 1] ELSE s

\* Drawing preserves the invariant.
LEMMA DrawnForInv ==
    ASSUME NEW s, Inv(s), s.client, NEW faults
    PROVE  /\ Inv(DrawnFor(s, faults)) /\ DrawnFor(s, faults).client
           /\ DrawnFor(s, faults).sessionOrdinal = s.sessionOrdinal
<1> DEFINE draws == s.randomDraws + 1
           t == [s EXCEPT !.randomDraws = draws]
<1>1. draws \in Nat
  BY FieldTypes DEF Inv
<1> HIDE DEF draws
<1>2. Inv(t) /\ t.client /\ t.sessionOrdinal = s.sessionOrdinal
  <2>1. t \in Server
    BY <1>1 DEF Server, Inv
  <2>2. SameSessionData(s, t) /\ SameFlags(s, t)
    BY DEF Server, Inv, SameSessionData, SameFlags
  <2> HIDE DEF t
  <2> QED
    BY <2>1, <2>2, SameInv DEF SameSessionData
<1> QED
  BY <1>2 DEF DrawnFor, t, draws

\* The three ways a response is executed (DeviceSimulatorServer.cpp:526-560).
LEMMA ExecuteResponseCases ==
    ASSUME NEW s, NEW response, NEW faults, NEW io
    PROVE  LET t == ExecuteResponse(s, response, faults, io)
               drawn == DrawnFor(s, faults)
           IN  \/ ShouldDrop(faults, io.below) /\ t = FinishRequest(drawn)
               \/ /\ ~ShouldDrop(faults, io.below)
                  /\ t = DelayResponse(drawn, response, faults)
               \/ /\ ~ShouldDrop(faults, io.below)
                  /\ t = AnswerRequest(drawn, response, faults, io.accepted)
<1> DEFINE drawn == DrawnFor(s, faults)
<1>1. ExecuteResponse(s, response, faults, io) =
        CASE ShouldDrop(faults, io.below) -> FinishRequest(drawn)
          [] ~ShouldDrop(faults, io.below) /\ faults.delayMs > 0 ->
               DelayResponse(drawn, response, faults)
          [] OTHER -> AnswerRequest(drawn, response, faults, io.accepted)
  BY DEF ExecuteResponse, DrawnFor
<1> HIDE DEF drawn
<1> QED
  BY <1>1 DEF drawn

\* Dropping, delaying or giving a response preserves the invariant.
LEMMA ExecuteResponseInv ==
    ASSUME NEW s, Inv(s), s.client, NEW response \in Response,
           response.session = s.sessionOrdinal,
           NEW faults \in ValidFaults, NEW io \in Outcomes
    PROVE  Inv(ExecuteResponse(s, response, faults, io))
<1> DEFINE drawn == DrawnFor(s, faults)
<1>1. Inv(drawn) /\ drawn.client /\ drawn.sessionOrdinal = s.sessionOrdinal
  BY DrawnForInv
<1>2. io.accepted \in BOOLEAN
  BY DEF Outcomes, MayFail
<1> HIDE DEF drawn
<1>3. /\ Inv(FinishRequest(drawn)) /\ Inv(DelayResponse(drawn, response, faults))
      /\ Inv(AnswerRequest(drawn, response, faults, io.accepted))
  BY <1>1, <1>2, FinishRequestInv, DelayResponseInv, AnswerRequestInv
<1> QED
  BY <1>3, ExecuteResponseCases DEF drawn

\* The response a plan gives to a request.
ResponseTo(request, plan) ==
    [session |-> request.session, id |-> request.id, telemetry |-> FALSE,
     payload |-> plan.payload]

\* A plan that is carried out has a response and valid faults.
Executable(plan) ==
    /\ plan.behavior = "Respond" /\ plan.hasResponse
    /\ ValidateFaults(plan.faults, plan.payload)

\* The four ways a plan is executed (DeviceSimulatorServer.cpp:478-561).
LEMMA ExecutePlanCases ==
    ASSUME NEW s, NEW request \in Request, NEW plan \in ResponsePlan, NEW io
    PROVE  LET t == ExecutePlan(s, request, plan, io)
           IN  \/ /\ plan.behavior \in {"NoResponse", "DropResponse"}
                  /\ t = FinishRequest(s)
               \/ /\ plan.behavior = "Disconnect"
                  /\ t = DisconnectFromHost(
                             ScheduleDisconnect([s EXCEPT !.processingRequest = FALSE]))
               \/ ~Executable(plan) /\ t = AbortRequest(s)
               \/ /\ Executable(plan)
                  /\ plan.faults \in ValidFaults
                  /\ ResponseTo(request, plan) \in Response
                  /\ ResponseTo(request, plan).session = request.session
                  /\ t = ExecuteResponse(s, ResponseTo(request, plan), plan.faults, io)
<1> DEFINE idle == ScheduleDisconnect([s EXCEPT !.processingRequest = FALSE])
           response == ResponseTo(request, plan)
<1>1. response \in Response /\ response.session = request.session
  BY DEF Request, ResponsePlan, Response, ResponseTo
<1>2. plan.behavior \in {"NoResponse", "DropResponse", "Disconnect", "Throws", "Respond"}
  BY DEF ResponsePlan, SimulationBehavior
<1>3. ValidateFaults(plan.faults, plan.payload) => plan.faults \in ValidFaults
  BY DEF ResponsePlan, ValidFaults, ValidateFaults, PlanExecutable
<1>4. ExecutePlan(s, request, plan, io) =
        CASE plan.behavior \in {"NoResponse", "DropResponse"} -> FinishRequest(s)
          [] plan.behavior = "Disconnect" -> DisconnectFromHost(idle)
          [] plan.behavior = "Throws" -> AbortRequest(s)
          [] plan.behavior = "Respond" ->
               IF plan.hasResponse /\ ValidateFaults(plan.faults, plan.payload)
               THEN ExecuteResponse(s, response, plan.faults, io)
               ELSE AbortRequest(s)
  BY DEF ExecutePlan, ResponseTo
<1> HIDE DEF idle, response
<1>5. CASE plan.behavior \in {"NoResponse", "DropResponse"}
  BY <1>4, <1>5 DEF idle, response
<1>6. CASE plan.behavior = "Disconnect"
  BY <1>4, <1>6 DEF idle, response
<1>7. CASE plan.behavior = "Throws"
  BY <1>4, <1>7 DEF idle, response, Executable
<1>8. CASE plan.behavior = "Respond"
  BY <1>1, <1>3, <1>4, <1>8 DEF idle, response, Executable
<1> QED
  BY <1>2, <1>5, <1>6, <1>7, <1>8

\* executePlan (DeviceSimulatorServer.cpp:478-561) preserves the invariant.
LEMMA ExecutePlanInv ==
    ASSUME NEW s, Inv(s), s.client, NEW request \in Request,
           request.session = s.sessionOrdinal,
           NEW plan \in ResponsePlan, NEW io \in Outcomes
    PROVE  Inv(ExecutePlan(s, request, plan, io))
<1> DEFINE idle == [s EXCEPT !.processingRequest = FALSE]
<1>1. Inv(FinishRequest(s)) /\ Inv(AbortRequest(s))
  BY FinishRequestInv, AbortRequestInv
<1>2. Inv(DisconnectFromHost(ScheduleDisconnect(idle)))
  <2>1. idle.client
    BY DEF Inv, Server
  <2>2. Inv(idle)
    BY ProcessingRequestInv
  <2> HIDE DEF idle
  <2> QED
    BY <2>1, <2>2, ScheduleDisconnectInv, DisconnectInv
<1>3. ASSUME plan.faults \in ValidFaults, ResponseTo(request, plan) \in Response,
             ResponseTo(request, plan).session = request.session
      PROVE  Inv(ExecuteResponse(s, ResponseTo(request, plan), plan.faults, io))
  BY <1>3, ExecuteResponseInv
<1> HIDE DEF idle
<1> QED
  BY <1>1, <1>2, <1>3, ExecutePlanCases DEF idle

\* The head of the requests is taken.
RequestTaken(s) == [s EXCEPT !.requestQueue = Tail(@), !.processingRequest = TRUE]

\* Taking the next request preserves the invariant.
LEMMA RequestTakenInv ==
    ASSUME NEW s, Inv(s), CanProcess(s)
    PROVE  /\ Inv(RequestTaken(s)) /\ RequestTaken(s).client
           /\ Head(s.requestQueue) \in Request
           /\ Head(s.requestQueue).session = RequestTaken(s).sessionOrdinal
           /\ PlanFor(Head(s.requestQueue).message) \in ResponsePlan
<1> DEFINE rest == Tail(s.requestQueue)
           request == Head(s.requestQueue)
           t == [s EXCEPT !.requestQueue = rest, !.processingRequest = TRUE]
<1>1. /\ s.client /\ s.requestQueue # <<>> /\ s.requestQueue \in Seq(Request)
      /\ Own(s, s.requestQueue)
  BY FieldTypes DEF CanProcess, Inv, Isolated
<1>2. /\ rest \in Seq(Request)
      /\ \A i \in DOMAIN rest : i + 1 \in DOMAIN s.requestQueue
                                /\ rest[i] = s.requestQueue[i + 1]
  BY <1>1, HeadTailProperties
<1>3. Own(s, rest)
  BY <1>1, <1>2 DEF Own
<1>4. request \in Request /\ request.session = s.sessionOrdinal
  <2>1. 1 \in DOMAIN s.requestQueue /\ request = s.requestQueue[1]
    BY <1>1
  <2> QED
    BY <1>1, <2>1 DEF Own
<1> HIDE DEF rest, request
<1>5. t \in Server
  BY <1>2 DEF Server, Inv
<1>6. /\ t.client = s.client /\ t.sessionOrdinal = s.sessionOrdinal
      /\ t.sessionGeneration = s.sessionGeneration
      /\ t.requestQueue = rest /\ t.outputQueue = s.outputQueue
      /\ t.activeTransmission = s.activeTransmission /\ t.writing = s.writing
      /\ t.delayed = s.delayed /\ t.wire = s.wire
  BY DEF Server, Inv
<1> HIDE DEF t
<1>7. Bounded(t) /\ Dated(t) /\ Quiet(t)
  BY <1>1, <1>6 DEF Inv, Bounded, Dated, Quiet, ActiveWriteCount
<1>8. Isolated(t)
  BY <1>3, <1>6 DEF Inv, Isolated, Own, OwnWrite
<1>9. Inv(t) /\ t.client /\ request.session = t.sessionOrdinal
  BY <1>1, <1>4, <1>5, <1>6, <1>7, <1>8 DEF Inv
<1>10. PlanFor(request.message) \in ResponsePlan
  BY <1>4, PlanTypes DEF Request
<1> QED
  BY <1>4, <1>9, <1>10 DEF RequestTaken, t, rest, request

\* processNextRequest (DeviceSimulatorServer.cpp:440-470) preserves the invariant.
LEMMA ProcessNextRequestInv ==
    ASSUME NEW s, Inv(s), NEW io \in Outcomes
    PROVE  Inv(ProcessNextRequest(s, io))
<1>1. CASE ~CanProcess(s)
  BY <1>1 DEF ProcessNextRequest
<1>2. CASE CanProcess(s)
  <2> DEFINE request == Head(s.requestQueue)
             t == RequestTaken(s)
  <2>1. /\ Inv(t) /\ t.client /\ request \in Request
        /\ request.session = t.sessionOrdinal /\ PlanFor(request.message) \in ResponsePlan
    BY <1>2, RequestTakenInv
  <2> HIDE DEF t, request
  <2>2. Inv(ExecutePlan(t, request, PlanFor(request.message), io))
    BY <2>1, ExecutePlanInv
  <2> QED
    BY <1>2, <2>2 DEF ProcessNextRequest, RequestTaken, t, request
<1> QED
  BY <1>1, <1>2

\* attachClient (DeviceSimulatorServer.cpp:368-415) preserves the invariant: it
\* starts from a clean state, and no capture has the new generation.
LEMMA AttachClientInv ==
    ASSUME NEW s, Inv(s), ~s.client
    PROVE  Inv(AttachClient(s))
<1> DEFINE t == AttachClient(s)
<1>1. t \in Server
  <2>1. RandomSeed + s.sessionOrdinal \in Int
    BY FieldTypes, SeedAssumption DEF Inv
  <2>2. ASSUME NEW seed \in Int
        PROVE  [s EXCEPT !.randomSeed = seed, !.randomDraws = 0] \in Server
    BY DEF Server, Inv
  <2>3. Seed(s) \in Server
    BY <2>1, <2>2 DEF Seed
  <2>4. ASSUME NEW u \in Server, NEW g \in Nat, NEW o \in Nat, NEW q \in Nat, NEW b \in BOOLEAN
        PROVE  [u EXCEPT !.sessionGeneration = g, !.sessionOrdinal = o, !.client = TRUE,
                         !.disconnectScheduled = FALSE, !.telemetrySequence = q,
                         !.telemetryTimer = b] \in Server
    <3> DEFINE v == [u EXCEPT !.sessionGeneration = g, !.sessionOrdinal = o, !.client = TRUE]
    <3>1. v \in Server
      BY DEF Server
    <3>2. ASSUME NEW w \in Server
          PROVE  [w EXCEPT !.disconnectScheduled = FALSE, !.telemetrySequence = q,
                           !.telemetryTimer = b] \in Server
      BY DEF Server
    <3>3. [v EXCEPT !.disconnectScheduled = FALSE, !.telemetrySequence = q,
                    !.telemetryTimer = b] \in Server
      BY <3>1, <3>2
    <3> QED
      BY <3>3
  <2>5. ASSUME NEW u \in Server PROVE u.sessionGeneration + 1 \in Nat /\ u.sessionOrdinal + 1 \in Nat
    BY FieldTypes
  <2>6. InitialSequence \in Nat /\ TelemetryEnabled \in BOOLEAN
    BY ServerAssumption
  <2> QED
    BY <2>3, <2>4, <2>5, <2>6 DEF AttachClient
<1>2. /\ t.client = TRUE
      /\ t.sessionGeneration = s.sessionGeneration + 1
      /\ t.requestQueue = s.requestQueue /\ t.outputQueue = s.outputQueue
      /\ t.activeTransmission = s.activeTransmission /\ t.writing = s.writing
      /\ t.delayed = s.delayed /\ t.wire = s.wire
  BY DEF Server, Inv, AttachClient, Seed
<1> HIDE DEF t
<1>3. /\ s.requestQueue = <<>> /\ s.outputQueue = <<>> /\ s.activeTransmission = <<>>
      /\ s.wire = <<>>
  BY DEF Inv, Quiet
<1>4. Bounded(t)
  BY <1>2 DEF Inv, Bounded, ActiveWriteCount
<1>5. Quiet(t)
  BY <1>2 DEF Quiet
<1>6. \A d \in t.delayed : d.generation < t.sessionGeneration
                           /\ d.generation # t.sessionGeneration
  <2>1. \A d \in s.delayed : d.generation \in Nat /\ d.generation < s.sessionGeneration
    BY FieldTypes DEF Inv, Dated, DelayedResponse
  <2>2. s.sessionGeneration \in Nat
    BY FieldTypes DEF Inv
  <2> QED
    BY <1>2, <2>1, <2>2
<1>7. Dated(t)
  BY <1>6 DEF Dated
<1>8. Isolated(t)
  BY <1>2, <1>3, <1>6 DEF Isolated, Own, OwnWrite
<1> QED
  BY <1>1, <1>4, <1>5, <1>7, <1>8 DEF Inv, t

\* acceptPendingConnections (DeviceSimulatorServer.cpp:184-198) preserves the
\* invariant.
LEMMA AcceptPendingConnectionsInv ==
    ASSUME NEW s, Inv(s), NEW made \in BOOLEAN
    PROVE  Inv(AcceptPendingConnections(s, made))
<1> DEFINE taken == [s EXCEPT !.pending = FALSE]
<1>1. taken \in Server
  BY DEF Server, Inv
<1>2. SameSessionData(s, taken) /\ SameFlags(s, taken)
  BY DEF Server, Inv, SameSessionData, SameFlags
<1> HIDE DEF taken
<1>3. Inv(taken) /\ taken.client = s.client
  BY <1>1, <1>2, SameInv DEF SameSessionData
<1> QED
  BY <1>3, AttachClientInv DEF AcceptPendingConnections, taken

\* Parsed requests become requests of the attached session.
LEMMA ArrivalsTypes ==
    ASSUME NEW s, Inv(s), NEW n \in Nat, NEW messages \in [1..n -> Messages]
    PROVE  /\ messages \in Seq(Messages)
           /\ Arrivals(s, messages) \in Seq(Request)
           /\ Own(s, Arrivals(s, messages))
<1>1. messages \in Seq(Messages) /\ Len(messages) = n
  BY SeqDef
<1>2. s.sessionOrdinal \in Nat /\ Len(s.received) \in Nat
  BY FieldTypes, LenProperties DEF Inv
<1>3. \A i \in 1..n : [session |-> s.sessionOrdinal, id |-> Len(s.received) + i,
                       message |-> messages[i]] \in Request
  BY <1>2 DEF Request
<1>4. Arrivals(s, messages) \in [1..n -> Request]
  BY <1>1, <1>3 DEF Arrivals
<1>5. Own(s, Arrivals(s, messages))
  BY <1>1 DEF Arrivals, Own
<1> QED
  BY <1>1, <1>4, <1>5, SeqDef

\* The parsed requests are queued.
ReadIn(s, messages) ==
    [s EXCEPT !.requestQueue = @ \o Arrivals(s, messages), !.received = @ \o messages]

\* Queueing parsed requests preserves the invariant
\* (DeviceSimulatorServer.cpp:200-237).
LEMMA ReadInv ==
    ASSUME NEW s, Inv(s), s.client, NEW n \in Nat, NEW messages \in [1..n -> Messages]
    PROVE  Inv(ReadIn(s, messages))
<1> DEFINE line == s.requestQueue \o Arrivals(s, messages)
           history == s.received \o messages
           t == [s EXCEPT !.requestQueue = line, !.received = history]
<1>1. history \in Seq(Messages)
  BY FieldTypes, ArrivalsTypes, ConcatProperties DEF Inv
<1>2. line \in Seq(Request) /\ Own(s, line)
  <2>1. /\ s.requestQueue \in Seq(Request) /\ Own(s, s.requestQueue)
        /\ Arrivals(s, messages) \in Seq(Request) /\ Own(s, Arrivals(s, messages))
    BY FieldTypes, ArrivalsTypes DEF Inv, Isolated
  <2> QED
    BY <2>1, ConcatProperties DEF Own
<1> HIDE DEF line, history
<1>3. t \in Server
  BY <1>1, <1>2 DEF Server, Inv
<1>4. /\ t.client = s.client /\ t.sessionOrdinal = s.sessionOrdinal
      /\ t.sessionGeneration = s.sessionGeneration
      /\ t.requestQueue = line /\ t.outputQueue = s.outputQueue
      /\ t.activeTransmission = s.activeTransmission /\ t.writing = s.writing
      /\ t.delayed = s.delayed /\ t.wire = s.wire
  BY DEF Server, Inv
<1> HIDE DEF t
<1>5. Bounded(t) /\ Dated(t) /\ Quiet(t)
  BY <1>4 DEF Inv, Bounded, Dated, Quiet, ActiveWriteCount
<1>6. Isolated(t)
  BY <1>2, <1>4 DEF Inv, Isolated, Own, OwnWrite
<1>7. Inv(t)
  BY <1>3, <1>5, <1>6 DEF Inv
<1> QED
  BY <1>7 DEF ReadIn, t, line, history

\* publishTelemetry (DeviceSimulatorServer.cpp:347-366) preserves the invariant,
\* also when the session ends in the call.
LEMMA PublishTelemetryInv ==
    ASSUME NEW s, Inv(s), NEW made \in BOOLEAN, NEW accepted \in BOOLEAN
    PROVE  Inv(PublishTelemetry(s, made, accepted))
<1> DEFINE frame == [session |-> s.sessionOrdinal, id |-> s.telemetrySequence,
                     telemetry |-> TRUE, payload |-> TelemetryPayload]
           queued == QueueResponse(s, frame, NoFaults, accepted)
           sequence == NextSequence(queued.telemetrySequence)
           t == [queued EXCEPT !.telemetrySequence = sequence]
<1>1. frame \in Response /\ frame.session = s.sessionOrdinal
  BY FieldTypes, ServerAssumption DEF Inv, Response
<1> HIDE DEF frame
<1>2. Inv(queued)
  BY <1>1, NoFaultsValid, QueueResponseInv
<1> HIDE DEF queued
<1>3. sequence \in Nat
  BY <1>2, FieldTypes, ServerAssumption DEF Inv, NextSequence
<1> HIDE DEF sequence
<1>4. Inv(t)
  <2>1. t \in Server
    BY <1>2, <1>3 DEF Server, Inv
  <2>2. SameSessionData(queued, t) /\ SameFlags(queued, t)
    BY <1>2 DEF Server, Inv, SameSessionData, SameFlags
  <2> HIDE DEF t
  <2> QED
    BY <1>2, <2>1, <2>2, SameInv
<1>5. Inv(DisconnectFromHost(s))
  BY DisconnectInv
<1>6. PublishTelemetry(s, made, accepted) =
        CASE ~s.client \/ ~TelemetryEnabled \/ s.disconnectScheduled -> s
          [] s.client /\ TelemetryEnabled /\ ~s.disconnectScheduled /\ ~made ->
               DisconnectFromHost(s)
          [] OTHER -> IF Queued(s, frame, NoFaults) THEN t ELSE queued
  BY DEF PublishTelemetry, frame, queued, sequence, t
<1> HIDE DEF t
<1> QED
  BY <1>2, <1>4, <1>5, <1>6

\* The timer of a capture has fired.
Elapsed(s, capture) == [s EXCEPT !.delayed = @ \ {capture}]

\* A capture whose timer fired is dropped, which preserves the invariant.
LEMMA ElapsedInv ==
    ASSUME NEW s, Inv(s), NEW capture \in s.delayed
    PROVE  LET t == Elapsed(s, capture)
           IN  /\ Inv(t)
               /\ capture.response \in Response /\ capture.faults \in ValidFaults
               /\ capture.generation = t.sessionGeneration /\ t.client =>
                      capture.response.session = t.sessionOrdinal
<1> DEFINE rest == s.delayed \ {capture}
           t == [s EXCEPT !.delayed = rest]
<1>1. capture \in DelayedResponse
  BY FieldTypes DEF Inv
<1>2. rest \subseteq DelayedResponse /\ rest \subseteq s.delayed
  BY FieldTypes DEF Inv
<1> HIDE DEF rest
<1>3. t \in Server
  BY <1>2 DEF Server, Inv
<1>4. /\ t.client = s.client /\ t.sessionOrdinal = s.sessionOrdinal
      /\ t.sessionGeneration = s.sessionGeneration
      /\ t.requestQueue = s.requestQueue /\ t.outputQueue = s.outputQueue
      /\ t.activeTransmission = s.activeTransmission /\ t.writing = s.writing
      /\ t.delayed = rest /\ t.wire = s.wire
      /\ t.received = s.received /\ SameFlags(s, t)
  BY DEF Server, Inv, SameFlags
<1> HIDE DEF t
<1>5. Bounded(t) /\ Quiet(t)
  BY <1>4 DEF Inv, Bounded, Quiet, ActiveWriteCount, SameFlags
<1>6. Dated(t) /\ Isolated(t)
  BY <1>2, <1>4 DEF Inv, Dated, Isolated, Own, OwnWrite
<1>7. Inv(t)
  BY <1>3, <1>5, <1>6 DEF Inv
<1>8. capture.response \in Response /\ capture.faults \in ValidFaults
  BY <1>1 DEF DelayedResponse
<1>9. capture.generation = t.sessionGeneration /\ t.client =>
          capture.response.session = t.sessionOrdinal
  BY <1>4 DEF Inv, Isolated
<1> QED
  BY <1>7, <1>8, <1>9 DEF Elapsed, t, rest

\* The delayed lambda (DeviceSimulatorServer.cpp:542-552) preserves the
\* invariant: it answers only in the generation it was made in, and then its
\* response is of the attached session.
LEMMA RunDelayedInv ==
    ASSUME NEW s, Inv(s), NEW capture \in s.delayed, NEW accepted \in BOOLEAN
    PROVE  Inv(RunDelayed(Elapsed(s, capture), capture, accepted))
<1> DEFINE t == Elapsed(s, capture)
<1>1. /\ Inv(t) /\ capture.response \in Response /\ capture.faults \in ValidFaults
      /\ capture.generation = t.sessionGeneration /\ t.client =>
             capture.response.session = t.sessionOrdinal
  BY ElapsedInv
<1> HIDE DEF t
<1>2. CASE capture.generation # t.sessionGeneration \/ ~t.client
  BY <1>1, <1>2 DEF RunDelayed, t
<1>3. CASE ~(capture.generation # t.sessionGeneration \/ ~t.client)
  <2>1. Inv(AnswerRequest(t, capture.response, capture.faults, accepted))
    BY <1>1, <1>3, AnswerRequestInv
  <2> QED
    BY <1>3, <2>1 DEF RunDelayed, t
<1> QED
  BY <1>2, <1>3

\* The constructed server satisfies the invariant.
LEMMA InitInv == Init => Inv(srv)
<1> SUFFICES ASSUME Init PROVE Inv(srv)
  OBVIOUS
<1>1. srv \in Server
  BY SeedAssumption DEF Init, Server
<1>2. Bounded(srv)
  BY ServerAssumption DEF Init, Bounded, ActiveWriteCount
<1>3. Isolated(srv) /\ Quiet(srv) /\ Dated(srv)
  BY DEF Init, Isolated, Quiet, Dated
<1> QED
  BY <1>1, <1>2, <1>3 DEF Inv

\* Every callback and every call of the embedding program preserves it.
LEMMA StepInv == Inv(srv) /\ [Next]_vars => Inv(srv')
<1> SUFFICES ASSUME Inv(srv), [Next]_vars PROVE Inv(srv')
  OBVIOUS
<1>0. \A call : MayFail(call) \subseteq BOOLEAN
  BY DEF MayFail
<1>01. \A io \in Outcomes : io.accepted \in BOOLEAN
  BY <1>0 DEF Outcomes
<1>1. CASE Start
  <2>1. PICK ok \in BOOLEAN : srv' = [srv EXCEPT !.stopping = FALSE, !.listening = ok]
    BY <1>0, <1>1 DEF Start
  <2>2. [srv EXCEPT !.stopping = FALSE, !.listening = ok] \in Server
    BY DEF Inv, Server
  <2>20. srv' \in Server
    BY <2>1, <2>2
  <2>3. SameSessionData(srv, srv') /\ SameFlags(srv, srv')
    BY <2>1 DEF Inv, Server, SameSessionData, SameFlags
  <2> QED
    BY <2>20, <2>3, SameInv
<1>2. CASE Stop
  <2> DEFINE t == [srv EXCEPT !.stopping = TRUE, !.listening = FALSE, !.pending = FALSE]
  <2>1. t \in Server
    BY DEF Inv, Server
  <2>2. SameSessionData(srv, t) /\ SameFlags(srv, t)
    BY DEF Inv, Server, SameSessionData, SameFlags
  <2> HIDE DEF t
  <2>3. Inv(ReleaseClient(t))
    BY <2>1, <2>2, SameInv, ReleaseInv
  <2> QED
    BY <1>2, <2>3 DEF Stop, t
<1>3. CASE Connect
  <2>1. srv' = [srv EXCEPT !.pending = TRUE]
    BY <1>3 DEF Connect
  <2>2. [srv EXCEPT !.pending = TRUE] \in Server
    BY DEF Inv, Server
  <2>20. srv' \in Server
    BY <2>1, <2>2
  <2>3. SameSessionData(srv, srv') /\ SameFlags(srv, srv')
    BY <2>1 DEF Inv, Server, SameSessionData, SameFlags
  <2> QED
    BY <2>20, <2>3, SameInv
<1>4. CASE NewConnection
  BY <1>0, <1>4, AcceptPendingConnectionsInv DEF NewConnection
<1>5. CASE AcceptCall
  <2>1. srv.acceptCalls - 1 \in Nat
    BY <1>5, FieldTypes DEF AcceptCall, Inv
  <2>2. Inv([srv EXCEPT !.acceptCalls = srv.acceptCalls - 1])
    BY <2>1, AcceptCallsInv
  <2> QED
    BY <1>0, <1>5, <2>2, AcceptPendingConnectionsInv DEF AcceptCall
<1>6. CASE ReadClientData
  <2>1. PICK n \in 0..MaxBatch :
          \E messages \in [1..n -> Messages], io \in Outcomes :
              srv' = ProcessNextRequest(
                         [srv EXCEPT !.requestQueue = @ \o Arrivals(srv, messages),
                                     !.received = @ \o messages], io)
    BY <1>6 DEF ReadClientData
  <2>2. n \in Nat /\ srv.client
    BY <1>6, ServerAssumption DEF ReadClientData
  <2>3. PICK messages \in [1..n -> Messages], io \in Outcomes :
          srv' = ProcessNextRequest(ReadIn(srv, messages), io)
    BY <2>1 DEF ReadIn
  <2>4. Inv(ReadIn(srv, messages))
    BY <2>2, ReadInv
  <2> QED
    BY <2>3, <2>4, ProcessNextRequestInv
<1>7. CASE ParserFails
  BY <1>7, DisconnectInv DEF ParserFails
<1>8. CASE PeerDisconnects
  BY <1>8, DisconnectedInv DEF PeerDisconnects
<1>9. CASE Flush
  <2> DEFINE t == [srv EXCEPT !.unsent = FALSE]
  <2>1. t \in Server
    BY DEF Inv, Server
  <2>2. SameSessionData(srv, t) /\ SameFlags(srv, t)
    BY DEF Inv, Server, SameSessionData, SameFlags
  <2> HIDE DEF t
  <2>3. Inv(t) /\ Inv(HandleClientDisconnected(t))
    BY <2>1, <2>2, SameInv, DisconnectedInv
  <2> QED
    BY <1>9, <2>3 DEF Flush, t
<1>10. CASE RequestCall
  <2>1. srv.requestCalls - 1 \in Nat
    BY <1>10, FieldTypes DEF RequestCall, Inv
  <2>2. Inv([srv EXCEPT !.requestCalls = srv.requestCalls - 1])
    BY <2>1, RequestCallsInv
  <2> QED
    BY <1>10, <2>2, ProcessNextRequestInv DEF RequestCall
<1>11. CASE OutputCall
  <2>1. srv.outputCalls - 1 \in Nat
    BY <1>11, FieldTypes DEF OutputCall, Inv
  <2>2. Inv([srv EXCEPT !.outputCalls = srv.outputCalls - 1])
    BY <2>1, OutputCallsInv
  <2> QED
    BY <1>01, <1>11, <2>2, ProcessOutputQueueInv DEF OutputCall
<1>12. CASE CoalesceTimeout
  <2> DEFINE t == [srv EXCEPT !.coalesceTimer = FALSE, !.coalesceWindowExpired = TRUE]
  <2>1. srv.client
    BY <1>12 DEF CoalesceTimeout, Inv, Quiet
  <2>2. t \in Server
    BY DEF Inv, Server
  <2>3. SameSessionData(srv, t)
    BY DEF Inv, Server, SameSessionData
  <2> HIDE DEF t
  <2>4. Inv(t)
    BY <2>1, <2>2, <2>3, SameInv
  <2> QED
    BY <1>01, <1>12, <2>4, ProcessOutputQueueInv DEF CoalesceTimeout, t
<1>13. CASE FragmentTimeout
  <2>1. Inv([srv EXCEPT !.fragmentTimer = FALSE])
    BY FragmentTimerInv
  <2> QED
    BY <1>01, <1>13, <2>1, WriteNextFragmentInv DEF FragmentTimeout
<1>14. CASE TelemetryTimeout
  BY <1>0, <1>01, <1>14, PublishTelemetryInv DEF TelemetryTimeout
<1>15. CASE DelayElapsed
  BY <1>01, <1>15, RunDelayedInv DEF DelayElapsed, Elapsed
<1>16. CASE UNCHANGED vars
  BY <1>16 DEF vars
<1> QED
  BY <1>1, <1>2, <1>3, <1>4, <1>5, <1>6, <1>7, <1>8, <1>9, <1>10, <1>11, <1>12, <1>13,
     <1>14, <1>15, <1>16 DEF Next

\* The inductive invariant holds in every reachable state of the server
\* (DeviceSimulatorServer.cpp), for every rule table, limit and bound.
THEOREM Invariance == Spec => []ServerInvariant
<1>1. Init => ServerInvariant
  BY InitInv DEF ServerInvariant
<1>2. ServerInvariant /\ [Next]_vars => ServerInvariant'
  BY StepInv DEF ServerInvariant
<1> QED
  BY <1>1, <1>2, PTL DEF Spec

\* Every field of the server keeps its type; in particular counters of posted
\* calls never go below zero and every fragment offset is a natural number
\* (DeviceSimulatorServer.cpp:305-345).
THEOREM TypeCorrect == Spec => []TypeOK
<1>1. ServerInvariant => TypeOK
  BY DEF ServerInvariant, Inv, TypeOK
<1> QED
  BY <1>1, Invariance, PTL

\* The output queue never exceeds its limit, whatever the plans, the writes and
\* the order of callbacks (DeviceSimulatorServer.cpp:629-638).
THEOREM OutputBounded == Spec => []OutputQueueBounded
<1>1. ServerInvariant => OutputQueueBounded
  BY DEF ServerInvariant, Inv, Bounded, OutputQueueBounded
<1> QED
  BY <1>1, Invariance, PTL

\* Nothing made for one session is queued, written or still due for another,
\* however many sessions, delays and posted calls there are
\* (DeviceSimulatorServer.cpp:417-438, 542-546).
THEOREM SessionsIsolated == Spec => []SessionIsolation
<1>1. ServerInvariant => SessionIsolation
  BY DEF ServerInvariant, Inv, Isolated, Own, OwnWrite, SessionIsolation, LiveDelayed
<1> QED
  BY <1>1, Invariance, PTL

\* Without a client nothing of a session is left, and no delayed lambda can act
\* (DeviceSimulatorServer.cpp:417-438).
THEOREM CleanRelease == Spec => []ReleasedClean
<1>1. ServerInvariant => ReleasedClean
  <2> SUFFICES ASSUME Inv(srv), ~srv.client PROVE ReleasedClean
    BY DEF ServerInvariant, ReleasedClean
  <2>1. \A d \in srv.delayed : d.generation \in Nat /\ d.generation < srv.sessionGeneration
    BY FieldTypes DEF Inv, Dated, DelayedResponse
  <2>2. LiveDelayed(srv) = {}
    BY <2>1, FieldTypes DEF LiveDelayed, Inv
  <2> QED
    BY <2>2 DEF Inv, Quiet, ReleasedClean, IsActive
<1> QED
  BY <1>1, Invariance, PTL
=============================================================================
