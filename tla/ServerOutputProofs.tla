------------------------- MODULE ServerOutputProofs -------------------------
(***************************************************************************)
(* Proofs about the output of DeviceSimulatorServer: what its queue, its   *)
(* two timers and the writes of a session have to do with each other.      *)
(*                                                                         *)
(* Settled(s) holds between two callbacks; inside a callback, while a      *)
(* transmission is queued but not looked at or taken but not written, only *)
(* parts of it do.  Each member function that touches the output has one   *)
(* lemma: from what holds when it is called, Settled holds of its result,  *)
(* the session's requests are as they were (Kept), and the line of         *)
(* outgoing transmissions is the same, or thinner in a session that ends   *)
(* (Sends).                                                                *)
(***************************************************************************)
EXTENDS DeviceSimulatorServerProofs, FiniteSetTheorems

\* A transmission of a plan that was found executable.
Proper(t) ==
    /\ t.size > 0 /\ t.coalesceCount > 0
    /\ \A i \in DOMAIN t.fragmentSizes : t.fragmentSizes[i] > 0

AllProper(line) == \A i \in DOMAIN line : Proper(line[i])

\* One write: a fragment, or transmissions that share it.
Agrees(write) ==
    /\ write # <<>>
    /\ Len(write) > 1 =>
         \A i \in DOMAIN write :
             /\ write[i].from = 0 /\ write[i].to = write[i].of.size
             /\ write[i].of.fragmentSizes = <<>>
             /\ write[i].of.coalesceCount = write[1].of.coalesceCount
             /\ Len(write) <= write[i].of.coalesceCount

\* A piece begins a transmission where the one before it ended, or continues it.
Follows(pieces, i) ==
    IF i = 1 \/ pieces[i - 1].to = pieces[i - 1].of.size
    THEN pieces[i].from = 0
    ELSE pieces[i].of = pieces[i - 1].of /\ pieces[i].from = pieces[i - 1].to

Contiguous(pieces) == \A i \in DOMAIN pieces : Follows(pieces, i)

\* The last piece ends its transmission.
Whole(pieces) ==
    pieces # <<>> => pieces[Len(pieces)].to = pieces[Len(pieces)].of.size

\* How many transmissions the first i pieces begin.
Beginnings(pieces, i) == Cardinality({j \in 1..i : pieces[j].from = 0})

\* Which piece of its transmission the i-th one is.
Ordinal(pieces, i) == Cardinality({j \in 1..i : \A m \in (j + 1)..i : pieces[m].from # 0})

\* Where the k-th fragment of these sizes ends.
Reach(sizes, k) == Total(SubSeq(sizes, 1, k))

\* The k-th piece of a transmission: from the end of the fragment before it to
\* its own end, which is that of the transmission if no size is listed for it.
Cut(piece, k) ==
    LET sizes == piece.of.fragmentSizes
        reach == IF k <= Len(sizes) THEN Reach(sizes, k) ELSE piece.of.size
    IN  /\ k \in 1..Len(sizes) + 1 /\ piece.from = Reach(sizes, k - 1)
        /\ piece.to = IF reach > piece.of.size THEN piece.of.size ELSE reach

\* Each piece is the next one of the transmission begun last.
AllCut(pieces, started) ==
    /\ Len(started) = Beginnings(pieces, Len(pieces))
    /\ \A i \in DOMAIN pieces :
         /\ Beginnings(pieces, i) \in DOMAIN started
         /\ started[Beginnings(pieces, i)] = pieces[i].of
         /\ Cut(pieces[i], Ordinal(pieces, i))

\* The last piece is of the active transmission and reaches its offset.
Midway(s) ==
    LET last == WirePieces(s)[Len(WirePieces(s))]
    IN  /\ s.activeTransmission # <<>> /\ WirePieces(s) # <<>>
        /\ last.of = Head(s.activeTransmission) /\ last.to = s.fragmentOffset
        /\ s.fragmentIndex = Ordinal(WirePieces(s), Len(WirePieces(s)))
        /\ 0 < s.fragmentOffset /\ s.fragmentOffset < Head(s.activeTransmission).size

\* What was written, and how far the transmission being written has come.
Wired(s) ==
    /\ AllProper(s.outputQueue) /\ AllProper(s.activeTransmission)
    /\ \A w \in DOMAIN s.wire : Agrees(s.wire[w])
    /\ Contiguous(WirePieces(s)) /\ AllCut(WirePieces(s), StartedTransmissions(s))
    /\ s.fragmentTimer => s.writing /\ Midway(s)
    /\ ~s.writing => Whole(WirePieces(s))

\* The window that is open is the one of the batch at the head of the queue.
Fresh(s) ==
    /\ ~s.coalesceWindowExpired
    /\ s.coalesceTimer =>
         /\ s.outputQueue # <<>> /\ ~s.writing
         /\ Head(s.outputQueue).coalesceCount > Len(s.outputQueue)

NoWindow(s) == ~s.coalesceTimer /\ ~s.coalesceWindowExpired

\* While the connection is open something will send what waits.
Flowing(s) ==
    s.client /\ ~s.closing =>
        /\ s.writing => s.fragmentTimer
        /\ s.outputQueue # <<>> => s.writing \/ s.coalesceTimer \/ s.outputCalls > 0

Settled(s) == Fresh(s) /\ Wired(s) /\ Flowing(s)

\* The fields Settled reads, but for closing and the posted calls.
SameOutput(s, t) ==
    /\ t.wire = s.wire /\ t.outputQueue = s.outputQueue
    /\ t.activeTransmission = s.activeTransmission /\ t.fragmentOffset = s.fragmentOffset
    /\ t.fragmentIndex = s.fragmentIndex
    /\ t.writing = s.writing /\ t.fragmentTimer = s.fragmentTimer
    /\ t.coalesceTimer = s.coalesceTimer /\ t.coalesceWindowExpired = s.coalesceWindowExpired

\* If the session is still attached, everything but its output is as it was.
Kept(s, t) ==
    t.client =>
        /\ s.client /\ (s.closing => t.closing)
        /\ t.sessionGeneration = s.sessionGeneration /\ t.sessionOrdinal = s.sessionOrdinal
        /\ t.requestQueue = s.requestQueue /\ t.received = s.received
        /\ t.processingRequest = s.processingRequest /\ t.requestCalls = s.requestCalls
        /\ t.delayed = s.delayed /\ t.disconnectScheduled = s.disconnectScheduled
        /\ t.telemetryTimer = s.telemetryTimer /\ t.telemetrySequence = s.telemetrySequence
        /\ t.randomSeed = s.randomSeed /\ t.randomDraws = s.randomDraws

\* short has members of long only, in the order they have there.
Thins(long, short) ==
    /\ Len(short) <= Len(long)
    /\ \A i \in DOMAIN short : \E k \in DOMAIN long : short[i] = long[k]
    /\ \A i, j \in DOMAIN short : i < j =>
         \E k, l \in DOMAIN long : k < l /\ short[i] = long[k] /\ short[j] = long[l]

\* What t still has to send, or has sent, of a line: all of it, or some if the
\* session is ending.
Sends(s, line, t) ==
    t.client =>
        /\ Outgoing(t) = line \/ (t.closing /\ Thins(line, Outgoing(t)))
        /\ Len(StartedTransmissions(s)) <= Len(StartedTransmissions(t))

-----------------------------------------------------------------------------
(* What is on the wire. *)

\* The transmissions begun by one write are transmissions.
LEMMA BegunType ==
    ASSUME NEW write \in Seq(Piece)
    PROVE  Begun(write) \in Seq(Transmission)
<1> DEFINE whole == [i \in DOMAIN write |-> write[i].of]
<1>1. PICK n \in Nat : write \in [1..n -> Piece]
  BY SeqDef
<1>2. \A i \in 1..n : write[i].of \in Transmission
  BY <1>1 DEF Piece
<1>3. whole \in [1..n -> Transmission]
  BY <1>1, <1>2
<1>4. whole \in Seq(Transmission)
  BY <1>3, SeqDef
<1> HIDE DEF whole
<1> QED
  BY <1>4 DEF Begun, whole

\* Write by write, the transmissions a wire began.
BegunBy(wire) == [w \in DOMAIN wire |-> Begun(wire[w])]

\* They are sequences of transmissions, as many as there are writes.
LEMMA BegunByType ==
    ASSUME NEW wire \in Seq(Seq(Piece))
    PROVE  /\ BegunBy(wire) \in Seq(Seq(Transmission))
           /\ Len(BegunBy(wire)) = Len(wire) /\ Len(wire) \in Nat
           /\ \A w \in 1..Len(wire) : BegunBy(wire)[w] = Begun(wire[w])
<1>1. wire \in [1..Len(wire) -> Seq(Piece)] /\ Len(wire) \in Nat
  BY LenProperties
<1>2. \A w \in 1..Len(wire) : Begun(wire[w]) \in Seq(Transmission)
  BY <1>1, BegunType
<1>3. BegunBy(wire) \in [1..Len(wire) -> Seq(Transmission)]
  BY <1>1, <1>2 DEF BegunBy
<1>4. BegunBy(wire) \in Seq(Seq(Transmission))
  <2>1. \A S : \A n \in Nat : [1..n -> S] \subseteq Seq(S)
    BY SeqDef
  <2> QED
    BY <1>1, <1>3, <2>1, Zenon
<1>5. \A w \in 1..Len(wire) : BegunBy(wire)[w] = Begun(wire[w])
  BY <1>1 DEF BegunBy
<1>6. Len(BegunBy(wire)) = Len(wire)
  BY <1>1, <1>3, <1>4, LenProperties
<1> QED
  BY <1>1, <1>4, <1>5, <1>6

\* The flattened wire and the transmissions it began are sequences.
LEMMA WireTypes ==
    ASSUME NEW s, s \in Server
    PROVE  /\ WirePieces(s) \in Seq(Piece)
           /\ StartedTransmissions(s) \in Seq(Transmission)
           /\ Outgoing(s) \in Seq(Transmission)
<1>1. s.wire \in Seq(Seq(Piece)) /\ s.outputQueue \in Seq(Transmission)
  BY FieldTypes
<1>2. WirePieces(s) \in Seq(Piece)
  BY <1>1, FlattenSeqType DEF WirePieces
<1>3. StartedTransmissions(s) \in Seq(Transmission)
  BY <1>1, BegunByType, FlattenSeqType DEF StartedTransmissions, BegunBy
<1>4. Outgoing(s) \in Seq(Transmission)
  BY <1>1, <1>3, ConcatProperties DEF Outgoing
<1> QED
  BY <1>2, <1>3, <1>4

\* A write adds its pieces, and what it begins.
LEMMA WriteWire ==
    ASSUME NEW s, s \in Server, NEW t, NEW pieces \in Seq(Piece),
           t.wire = Append(s.wire, pieces)
    PROVE  /\ WirePieces(t) = WirePieces(s) \o pieces
           /\ StartedTransmissions(t) = StartedTransmissions(s) \o Begun(pieces)
<1> DEFINE more == Append(s.wire, pieces)
           n == Len(s.wire)
<1>1. s.wire \in Seq(Seq(Piece)) /\ n \in Nat /\ Begun(pieces) \in Seq(Transmission)
  BY FieldTypes, LenProperties, BegunType
<1>2. /\ more \in Seq(Seq(Piece)) /\ Len(more) = n + 1 /\ more[n + 1] = pieces
      /\ \A w \in 1..n : more[w] = s.wire[w]
  BY <1>1, AppendProperties
<1>3. WirePieces(t) = WirePieces(s) \o pieces
  BY <1>1, FlattenSeqAppend DEF WirePieces
<1>4. BegunBy(more) = Append(BegunBy(s.wire), Begun(pieces))
  <2> DEFINE a == BegunBy(more)
             b == Append(BegunBy(s.wire), Begun(pieces))
  <2>1. /\ b \in Seq(Seq(Transmission)) /\ Len(b) = n + 1 /\ b[n + 1] = Begun(pieces)
        /\ \A w \in 1..n : b[w] = Begun(s.wire[w])
    BY <1>1, BegunByType, AppendProperties
  <2>2. /\ a \in Seq(Seq(Transmission)) /\ Len(a) = n + 1
        /\ \A w \in 1..(n + 1) : a[w] = Begun(more[w])
    BY <1>2, BegunByType
  <2>3. \A w \in 1..(n + 1) : w \in 1..n \/ w = n + 1
    BY <1>1
  <2> HIDE DEF a, b, more
  <2>4. \A w \in 1..Len(a) : a[w] = b[w]
    BY <1>2, <2>1, <2>2, <2>3
  <2>5. a = b
    BY <2>1, <2>2, <2>4, SeqEqual
  <2> QED
    BY <2>5 DEF a, b
<1>5. FlattenSeq(Append(BegunBy(s.wire), Begun(pieces))) =
        FlattenSeq(BegunBy(s.wire)) \o Begun(pieces)
  BY <1>1, BegunByType, FlattenSeqAppend
<1>6. StartedTransmissions(t) = FlattenSeq(BegunBy(more))
  BY DEF StartedTransmissions, BegunBy
<1>7. StartedTransmissions(s) = FlattenSeq(BegunBy(s.wire))
  BY DEF StartedTransmissions, BegunBy
<1> QED
  BY <1>3, <1>4, <1>5, <1>6, <1>7

\* What one more piece does to the counts.
LEMMA CountStep ==
    ASSUME NEW pieces, NEW i \in Nat \ {0}
    PROVE  /\ Ordinal(pieces, i - 1) \in Nat /\ Beginnings(pieces, i - 1) \in Nat
           /\ pieces[i].from = 0 =>
                /\ Ordinal(pieces, i) = 1
                /\ Beginnings(pieces, i) = Beginnings(pieces, i - 1) + 1
           /\ pieces[i].from # 0 =>
                /\ Ordinal(pieces, i) = Ordinal(pieces, i - 1) + 1
                /\ Beginnings(pieces, i) = Beginnings(pieces, i - 1)
<1> DEFINE B(k) == {j \in 1..k : pieces[j].from = 0}
           O(k) == {j \in 1..k : \A m \in (j + 1)..k : pieces[m].from # 0}
<1>1. ASSUME NEW S, S \subseteq 1..(i - 1)
      PROVE  IsFiniteSet(S) /\ Cardinality(S) \in Nat
  <2>1. IsFiniteSet(1..(i - 1))
    BY FS_Interval
  <2>2. IsFiniteSet(S)
    BY <1>1, <2>1, FS_Subset
  <2> QED
    BY <2>2, FS_CardinalityType
<1>2. /\ IsFiniteSet(B(i - 1)) /\ IsFiniteSet(O(i - 1))
      /\ Cardinality(B(i - 1)) \in Nat /\ Cardinality(O(i - 1)) \in Nat
  <2>1. B(i - 1) \subseteq 1..(i - 1) /\ O(i - 1) \subseteq 1..(i - 1)
    OBVIOUS
  <2> HIDE DEF B, O
  <2> QED
    BY <1>1, <2>1
<1>3. i \notin B(i - 1) /\ i \notin O(i - 1)
  OBVIOUS
<1>4. CASE pieces[i].from = 0
  <2>1. B(i) = B(i - 1) \cup {i}
    BY <1>4
  <2>2. O(i) = {i}
    <3>1. ASSUME NEW j \in O(i) PROVE j = i
      <4>1. j \in 1..i /\ \A m \in (j + 1)..i : pieces[m].from # 0
        OBVIOUS
      <4>2. i \notin (j + 1)..i
        BY <1>4, <4>1
      <4> QED
        BY <4>1, <4>2
    <3>2. i \in O(i)
      OBVIOUS
    <3> QED
      BY <3>1, <3>2
  <2> HIDE DEF B, O
  <2> QED
    BY <1>2, <1>3, <1>4, <2>1, <2>2, FS_AddElement, FS_Singleton DEF Beginnings, Ordinal, B, O
<1>5. CASE pieces[i].from # 0
  <2>1. B(i) = B(i - 1)
    BY <1>5
  <2>2. O(i) = O(i - 1) \cup {i}
    <3>1. ASSUME NEW j \in O(i), j # i PROVE j \in O(i - 1)
      <4>1. j \in 1..(i - 1) /\ (j + 1)..(i - 1) \subseteq (j + 1)..i
        BY <3>1
      <4> QED
        BY <4>1
    <3>2. ASSUME NEW j \in O(i - 1) PROVE j \in O(i)
      <4>1. j \in 1..i /\ \A m \in (j + 1)..i : m \in (j + 1)..(i - 1) \/ m = i
        OBVIOUS
      <4> QED
        BY <1>5, <4>1
    <3>3. i \in O(i)
      OBVIOUS
    <3> QED
      BY <3>1, <3>2, <3>3
  <2> HIDE DEF B, O
  <2> QED
    BY <1>2, <1>3, <1>5, <2>1, <2>2, FS_AddElement DEF Beginnings, Ordinal, B, O
<1> QED
  BY <1>2, <1>4, <1>5 DEF Beginnings, Ordinal

\* The counts of a piece depend on the pieces up to it.
LEMMA CountSame ==
    ASSUME NEW a, NEW c, NEW i \in Nat, \A j \in 1..i : a[j] = c[j]
    PROVE  Ordinal(c, i) = Ordinal(a, i) /\ Beginnings(c, i) = Beginnings(a, i)
<1>1. {j \in 1..i : a[j].from = 0} = {j \in 1..i : c[j].from = 0}
  OBVIOUS
<1>2. {j \in 1..i : \A m \in (j + 1)..i : a[m].from # 0} =
        {j \in 1..i : \A m \in (j + 1)..i : c[m].from # 0}
  OBVIOUS
<1> QED
  BY <1>1, <1>2 DEF Ordinal, Beginnings

\* Transmissions that begin after a wire.
LEMMA BegunCut ==
    ASSUME NEW a \in Seq(Piece), NEW x \in Seq(Transmission), AllCut(a, x),
           NEW b \in Seq(Piece), NEW y \in Seq(Transmission), Len(y) = Len(b),
           \A i \in 1..Len(b) : b[i].from = 0 /\ b[i].of = y[i] /\ Cut(b[i], 1)
    PROVE  AllCut(a \o b, x \o y)
<1> DEFINE c == a \o b
           z == x \o y
           m == Len(a)
           n == Len(b)
           l == Len(x)
<1>1. /\ m \in Nat /\ n \in Nat /\ l \in Nat /\ DOMAIN a = 1..m /\ DOMAIN x = 1..l
      /\ DOMAIN y = 1..n
  OBVIOUS
<1>2. /\ DOMAIN c = 1..(m + n) /\ Len(c) = m + n
      /\ \A i \in 1..m : c[i] = a[i]
      /\ \A i \in 1..n : c[m + i] = b[i]
  OBVIOUS
<1>3. /\ DOMAIN z = 1..(l + n) /\ Len(z) = l + n
      /\ \A i \in 1..l : z[i] = x[i]
      /\ \A i \in 1..n : z[l + i] = y[i]
  BY SMTT(20)
<1>4. l = Beginnings(a, m)
  BY DEF AllCut
<1> DEFINE S == {k \in Nat : k <= n => Beginnings(c, m + k) = l + k}
<1> HIDE DEF c, z, m, n, l
<1>5. \A i \in 0..m : Ordinal(c, i) = Ordinal(a, i) /\ Beginnings(c, i) = Beginnings(a, i)
  <2> SUFFICES ASSUME NEW i \in 0..m
               PROVE  Ordinal(c, i) = Ordinal(a, i) /\ Beginnings(c, i) = Beginnings(a, i)
    OBVIOUS
  <2>1. i \in Nat /\ \A j \in 1..i : a[j] = c[j]
    BY <1>1, <1>2
  <2> QED
    BY <2>1, CountSame, Zenon
<1>6. ASSUME NEW k \in 1..n
      PROVE  /\ Ordinal(c, m + k) = 1
             /\ Beginnings(c, m + k) = Beginnings(c, m + (k - 1)) + 1
  <2>1. m + k \in Nat \ {0} /\ (m + k) - 1 = m + (k - 1)
    BY <1>1
  <2>2. c[m + k].from = 0
    <3>1. c[m + k] = b[k] /\ b[k].from = 0
      BY <1>2 DEF n
    <3> QED
      BY <3>1
  <2> QED
    BY <2>1, <2>2, CountStep
<1>7. \A k \in 0..n : Beginnings(c, m + k) = l + k
  <2>1. 0 \in S
    <3>1. m + 0 = m /\ m \in 0..m /\ l + 0 = l
      BY <1>1
    <3> QED
      BY <1>4, <1>5, <3>1
  <2>2. ASSUME NEW k \in Nat, k \in S PROVE k + 1 \in S
    <3> SUFFICES ASSUME k + 1 <= n PROVE Beginnings(c, m + (k + 1)) = l + (k + 1)
      OBVIOUS
    <3> DEFINE j == k + 1
    <3>1. j \in 1..n /\ m + (j - 1) = m + k /\ k <= n
      BY <1>1
    <3> HIDE DEF j
    <3>2. Beginnings(c, m + j) = Beginnings(c, m + (j - 1)) + 1
      BY <1>6, <3>1, Zenon
    <3>3. Beginnings(c, m + k) = l + k
      BY <2>2, <3>1
    <3>4. Beginnings(c, m + j) = (l + k) + 1
      BY <3>1, <3>2, <3>3, Zenon
    <3>5. (l + k) + 1 = l + j
      BY <1>1 DEF j
    <3> QED
      BY <3>4, <3>5, Zenon DEF j
  <2> HIDE DEF S
  <2>3. Nat \subseteq S
    BY <2>1, <2>2, Induction
  <2> QED
    BY <1>1, <2>3 DEF S
<1>8. ASSUME NEW i \in 1..(m + n)
      PROVE  /\ Beginnings(c, i) \in DOMAIN z /\ z[Beginnings(c, i)] = c[i].of
             /\ Cut(c[i], Ordinal(c, i))
  <2>1. CASE i <= m
    <3>1. i \in DOMAIN a /\ i \in 0..m /\ c[i] = a[i]
      BY <1>1, <1>2, <2>1
    <3>2. /\ Beginnings(a, i) \in 1..l /\ x[Beginnings(a, i)] = a[i].of
          /\ Cut(a[i], Ordinal(a, i))
      BY <1>1, <3>1 DEF AllCut
    <3> QED
      BY <1>1, <1>3, <1>5, <3>1, <3>2
  <2>2. CASE i > m
    <3> DEFINE k == i - m
    <3>1. k \in 1..n /\ k \in 0..n /\ i = m + k
      BY <1>1, <2>2
    <3> HIDE DEF k
    <3>2. /\ c[i] = b[k] /\ b[k].of = y[k] /\ Cut(b[k], 1) /\ Ordinal(c, i) = 1
          /\ Beginnings(c, i) = l + k /\ l + k \in 1..(l + n)
      BY <1>1, <1>2, <1>6, <1>7, <3>1 DEF n
    <3> QED
      BY <1>3, <3>1, <3>2
  <2> QED
    BY <1>1, <2>1, <2>2
<1>9. Len(z) = Beginnings(c, Len(c))
  <2>1. n \in 0..n
    BY <1>1
  <2> QED
    BY <1>2, <1>3, <1>7, <2>1
<1>10. AllCut(c, z)
  BY <1>2, <1>8, <1>9 DEF AllCut
<1> QED
  BY <1>10 DEF c, z

\* A piece that continues the last one of a wire.
LEMMA ContinuedCut ==
    ASSUME NEW a \in Seq(Piece), NEW x \in Seq(Transmission), AllCut(a, x),
           NEW p \in Piece, a # <<>>, p.from # 0, p.of = a[Len(a)].of,
           Cut(p, Ordinal(a, Len(a)) + 1)
    PROVE  AllCut(a \o <<p>>, x)
<1> DEFINE c == a \o <<p>>
           m == Len(a)
<1>1. m \in Nat /\ m >= 1 /\ DOMAIN a = 1..m
  OBVIOUS
<1>2. /\ DOMAIN c = 1..(m + 1) /\ Len(c) = m + 1
      /\ \A i \in 1..m : c[i] = a[i]
      /\ c[m + 1] = p
  OBVIOUS
<1> HIDE DEF c
<1>3. /\ m + 1 \in Nat \ {0} /\ (m + 1) - 1 = m /\ m \in DOMAIN a
  BY <1>1
<1>4. /\ Len(x) = Beginnings(a, m)
      /\ \A i \in 1..m : /\ Beginnings(a, i) \in DOMAIN x /\ x[Beginnings(a, i)] = a[i].of
                          /\ Cut(a[i], Ordinal(a, i))
  BY <1>1 DEF AllCut
<1>5. \A i \in 1..m : Ordinal(c, i) = Ordinal(a, i) /\ Beginnings(c, i) = Beginnings(a, i)
  BY <1>1, <1>2, CountSame
<1>6. Ordinal(c, m + 1) = Ordinal(a, m) + 1 /\ Beginnings(c, m + 1) = Beginnings(a, m)
  <2>1. c[m + 1].from # 0
    BY <1>2
  <2>2. /\ Ordinal(c, m + 1) = Ordinal(c, (m + 1) - 1) + 1
        /\ Beginnings(c, m + 1) = Beginnings(c, (m + 1) - 1)
    BY <1>3, <2>1, CountStep
  <2>3. m \in 1..m
    BY <1>1
  <2> QED
    BY <1>3, <1>5, <2>2, <2>3
<1>7. ASSUME NEW i \in 1..(m + 1)
      PROVE  /\ Beginnings(c, i) \in DOMAIN x /\ x[Beginnings(c, i)] = c[i].of
             /\ Cut(c[i], Ordinal(c, i))
  <2>1. CASE i \in 1..m
    BY <1>2, <1>4, <1>5, <2>1
  <2>2. CASE i = m + 1
    BY <1>1, <1>2, <1>3, <1>4, <1>6, <2>2 DEF m
  <2> QED
    BY <1>1, <2>1, <2>2
<1> HIDE DEF m
<1>8. AllCut(c, x)
  BY <1>2, <1>4, <1>6, <1>7 DEF AllCut
<1> QED
  BY <1>8 DEF c

\* Nothing is cut yet when nothing is written.
LEMMA NoneCut == AllCut(<<>>, <<>>)
<1>1. 1..0 = {}
  OBVIOUS
<1>2. Beginnings(<<>>, 0) = 0
  BY <1>1, FS_EmptySet DEF Beginnings
<1> QED
  BY <1>2 DEF AllCut

\* Where the fragments end.
LEMMA ReachStep ==
    ASSUME NEW sizes \in Seq(Nat)
    PROVE  /\ Reach(sizes, 0) = 0
           /\ \A k \in 0..Len(sizes) : Reach(sizes, k) \in Nat
           /\ \A k \in 1..Len(sizes) : Reach(sizes, k) = Reach(sizes, k - 1) + sizes[k]
           /\ Reach(sizes, Len(sizes)) = Total(sizes)
<1>1. \A t : Total(t) = SumOf(t)
  BY DEF Total, SumOf
<1>2. SubSeq(sizes, 1, 0) = <<>> /\ SubSeq(sizes, 1, Len(sizes)) = sizes
  OBVIOUS
<1>3. ASSUME NEW k \in 0..Len(sizes) PROVE SubSeq(sizes, 1, k) \in Seq(Nat)
  OBVIOUS
<1>4. ASSUME NEW k \in 1..Len(sizes)
      PROVE  Reach(sizes, k) = Reach(sizes, k - 1) + sizes[k]
  <2> DEFINE short == SubSeq(sizes, 1, k - 1)
  <2>1. short \in Seq(Nat) /\ sizes[k] \in Nat
    BY <1>3
  <2>2. SubSeq(sizes, 1, k) = Append(short, sizes[k])
    OBVIOUS
  <2> HIDE DEF short
  <2>3. SumOf(Append(short, sizes[k])) = SumOf(short) + sizes[k]
    BY <2>1, SumAppend
  <2> QED
    BY <1>1, <2>2, <2>3 DEF Reach, short
<1>5. ASSUME NEW k \in 0..Len(sizes) PROVE Reach(sizes, k) \in Nat
  BY <1>1, <1>3, SumType DEF Reach
<1> QED
  BY <1>1, <1>2, <1>4, <1>5, SumOfNone DEF Reach

\* Lines of transmissions concatenate in any order.
LEMMA LinesConcat ==
    \A a, b, c \in Seq(Transmission) : (a \o b) \o c = a \o (b \o c)
<1> DEFINE T == Transmission
<1> HIDE DEF T
<1> SUFFICES \A a, b, c \in Seq(T) : (a \o b) \o c = a \o (b \o c)
  BY DEF T
<1> TAKE a, b, c \in Seq(T)
<1>1. /\ a \in Seq(T) /\ b \in Seq(T) /\ a \o b \in Seq(T) /\ b \o c \in Seq(T)
  BY ConcatProperties
<1> DEFINE l == (a \o b) \o c
           r == a \o (b \o c)
<1>2. /\ l \in Seq(T) /\ r \in Seq(T)
  BY <1>1, ConcatProperties
<1>3. Len(l) = Len(r) /\ \A i \in 1..Len(l) : l[i] = r[i]
  BY <1>1
<1> HIDE DEF l, r
<1>4. l = r
  BY <1>2, <1>3, SeqEqual
<1> QED
  BY <1>4 DEF l, r

\* A line without some of what followed its beginning is thinner.
LEMMA ThinsSuffix ==
    ASSUME NEW T, NEW head \in Seq(T), NEW long \in Seq(T), NEW short \in Seq(T), NEW n \in Nat,
           /\ Len(long) = Len(short) + n
           /\ \A i \in 1..Len(short) : short[i] = long[i + n]
    PROVE  Thins(head \o long, head \o short)
<1> DEFINE h == Len(head)
           k == Len(short)
           a == head \o long
           b == head \o short
<1>1. h \in Nat /\ k \in Nat
  OBVIOUS
<1>2. /\ DOMAIN a = 1..(h + k + n) /\ Len(a) = h + k + n
      /\ \A i \in 1..(h + k + n) : a[i] = IF i <= h THEN head[i] ELSE long[i - h]
  <2>1. /\ a \in Seq(T) /\ Len(a) = h + Len(long)
        /\ \A i \in 1..(h + Len(long)) : a[i] = IF i <= h THEN head[i] ELSE long[i - h]
    BY ConcatProperties
  <2>2. h + Len(long) = h + k + n
    BY <1>1
  <2>3. DOMAIN a = 1..Len(a)
    BY <2>1
  <2> HIDE DEF a, h, k
  <2> QED
    BY <2>1, <2>2, <2>3
<1>3. /\ DOMAIN b = 1..(h + k) /\ Len(b) = h + k
      /\ \A i \in 1..(h + k) : b[i] = IF i <= h THEN head[i] ELSE short[i - h]
  BY ConcatProperties
<1> DEFINE at(i) == IF i <= h THEN i ELSE i + n
<1>4. ASSUME NEW i \in 1..(h + k) PROVE at(i) \in 1..(h + k + n) /\ b[i] = a[at(i)]
  <2>1. CASE i <= h
    BY <1>1, <1>2, <1>3, <2>1
  <2>2. CASE i > h
    <3>1. i - h \in 1..k /\ i + n \in 1..(h + k + n) /\ (i + n) - h = (i - h) + n
      BY <1>1, <2>2
    <3>2. ~(i + n <= h) /\ ~(i <= h)
      BY <1>1, <2>2
    <3>3. b[i] = short[i - h] /\ a[i + n] = long[(i - h) + n]
      BY <1>2, <1>3, <3>1, <3>2
    <3> QED
      BY <3>1, <3>2, <3>3
  <2> QED
    BY <1>1, <2>1, <2>2
<1>5. \A i, j \in 1..(h + k) : i < j => at(i) < at(j)
  BY <1>1
<1> HIDE DEF a, b, at
<1>6. Len(b) <= Len(a)
  BY <1>1, <1>2, <1>3
<1>7. \A i \in DOMAIN b : \E m \in DOMAIN a : b[i] = a[m]
  BY <1>2, <1>3, <1>4
<1>8. ASSUME NEW i \in DOMAIN b, NEW j \in DOMAIN b, i < j
      PROVE  \E m, l \in DOMAIN a : m < l /\ b[i] = a[m] /\ b[j] = a[l]
  <2>1. at(i) \in DOMAIN a /\ at(j) \in DOMAIN a
    BY <1>2, <1>3, <1>4
  <2>2. at(i) < at(j) /\ b[i] = a[at(i)] /\ b[j] = a[at(j)]
    BY <1>3, <1>4, <1>5, <1>8
  <2> QED
    BY <2>1, <2>2
<1>9. Thins(a, b)
  BY <1>6, <1>7, <1>8 DEF Thins
<1> QED
  BY <1>9 DEF a, b

\* What the output predicates read decides them.
LEMMA SameOutputFacts ==
    ASSUME NEW s, NEW t, SameOutput(s, t)
    PROVE  /\ WirePieces(t) = WirePieces(s)
           /\ StartedTransmissions(t) = StartedTransmissions(s)
           /\ Outgoing(t) = Outgoing(s)
           /\ Wired(s) => Wired(t)
           /\ Fresh(s) => Fresh(t)
           /\ NoWindow(s) => NoWindow(t)
<1>1. /\ WirePieces(t) = WirePieces(s) /\ StartedTransmissions(t) = StartedTransmissions(s)
      /\ Outgoing(t) = Outgoing(s)
  BY DEF SameOutput, WirePieces, StartedTransmissions, Outgoing
<1>2. Fresh(s) => Fresh(t)
  BY DEF SameOutput, Fresh
<1>3. Midway(s) => Midway(t)
  BY <1>1 DEF SameOutput, Midway
<1>4. Wired(s) => Wired(t)
  BY <1>1, <1>3 DEF SameOutput, Wired
<1> QED
  BY <1>1, <1>2, <1>4 DEF SameOutput, NoWindow

\* Nothing is on the wire of a session that has just begun.
LEMMA EmptyWire ==
    ASSUME NEW s, s.wire = <<>>
    PROVE  WirePieces(s) = <<>> /\ StartedTransmissions(s) = <<>>
<1>1. FlattenSeq(<<>>) = <<>>
  BY DEF FlattenSeq
<1>2. [w \in DOMAIN s.wire |-> Begun(s.wire[w])] = <<>>
  OBVIOUS
<1> QED
  BY <1>1, <1>2 DEF WirePieces, StartedTransmissions

\* Without a client there is nothing to send.
LEMMA ReleasedSettled ==
    ASSUME NEW s, Inv(s), ~s.client
    PROVE  Settled(s) /\ NoWindow(s) /\ Outgoing(s) = <<>>
<1>1. /\ s.outputQueue = <<>> /\ s.activeTransmission = <<>> /\ s.wire = <<>>
      /\ ~s.coalesceTimer /\ ~s.fragmentTimer /\ ~s.writing /\ ~s.coalesceWindowExpired
  BY DEF Inv, Quiet
<1>2. WirePieces(s) = <<>> /\ StartedTransmissions(s) = <<>>
  BY <1>1, EmptyWire
<1>3. Outgoing(s) = <<>>
  BY <1>1, <1>2 DEF Outgoing
<1>4. Fresh(s) /\ NoWindow(s) /\ Flowing(s)
  BY <1>1 DEF Fresh, NoWindow, Flowing
<1>5. Wired(s)
  BY <1>1, <1>2, NoneCut DEF Wired, AllProper, Contiguous, Whole
<1> QED
  BY <1>3, <1>4, <1>5 DEF Settled

\* A session that is over is not attached.
LEMMA DisconnectedClient ==
    ASSUME NEW s
    PROVE  ~ReleaseClient(s).client /\ ~HandleClientDisconnected(s).client
BY DEF ReleaseClient, HandleClientDisconnected

\* disconnectFromHost leaves the session closing with its output as it was, or
\* ends it (DeviceSimulatorServer.cpp:502, 598, 635, 719).
LEMMA DisconnectOutput ==
    ASSUME NEW s, Inv(s), Fresh(s), Wired(s)
    PROVE  /\ Settled(DisconnectFromHost(s)) /\ Kept(s, DisconnectFromHost(s))
           /\ DisconnectFromHost(s).client =>
                  DisconnectFromHost(s).closing /\ SameOutput(s, DisconnectFromHost(s))
<1> DEFINE t == DisconnectFromHost(s)
<1>1. CASE s.unsent
  <2>1. t = [s EXCEPT !.closing = TRUE]
    BY <1>1 DEF DisconnectFromHost
  <2>2. t.closing /\ SameOutput(s, t) /\ Kept(s, t)
    BY <2>1 DEF Inv, Server, SameOutput, Kept
  <2> HIDE DEF t
  <2>3. Settled(t)
    BY <2>2, SameOutputFacts DEF Settled, Flowing
  <2> QED
    BY <2>2, <2>3 DEF t
<1>2. CASE ~s.unsent
  <2>1. ~t.client /\ Inv(t)
    BY <1>2, DisconnectedClient, DisconnectInv DEF DisconnectFromHost
  <2> HIDE DEF t
  <2>2. Settled(t) /\ Kept(s, t)
    BY <2>1, ReleasedSettled DEF Kept
  <2> QED
    BY <2>1, <2>2 DEF t
<1> QED
  BY <1>1, <1>2

\* What comes after a wire follows its last piece.
Joins(pieces, piece) ==
    LET last == pieces[Len(pieces)]
    IN  IF pieces = <<>> \/ last.to = last.of.size
        THEN piece.from = 0
        ELSE piece.of = last.of /\ piece.from = last.to

\* Pieces that follow a contiguous wire, of which only the first may continue a
\* transmission, make a contiguous wire.
LEMMA ContiguousConcat ==
    ASSUME NEW a \in Seq(Piece), NEW b \in Seq(Piece), Contiguous(a), b # <<>>,
           Joins(a, b[1]),
           \A i \in 2..Len(b) : b[i - 1].to = b[i - 1].of.size /\ b[i].from = 0
    PROVE  /\ Contiguous(a \o b)
           /\ a \o b # <<>> /\ (a \o b)[Len(a \o b)] = b[Len(b)]
<1> DEFINE c == a \o b
           m == Len(a)
           n == Len(b)
<1>1. m \in Nat /\ n \in Nat /\ n >= 1 /\ DOMAIN a = 1..m /\ (a = <<>> <=> m = 0)
  OBVIOUS
<1>2. /\ DOMAIN c = 1..(m + n) /\ Len(c) = m + n
      /\ \A i \in 1..(m + n) : c[i] = IF i <= m THEN a[i] ELSE b[i - m]
  BY ConcatProperties
<1>3. \A i \in 1..m : Follows(a, i)
  BY <1>1 DEF Contiguous
<1> HIDE DEF c, m, n
<1>4. ASSUME NEW i \in 1..(m + n) PROVE Follows(c, i)
  <2>1. CASE i <= m
    <3>1. c[i] = a[i] /\ (i # 1 => c[i - 1] = a[i - 1])
      BY <1>1, <1>2, <2>1
    <3>2. Follows(a, i)
      BY <1>1, <1>3, <2>1
    <3> QED
      BY <3>1, <3>2 DEF Follows
  <2>2. CASE i = m + 1
    <3>1. c[i] = b[1] /\ (i = 1 <=> a = <<>>) /\ (i # 1 => c[i - 1] = a[m])
      <4>1. ~(i <= m) /\ i - m = 1
        BY <1>1, <2>2
      <4>2. c[i] = b[1]
        BY <1>2, <4>1
      <4>3. i = 1 <=> m = 0
        BY <1>1, <2>2
      <4>4. i # 1 => i - 1 = m /\ i - 1 \in 1..(m + n) /\ i - 1 <= m
        BY <1>1, <2>2
      <4> QED
        BY <1>1, <1>2, <4>2, <4>3, <4>4
    <3> QED
      BY <3>1 DEF Follows, Joins, m
  <2>3. CASE i > m + 1
    <3> DEFINE j == i - m
    <3>1. j \in 2..n /\ i # 1 /\ ~(i <= m) /\ ~(i - 1 <= m) /\ i - 1 \in 1..(m + n)
          /\ (i - 1) - m = j - 1
      BY <1>1, <2>3
    <3>2. c[i] = b[j] /\ c[i - 1] = b[j - 1]
      BY <1>2, <3>1
    <3> HIDE DEF j
    <3>3. b[j - 1].to = b[j - 1].of.size /\ b[j].from = 0
      BY <3>1 DEF n
    <3> QED
      BY <3>1, <3>2, <3>3 DEF Follows
  <2> QED
    BY <1>1, <2>1, <2>2, <2>3
<1>5. Contiguous(c)
  BY <1>2, <1>4 DEF Contiguous
<1>6. c # <<>> /\ c[Len(c)] = b[n]
  <2>1. m + n \in 1..(m + n) /\ ~(m + n <= m) /\ (m + n) - m = n
    BY <1>1
  <2> QED
    BY <1>2, <2>1
<1> QED
  BY <1>5, <1>6 DEF c, n

-----------------------------------------------------------------------------
(* Writing. *)

\* The active transmission is to be begun.
Begins(s) == s.fragmentOffset = 0 /\ s.fragmentIndex = 0 /\ Whole(WirePieces(s))

\* The line while the active transmission is being written.
FullLine(s) ==
    StartedTransmissions(s) \o
        (IF s.fragmentOffset = 0 THEN <<Head(s.activeTransmission)>> \o s.outputQueue
         ELSE s.outputQueue)

\* What is called before a fragment is written.
Writing(s) ==
    /\ Inv(s) /\ s.client /\ NoWindow(s) /\ Wired(s)
    /\ s.writing /\ ~s.fragmentTimer /\ s.activeTransmission # <<>>
    /\ Begins(s) \/ Midway(s)

\* A fragment is the next piece of the active transmission, cut where its sizes say.
LEMMA FragmentCut ==
    ASSUME NEW s, Writing(s)
    PROVE  Cut(Fragment(s), s.fragmentIndex + 1)
<1> DEFINE active == Head(s.activeTransmission)
           sizes == active.fragmentSizes
           k == s.fragmentIndex
           n == Len(sizes)
<1>1. /\ active \in Transmission /\ s.fragmentOffset \in Nat /\ k \in Nat
      /\ WirePieces(s) \in Seq(Piece)
  BY FragmentTypes, FieldTypes, WireTypes DEF Writing, Inv
<1>2. active.size \in Nat /\ sizes \in Seq(Nat) /\ n \in Nat
  BY <1>1, LenProperties DEF Transmission
<1>3. /\ Reach(sizes, 0) = 0
      /\ \A i \in 0..n : Reach(sizes, i) \in Nat
      /\ \A i \in 1..n : Reach(sizes, i) = Reach(sizes, i - 1) + sizes[i]
  BY <1>2, ReachStep
<1>4. /\ Fragment(s).of = active /\ Fragment(s).from = s.fragmentOffset
      /\ Fragment(s).to = FragmentEnd(s)
      /\ Listed(s) <=> k < n
      /\ FragmentSize(s) = IF Listed(s) THEN sizes[k + 1] ELSE Remaining(s)
      /\ FragmentEnd(s) = s.fragmentOffset
             + (IF FragmentSize(s) > Remaining(s) THEN Remaining(s) ELSE FragmentSize(s))
      /\ Remaining(s) = active.size - s.fragmentOffset
  BY DEF Fragment, FragmentEnd, FragmentSize, Listed, Remaining
<1> HIDE DEF active, sizes, k, n
<1>5. k \in 0..n /\ s.fragmentOffset = Reach(sizes, k) /\ s.fragmentOffset <= active.size
  <2>1. CASE Begins(s)
    BY <1>1, <1>2, <1>3, <2>1 DEF Begins, k
  <2>2. CASE Midway(s)
    <3> DEFINE pieces == WirePieces(s)
               last == pieces[Len(pieces)]
    <3>1. /\ last.of = active /\ last.to = s.fragmentOffset /\ k = Ordinal(pieces, Len(pieces))
          /\ s.fragmentOffset < active.size /\ pieces # <<>>
      BY <2>2 DEF Midway, active, k
    <3>2. Len(pieces) \in DOMAIN pieces
      BY <1>1, <3>1
    <3> HIDE DEF pieces
    <3>3. Cut(last, k)
      BY <3>1, <3>2 DEF Writing, Wired, AllCut, pieces
    <3> HIDE DEF last
    <3>4. /\ k \in 1..n + 1
          /\ s.fragmentOffset = LET reach == IF k <= n THEN Reach(sizes, k) ELSE active.size
                                IN  IF reach > active.size THEN active.size ELSE reach
      BY <3>1, <3>3 DEF Cut, sizes, n
    <3>5. k <= n
      BY <1>1, <1>2, <3>1, <3>4
    <3> DEFINE reach == Reach(sizes, k)
    <3>6. s.fragmentOffset = IF reach > active.size THEN active.size ELSE reach
      BY <3>4, <3>5
    <3>7. k \in 0..n /\ reach \in Nat
      BY <1>1, <1>2, <1>3, <3>4, <3>5
    <3> HIDE DEF reach, k
    <3>8. s.fragmentOffset = reach /\ s.fragmentOffset <= active.size
      BY <1>1, <1>2, <3>1, <3>6, <3>7
    <3> QED
      BY <3>7, <3>8 DEF reach
  <2> QED
    BY <2>1, <2>2 DEF Writing
<1> DEFINE reach == IF k + 1 <= n THEN Reach(sizes, k + 1) ELSE active.size
<1>6. FragmentEnd(s) = IF reach > active.size THEN active.size ELSE reach
  <2>1. CASE k < n
    <3>1. k + 1 \in 1..n /\ (k + 1) - 1 = k /\ k + 1 <= n
      BY <1>1, <1>2, <2>1
    <3>2. reach = s.fragmentOffset + sizes[k + 1] /\ sizes[k + 1] \in Nat
      BY <1>2, <1>3, <1>5, <3>1 DEF n
    <3> HIDE DEF reach
    <3> QED
      BY <1>1, <1>2, <1>4, <1>5, <2>1, <3>2
  <2>2. CASE ~(k < n)
    BY <1>1, <1>2, <1>4, <1>5, <2>2
  <2> QED
    BY <2>1, <2>2
<1>7. k + 1 \in 1..n + 1 /\ (k + 1) - 1 = k
  BY <1>1, <1>2, <1>5
<1> QED
  BY <1>4, <1>5, <1>6, <1>7 DEF Cut, sizes, n, k

\* Writing a fragment extends the wire by a piece that follows it.
LEMMA FragmentWire ==
    ASSUME NEW s, Writing(s)
    PROVE  LET w == Written(s, TRUE)
           IN  /\ WirePieces(w) = WirePieces(s) \o <<Fragment(s)>>
               /\ Contiguous(WirePieces(w)) /\ WirePieces(w) # <<>>
               /\ WirePieces(w)[Len(WirePieces(w))] = Fragment(s)
               /\ AllCut(WirePieces(w), StartedTransmissions(w))
               /\ Ordinal(WirePieces(w), Len(WirePieces(w))) = s.fragmentIndex + 1
               /\ Outgoing(w) = FullLine(s)
               /\ Len(StartedTransmissions(s)) <= Len(StartedTransmissions(w))
<1> DEFINE w == Written(s, TRUE)
           active == Head(s.activeTransmission)
           begun == Begun(<<Fragment(s)>>)
           start == StartedTransmissions(s)
<1>1. /\ Inv(s) /\ s \in Server /\ s.client /\ s.activeTransmission # <<>>
      /\ s.fragmentOffset \in Nat
  BY FieldTypes DEF Writing, Inv
<1>2. Fragment(s) \in Piece /\ active \in Transmission /\ s.outputQueue \in Seq(Transmission)
  BY <1>1, FragmentTypes, FieldTypes
<1>3. /\ w.wire = Append(s.wire, <<Fragment(s)>>) /\ w.outputQueue = s.outputQueue
  BY <1>1 DEF Written, Write, Indexed, Server
<1>4. /\ WirePieces(w) = WirePieces(s) \o <<Fragment(s)>>
      /\ StartedTransmissions(w) = start \o begun
  <2>1. <<Fragment(s)>> \in Seq(Piece)
    BY <1>2
  <2> HIDE DEF w
  <2> QED
    BY <1>1, <1>3, <2>1, WriteWire
<1>5. Fragment(s).of = active /\ Fragment(s).from = s.fragmentOffset
  BY DEF Fragment
<1>6. begun = IF s.fragmentOffset = 0 THEN <<active>> ELSE <<>>
  BY <1>5 DEF Begun
<1>7. start \in Seq(Transmission) /\ WirePieces(s) \in Seq(Piece)
  BY <1>1, WireTypes
<1> HIDE DEF w, active, begun, start
<1>8. Joins(WirePieces(s), Fragment(s))
  <2>1. CASE Begins(s)
    BY <1>5, <2>1 DEF Begins, Whole, Joins
  <2>2. CASE Midway(s)
    <3>1. active.size \in Nat
      BY <1>2 DEF Transmission
    <3>2. s.fragmentOffset < active.size /\ s.fragmentOffset # active.size
      BY <1>1, <2>2, <3>1 DEF Midway, active
    <3> QED
      BY <1>5, <2>2, <3>2 DEF Midway, Joins, active
  <2> QED
    BY <2>1, <2>2 DEF Writing
<1>9. /\ Contiguous(WirePieces(w)) /\ WirePieces(w) # <<>>
      /\ WirePieces(w)[Len(WirePieces(w))] = Fragment(s)
  <2> DEFINE b == <<Fragment(s)>>
  <2>1. b \in Seq(Piece) /\ b # <<>> /\ b[1] = Fragment(s) /\ Len(b) = 1
    BY <1>2
  <2>2. Contiguous(WirePieces(s))
    BY DEF Writing, Wired
  <2> HIDE DEF b
  <2>3. \A i \in 2..Len(b) : b[i - 1].to = b[i - 1].of.size /\ b[i].from = 0
    BY <2>1
  <2>4. /\ Contiguous(WirePieces(s) \o b) /\ WirePieces(s) \o b # <<>>
        /\ (WirePieces(s) \o b)[Len(WirePieces(s) \o b)] = b[Len(b)]
    BY <1>7, <1>8, <2>1, <2>2, <2>3, ContiguousConcat
  <2> QED
    BY <1>4, <2>1, <2>4 DEF b
<1>10. begun \in Seq(Transmission)
  BY <1>2, <1>6
<1>11. Outgoing(w) = FullLine(s)
  <2>1. Outgoing(w) = (start \o begun) \o s.outputQueue
    BY <1>3, <1>4 DEF Outgoing
  <2>2. (start \o begun) \o s.outputQueue = start \o (begun \o s.outputQueue)
    BY <1>2, <1>7, <1>10, LinesConcat, Zenon
  <2>3. <<>> \o s.outputQueue = s.outputQueue
    BY <1>2, ConcatEmptySeq
  <2> QED
    BY <1>6, <2>1, <2>2, <2>3 DEF FullLine, start, active
<1>12. Len(start) <= Len(StartedTransmissions(w))
  BY <1>4, <1>7, <1>10, ConcatProperties
<1> DEFINE a == WirePieces(s)
           c == WirePieces(w)
           p == Fragment(s)
<1>13. /\ AllCut(a, start) /\ Cut(p, s.fragmentIndex + 1)
       /\ s.fragmentIndex \in Nat /\ Len(a) \in Nat
       /\ Len(c) = Len(a) + 1 /\ c[Len(c)] = p /\ \A i \in 1..Len(a) : c[i] = a[i]
  <2>1. AllCut(a, start) /\ Cut(p, s.fragmentIndex + 1) /\ s.fragmentIndex \in Nat
    BY <1>1, FragmentCut, FieldTypes DEF Writing, Wired, start
  <2> QED
    BY <1>2, <1>4, <1>7, <1>9, <2>1
<1> HIDE DEF a, c, p
<1>14. /\ Len(c) \in Nat \ {0} /\ Len(c) - 1 = Len(a)
       /\ Ordinal(c, Len(a)) = Ordinal(a, Len(a))
  BY <1>13, CountSame
<1>15. ASSUME s.fragmentOffset = 0
       PROVE  AllCut(c, StartedTransmissions(w)) /\ Ordinal(c, Len(c)) = s.fragmentIndex + 1
  <2>1. s.fragmentIndex = 0
    BY <1>1, <1>15 DEF Writing, Begins, Midway
  <2>2. p.from = 0 /\ p.of = active
    BY <1>5, <1>15 DEF p
  <2>3. Ordinal(c, Len(c)) = 1
    BY <1>13, <1>14, <2>2, CountStep
  <2>4. AllCut(a \o <<p>>, start \o <<active>>)
    <3> DEFINE b == <<p>>
               y == <<active>>
    <3>1. /\ b \in Seq(Piece) /\ y \in Seq(Transmission) /\ Len(b) = 1 /\ Len(y) = 1
          /\ b[1] = p /\ y[1] = active
      BY <1>2 DEF p
    <3>2. Cut(p, 1)
      BY <1>13, <2>1
    <3> HIDE DEF b, y
    <3>3. \A i \in 1..Len(b) : b[i].from = 0 /\ b[i].of = y[i] /\ Cut(b[i], 1)
      BY <2>2, <3>1, <3>2
    <3>4. a \in Seq(Piece) /\ Len(y) = Len(b)
      BY <1>7, <3>1 DEF a
    <3>5. AllCut(a \o b, start \o y)
      BY <1>7, <1>13, <3>1, <3>3, <3>4, BegunCut
    <3> QED
      BY <3>5 DEF b, y
  <2> QED
    BY <1>4, <1>6, <1>15, <2>1, <2>3, <2>4 DEF a, c, p
<1>16. ASSUME s.fragmentOffset # 0
       PROVE  AllCut(c, StartedTransmissions(w)) /\ Ordinal(c, Len(c)) = s.fragmentIndex + 1
  <2>1. a # <<>> /\ p.of = a[Len(a)].of /\ s.fragmentIndex = Ordinal(a, Len(a))
    BY <1>5, <1>16 DEF Writing, Begins, Midway, a, p, active
  <2>2. p.from # 0 /\ p \in Piece
    BY <1>2, <1>5, <1>16 DEF p
  <2>3. Ordinal(c, Len(c)) = s.fragmentIndex + 1
    <3> DEFINE m == Len(c)
    <3>1. m \in Nat \ {0} /\ c[m].from # 0 /\ Ordinal(c, m - 1) = s.fragmentIndex
      BY <1>13, <1>14, <2>1, <2>2
    <3> HIDE DEF m
    <3>2. Ordinal(c, m) = Ordinal(c, m - 1) + 1
      BY <3>1, CountStep, Zenon
    <3> QED
      BY <3>1, <3>2 DEF m
  <2>4. AllCut(a \o <<p>>, start)
    <3>1. a \in Seq(Piece) /\ Cut(p, Ordinal(a, Len(a)) + 1)
      BY <1>7, <1>13, <2>1 DEF a
    <3> QED
      BY <1>7, <1>13, <2>1, <2>2, <3>1, ContinuedCut
  <2>5. start \o <<>> = start
    BY <1>7, ConcatEmptySeq
  <2> QED
    BY <1>4, <1>6, <1>16, <2>3, <2>4, <2>5 DEF a, c, p
<1> QED
  BY <1>4, <1>9, <1>11, <1>12, <1>15, <1>16 DEF w, start, c

\* What a write that fails leaves of the line.
LEMMA LineThins ==
    ASSUME NEW s, Writing(s)
    PROVE  Thins(FullLine(s), Outgoing(s))
<1> DEFINE active == Head(s.activeTransmission)
           start == StartedTransmissions(s)
           queue == s.outputQueue
           long == IF s.fragmentOffset = 0 THEN <<active>> \o queue ELSE queue
<1>1. /\ start \in Seq(Transmission) /\ queue \in Seq(Transmission)
      /\ active \in Transmission
  BY FragmentTypes, FieldTypes, WireTypes DEF Writing, Inv
<1>2. FullLine(s) = start \o long /\ Outgoing(s) = start \o queue
  BY DEF FullLine, Outgoing
<1> HIDE DEF active, start, queue
<1>3. CASE s.fragmentOffset = 0
  <2>1. /\ long \in Seq(Transmission) /\ Len(long) = Len(queue) + 1
        /\ \A i \in 1..Len(queue) : queue[i] = long[i + 1]
    BY <1>1, <1>3
  <2> HIDE DEF long
  <2> QED
    BY <1>1, <1>2, <2>1, ThinsSuffix
<1>4. CASE s.fragmentOffset # 0
  <2>1. /\ long = queue /\ Len(queue) = Len(queue) + 0
        /\ \A i \in 1..Len(queue) : queue[i] = queue[i + 0]
    BY <1>1, <1>4
  <2> HIDE DEF long
  <2> QED
    BY <1>1, <1>2, <2>1, ThinsSuffix
<1> QED
  BY <1>3, <1>4

\* What stays as it was when a fragment is written.
LEMMA WrittenFields ==
    ASSUME NEW s, Writing(s), NEW accepted \in BOOLEAN
    PROVE  LET w == Written(s, accepted)
           IN  /\ Inv(w) /\ w.client /\ w.closing = s.closing
               /\ w.wire = IF accepted THEN Append(s.wire, <<Fragment(s)>>) ELSE s.wire
               /\ w.outputQueue = s.outputQueue /\ w.activeTransmission = s.activeTransmission
               /\ w.fragmentOffset = s.fragmentOffset /\ w.writing /\ ~w.fragmentTimer
               /\ w.fragmentIndex = IF Listed(s) THEN s.fragmentIndex + 1 ELSE s.fragmentIndex
               /\ NoWindow(w) /\ Kept(s, w)
<1> DEFINE w == Written(s, accepted)
<1>1. Inv(w) /\ w.client
  BY AdvancedInv DEF Writing
<1>2. s \in Server /\ s.client
  BY DEF Writing, Inv
<1>3. /\ w.closing = s.closing
      /\ w.wire = IF accepted THEN Append(s.wire, <<Fragment(s)>>) ELSE s.wire
      /\ w.outputQueue = s.outputQueue /\ w.activeTransmission = s.activeTransmission
      /\ w.fragmentOffset = s.fragmentOffset /\ w.writing = s.writing
      /\ w.fragmentTimer = s.fragmentTimer /\ w.coalesceTimer = s.coalesceTimer
      /\ w.coalesceWindowExpired = s.coalesceWindowExpired
      /\ w.fragmentIndex = IF Listed(s) THEN s.fragmentIndex + 1 ELSE s.fragmentIndex
  BY <1>2 DEF Written, Write, Indexed, Server
<1>4. Kept(s, w)
  BY <1>2 DEF Written, Write, Indexed, Server, Kept
<1> HIDE DEF w
<1>5. NoWindow(w) /\ w.writing /\ ~w.fragmentTimer
  BY <1>3 DEF Writing, NoWindow
<1> QED
  BY <1>1, <1>3, <1>4, <1>5 DEF w

\* The wire after a fragment was written agrees with what was promised of it.
LEMMA WrittenWired ==
    ASSUME NEW s, Writing(s), NEW accepted \in BOOLEAN
    PROVE  /\ Wired(Written(s, accepted)) /\ Fresh(Written(s, accepted))
           /\ Sends(s, FullLine(s), DisconnectFromHost(Written(s, accepted)))
<1> DEFINE w == Written(s, accepted)
           t == DisconnectFromHost(w)
<1>0. /\ w.wire = IF accepted THEN Append(s.wire, <<Fragment(s)>>) ELSE s.wire
      /\ w.outputQueue = s.outputQueue /\ w.activeTransmission = s.activeTransmission
      /\ w.writing /\ ~w.fragmentTimer /\ NoWindow(w) /\ Inv(w)
  BY WrittenFields
<1>1. Fresh(w)
  BY <1>0 DEF NoWindow, Fresh
<1>2. AllProper(w.outputQueue) /\ AllProper(w.activeTransmission)
  BY <1>0 DEF Writing, Wired
<1>3. s.wire \in Seq(Seq(Piece)) /\ Fragment(s) \in Piece
  BY FieldTypes, FragmentTypes DEF Writing, Inv
<1>4. \A i \in DOMAIN w.wire : Agrees(w.wire[i])
  <2>1. Agrees(<<Fragment(s)>>)
    BY DEF Agrees
  <2>2. \A i \in DOMAIN s.wire : Agrees(s.wire[i])
    BY DEF Writing, Wired
  <2>3. <<Fragment(s)>> \in Seq(Piece)
    BY <1>3
  <2> DEFINE more == Append(s.wire, <<Fragment(s)>>)
  <2>4. \A i \in DOMAIN more : (i \in DOMAIN s.wire /\ more[i] = s.wire[i])
                                \/ more[i] = <<Fragment(s)>>
    BY <1>3, <2>3
  <2> HIDE DEF more, w
  <2>5. \A i \in DOMAIN more : Agrees(more[i])
    BY <2>1, <2>2, <2>4
  <2> QED
    BY <1>0, <2>2, <2>5 DEF more
<1>5. /\ Contiguous(WirePieces(w)) /\ AllCut(WirePieces(w), StartedTransmissions(w))
      /\ Outgoing(w) = FullLine(s) \/ Thins(FullLine(s), Outgoing(w))
      /\ Len(StartedTransmissions(s)) <= Len(StartedTransmissions(w))
  <2>1. CASE accepted
    <3>1. accepted = TRUE
      BY <2>1
    <3>2. /\ Contiguous(WirePieces(Written(s, TRUE))) /\ Outgoing(Written(s, TRUE)) = FullLine(s)
          /\ AllCut(WirePieces(Written(s, TRUE)), StartedTransmissions(Written(s, TRUE)))
          /\ Len(StartedTransmissions(s)) <= Len(StartedTransmissions(Written(s, TRUE)))
      BY FragmentWire
    <3> QED
      BY <3>1, <3>2
  <2>2. CASE ~accepted
    <3> HIDE DEF w
    <3>1. /\ WirePieces(w) = WirePieces(s) /\ Outgoing(w) = Outgoing(s)
          /\ StartedTransmissions(w) = StartedTransmissions(s)
      BY <1>0, <2>2 DEF WirePieces, StartedTransmissions, Outgoing
    <3>2. Len(StartedTransmissions(s)) \in Nat
      BY WireTypes, LenProperties DEF Writing, Inv
    <3> QED
      BY <3>1, <3>2, LineThins DEF Writing, Wired
  <2> QED
    BY <2>1, <2>2
<1> HIDE DEF w
<1>6. Wired(w)
  BY <1>0, <1>2, <1>4, <1>5 DEF Wired
<1>7. Sends(s, FullLine(s), t)
  <2> SUFFICES ASSUME t.client PROVE Sends(s, FullLine(s), t)
    BY DEF Sends
  <2>1. t.closing /\ SameOutput(w, t)
    BY <1>0, <1>1, <1>6, DisconnectOutput
  <2> HIDE DEF t
  <2>2. Outgoing(t) = Outgoing(w) /\ StartedTransmissions(t) = StartedTransmissions(w)
    BY <2>1, SameOutputFacts
  <2> QED
    BY <1>5, <2>1, <2>2 DEF Sends
<1> QED
  BY <1>1, <1>6, <1>7 DEF w, t

\* Finishing a transmission (DeviceSimulatorServer.cpp:701-723) settles the
\* output: what waits has a posted processOutputQueue, or the session ends.
LEMMA FinishTransmissionOutput ==
    ASSUME NEW s, Inv(s), s.client, NoWindow(s), Wired(s), ~s.writing, NEW transmission
    PROVE  LET t == FinishTransmission(s, transmission)
           IN  /\ Settled(t) /\ Kept(s, t)
               /\ t.client => SameOutput(s, t)
<1> DEFINE t == FinishTransmission(s, transmission)
           u == [s EXCEPT !.outputCalls = @ + 1]
<1>1. Fresh(s)
  BY DEF NoWindow, Fresh
<1>2. SameOutput(s, u) /\ Kept(s, u) /\ u.outputCalls > 0
  <2>1. s.outputCalls + 1 > 0
    BY FieldTypes DEF Inv
  <2> QED
    BY <2>1 DEF Inv, Server, SameOutput, Kept
<1>3. Settled(u)
  <2> HIDE DEF u
  <2>1. Wired(u) /\ Fresh(u) /\ ~u.writing
    BY <1>1, <1>2, SameOutputFacts DEF SameOutput
  <2> QED
    BY <1>2, <2>1 DEF Settled, Flowing
<1>4. t = DisconnectFromHost(s) \/ t = u
  BY DEF FinishTransmission
<1> HIDE DEF t, u
<1> QED
  BY <1>1, <1>2, <1>3, <1>4, DisconnectOutput DEF t

\* Kept and what was sent carry over several calls.
LEMMA KeptTwice ==
    ASSUME NEW s, NEW u, NEW t, Kept(s, u), Kept(u, t)
    PROVE  Kept(s, t)
BY DEF Kept

\* A fragment shorter than what remains leaves the transmission midway.
LEMMA FragmentMidway ==
    ASSUME NEW s, Writing(s), FragmentSize(s) < Remaining(s)
    PROVE  /\ Listed(s) /\ FragmentEnd(s) = s.fragmentOffset + FragmentSize(s)
           /\ 0 < FragmentEnd(s) /\ FragmentEnd(s) < Head(s.activeTransmission).size
<1> DEFINE active == Head(s.activeTransmission)
<1>1. /\ active \in Transmission /\ Remaining(s) \in Int /\ FragmentSize(s) \in Int
      /\ Listed(s) => s.fragmentIndex + 1 \in DOMAIN active.fragmentSizes
      /\ s.fragmentOffset \in Nat
  BY FragmentTypes, FieldTypes DEF Writing, Inv
<1>2. Proper(active)
  <2>1. s.activeTransmission \in Seq(Transmission) /\ s.activeTransmission # <<>>
    BY FieldTypes DEF Writing, Inv
  <2>2. 1 \in DOMAIN s.activeTransmission /\ active = s.activeTransmission[1]
    BY <2>1
  <2> QED
    BY <2>2 DEF Writing, Wired, AllProper
<1>3. Listed(s) /\ FragmentSize(s) = active.fragmentSizes[s.fragmentIndex + 1]
  BY <1>1 DEF FragmentSize
<1> HIDE DEF active
<1>4. FragmentSize(s) > 0
  BY <1>1, <1>2, <1>3 DEF Proper
<1>5. Remaining(s) = active.size - s.fragmentOffset /\ active.size \in Nat
  BY <1>1 DEF Remaining, active, Transmission
<1>6. FragmentEnd(s) = s.fragmentOffset + FragmentSize(s)
  BY <1>1 DEF FragmentEnd
<1> QED
  BY <1>1, <1>3, <1>4, <1>5, <1>6 DEF active

\* writeNextFragment (DeviceSimulatorServer.cpp:305-345) continues the wire
\* where it stopped and settles the output.
LEMMA WriteFragmentOutput ==
    ASSUME NEW s, Writing(s), NEW accepted \in BOOLEAN
    PROVE  LET t == WriteNextFragment(s, accepted)
           IN  Settled(t) /\ Kept(s, t) /\ Sends(s, FullLine(s), t)
<1> DEFINE t == WriteFragment(s, Head(s.activeTransmission), accepted)
           w == Written(s, accepted)
           advanced == Advanced(s, accepted)
           active == Head(s.activeTransmission)
<1>1. WriteNextFragment(s, accepted) = t
  BY DEF WriteNextFragment, Writing
<1>2. Inv(s) /\ s.client /\ s.activeTransmission # <<>>
  BY DEF Writing
<1>3. /\ Inv(w) /\ w.client /\ w.outputQueue = s.outputQueue
      /\ w.activeTransmission = s.activeTransmission /\ w.writing /\ ~w.fragmentTimer
      /\ NoWindow(w) /\ Kept(s, w)
      /\ w.fragmentIndex = IF Listed(s) THEN s.fragmentIndex + 1 ELSE s.fragmentIndex
  BY WrittenFields
<1>4. Wired(w) /\ Fresh(w) /\ Sends(s, FullLine(s), DisconnectFromHost(w))
  BY WrittenWired
<1>5. FragmentEnd(s) \in Nat /\ Remaining(s) \in Int /\ active.size \in Nat
      /\ s.fragmentOffset \in Nat
  BY <1>2, FragmentTypes, FieldTypes DEF Inv, Transmission
<1>6. /\ Inv(advanced) /\ advanced.client /\ advanced.fragmentOffset = FragmentEnd(s)
      /\ advanced.wire = w.wire /\ advanced.outputQueue = w.outputQueue
      /\ advanced.activeTransmission = w.activeTransmission
      /\ advanced.writing = w.writing /\ advanced.fragmentTimer = w.fragmentTimer
      /\ advanced.coalesceTimer = w.coalesceTimer
      /\ advanced.coalesceWindowExpired = w.coalesceWindowExpired
      /\ advanced.fragmentIndex = w.fragmentIndex
  <2>1. Inv(advanced) /\ advanced.client
    BY <1>2, AdvancedInv
  <2>2. advanced = [w EXCEPT !.fragmentOffset = FragmentEnd(s)]
    BY DEF Advanced
  <2> HIDE DEF advanced, w
  <2> QED
    BY <1>3, <2>1, <2>2 DEF Inv, Server
<1>7. Kept(w, advanced)
  <2>1. advanced = [w EXCEPT !.fragmentOffset = FragmentEnd(s)]
    BY DEF Advanced
  <2> HIDE DEF advanced, w
  <2> QED
    BY <1>3, <2>1 DEF Inv, Server, Kept
<1>8. accepted =>
        /\ WirePieces(w) # <<>> /\ WirePieces(w)[Len(WirePieces(w))] = Fragment(s)
        /\ Ordinal(WirePieces(w), Len(WirePieces(w))) = s.fragmentIndex + 1
        /\ Outgoing(w) = FullLine(s)
        /\ Len(StartedTransmissions(s)) <= Len(StartedTransmissions(w))
  <2>1. LET u == Written(s, TRUE)
        IN  /\ WirePieces(u) # <<>> /\ WirePieces(u)[Len(WirePieces(u))] = Fragment(s)
            /\ Ordinal(WirePieces(u), Len(WirePieces(u))) = s.fragmentIndex + 1
            /\ Outgoing(u) = FullLine(s)
            /\ Len(StartedTransmissions(s)) <= Len(StartedTransmissions(u))
    BY FragmentWire
  <2>2. accepted => accepted = TRUE
    OBVIOUS
  <2> QED
    BY <2>1, <2>2
<1>9. Fragment(s).of = active /\ Fragment(s).to = FragmentEnd(s)
  BY DEF Fragment
<1> HIDE DEF w, advanced, active, t
<1>10. CASE t = DisconnectFromHost(w)
  <2>1. Settled(t) /\ Kept(w, t)
    BY <1>3, <1>4, <1>10, DisconnectOutput
  <2> QED
    BY <1>1, <1>3, <1>4, <1>10, <2>1, KeptTwice
<1>11. CASE accepted /\ FragmentSize(s) < Remaining(s) /\ t = [advanced EXCEPT !.fragmentTimer = TRUE]
  <2>1. /\ t.wire = w.wire /\ t.outputQueue = w.outputQueue
        /\ t.activeTransmission = s.activeTransmission /\ t.fragmentOffset = FragmentEnd(s)
        /\ t.writing /\ t.fragmentTimer /\ ~t.coalesceTimer /\ ~t.coalesceWindowExpired
        /\ t.fragmentIndex = w.fragmentIndex
    BY <1>3, <1>6, <1>11 DEF Inv, Server, NoWindow
  <2>2. Kept(advanced, t)
    BY <1>6, <1>11 DEF Inv, Server, Kept
  <2>3. /\ WirePieces(t) = WirePieces(w) /\ Outgoing(t) = Outgoing(w)
        /\ StartedTransmissions(t) = StartedTransmissions(w)
    BY <2>1 DEF WirePieces, StartedTransmissions, Outgoing
  <2>4. Midway(t)
    <3>1. Listed(s) /\ 0 < FragmentEnd(s) /\ FragmentEnd(s) < active.size
      BY <1>11, FragmentMidway DEF active
    <3>2. t.fragmentIndex = Ordinal(WirePieces(t), Len(WirePieces(t)))
      BY <1>3, <1>8, <1>11, <2>1, <2>3, <3>1
    <3> QED
      BY <1>2, <1>8, <1>9, <1>11, <2>1, <2>3, <3>1, <3>2 DEF Midway, active
  <2>5. Wired(t)
    BY <1>3, <1>4, <2>1, <2>3, <2>4 DEF Wired
  <2>6. Fresh(t) /\ Flowing(t)
    BY <2>1 DEF Fresh, Flowing
  <2>7. Sends(s, FullLine(s), t)
    BY <1>8, <1>11, <2>3 DEF Sends
  <2> QED
    BY <1>1, <1>3, <1>7, <2>2, <2>5, <2>6, <2>7, KeptTwice DEF Settled
<1>12. CASE /\ accepted /\ FragmentSize(s) = Remaining(s)
            /\ t = FinishTransmission(
                      [advanced EXCEPT !.activeTransmission = <<>>, !.writing = FALSE], active)
  <2> DEFINE idle == [advanced EXCEPT !.activeTransmission = <<>>, !.writing = FALSE]
  <2>1. /\ Inv(idle) /\ idle.client /\ idle.wire = w.wire /\ idle.outputQueue = w.outputQueue
        /\ idle.activeTransmission = <<>> /\ idle.writing = FALSE
        /\ ~idle.fragmentTimer /\ NoWindow(idle)
    <3>1. Inv(idle)
      BY <1>6, IdleInv
    <3>2. /\ idle.client = advanced.client /\ idle.wire = advanced.wire
          /\ idle.outputQueue = advanced.outputQueue
          /\ idle.activeTransmission = <<>> /\ idle.writing = FALSE
          /\ idle.fragmentTimer = advanced.fragmentTimer
          /\ idle.coalesceTimer = advanced.coalesceTimer
          /\ idle.coalesceWindowExpired = advanced.coalesceWindowExpired
      BY <1>6 DEF Inv, Server
    <3> HIDE DEF idle
    <3> QED
      BY <1>3, <1>6, <3>1, <3>2 DEF NoWindow
  <2>2. Kept(advanced, idle)
    BY <1>6 DEF Inv, Server, Kept
  <2> HIDE DEF idle
  <2>3. /\ WirePieces(idle) = WirePieces(w) /\ Outgoing(idle) = Outgoing(w)
        /\ StartedTransmissions(idle) = StartedTransmissions(w)
    BY <2>1 DEF WirePieces, StartedTransmissions, Outgoing
  <2>4. FragmentEnd(s) = active.size
    BY <1>5, <1>12 DEF FragmentEnd, Remaining, active
  <2>5. Wired(idle)
    <3>1. AllProper(idle.outputQueue) /\ AllProper(idle.activeTransmission)
      BY <1>4, <2>1 DEF Wired, AllProper
    <3>2. Whole(WirePieces(idle))
      BY <1>8, <1>9, <1>12, <2>3, <2>4 DEF Whole
    <3> QED
      BY <1>4, <2>1, <2>3, <3>1, <3>2 DEF Wired
  <2>6. Settled(t) /\ Kept(idle, t) /\ (t.client => SameOutput(idle, t))
    BY <1>12, <2>1, <2>5, FinishTransmissionOutput DEF idle
  <2>7. Sends(s, FullLine(s), t)
    BY <1>8, <1>12, <2>3, <2>6, SameOutputFacts DEF Sends
  <2> QED
    BY <1>1, <1>3, <1>7, <2>2, <2>6, <2>7, KeptTwice
<1> QED
  BY <1>2, <1>10, <1>11, <1>12, WriteFragmentCases DEF t, w, advanced, active

\* writeTransmission (DeviceSimulatorServer.cpp:644-651) moves the head of the
\* queue to the wire.
LEMMA WriteTransmissionOutput ==
    ASSUME NEW s, Inv(s), s.client, NoWindow(s), Wired(s), ~s.writing, s.outputQueue # <<>>,
           NEW accepted \in BOOLEAN
    PROVE  LET t == WriteTransmission(s, accepted)
           IN  Settled(t) /\ Kept(s, t) /\ Sends(s, Outgoing(s), t)
<1> DEFINE u == Dequeued(s)
           t == WriteTransmission(s, accepted)
<1>1. s.outputQueue \in Seq(Transmission)
  BY FieldTypes DEF Inv
<1>2. Inv(u)
  BY DequeuedInv
<1>3. /\ u.client = s.client /\ u.closing = s.closing /\ u.outputQueue = Tail(s.outputQueue)
      /\ u.activeTransmission = <<Head(s.outputQueue)>> /\ u.writing = TRUE
      /\ u.fragmentOffset = 0 /\ u.fragmentIndex = 0 /\ u.fragmentTimer = s.fragmentTimer
      /\ u.coalesceTimer = s.coalesceTimer
      /\ u.coalesceWindowExpired = s.coalesceWindowExpired /\ u.wire = s.wire
  BY DEF Inv, Server, Dequeued
<1>4. Kept(s, u)
  BY DEF Inv, Server, Dequeued, Kept
<1>5. t = WriteNextFragment(u, accepted)
  BY DEF WriteTransmission, Dequeued
<1> HIDE DEF u, t
<1>6. WirePieces(u) = WirePieces(s) /\ StartedTransmissions(u) = StartedTransmissions(s)
  BY <1>3 DEF WirePieces, StartedTransmissions
<1>7. AllProper(u.outputQueue) /\ AllProper(u.activeTransmission)
  <2>1. \A i \in DOMAIN s.outputQueue : Proper(s.outputQueue[i])
    BY DEF Wired, AllProper
  <2>2. \A i \in DOMAIN Tail(s.outputQueue) :
          i + 1 \in DOMAIN s.outputQueue /\ Tail(s.outputQueue)[i] = s.outputQueue[i + 1]
    BY <1>1, HeadTailProperties
  <2>3. 1 \in DOMAIN s.outputQueue /\ Head(s.outputQueue) = s.outputQueue[1]
    BY <1>1
  <2> QED
    BY <1>3, <2>1, <2>2, <2>3 DEF AllProper
<1>8. Writing(u)
  <2>1. ~u.fragmentTimer /\ NoWindow(u)
    BY <1>3 DEF Wired, NoWindow
  <2>2. Wired(u)
    BY <1>3, <1>6, <1>7, <2>1 DEF Wired
  <2>3. Begins(u)
    BY <1>3, <1>6 DEF Wired, Begins
  <2> QED
    BY <1>2, <1>3, <2>1, <2>2, <2>3 DEF Writing
<1>9. FullLine(u) = Outgoing(s)
  <2>1. <<Head(s.outputQueue)>> \o Tail(s.outputQueue) = s.outputQueue
    BY <1>1
  <2>2. Head(u.activeTransmission) = Head(s.outputQueue)
    BY <1>3
  <2> QED
    BY <1>3, <1>6, <2>1, <2>2 DEF FullLine, Outgoing
<1>10. Settled(t) /\ Kept(u, t) /\ Sends(u, FullLine(u), t)
  BY <1>5, <1>8, WriteFragmentOutput
<1>11. Sends(s, Outgoing(s), t)
  BY <1>6, <1>9, <1>10 DEF Sends
<1> QED
  BY <1>4, <1>10, <1>11, KeptTwice DEF t

\* The first count transmissions of a queue may share a write.
Shares(queue, count) ==
    \A i \in 1..count :
        /\ queue[i].fragmentSizes = <<>>
        /\ queue[i].coalesceCount = queue[1].coalesceCount
        /\ count <= queue[i].coalesceCount

\* compatibleCount (DeviceSimulatorServer.cpp:271-282) stops before the first
\* transmission that may not share the leader's write.
LEMMA CompatibleCountShares ==
    ASSUME NEW queue \in Seq(Transmission), queue # <<>>,
           Head(queue).coalesceCount > 1, Head(queue).fragmentSizes = <<>>
    PROVE  Shares(queue, CompatibleCount(queue))
<1> DEFINE count == CompatibleCount(queue)
           leader == queue[1]
           stops == {i \in 2..Len(queue) :
                       \/ i > leader.coalesceCount
                       \/ queue[i].fragmentSizes # <<>>
                       \/ queue[i].coalesceCount # leader.coalesceCount}
<1>1. /\ leader = Head(queue) /\ leader \in Transmission /\ leader.coalesceCount \in Nat
      /\ Len(queue) \in Nat /\ Len(queue) >= 1
  <2>1. leader = Head(queue) /\ leader \in Transmission /\ Len(queue) \in Nat /\ Len(queue) >= 1
    OBVIOUS
  <2> QED
    BY <2>1 DEF Transmission
<1>2. count \in 1..Len(queue)
  BY CompatibleCountBounds
<1>3. count = IF stops = {} THEN Len(queue) ELSE Min(stops) - 1
  BY <1>1 DEF CompatibleCount
<1>4. stops \subseteq Nat /\ stops \subseteq 2..Len(queue)
  BY <1>1
<1>5. ASSUME NEW i \in 2..count PROVE i \notin stops
  <2> SUFFICES ASSUME i \in stops PROVE FALSE
    OBVIOUS
  <2> HIDE DEF stops, count
  <2>1. PICK m \in stops : \A x \in stops : m <= x
    BY <1>4, MinOfNaturals
  <2>2. Min(stops) \in stops /\ \A x \in stops : Min(stops) <= x
    BY <2>1 DEF Min
  <2>3. count = Min(stops) - 1
    BY <1>3
  <2>4. Min(stops) \in Nat /\ i \in Nat /\ Min(stops) <= i
    BY <1>4, <2>2
  <2> QED
    BY <1>2, <2>3, <2>4
<1>6. ASSUME NEW i \in 2..count
      PROVE  /\ i <= leader.coalesceCount /\ queue[i].fragmentSizes = <<>>
             /\ queue[i].coalesceCount = leader.coalesceCount
  <2>1. i \in 2..Len(queue)
    BY <1>1, <1>2
  <2>2. i \notin stops
    BY <1>5
  <2> HIDE DEF leader
  <2> QED
    BY <1>1, <2>1, <2>2
<1> HIDE DEF leader, stops, count
<1>7. count <= leader.coalesceCount
  <2>1. CASE count = 1
    BY <1>1, <2>1
  <2>2. CASE count # 1
    <3>1. count \in 2..count
      BY <1>1, <1>2, <2>2
    <3> QED
      BY <1>6, <3>1
  <2> QED
    BY <2>1, <2>2
<1>8. ASSUME NEW i \in 1..count
      PROVE  /\ queue[i].fragmentSizes = <<>> /\ queue[i].coalesceCount = leader.coalesceCount
  <2>1. CASE i = 1
    BY <1>1, <2>1 DEF leader
  <2>2. CASE i # 1
    <3>1. i \in 2..count
      BY <1>1, <1>2, <2>2
    <3> QED
      BY <1>6, <3>1
  <2> QED
    BY <2>1, <2>2
<1> QED
  BY <1>7, <1>8 DEF Shares, count, leader

\* A block of whole transmissions that may share a write.
LEMMA BlockAgrees ==
    ASSUME NEW s, Inv(s), NEW count \in 1..Len(s.outputQueue), Shares(s.outputQueue, count)
    PROVE  /\ Agrees(Block(s, count)) /\ Begun(Block(s, count)) = Batch(s, count)
           /\ Block(s, count) # <<>> /\ Block(s, count)[1].from = 0
           /\ \A i \in 1..count : /\ Block(s, count)[i].from = 0
                                  /\ Block(s, count)[i].to = Block(s, count)[i].of.size
<1> DEFINE pieces == Block(s, count)
           batch == Batch(s, count)
           queue == s.outputQueue
<1>0. count \in Nat /\ 1 \in 1..count
  BY QueueLength
<1>1. /\ pieces \in Seq(Piece) /\ Len(pieces) = count
      /\ batch \in Seq(Transmission) /\ Len(batch) = count
      /\ \A i \in 1..count : batch[i] = queue[i]
  BY BatchTypes
<1>2. ASSUME NEW i \in 1..count
      PROVE  pieces[i].of = queue[i] /\ pieces[i].from = 0 /\ pieces[i].to = queue[i].size
  <2>1. pieces[i] = [of |-> queue[i], from |-> 0, to |-> queue[i].size]
    BY BatchTypes
  <2> HIDE DEF pieces
  <2> QED
    BY <2>1
<1> HIDE DEF pieces, batch, queue
<1>3. DOMAIN pieces = 1..count /\ DOMAIN batch = 1..count
  BY <1>1
<1>4. pieces # <<>> /\ pieces[1].from = 0
  BY <1>0, <1>1, <1>2
<1>5. Agrees(pieces)
  <2>1. \A i \in 1..count : /\ queue[i].fragmentSizes = <<>>
                            /\ queue[i].coalesceCount = queue[1].coalesceCount
                            /\ count <= queue[i].coalesceCount
    BY DEF Shares, queue
  <2> QED
    BY <1>0, <1>1, <1>2, <1>3, <1>4, <2>1 DEF Agrees
<1>6. Begun(pieces) = batch
  <2>1. Begun(pieces) = [i \in DOMAIN pieces |-> pieces[i].of]
    BY <1>4 DEF Begun
  <2>2. Begun(pieces) \in Seq(Transmission)
    BY <1>1, BegunType
  <2>3. DOMAIN Begun(pieces) = 1..count /\ \A i \in 1..count : Begun(pieces)[i] = batch[i]
    BY <1>1, <1>2, <1>3, <2>1
  <2>4. Len(Begun(pieces)) = count
    BY <1>0, <2>2, <2>3, LenProperties
  <2> HIDE DEF Begun
  <2> QED
    BY <1>1, <2>2, <2>3, <2>4, SeqEqual
<1>7. ASSUME NEW i \in 1..count PROVE pieces[i].from = 0 /\ pieces[i].to = pieces[i].of.size
  BY <1>2
<1> QED
  BY <1>4, <1>5, <1>6, <1>7 DEF pieces, batch


\* The wire after a block was written.
LEMMA BlockWire ==
    ASSUME NEW s, Inv(s), s.client, ~s.writing, NoWindow(s), Wired(s),
           NEW count \in 1..Len(s.outputQueue), Shares(s.outputQueue, count)
    PROVE  LET w == BlockWritten(s, count)
           IN  /\ Inv(w) /\ w.client /\ ~w.writing /\ NoWindow(w) /\ Wired(w) /\ Kept(s, w)
               /\ Outgoing(w) = Outgoing(s)
               /\ Len(StartedTransmissions(s)) <= Len(StartedTransmissions(w))
<1> DEFINE w == BlockWritten(s, count)
           taken == Taken(s, count)
           block == Block(s, count)
           batch == Batch(s, count)
           rest == Rest(s, count)
           start == StartedTransmissions(s)
<1>1. Inv(w) /\ Inv(taken) /\ taken.client
  BY BlockWrittenInv
<1>2. /\ w.client = s.client /\ w.writing = FALSE /\ w.outputQueue = rest
      /\ w.wire = Append(s.wire, block) /\ w.activeTransmission = s.activeTransmission
      /\ w.fragmentTimer = s.fragmentTimer /\ w.coalesceTimer = s.coalesceTimer
      /\ w.coalesceWindowExpired = s.coalesceWindowExpired
  BY DEF Inv, Server, BlockWritten, Taken, Write
<1>3. Kept(s, w)
  BY DEF Inv, Server, BlockWritten, Taken, Write, Kept
<1>4. /\ s.outputQueue \in Seq(Transmission) /\ block \in Seq(Piece)
      /\ batch \in Seq(Transmission) /\ rest \in Seq(Transmission)
      /\ Len(rest) = Len(s.outputQueue) - count /\ Len(s.outputQueue) \in Nat
      /\ \A i \in 1..Len(rest) : rest[i] = s.outputQueue[i + count]
      /\ Len(block) = count
  BY BatchTypes, QueueLength
<1>5. /\ Agrees(block) /\ Begun(block) = batch /\ block # <<>> /\ block[1].from = 0
      /\ \A i \in 1..count : block[i].from = 0 /\ block[i].to = block[i].of.size
  BY BlockAgrees
<1>6. batch \o rest = s.outputQueue
  <2>1. /\ 1 \in 1..Len(s.outputQueue) + 1 /\ count \in (1 - 1)..Len(s.outputQueue)
        /\ Len(s.outputQueue) \in count..Len(s.outputQueue)
    BY <1>4
  <2>2. SubSeq(s.outputQueue, 1, count) \o SubSeq(s.outputQueue, count + 1, Len(s.outputQueue))
          = SubSeq(s.outputQueue, 1, Len(s.outputQueue))
    BY <1>4, <2>1, ConcatAdjacentSubSeq
  <2>3. SubSeq(s.outputQueue, 1, Len(s.outputQueue)) = s.outputQueue
    BY <1>4
  <2> QED
    BY <2>2, <2>3 DEF Batch, Rest
<1>7. start \in Seq(Transmission) /\ WirePieces(s) \in Seq(Piece) /\ s.wire \in Seq(Seq(Piece))
  BY WireTypes, FieldTypes DEF Inv
<1> HIDE DEF w, block, batch, rest, start
<1>8. WirePieces(w) = WirePieces(s) \o block /\ StartedTransmissions(w) = start \o batch
  BY <1>2, <1>4, <1>5, WriteWire DEF Inv, start
<1>9. Outgoing(w) = Outgoing(s)
  <2>1. (start \o batch) \o rest = start \o (batch \o rest)
    BY <1>4, <1>7, LinesConcat, Zenon
  <2> QED
    BY <1>2, <1>6, <1>8, <2>1 DEF Outgoing, start
<1>10. Len(start) <= Len(StartedTransmissions(w))
  BY <1>4, <1>7, <1>8, ConcatProperties
<1>11. /\ Contiguous(WirePieces(w)) /\ WirePieces(w) # <<>>
       /\ WirePieces(w)[Len(WirePieces(w))] = block[count]
  <2>1. Contiguous(WirePieces(s)) /\ Joins(WirePieces(s), block[1])
    BY <1>5 DEF Wired, Whole, Joins
  <2>2. ASSUME NEW i \in 2..Len(block)
        PROVE  block[i - 1].to = block[i - 1].of.size /\ block[i].from = 0
    <3>1. i \in 1..count /\ i - 1 \in 1..count
      BY <1>4, <2>2
    <3> QED
      BY <1>5, <3>1
  <2> QED
    BY <1>4, <1>5, <1>7, <1>8, <2>1, <2>2, ContiguousConcat
<1>12. Whole(WirePieces(w))
  <2>1. count \in 1..count
    BY <1>4
  <2> QED
    BY <1>5, <1>11, <2>1 DEF Whole
<1>13. AllProper(rest)
  <2>1. ASSUME NEW i \in DOMAIN rest PROVE Proper(rest[i])
    <3>1. i \in 1..Len(rest) /\ rest[i] = s.outputQueue[i + count]
      BY <1>4, SMTT(20)
    <3>2. i + count \in DOMAIN s.outputQueue
      BY <1>4, <3>1
    <3> QED
      BY <3>1, <3>2 DEF Wired, AllProper
  <2> QED
    BY <2>1 DEF AllProper
<1>14. \A i \in DOMAIN w.wire : Agrees(w.wire[i])
  <2>1. \A i \in DOMAIN s.wire : Agrees(s.wire[i])
    BY DEF Wired
  <2> DEFINE more == Append(s.wire, block)
  <2>2. \A i \in DOMAIN more : (i \in DOMAIN s.wire /\ more[i] = s.wire[i]) \/ more[i] = block
    BY <1>4, <1>7, SMTT(20)
  <2> HIDE DEF more
  <2>3. \A i \in DOMAIN more : Agrees(more[i])
    BY <1>5, <2>1, <2>2
  <2> QED
    BY <1>2, <2>3 DEF more
<1>15. AllCut(WirePieces(w), StartedTransmissions(w))
  <2>1. AllCut(WirePieces(s), start)
    BY DEF Wired, start
  <2>2. ASSUME NEW i \in 1..Len(block)
        PROVE  block[i].from = 0 /\ block[i].of = batch[i] /\ Cut(block[i], 1)
    <3>1. /\ i \in 1..count /\ block[i].from = 0 /\ block[i].to = block[i].of.size
          /\ block[i].of = s.outputQueue[i] /\ block[i].of = batch[i]
      <4>1. i \in 1..count
        BY <1>4
      <4>2. block[i] = [of |-> s.outputQueue[i], from |-> 0, to |-> s.outputQueue[i].size]
            /\ batch[i] = s.outputQueue[i]
        BY <4>1, BatchTypes DEF block, batch
      <4> QED
        BY <4>1, <4>2
    <3>2. block[i].of.fragmentSizes = <<>> /\ block[i].of.size \in Nat
      <4>1. i \in DOMAIN s.outputQueue
        BY <1>4, <3>1
      <4>2. s.outputQueue[i] \in Transmission
        BY <1>4, <4>1
      <4> QED
        BY <3>1, <4>2 DEF Shares, Transmission
    <3>3. Reach(<<>>, 0) = 0 /\ Len(<<>>) = 0
      <4>1. <<>> \in Seq(Nat)
        OBVIOUS
      <4> QED
        BY <4>1, ReachStep
    <3> QED
      BY <3>1, <3>2, <3>3 DEF Cut
  <2>3. Len(batch) = Len(block)
    BY BatchTypes DEF batch, block
  <2> QED
    BY <1>4, <1>7, <1>8, <2>1, <2>2, <2>3, BegunCut
<1>16. Wired(w) /\ NoWindow(w)
  <2>1. ~w.fragmentTimer /\ NoWindow(w) /\ AllProper(w.activeTransmission)
    BY <1>2 DEF Wired, NoWindow
  <2> QED
    BY <1>2, <1>11, <1>12, <1>13, <1>14, <1>15, <2>1 DEF Wired
<1> QED
  BY <1>1, <1>2, <1>3, <1>9, <1>10, <1>16 DEF w, start

\* writeCoalescedTransmissions (DeviceSimulatorServer.cpp:653-699) moves the
\* batch to the wire, or loses it with the session.
LEMMA WriteCoalescedOutput ==
    ASSUME NEW s, Inv(s), s.client, ~s.writing, NoWindow(s), Wired(s),
           NEW count \in 1..Len(s.outputQueue), Shares(s.outputQueue, count),
           NEW accepted \in BOOLEAN
    PROVE  LET t == WriteCoalesced(s, count, accepted)
           IN  Settled(t) /\ Kept(s, t) /\ Sends(s, Outgoing(s), t)
<1> DEFINE w == BlockWritten(s, count)
           taken == Taken(s, count)
           rest == Rest(s, count)
           t == WriteCoalesced(s, count, accepted)
<1>1. /\ Inv(w) /\ w.client /\ ~w.writing /\ NoWindow(w) /\ Wired(w) /\ Kept(s, w)
      /\ Outgoing(w) = Outgoing(s)
      /\ Len(StartedTransmissions(s)) <= Len(StartedTransmissions(w))
  BY BlockWire
<1>2. Inv(taken)
  BY BlockWrittenInv
<1>3. /\ taken.outputQueue = rest /\ taken.writing = TRUE /\ taken.wire = s.wire
      /\ taken.activeTransmission = s.activeTransmission
      /\ taken.fragmentTimer = s.fragmentTimer /\ taken.coalesceTimer = s.coalesceTimer
      /\ taken.coalesceWindowExpired = s.coalesceWindowExpired
  BY DEF Inv, Server, Taken
<1>4. Kept(s, taken)
  BY DEF Inv, Server, Taken, Kept
<1>5. /\ s.outputQueue \in Seq(Transmission) /\ rest \in Seq(Transmission)
      /\ Len(s.outputQueue) = Len(rest) + count /\ Len(s.outputQueue) \in Nat
      /\ \A i \in 1..Len(rest) : rest[i] = s.outputQueue[i + count]
  BY BatchTypes, QueueLength
<1>6. StartedTransmissions(s) \in Seq(Transmission)
  BY WireTypes DEF Inv
<1>7. t = DisconnectFromHost(taken) \/ t = DisconnectFromHost(w)
      \/ t = [w EXCEPT !.outputCalls = w.outputCalls + 1]
  BY WriteCoalescedCases
<1> HIDE DEF w, taken, rest, t
<1>8. /\ WirePieces(taken) = WirePieces(s) /\ StartedTransmissions(taken) = StartedTransmissions(s)
      /\ Outgoing(taken) = StartedTransmissions(s) \o rest
  BY <1>3 DEF WirePieces, StartedTransmissions, Outgoing
<1>9. Wired(taken) /\ Fresh(taken)
  <2>1. ASSUME NEW i \in DOMAIN rest PROVE Proper(rest[i])
    <3>1. i \in 1..Len(rest) /\ rest[i] = s.outputQueue[i + count]
      BY <1>5
    <3>2. i + count \in DOMAIN s.outputQueue
      BY <1>5, <3>1
    <3> QED
      BY <3>1, <3>2 DEF Wired, AllProper
  <2>2. AllProper(taken.outputQueue) /\ ~taken.fragmentTimer
    BY <1>3, <2>1 DEF AllProper, Wired
  <2> QED
    BY <1>3, <1>8, <2>2 DEF Wired, Fresh, NoWindow
<1>10. CASE t = DisconnectFromHost(taken)
  <2>1. Settled(t) /\ Kept(taken, t) /\ (t.client => t.closing /\ SameOutput(taken, t))
    BY <1>2, <1>9, <1>10, DisconnectOutput
  <2>2. Thins(Outgoing(s), Outgoing(taken))
    <3> DEFINE start == StartedTransmissions(s)
               queue == s.outputQueue
    <3>1. /\ start \in Seq(Transmission) /\ queue \in Seq(Transmission)
          /\ rest \in Seq(Transmission) /\ count \in Nat
          /\ Len(queue) = Len(rest) + count
          /\ \A i \in 1..Len(rest) : rest[i] = queue[i + count]
      BY <1>5, <1>6
    <3> HIDE DEF start, queue
    <3>2. Thins(start \o queue, start \o rest)
      BY <3>1, ThinsSuffix
    <3> QED
      BY <1>8, <3>2 DEF Outgoing, start, queue
  <2>3. Sends(s, Outgoing(s), t)
    <3>1. Len(StartedTransmissions(s)) <= Len(StartedTransmissions(s))
      BY <1>6
    <3>2. t.client => /\ Outgoing(t) = Outgoing(taken)
                      /\ StartedTransmissions(t) = StartedTransmissions(s)
      BY <1>8, <2>1, SameOutputFacts
    <3> QED
      BY <2>1, <2>2, <3>1, <3>2 DEF Sends
  <2> QED
    BY <1>4, <2>1, <2>3, KeptTwice DEF t
<1>11. CASE t = DisconnectFromHost(w)
  <2>1. Fresh(w)
    BY <1>1 DEF NoWindow, Fresh
  <2>2. Settled(t) /\ Kept(w, t) /\ (t.client => t.closing /\ SameOutput(w, t))
    BY <1>1, <1>11, <2>1, DisconnectOutput
  <2>3. Sends(s, Outgoing(s), t)
    BY <1>1, <2>2, SameOutputFacts DEF Sends
  <2> QED
    BY <1>1, <2>2, <2>3, KeptTwice DEF t
<1>12. CASE t = [w EXCEPT !.outputCalls = w.outputCalls + 1]
  <2>1. SameOutput(w, t) /\ Kept(w, t) /\ t.outputCalls = w.outputCalls + 1
    BY <1>1, <1>12 DEF Inv, Server, SameOutput, Kept
  <2>2. t.outputCalls > 0
    BY <1>1, <2>1, FieldTypes DEF Inv
  <2>3. Wired(t) /\ NoWindow(t) /\ ~t.writing
    BY <1>1, <2>1, SameOutputFacts DEF SameOutput
  <2>4. Settled(t)
    BY <2>2, <2>3 DEF Settled, Fresh, NoWindow, Flowing
  <2>5. Sends(s, Outgoing(s), t)
    BY <1>1, <2>1, SameOutputFacts DEF Sends
  <2> QED
    BY <1>1, <2>1, <2>4, <2>5, KeptTwice DEF t
<1> QED
  BY <1>7, <1>10, <1>11, <1>12


-----------------------------------------------------------------------------
(* Looking at the queue, and adding to it. *)

\* What holds when processOutputQueue is called: a window is open or expired
\* only while something waits for it.
Ready(s) ==
    /\ Inv(s) /\ Wired(s)
    /\ s.coalesceTimer \/ s.coalesceWindowExpired => s.outputQueue # <<>> /\ ~s.writing
    /\ s.client /\ ~s.closing /\ s.writing => s.fragmentTimer

\* processOutputQueue (DeviceSimulatorServer.cpp:265-303) settles the output.
LEMMA ProcessOutputQueueOutput ==
    ASSUME NEW s, Ready(s), NEW accepted \in BOOLEAN
    PROVE  LET t == ProcessOutputQueue(s, accepted)
           IN  Settled(t) /\ Kept(s, t) /\ Sends(s, Outgoing(s), t)
<1> DEFINE t == ProcessOutputQueue(s, accepted)
<1>0. Len(StartedTransmissions(s)) <= Len(StartedTransmissions(s))
  BY WireTypes, LenProperties DEF Ready, Inv
<1>1. CASE s.writing \/ ~s.client \/ s.outputQueue = <<>>
  <2>1. t = s
    BY <1>1 DEF ProcessOutputQueue
  <2>2. Kept(s, s) /\ Sends(s, Outgoing(s), s)
    BY <1>0 DEF Kept, Sends
  <2>3. Settled(s)
    <3>1. CASE ~s.client
      BY <3>1, ReleasedSettled DEF Ready
    <3>2. CASE s.client
      BY <1>1, <3>2 DEF Ready, Settled, Fresh, Flowing
    <3> QED
      BY <3>1, <3>2
  <2> QED
    BY <2>1, <2>2, <2>3
<1>2. CASE ~(s.writing \/ ~s.client \/ s.outputQueue = <<>>)
  <2> DEFINE c == CloseWindow(s)
             o == OpenWindow(s)
             count == CompatibleCount(s.outputQueue)
             leader == Head(s.outputQueue)
             coalesces == leader.coalesceCount > 1 /\ leader.fragmentSizes = <<>>
             waits == /\ count < leader.coalesceCount
                      /\ count = Len(s.outputQueue)
                      /\ ~s.coalesceWindowExpired
  <2>1. t = CASE coalesces /\ waits -> o
              [] coalesces /\ ~waits -> WriteCoalesced(c, count, accepted)
              [] ~coalesces -> WriteTransmission(c, accepted)
    BY <1>2 DEF ProcessOutputQueue
  <2>2. Inv(s) /\ s.client /\ Wired(s) /\ ~s.writing /\ s.outputQueue # <<>>
        /\ s.outputQueue \in Seq(Transmission)
    BY <1>2, FieldTypes DEF Ready, Inv
  <2>3. /\ o.wire = s.wire /\ o.outputQueue = s.outputQueue
        /\ o.activeTransmission = s.activeTransmission /\ o.fragmentOffset = s.fragmentOffset
        /\ o.fragmentIndex = s.fragmentIndex
        /\ o.writing = s.writing /\ o.fragmentTimer = s.fragmentTimer
        /\ o.coalesceTimer = TRUE /\ o.coalesceWindowExpired = s.coalesceWindowExpired
        /\ Kept(s, o)
    BY <2>2 DEF Inv, Server, OpenWindow, Kept
  <2>4. /\ c.wire = s.wire /\ c.outputQueue = s.outputQueue
        /\ c.activeTransmission = s.activeTransmission /\ c.fragmentOffset = s.fragmentOffset
        /\ c.fragmentIndex = s.fragmentIndex
        /\ c.writing = s.writing /\ c.fragmentTimer = s.fragmentTimer
        /\ c.coalesceTimer = FALSE /\ c.coalesceWindowExpired = FALSE
        /\ c.client = s.client /\ Kept(s, c)
    BY <2>2 DEF Inv, Server, CloseWindow, Kept
  <2>5. Inv(c)
    BY <2>2, CloseWindowInv
  <2>6. count \in 1..Len(s.outputQueue)
    BY <2>2, CompatibleCountBounds
  <2>7. coalesces => Shares(s.outputQueue, count)
    BY <2>2, CompatibleCountShares
  <2> HIDE DEF c, o, count, leader, t
  <2>8. /\ WirePieces(c) = WirePieces(s) /\ StartedTransmissions(c) = StartedTransmissions(s)
        /\ Outgoing(c) = Outgoing(s)
    BY <2>4 DEF WirePieces, StartedTransmissions, Outgoing
  <2>9. Wired(c) /\ NoWindow(c)
    <3>1. Midway(s) => Midway(c)
      BY <2>4, <2>8 DEF Midway
    <3> QED
      BY <2>2, <2>4, <2>8, <3>1 DEF Wired, NoWindow
  <2>10. CASE coalesces /\ waits
    <3>1. t = o
      BY <2>1, <2>10
    <3>2. /\ WirePieces(o) = WirePieces(s) /\ StartedTransmissions(o) = StartedTransmissions(s)
          /\ Outgoing(o) = Outgoing(s)
      BY <2>3 DEF WirePieces, StartedTransmissions, Outgoing
    <3>3. Wired(o)
      <4>1. Midway(s) => Midway(o)
        BY <2>3, <3>2 DEF Midway
      <4> QED
        BY <2>2, <2>3, <3>2, <4>1 DEF Wired
    <3>4. leader.coalesceCount > Len(s.outputQueue)
      <4>1. leader.coalesceCount \in Nat /\ Len(s.outputQueue) \in Nat
        <5>1. leader \in Transmission
          BY <2>2, HeadTailProperties DEF leader
        <5> QED
          BY <2>2, <5>1, LenProperties DEF Transmission
      <4> QED
        BY <2>10, <4>1
    <3>5. Fresh(o) /\ Flowing(o)
      BY <2>2, <2>3, <2>10, <3>4 DEF Fresh, Flowing, leader
    <3>6. Sends(s, Outgoing(s), o)
      BY <1>0, <3>2 DEF Sends
    <3> QED
      BY <2>3, <3>1, <3>3, <3>5, <3>6 DEF Settled, t
  <2>11. CASE coalesces /\ ~waits
    <3>1. t = WriteCoalesced(c, count, accepted)
      BY <2>1, <2>11
    <3>2. Settled(t) /\ Kept(c, t) /\ Sends(c, Outgoing(c), t)
      BY <2>2, <2>4, <2>5, <2>6, <2>7, <2>9, <2>11, <3>1, WriteCoalescedOutput
    <3> QED
      BY <2>4, <2>8, <3>2, KeptTwice DEF Sends, t
  <2>12. CASE ~coalesces
    <3>1. t = WriteTransmission(c, accepted)
      BY <2>1, <2>12
    <3>2. Settled(t) /\ Kept(c, t) /\ Sends(c, Outgoing(c), t)
      BY <2>2, <2>4, <2>5, <2>9, <3>1, WriteTransmissionOutput
    <3> QED
      BY <2>4, <2>8, <3>2, KeptTwice DEF Sends, t
  <2> QED
    BY <2>10, <2>11, <2>12
<1> QED
  BY <1>1, <1>2

\* Changes that leave the output alone leave it settled.
LEMMA SettledSame ==
    ASSUME NEW s, NEW t,
           /\ Settled(s) /\ SameOutput(s, t) /\ (t.client => s.client)
           /\ (s.closing => t.closing) /\ t.outputCalls = s.outputCalls
    PROVE  Settled(t)
<1>1. Wired(t) /\ Fresh(t)
  BY SameOutputFacts DEF Settled
<1>2. Flowing(t)
  BY DEF Settled, SameOutput, Flowing
<1> QED
  BY <1>1, <1>2 DEF Settled


\* A transmission of valid faults is proper.
LEMMA TransmissionProper ==
    ASSUME NEW response \in Response, NEW faults \in ValidFaults
    PROVE  Proper(TransmissionOf(response, faults))
<1> DEFINE t == TransmissionOf(response, faults)
<1>1. /\ t.size = OutboundSize(response.payload, faults)
      /\ t.fragmentSizes = faults.fragmentSizes /\ t.coalesceCount = faults.coalesceCount
  BY DEF TransmissionOf
<1>2. OutboundSize(response.payload, faults) > 0
  BY FaultOptionTypes DEF Response, OutboundSize, FixedFrameOverhead
<1>3. /\ faults.coalesceCount >= 1
      /\ \A i \in DOMAIN faults.fragmentSizes : faults.fragmentSizes[i] > 0
  BY DEF ValidFaults, FaultsAreValid
<1>4. faults.coalesceCount > 0
  BY <1>3, FaultOptionTypes
<1> HIDE DEF t
<1> QED
  BY <1>1, <1>2, <1>3, <1>4 DEF Proper, t

\* A line without its last transmission is thinner.
LEMMA ThinsAppend ==
    ASSUME NEW line \in Seq(Transmission), NEW x \in Transmission
    PROVE  Thins(Append(line, x), line)
<1> DEFINE long == Append(line, x)
<1>1. /\ Len(long) = Len(line) + 1 /\ Len(line) \in Nat
      /\ DOMAIN line = 1..Len(line) /\ DOMAIN long = 1..(Len(line) + 1)
      /\ \A i \in 1..Len(line) : long[i] = line[i]
  BY AppendProperties
<1> HIDE DEF long
<1>2. Thins(long, line)
  BY <1>1 DEF Thins
<1> QED
  BY <1>2 DEF long

\* enqueueTransmission (DeviceSimulatorServer.cpp:627-642) puts a transmission
\* at the end of the line, or ends the session.
LEMMA EnqueueTransmissionOutput ==
    ASSUME NEW s, Inv(s), Settled(s), s.client, NEW transmission \in Transmission,
           transmission.session = s.sessionOrdinal, Proper(transmission),
           NEW accepted \in BOOLEAN
    PROVE  LET t == EnqueueTransmission(s, transmission, accepted)
           IN  /\ Settled(t) /\ Kept(s, t)
               /\ Sends(s, Append(Outgoing(s), transmission), t)
               /\ t.client /\ OutputQueueFull(s) => t.closing /\ Outgoing(t) = Outgoing(s)
<1> DEFINE t == EnqueueTransmission(s, transmission, accepted)
<1>0. s.outputQueue \in Seq(Transmission) /\ Outgoing(s) \in Seq(Transmission)
      /\ StartedTransmissions(s) \in Seq(Transmission)
  BY WireTypes, FieldTypes DEF Inv
<1>1. CASE OutputQueueFull(s)
  <2>1. t = DisconnectFromHost(s)
    BY <1>1 DEF EnqueueTransmission
  <2>2. Settled(t) /\ Kept(s, t) /\ (t.client => t.closing /\ SameOutput(s, t))
    BY <2>1, DisconnectOutput DEF Settled
  <2> HIDE DEF t
  <2>3. t.client => /\ Outgoing(t) = Outgoing(s)
                    /\ StartedTransmissions(t) = StartedTransmissions(s)
    BY <2>2, SameOutputFacts
  <2>4. Thins(Append(Outgoing(s), transmission), Outgoing(s))
    BY <1>0, ThinsAppend
  <2>5. Len(StartedTransmissions(s)) <= Len(StartedTransmissions(s))
    BY <1>0, LenProperties
  <2>6. Sends(s, Append(Outgoing(s), transmission), t)
    BY <2>2, <2>3, <2>4, <2>5 DEF Sends
  <2> QED
    BY <2>2, <2>3, <2>6 DEF t
<1>2. CASE ~OutputQueueFull(s)
  <2> DEFINE line == Append(s.outputQueue, transmission)
             u == [s EXCEPT !.outputQueue = line]
  <2>1. t = ProcessOutputQueue(u, accepted)
    BY <1>2 DEF EnqueueTransmission
  <2>2. Inv(u)
    BY <1>2, QueuedInv
  <2>3. /\ line \in Seq(Transmission) /\ line # <<>>
        /\ \A i \in DOMAIN line :
             (i \in DOMAIN s.outputQueue /\ line[i] = s.outputQueue[i]) \/ line[i] = transmission
    <3>1. /\ line \in Seq(Transmission) /\ Len(line) = Len(s.outputQueue) + 1
          /\ \A i \in 1..Len(s.outputQueue) : line[i] = s.outputQueue[i]
          /\ line[Len(s.outputQueue) + 1] = transmission
      BY <1>0, AppendProperties
    <3>2. /\ Len(s.outputQueue) \in Nat /\ DOMAIN s.outputQueue = 1..Len(s.outputQueue)
          /\ DOMAIN line = 1..(Len(s.outputQueue) + 1)
      BY <1>0, <3>1, LenProperties
    <3> HIDE DEF line
    <3>3. \A i \in DOMAIN line : i \in DOMAIN s.outputQueue \/ i = Len(s.outputQueue) + 1
      BY <3>2
    <3>4. line # <<>>
      BY <3>1, <3>2
    <3> QED
      BY <3>1, <3>2, <3>3, <3>4
  <2> HIDE DEF line
  <2>4. /\ u.wire = s.wire /\ u.outputQueue = line
        /\ u.activeTransmission = s.activeTransmission /\ u.fragmentOffset = s.fragmentOffset
        /\ u.fragmentIndex = s.fragmentIndex
        /\ u.writing = s.writing /\ u.fragmentTimer = s.fragmentTimer
        /\ u.coalesceTimer = s.coalesceTimer /\ u.client = s.client /\ u.closing = s.closing
        /\ u.coalesceWindowExpired = s.coalesceWindowExpired
    BY DEF Inv, Server
  <2>5. Kept(s, u)
    BY DEF Inv, Server, Kept
  <2> HIDE DEF u, t
  <2>6. WirePieces(u) = WirePieces(s) /\ StartedTransmissions(u) = StartedTransmissions(s)
    BY <2>4 DEF WirePieces, StartedTransmissions
  <2>7. Wired(u)
    <3>1. AllProper(line)
      BY <2>3 DEF Settled, Wired, AllProper
    <3>2. Midway(s) => Midway(u)
      BY <2>4, <2>6 DEF Midway
    <3> QED
      BY <2>4, <2>6, <3>1, <3>2 DEF Settled, Wired
  <2>8. Ready(u)
    BY <2>2, <2>3, <2>4, <2>7 DEF Ready, Settled, Fresh, Flowing
  <2>9. Settled(t) /\ Kept(u, t) /\ Sends(u, Outgoing(u), t)
    BY <2>1, <2>8, ProcessOutputQueueOutput
  <2>10. Outgoing(u) = Append(Outgoing(s), transmission)
    BY <1>0, <2>4, <2>6, SMTT(20) DEF Outgoing, line
  <2> QED
    BY <1>2, <2>5, <2>6, <2>9, <2>10, KeptTwice DEF Sends, t
<1> QED
  BY <1>1, <1>2

\* The state in which a response of these faults is added to the queue.
Scheduled(s, faults) == IF faults.disconnectAfterSend THEN ScheduleDisconnect(s) ELSE s

\* Scheduling a disconnect changes its flag and the telemetry timer only.
LEMMA ScheduledFields ==
    ASSUME NEW s, Inv(s), Settled(s), s.client, NEW faults \in ValidFaults
    PROVE  LET u == Scheduled(s, faults)
           IN  /\ Inv(u) /\ Settled(u) /\ SameOutput(s, u)
               /\ u.client /\ u.closing = s.closing
               /\ u.sessionGeneration = s.sessionGeneration
               /\ u.sessionOrdinal = s.sessionOrdinal
               /\ u.requestQueue = s.requestQueue /\ u.received = s.received
               /\ u.processingRequest = s.processingRequest /\ u.requestCalls = s.requestCalls
               /\ u.delayed = s.delayed /\ u.telemetrySequence = s.telemetrySequence
               /\ u.randomSeed = s.randomSeed /\ u.randomDraws = s.randomDraws
               /\ u.disconnectScheduled = (s.disconnectScheduled \/ faults.disconnectAfterSend)
               /\ u.telemetryTimer = (s.telemetryTimer /\ ~faults.disconnectAfterSend)
<1> DEFINE u == Scheduled(s, faults)
           v == ScheduleDisconnect(s)
<1>1. faults.disconnectAfterSend \in BOOLEAN /\ s.disconnectScheduled \in BOOLEAN
      /\ s.telemetryTimer \in BOOLEAN
  BY FaultOptionTypes DEF Inv, Server
<1>2. Inv(v)
  BY ScheduleDisconnectInv
<1>3. /\ SameOutput(s, v) /\ v.client = s.client /\ v.closing = s.closing
      /\ v.outputCalls = s.outputCalls
      /\ v.sessionGeneration = s.sessionGeneration /\ v.sessionOrdinal = s.sessionOrdinal
      /\ v.requestQueue = s.requestQueue /\ v.received = s.received
      /\ v.processingRequest = s.processingRequest /\ v.requestCalls = s.requestCalls
      /\ v.delayed = s.delayed /\ v.telemetrySequence = s.telemetrySequence
      /\ v.randomSeed = s.randomSeed /\ v.randomDraws = s.randomDraws
      /\ v.disconnectScheduled = TRUE /\ v.telemetryTimer = FALSE
  BY DEF Inv, Server, ScheduleDisconnect, SameOutput
<1> HIDE DEF v
<1>4. Settled(v)
  BY <1>3, SettledSame
<1>5. CASE faults.disconnectAfterSend
  BY <1>1, <1>2, <1>3, <1>4, <1>5 DEF Scheduled, v
<1>6. CASE ~faults.disconnectAfterSend
  BY <1>1, <1>6 DEF Scheduled, SameOutput
<1> QED
  BY <1>5, <1>6

\* queueResponse (DeviceSimulatorServer.cpp:563-625): the response is added to
\* the line of its session, or the session ends.
LEMMA QueueResponseOutput ==
    ASSUME NEW s, Inv(s), Settled(s), s.client, NEW response \in Response,
           response.session = s.sessionOrdinal,
           NEW faults \in ValidFaults, NEW accepted \in BOOLEAN
    PROVE  LET t == QueueResponse(s, response, faults, accepted)
               line == Append(Outgoing(s), TransmissionOf(response, faults))
           IN  /\ Settled(t)
               /\ \/ ~Queued(s, response, faults) /\ Kept(s, t)
                     /\ (t.client => t.closing /\ Outgoing(t) = Outgoing(s))
                  \/ ~Queued(s, response, faults) /\ Kept(Scheduled(s, faults), t)
                     /\ (t.client => t.closing /\ Outgoing(t) = Outgoing(s))
                  \/ Queued(s, response, faults) /\ Kept(Scheduled(s, faults), t)
                     /\ Sends(s, line, t)
<1> DEFINE t == QueueResponse(s, response, faults, accepted)
           u == Scheduled(s, faults)
           x == TransmissionOf(response, faults)
<1>1. /\ Inv(u) /\ Settled(u) /\ SameOutput(s, u) /\ u.client
      /\ u.sessionOrdinal = s.sessionOrdinal
  BY ScheduledFields
<1>2. x \in Transmission /\ x.session = s.sessionOrdinal /\ Proper(x)
  BY TransmissionTypes, TransmissionProper
<1>3. CASE EncodingFails(response.payload, faults)
  <2>1. t = DisconnectFromHost(s) /\ ~Queued(s, response, faults)
    BY <1>3 DEF QueueResponse, Queued
  <2>2. Settled(t) /\ Kept(s, t) /\ (t.client => t.closing /\ SameOutput(s, t))
    BY <2>1, DisconnectOutput DEF Settled
  <2> HIDE DEF t
  <2> QED
    BY <2>1, <2>2, SameOutputFacts DEF t
<1>4. CASE ~EncodingFails(response.payload, faults)
  <2>1. t = EnqueueTransmission(u, x, accepted)
    BY <1>4 DEF QueueResponse, Scheduled
  <2>2. OutputQueueFull(u) = OutputQueueFull(s)
    BY <1>1 DEF OutputQueueFull, ActiveWriteCount, SameOutput
  <2>3. Queued(s, response, faults) <=> ~OutputQueueFull(u)
    BY <1>4, <2>2 DEF Queued
  <2>4. Outgoing(u) = Outgoing(s) /\ StartedTransmissions(u) = StartedTransmissions(s)
    BY <1>1, SameOutputFacts
  <2> HIDE DEF t, u, x
  <2>5. /\ Settled(t) /\ Kept(u, t) /\ Sends(u, Append(Outgoing(u), x), t)
        /\ (t.client /\ OutputQueueFull(u) => t.closing /\ Outgoing(t) = Outgoing(u))
    BY <1>1, <1>2, <2>1, EnqueueTransmissionOutput
  <2>6. Sends(s, Append(Outgoing(s), x), t)
    BY <2>4, <2>5 DEF Sends
  <2>7. CASE OutputQueueFull(u)
    BY <2>3, <2>4, <2>5, <2>7 DEF t, u, x
  <2>8. CASE ~OutputQueueFull(u)
    BY <2>3, <2>5, <2>6, <2>8 DEF t, u, x
  <2> QED
    BY <2>7, <2>8
<1> QED
  BY <1>3, <1>4


-----------------------------------------------------------------------------
(* Requests, sessions and callbacks. *)

\* What a callback preserves about the output.
OutputInv(s) == Inv(s) /\ Settled(s)

\* The flags of the requests do not touch the output.
LEMMA RequestFlagsOutput ==
    ASSUME NEW s, OutputInv(s)
    PROVE  /\ OutputInv([s EXCEPT !.processingRequest = FALSE])
           /\ OutputInv(FinishRequest(s)) /\ OutputInv(AbortRequest(s))
<1> DEFINE t == [s EXCEPT !.processingRequest = FALSE]
           u == FinishRequest(s)
<1>1. Inv(t) /\ Inv(u) /\ Inv(AbortRequest(s))
  BY ProcessingRequestInv, FinishRequestInv, AbortRequestInv DEF OutputInv
<1>2. SameOutput(s, t) /\ t.client = s.client /\ t.closing = s.closing
      /\ t.outputCalls = s.outputCalls
  BY DEF OutputInv, Inv, Server, SameOutput
<1>3. SameOutput(s, u) /\ u.client = s.client /\ u.closing = s.closing
      /\ u.outputCalls = s.outputCalls
  BY DEF OutputInv, Inv, Server, SameOutput, FinishRequest
<1> HIDE DEF t, u
<1>4. Settled(t) /\ Settled(u)
  BY <1>2, <1>3, SettledSame DEF OutputInv
<1>5. Settled(DisconnectFromHost(t))
  BY <1>1, <1>4, DisconnectOutput DEF Settled
<1>6. AbortRequest(s) = DisconnectFromHost(t)
  BY DEF AbortRequest, t
<1> QED
  BY <1>1, <1>4, <1>5, <1>6 DEF OutputInv, t, u

\* A session that is over has no output.
LEMMA ReleasedOutput ==
    ASSUME NEW s, Inv(s)
    PROVE  OutputInv(HandleClientDisconnected(s)) /\ OutputInv(ReleaseClient(s))
BY DisconnectedInv, ReleaseInv, DisconnectedClient, ReleasedSettled DEF OutputInv

\* Answering a request settles the output (DeviceSimulatorServer.cpp:547-560).
LEMMA AnswerRequestOutput ==
    ASSUME NEW s, OutputInv(s), s.client, NEW response \in Response,
           response.session = s.sessionOrdinal,
           NEW faults \in ValidFaults, NEW accepted \in BOOLEAN
    PROVE  OutputInv(AnswerRequest(s, response, faults, accepted))
<1> DEFINE queued == QueueResponse(s, response, faults, accepted)
<1>1. OutputInv(queued)
  BY QueueResponseInv, QueueResponseOutput DEF OutputInv
<1> HIDE DEF queued
<1> QED
  BY <1>1, RequestFlagsOutput DEF AnswerRequest, queued

\* Executing a response settles the output, whether it is dropped, delayed or
\* queued (DeviceSimulatorServer.cpp:526-560).
LEMMA ExecuteResponseOutput ==
    ASSUME NEW s, OutputInv(s), s.client, NEW response \in Response,
           response.session = s.sessionOrdinal,
           NEW faults \in ValidFaults, NEW io \in Outcomes
    PROVE  OutputInv(ExecuteResponse(s, response, faults, io))
<1> DEFINE drawn == DrawnFor(s, faults)
           late == DelayResponse(drawn, response, faults)
<1>1. io.accepted \in BOOLEAN
  BY DEF Outcomes, MayFail
<1>2. Inv(drawn) /\ drawn.client /\ drawn.sessionOrdinal = s.sessionOrdinal
  BY DrawnForInv DEF OutputInv
<1>3. SameOutput(s, drawn) /\ drawn.client = s.client /\ drawn.closing = s.closing
      /\ drawn.outputCalls = s.outputCalls
  BY DEF OutputInv, Inv, Server, SameOutput, DrawnFor
<1> HIDE DEF drawn
<1>4. OutputInv(drawn)
  BY <1>2, <1>3, SettledSame DEF OutputInv
<1>5. OutputInv(late)
  <2>1. Inv(late)
    BY <1>2, DelayResponseInv
  <2>2. SameOutput(drawn, late) /\ late.client = drawn.client /\ late.closing = drawn.closing
        /\ late.outputCalls = drawn.outputCalls
    BY <1>2 DEF Inv, Server, SameOutput, DelayResponse
  <2> HIDE DEF late
  <2> QED
    BY <1>4, <2>1, <2>2, SettledSame DEF OutputInv
<1> HIDE DEF late
<1>6. OutputInv(FinishRequest(drawn)) /\ OutputInv(AnswerRequest(drawn, response, faults, io.accepted))
  BY <1>1, <1>2, <1>4, RequestFlagsOutput, AnswerRequestOutput
<1> QED
  BY <1>5, <1>6, ExecuteResponseCases DEF drawn, late

\* executePlan (DeviceSimulatorServer.cpp:478-561) settles the output.
LEMMA ExecutePlanOutput ==
    ASSUME NEW s, OutputInv(s), s.client, NEW request \in Request,
           request.session = s.sessionOrdinal,
           NEW plan \in ResponsePlan, NEW io \in Outcomes
    PROVE  OutputInv(ExecutePlan(s, request, plan, io))
<1> DEFINE idle == [s EXCEPT !.processingRequest = FALSE]
           last == ScheduleDisconnect(idle)
<1>1. OutputInv(idle) /\ OutputInv(FinishRequest(s)) /\ OutputInv(AbortRequest(s))
  BY RequestFlagsOutput
<1>2. idle.client
  BY DEF OutputInv, Inv, Server
<1> HIDE DEF idle
<1>3. Inv(last) /\ Settled(last)
  <2>1. Inv(last)
    BY <1>1, <1>2, ScheduleDisconnectInv DEF OutputInv
  <2>2. SameOutput(idle, last) /\ last.client = idle.client /\ last.closing = idle.closing
        /\ last.outputCalls = idle.outputCalls
    BY <1>1 DEF OutputInv, Inv, Server, SameOutput, ScheduleDisconnect
  <2> HIDE DEF last
  <2> QED
    BY <1>1, <2>1, <2>2, SettledSame DEF OutputInv
<1> HIDE DEF last
<1>4. OutputInv(DisconnectFromHost(last))
  BY <1>3, DisconnectInv, DisconnectOutput DEF OutputInv, Settled
<1>5. ASSUME plan.faults \in ValidFaults, ResponseTo(request, plan) \in Response,
             ResponseTo(request, plan).session = request.session
      PROVE  OutputInv(ExecuteResponse(s, ResponseTo(request, plan), plan.faults, io))
  BY <1>5, ExecuteResponseOutput
<1> QED
  BY <1>1, <1>4, <1>5, ExecutePlanCases DEF idle, last

\* processNextRequest (DeviceSimulatorServer.cpp:440-470) settles the output.
LEMMA ProcessNextRequestOutput ==
    ASSUME NEW s, OutputInv(s), NEW io \in Outcomes
    PROVE  OutputInv(ProcessNextRequest(s, io))
<1>1. CASE ~CanProcess(s)
  BY <1>1 DEF ProcessNextRequest
<1>2. CASE CanProcess(s)
  <2> DEFINE request == Head(s.requestQueue)
             t == RequestTaken(s)
  <2>1. /\ Inv(t) /\ t.client /\ request \in Request
        /\ request.session = t.sessionOrdinal /\ PlanFor(request.message) \in ResponsePlan
    BY <1>2, RequestTakenInv DEF OutputInv
  <2>2. SameOutput(s, t) /\ t.client = s.client /\ t.closing = s.closing
        /\ t.outputCalls = s.outputCalls
    BY DEF OutputInv, Inv, Server, SameOutput, RequestTaken
  <2> HIDE DEF t, request
  <2>3. OutputInv(t)
    BY <2>1, <2>2, SettledSame DEF OutputInv
  <2>4. OutputInv(ExecutePlan(t, request, PlanFor(request.message), io))
    BY <2>1, <2>3, ExecutePlanOutput
  <2> QED
    BY <1>2, <2>4 DEF ProcessNextRequest, RequestTaken, t, request
<1> QED
  BY <1>1, <1>2

\* A new session has no output yet (DeviceSimulatorServer.cpp:368-415).
LEMMA AcceptPendingConnectionsOutput ==
    ASSUME NEW s, OutputInv(s), NEW made \in BOOLEAN
    PROVE  OutputInv(AcceptPendingConnections(s, made))
<1> DEFINE taken == [s EXCEPT !.pending = FALSE]
           t == AttachClient(taken)
<1>1. Inv(AcceptPendingConnections(s, made))
  BY AcceptPendingConnectionsInv DEF OutputInv
<1>2. SameOutput(s, taken) /\ taken.client = s.client /\ taken.closing = s.closing
      /\ taken.outputCalls = s.outputCalls
  BY DEF OutputInv, Inv, Server, SameOutput
<1>3. Settled(taken)
  <2> HIDE DEF taken
  <2> QED
    BY <1>2, SettledSame DEF OutputInv
<1>4. ASSUME ~s.client PROVE Settled(t)
  <2>1. taken \in Server
    BY DEF OutputInv, Inv, Server
  <2> HIDE DEF taken
  <2>2. SameOutput(taken, t)
    BY <2>1 DEF Server, SameOutput, AttachClient, Seed
  <2>3. s.outputQueue = <<>> /\ ~s.writing
    BY <1>4 DEF OutputInv, Inv, Quiet
  <2> HIDE DEF t
  <2>4. Wired(t) /\ Fresh(t)
    BY <1>3, <2>2, SameOutputFacts DEF Settled
  <2>5. Flowing(t)
    BY <1>2, <2>2, <2>3 DEF Flowing, SameOutput
  <2> QED
    BY <2>4, <2>5 DEF Settled
<1>5. AcceptPendingConnections(s, made) = IF s.pending /\ ~s.client /\ made THEN t ELSE taken
  BY DEF AcceptPendingConnections
<1> HIDE DEF t, taken
<1> QED
  BY <1>1, <1>3, <1>4, <1>5 DEF OutputInv

\* The frame a telemetry tick publishes, and the state once it is queued.
TelemetryFrame(s) ==
    [session |-> s.sessionOrdinal, id |-> s.telemetrySequence, telemetry |-> TRUE,
     payload |-> TelemetryPayload]

Published(s, accepted) == QueueResponse(s, TelemetryFrame(s), NoFaults, accepted)

\* The ways a telemetry tick goes (DeviceSimulatorServer.cpp:347-366).
LEMMA PublishTelemetryCases ==
    ASSUME NEW s, Inv(s), NEW made \in BOOLEAN, NEW accepted \in BOOLEAN
    PROVE  LET t == PublishTelemetry(s, made, accepted)
               u == Published(s, accepted)
           IN  \/ t = s
               \/ s.client /\ t = DisconnectFromHost(s)
               \/ /\ s.client /\ ~s.disconnectScheduled
                  /\ TelemetryFrame(s) \in Response
                  /\ TelemetryFrame(s).session = s.sessionOrdinal
                  /\ Inv(u)
                  /\ t = IF Queued(s, TelemetryFrame(s), NoFaults)
                         THEN [u EXCEPT !.telemetrySequence = NextSequence(@)]
                         ELSE u
<1> DEFINE u == Published(s, accepted)
           frame == TelemetryFrame(s)
           next == [u EXCEPT !.telemetrySequence = NextSequence(@)]
<1>1. frame \in Response /\ frame.session = s.sessionOrdinal
  BY FieldTypes, ServerAssumption DEF Inv, Response, TelemetryFrame
<1>2. Inv(u)
  BY <1>1, NoFaultsValid, QueueResponseInv DEF Published
<1>3. PublishTelemetry(s, made, accepted) =
        CASE ~s.client \/ ~TelemetryEnabled \/ s.disconnectScheduled -> s
          [] s.client /\ TelemetryEnabled /\ ~s.disconnectScheduled /\ ~made ->
               DisconnectFromHost(s)
          [] OTHER -> IF Queued(s, frame, NoFaults) THEN next ELSE u
  BY DEF PublishTelemetry, TelemetryFrame, Published
<1> HIDE DEF u, frame, next
<1>4. CASE ~s.client \/ ~TelemetryEnabled \/ s.disconnectScheduled
  BY <1>3, <1>4
<1>5. CASE s.client /\ TelemetryEnabled /\ ~s.disconnectScheduled /\ ~made
  BY <1>3, <1>5
<1>6. CASE s.client /\ TelemetryEnabled /\ ~s.disconnectScheduled /\ made
  <2>1. PublishTelemetry(s, made, accepted) = IF Queued(s, frame, NoFaults) THEN next ELSE u
    BY <1>3, <1>6
  <2> QED
    BY <1>1, <1>2, <1>6, <2>1 DEF u, frame, next
<1> QED
  BY <1>4, <1>5, <1>6

\* publishTelemetry (DeviceSimulatorServer.cpp:347-366) settles the output.
LEMMA PublishTelemetryOutput ==
    ASSUME NEW s, OutputInv(s), NEW made \in BOOLEAN, NEW accepted \in BOOLEAN
    PROVE  OutputInv(PublishTelemetry(s, made, accepted))
<1> DEFINE t == PublishTelemetry(s, made, accepted)
           u == Published(s, accepted)
           next == [u EXCEPT !.telemetrySequence = NextSequence(u.telemetrySequence)]
<1>1. Inv(t)
  BY PublishTelemetryInv DEF OutputInv
<1>2. Settled(DisconnectFromHost(s))
  BY DisconnectOutput DEF OutputInv, Settled
<1>3. ASSUME s.client, TelemetryFrame(s) \in Response,
             TelemetryFrame(s).session = s.sessionOrdinal, Inv(u)
      PROVE  Settled(u) /\ Settled(next)
  <2>1. Settled(u)
    BY <1>3, NoFaultsValid, QueueResponseOutput DEF OutputInv, Published
  <2> HIDE DEF u
  <2>2. SameOutput(u, next) /\ next.client = u.client /\ next.closing = u.closing
        /\ next.outputCalls = u.outputCalls
    BY <1>3 DEF Inv, Server, SameOutput
  <2> HIDE DEF next
  <2> QED
    BY <2>1, <2>2, SettledSame
<1>4. Inv(s)
  BY DEF OutputInv
<1>5. \/ t = s
      \/ t = DisconnectFromHost(s)
      \/ /\ s.client /\ TelemetryFrame(s) \in Response
         /\ TelemetryFrame(s).session = s.sessionOrdinal /\ Inv(u)
         /\ t = next \/ t = u
  BY <1>4, PublishTelemetryCases
<1> HIDE DEF t, u, next
<1> QED
  BY <1>1, <1>2, <1>3, <1>5 DEF OutputInv, t

\* The delayed lambda settles the output (DeviceSimulatorServer.cpp:542-552).
LEMMA RunDelayedOutput ==
    ASSUME NEW s, OutputInv(s), NEW capture \in s.delayed, NEW accepted \in BOOLEAN
    PROVE  OutputInv(RunDelayed(Elapsed(s, capture), capture, accepted))
<1> DEFINE t == Elapsed(s, capture)
<1>1. /\ Inv(t) /\ capture.response \in Response /\ capture.faults \in ValidFaults
      /\ capture.generation = t.sessionGeneration /\ t.client =>
             capture.response.session = t.sessionOrdinal
  BY ElapsedInv DEF OutputInv
<1>2. SameOutput(s, t) /\ t.client = s.client /\ t.closing = s.closing
      /\ t.outputCalls = s.outputCalls
  BY DEF OutputInv, Inv, Server, SameOutput, Elapsed
<1> HIDE DEF t
<1>3. OutputInv(t)
  BY <1>1, <1>2, SettledSame DEF OutputInv
<1>4. CASE capture.generation # t.sessionGeneration \/ ~t.client
  BY <1>3, <1>4 DEF RunDelayed, t
<1>5. CASE ~(capture.generation # t.sessionGeneration \/ ~t.client)
  <2>1. OutputInv(AnswerRequest(t, capture.response, capture.faults, accepted))
    BY <1>1, <1>3, <1>5, AnswerRequestOutput
  <2> QED
    BY <1>5, <2>1 DEF RunDelayed, t
<1> QED
  BY <1>4, <1>5


\* The constructed server has nothing to send.
LEMMA InitOutput == Init => OutputInv(srv)
<1> SUFFICES ASSUME Init PROVE OutputInv(srv)
  OBVIOUS
<1>1. Inv(srv) /\ ~srv.client
  BY InitInv DEF Init
<1> QED
  BY <1>1, ReleasedSettled DEF OutputInv

\* Every callback and every call of the embedding program settles the output.
LEMMA StepOutput == OutputInv(srv) /\ [Next]_vars => OutputInv(srv')
<1> SUFFICES ASSUME OutputInv(srv), [Next]_vars PROVE OutputInv(srv')
  OBVIOUS
<1>0. /\ \A call : MayFail(call) \subseteq BOOLEAN
      /\ \A io \in Outcomes : io.accepted \in BOOLEAN
  BY DEF MayFail, Outcomes
<1>00. Inv(srv) /\ Settled(srv) /\ Inv(srv')
  BY StepInv DEF OutputInv
<1> DEFINE Untouched(s, t) ==
        SameOutput(s, t) /\ t.client = s.client /\ t.closing = s.closing
          /\ t.outputCalls = s.outputCalls
<1>1. CASE Start
  <2>1. PICK ok \in BOOLEAN : srv' = [srv EXCEPT !.stopping = FALSE, !.listening = ok]
    BY <1>0, <1>1 DEF Start
  <2>2. Untouched(srv, srv')
    BY <1>00, <2>1 DEF Inv, Server, SameOutput
  <2> QED
    BY <1>00, <2>2, SettledSame DEF OutputInv
<1>2. CASE Stop
  <2>1. ~srv'.client
    BY <1>2 DEF Stop, ReleaseClient
  <2> QED
    BY <1>00, <2>1, ReleasedSettled DEF OutputInv
<1>3. CASE Connect
  <2>1. Untouched(srv, srv')
    BY <1>00, <1>3 DEF Inv, Server, SameOutput, Connect
  <2> QED
    BY <1>00, <2>1, SettledSame DEF OutputInv
<1>4. CASE NewConnection
  BY <1>0, <1>4, AcceptPendingConnectionsOutput DEF NewConnection
<1>5. CASE AcceptCall
  <2> DEFINE t == [srv EXCEPT !.acceptCalls = @ - 1]
  <2>1. srv.acceptCalls - 1 \in Nat
    BY <1>5, <1>00, FieldTypes DEF AcceptCall, Inv
  <2>2. Inv([srv EXCEPT !.acceptCalls = srv.acceptCalls - 1])
    BY <1>00, <2>1, AcceptCallsInv
  <2>3. Untouched(srv, t)
    BY <1>00 DEF Inv, Server, SameOutput
  <2>4. Inv(t)
    BY <2>2
  <2> HIDE DEF t
  <2>5. OutputInv(t)
    BY <1>00, <2>3, <2>4, SettledSame DEF OutputInv
  <2> QED
    BY <1>0, <1>5, <2>5, AcceptPendingConnectionsOutput DEF AcceptCall, t
<1>6. CASE ReadClientData
  <2>1. PICK n \in 0..MaxBatch :
          \E messages \in [1..n -> Messages], io \in Outcomes :
              srv' = ProcessNextRequest(ReadIn(srv, messages), io)
    BY <1>6 DEF ReadClientData, ReadIn
  <2>2. PICK messages \in [1..n -> Messages], io \in Outcomes :
          srv' = ProcessNextRequest(ReadIn(srv, messages), io)
    BY <2>1
  <2> DEFINE t == ReadIn(srv, messages)
  <2>3. n \in Nat /\ srv.client
    BY <1>6, ServerAssumption DEF ReadClientData
  <2>4. Inv(t)
    BY <1>00, <2>3, ReadInv
  <2>5. Untouched(srv, t)
    BY <1>00 DEF Inv, Server, SameOutput, ReadIn
  <2> HIDE DEF t
  <2>6. OutputInv(t)
    BY <1>00, <2>4, <2>5, SettledSame DEF OutputInv
  <2> QED
    BY <2>2, <2>6, ProcessNextRequestOutput DEF t
<1>7. CASE ParserFails
  BY <1>00, <1>7, DisconnectOutput DEF ParserFails, OutputInv, Settled
<1>8. CASE PeerDisconnects
  BY <1>00, <1>8, ReleasedOutput DEF PeerDisconnects
<1>9. CASE Flush
  <2> DEFINE t == [srv EXCEPT !.unsent = FALSE]
  <2>1. t \in Server
    BY <1>00 DEF Inv, Server
  <2>2. SameSessionData(srv, t) /\ SameFlags(srv, t)
    BY <1>00 DEF Inv, Server, SameSessionData, SameFlags
  <2>3. Untouched(srv, t)
    BY <1>00 DEF Inv, Server, SameOutput
  <2>4. srv' = IF srv.closing THEN HandleClientDisconnected(t) ELSE t
    BY <1>9 DEF Flush
  <2> HIDE DEF t
  <2>5. OutputInv(t)
    BY <1>00, <2>1, <2>2, <2>3, SameInv, SettledSame DEF OutputInv
  <2>6. OutputInv(HandleClientDisconnected(t))
    BY <2>5, ReleasedOutput DEF OutputInv
  <2> QED
    BY <2>4, <2>5, <2>6
<1>10. CASE RequestCall
  <2> DEFINE t == [srv EXCEPT !.requestCalls = @ - 1]
  <2>1. srv.requestCalls - 1 \in Nat
    BY <1>10, <1>00, FieldTypes DEF RequestCall, Inv
  <2>2. Inv([srv EXCEPT !.requestCalls = srv.requestCalls - 1])
    BY <1>00, <2>1, RequestCallsInv
  <2>3. Untouched(srv, t)
    BY <1>00 DEF Inv, Server, SameOutput
  <2>4. Inv(t)
    BY <2>2
  <2> HIDE DEF t
  <2>5. OutputInv(t)
    BY <1>00, <2>3, <2>4, SettledSame DEF OutputInv
  <2> QED
    BY <1>10, <2>5, ProcessNextRequestOutput DEF RequestCall, t
<1>11. CASE OutputCall
  <2> DEFINE t == [srv EXCEPT !.outputCalls = srv.outputCalls - 1]
  <2>1. srv.outputCalls - 1 \in Nat
    BY <1>11, <1>00, FieldTypes DEF OutputCall, Inv
  <2>2. Inv(t)
    BY <1>00, <2>1, OutputCallsInv
  <2>3. SameOutput(srv, t) /\ t.client = srv.client /\ t.closing = srv.closing
    BY <1>00 DEF Inv, Server, SameOutput
  <2>4. PICK io \in Outcomes : srv' = ProcessOutputQueue(t, io.accepted)
    BY <1>11 DEF OutputCall
  <2> HIDE DEF t
  <2>5. Wired(t) /\ Fresh(t)
    BY <1>00, <2>3, SameOutputFacts DEF Settled
  <2>6. Ready(t)
    BY <1>00, <2>2, <2>3, <2>5 DEF Ready, Fresh, Settled, Flowing, SameOutput
  <2> QED
    BY <1>0, <1>00, <2>4, <2>6, ProcessOutputQueueOutput DEF OutputInv
<1>12. CASE CoalesceTimeout
  <2> DEFINE t == [srv EXCEPT !.coalesceTimer = FALSE, !.coalesceWindowExpired = TRUE]
  <2>1. srv.client /\ srv.coalesceTimer
    BY <1>12, <1>00 DEF CoalesceTimeout, Inv, Quiet
  <2>2. t \in Server
    BY <1>00 DEF Inv, Server
  <2>3. SameSessionData(srv, t)
    BY <1>00 DEF Inv, Server, SameSessionData
  <2>4. /\ t.fragmentOffset = srv.fragmentOffset /\ t.fragmentTimer = srv.fragmentTimer
        /\ t.fragmentIndex = srv.fragmentIndex /\ t.closing = srv.closing
    BY <1>00 DEF Inv, Server
  <2>5. PICK io \in Outcomes : srv' = ProcessOutputQueue(t, io.accepted)
    BY <1>12 DEF CoalesceTimeout
  <2> HIDE DEF t
  <2>6. Inv(t)
    BY <1>00, <2>1, <2>2, <2>3, SameInv
  <2>7. Wired(t)
    <3>1. WirePieces(t) = WirePieces(srv) /\ StartedTransmissions(t) = StartedTransmissions(srv)
      BY <2>3 DEF WirePieces, StartedTransmissions, SameSessionData
    <3>2. Midway(srv) => Midway(t)
      BY <2>3, <2>4, <3>1 DEF Midway, SameSessionData
    <3> QED
      BY <1>00, <2>3, <2>4, <3>1, <3>2 DEF Settled, Wired, SameSessionData
  <2>8. Ready(t)
    BY <1>00, <2>1, <2>3, <2>4, <2>6, <2>7 DEF Ready, Fresh, Settled, Flowing, SameSessionData
  <2> QED
    BY <1>0, <1>00, <2>5, <2>8, ProcessOutputQueueOutput DEF OutputInv
<1>13. CASE FragmentTimeout
  <2> DEFINE t == [srv EXCEPT !.fragmentTimer = FALSE]
  <2>1. srv.fragmentTimer /\ srv.writing /\ Midway(srv) /\ srv.activeTransmission # <<>>
    BY <1>13, <1>00 DEF FragmentTimeout, Settled, Wired, Midway
  <2>2. srv.client
    BY <1>00, <2>1 DEF Inv, Quiet
  <2>3. Inv(t)
    BY <1>00, FragmentTimerInv
  <2>4. /\ t.wire = srv.wire /\ t.outputQueue = srv.outputQueue
        /\ t.activeTransmission = srv.activeTransmission
        /\ t.fragmentOffset = srv.fragmentOffset /\ t.writing = srv.writing
        /\ t.fragmentIndex = srv.fragmentIndex
        /\ t.fragmentTimer = FALSE /\ t.coalesceTimer = srv.coalesceTimer
        /\ t.coalesceWindowExpired = srv.coalesceWindowExpired /\ t.client = srv.client
    BY <1>00 DEF Inv, Server
  <2>5. PICK io \in Outcomes : srv' = WriteNextFragment(t, io.accepted)
    BY <1>13 DEF FragmentTimeout
  <2> HIDE DEF t
  <2>6. WirePieces(t) = WirePieces(srv) /\ StartedTransmissions(t) = StartedTransmissions(srv)
    BY <2>4 DEF WirePieces, StartedTransmissions
  <2>7. Wired(t) /\ Midway(t)
    BY <1>00, <2>1, <2>4, <2>6 DEF Settled, Wired, Midway
  <2>8. NoWindow(t)
    BY <1>00, <2>1, <2>4 DEF Settled, Fresh, NoWindow
  <2>9. Writing(t)
    BY <2>1, <2>2, <2>3, <2>4, <2>7, <2>8 DEF Writing
  <2> QED
    BY <1>0, <1>00, <2>5, <2>9, WriteFragmentOutput DEF OutputInv
<1>14. CASE TelemetryTimeout
  BY <1>0, <1>14, PublishTelemetryOutput DEF TelemetryTimeout
<1>15. CASE DelayElapsed
  BY <1>0, <1>15, RunDelayedOutput DEF DelayElapsed, Elapsed
<1>16. CASE UNCHANGED vars
  BY <1>16 DEF vars
<1> QED
  BY <1>1, <1>2, <1>3, <1>4, <1>5, <1>6, <1>7, <1>8, <1>9, <1>10, <1>11, <1>12, <1>13,
     <1>14, <1>15, <1>16 DEF Next

-----------------------------------------------------------------------------
(* What holds of the output of every session. *)

OutputInvariant == OutputInv(srv)

\* The output is settled between any two callbacks
\* (DeviceSimulatorServer.cpp:265-345, 627-723).
THEOREM OutputInvariance == Spec => []OutputInvariant
<1>1. Init => OutputInvariant
  BY InitOutput DEF OutputInvariant
<1>2. OutputInvariant /\ [Next]_vars => OutputInvariant'
  BY StepOutput DEF OutputInvariant
<1> QED
  BY <1>1, <1>2, PTL DEF Spec

\* A coalescing window that expired is used by the batch it was opened for and
\* never shortens a later one (DeviceSimulatorServer.cpp:91-94, 287-301).
THEOREM WindowsFresh == Spec => []CoalesceWindowFresh
<1>1. OutputInvariant => CoalesceWindowFresh
  BY DEF OutputInvariant, OutputInv, Settled, Fresh, CoalesceWindowFresh
<1> QED
  BY <1>1, OutputInvariance, PTL

\* While the connection is open, what waits to be sent has something that will
\* send it (DeviceSimulatorServer.cpp:267, 289, 332, 721).
THEOREM OutputNotLost == Spec => []NoLostOutput
<1>1. OutputInvariant => NoLostOutput
  BY DEF OutputInvariant, OutputInv, Settled, Flowing, Wired, Midway, NoLostOutput, IsActive
<1> QED
  BY <1>1, OutputInvariance, PTL

\* Fragments of different frames never interleave, whatever the fragment sizes
\* and the order of the timers (DeviceSimulatorServer.cpp:267, 305-345).
THEOREM FramesNotInterleaved == Spec => []FramesContiguous
<1>1. OutputInvariant => FramesContiguous
  BY DEF OutputInvariant, OutputInv, Settled, Wired, Contiguous, Follows, FramesContiguous
<1> QED
  BY <1>1, OutputInvariance, PTL

\* A write carries one fragment, or whole frames that asked for coalescing alike
\* and no more of them than they asked for (DeviceSimulatorServer.cpp:272-282).
THEOREM WritesAgree == Spec => []CoalescedWritesAgree
<1>1. OutputInvariant => CoalescedWritesAgree
  BY DEF OutputInvariant, OutputInv, Settled, Wired, Agrees, CoalescedWritesAgree
<1> QED
  BY <1>1, OutputInvariance, PTL
=============================================================================
