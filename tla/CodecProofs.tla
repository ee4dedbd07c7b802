----------------------------- MODULE CodecProofs -----------------------------
(***************************************************************************)
(* Proofs about the decoder.  The invariant places the buffer and the      *)
(* argument of the running append in the stream of the peer; every         *)
(* iteration of parseAvailable() either skips bytes at which no frame can  *)
(* start any more, or takes a whole frame.  What encode() wrote of a       *)
(* message is such a frame, so of what a simulator sends the noise is      *)
(* skipped and the messages are read one after another.                    *)
(***************************************************************************)
EXTENDS CodecProperties, SequenceFacts, FiniteSetTheorems

-----------------------------------------------------------------------------
(* Bytes. *)

\* Two bytes make a word of 16 bits.
LEMMA WordOfBytes ==
    \A high, low \in Byte : 256 * high + low \in 0..MaxUInt16
<1> SUFFICES ASSUME NEW high \in Byte, NEW low \in Byte
             PROVE  256 * high + low \in 0..MaxUInt16
  OBVIOUS
<1>1. high \in Nat /\ high <= 255 /\ low \in Nat /\ low <= 255
  BY DEF Byte
<1> DEFINE word == 256 * high + low
<1>2. word \in Nat /\ word <= 65535
  BY <1>1, SMT
<1>3. MaxUInt16 \in Nat /\ MaxUInt16 >= 65535
  BY SMT DEF MaxUInt16
<1> HIDE DEF word
<1>4. word \in 0..MaxUInt16
  BY <1>2, <1>3, SMT
<1> QED
  BY <1>4 DEF word

\* The limits of the codec leave room for one frame.
LEMMA Limits ==
    /\ Codec.maxPayloadLength \in Nat /\ Codec.maxBufferedBytes \in Nat
    /\ Codec.maxPayloadLength + FixedFrameOverhead <= Codec.maxBufferedBytes
    /\ FixedFrameOverhead = 10 /\ PayloadOffset = 8
<1> DEFINE p == Codec.maxPayloadLength
           m == Codec.maxBufferedBytes
<1>1. p \in 0..MaxUInt16 /\ m \in (p + FixedFrameOverhead)..(1024 * 1024)
  BY CodecAssumption DEF ValidCodecOptions
<1> HIDE DEF p, m
<1>2. p \in Nat
  <2>1. MaxUInt16 \in Nat
    BY SMT DEF MaxUInt16
  <2> QED
    BY <1>1, <2>1, SMT
<1>3. m \in Nat /\ p + FixedFrameOverhead <= m
  BY <1>1, <1>2, SMT DEF FixedFrameOverhead
<1> QED
  BY <1>2, <1>3 DEF p, m, FixedFrameOverhead, PayloadOffset

\* A part of some bytes.
LEMMA MidFacts ==
    ASSUME NEW d \in Seq(Byte), NEW o \in Nat, NEW n \in Nat, o + n <= Len(d)
    PROVE  /\ Mid(d, o, n) \in Seq(Byte) /\ Len(Mid(d, o, n)) = n
           /\ \A i \in 1..n : Mid(d, o, n)[i] = d[o + i]
<1>1. Len(d) \in Nat /\ \A i \in 1..Len(d) : d[i] \in Byte
  BY LenProperties
<1>2. \A i \in (o + 1)..(o + n) : d[i] \in Byte
  BY <1>1
<1>3. /\ SubSeq(d, o + 1, o + n) \in Seq(Byte)
      /\ Len(SubSeq(d, o + 1, o + n)) =
             IF o + 1 <= o + n THEN (o + n) - (o + 1) + 1 ELSE 0
      /\ \A i \in 1..((o + n) - (o + 1) + 1) : SubSeq(d, o + 1, o + n)[i] = d[(o + 1) + i - 1]
  BY <1>2, SubSeqProperties
<1>4. (o + n) - (o + 1) + 1 = n /\ \A i \in 1..n : (o + 1) + i - 1 = o + i
  OBVIOUS
<1>5. (IF o + 1 <= o + n THEN (o + n) - (o + 1) + 1 ELSE 0) = n
  OBVIOUS
<1> QED
  BY <1>3, <1>4, <1>5, Zenon DEF Mid

\* What is left of some bytes.
LEMMA WithoutFacts ==
    ASSUME NEW d \in Seq(Byte), NEW c \in Nat, c <= Len(d)
    PROVE  /\ Without(d, c) \in Seq(Byte) /\ Len(Without(d, c)) = Len(d) - c
           /\ \A i \in 1..(Len(d) - c) : Without(d, c)[i] = d[c + i]
<1>1. Len(d) \in Nat
  BY LenProperties
<1> DEFINE n == Len(d) - c
<1>2. n \in Nat /\ c + n = Len(d)
  BY <1>1
<1>3. Without(d, c) = Mid(d, c, n)
  BY <1>2, Zenon DEF Without, Mid
<1> HIDE DEF n
<1>4. c + n <= Len(d)
  BY <1>1, <1>2
<1>5. /\ Mid(d, c, n) \in Seq(Byte) /\ Len(Mid(d, c, n)) = n
      /\ \A i \in 1..n : Mid(d, c, n)[i] = d[c + i]
  BY <1>2, <1>4, MidFacts
<1> QED
  BY <1>3, <1>5, Zenon DEF n

\* Without none of them the bytes are the same.
LEMMA WithoutNone == ASSUME NEW d \in Seq(Byte) PROVE Without(d, 0) = d
<1>1. 0 + 1 = 1
  OBVIOUS
<1> QED
  BY <1>1, SubSeqFull DEF Without

\* The length of a frame whose length bytes are there.
LEMMA LengthFacts ==
    ASSUME NEW d \in Seq(Byte), HasFrameLength(d)
    PROVE  /\ PayloadLength(d) \in 0..MaxUInt16 /\ PayloadLength(d) \in Nat
           /\ FrameLength(d) \in Nat /\ FrameLength(d) = 10 + PayloadLength(d)
<1>1. Len(d) >= 8 /\ Len(d) \in Nat
  BY LenProperties DEF HasFrameLength, PayloadOffset
<1>2. d[7] \in Byte /\ d[8] \in Byte
  BY <1>1, ElementOfSeq
<1>3. PayloadLength(d) = 256 * d[7] + d[8]
  BY DEF PayloadLength, ReadBigEndianUInt16, ByteAt, PayloadLengthOffset
<1>4. PayloadLength(d) \in 0..MaxUInt16
  <2>1. 256 * d[7] + d[8] \in 0..MaxUInt16
    BY <1>2, WordOfBytes, Zenon
  <2> QED
    BY <1>3, <2>1, Zenon
<1>5. 0..MaxUInt16 \subseteq Nat
  <2>1. MaxUInt16 \in Nat
    BY SMT DEF MaxUInt16
  <2> QED
    BY <2>1
<1>6. FrameLength(d) = 10 + PayloadLength(d)
  BY DEF FrameLength, FixedFrameOverhead
<1> QED
  BY <1>4, <1>5, <1>6

\* Where the first header is.
LEMMA HeaderFacts ==
    ASSUME NEW d \in Seq(Byte)
    PROVE  LET h == FindHeader(d)
               AtHeader(i) == d[i + 1] = HeaderFirst /\ d[i + 2] = HeaderSecond
           IN  /\ h = -1 \/ (h \in 0..(Len(d) - 2) /\ AtHeader(h))
               /\ \A j \in 0..(Len(d) - 2) : (h = -1 \/ j < h) => ~AtHeader(j)
<1> DEFINE h == FindHeader(d)
           AtHeader(i) == d[i + 1] = HeaderFirst /\ d[i + 2] = HeaderSecond
           S == {i \in 0..(Len(d) - 2) : AtHeader(i)}
<1>1. Len(d) \in Nat
  BY LenProperties
<1>2. \A i \in 0..(Len(d) - 2) :
          (ByteAt(d, i) = HeaderFirst /\ ByteAt(d, i + 1) = HeaderSecond) <=> AtHeader(i)
  <2>1. \A i \in 0..(Len(d) - 2) : (i + 1) + 1 = i + 2
    BY <1>1
  <2> QED
    BY <2>1, Zenon DEF ByteAt
<1>3. h = IF S = {} THEN -1 ELSE CHOOSE i \in S : \A j \in S : i <= j
  <2>1. S = {i \in 0..(Len(d) - 2) :
                 ByteAt(d, i) = HeaderFirst /\ ByteAt(d, i + 1) = HeaderSecond}
    <3> HIDE DEF AtHeader
    <3> QED
      BY <1>2
  <2> DEFINE T == {i \in 0..(Len(d) - 2) :
                       ByteAt(d, i) = HeaderFirst /\ ByteAt(d, i + 1) = HeaderSecond}
  <2>2. h = IF T = {} THEN -1 ELSE CHOOSE i \in T : \A j \in T : i <= j
    BY Zenon DEF FindHeader
  <2>3. S = T
    BY <2>1
  <2> HIDE DEF S, T
  <2> QED
    BY <2>2, <2>3
<1> HIDE DEF AtHeader, h
<1>4. CASE S = {}
  <2>1. h = -1 /\ \A j \in 0..(Len(d) - 2) : ~AtHeader(j)
    BY <1>3, <1>4
  <2> QED
    BY <2>1 DEF h, AtHeader
<1>5. CASE S # {}
  <2>1. S \subseteq Nat
    BY <1>1
  <2> HIDE DEF S
  <2>2. \E m \in S : \A x \in S : m <= x
    BY <1>5, <2>1, MinOfNaturals
  <2>3. h \in S /\ \A j \in S : h <= j
    BY <1>3, <1>5, <2>2
  <2>4. \A j \in 0..(Len(d) - 2) : (h = -1 \/ j < h) => ~AtHeader(j)
    <3> SUFFICES ASSUME NEW j \in 0..(Len(d) - 2), AtHeader(j), h = -1 \/ j < h
                 PROVE  FALSE
      OBVIOUS
    <3>1. j \in S
      BY DEF S
    <3>2. h <= j /\ h \in Nat /\ j \in Nat
      BY <2>1, <2>3, <3>1
    <3> QED
      BY <3>2
  <2>5. h \in 0..(Len(d) - 2) /\ AtHeader(h)
    BY <2>3 DEF S
  <2> QED
    BY <2>4, <2>5 DEF h, AtHeader
<1> QED
  BY <1>4, <1>5

-----------------------------------------------------------------------------
(* Frames and what is returned of them. *)

\* The frame at the front of some bytes that hold all of it.
LEMMA FrameFacts ==
    ASSUME NEW d \in Seq(Byte), HasFrameLength(d), Len(d) >= FrameLength(d),
           NEW frame, frame = Mid(d, 0, FrameLength(d))
    PROVE  /\ frame \in Seq(Byte) /\ Len(frame) = FrameLength(d)
           /\ ProtocolRequest(frame) \in Request /\ ProtocolRequest(frame).rawData = frame
<1>1. /\ PayloadLength(d) \in Nat /\ FrameLength(d) \in Nat
      /\ FrameLength(d) = 10 + PayloadLength(d)
  BY LengthFacts
<1>2. 0 \in Nat /\ 0 + FrameLength(d) <= Len(d)
  BY <1>1
<1>3. /\ frame \in Seq(Byte) /\ Len(frame) = FrameLength(d)
      /\ \A i \in 1..FrameLength(d) : frame[i] = d[0 + i]
  BY <1>1, <1>2, MidFacts
<1>4. frame[7] = d[7] /\ frame[8] = d[8]
  <2>1. 7 \in 1..FrameLength(d) /\ 8 \in 1..FrameLength(d) /\ 0 + 7 = 7 /\ 0 + 8 = 8
    BY <1>1
  <2> QED
    BY <1>3, <2>1, Zenon
<1>5. PayloadLength(frame) = PayloadLength(d)
  BY <1>4 DEF PayloadLength, ReadBigEndianUInt16, ByteAt, PayloadLengthOffset
<1>6. frame[3] \in Byte /\ frame[4] \in Byte /\ frame[5] \in Byte /\ frame[6] \in Byte
  BY <1>1, <1>3, ElementOfSeq
<1>7. /\ ByteAt(frame, VersionOffset) = frame[3] /\ ByteAt(frame, CommandOffset) = frame[4]
      /\ ReadBigEndianUInt16(frame, SequenceOffset) = 256 * frame[5] + frame[6]
  BY DEF ByteAt, ReadBigEndianUInt16, VersionOffset, CommandOffset, SequenceOffset
<1>8. ReadBigEndianUInt16(frame, SequenceOffset) \in 0..MaxUInt16
  BY <1>6, <1>7, WordOfBytes
<1>9. Mid(frame, PayloadOffset, PayloadLength(frame)) \in Seq(Byte)
  <2>1. PayloadOffset \in Nat /\ PayloadOffset + PayloadLength(frame) <= Len(frame)
    BY <1>1, <1>3, <1>5 DEF PayloadOffset
  <2> QED
    BY <1>1, <1>3, <1>5, <2>1, MidFacts
<1>10. ProtocolRequest(frame).rawData = frame
  BY DEF ProtocolRequest
<1>11. ProtocolRequest(frame) \in Request
  <2> DEFINE v == ByteAt(frame, VersionOffset)
             c == ByteAt(frame, CommandOffset)
             s == ReadBigEndianUInt16(frame, SequenceOffset)
             p == Mid(frame, PayloadOffset, PayloadLength(frame))
  <2>1. v \in Byte /\ c \in Byte /\ s \in 0..MaxUInt16 /\ p \in Seq(Byte)
    BY <1>6, <1>7, <1>8, <1>9
  <2>2. ProtocolRequest(frame) =
            [version |-> v, command |-> c, sequence |-> s, payload |-> p, rawData |-> frame]
    BY DEF ProtocolRequest
  <2> HIDE DEF v, c, s, p
  <2> QED
    BY <1>3, <2>1, <2>2 DEF Request
<1> QED
  BY <1>3, <1>10, <1>11

Results == [requests : Seq(Request), diagnostics : Seq(Diagnostic)]

Codes == {"NoiseDiscarded", "InvalidFrameLength", "ChecksumMismatch", "InvalidVersion",
          "BufferLimitExceeded"}

\* The bytes of some requests.
RawBytes(requests) == Total([i \in DOMAIN requests |-> Len(requests[i].rawData)])

\* Totals are the sums of SequenceFacts.
LEMMA Totals == \A sizes : Total(sizes) = SumOf(sizes)
BY DEF Total, SumOf

\* A diagnostic adds the bytes it reports.
LEMMA DiagnoseFacts ==
    ASSUME NEW r \in Results, NEW code \in Codes, NEW count \in Nat
    PROVE  /\ Diagnose(r, code, count) \in Results
           /\ Diagnose(r, code, count).requests = r.requests
           /\ DiscardedBytes(Diagnose(r, code, count)) = DiscardedBytes(r) + count
<1> DEFINE d == [code |-> code, discardedByteCount |-> count]
           r2 == Diagnose(r, code, count)
           s == r.diagnostics
           t == Append(s, d)
           sizes == [i \in DOMAIN s |-> s[i].discardedByteCount]
           sizes2 == [i \in DOMAIN t |-> t[i].discardedByteCount]
<1>1. d \in Diagnostic
  BY DEF Diagnostic, Codes
<1>2. r.requests \in Seq(Request) /\ s \in Seq(Diagnostic)
  BY DEF Results
<1>3. r2 = [requests |-> r.requests, diagnostics |-> t]
  <2>1. r2 = [r EXCEPT !.diagnostics = t]
    BY Zenon DEF Diagnose
  <2> HIDE DEF r2, t
  <2> QED
    BY <2>1 DEF Results
<1>4. /\ t \in Seq(Diagnostic) /\ Len(t) = Len(s) + 1 /\ t[Len(s) + 1] = d
      /\ \A i \in 1..Len(s) : t[i] = s[i]
  <2> HIDE DEF d, s
  <2> QED
    BY <1>1, <1>2, AppendProperties
<1>5. r2 \in Results /\ r2.requests = r.requests
  <2> HIDE DEF t, r2
  <2> QED
    BY <1>2, <1>3, <1>4 DEF Results
<1>6. \A x \in Diagnostic : x.discardedByteCount \in Nat
  BY DEF Diagnostic
<1>7. Len(s) \in Nat /\ DOMAIN s = 1..Len(s) /\ DOMAIN t = 1..(Len(s) + 1)
  BY <1>2, <1>4, LenProperties
<1>8. sizes \in Seq(Nat) /\ Len(sizes) = Len(s)
  <2> DEFINE n == Len(s)
  <2>1. \A i \in 1..n : s[i].discardedByteCount \in Nat
    BY <1>2, <1>6, ElementOfSeq
  <2>2. sizes = [i \in 1..n |-> s[i].discardedByteCount]
    BY <1>7
  <2> HIDE DEF n, sizes, s
  <2> QED
    BY <1>7, <2>1, <2>2 DEF n
<1>9. sizes2 = Append(sizes, count)
  <2>1. Append(sizes, count) \in Seq(Nat) /\ Len(Append(sizes, count)) = Len(s) + 1
        /\ Append(sizes, count)[Len(s) + 1] = count
        /\ \A i \in 1..Len(s) : Append(sizes, count)[i] = s[i].discardedByteCount
    <3>1. /\ Append(sizes, count) \in Seq(Nat)
          /\ Len(Append(sizes, count)) = Len(sizes) + 1
          /\ Append(sizes, count)[Len(sizes) + 1] = count
          /\ \A i \in 1..Len(sizes) : Append(sizes, count)[i] = sizes[i]
      <4> HIDE DEF sizes
      <4> QED
        BY <1>8, AppendProperties
    <3>2. \A i \in 1..Len(s) : sizes[i] = s[i].discardedByteCount
      BY <1>7
    <3> HIDE DEF sizes, s
    <3> QED
      BY <1>8, <3>1, <3>2
  <2> DEFINE a == Append(sizes, count)
  <2>2. DOMAIN a = 1..(Len(s) + 1)
    <3>1. a \in Seq(Nat) /\ Len(a) = Len(s) + 1
      BY <2>1
    <3> HIDE DEF a
    <3> QED
      BY <3>1, LenProperties
  <2>3. \A i \in 1..(Len(s) + 1) : a[i] = t[i].discardedByteCount
    <3> TAKE i \in 1..(Len(s) + 1)
    <3>1. CASE i = Len(s) + 1
      <4>1. t[i].discardedByteCount = count
        BY <1>4, <3>1
      <4> HIDE DEF a, t, s
      <4> QED
        BY <2>1, <3>1, <4>1 DEF a
    <3>2. CASE i \in 1..Len(s)
      BY <1>4, <2>1, <3>2
    <3> QED
      BY <1>7, <3>1, <3>2
  <2>4. a = [i \in 1..(Len(s) + 1) |-> a[i]]
    <3>1. a \in Seq(Nat) /\ Len(a) = Len(s) + 1
      BY <2>1
    <3> HIDE DEF a
    <3> QED
      BY <2>2, <3>1, LenProperties
  <2> HIDE DEF a, t, s
  <2> QED
    BY <1>7, <2>3, <2>4 DEF a
<1>10. SumOf(sizes2) = SumOf(sizes) + count
  <2> HIDE DEF sizes, sizes2
  <2> QED
    BY <1>8, <1>9, SumAppend
<1>11. DiscardedBytes(r) = SumOf(sizes) /\ DiscardedBytes(r2) = SumOf(sizes2)
  <2>1. r2.diagnostics = t
    BY <1>3
  <2> HIDE DEF r2, t
  <2> QED
    BY <2>1, Totals, Zenon DEF DiscardedBytes
<1> HIDE DEF r2, sizes, sizes2
<1> QED
  BY <1>5, <1>10, <1>11 DEF r2

\* A request adds its raw bytes.
LEMMA RawBytesAppend ==
    ASSUME NEW s \in Seq(Request), NEW q \in Request
    PROVE  RawBytes(Append(s, q)) = RawBytes(s) + Len(q.rawData)
<1> DEFINE t == Append(s, q)
           n == Len(s)
           size(x) == Len(x.rawData)
           sizes == [i \in DOMAIN s |-> size(s[i])]
           sizes2 == [i \in DOMAIN t |-> size(t[i])]
           a == Append(sizes, size(q))
<1>1. /\ t \in Seq(Request) /\ Len(t) = n + 1 /\ t[n + 1] = q
      /\ \A i \in 1..n : t[i] = s[i]
  BY AppendProperties
<1>2. \A x \in Request : size(x) \in Nat
  <2> TAKE x \in Request
  <2>1. x.rawData \in Seq(Byte)
    BY DEF Request
  <2> QED
    BY <2>1, LenProperties
<1>3. n \in Nat /\ DOMAIN s = 1..n /\ \A i \in 1..n : s[i] \in Request
  BY LenProperties
<1> HIDE DEF size, t, n
<1>4. DOMAIN t = 1..(n + 1)
  BY <1>1, LenProperties
<1>5. sizes \in Seq(Nat) /\ Len(sizes) = n /\ \A i \in 1..n : sizes[i] = size(s[i])
  BY <1>2, <1>3
<1>6. size(q) \in Nat
  BY <1>2
<1> HIDE DEF sizes
<1>7. /\ a \in Seq(Nat) /\ Len(a) = n + 1 /\ a[n + 1] = size(q)
      /\ \A i \in 1..n : a[i] = sizes[i]
  BY <1>5, <1>6, AppendProperties
<1> HIDE DEF a
<1>8. a = sizes2
  <2>1. \A i \in 1..(n + 1) : a[i] = size(t[i])
    <3> TAKE i \in 1..(n + 1)
    <3>1. CASE i = n + 1
      BY <1>1, <1>7, <3>1
    <3>2. CASE i # n + 1
      <4>1. i \in 1..n
        BY <1>3, <3>2
      <4> QED
        BY <1>1, <1>5, <1>7, <4>1
    <3> QED
      BY <3>1, <3>2
  <2>2. a = [i \in 1..(n + 1) |-> a[i]]
    BY <1>7, LenProperties
  <2> QED
    BY <1>4, <2>1, <2>2
<1> HIDE DEF sizes2
<1>9. SumOf(a) = SumOf(sizes) + size(q)
  BY <1>5, <1>6, SumAppend DEF a
<1>10. RawBytes(s) = SumOf(sizes) /\ RawBytes(t) = SumOf(sizes2)
  BY Totals, Zenon DEF RawBytes, sizes, sizes2, size
<1> QED
  BY <1>8, <1>9, <1>10, Zenon DEF t, size

\* What nothing has been found in, and the number of its bytes.
LEMMA NothingFound ==
    /\ NoResult \in Results /\ NoResult.requests = <<>>
    /\ DiscardedBytes(NoResult) = 0 /\ RawBytes(<<>>) = 0
<1>1. \A f : Total([i \in DOMAIN <<>> |-> f[i]]) = 0
  <2> TAKE f
  <2>1. [i \in DOMAIN <<>> |-> f[i]] = <<>>
    OBVIOUS
  <2> QED
    BY <2>1, Totals, SumOfNone, Zenon
<1>2. NoResult \in Results /\ NoResult.requests = <<>> /\ NoResult.diagnostics = <<>>
  BY DEF NoResult, Results
<1>3. DiscardedBytes(NoResult) = 0
  <2>1. [i \in DOMAIN <<>> |-> <<>>[i].discardedByteCount] = <<>>
    OBVIOUS
  <2> QED
    BY <1>2, <2>1, Totals, SumOfNone, Zenon DEF DiscardedBytes
<1>4. RawBytes(<<>>) = 0
  <2>1. [i \in DOMAIN <<>> |-> Len(<<>>[i].rawData)] = <<>>
    OBVIOUS
  <2> QED
    BY <2>1, Totals, SumOfNone, Zenon DEF RawBytes
<1> QED
  BY <1>2, <1>3, <1>4

\* Discarded bytes are a natural number of them.
LEMMA DiscardedType == ASSUME NEW r \in Results PROVE DiscardedBytes(r) \in Nat
<1> DEFINE s == r.diagnostics
           sizes == [i \in DOMAIN s |-> s[i].discardedByteCount]
<1>1. s \in Seq(Diagnostic)
  BY DEF Results
<1>2. \A x \in Diagnostic : x.discardedByteCount \in Nat
  BY DEF Diagnostic
<1>3. sizes \in Seq(Nat)
  <2> HIDE DEF s
  <2>1. Len(s) \in Nat /\ DOMAIN s = 1..Len(s) /\ \A i \in 1..Len(s) : s[i] \in Diagnostic
    BY <1>1, LenProperties
  <2> QED
    BY <1>2, <2>1
<1> QED
  BY <1>3, SumType, Totals, Zenon DEF DiscardedBytes

-----------------------------------------------------------------------------
(* What may start with some bytes: a whole frame is there, it is too early *)
(* to tell, or no frame ever starts there.                                 *)

LikeHeader(d) == d[1] = HeaderFirst /\ (Len(d) > 1 => d[2] = HeaderSecond)

Whole(d) ==
    /\ Len(d) >= PayloadOffset
    /\ d[1] = HeaderFirst /\ d[2] = HeaderSecond
    /\ FitsLimit(d) /\ Len(d) >= FrameLength(d)
    /\ ChecksumMatches(Mid(d, 0, FrameLength(d)))

Waits(d) ==
    /\ d # <<>> /\ LikeHeader(d)
    /\ HasFrameLength(d) => FitsLimit(d) /\ Len(d) < FrameLength(d)

Rejected(d) == d # <<>> /\ ~Whole(d) /\ ~Waits(d)

\* No frame starts with bytes that begin otherwise.
LEMMA NoiseRejected ==
    ASSUME NEW d \in Seq(Byte), d # <<>>, ~LikeHeader(d)
    PROVE  Rejected(d)
BY DEF Rejected, Whole, Waits, LikeHeader

\* What waits is shorter than the longest frame.
LEMMA WaitingIsShort ==
    ASSUME NEW d \in Seq(Byte), d = <<>> \/ Waits(d)
    PROVE  Len(d) < Codec.maxPayloadLength + FixedFrameOverhead
<1>1. CASE d = <<>>
  <2>1. Len(d) = 0
    BY <1>1
  <2> QED
    BY <2>1, Limits
<1>2. CASE Waits(d) /\ ~HasFrameLength(d)
  <2>1. Len(d) < 8 /\ Len(d) \in Nat
    BY <1>2, LenProperties DEF HasFrameLength, PayloadOffset
  <2> QED
    BY <2>1, Limits
<1>3. CASE Waits(d) /\ HasFrameLength(d)
  <2>1. FrameLength(d) = 10 + PayloadLength(d) /\ PayloadLength(d) \in Nat
    BY <1>3, LengthFacts
  <2>2. PayloadLength(d) <= Codec.maxPayloadLength /\ Len(d) < FrameLength(d) /\ Len(d) \in Nat
    BY <1>3, LenProperties DEF Waits, FitsLimit
  <2> QED
    BY <2>1, <2>2, Limits
<1> QED
  BY <1>1, <1>2, <1>3

\* A frame that is there, and bytes with which none starts, stay what they
\* are when more bytes arrive.
LEMMA Final ==
    ASSUME NEW d \in Seq(Byte), NEW e \in Seq(Byte),
           Len(d) <= Len(e) /\ \A i \in 1..Len(d) : e[i] = d[i]
    PROVE  /\ Whole(d) => /\ Whole(e) /\ FrameLength(e) = FrameLength(d)
                          /\ Mid(e, 0, FrameLength(e)) = Mid(d, 0, FrameLength(d))
           /\ Rejected(d) => Rejected(e)
<1>1. Len(d) \in Nat /\ Len(e) \in Nat
  BY LenProperties
<1>2. HasFrameLength(d) => HasFrameLength(e) /\ PayloadLength(e) = PayloadLength(d)
                               /\ FrameLength(e) = FrameLength(d)
  <2> SUFFICES ASSUME HasFrameLength(d)
               PROVE  HasFrameLength(e) /\ PayloadLength(e) = PayloadLength(d)
    BY Zenon DEF FrameLength
  <2>1. Len(e) >= 8 /\ 7 \in 1..Len(d) /\ 8 \in 1..Len(d)
    BY <1>1 DEF HasFrameLength, PayloadOffset
  <2>2. e[7] = d[7] /\ e[8] = d[8]
    BY <2>1
  <2> QED
    BY <2>1, <2>2
    DEF HasFrameLength, PayloadOffset, PayloadLength, ReadBigEndianUInt16, ByteAt,
        PayloadLengthOffset
<1>3. ASSUME HasFrameLength(d), Len(d) >= FrameLength(d)
      PROVE  Mid(e, 0, FrameLength(e)) = Mid(d, 0, FrameLength(d))
  <2> DEFINE n == FrameLength(d)
             x == Mid(d, 0, n)
             y == Mid(e, 0, n)
  <2>1. n \in Nat /\ 0 + n <= Len(d) /\ 0 + n <= Len(e)
    BY <1>1, <1>3, LengthFacts
  <2> HIDE DEF n
  <2>2. x \in Seq(Byte) /\ Len(x) = n /\ \A i \in 1..n : x[i] = d[0 + i]
    BY <2>1, MidFacts
  <2>3. y \in Seq(Byte) /\ Len(y) = n /\ \A i \in 1..n : y[i] = e[0 + i]
    BY <2>1, MidFacts
  <2>4. \A i \in 1..n : 0 + i \in 1..Len(d)
    BY <1>1, <2>1
  <2>5. x = y
    <3> HIDE DEF x, y
    <3>1. \A i \in 1..n : x[i] = y[i]
      BY <2>2, <2>3, <2>4
    <3> QED
      BY <2>2, <2>3, <3>1, SeqEqual
  <2> QED
    BY <1>2, <1>3, <2>5 DEF n
<1>4. d # <<>> => e # <<>> /\ e[1] = d[1]
  <2>1. d # <<>> => Len(d) # 0
    BY EmptySeq
  <2>2. Len(<<>>) = 0
    OBVIOUS
  <2> QED
    BY <1>1, <2>1, <2>2
<1>5. Len(d) > 1 => e[2] = d[2] /\ Len(e) > 1
  BY <1>1
<1>6. HasFrameLength(d) => d # <<>> /\ Len(d) > 1
  BY <1>1 DEF HasFrameLength, PayloadOffset
<1>7. HasFrameLength(d) => FrameLength(d) \in Nat
  BY LengthFacts
<1>8. ASSUME Whole(d)
      PROVE  /\ Whole(e) /\ FrameLength(e) = FrameLength(d)
             /\ Mid(e, 0, FrameLength(e)) = Mid(d, 0, FrameLength(d))
  <2>1. HasFrameLength(d) /\ Len(d) >= FrameLength(d)
    BY <1>8 DEF Whole, HasFrameLength
  <2>2. Mid(e, 0, FrameLength(e)) = Mid(d, 0, FrameLength(d))
    BY <1>3, <2>1
  <2>3. Len(e) >= FrameLength(e)
    BY <1>1, <1>2, <1>7, <2>1
  <2>4. FitsLimit(e)
    BY <1>2, <1>8, <2>1 DEF Whole, FitsLimit
  <2>5. e[1] = HeaderFirst /\ e[2] = HeaderSecond
    BY <1>4, <1>5, <1>6, <1>8, <2>1 DEF Whole
  <2>6. ChecksumMatches(Mid(e, 0, FrameLength(e)))
    BY <1>8, <2>2, Zenon DEF Whole
  <2> QED
    BY <1>2, <2>1, <2>2, <2>3, <2>4, <2>5, <2>6 DEF Whole, HasFrameLength
<1>9. ASSUME Rejected(d)
      PROVE  Rejected(e)
  <2>1. d # <<>> /\ ~Whole(d) /\ ~Waits(d) /\ e # <<>>
    BY <1>4, <1>9 DEF Rejected
  <2>2. CASE ~LikeHeader(d)
    <3>1. ~LikeHeader(e)
      BY <1>4, <1>5, <2>1, <2>2 DEF LikeHeader
    <3> QED
      BY <2>1, <3>1, NoiseRejected
  <2>3. CASE LikeHeader(d)
    <3>1. HasFrameLength(d) /\ ~(FitsLimit(d) /\ Len(d) < FrameLength(d))
      BY <2>1, <2>3 DEF Waits
    <3>2. CASE ~FitsLimit(d)
      <4>1. ~FitsLimit(e) /\ HasFrameLength(e)
        BY <1>2, <3>1, <3>2 DEF FitsLimit
      <4> QED
        BY <2>1, <4>1 DEF Rejected, Whole, Waits
    <3>3. CASE FitsLimit(d)
      <4>1. Len(d) >= FrameLength(d)
        BY <1>1, <1>7, <3>1, <3>3
      <4>2. ~ChecksumMatches(Mid(d, 0, FrameLength(d)))
        BY <1>6, <2>1, <2>3, <3>1, <3>3, <4>1 DEF Whole, LikeHeader, HasFrameLength
      <4>3. ~ChecksumMatches(Mid(e, 0, FrameLength(e)))
        BY <1>3, <3>1, <4>1, <4>2
      <4>4. HasFrameLength(e) /\ ~(Len(e) < FrameLength(e))
        BY <1>1, <1>2, <1>7, <3>1, <4>1
      <4> QED
        BY <2>1, <4>3, <4>4 DEF Rejected, Whole, Waits
    <3> QED
      BY <3>2, <3>3
  <2> QED
    BY <2>2, <2>3
<1> QED
  BY <1>8, <1>9


-----------------------------------------------------------------------------
(* The steps, as what they do to the buffer and to what is returned. *)

\* Requests found, and bytes discarded, by the calls up to now, the running
\* one included.
Got == found \o result.requests
Given == reported + DiscardedBytes(result)

\* Between two iterations nothing is in the buffer or what is there waits; a
\* running call has an argument.
Held ==
    /\ pc # "parse" => m_buffer = <<>> \/ Waits(m_buffer)
    /\ pc # "idle" => data # <<>>

\* The bytes in the buffer are the last of those put there.
Placed ==
    /\ Len(m_buffer) <= Buffered
    /\ \A i \in 1..Len(m_buffer) : m_buffer[i] = stream[Removed + i]
    /\ \A i \in 1..Len(data) : data[i] = stream[(arrived - Len(data)) + i]

\* count bytes leave the front of the buffer.
Moves(count) ==
    /\ count \in 0..Len(m_buffer) /\ m_buffer' = Without(m_buffer, count)
    /\ stream' = stream /\ arrived' = arrived /\ Buffered' = Buffered
    /\ data' = data \/ data' = <<>>

\* No frame starts with any of them.
Skips(count) ==
    /\ Moves(count) /\ taken' = taken
    /\ \A j \in 0..(count - 1) : Rejected(Without(m_buffer, j))
    /\ Got' = Got /\ Given' = Given + count

\* They are a frame, which is a request if its version is right.
Takes ==
    /\ Whole(m_buffer) /\ Moves(FrameLength(m_buffer)) /\ taken' = taken \cup {Removed}
    /\ IF ByteAt(FirstFrame, VersionOffset) = Codec.version
       THEN Got' = Append(Got, ProtocolRequest(FirstFrame)) /\ Given' = Given
       ELSE Got' = Got /\ Given' = Given + FrameLength(m_buffer)

\* count bytes are put behind the others.
Fills(count) ==
    /\ count \in 1..(Len(data) - offset)
    /\ m_buffer' = m_buffer \o Mid(data, offset, count) /\ Buffered' = Buffered + count
    /\ stream' = stream /\ arrived' = arrived /\ data' = data /\ taken' = taken
    /\ Got' = Got /\ Given' = Given

\* A call begins.
Begins ==
    /\ data = <<>> /\ offset = 0
    /\ \E count \in 1..(Len(stream) - arrived) :
            data' = Mid(stream, arrived, count) /\ arrived' = arrived + count
    /\ m_buffer' = m_buffer /\ stream' = stream /\ Buffered' = Buffered /\ taken' = taken
    /\ Got' = Got /\ Given' = Given

\* Another stream begins.
Resets ==
    /\ m_buffer' = <<>> /\ data' = <<>> /\ arrived' = 0 /\ Buffered' = 0 /\ taken' = {}
    /\ Got' = <<>> /\ Given' = 0

\* The numbers the types give.
LEMMA TypeFacts ==
    ASSUME TypeOK
    PROVE  /\ stream \in Seq(Byte) /\ Len(stream) \in Nat /\ arrived \in Nat
           /\ Len(data) \in Nat /\ offset \in Nat /\ Len(m_buffer) \in Nat
           /\ Buffered \in Nat /\ Buffered <= arrived /\ arrived <= Len(stream)
           /\ result \in Results /\ Got \in Seq(Request) /\ Given \in Nat
<1>1. stream \in Seq(Byte) /\ m_buffer \in Seq(Byte) /\ data \in Seq(Byte)
  BY StreamsAssumption DEF TypeOK
<1>2. Len(stream) \in Nat /\ Len(m_buffer) \in Nat /\ Len(data) \in Nat
  BY <1>1, LenProperties
<1>3. arrived \in 0..Len(stream) /\ offset \in 0..Len(data) /\ Len(data) <= arrived
  BY DEF TypeOK
<1>4. result \in Results /\ found \in Seq(Request) /\ reported \in Nat
  BY DEF TypeOK, Results
<1>5. Got \in Seq(Request)
  <2>1. result.requests \in Seq(Request)
    BY <1>4 DEF Results
  <2> QED
    BY <1>4, <2>1, ConcatProperties DEF Got
<1>6. Given \in Nat
  <2>1. DiscardedBytes(result) \in Nat
    BY <1>4, DiscardedType
  <2> QED
    BY <1>4, <2>1 DEF Given
<1> QED
  BY <1>1, <1>2, <1>3, <1>4, <1>5, <1>6 DEF Buffered

\* parseAvailable() returns.
LEMMA ReturnShape ==
    ASSUME TypeOK, pc = "parse", NEW r \in Results, NEW buffer \in Seq(Byte),
           ParseReturns(buffer, r)
    PROVE  /\ TypeOK' /\ pc' # "parse" /\ (pc' # "idle" => data' = data)
           /\ m_buffer' = buffer /\ taken' = taken
           /\ stream' = stream /\ arrived' = arrived /\ Buffered' = Buffered
           /\ data' = data \/ data' = <<>>
           /\ Got' = found \o r.requests /\ Given' = reported + DiscardedBytes(r)
<1>1. /\ stream' = stream /\ arrived' = arrived /\ taken' = taken /\ m_buffer' = buffer
  BY DEF ParseReturns
<1>2. /\ Len(data) \in Nat /\ offset \in Nat /\ offset <= Len(data) /\ arrived \in Nat
  BY TypeFacts DEF TypeOK
<1>3. CASE offset < Len(data)
  <2>1. /\ result' = r /\ pc' = "fill" /\ data' = data /\ offset' = offset
        /\ found' = found /\ reported' = reported
    BY <1>3 DEF ParseReturns
  <2>2. TypeOK'
    BY <1>1, <1>3, <2>1 DEF TypeOK, Results
  <2>3. Buffered' = Buffered
    BY <1>1, <2>1 DEF Buffered
  <2>4. Got' = found \o r.requests /\ Given' = reported + DiscardedBytes(r)
    BY <2>1, Zenon DEF Got, Given, DiscardedBytes
  <2> QED
    BY <1>1, <2>1, <2>2, <2>3, <2>4
<1>4. CASE ~(offset < Len(data))
  <2>1. /\ result' = NoResult /\ pc' = "idle" /\ data' = <<>> /\ offset' = 0
        /\ found' = found \o r.requests /\ reported' = reported + DiscardedBytes(r)
    BY <1>4 DEF ParseReturns
  <2>2. found' \in Seq(Request) /\ reported' \in Nat
    <3>1. r.requests \in Seq(Request) /\ found \in Seq(Request) /\ reported \in Nat
      BY DEF Results, TypeOK
    <3>2. DiscardedBytes(r) \in Nat
      BY DiscardedType
    <3>3. found \o r.requests \in Seq(Request)
      BY <3>1, ConcatProperties
    <3> QED
      BY <2>1, <3>1, <3>2, <3>3
  <2>3. Len(data') = 0 /\ data' \in Seq(Byte)
    BY <2>1
  <2>4. TypeOK'
    <3>1. result' \in Results
      BY <2>1, NothingFound
    <3> HIDE DEF NoResult
    <3>2. offset' \in 0..Len(data') /\ Len(data') <= arrived'
      BY <1>1, <1>2, <2>1, <2>3
    <3> QED
      BY <1>1, <2>1, <2>2, <2>3, <3>1, <3>2 DEF TypeOK, Results
  <2>5. Buffered' = Buffered
    <3>1. Buffered = arrived
      BY <1>2, <1>4 DEF Buffered
    <3>2. Buffered' = arrived
      BY <1>1, <1>2, <2>1, <2>3 DEF Buffered
    <3> QED
      BY <3>1, <3>2
  <2>6. Got' = found \o r.requests
    <3>1. Got' = found' \o <<>>
      BY <2>1, NothingFound, Zenon DEF Got
    <3> QED
      BY <2>1, <2>2, <3>1, ConcatEmptySeq
  <2>7. Given' = reported + DiscardedBytes(r)
    <3>1. Given' = reported' + 0
      BY <2>1, NothingFound, Zenon DEF Given, DiscardedBytes
    <3> QED
      BY <2>1, <2>2, <3>1
  <2> QED
    BY <1>1, <2>1, <2>4, <2>5, <2>6, <2>7
<1> QED
  BY <1>3, <1>4

\* An iteration drops bytes and goes on.
LEMMA DiscardShape ==
    ASSUME TypeOK, pc = "parse", NEW code \in Codes, NEW count \in Nat,
           /\ count <= Len(m_buffer) /\ Discard(code, count)
           /\ taken' \subseteq 0..Len(stream)
    PROVE  TypeOK' /\ Moves(count) /\ Got' = Got /\ Given' = Given + count
           /\ pc' = pc /\ data' = data
<1>1. /\ m_buffer' = Without(m_buffer, count) /\ result' = Diagnose(result, code, count)
      /\ data' = data /\ offset' = offset /\ pc' = pc /\ stream' = stream
      /\ arrived' = arrived /\ found' = found /\ reported' = reported
  BY DEF Discard
<1>2. result \in Results /\ m_buffer \in Seq(Byte) /\ Len(m_buffer) \in Nat /\ reported \in Nat
  BY TypeFacts DEF TypeOK
<1>3. m_buffer' \in Seq(Byte)
  BY <1>1, <1>2, WithoutFacts
<1>4. /\ result' \in Results /\ result'.requests = result.requests
      /\ DiscardedBytes(result') = DiscardedBytes(result) + count
  BY <1>1, <1>2, DiagnoseFacts
<1>5. TypeOK'
  BY <1>1, <1>3, <1>4 DEF TypeOK, Results
<1>6. Buffered' = Buffered
  BY <1>1 DEF Buffered
<1>7. Moves(count)
  BY <1>1, <1>2, <1>6 DEF Moves
<1>8. Got' = Got
  BY <1>1, <1>4, Zenon DEF Got
<1>9. Given' = Given + count
  <2>1. Given' = reported + DiscardedBytes(result')
    BY <1>1, Zenon DEF Given, DiscardedBytes
  <2>2. DiscardedBytes(result) \in Nat
    BY <1>2, DiscardedType
  <2> QED
    BY <1>2, <1>4, <2>1, <2>2 DEF Given
<1> QED
  BY <1>1, <1>5, <1>7, <1>8, <1>9


\* The bytes behind j of them, and the first header.
LEMMA NoHeaderRejected ==
    ASSUME NEW d \in Seq(Byte), NEW j \in Nat, j < Len(d),
           \/ d[j + 1] # HeaderFirst
           \/ j + 2 <= Len(d) /\ d[j + 2] # HeaderSecond
    PROVE  Rejected(Without(d, j))
<1> DEFINE e == Without(d, j)
<1>1. Len(d) \in Nat
  BY LenProperties
<1>2. e \in Seq(Byte) /\ Len(e) = Len(d) - j /\ \A i \in 1..(Len(d) - j) : e[i] = d[j + i]
  BY <1>1, WithoutFacts
<1> HIDE DEF e
<1>3. Len(e) # 0 /\ e[1] = d[j + 1]
  BY <1>1, <1>2
<1>4. e # <<>>
  BY <1>3
<1>5. j + 2 <= Len(d) => Len(e) > 1 /\ e[2] = d[j + 2]
  BY <1>1, <1>2
<1>6. ~LikeHeader(e)
  BY <1>3, <1>5 DEF LikeHeader
<1> QED
  BY <1>2, <1>4, <1>6, NoiseRejected DEF e

\* A header is first.
LEMMA HeaderIsThere ==
    ASSUME NEW d \in Seq(Byte), FindHeader(d) = 0
    PROVE  /\ Len(d) >= 2 /\ d # <<>> /\ d[1] = HeaderFirst /\ d[2] = HeaderSecond
           /\ LikeHeader(d)
<1>1. Len(d) \in Nat
  BY LenProperties
<1>2. 0 \in 0..(Len(d) - 2) /\ d[0 + 1] = HeaderFirst /\ d[0 + 2] = HeaderSecond
  BY HeaderFacts
<1>3. Len(d) >= 2 /\ d[1] = HeaderFirst /\ d[2] = HeaderSecond
  BY <1>1, <1>2
<1>4. d # <<>>
  BY <1>3
<1> QED
  BY <1>3, <1>4 DEF LikeHeader

\* Concatenation of requests is associative.
LEMMA ConcatRequests == \A u, v, w \in Seq(Request) : (u \o v) \o w = u \o (v \o w)
BY ConcatAssoc

\* Every iteration does one of these.
LEMMA IterationShape ==
    ASSUME TypeOK, Held, Placed, pc = "parse",
           \/ BufferEmpty \/ DiscardAllNoise \/ DiscardNoise \/ WaitForBytes
           \/ RejectLength \/ RejectChecksum \/ RejectVersion \/ TakeRequest
    PROVE  /\ TypeOK' /\ Held'
           /\ Takes \/ \E count \in Nat : Skips(count)
<1> DEFINE d == m_buffer
<1>1. d \in Seq(Byte) /\ Len(d) \in Nat /\ result \in Results /\ Given \in Nat
      /\ Got \in Seq(Request) /\ data # <<>> /\ found \in Seq(Request) /\ reported \in Nat
  BY TypeFacts DEF TypeOK, Held
<1>2. taken \subseteq 0..Len(stream)
  BY DEF TypeOK
<1>3. Removed \in 0..Len(stream)
  <2>1. Len(m_buffer) <= Buffered
    BY DEF Placed
  <2>2. Buffered \in Nat /\ Buffered <= arrived /\ arrived <= Len(stream)
        /\ arrived \in Nat /\ Len(stream) \in Nat
    BY TypeFacts
  <2> QED
    BY <1>1, <2>1, <2>2 DEF Removed
<1>4. Without(d, 0) = d
  BY <1>1, WithoutNone
\* Returning with what is kept of the buffer.
<1>5. ASSUME NEW count \in 0..Len(d), NEW r \in Results, ParseReturns(Without(d, count), r),
             r.requests = result.requests, DiscardedBytes(r) = DiscardedBytes(result) + count,
             \A j \in 0..(count - 1) : Rejected(Without(d, j)),
             Without(d, count) = <<>> \/ Waits(Without(d, count))
      PROVE  TypeOK' /\ Held' /\ \E n \in Nat : Skips(n)
  <2>1. Without(d, count) \in Seq(Byte)
    BY <1>1, WithoutFacts
  <2>2. /\ TypeOK' /\ pc' # "parse" /\ (pc' # "idle" => data' = data)
        /\ m_buffer' = Without(d, count) /\ taken' = taken
        /\ stream' = stream /\ arrived' = arrived /\ Buffered' = Buffered
        /\ data' = data \/ data' = <<>>
        /\ Got' = found \o r.requests /\ Given' = reported + DiscardedBytes(r)
    BY <1>5, <2>1, ReturnShape
  <2>3. Got' = Got
    BY <1>5, <2>2, Zenon DEF Got
  <2>4. Given' = Given + count
    <3>1. DiscardedBytes(result) \in Nat
      BY <1>1, DiscardedType
    <3> QED
      BY <1>1, <1>5, <2>2, <3>1 DEF Given
  <2>5. Skips(count)
    BY <1>5, <2>2, <2>3, <2>4, Zenon DEF Skips, Moves
  <2>6. Held'
    BY <1>1, <1>5, <2>2, Zenon DEF Held, Waits, LikeHeader
  <2> QED
    BY <2>2, <2>5, <2>6
\* Returning with the whole buffer.
<1>6. ASSUME ParseReturns(d, result), d = <<>> \/ Waits(d)
      PROVE  TypeOK' /\ Held' /\ \E n \in Nat : Skips(n)
  <2>1. 0 \in 0..Len(d) /\ \A j \in 0..(0 - 1) : Rejected(Without(d, j))
    BY <1>1
  <2>2. DiscardedBytes(result) = DiscardedBytes(result) + 0
    BY <1>1, DiscardedType
  <2> QED
    BY <1>1, <1>4, <1>5, <1>6, <2>1, <2>2
\* Going on with what is left.
<1>7. ASSUME NEW count \in Nat, count <= Len(d), NEW code \in Codes, Discard(code, count),
             taken' = taken, \A j \in 0..(count - 1) : Rejected(Without(d, j))
      PROVE  TypeOK' /\ Held' /\ \E n \in Nat : Skips(n)
  <2>1. TypeOK' /\ Moves(count) /\ Got' = Got /\ Given' = Given + count
        /\ pc' = pc /\ data' = data
    BY <1>2, <1>7, DiscardShape
  <2>2. Skips(count)
    BY <1>7, <2>1, Zenon DEF Skips
  <2>3. Held'
    BY <1>1, <2>1 DEF Held
  <2> QED
    BY <2>1, <2>2, <2>3
<1>8. CASE BufferEmpty
  <2>1. ParseReturns(d, result) /\ d = <<>>
    BY <1>8, Zenon DEF BufferEmpty
  <2> QED
    BY <1>6, <2>1
<1>9. CASE DiscardAllNoise
  <2> DEFINE retained == IF ByteAt(d, Len(d) - 1) = HeaderFirst THEN 1 ELSE 0
             count == Len(d) - retained
             r == IF count > 0 THEN Diagnose(result, "NoiseDiscarded", count) ELSE result
  <2>1. d # <<>> /\ FindHeader(d) < 0 /\ ParseReturns(Without(d, count), r)
    BY <1>9, Zenon DEF DiscardAllNoise
  <2>2. Len(d) >= 1
    <3>1. Len(d) # 0
      BY <1>1, <2>1, EmptySeq
    <3> QED
      BY <1>1, <3>1
  <2>3. retained \in {0, 1} /\ (retained = 1 <=> d[Len(d)] = HeaderFirst)
    <3>1. ByteAt(d, Len(d) - 1) = d[Len(d)]
      <4>1. (Len(d) - 1) + 1 = Len(d)
        BY <1>1
      <4> QED
        BY <4>1, Zenon DEF ByteAt
    <3> QED
      BY <3>1
  <2>4. count \in 0..Len(d) /\ count \in Nat
    BY <1>1, <2>2, <2>3
  <2>5. FindHeader(d) = -1
    <3>1. FindHeader(d) = -1 \/ FindHeader(d) \in 0..(Len(d) - 2)
      BY <1>1, HeaderFacts
    <3> QED
      BY <1>1, <2>1, <3>1
  <2>6. \A j \in 0..(Len(d) - 2) : ~(d[j + 1] = HeaderFirst /\ d[j + 2] = HeaderSecond)
    BY <1>1, <2>5, HeaderFacts, Zenon
  <2>7. \A j \in 0..(count - 1) : Rejected(Without(d, j))
    <3> TAKE j \in 0..(count - 1)
    <3> HIDE DEF retained
    <3>1. j \in Nat /\ j < Len(d) /\ (j = Len(d) - 1 => retained = 0)
      BY <1>1, <2>2, <2>3
    <3>2. CASE j \in 0..(Len(d) - 2)
      <4>1. j + 2 <= Len(d)
        BY <1>1, <3>2
      <4> QED
        BY <1>1, <2>6, <3>1, <3>2, <4>1, NoHeaderRejected
    <3>3. CASE j = Len(d) - 1
      <4>1. j + 1 = Len(d)
        BY <1>1, <3>3
      <4>2. d[j + 1] # HeaderFirst
        BY <2>3, <3>1, <3>3, <4>1
      <4> QED
        BY <1>1, <3>1, <4>2, NoHeaderRejected
    <3> QED
      BY <1>1, <3>1, <3>2, <3>3
  <2>8. r \in Results /\ r.requests = result.requests
        /\ DiscardedBytes(r) = DiscardedBytes(result) + count
    <3> HIDE DEF count
    <3>1. CASE count > 0
      <4>1. r = Diagnose(result, "NoiseDiscarded", count) /\ "NoiseDiscarded" \in Codes
        BY <3>1 DEF Codes
      <4> HIDE DEF r
      <4> QED
        BY <1>1, <2>4, <4>1, DiagnoseFacts
    <3>2. CASE ~(count > 0)
      <4>1. r = result /\ count = 0
        BY <2>4, <3>2
      <4>2. DiscardedBytes(result) \in Nat
        BY <1>1, DiscardedType
      <4> HIDE DEF r
      <4> QED
        BY <1>1, <4>1, <4>2
    <3> QED
      BY <3>1, <3>2
  <2>9. Without(d, count) = <<>> \/ Waits(Without(d, count))
    <3> DEFINE e == Without(d, count)
    <3> HIDE DEF retained
    <3>1. e \in Seq(Byte) /\ Len(e) = Len(d) - count
          /\ \A i \in 1..(Len(d) - count) : e[i] = d[count + i]
      <4>1. count <= Len(d)
        BY <1>1, <2>4
      <4> HIDE DEF count
      <4> QED
        BY <1>1, <2>4, <4>1, WithoutFacts
    <3>2. Len(d) - count = retained
      BY <1>1, <2>3
    <3>3. CASE retained = 0
      <4> HIDE DEF e
      <4> QED
        BY <3>1, <3>2, <3>3, EmptySeq DEF e
    <3>4. CASE retained = 1
      <4>1. count + 1 = Len(d)
        BY <1>1, <3>4
      <4> HIDE DEF e, count
      <4>2. e[1] = HeaderFirst
        BY <2>3, <3>1, <3>2, <3>4, <4>1
      <4>3. Len(e) = 1
        BY <3>1, <3>2, <3>4
      <4>4. e # <<>>
        BY <4>3
      <4>5. ~HasFrameLength(e) /\ ~(Len(e) > 1)
        BY <4>3 DEF HasFrameLength, PayloadOffset
      <4> QED
        BY <4>2, <4>4, <4>5 DEF Waits, LikeHeader, e
    <3> QED
      BY <2>3, <3>3, <3>4
  <2> HIDE DEF r, count, retained
  <2> QED
    BY <1>5, <2>1, <2>4, <2>7, <2>8, <2>9
<1>10. CASE DiscardNoise
  <2> DEFINE h == FindHeader(d)
  <2>1. h > 0 /\ Discard("NoiseDiscarded", h) /\ taken' = taken
    BY <1>10 DEF DiscardNoise
  <2>2. h \in 0..(Len(d) - 2) /\ \A j \in 0..(Len(d) - 2) : j < h =>
            ~(d[j + 1] = HeaderFirst /\ d[j + 2] = HeaderSecond)
    <3>1. h = -1 \/ h \in 0..(Len(d) - 2)
      BY <1>1, HeaderFacts
    <3>2. \A j \in 0..(Len(d) - 2) : j < h =>
              ~(d[j + 1] = HeaderFirst /\ d[j + 2] = HeaderSecond)
      BY <1>1, HeaderFacts, Zenon
    <3> HIDE DEF h
    <3> QED
      BY <1>1, <2>1, <3>1, <3>2
  <2> HIDE DEF h
  <2>3. h \in Nat /\ h <= Len(d) /\ "NoiseDiscarded" \in Codes
    BY <1>1, <2>2 DEF Codes
  <2>4. \A j \in 0..(h - 1) : Rejected(Without(d, j))
    <3> TAKE j \in 0..(h - 1)
    <3>1. j \in 0..(Len(d) - 2) /\ j < h /\ j \in Nat /\ j < Len(d) /\ j + 2 <= Len(d)
      BY <1>1, <2>2
    <3> QED
      BY <1>1, <2>2, <3>1, NoHeaderRejected
  <2> QED
    BY <1>7, <2>1, <2>3, <2>4
<1>11. CASE WaitForBytes
  <2>1. /\ FindHeader(d) = 0 /\ ParseReturns(d, result)
        /\ HasFrameLength(d) => FitsLimit(d) /\ Len(d) < FrameLength(d)
    BY <1>11 DEF WaitForBytes, HeaderIsFirst
  <2>2. Waits(d)
    BY <1>1, <2>1, HeaderIsThere DEF Waits
  <2> QED
    BY <1>6, <2>1, <2>2
<1>12. ASSUME Rejected(d), NEW code \in Codes, Discard(code, 1), taken' = taken
       PROVE  TypeOK' /\ Held' /\ \E n \in Nat : Skips(n)
  <2>1. 1 <= Len(d)
    <3>1. Len(d) # 0
      BY <1>1, <1>12, EmptySeq DEF Rejected
    <3> QED
      BY <1>1, <3>1
  <2>2. \A j \in 0..(1 - 1) : Rejected(Without(d, j))
    <3> TAKE j \in 0..(1 - 1)
    <3>1. j = 0
      OBVIOUS
    <3> QED
      BY <1>4, <1>12, <3>1, Zenon
  <2> QED
    BY <1>7, <1>12, <2>1, <2>2
<1>13. CASE RejectLength
  <2>1. /\ FindHeader(d) = 0 /\ HasFrameLength(d) /\ ~FitsLimit(d)
        /\ Discard("InvalidFrameLength", 1) /\ taken' = taken
    BY <1>13 DEF RejectLength, HeaderIsFirst
  <2>2. Rejected(d)
    BY <1>1, <2>1, HeaderIsThere DEF Rejected, Whole, Waits
  <2>3. "InvalidFrameLength" \in Codes
    BY DEF Codes
  <2> QED
    BY <1>12, <2>1, <2>2, <2>3
<1>14. ASSUME HeaderIsFirst, FrameArrived
       PROVE  /\ d # <<>> /\ HasFrameLength(d) /\ FitsLimit(d) /\ Len(d) >= FrameLength(d)
              /\ FrameLength(d) \in Nat /\ FrameLength(d) <= Len(d)
              /\ (ChecksumMatches(FirstFrame) => Whole(d))
              /\ (~ChecksumMatches(FirstFrame) => Rejected(d))
              /\ ProtocolRequest(FirstFrame) \in Request
  <2>1. HasFrameLength(d) /\ FitsLimit(d) /\ Len(d) >= FrameLength(d)
    BY <1>14 DEF FrameArrived
  <2>2. d # <<>> /\ d[1] = HeaderFirst /\ d[2] = HeaderSecond
    BY <1>1, <1>14, HeaderIsThere DEF HeaderIsFirst
  <2>3. FrameLength(d) \in Nat
    BY <1>1, <2>1, LengthFacts
  <2>4. FrameLength(d) <= Len(d)
    BY <1>1, <2>1, <2>3
  <2>5. FirstFrame = Mid(d, 0, FrameLength(d))
    BY Zenon DEF FirstFrame
  <2>6. ChecksumMatches(FirstFrame) => Whole(d)
    BY <2>1, <2>2, <2>5 DEF Whole, HasFrameLength
  <2>7. ~ChecksumMatches(FirstFrame) => Rejected(d)
    <3>1. ~(Len(d) < FrameLength(d))
      BY <1>1, <2>3, <2>4
    <3> QED
      BY <2>1, <2>2, <2>5, <3>1 DEF Rejected, Whole, Waits
  <2>8. ProtocolRequest(FirstFrame) \in Request
    BY <1>1, <2>1, <2>5, FrameFacts
  <2> QED
    BY <2>1, <2>2, <2>3, <2>4, <2>6, <2>7, <2>8
<1>15. CASE RejectChecksum
  <2>1. /\ HeaderIsFirst /\ FrameArrived /\ ~ChecksumMatches(FirstFrame)
        /\ Discard("ChecksumMismatch", 1) /\ taken' = taken
    BY <1>15 DEF RejectChecksum
  <2>2. "ChecksumMismatch" \in Codes
    BY DEF Codes
  <2> QED
    BY <1>12, <1>14, <2>1, <2>2
<1>16. taken \cup {Removed} \subseteq 0..Len(stream)
  BY <1>2, <1>3
<1>17. CASE RejectVersion
  <2>1. /\ HeaderIsFirst /\ FrameArrived /\ ChecksumMatches(FirstFrame)
        /\ ByteAt(FirstFrame, VersionOffset) # Codec.version
        /\ Discard("InvalidVersion", FrameLength(d)) /\ taken' = taken \cup {Removed}
    BY <1>17 DEF RejectVersion
  <2>2. Whole(d) /\ FrameLength(d) \in Nat /\ FrameLength(d) <= Len(d)
    BY <1>14, <2>1
  <2>3. "InvalidVersion" \in Codes
    BY DEF Codes
  <2>4. TypeOK' /\ Moves(FrameLength(d)) /\ Got' = Got /\ Given' = Given + FrameLength(d)
        /\ pc' = pc /\ data' = data
    BY <1>16, <2>1, <2>2, <2>3, DiscardShape
  <2>5. Takes
    BY <2>1, <2>2, <2>4, Zenon DEF Takes
  <2>6. Held'
    BY <1>1, <2>4 DEF Held
  <2> QED
    BY <2>4, <2>5, <2>6
<1>18. CASE TakeRequest
  <2> DEFINE q == ProtocolRequest(FirstFrame)
             s == result.requests
  <2>1. /\ HeaderIsFirst /\ FrameArrived /\ ChecksumMatches(FirstFrame)
        /\ ByteAt(FirstFrame, VersionOffset) = Codec.version
        /\ result' = [result EXCEPT !.requests = Append(s, q)]
        /\ m_buffer' = Without(d, FrameLength(d)) /\ taken' = taken \cup {Removed}
        /\ data' = data /\ offset' = offset /\ pc' = pc /\ stream' = stream
        /\ arrived' = arrived /\ found' = found /\ reported' = reported
    BY <1>18 DEF TakeRequest
  <2>2. Whole(d) /\ FrameLength(d) \in Nat /\ FrameLength(d) <= Len(d) /\ q \in Request
    BY <1>14, <2>1
  <2> HIDE DEF q
  <2>3. s \in Seq(Request) /\ result.diagnostics \in Seq(Diagnostic)
    BY <1>1 DEF Results
  <2>4. Append(s, q) \in Seq(Request) /\ Append(s, q) = s \o <<q>>
    BY <2>2, <2>3, AppendProperties, AppendIsConcat
  <2>5. result' \in Results /\ result'.requests = Append(s, q)
        /\ result'.diagnostics = result.diagnostics
    <3> DEFINE t == Append(s, q)
    <3>1. t \in Seq(Request) /\ result' = [result EXCEPT !.requests = t]
      BY <2>1, <2>4
    <3> HIDE DEF t, s
    <3> QED
      BY <1>1, <3>1 DEF Results, t
  <2>6. m_buffer' \in Seq(Byte)
    BY <1>1, <2>1, <2>2, WithoutFacts
  <2>7. TypeOK'
    BY <1>16, <2>1, <2>5, <2>6 DEF TypeOK, Results
  <2>8. Moves(FrameLength(d))
    <3>1. Buffered' = Buffered
      BY <2>1 DEF Buffered
    <3>2. FrameLength(d) \in 0..Len(d)
      BY <1>1, <2>2
    <3> QED
      BY <2>1, <3>1, <3>2 DEF Moves
  <2>9. Got' = Append(Got, q)
    <3>1. Got' = found \o Append(s, q)
      BY <2>1, <2>5, Zenon DEF Got
    <3>2. found \in Seq(Request) /\ <<q>> \in Seq(Request)
      BY <1>1, <2>2
    <3>3. (found \o s) \o <<q>> = found \o (s \o <<q>>)
      <4> HIDE DEF s
      <4> QED
        BY <2>3, <3>2, ConcatRequests, Zenon
    <3>4. Append(Got, q) = Got \o <<q>>
      BY <1>1, <2>2, AppendIsConcat
    <3> QED
      BY <2>4, <3>1, <3>3, <3>4, Zenon DEF Got
  <2>10. Given' = Given
    <3> DEFINE bytes(t) == Total([i \in DOMAIN t |-> t[i].discardedByteCount])
    <3>1. Given' = reported' + bytes(result'.diagnostics)
      BY Zenon DEF Given, DiscardedBytes
    <3>2. Given = reported + bytes(result.diagnostics)
      BY Zenon DEF Given, DiscardedBytes
    <3> HIDE DEF bytes
    <3> QED
      BY <2>1, <2>5, <3>1, <3>2, Zenon
  <2>11. Takes
    BY <2>1, <2>2, <2>8, <2>9, <2>10, Zenon DEF Takes, q
  <2>12. Held'
    BY <1>1, <2>1 DEF Held
  <2> QED
    BY <2>7, <2>11, <2>12
<1> QED
  BY <1>8, <1>9, <1>10, <1>11, <1>13, <1>15, <1>17, <1>18


\* So does every step of the codec.
LEMMA StepShape ==
    ASSUME TypeOK, Held, Placed, [Next]_vars
    PROVE  /\ TypeOK' /\ Held'
           /\ Begins \/ Resets \/ Takes \/ (\E n \in Nat : Skips(n)) \/ (\E n \in Nat : Fills(n))
<1>1. /\ stream \in Seq(Byte) /\ Len(stream) \in Nat /\ arrived \in Nat
      /\ Len(data) \in Nat /\ offset \in Nat /\ Len(m_buffer) \in Nat
      /\ Buffered \in Nat /\ Buffered <= arrived /\ arrived <= Len(stream)
      /\ result \in Results /\ Got \in Seq(Request) /\ Given \in Nat
  BY TypeFacts
<1>2. m_buffer \in Seq(Byte) /\ data \in Seq(Byte) /\ offset <= Len(data)
  BY <1>1 DEF TypeOK
<1>3. ASSUME m_buffer' = m_buffer, stream' = stream, arrived' = arrived, data' = data,
             offset' = offset, taken' = taken, found' = found, reported' = reported,
             result' = result
      PROVE  \E n \in Nat : Skips(n)
  <2>1. Without(m_buffer, 0) = m_buffer
    BY <1>2, WithoutNone
  <2>2. Buffered' = Buffered
    BY <1>3 DEF Buffered
  <2>3. Moves(0)
    BY <1>1, <1>3, <2>1, <2>2 DEF Moves
  <2>4. Got' = Got /\ Given' = Given
    BY <1>3, Zenon DEF Got, Given, DiscardedBytes
  <2>5. Given' = Given + 0 /\ \A j \in 0..(0 - 1) : Rejected(Without(m_buffer, j))
    BY <1>1, <2>4
  <2>6. Skips(0)
    BY <1>3, <2>3, <2>4, <2>5 DEF Skips
  <2> QED
    BY <2>6
<1>4. CASE AppendCall
  <2>1. PICK count \in 1..(Len(stream) - arrived) :
            data' = Mid(stream, arrived, count) /\ arrived' = arrived + count
    BY <1>4 DEF AppendCall
  <2>2. /\ pc = "idle" /\ offset' = 0 /\ pc' = "parse" /\ stream' = stream
        /\ found' = found /\ m_buffer' = m_buffer /\ result' = result /\ taken' = taken
        /\ reported' = reported
    BY <1>4 DEF AppendCall
  <2>3. count \in Nat /\ count >= 1 /\ arrived + count <= Len(stream)
    BY <1>1, <2>1
  <2>4. data' \in Seq(Byte) /\ Len(data') = count
    BY <1>1, <2>1, <2>3, MidFacts
  <2>5. data = <<>> /\ Len(data) = 0 /\ offset = 0
    <3>1. data = <<>>
      BY <2>2 DEF TypeOK
    <3>2. Len(data) = 0
      BY <3>1
    <3> QED
      BY <1>1, <1>2, <3>1, <3>2
  <2>6. Buffered' = Buffered
    BY <1>1, <2>1, <2>2, <2>3, <2>4, <2>5 DEF Buffered
  <2>7. TypeOK'
    <3>1. arrived' \in 0..Len(stream) /\ offset' \in 0..Len(data') /\ Len(data') <= arrived'
      BY <1>1, <2>1, <2>2, <2>3, <2>4
    <3> QED
      BY <2>2, <2>4, <3>1 DEF TypeOK
  <2>8. Held'
    <3>1. data' # <<>>
      BY <2>3, <2>4, EmptySeq
    <3> QED
      BY <2>2, <3>1 DEF Held
  <2>9. Got' = Got /\ Given' = Given
    BY <2>2, Zenon DEF Got, Given, DiscardedBytes
  <2>10. Begins
    BY <2>1, <2>2, <2>5, <2>6, <2>9 DEF Begins
  <2> QED
    BY <2>7, <2>8, <2>10
<1>5. CASE FillBuffer
  <2> DEFINE room == Codec.maxBufferedBytes - Len(m_buffer)
             left == Len(data) - offset
             count == IF room < left THEN room ELSE left
  <2>1. pc = "fill"
    BY <1>5 DEF FillBuffer
  <2>2. Len(m_buffer) < Codec.maxBufferedBytes /\ Codec.maxBufferedBytes \in Nat
    <3>1. m_buffer = <<>> \/ Waits(m_buffer)
      BY <2>1 DEF Held
    <3>2. Len(m_buffer) < Codec.maxPayloadLength + FixedFrameOverhead
      BY <1>2, <3>1, WaitingIsShort
    <3> QED
      BY <1>1, <3>2, Limits
  <2>3. ~(Len(m_buffer) = Codec.maxBufferedBytes)
    BY <1>1, <2>2
  <2>4. /\ m_buffer' = m_buffer \o Mid(data, offset, count) /\ offset' = offset + count
        /\ result' = result /\ pc' = "parse" /\ data' = data /\ stream' = stream
        /\ arrived' = arrived /\ found' = found /\ reported' = reported /\ taken' = taken
    BY <1>5, <2>3, Zenon DEF FillBuffer
  <2>5. count \in 1..left /\ count \in Nat
    <3>1. offset < Len(data)
      BY <2>1 DEF TypeOK
    <3> QED
      BY <1>1, <2>2, <3>1
  <2>6. m_buffer' \in Seq(Byte)
    <3>1. offset + count <= Len(data)
      BY <1>1, <2>5
    <3> HIDE DEF count
    <3>2. Mid(data, offset, count) \in Seq(Byte)
      BY <1>1, <1>2, <2>5, <3>1, MidFacts
    <3> QED
      BY <1>2, <2>4, <3>2, ConcatProperties
  <2>7. offset' \in 0..Len(data)
    BY <1>1, <2>4, <2>5
  <2>8. TypeOK'
    BY <2>4, <2>6, <2>7 DEF TypeOK
  <2>9. Held'
    BY <2>1, <2>4 DEF Held
  <2>10. Buffered' = Buffered + count
    <3> HIDE DEF count
    <3> QED
      BY <1>1, <2>4, <2>5 DEF Buffered
  <2>11. Got' = Got /\ Given' = Given
    BY <2>4, Zenon DEF Got, Given, DiscardedBytes
  <2>12. Fills(count)
    BY <2>4, <2>5, <2>10, <2>11 DEF Fills
  <2> QED
    BY <2>5, <2>8, <2>9, <2>12
<1>6. CASE Reset
  <2>1. /\ pc = "idle" /\ m_buffer' = <<>> /\ stream' \in Streams /\ arrived' = 0
        /\ found' = <<>> /\ reported' = 0 /\ taken' = {} /\ data' = data
        /\ offset' = offset /\ result' = result /\ pc' = pc
    BY <1>6 DEF Reset
  <2>2. data = <<>> /\ result = NoResult
    BY <2>1 DEF TypeOK
  <2>3. Len(data) = 0 /\ offset = 0
    <3>1. Len(data) = 0
      BY <2>2
    <3> QED
      BY <1>1, <1>2, <3>1
  <2>4. Len(stream') \in Nat
    BY <2>1, StreamsAssumption, LenProperties
  <2>5. TypeOK'
    <3>1. arrived' \in 0..Len(stream') /\ Len(data') <= arrived'
      BY <2>1, <2>3, <2>4
    <3>2. m_buffer' \in Seq(Byte) /\ found' \in Seq(Request) /\ reported' \in Nat
      BY <2>1
    <3>3. taken' \subseteq 0..Len(stream')
      BY <2>1
    <3> QED
      BY <2>1, <3>1, <3>2, <3>3 DEF TypeOK
  <2>6. Held'
    BY <2>1 DEF Held
  <2>7. Buffered' = 0
    BY <2>1, <2>3 DEF Buffered
  <2>8. Got' = <<>>
    <3>1. Got' = <<>> \o <<>>
      BY <2>1, <2>2, NothingFound, Zenon DEF Got
    <3> QED
      BY <3>1
  <2>9. Given' = 0
    <3>1. Given' = 0 + 0
      BY <2>1, <2>2, NothingFound, Zenon DEF Given, DiscardedBytes
    <3> QED
      BY <3>1
  <2>10. Resets
    BY <2>1, <2>2, <2>7, <2>8, <2>9 DEF Resets
  <2> QED
    BY <2>5, <2>6, <2>10
<1>7. CASE Running /\ ~FillBuffer
  <2>1. pc = "parse"
    BY <1>7 DEF Running, BufferEmpty, DiscardAllNoise, DiscardNoise, WaitForBytes,
                RejectLength, RejectChecksum, RejectVersion, TakeRequest, HeaderIsFirst
  <2>2. \/ BufferEmpty \/ DiscardAllNoise \/ DiscardNoise \/ WaitForBytes
        \/ RejectLength \/ RejectChecksum \/ RejectVersion \/ TakeRequest
    BY <1>7, Zenon DEF Running
  <2> QED
    BY <2>1, <2>2, IterationShape
<1>8. CASE UNCHANGED vars
  <2>1. /\ m_buffer' = m_buffer /\ stream' = stream /\ arrived' = arrived /\ data' = data
        /\ offset' = offset /\ taken' = taken /\ found' = found /\ reported' = reported
        /\ result' = result /\ pc' = pc
    BY <1>8 DEF vars
  <2>2. TypeOK'
    BY <2>1 DEF TypeOK
  <2>3. Held'
    BY <2>1 DEF Held, Waits, LikeHeader
  <2> QED
    BY <1>3, <2>1, <2>2, <2>3
<1> QED
  BY <1>4, <1>5, <1>6, <1>7, <1>8, Zenon DEF Next

\* Every step but another stream's beginning keeps the bytes in place.
LEMMA PlacedKept ==
    ASSUME TypeOK, TypeOK', Placed,
           \/ Begins \/ Resets \/ Takes
           \/ (\E n \in Nat : Skips(n)) \/ (\E n \in Nat : Fills(n))
    PROVE  Placed'
<1>1. /\ stream \in Seq(Byte) /\ Len(stream) \in Nat /\ arrived \in Nat
      /\ Len(data) \in Nat /\ offset \in Nat /\ Len(m_buffer) \in Nat
      /\ Buffered \in Nat /\ Buffered <= arrived /\ arrived <= Len(stream)
      /\ m_buffer \in Seq(Byte) /\ data \in Seq(Byte) /\ offset <= Len(data)
  BY TypeFacts, SMTT(20) DEF TypeOK
<1>2. /\ Len(m_buffer) <= Buffered
      /\ \A i \in 1..Len(m_buffer) : m_buffer[i] = stream[Removed + i]
      /\ \A i \in 1..Len(data) : data[i] = stream[(arrived - Len(data)) + i]
  BY DEF Placed
<1>3. Removed = Buffered - Len(m_buffer) /\ Removed' = Buffered' - Len(m_buffer')
  BY Zenon DEF Removed
<1>4. CASE Begins
  <2>1. PICK count \in 1..(Len(stream) - arrived) :
            data' = Mid(stream, arrived, count) /\ arrived' = arrived + count
    BY <1>4 DEF Begins
  <2>2. m_buffer' = m_buffer /\ stream' = stream /\ Buffered' = Buffered
    BY <1>4 DEF Begins
  <2>3. count \in Nat /\ arrived + count <= Len(stream)
    BY <1>1, <2>1
  <2>4. Len(data') = count /\ \A i \in 1..count : data'[i] = stream[arrived + i]
    <3> DEFINE bytes == Mid(stream, arrived, count)
    <3>1. Len(bytes) = count /\ \A i \in 1..count : bytes[i] = stream[arrived + i]
      BY <1>1, <2>3, MidFacts, SMTT(20)
    <3> HIDE DEF bytes
    <3> QED
      BY <2>1, <3>1 DEF bytes
  <2>5. arrived' - Len(data') = arrived
    BY <1>1, <2>1, <2>3, <2>4
  <2>6. \A i \in 1..Len(data') : data'[i] = stream'[(arrived' - Len(data')) + i]
    BY <2>2, <2>4, <2>5
  <2>7. Removed' = Removed
    BY <1>3, <2>2
  <2> QED
    BY <1>2, <2>2, <2>6, <2>7 DEF Placed
<1>5. CASE Resets
  <2>1. m_buffer' = <<>> /\ data' = <<>> /\ Buffered' = 0
    BY <1>5 DEF Resets
  <2>2. Len(m_buffer') = 0 /\ Len(data') = 0
    BY <2>1
  <2> QED
    BY <2>1, <2>2 DEF Placed
<1>6. ASSUME NEW n \in Nat, Moves(n) PROVE Placed'
  <2>1. /\ n <= Len(m_buffer) /\ m_buffer' = Without(m_buffer, n)
        /\ stream' = stream /\ arrived' = arrived /\ Buffered' = Buffered
        /\ data' = data \/ data' = <<>>
    BY <1>1, <1>6 DEF Moves
  <2>2. /\ Len(m_buffer') = Len(m_buffer) - n
        /\ \A i \in 1..(Len(m_buffer) - n) : m_buffer'[i] = m_buffer[n + i]
    BY <1>1, <2>1, WithoutFacts
  <2>3. Removed' = Removed + n
    BY <1>1, <1>3, <2>1, <2>2
  <2>4. \A i \in 1..(Len(m_buffer) - n) : m_buffer'[i] = stream[(Removed + n) + i]
    <3> TAKE i \in 1..(Len(m_buffer) - n)
    <3>1. n + i \in 1..Len(m_buffer) /\ Removed + (n + i) = (Removed + n) + i
      BY <1>1, <1>3, <2>1
    <3> QED
      BY <1>2, <2>2, <3>1
  <2>5. \A i \in 1..Len(data') : data'[i] = stream'[(arrived' - Len(data')) + i]
    <3>1. CASE data' = data
      BY <1>2, <2>1, <3>1
    <3>2. CASE data' = <<>>
      <4>1. Len(data') = 0
        BY <3>2
      <4> QED
        BY <4>1
    <3> QED
      BY <2>1, <3>1, <3>2
  <2>6. Len(m_buffer') <= Buffered'
    BY <1>1, <1>2, <2>1, <2>2
  <2> QED
    BY <2>1, <2>2, <2>3, <2>4, <2>5, <2>6 DEF Placed
<1>7. ASSUME NEW n \in Nat, Fills(n) PROVE Placed'
  <2> DEFINE more == Mid(data, offset, n)
  <2>1. /\ n \in 1..(Len(data) - offset) /\ m_buffer' = m_buffer \o more
        /\ stream' = stream /\ arrived' = arrived /\ Buffered' = Buffered + n
        /\ data' = data
    BY <1>7 DEF Fills
  <2>2. offset + n <= Len(data)
    BY <1>1, <2>1
  <2>3. more \in Seq(Byte) /\ Len(more) = n /\ \A i \in 1..n : more[i] = data[offset + i]
    BY <1>1, <2>2, MidFacts
  <2> HIDE DEF more
  <2>4. /\ Len(m_buffer') = Len(m_buffer) + n
        /\ \A i \in 1..(Len(m_buffer) + n) :
               m_buffer'[i] = IF i <= Len(m_buffer) THEN m_buffer[i]
                                                     ELSE more[i - Len(m_buffer)]
    BY <1>1, <2>1, <2>3, ConcatProperties
  <2>5. Removed' = Removed
    BY <1>1, <1>3, <2>1, <2>4
  <2>6. \A i \in 1..(Len(m_buffer) + n) : m_buffer'[i] = stream[Removed + i]
    <3> TAKE i \in 1..(Len(m_buffer) + n)
    <3>1. CASE i <= Len(m_buffer)
      <4>1. i \in 1..Len(m_buffer)
        BY <1>1, <3>1
      <4> QED
        BY <1>2, <2>4, <3>1, <4>1
    <3>2. CASE ~(i <= Len(m_buffer))
      <4> DEFINE k == i - Len(m_buffer)
      <4>1. k \in 1..n /\ offset + k \in 1..Len(data)
        BY <1>1, <2>2, <3>2
      <4>2. m_buffer'[i] = more[k]
        BY <2>4, <3>2
      <4>3. (arrived - Len(data)) + (offset + k) = Removed + i
        BY <1>1, <1>3 DEF Buffered
      <4> HIDE DEF k
      <4>4. more[k] = stream[(arrived - Len(data)) + (offset + k)]
        BY <1>2, <2>3, <4>1
      <4> QED
        BY <4>2, <4>3, <4>4
    <3> QED
      BY <3>1, <3>2
  <2>7. Len(m_buffer') <= Buffered'
    BY <1>1, <1>2, <2>1, <2>4
  <2>8. \A i \in 1..Len(data') : data'[i] = stream'[(arrived' - Len(data')) + i]
    BY <1>2, <2>1
  <2> QED
    BY <2>1, <2>4, <2>5, <2>6, <2>7, <2>8 DEF Placed
<1>8. CASE Takes
  <2>1. HasFrameLength(m_buffer) /\ Moves(FrameLength(m_buffer))
    BY <1>8 DEF Takes, Whole, HasFrameLength
  <2>2. FrameLength(m_buffer) \in Nat
    BY <1>1, <2>1, LengthFacts
  <2> QED
    BY <1>6, <2>1, <2>2
<1>9. CASE \E n \in Nat : Skips(n)
  BY <1>6, <1>9 DEF Skips
<1>10. CASE \E n \in Nat : Fills(n)
  BY <1>7, <1>10
<1> QED
  BY <1>4, <1>5, <1>8, <1>9, <1>10


-----------------------------------------------------------------------------
(* Every byte is accounted for. *)

\* The bytes that have left the buffer are those of the requests and those in
\* the diagnostics.
Accounted == Removed = RawBytes(Got) + Given

\* The sum of the requests' bytes is a number.
LEMMA RawBytesType == ASSUME NEW s \in Seq(Request) PROVE RawBytes(s) \in Nat
<1> DEFINE size(x) == Len(x.rawData)
           sizes == [i \in DOMAIN s |-> size(s[i])]
<1>1. \A x \in Request : size(x) \in Nat
  <2> TAKE x \in Request
  <2>1. x.rawData \in Seq(Byte)
    BY DEF Request
  <2> QED
    BY <2>1, LenProperties
<1>2. Len(s) \in Nat /\ DOMAIN s = 1..Len(s) /\ \A i \in 1..Len(s) : s[i] \in Request
  BY LenProperties
<1>3. sizes \in Seq(Nat)
  <2> HIDE DEF size
  <2> QED
    BY <1>1, <1>2
<1> QED
  BY <1>3, SumType, Totals, Zenon DEF RawBytes

\* Each byte that leaves is counted once.
LEMMA AccountedKept ==
    ASSUME TypeOK, TypeOK', Placed, Accounted,
           \/ Begins \/ Resets \/ Takes
           \/ (\E n \in Nat : Skips(n)) \/ (\E n \in Nat : Fills(n))
    PROVE  Accounted'
<1> DEFINE raw == RawBytes(Got)
<1>1. /\ Len(m_buffer) \in Nat /\ Buffered \in Nat /\ Given \in Nat /\ Got \in Seq(Request)
      /\ m_buffer \in Seq(Byte) /\ data \in Seq(Byte) /\ offset \in Nat /\ Len(data) \in Nat
      /\ Removed = raw + Given /\ Removed = Buffered - Len(m_buffer)
  BY TypeFacts, Zenon DEF TypeOK, Accounted, Removed
<1>2. raw \in Nat
  BY <1>1, RawBytesType
<1>3. Accounted' <=> Buffered' - Len(m_buffer') = RawBytes(Got') + Given'
  BY Zenon DEF Accounted, Removed, RawBytes
<1> HIDE DEF raw
<1>4. CASE Begins
  <2>1. m_buffer' = m_buffer /\ Buffered' = Buffered /\ Got' = Got /\ Given' = Given
    BY <1>4 DEF Begins
  <2>2. RawBytes(Got') = raw
    BY <2>1 DEF raw
  <2> QED
    BY <1>1, <1>3, <2>1, <2>2
<1>5. CASE Resets
  <2>1. m_buffer' = <<>> /\ Buffered' = 0 /\ Got' = <<>> /\ Given' = 0
    BY <1>5 DEF Resets
  <2>2. Len(m_buffer') = 0 /\ RawBytes(Got') = 0
    BY <2>1, NothingFound
  <2> QED
    BY <1>3, <2>1, <2>2
<1>6. ASSUME NEW n \in Nat, Moves(n)
      PROVE  Buffered' - Len(m_buffer') = (raw + Given) + n
  <2>1. n <= Len(m_buffer) /\ m_buffer' = Without(m_buffer, n) /\ Buffered' = Buffered
    BY <1>1, <1>6 DEF Moves
  <2>2. Len(m_buffer') = Len(m_buffer) - n
    BY <1>1, <2>1, WithoutFacts
  <2>3. Buffered' - Len(m_buffer') = (Buffered - Len(m_buffer)) + n
    BY <1>1, <2>1, <2>2
  <2> QED
    BY <1>1, <2>3
<1>7. CASE Takes
  <2> DEFINE n == FrameLength(m_buffer)
             q == ProtocolRequest(FirstFrame)
  <2>1. HasFrameLength(m_buffer) /\ Moves(n) /\ Len(m_buffer) >= n
    BY <1>7 DEF Takes, Whole, HasFrameLength
  <2>2. n \in Nat
    BY <1>1, <2>1, LengthFacts
  <2>3. Buffered' - Len(m_buffer') = (raw + Given) + n
    BY <1>6, <2>1, <2>2
  <2>4. CASE ByteAt(FirstFrame, VersionOffset) = Codec.version
    <3>1. Got' = Append(Got, q) /\ Given' = Given
      BY <1>7, <2>4, Zenon DEF Takes
    <3>2. q \in Request /\ Len(q.rawData) = n
      BY <1>1, <2>1, FrameFacts DEF FirstFrame
    <3>3. RawBytes(Got') = raw + n
      <4> HIDE DEF q, n
      <4> QED
        BY <1>1, <3>1, <3>2, RawBytesAppend, Zenon DEF raw
    <3> HIDE DEF n
    <3> QED
      BY <1>1, <1>2, <1>3, <2>2, <2>3, <3>1, <3>3
  <2>5. CASE ByteAt(FirstFrame, VersionOffset) # Codec.version
    <3>1. Got' = Got /\ Given' = Given + n
      BY <1>7, <2>5, Zenon DEF Takes
    <3>2. RawBytes(Got') = raw
      BY <3>1 DEF raw
    <3> HIDE DEF n
    <3> QED
      BY <1>1, <1>2, <1>3, <2>2, <2>3, <3>1, <3>2
  <2> QED
    BY <2>4, <2>5
<1>8. ASSUME NEW n \in Nat, Skips(n) PROVE Accounted'
  <2>1. Moves(n) /\ Got' = Got /\ Given' = Given + n
    BY <1>8, Zenon DEF Skips
  <2>2. RawBytes(Got') = raw
    BY <2>1 DEF raw
  <2> QED
    BY <1>1, <1>2, <1>3, <1>6, <2>1, <2>2
<1>9. ASSUME NEW n \in Nat, Fills(n) PROVE Accounted'
  <2> DEFINE more == Mid(data, offset, n)
  <2>1. /\ n \in 1..(Len(data) - offset) /\ m_buffer' = m_buffer \o more
        /\ Buffered' = Buffered + n /\ Got' = Got /\ Given' = Given
    BY <1>9 DEF Fills
  <2>2. offset + n <= Len(data)
    BY <1>1, <2>1
  <2>3. more \in Seq(Byte) /\ Len(more) = n
    BY <1>1, <2>2, MidFacts
  <2> HIDE DEF more
  <2>4. Len(m_buffer') = Len(m_buffer) + n
    BY <1>1, <2>1, <2>3, ConcatProperties
  <2>5. RawBytes(Got') = raw
    BY <2>1 DEF raw
  <2>6. Buffered' - Len(m_buffer') = Buffered - Len(m_buffer)
    BY <1>1, <2>1, <2>4
  <2> QED
    BY <1>1, <1>3, <2>1, <2>5, <2>6
<1> QED
  BY <1>4, <1>5, <1>7, <1>8, <1>9


-----------------------------------------------------------------------------
(* Exactly the whole frames are taken. *)

\* Of the bytes that have left the buffer, those taken as frames are whole
\* frames one behind the other, and no frame starts with any that is not in one.
Sorted ==
    /\ \A t \in taken : /\ t < Removed /\ Whole(StreamFrom(t))
                        /\ EndOfFrame(t) <= Removed /\ ~InsideTaken(t)
    /\ \A from \in 0..(Removed - 1) :
           from \in taken \/ InsideTaken(from) \/ Rejected(StreamFrom(from))

\* The bytes from an offset on.
LEMMA StreamFromFacts ==
    ASSUME TypeOK, NEW from \in Nat, from <= Buffered
    PROVE  /\ StreamFrom(from) \in Seq(Byte) /\ Len(StreamFrom(from)) = Buffered - from
           /\ \A i \in 1..(Buffered - from) : StreamFrom(from)[i] = stream[from + i]
<1>1. /\ stream \in Seq(Byte) /\ Len(stream) \in Nat /\ Buffered \in Nat
      /\ Buffered <= Len(stream)
  <2>1. /\ stream \in Seq(Byte) /\ Len(stream) \in Nat /\ Buffered \in Nat
        /\ Buffered <= arrived /\ arrived <= Len(stream) /\ arrived \in Nat
    BY TypeFacts
  <2> QED
    BY <2>1
<1> DEFINE n == Buffered - from
<1>2. n \in Nat /\ from + n <= Len(stream)
  BY <1>1
<1>3. StreamFrom(from) = Mid(stream, from, n)
  BY Zenon DEF StreamFrom
<1> HIDE DEF n
<1>4. /\ Mid(stream, from, n) \in Seq(Byte) /\ Len(Mid(stream, from, n)) = n
      /\ \A i \in 1..n : Mid(stream, from, n)[i] = stream[from + i]
  BY <1>1, <1>2, MidFacts
<1> QED
  BY <1>3, <1>4, Zenon DEF n

\* The buffer without some bytes is the stream from an offset on.
LEMMA BufferIsStream ==
    ASSUME TypeOK, Placed, NEW j \in 0..Len(m_buffer)
    PROVE  Without(m_buffer, j) = StreamFrom(Removed + j)
<1> DEFINE u == Without(m_buffer, j)
           v == StreamFrom(Removed + j)
<1>1. /\ m_buffer \in Seq(Byte) /\ Len(m_buffer) \in Nat /\ Buffered \in Nat
      /\ Len(m_buffer) <= Buffered /\ Removed = Buffered - Len(m_buffer)
      /\ j \in Nat /\ j <= Len(m_buffer)
      /\ \A i \in 1..Len(m_buffer) : m_buffer[i] = stream[Removed + i]
  <2>1. Removed = Buffered - Len(m_buffer)
    BY Zenon DEF Removed
  <2>2. Len(m_buffer) \in Nat /\ Buffered \in Nat /\ m_buffer \in Seq(Byte)
    BY TypeFacts DEF TypeOK
  <2> QED
    BY <2>1, <2>2 DEF Placed
<1>2. /\ u \in Seq(Byte) /\ Len(u) = Len(m_buffer) - j
      /\ \A i \in 1..(Len(m_buffer) - j) : u[i] = m_buffer[j + i]
  BY <1>1, WithoutFacts
<1>3. /\ Removed + j \in Nat /\ Removed + j <= Buffered
      /\ Buffered - (Removed + j) = Len(m_buffer) - j
  BY <1>1
<1>4. /\ v \in Seq(Byte) /\ Len(v) = Len(m_buffer) - j
      /\ \A i \in 1..(Len(m_buffer) - j) : v[i] = stream[(Removed + j) + i]
  BY <1>3, StreamFromFacts
<1> HIDE DEF u, v
<1>5. \A i \in 1..Len(u) : u[i] = v[i]
  <2> TAKE i \in 1..Len(u)
  <2>1. i \in 1..(Len(m_buffer) - j) /\ j + i \in 1..Len(m_buffer)
        /\ Removed + (j + i) = (Removed + j) + i
    BY <1>1, <1>2
  <2> QED
    BY <1>1, <1>2, <1>4, <2>1
<1> QED
  BY <1>2, <1>4, <1>5, SeqEqual DEF u, v

\* What has been sorted stays sorted, and what leaves the buffer is.
LEMMA SortedKept ==
    ASSUME TypeOK, TypeOK', Placed, Placed', Sorted,
           \/ Begins \/ Resets \/ Takes
           \/ (\E n \in Nat : Skips(n)) \/ (\E n \in Nat : Fills(n))
    PROVE  Sorted'
<1>1. /\ m_buffer \in Seq(Byte) /\ Len(m_buffer) \in Nat /\ Buffered \in Nat
      /\ Len(m_buffer) <= Buffered /\ Removed = Buffered - Len(m_buffer)
      /\ data \in Seq(Byte) /\ Len(data) \in Nat /\ offset \in Nat
      /\ Removed \in Nat /\ Removed <= Buffered /\ taken \subseteq Nat
  <2>1. Removed = Buffered - Len(m_buffer)
    BY Zenon DEF Removed
  <2>2. /\ Len(m_buffer) \in Nat /\ Buffered \in Nat /\ m_buffer \in Seq(Byte)
        /\ data \in Seq(Byte) /\ Len(data) \in Nat /\ offset \in Nat
    BY TypeFacts DEF TypeOK
  <2>3. taken \subseteq Nat
    BY TypeFacts DEF TypeOK
  <2> QED
    BY <2>1, <2>2, <2>3 DEF Placed
<1>2. Removed' = Buffered' - Len(m_buffer')
  BY Zenon DEF Removed
<1> DEFINE ends(t) == FrameLength(StreamFrom(t))
<1>3. /\ \A t \in taken : /\ t < Removed /\ Whole(StreamFrom(t)) /\ t + ends(t) <= Removed
                          /\ ~\E u \in taken : u < t /\ t < u + ends(u)
      /\ \A from \in 0..(Removed - 1) :
             \/ from \in taken
             \/ \E u \in taken : u < from /\ from < u + ends(u)
             \/ Rejected(StreamFrom(from))
  BY Zenon DEF Sorted, EndOfFrame, InsideTaken
<1>4. Sorted' <=>
      /\ \A t \in taken' : /\ t < Removed' /\ Whole(StreamFrom(t)') /\ t + ends(t)' <= Removed'
                           /\ ~\E u \in taken' : u < t /\ t < u + ends(u)'
      /\ \A from \in 0..(Removed' - 1) :
             \/ from \in taken'
             \/ \E u \in taken' : u < from /\ from < u + ends(u)'
             \/ Rejected(StreamFrom(from)')
  BY Zenon DEF Sorted, EndOfFrame, InsideTaken
<1>5. Buffered' <= Len(stream')
  <2>1. /\ stream' \in Seq(Byte) /\ data' \in Seq(Byte) /\ offset' \in 0..Len(data')
        /\ arrived' \in 0..Len(stream')
    BY StreamsAssumption DEF TypeOK
  <2>2. Len(stream') \in Nat /\ Len(data') \in Nat
    BY <2>1, LenProperties
  <2>3. Buffered' = arrived' - (Len(data') - offset')
    BY Zenon DEF Buffered
  <2> QED
    BY <2>1, <2>2, <2>3
\* Later bytes change nothing of what is known.
<1>6. ASSUME NEW k \in Nat, stream' = stream, Buffered' = Buffered + k
      PROVE  \A t \in 0..Buffered :
                 /\ Whole(StreamFrom(t)) => Whole(StreamFrom(t)') /\ ends(t)' = ends(t)
                 /\ Rejected(StreamFrom(t)) => Rejected(StreamFrom(t)')
  <2> TAKE t \in 0..Buffered
  <2>1. t \in Nat /\ t <= Buffered /\ Buffered' \in Nat /\ t <= Buffered'
    BY <1>1, <1>6
  <2> DEFINE d == StreamFrom(t)
             e == StreamFrom(t)'
  <2>2. d \in Seq(Byte) /\ Len(d) = Buffered - t
        /\ \A i \in 1..(Buffered - t) : d[i] = stream[t + i]
    BY <2>1, StreamFromFacts
  <2>3. e \in Seq(Byte) /\ Len(e) = Buffered' - t
        /\ \A i \in 1..(Buffered' - t) : e[i] = stream'[t + i]
    <3> DEFINE n == Buffered' - t
    <3>1. n \in Nat /\ t + n <= Len(stream) /\ stream \in Seq(Byte)
      <4>1. Buffered' <= Len(stream') /\ Len(stream) \in Nat /\ stream \in Seq(Byte)
        BY <1>1, <1>6, <1>5, TypeFacts
      <4> QED
        BY <1>1, <1>6, <2>1, <4>1
    <3>2. e = Mid(stream, t, n)
      BY <1>6, Zenon DEF StreamFrom
    <3> HIDE DEF n
    <3>3. /\ Mid(stream, t, n) \in Seq(Byte) /\ Len(Mid(stream, t, n)) = n
          /\ \A i \in 1..n : Mid(stream, t, n)[i] = stream[t + i]
      BY <2>1, <3>1, MidFacts
    <3> QED
      BY <1>6, <3>2, <3>3, Zenon DEF n
  <2>4. Len(d) <= Len(e) /\ \A i \in 1..Len(d) : e[i] = d[i]
    <3> HIDE DEF d, e
    <3> QED
      BY <1>1, <1>6, <2>1, <2>2, <2>3
  <2>5. /\ Whole(d) => Whole(e) /\ FrameLength(e) = FrameLength(d)
        /\ Rejected(d) => Rejected(e)
    <3> HIDE DEF d, e
    <3> QED
      BY <2>2, <2>3, <2>4, Final
  <2> QED
    BY <2>5, Zenon
<1>7. CASE Resets
  <2>1. taken' = {} /\ Removed' = 0
    <3>1. m_buffer' = <<>> /\ taken' = {}
      BY <1>7 DEF Resets
    <3>2. Buffered' = 0
      BY <1>7 DEF Resets
    <3>3. Len(m_buffer') = 0
      BY <3>1
    <3>4. Removed' = 0
      BY <1>2, <3>2, <3>3
    <3> QED
      BY <3>1, <3>4
  <2>2. 0..(Removed' - 1) = {}
    BY <2>1
  <2> QED
    BY <1>4, <2>1, <2>2
\* Nothing is taken.
<1>8. ASSUME NEW k \in Nat, stream' = stream, Buffered' = Buffered + k, taken' = taken,
             NEW n \in Nat, Removed' = Removed + n, Removed + n <= Buffered,
             \A j \in 0..(n - 1) : Rejected(StreamFrom(Removed + j))
      PROVE  Sorted'
  <2>1. \A t \in 0..Buffered :
            /\ Whole(StreamFrom(t)) => Whole(StreamFrom(t)') /\ ends(t)' = ends(t)
            /\ Rejected(StreamFrom(t)) => Rejected(StreamFrom(t)')
    BY <1>6, <1>8
  <2>2. \A t \in taken : t \in 0..Buffered /\ t \in Nat
    BY <1>1, <1>3
  <2>3. \A t \in taken : Whole(StreamFrom(t)') /\ ends(t)' = ends(t)
    BY <1>3, <2>1, <2>2
  <2>4. \A t \in taken : t < Removed'
    BY <1>1, <1>3, <1>8, <2>2
  <2>5. \A t \in taken : ends(t) \in Nat
    <3> TAKE t \in taken
    <3>1. StreamFrom(t) \in Seq(Byte)
      BY <2>2, StreamFromFacts
    <3>2. HasFrameLength(StreamFrom(t))
      BY <1>3, Zenon DEF Whole, HasFrameLength
    <3> QED
      BY <3>1, <3>2, LengthFacts
  <2>6. \A t \in taken : t + ends(t)' <= Removed'
    <3> TAKE t \in taken
    <3>1. t + ends(t) <= Removed /\ ends(t)' = ends(t) /\ ends(t) \in Nat /\ t \in Nat
      BY <1>3, <2>2, <2>3, <2>5
    <3> HIDE DEF ends
    <3> QED
      BY <1>1, <1>8, <3>1
  <2>7. \A from \in 0..(Removed' - 1) :
            \/ from \in taken
            \/ \E u \in taken : u < from /\ from < u + ends(u)'
            \/ Rejected(StreamFrom(from)')
    <3> TAKE from \in 0..(Removed' - 1)
    <3>1. from \in 0..Buffered
      BY <1>1, <1>8
    <3>2. CASE from \in 0..(Removed - 1)
      BY <1>3, <2>1, <2>3, <3>1, <3>2
    <3>3. CASE ~(from \in 0..(Removed - 1))
      <4>1. PICK j \in 0..(n - 1) : from = Removed + j
        <5>1. from - Removed \in 0..(n - 1) /\ from = Removed + (from - Removed)
          BY <1>1, <1>8, <3>3
        <5> QED
          BY <5>1
      <4>2. Rejected(StreamFrom(from))
        BY <1>8, <4>1
      <4> QED
        BY <2>1, <3>1, <4>2
    <3> QED
      BY <3>2, <3>3
  <2> HIDE DEF ends
  <2> QED
    BY <1>3, <1>4, <1>8, <2>3, <2>4, <2>6, <2>7
<1>9. CASE Begins
  <2>1. m_buffer' = m_buffer /\ stream' = stream /\ Buffered' = Buffered /\ taken' = taken
    BY <1>9 DEF Begins
  <2>2. Buffered' = Buffered + 0 /\ Removed' = Removed + 0 /\ Removed + 0 <= Buffered
        /\ \A j \in 0..(0 - 1) : Rejected(StreamFrom(Removed + j))
    BY <1>1, <1>2, <2>1
  <2> QED
    BY <1>8, <2>1, <2>2
<1>10. CASE \E n \in Nat : Fills(n)
  <2>1. PICK n \in Nat : Fills(n)
    BY <1>10
  <2> DEFINE more == Mid(data, offset, n)
  <2>2. /\ n \in 1..(Len(data) - offset) /\ m_buffer' = m_buffer \o more
        /\ Buffered' = Buffered + n /\ stream' = stream /\ taken' = taken
    BY <2>1 DEF Fills
  <2>3. offset + n <= Len(data)
    BY <1>1, <2>2
  <2>4. more \in Seq(Byte) /\ Len(more) = n
    BY <1>1, <2>3, MidFacts
  <2> HIDE DEF more
  <2>5. Len(m_buffer') = Len(m_buffer) + n
    BY <1>1, <2>2, <2>4, ConcatProperties
  <2>6. Removed' = Removed + 0 /\ Removed + 0 <= Buffered
        /\ \A j \in 0..(0 - 1) : Rejected(StreamFrom(Removed + j))
    BY <1>1, <1>2, <2>2, <2>5
  <2> QED
    BY <1>8, <2>2, <2>6
<1>11. ASSUME NEW n \in Nat, Moves(n)
       PROVE  /\ n <= Len(m_buffer) /\ stream' = stream /\ Buffered' = Buffered + 0
              /\ Removed' = Removed + n /\ Removed + n <= Buffered
  <2>1. n <= Len(m_buffer) /\ m_buffer' = Without(m_buffer, n) /\ Buffered' = Buffered
        /\ stream' = stream
    BY <1>1, <1>11 DEF Moves
  <2>2. Len(m_buffer') = Len(m_buffer) - n
    BY <1>1, <2>1, WithoutFacts
  <2> QED
    BY <1>1, <1>2, <2>1, <2>2
<1>12. CASE \E n \in Nat : Skips(n)
  <2>1. PICK n \in Nat : Skips(n)
    BY <1>12
  <2>2. /\ Moves(n) /\ taken' = taken
        /\ \A j \in 0..(n - 1) : Rejected(Without(m_buffer, j))
    BY <2>1 DEF Skips
  <2>3. /\ n <= Len(m_buffer) /\ stream' = stream /\ Buffered' = Buffered + 0
        /\ Removed' = Removed + n /\ Removed + n <= Buffered
    BY <1>11, <2>2
  <2>4. \A j \in 0..(n - 1) : Rejected(StreamFrom(Removed + j))
    <3> TAKE j \in 0..(n - 1)
    <3>1. j \in 0..Len(m_buffer)
      BY <1>1, <2>3
    <3> QED
      BY <2>2, <3>1, BufferIsStream
  <2> QED
    BY <1>8, <2>2, <2>3, <2>4
<1>13. CASE Takes
  <2>0. PICK r \in Nat : r = Removed
    BY <1>1
  <2> DEFINE n == FrameLength(m_buffer)
  <2>1. Whole(m_buffer) /\ HasFrameLength(m_buffer) /\ Moves(n)
        /\ taken' = taken \cup {Removed}
    BY <1>13 DEF Takes, Whole, HasFrameLength
  <2>2. n \in Nat /\ n >= 10
    <3>1. PayloadLength(m_buffer) \in Nat /\ n = 10 + PayloadLength(m_buffer)
      BY <1>1, <2>1, LengthFacts
    <3> QED
      BY <3>1
  <2>3. /\ n <= Len(m_buffer) /\ stream' = stream /\ Buffered' = Buffered + 0
        /\ Removed' = Removed + n /\ Removed + n <= Buffered
    BY <1>11, <2>1, <2>2
  <2>4. \A t \in 0..Buffered :
            /\ Whole(StreamFrom(t)) => Whole(StreamFrom(t)') /\ ends(t)' = ends(t)
            /\ Rejected(StreamFrom(t)) => Rejected(StreamFrom(t)')
    <3>1. 0 \in Nat
      OBVIOUS
    <3> QED
      BY <1>6, <2>3, <3>1
  <2>5. m_buffer = StreamFrom(r)
    <3>1. 0 \in 0..Len(m_buffer) /\ Removed + 0 = Removed
      BY <1>1
    <3>2. Without(m_buffer, 0) = StreamFrom(Removed + 0)
      BY <3>1, BufferIsStream
    <3>3. Without(m_buffer, 0) = m_buffer
      BY <1>1, WithoutNone
    <3> QED
      BY <2>0, <3>1, <3>2, <3>3, Zenon
  <2>6. r \in 0..Buffered /\ Whole(StreamFrom(r)) /\ ends(r) = n
    <3>1. r \in 0..Buffered
      BY <1>1, <2>0
    <3> QED
      BY <2>1, <2>5, <3>1, Zenon
  <2>7. \A t \in taken : t \in 0..Buffered /\ t \in Nat
    BY <1>1, <1>3
  <2>8. /\ \A t \in taken : Whole(StreamFrom(t)') /\ ends(t)' = ends(t)
        /\ Whole(StreamFrom(r)') /\ ends(r)' = n
    BY <1>3, <2>4, <2>6, <2>7, Zenon
  <2>9. \A t \in taken : ends(t) \in Nat
    <3> TAKE t \in taken
    <3>1. StreamFrom(t) \in Seq(Byte)
      BY <1>1, <2>7, StreamFromFacts
    <3>2. HasFrameLength(StreamFrom(t))
      BY <1>3, Zenon DEF Whole, HasFrameLength
    <3> QED
      BY <3>1, <3>2, LengthFacts
  <2> HIDE DEF n, ends
  <2>10. \A t \in taken' : t < Removed' /\ Whole(StreamFrom(t)') /\ t + ends(t)' <= Removed'
    <3> TAKE t \in taken'
    <3>1. CASE t \in taken
      <4>1. t < Removed /\ t + ends(t) <= Removed /\ ends(t)' = ends(t) /\ ends(t) \in Nat
            /\ t \in Nat /\ Whole(StreamFrom(t)')
        BY <1>3, <2>7, <2>8, <2>9, <3>1
      <4> QED
        BY <1>1, <2>2, <2>3, <4>1
    <3>2. CASE t = r
      BY <1>1, <2>0, <2>2, <2>3, <2>8, <3>2
    <3> QED
      BY <2>0, <2>1, <3>1, <3>2
  <2>11. \A t \in taken' : ~\E u \in taken' : u < t /\ t < u + ends(u)'
    <3> SUFFICES ASSUME NEW t \in taken', NEW u \in taken', u < t, t < u + ends(u)'
                 PROVE  FALSE
      OBVIOUS
    <3>1. CASE u = Removed
      <4>1. t = Removed \/ t < Removed
        BY <1>3, <2>1
      <4>2. t \in Nat
        BY <1>1, <2>1
      <4> QED
        BY <1>1, <3>1, <4>1, <4>2
    <3>2. CASE u \in taken /\ t \in taken
      <4>1. ends(u)' = ends(u)
        BY <2>8, <3>2
      <4>2. u < t /\ t < u + ends(u)
        BY <4>1
      <4> QED
        BY <1>3, <3>2, <4>2
    <3>3. CASE u \in taken /\ t = Removed
      <4>1. u + ends(u) <= Removed /\ ends(u)' = ends(u) /\ ends(u) \in Nat /\ u \in Nat
        BY <1>3, <2>7, <2>8, <2>9, <3>3
      <4>2. Removed < u + ends(u)
        BY <3>3, <4>1
      <4> QED
        BY <1>1, <4>1, <4>2
    <3> QED
      BY <2>1, <3>1, <3>2, <3>3
  <2>12. \A from \in 0..(Removed' - 1) :
            \/ from \in taken'
            \/ \E u \in taken' : u < from /\ from < u + ends(u)'
            \/ Rejected(StreamFrom(from)')
    <3> TAKE from \in 0..(Removed' - 1)
    <3>1. from \in 0..Buffered /\ from \in Nat /\ from < Removed + n
      BY <1>1, <2>2, <2>3
    <3>2. CASE from \in 0..(Removed - 1)
      <4>1. CASE from \in taken
        <5>1. from \in taken'
          BY <2>1, <4>1
        <5> QED
          BY <5>1
      <4>2. CASE Rejected(StreamFrom(from))
        BY <2>4, <3>1, <4>2
      <4>3. CASE \E u \in taken : u < from /\ from < u + ends(u)
        <5>1. PICK u \in taken : u < from /\ from < u + ends(u)
          BY <4>3
        <5>2. u \in taken' /\ ends(u)' = ends(u)
          BY <2>1, <2>8
        <5>3. from < u + ends(u)'
          BY <5>1, <5>2
        <5> QED
          BY <5>1, <5>2, <5>3
      <4> QED
        BY <1>3, <3>2, <4>1, <4>2, <4>3
    <3>3. CASE from = r
      <4>1. from \in taken'
        BY <2>0, <2>1, <3>3
      <4> QED
        BY <4>1
    <3>4. CASE from > Removed
      <4>1. r \in taken' /\ r < from /\ from < r + ends(r)'
        BY <1>1, <2>0, <2>1, <2>8, <3>1, <3>4
      <4> QED
        BY <4>1
    <3> QED
      BY <1>1, <2>0, <3>1, <3>2, <3>3, <3>4
  <2> QED
    BY <1>4, <2>10, <2>11, <2>12
<1> QED
  BY <1>7, <1>9, <1>10, <1>12, <1>13


-----------------------------------------------------------------------------
(* The invariant and what follows from it. *)

CodecInv == TypeOK /\ Held /\ Placed /\ Accounted /\ Sorted

\* It holds in the beginning.
LEMMA InitInv == Init => CodecInv
<1> SUFFICES ASSUME Init PROVE CodecInv
  OBVIOUS
<1>1. /\ m_buffer = <<>> /\ data = <<>> /\ offset = 0 /\ result = NoResult /\ pc = "idle"
      /\ stream \in Streams /\ arrived = 0 /\ found = <<>> /\ reported = 0 /\ taken = {}
  BY DEF Init
<1>2. Len(data) = 0 /\ Len(m_buffer) = 0
  BY <1>1
<1>3. Len(stream) \in Nat
  BY <1>1, StreamsAssumption, LenProperties
<1>4. TypeOK
  <2>1. result \in Results
    BY <1>1, NothingFound
  <2>2. /\ m_buffer \in Seq(Byte) /\ data \in Seq(Byte) /\ found \in Seq(Request)
        /\ taken \subseteq 0..Len(stream)
    BY <1>1
  <2>3. arrived \in 0..Len(stream) /\ offset \in 0..Len(data) /\ Len(data) <= arrived
    BY <1>1, <1>2, <1>3
  <2> HIDE DEF NoResult
  <2> QED
    BY <1>1, <2>1, <2>2, <2>3 DEF TypeOK, Results
<1>5. Held
  BY <1>1 DEF Held
<1>6. Buffered = 0 /\ Removed = 0
  <2>1. arrived = 0 /\ offset = 0
    BY <1>1
  <2> QED
    BY <1>2, <2>1 DEF Buffered, Removed
<1>7. Placed
  BY <1>2, <1>6 DEF Placed
<1>8. Accounted
  <2>1. Got = <<>>
    <3>1. Got = <<>> \o <<>>
      BY <1>1, NothingFound, Zenon DEF Got
    <3> QED
      BY <3>1
  <2>2. Given = 0
    <3>1. Given = 0 + 0
      BY <1>1, NothingFound, Zenon DEF Given
    <3> QED
      BY <3>1
  <2>3. RawBytes(Got) = 0
    BY <2>1, NothingFound, Zenon
  <2> QED
    BY <1>6, <2>2, <2>3 DEF Accounted
<1>9. Sorted
  <2>1. 0..(Removed - 1) = {}
    BY <1>6
  <2> QED
    BY <1>1, <2>1 DEF Sorted
<1> QED
  BY <1>4, <1>5, <1>7, <1>8, <1>9 DEF CodecInv

\* Every step keeps it.
LEMMA NextInv == CodecInv /\ [Next]_vars => CodecInv'
<1> SUFFICES ASSUME CodecInv, [Next]_vars PROVE CodecInv'
  OBVIOUS
<1>1. TypeOK /\ Held /\ Placed /\ Accounted /\ Sorted
  BY DEF CodecInv
<1>2. /\ TypeOK' /\ Held'
      /\ \/ Begins \/ Resets \/ Takes
         \/ (\E n \in Nat : Skips(n)) \/ (\E n \in Nat : Fills(n))
  BY <1>1, StepShape
<1>3. Placed'
  BY <1>1, <1>2, PlacedKept
<1>4. Accounted'
  BY <1>1, <1>2, AccountedKept
<1>5. Sorted'
  BY <1>1, <1>2, <1>3, SortedKept
<1> QED
  BY <1>2, <1>3, <1>4, <1>5 DEF CodecInv

\* The invariant of the decoder: what it holds of the stream is in place, what
\* has left the buffer is accounted for and sorted into frames and noise
\* (DemoBinaryProtocolCodec.cpp:86-112, 203-287).
THEOREM CodecInvariance == Spec => []CodecInv
BY InitInv, NextInv, PTL DEF Spec

\* Types, and how much of the stream each variable stands for.
THEOREM TypeCorrect == Spec => []TypeOK
<1>1. CodecInv => TypeOK
  BY DEF CodecInv
<1> QED
  BY <1>1, CodecInvariance, PTL

\* Less than one frame is held back between two reads, whatever the peer sends
\* and however it is cut (DemoBinaryProtocolCodec.cpp:91-108, 246-249).
THEOREM HeldBackIsShort == Spec => []OneFrameHeldBack
<1>1. CodecInv => OneFrameHeldBack
  <2> SUFFICES ASSUME CodecInv, pc # "parse"
               PROVE  Len(m_buffer) < Codec.maxPayloadLength + FixedFrameOverhead
    BY DEF OneFrameHeldBack
  <2>1. m_buffer \in Seq(Byte) /\ (m_buffer = <<>> \/ Waits(m_buffer))
    BY DEF CodecInv, TypeOK, Held
  <2> QED
    BY <2>1, WaitingIsShort
<1> QED
  BY <1>1, CodecInvariance, PTL

\* Every byte is in the buffer, in a request or in one diagnostic
\* (DemoBinaryProtocolCodec.cpp:208-285).
THEOREM NoByteLost == Spec => []BytesAccounted
<1>1. CodecInv => BytesAccounted
  <2> SUFFICES ASSUME CodecInv, pc = "idle"
               PROVE  arrived = RawBytes(found) + reported + Len(m_buffer)
    BY Zenon DEF BytesAccounted, RawBytes
  <2>1. TypeOK /\ Accounted
    BY DEF CodecInv
  <2>2. data = <<>> /\ result = NoResult
    BY <2>1 DEF TypeOK
  <2>3. /\ arrived \in Nat /\ Len(m_buffer) \in Nat /\ offset \in 0..Len(data)
        /\ found \in Seq(Request) /\ reported \in Nat
    BY <2>1, TypeFacts DEF TypeOK
  <2>4. Len(data) = 0
    BY <2>2
  <2>5. Removed = arrived - Len(m_buffer)
    BY <2>3, <2>4 DEF Removed, Buffered
  <2>6. Got = found
    <3>1. Got = found \o <<>>
      BY <2>2, NothingFound, Zenon DEF Got
    <3> QED
      BY <2>3, <3>1, ConcatEmptySeq
  <2>7. Given = reported
    <3>1. Given = reported + 0
      BY <2>2, NothingFound, Zenon DEF Given
    <3> QED
      BY <2>3, <3>1
  <2>8. Removed = RawBytes(found) + reported
    BY <2>1, <2>6, <2>7, Zenon DEF Accounted
  <2>9. RawBytes(found) \in Nat
    BY <2>3, RawBytesType
  <2> QED
    BY <2>3, <2>5, <2>8, <2>9
<1> QED
  BY <1>1, CodecInvariance, PTL

\* Of the bytes that have left the buffer exactly the whole frames were taken,
\* except those inside a frame taken before them
\* (DemoBinaryProtocolCodec.cpp:203-287).
THEOREM ResynchronisationFindsFrames == Spec => []FramesFound
<1>1. CodecInv => FramesFound
  <2> SUFFICES ASSUME CodecInv, NEW from \in 0..(Removed - 1)
               PROVE  from \in taken <=> WholeFrameAt(from) /\ ~InsideTaken(from)
    BY DEF FramesFound
  <2>1. WholeFrameAt(from) <=> Whole(StreamFrom(from))
    BY Zenon DEF WholeFrameAt, Whole
  <2>2. Sorted
    BY DEF CodecInv
  <2>3. from \in taken => Whole(StreamFrom(from)) /\ ~InsideTaken(from)
    BY <2>2 DEF Sorted
  <2>4. from \in taken \/ InsideTaken(from) \/ ~Whole(StreamFrom(from))
    BY <2>2, Zenon DEF Sorted, Rejected
  <2> QED
    BY <2>1, <2>3, <2>4
<1> QED
  BY <1>1, CodecInvariance, PTL


-----------------------------------------------------------------------------
(* The reading of FrameStream, in the vocabulary above. *)

RequestOf(frame) ==
    IF ByteAt(frame, VersionOffset) = Codec.version THEN <<ProtocolRequest(frame)>> ELSE <<>>

\* What is read from offset p on, when f gives it for the offsets after p.
Reading(f, d, p) ==
    LET rest == Without(d, p)
    IN  IF rest = <<>> THEN <<>>
        ELSE IF Whole(rest)
        THEN RequestOf(Mid(rest, 0, FrameLength(rest))) \o f[p + FrameLength(rest)]
        ELSE IF Waits(rest) THEN <<>> ELSE f[p + 1]

Reads(f, d) == f = [p \in 0..Len(d) |-> Reading(f, d, p)]

\* A whole frame has some bytes, and all of them are there.
LEMMA WholeFacts ==
    ASSUME NEW d \in Seq(Byte), Whole(d)
    PROVE  /\ FrameLength(d) \in Nat /\ FrameLength(d) >= 10 /\ FrameLength(d) <= Len(d)
           /\ ~Waits(d)
           /\ ProtocolRequest(Mid(d, 0, FrameLength(d))) \in Request
           /\ RequestOf(Mid(d, 0, FrameLength(d))) \in Seq(Request)
<1> DEFINE q == ProtocolRequest(Mid(d, 0, FrameLength(d)))
<1>1. HasFrameLength(d) /\ Len(d) >= FrameLength(d)
  BY DEF Whole, HasFrameLength
<1>2. PayloadLength(d) \in Nat /\ FrameLength(d) = 10 + PayloadLength(d)
      /\ FrameLength(d) \in Nat
  BY <1>1, LengthFacts
<1>3. Len(d) \in Nat
  BY LenProperties
<1>4. q \in Request
  BY <1>1, FrameFacts
<1>5. RequestOf(Mid(d, 0, FrameLength(d))) \in Seq(Request)
  <2>1. RequestOf(Mid(d, 0, FrameLength(d))) = <<q>>
          \/ RequestOf(Mid(d, 0, FrameLength(d))) = <<>>
    BY Zenon DEF RequestOf
  <2> HIDE DEF q
  <2>2. <<q>> \in Seq(Request) /\ <<>> \in Seq(Request)
    BY <1>4
  <2> QED
    BY <2>1, <2>2, Zenon
<1>6. FrameLength(d) >= 10 /\ FrameLength(d) <= Len(d) /\ ~(Len(d) < FrameLength(d))
  BY <1>1, <1>2, <1>3
<1>7. ~Waits(d)
  BY <1>1, <1>6, Zenon DEF Waits
<1> QED
  BY <1>2, <1>4, <1>5, <1>6, <1>7

\* What is read from p on depends on what is read from later offsets on.
LEMMA ReadingDepends ==
    ASSUME NEW d \in Seq(Byte), NEW p \in 0..Len(d), NEW f, NEW g,
           \A q \in (p + 1)..Len(d) : f[q] = g[q]
    PROVE  Reading(f, d, p) = Reading(g, d, p)
<1> DEFINE rest == Without(d, p)
<1>1. Len(d) \in Nat /\ p \in Nat /\ p <= Len(d)
  <2>1. Len(d) \in Nat
    BY LenProperties
  <2> QED
    BY <2>1
<1>2. rest \in Seq(Byte) /\ Len(rest) = Len(d) - p
  BY <1>1, WithoutFacts
<1>3. Whole(rest) => p + FrameLength(rest) \in (p + 1)..Len(d)
  <2> HIDE DEF rest
  <2> SUFFICES ASSUME Whole(rest) PROVE p + FrameLength(rest) \in (p + 1)..Len(d)
    OBVIOUS
  <2>1. FrameLength(rest) \in Nat /\ FrameLength(rest) >= 10 /\ FrameLength(rest) <= Len(rest)
    BY <1>2, WholeFacts
  <2> QED
    BY <1>1, <1>2, <2>1
<1>4. rest # <<>> => p + 1 \in (p + 1)..Len(d)
  <2> HIDE DEF rest
  <2>1. rest # <<>> => Len(rest) # 0
    BY <1>2, EmptySeq
  <2> QED
    BY <1>1, <1>2, <2>1
<1>5. Whole(rest) => f[p + FrameLength(rest)] = g[p + FrameLength(rest)]
  BY <1>3
<1>6. rest # <<>> => f[p + 1] = g[p + 1]
  BY <1>4
<1> QED
  BY <1>5, <1>6, Zenon DEF Reading

\* Some bytes can be read.
LEMMA ReadsExists == ASSUME NEW d \in Seq(Byte) PROVE \E f : Reads(f, d)
<1> DEFINE n == Len(d)
           From(f, k) == f = [p \in (n - k)..n |-> Reading(f, d, p)]
           S == {k \in Nat : k <= n => \E f : From(f, k)}
<1>1. n \in Nat
  BY LenProperties
<1>2. 0 \in S
  <2> DEFINE f == [p \in n..n |-> Reading(<<>>, d, p)]
  <2>1. Reading(<<>>, d, n) = Reading(f, d, n)
    <3>1. n \in 0..n /\ (n + 1)..n = {}
      BY <1>1
    <3>2. \A q \in (n + 1)..n : <<>>[q] = f[q]
      BY <3>1
    <3> HIDE DEF f
    <3> QED
      BY <3>1, <3>2, ReadingDepends
  <2>2. \A p \in n..n : p = n
    BY <1>1
  <2>3. n - 0 = n
    BY <1>1
  <2>4. From(f, 0)
    BY <2>1, <2>2, <2>3
  <2> QED
    BY <2>4
<1>3. ASSUME NEW k \in Nat, k \in S PROVE k + 1 \in S
  <2> SUFFICES ASSUME k + 1 <= n PROVE \E f : From(f, k + 1)
    OBVIOUS
  <2>1. k <= n
    BY <1>1
  <2>2. PICK f : From(f, k)
    BY <1>3, <2>1
  <2> DEFINE m == n - (k + 1)
             g == [p \in m..n |-> IF p = m THEN Reading(f, d, m) ELSE f[p]]
  <2>3. m \in Nat /\ m + 1 = n - k /\ m <= n /\ m \in 0..n
    BY <1>1
  <2>4. \A p \in (m + 1)..n : f[p] = Reading(f, d, p)
    <3>1. \A p \in (n - k)..n : f[p] = Reading(f, d, p)
      BY <2>2, Zenon
    <3> QED
      BY <2>3, <3>1
  <2> HIDE DEF m, n
  <2>5. \A q \in (m + 1)..n : g[q] = f[q]
    <3> TAKE q \in (m + 1)..n
    <3>1. q \in m..n /\ q # m
      BY <1>1, <2>3
    <3> QED
      BY <3>1
  <2>6. \A p \in m..n : Reading(f, d, p) = Reading(g, d, p)
    <3> TAKE p \in m..n
    <3>1. p \in 0..Len(d) /\ \A q \in (p + 1)..Len(d) : q \in (m + 1)..n
      BY <1>1, <2>3 DEF n
    <3>2. \A q \in (p + 1)..Len(d) : f[q] = g[q]
      <4> HIDE DEF g
      <4> QED
        BY <2>5, <3>1
    <3> HIDE DEF g
    <3> QED
      BY <3>1, <3>2, ReadingDepends
  <2>7. \A p \in m..n : (IF p = m THEN Reading(f, d, m) ELSE f[p]) = Reading(g, d, p)
    <3> TAKE p \in m..n
    <3>1. CASE p = m
      BY <2>6, <3>1, Zenon
    <3>2. CASE p # m
      <4>1. p \in (m + 1)..n
        BY <1>1, <2>3, <3>2
      <4>2. f[p] = Reading(f, d, p) /\ Reading(f, d, p) = Reading(g, d, p)
        <5> HIDE DEF g
        <5> QED
          BY <2>4, <2>6, <4>1
      <4> HIDE DEF g
      <4> QED
        BY <3>2, <4>2
    <3> QED
      BY <3>1, <3>2
  <2>8. From(g, k + 1)
    <3>1. g = [p \in m..n |-> Reading(g, d, p)]
      BY <2>7, Zenon
    <3> HIDE DEF g
    <3> QED
      BY <3>1, Zenon DEF m, n
  <2> QED
    BY <2>8
<1> HIDE DEF S
<1>4. n \in S
  BY <1>1, <1>2, <1>3, Induction
<1>5. PICK f : From(f, n)
  BY <1>1, <1>4 DEF S
<1>6. n - n = 0
  BY <1>1
<1>7. Reads(f, d)
  BY <1>5, <1>6, Zenon DEF Reads
<1> QED
  BY <1>7

\* What is read are requests.
LEMMA ReadsType ==
    ASSUME NEW d \in Seq(Byte), NEW f, Reads(f, d)
    PROVE  \A p \in 0..Len(d) : f[p] \in Seq(Request)
<1> DEFINE n == Len(d)
           S == {k \in Nat : \A p \in 0..n : n - p <= k => f[p] \in Seq(Request)}
<1>1. n \in Nat
  BY LenProperties
<1>2. \A p \in 0..n : f[p] = Reading(f, d, p)
  BY Zenon DEF Reads
<1>3. ASSUME NEW p \in 0..n, \A q \in (p + 1)..n : f[q] \in Seq(Request)
      PROVE  f[p] \in Seq(Request)
  <2> DEFINE rest == Without(d, p)
             head == RequestOf(Mid(rest, 0, FrameLength(rest)))
  <2>1. p \in Nat /\ p <= Len(d)
    BY <1>1
  <2>2. rest \in Seq(Byte) /\ Len(rest) = Len(d) - p
    BY <2>1, WithoutFacts
  <2>3. <<>> \in Seq(Request)
    OBVIOUS
  <2>4. f[p] = IF rest = <<>> THEN <<>>
               ELSE IF Whole(rest) THEN head \o f[p + FrameLength(rest)]
               ELSE IF Waits(rest) THEN <<>> ELSE f[p + 1]
    BY <1>2, Zenon DEF Reading
  <2> HIDE DEF rest
  <2>5. ASSUME Whole(rest) PROVE head \o f[p + FrameLength(rest)] \in Seq(Request)
    <3>1. FrameLength(rest) \in Nat /\ FrameLength(rest) >= 10 /\ FrameLength(rest) <= Len(rest)
          /\ head \in Seq(Request)
      BY <2>2, <2>5, WholeFacts
    <3>2. p + FrameLength(rest) \in (p + 1)..n
      BY <1>1, <2>1, <2>2, <3>1
    <3> HIDE DEF head
    <3>3. f[p + FrameLength(rest)] \in Seq(Request)
      BY <1>3, <3>2
    <3> QED
      BY <3>1, <3>3, ConcatProperties
  <2>6. ASSUME rest # <<>> PROVE f[p + 1] \in Seq(Request)
    <3>1. Len(rest) # 0
      BY <2>2, <2>6, EmptySeq
    <3>2. p + 1 \in (p + 1)..n
      BY <1>1, <2>1, <2>2, <3>1
    <3> QED
      BY <1>3, <3>2
  <2> HIDE DEF head
  <2> QED
    BY <2>3, <2>4, <2>5, <2>6, Zenon
<1>4. 0 \in S
  <2> SUFFICES ASSUME NEW p \in 0..n, n - p <= 0 PROVE f[p] \in Seq(Request)
    OBVIOUS
  <2>1. (p + 1)..n = {}
    BY <1>1
  <2>2. \A q \in (p + 1)..n : f[q] \in Seq(Request)
    BY <2>1
  <2> QED
    BY <1>3, <2>2
<1>5. ASSUME NEW k \in Nat, k \in S PROVE k + 1 \in S
  <2> SUFFICES ASSUME NEW p \in 0..n, n - p <= k + 1 PROVE f[p] \in Seq(Request)
    OBVIOUS
  <2>1. \A q \in (p + 1)..n : q \in 0..n /\ n - q <= k
    BY <1>1
  <2>2. \A q \in (p + 1)..n : f[q] \in Seq(Request)
    BY <1>5, <2>1
  <2> QED
    BY <1>3, <2>2
<1> HIDE DEF S
<1>6. n \in S
  BY <1>1, <1>4, <1>5, Induction
<1>7. \A p \in 0..n : n - p <= n
  BY <1>1
<1> QED
  BY <1>6, <1>7 DEF S


-----------------------------------------------------------------------------
(* FrameStream's own operators are those of the codec. *)

\* The CRC of some bytes.
LEMMA AbstractCrc == ASSUME NEW x PROVE CalculateCrc(x) = Abstract!CalculateCrc(x)
BY DEF CalculateCrc, Abstract!CalculateCrc, MaxUInt16, Abstract!MaxUInt16,
       Byte, Abstract!Byte, DivideBit, Abstract!DivideBit, FlipBit, Abstract!FlipBit

\* On some bytes they say the same.
LEMMA AbstractWords ==
    ASSUME NEW d \in Seq(Byte)
    PROVE  /\ Abstract!WholeFrame(d) <=> Whole(d)
           /\ d # <<>> => (Abstract!Undecided(d) <=> Waits(d))
           /\ Abstract!FrameLength(d) = FrameLength(d)
<1>1. Len(d) \in Nat
  BY LenProperties
<1>2. \A x : Abstract!CalculateCrc(x) = CalculateCrc(x)
  BY AbstractCrc, Zenon
<1>3. \A x, o, n : Abstract!Mid(x, o, n) = Mid(x, o, n)
  BY Zenon DEF Abstract!Mid, Mid
<1>4. \A x : Abstract!ChecksumMatches(x) <=> ChecksumMatches(x)
  BY <1>2, <1>3, Zenon
  DEF ChecksumMatches, Abstract!ChecksumMatches, VersionOffset, Abstract!VersionOffset
<1>5. Abstract!PayloadLength(d) = PayloadLength(d)
  BY Zenon DEF PayloadLength, Abstract!PayloadLength, ReadBigEndianUInt16,
               Abstract!ReadBigEndianUInt16, ByteAt, Abstract!ByteAt,
               PayloadLengthOffset, Abstract!PayloadLengthOffset
<1>6. Abstract!FrameLength(d) = FrameLength(d)
  BY <1>5, Zenon DEF FrameLength, Abstract!FrameLength, FixedFrameOverhead,
                     Abstract!FixedFrameOverhead
<1>7. Abstract!FitsLimit(d) <=> FitsLimit(d)
  BY <1>5, Zenon DEF FitsLimit, Abstract!FitsLimit
<1>8. Abstract!HasFrameLength(d) <=> HasFrameLength(d)
  BY Zenon DEF HasFrameLength, Abstract!HasFrameLength, PayloadOffset, Abstract!PayloadOffset
<1>9. Abstract!BeginsLikeHeader(d) <=> LikeHeader(d)
  BY Zenon DEF Abstract!BeginsLikeHeader, LikeHeader, HeaderFirst, Abstract!HeaderFirst,
               HeaderSecond, Abstract!HeaderSecond
<1>10. d # <<>> => (Abstract!Undecided(d) <=> Waits(d))
  BY <1>6, <1>7, <1>8, <1>9, Zenon DEF Abstract!Undecided, Waits
<1>11. HasFrameLength(d) => (LikeHeader(d) <=> d[1] = HeaderFirst /\ d[2] = HeaderSecond)
  BY <1>1 DEF HasFrameLength, PayloadOffset, LikeHeader
<1>12. Abstract!WholeFrame(d) <=>
           /\ HasFrameLength(d) /\ LikeHeader(d) /\ FitsLimit(d) /\ Len(d) >= FrameLength(d)
           /\ ChecksumMatches(Mid(d, 0, FrameLength(d)))
  BY <1>3, <1>4, <1>6, <1>7, <1>8, <1>9, Zenon DEF Abstract!WholeFrame
<1>13. Whole(d) <=>
           /\ HasFrameLength(d) /\ d[1] = HeaderFirst /\ d[2] = HeaderSecond
           /\ FitsLimit(d) /\ Len(d) >= FrameLength(d)
           /\ ChecksumMatches(Mid(d, 0, FrameLength(d)))
  BY Zenon DEF Whole, HasFrameLength
<1> QED
  BY <1>6, <1>10, <1>11, <1>12, <1>13, Zenon

\* So is what they take from a frame.
LEMMA AbstractRequest == \A frame : Abstract!ReadFrame(frame) = RequestOf(frame)
<1> TAKE frame
<1>1. Abstract!ProtocolRequest(frame) = ProtocolRequest(frame)
  BY Zenon DEF ProtocolRequest, Abstract!ProtocolRequest, ReadBigEndianUInt16,
               Abstract!ReadBigEndianUInt16, ByteAt, Abstract!ByteAt, Mid, Abstract!Mid,
               PayloadLength, Abstract!PayloadLength,
               PayloadLengthOffset, Abstract!PayloadLengthOffset,
               PayloadOffset, Abstract!PayloadOffset, CommandOffset, Abstract!CommandOffset,
               VersionOffset, Abstract!VersionOffset, SequenceOffset, Abstract!SequenceOffset
<1> QED
  BY <1>1, Zenon DEF Abstract!ReadFrame, RequestOf, ByteAt, Abstract!ByteAt,
                     VersionOffset, Abstract!VersionOffset

\* What FrameStream reads in some bytes is what such a reading begins with.
LEMMA RequestsInFacts ==
    ASSUME NEW d \in Seq(Byte)
    PROVE  \E f : Reads(f, d) /\ Abstract!RequestsIn(d) = f[0]
<1> DEFINE Theirs(f, p) ==
               LET rest == Abstract!Without(d, p)
               IN  IF rest = <<>> THEN <<>>
                   ELSE IF Abstract!WholeFrame(rest)
                   THEN Abstract!ReadFrame(Abstract!Mid(rest, 0, Abstract!FrameLength(rest)))
                            \o f[p + Abstract!FrameLength(rest)]
                   ELSE IF Abstract!Undecided(rest) THEN <<>> ELSE f[p + 1]
           g == CHOOSE f : f = [p \in 0..Len(d) |-> Theirs(f, p)]
<1>1. Abstract!RequestsIn(d) = g[0]
  BY Zenon DEF Abstract!RequestsIn
<1>2. \A f : \A p \in 0..Len(d) : Theirs(f, p) = Reading(f, d, p)
  <2> TAKE f
  <2> TAKE p \in 0..Len(d)
  <2> DEFINE rest == Without(d, p)
  <2>1. p \in Nat /\ p <= Len(d)
    <3>1. Len(d) \in Nat
      BY LenProperties
    <3> QED
      BY <3>1
  <2>2. rest \in Seq(Byte)
    BY <2>1, WithoutFacts
  <2>3. Abstract!Without(d, p) = rest
    BY Zenon DEF Abstract!Without, Without
  <2>4. \A x, o, n : Abstract!Mid(x, o, n) = Mid(x, o, n)
    BY Zenon DEF Abstract!Mid, Mid
  <2>5. Reading(f, d, p) =
            IF rest = <<>> THEN <<>>
            ELSE IF Whole(rest)
            THEN RequestOf(Mid(rest, 0, FrameLength(rest))) \o f[p + FrameLength(rest)]
            ELSE IF Waits(rest) THEN <<>> ELSE f[p + 1]
    BY Zenon DEF Reading
  <2>6. Theirs(f, p) =
            IF rest = <<>> THEN <<>>
            ELSE IF Abstract!WholeFrame(rest)
            THEN RequestOf(Mid(rest, 0, Abstract!FrameLength(rest)))
                     \o f[p + Abstract!FrameLength(rest)]
            ELSE IF Abstract!Undecided(rest) THEN <<>> ELSE f[p + 1]
    BY <2>3, <2>4, AbstractRequest, Zenon
  <2> HIDE DEF rest, Theirs
  <2>7. /\ Abstract!WholeFrame(rest) <=> Whole(rest)
        /\ rest # <<>> => (Abstract!Undecided(rest) <=> Waits(rest))
        /\ Abstract!FrameLength(rest) = FrameLength(rest)
    BY <2>2, AbstractWords
  <2>8. CASE rest = <<>>
    BY <2>5, <2>6, <2>8, Zenon
  <2>9. CASE rest # <<>> /\ Whole(rest)
    BY <2>5, <2>6, <2>7, <2>9, Zenon
  <2>10. CASE rest # <<>> /\ ~Whole(rest)
    BY <2>5, <2>6, <2>7, <2>10, Zenon
  <2> QED
    BY <2>8, <2>9, <2>10, Zenon
<1> HIDE DEF Theirs
<1>3. \A f : (f = [p \in 0..Len(d) |-> Theirs(f, p)]) <=> Reads(f, d)
  BY <1>2 DEF Reads
<1>4. \E f : f = [p \in 0..Len(d) |-> Theirs(f, p)]
  BY <1>3, ReadsExists
<1>5. g = [p \in 0..Len(d) |-> Theirs(g, p)]
  BY <1>4
<1> HIDE DEF g
<1>6. Reads(g, d)
  BY <1>3, <1>5
<1> QED
  BY <1>1, <1>6

\* Two readings of the same bytes agree.
LEMMA ReadsUnique ==
    ASSUME NEW d \in Seq(Byte), NEW f, NEW g, Reads(f, d), Reads(g, d)
    PROVE  f = g
<1> DEFINE n == Len(d)
           S == {k \in Nat : \A p \in 0..n : n - p <= k => f[p] = g[p]}
<1>1. n \in Nat
  BY LenProperties
<1>2. \A p \in 0..n : f[p] = Reading(f, d, p) /\ g[p] = Reading(g, d, p)
  BY Zenon DEF Reads
<1>3. ASSUME NEW p \in 0..n, \A q \in (p + 1)..n : f[q] = g[q]
      PROVE  f[p] = g[p]
  BY <1>2, <1>3, ReadingDepends
<1>4. 0 \in S
  <2> SUFFICES ASSUME NEW p \in 0..n, n - p <= 0 PROVE f[p] = g[p]
    OBVIOUS
  <2>1. (p + 1)..n = {}
    BY <1>1
  <2>2. \A q \in (p + 1)..n : f[q] = g[q]
    BY <2>1
  <2> QED
    BY <1>3, <2>2
<1>5. ASSUME NEW k \in Nat, k \in S PROVE k + 1 \in S
  <2> SUFFICES ASSUME NEW p \in 0..n, n - p <= k + 1 PROVE f[p] = g[p]
    OBVIOUS
  <2>1. \A q \in (p + 1)..n : q \in 0..n /\ n - q <= k
    BY <1>1
  <2>2. \A q \in (p + 1)..n : f[q] = g[q]
    BY <1>5, <2>1
  <2> QED
    BY <1>3, <2>2
<1> HIDE DEF S
<1>6. n \in S
  BY <1>1, <1>4, <1>5, Induction
<1>7. \A p \in 0..n : n - p <= n
  BY <1>1
<1>8. \A p \in 0..n : f[p] = g[p]
  BY <1>6, <1>7 DEF S
<1>9. f = [p \in 0..n |-> f[p]] /\ g = [p \in 0..n |-> g[p]]
  BY Zenon DEF Reads
<1> QED
  BY <1>8, <1>9


-----------------------------------------------------------------------------
(* The reading of a stream and the work of the codec. *)

\* What is read in the first b bytes of s from offset p on.
ReadAt(s, b, p) == (CHOOSE f : Reads(f, Mid(s, 0, b)))[p]

\* It is found out from the bytes there.
LEMMA ReadAtFacts ==
    ASSUME NEW s \in Seq(Byte), NEW b \in 0..Len(s), NEW p \in 0..b,
           NEW rest, rest = Mid(s, p, b - p)
    PROVE  /\ rest \in Seq(Byte) /\ Len(rest) = b - p
           /\ \A i \in 1..(b - p) : rest[i] = s[p + i]
           /\ ReadAt(s, b, p) \in Seq(Request)
           /\ rest = <<>> \/ Waits(rest) => ReadAt(s, b, p) = <<>>
           /\ Whole(rest) =>
                  ReadAt(s, b, p) = RequestOf(Mid(rest, 0, FrameLength(rest)))
                                        \o ReadAt(s, b, p + FrameLength(rest))
           /\ Rejected(rest) => ReadAt(s, b, p) = ReadAt(s, b, p + 1)
<1> DEFINE d == Mid(s, 0, b)
           f == CHOOSE g : Reads(g, d)
<1>1. Len(s) \in Nat /\ b \in Nat /\ b <= Len(s) /\ p \in Nat /\ p <= b
  <2>1. Len(s) \in Nat
    BY LenProperties
  <2> QED
    BY <2>1
<1>2. d \in Seq(Byte) /\ Len(d) = b /\ \A i \in 1..b : d[i] = s[i]
  <2>1. 0 \in Nat /\ 0 + b <= Len(s)
    BY <1>1
  <2>2. d \in Seq(Byte) /\ Len(d) = b /\ \A i \in 1..b : d[i] = s[0 + i]
    BY <1>1, <2>1, MidFacts
  <2>3. \A i \in 1..b : 0 + i = i
    BY <1>1
  <2> HIDE DEF d
  <2> QED
    BY <2>2, <2>3
<1>3. Reads(f, d)
  <2> HIDE DEF d
  <2>1. \E g : Reads(g, d)
    BY <1>2, ReadsExists
  <2> QED
    BY <2>1
<1>4. \A q : ReadAt(s, b, q) = f[q]
  BY Zenon DEF ReadAt
<1>5. /\ rest \in Seq(Byte) /\ Len(rest) = b - p
      /\ \A i \in 1..(b - p) : rest[i] = s[p + i]
  <2> DEFINE n == b - p
  <2>1. n \in Nat /\ p + n <= Len(s)
    BY <1>1
  <2> HIDE DEF n
  <2>2. /\ Mid(s, p, n) \in Seq(Byte) /\ Len(Mid(s, p, n)) = n
        /\ \A i \in 1..n : Mid(s, p, n)[i] = s[p + i]
    BY <1>1, <2>1, MidFacts
  <2> QED
    BY <2>2, Zenon DEF n
<1> HIDE DEF d, f
<1>6. Without(d, p) = rest
  <2> DEFINE u == Without(d, p)
  <2>1. u \in Seq(Byte) /\ Len(u) = b - p /\ \A i \in 1..(b - p) : u[i] = d[p + i]
    BY <1>1, <1>2, WithoutFacts
  <2> HIDE DEF u
  <2>2. \A i \in 1..(b - p) : u[i] = rest[i]
    <3> TAKE i \in 1..(b - p)
    <3>1. p + i \in 1..b
      BY <1>1
    <3> QED
      BY <1>2, <1>5, <2>1, <3>1
  <2> QED
    BY <1>5, <2>1, <2>2, SeqEqual DEF u
<1>7. f[p] = Reading(f, d, p)
  <2>1. p \in 0..Len(d)
    BY <1>1, <1>2
  <2> QED
    BY <1>3, <2>1, Zenon DEF Reads
<1>8. f[p] = IF rest = <<>> THEN <<>>
             ELSE IF Whole(rest)
             THEN RequestOf(Mid(rest, 0, FrameLength(rest))) \o f[p + FrameLength(rest)]
             ELSE IF Waits(rest) THEN <<>> ELSE f[p + 1]
  BY <1>6, <1>7, Zenon DEF Reading
<1>9. ReadAt(s, b, p) \in Seq(Request)
  <2>1. p \in 0..Len(d)
    BY <1>1, <1>2
  <2> QED
    BY <1>2, <1>3, <1>4, <2>1, ReadsType
<1>10. Whole(rest) => rest # <<>> /\ ~Waits(rest)
  <2>1. Whole(rest) => ~Waits(rest)
    BY <1>5, WholeFacts
  <2>2. Whole(rest) => rest # <<>>
    <3>1. Len(<<>>) = 0
      OBVIOUS
    <3>2. Whole(rest) => Len(rest) >= 8
      BY DEF Whole, PayloadOffset
    <3> QED
      BY <3>1, <3>2
  <2> QED
    BY <2>1, <2>2
<1>11. CASE rest = <<>>
  BY <1>4, <1>5, <1>8, <1>9, <1>10, <1>11, Zenon DEF Rejected
<1>12. CASE rest # <<>> /\ Whole(rest)
  BY <1>4, <1>5, <1>8, <1>9, <1>10, <1>12, Zenon DEF Rejected
<1>13. CASE rest # <<>> /\ ~Whole(rest)
  BY <1>4, <1>5, <1>8, <1>9, <1>13, Zenon DEF Rejected
<1> QED
  BY <1>11, <1>12, <1>13, Zenon

\* FrameStream's reading is the one from the first byte on.
LEMMA RequestsInStream ==
    ASSUME NEW s \in Seq(Byte), NEW b \in 0..Len(s)
    PROVE  Abstract!RequestsIn(Mid(s, 0, b)) = ReadAt(s, b, 0)
<1> DEFINE d == Mid(s, 0, b)
<1>1. 0 \in Nat /\ b \in Nat /\ 0 + b <= Len(s)
  <2>1. Len(s) \in Nat
    BY LenProperties
  <2> QED
    BY <2>1
<1>2. d \in Seq(Byte)
  BY <1>1, MidFacts
<1>3. ReadAt(s, b, 0) = (CHOOSE f : Reads(f, d))[0]
  BY Zenon DEF ReadAt
<1> HIDE DEF d
<1>4. PICK f : Reads(f, d) /\ Abstract!RequestsIn(d) = f[0]
  BY <1>2, RequestsInFacts
<1>5. Reads(CHOOSE g : Reads(g, d), d)
  BY <1>4
<1>6. f = CHOOSE g : Reads(g, d)
  BY <1>2, <1>4, <1>5, ReadsUnique
<1> QED
  BY <1>3, <1>4, <1>6, Zenon DEF d

\* However many bytes of the stream arrive, what is read in them is what has
\* been got up to now, followed by what is read from the buffer on.
Read ==
    \A b \in Buffered..Len(stream) :
        ReadAt(stream, b, 0) = Got \o ReadAt(stream, b, Removed)

\* What the buffer shows of a frame, the longer stream shows.
LEMMA BufferInStream ==
    ASSUME TypeOK, Placed, NEW b \in Buffered..Len(stream), NEW j \in 0..Len(m_buffer),
           NEW rest, rest = Mid(stream, Removed + j, b - (Removed + j))
    PROVE  /\ b \in 0..Len(stream) /\ Removed + j \in 0..b
           /\ Whole(Without(m_buffer, j)) =>
                  /\ Whole(rest) /\ FrameLength(rest) = FrameLength(Without(m_buffer, j))
                  /\ Mid(rest, 0, FrameLength(rest)) =
                         Mid(Without(m_buffer, j), 0, FrameLength(Without(m_buffer, j)))
           /\ Rejected(Without(m_buffer, j)) => Rejected(rest)
<1> DEFINE d == Without(m_buffer, j)
<1>1. /\ stream \in Seq(Byte) /\ Len(stream) \in Nat /\ Len(m_buffer) \in Nat
      /\ Buffered \in Nat /\ Len(m_buffer) <= Buffered
      /\ Removed = Buffered - Len(m_buffer)
  <2>1. Removed = Buffered - Len(m_buffer)
    BY Zenon DEF Removed
  <2> QED
    BY <2>1, TypeFacts DEF Placed
<1>2. b \in 0..Len(stream) /\ Removed + j \in 0..b /\ Removed + j \in Nat
      /\ Removed + j <= Buffered
  BY <1>1
<1>3. d = StreamFrom(Removed + j)
  BY BufferIsStream
<1> DEFINE p == Removed + j
<1> HIDE DEF d, p
<1>4. d \in Seq(Byte) /\ Len(d) = Buffered - p /\ \A i \in 1..(Buffered - p) : d[i] = stream[p + i]
  <2>1. p \in Nat /\ p <= Buffered /\ d = StreamFrom(p)
    BY <1>2, <1>3 DEF p
  <2> QED
    BY <2>1, StreamFromFacts
<1>5. rest \in Seq(Byte) /\ Len(rest) = b - p /\ \A i \in 1..(b - p) : rest[i] = stream[p + i]
  <2> DEFINE n == b - p
  <2>1. n \in Nat /\ p \in Nat /\ p + n <= Len(stream)
    BY <1>1, <1>2 DEF p
  <2>2. rest = Mid(stream, p, n)
    BY Zenon DEF p
  <2> HIDE DEF n
  <2>3. /\ Mid(stream, p, n) \in Seq(Byte) /\ Len(Mid(stream, p, n)) = n
        /\ \A i \in 1..n : Mid(stream, p, n)[i] = stream[p + i]
    BY <1>1, <2>1, MidFacts
  <2> QED
    BY <2>2, <2>3, Zenon DEF n
<1>6. Len(d) <= Len(rest) /\ \A i \in 1..Len(d) : rest[i] = d[i]
  <2>1. p \in Nat /\ p <= Buffered /\ b >= Buffered /\ b \in Nat
    BY <1>1, <1>2 DEF p
  <2> QED
    BY <1>1, <1>4, <1>5, <2>1
<1>7. /\ Whole(d) => /\ Whole(rest) /\ FrameLength(rest) = FrameLength(d)
                     /\ Mid(rest, 0, FrameLength(rest)) = Mid(d, 0, FrameLength(d))
      /\ Rejected(d) => Rejected(rest)
  BY <1>4, <1>5, <1>6, Final
<1> QED
  BY <1>2, <1>7, Zenon DEF d


\* Every step keeps the reading.
LEMMA ReadKept ==
    ASSUME TypeOK, TypeOK', Placed, Read,
           \/ Begins \/ Resets \/ Takes
           \/ (\E n \in Nat : Skips(n)) \/ (\E n \in Nat : Fills(n))
    PROVE  Read'
<1>1. /\ stream \in Seq(Byte) /\ Len(stream) \in Nat /\ Got \in Seq(Request)
      /\ m_buffer \in Seq(Byte) /\ Len(m_buffer) \in Nat /\ Buffered \in Nat
      /\ Len(m_buffer) <= Buffered /\ Removed = Buffered - Len(m_buffer)
      /\ data \in Seq(Byte) /\ Len(data) \in Nat /\ offset \in Nat
  <2>1. Removed = Buffered - Len(m_buffer)
    BY Zenon DEF Removed
  <2> QED
    BY <2>1, TypeFacts DEF Placed, TypeOK
<1>2. \A b \in Buffered..Len(stream) :
          ReadAt(stream, b, 0) = Got \o ReadAt(stream, b, Removed)
  BY DEF Read
<1>3. Removed' = Buffered' - Len(m_buffer')
  BY Zenon DEF Removed
<1>4. Read' <=> \A b \in Buffered'..Len(stream') :
                    ReadAt(stream', b, 0) = Got' \o ReadAt(stream', b, Removed')
  BY Zenon DEF Read, ReadAt
<1>5. CASE Begins
  <2>1. m_buffer' = m_buffer /\ stream' = stream /\ Buffered' = Buffered /\ Got' = Got
    BY <1>5 DEF Begins
  <2>2. Removed' = Removed
    BY <1>1, <1>3, <2>1
  <2> QED
    BY <1>2, <1>4, <2>1, <2>2
<1>6. CASE Resets
  <2>1. m_buffer' = <<>> /\ Got' = <<>>
    BY <1>6 DEF Resets
  <2>2. Buffered' = 0
    BY <1>6 DEF Resets
  <2>3. Len(m_buffer') = 0
    BY <2>1
  <2>4. Removed' = 0
    BY <1>3, <2>2, <2>3
  <2>5. stream' \in Seq(Byte) /\ Len(stream') \in Nat
    <3>1. stream' \in Seq(Byte)
      BY StreamsAssumption DEF TypeOK
    <3> QED
      BY <3>1, LenProperties
  <2>6. ASSUME NEW b \in Buffered'..Len(stream')
        PROVE  ReadAt(stream', b, 0) = Got' \o ReadAt(stream', b, Removed')
    <3>1. b \in 0..Len(stream') /\ 0 \in 0..b
      BY <2>2, <2>5
    <3>2. ReadAt(stream', b, 0) \in Seq(Request)
      BY <2>5, <3>1, ReadAtFacts
    <3>3. ReadAt(stream', b, 0) = <<>> \o ReadAt(stream', b, 0)
      BY <3>2, ConcatEmptySeq
    <3> QED
      BY <2>1, <2>4, <3>3, Zenon
  <2> QED
    BY <1>4, <2>6
<1>7. ASSUME NEW n \in Nat, Moves(n)
      PROVE  /\ n <= Len(m_buffer) /\ stream' = stream /\ Buffered' = Buffered
             /\ Removed' = Removed + n
  <2>1. n <= Len(m_buffer) /\ m_buffer' = Without(m_buffer, n) /\ Buffered' = Buffered
        /\ stream' = stream
    BY <1>1, <1>7 DEF Moves
  <2>2. Len(m_buffer') = Len(m_buffer) - n
    BY <1>1, <2>1, WithoutFacts
  <2> QED
    BY <1>1, <1>3, <2>1, <2>2
\* The reading passes over bytes with which no frame starts.
<1>8. CASE \E n \in Nat : Skips(n)
  <2>1. PICK n \in Nat : Skips(n)
    BY <1>8
  <2>2. /\ Moves(n) /\ Got' = Got
        /\ \A j \in 0..(n - 1) : Rejected(Without(m_buffer, j))
    BY <2>1 DEF Skips
  <2>3. /\ n <= Len(m_buffer) /\ stream' = stream /\ Buffered' = Buffered
        /\ Removed' = Removed + n
    BY <1>7, <2>2
  <2>4. ASSUME NEW b \in Buffered..Len(stream)
        PROVE  ReadAt(stream, b, Removed) = ReadAt(stream, b, Removed + n)
    <3> DEFINE S == {k \in Nat : k <= n =>
                        ReadAt(stream, b, Removed) = ReadAt(stream, b, Removed + k)}
    <3>1. 0 \in S
      <4>1. Removed + 0 = Removed
        BY <1>1
      <4> QED
        BY <4>1
    <3>2. ASSUME NEW k \in Nat, k \in S PROVE k + 1 \in S
      <4> SUFFICES ASSUME k + 1 <= n
                   PROVE  ReadAt(stream, b, Removed) = ReadAt(stream, b, Removed + (k + 1))
        OBVIOUS
      <4>1. k <= n /\ k \in 0..(n - 1) /\ k \in 0..Len(m_buffer)
        BY <1>1, <2>3
      <4>2. ReadAt(stream, b, Removed) = ReadAt(stream, b, Removed + k)
        BY <3>2, <4>1
      <4> DEFINE rest == Mid(stream, Removed + k, b - (Removed + k))
      <4>3. b \in 0..Len(stream) /\ Removed + k \in 0..b
            /\ (Rejected(Without(m_buffer, k)) => Rejected(rest))
        BY <4>1, BufferInStream
      <4>4. Rejected(rest)
        BY <2>2, <4>1, <4>3
      <4>5. Rejected(rest) =>
                ReadAt(stream, b, Removed + k) = ReadAt(stream, b, (Removed + k) + 1)
        BY <1>1, <4>3, ReadAtFacts
      <4>6. (Removed + k) + 1 = Removed + (k + 1)
        BY <1>1
      <4> QED
        BY <4>2, <4>4, <4>5, <4>6, Zenon
    <3> HIDE DEF S
    <3>3. n \in S
      BY <3>1, <3>2, Induction
    <3>4. n <= n
      OBVIOUS
    <3> QED
      BY <3>3, <3>4 DEF S
  <2> QED
    BY <1>2, <1>4, <2>2, <2>3, <2>4
\* Bytes that arrive were read already.
<1>9. CASE \E n \in Nat : Fills(n)
  <2>1. PICK n \in Nat : Fills(n)
    BY <1>9
  <2> DEFINE more == Mid(data, offset, n)
  <2>2. /\ n \in 1..(Len(data) - offset) /\ m_buffer' = m_buffer \o more
        /\ Buffered' = Buffered + n /\ stream' = stream /\ Got' = Got
    BY <2>1 DEF Fills
  <2>3. offset + n <= Len(data)
    BY <1>1, <2>2
  <2>4. more \in Seq(Byte) /\ Len(more) = n
    BY <1>1, <2>3, MidFacts
  <2> HIDE DEF more
  <2>5. Len(m_buffer') = Len(m_buffer) + n
    BY <1>1, <2>2, <2>4, ConcatProperties
  <2>6. Removed' = Removed
    BY <1>1, <1>3, <2>2, <2>5
  <2>7. \A b \in (Buffered + n)..Len(stream) : b \in Buffered..Len(stream)
    BY <1>1
  <2> QED
    BY <1>2, <1>4, <2>2, <2>6, <2>7
\* The reading takes the frame, too.
<1>10. CASE Takes
  <2> DEFINE n == FrameLength(m_buffer)
             of == RequestOf(Mid(m_buffer, 0, n))
  <2>1. Whole(m_buffer) /\ Moves(n)
    BY <1>10, Zenon DEF Takes
  <2>2. n \in Nat /\ of \in Seq(Request) /\ ProtocolRequest(Mid(m_buffer, 0, n)) \in Request
    BY <1>1, <2>1, WholeFacts
  <2>3. /\ n <= Len(m_buffer) /\ stream' = stream /\ Buffered' = Buffered
        /\ Removed' = Removed + n
    BY <1>7, <2>1, <2>2
  <2>4. Got' = Got \o of
    <3> DEFINE q == ProtocolRequest(Mid(m_buffer, 0, n))
    <3>1. FirstFrame = Mid(m_buffer, 0, n)
      BY Zenon DEF FirstFrame
    <3>2. CASE ByteAt(FirstFrame, VersionOffset) = Codec.version
      <4>1. Got' = Append(Got, q)
        BY <1>10, <3>1, <3>2, Zenon DEF Takes
      <4>2. of = <<q>>
        BY <3>1, <3>2, Zenon DEF RequestOf
      <4> HIDE DEF q, of
      <4>3. q \in Request
        BY <2>2 DEF q
      <4>4. Append(Got, q) = Got \o <<q>>
        BY <1>1, <4>3, AppendIsConcat
      <4> QED
        BY <4>1, <4>2, <4>4, Zenon
    <3>3. CASE ByteAt(FirstFrame, VersionOffset) # Codec.version
      <4>1. Got' = Got
        BY <1>10, <3>3, Zenon DEF Takes
      <4>2. of = <<>>
        BY <3>1, <3>3, Zenon DEF RequestOf
      <4> HIDE DEF of
      <4>3. Got \o <<>> = Got
        BY <1>1, ConcatEmptySeq
      <4> QED
        BY <4>1, <4>2, <4>3, Zenon
    <3> QED
      BY <3>2, <3>3
  <2>5. ASSUME NEW b \in Buffered..Len(stream)
        PROVE  ReadAt(stream, b, 0) = (Got \o of) \o ReadAt(stream, b, Removed + n)
    <3> DEFINE rest == Mid(stream, Removed, b - Removed)
               tail == ReadAt(stream, b, Removed + n)
    <3>1. Without(m_buffer, 0) = m_buffer /\ Removed + 0 = Removed /\ 0 \in 0..Len(m_buffer)
      BY <1>1, WithoutNone
    <3>2. /\ b \in 0..Len(stream) /\ Removed + 0 \in 0..b
          /\ Whole(Without(m_buffer, 0)) =>
                 LET longer == Mid(stream, Removed + 0, b - (Removed + 0))
                 IN  /\ Whole(longer) /\ FrameLength(longer) = FrameLength(Without(m_buffer, 0))
                     /\ Mid(longer, 0, FrameLength(longer)) =
                          Mid(Without(m_buffer, 0), 0, FrameLength(Without(m_buffer, 0)))
      BY <3>1, BufferInStream
    <3>3. /\ Whole(rest) /\ FrameLength(rest) = n
          /\ Mid(rest, 0, n) = Mid(m_buffer, 0, n)
      BY <2>1, <3>1, <3>2, Zenon
    <3>4. Removed \in 0..b /\ Removed + n \in 0..b
      BY <1>1, <2>2, <2>3, <3>1, <3>2
    <3>5. Whole(rest) =>
              ReadAt(stream, b, Removed) = RequestOf(Mid(rest, 0, FrameLength(rest)))
                                               \o ReadAt(stream, b, Removed + FrameLength(rest))
      <4>1. /\ stream \in Seq(Byte) /\ b \in 0..Len(stream) /\ Removed \in 0..b
            /\ rest = Mid(stream, Removed, b - Removed)
        BY <1>1, <3>2, <3>4
      <4> HIDE DEF rest
      <4> QED
        BY <4>1, ReadAtFacts
    <3>6. ReadAt(stream, b, Removed) = of \o tail
      BY <3>3, <3>5, Zenon
    <3>7. tail \in Seq(Request)
      BY <1>1, <3>2, <3>4, ReadAtFacts
    <3> HIDE DEF of, tail
    <3>8. (Got \o of) \o tail = Got \o (of \o tail)
      BY <1>1, <2>2, <3>7, ConcatRequests, Zenon
    <3>9. ReadAt(stream, b, 0) = Got \o ReadAt(stream, b, Removed)
      BY <1>2
    <3> QED
      BY <3>6, <3>8, <3>9, Zenon DEF tail
  <2> HIDE DEF of, n
  <2> QED
    BY <1>4, <2>3, <2>4, <2>5
<1> QED
  BY <1>5, <1>6, <1>8, <1>9, <1>10


-----------------------------------------------------------------------------
(* The codec implements FrameStream. *)

DecodeInv == CodecInv /\ Read

\* With nothing decoded yet there is nothing to read.
LEMMA InitRead == Init => DecodeInv
<1> SUFFICES ASSUME Init PROVE DecodeInv
  OBVIOUS
<1>1. CodecInv
  BY InitInv
<1>2. /\ m_buffer = <<>> /\ data = <<>> /\ result = NoResult /\ stream \in Streams
      /\ found = <<>>
  BY DEF Init
<1>3. arrived = 0 /\ offset = 0
  BY DEF Init
<1>4. Len(data) = 0 /\ Len(m_buffer) = 0
  BY <1>2
<1>5. Buffered = 0 /\ Removed = 0
  BY <1>3, <1>4 DEF Buffered, Removed
<1>6. Got = <<>>
  <2>1. Got = <<>> \o <<>>
    BY <1>2, NothingFound, Zenon DEF Got
  <2> QED
    BY <2>1
<1>7. stream \in Seq(Byte) /\ Len(stream) \in Nat
  <2>1. stream \in Seq(Byte)
    BY <1>2, StreamsAssumption
  <2> QED
    BY <2>1, LenProperties
<1>8. ASSUME NEW b \in Buffered..Len(stream)
      PROVE  ReadAt(stream, b, 0) = Got \o ReadAt(stream, b, Removed)
  <2>1. b \in 0..Len(stream) /\ 0 \in 0..b
    BY <1>5, <1>7
  <2>2. ReadAt(stream, b, 0) \in Seq(Request)
    BY <1>7, <2>1, ReadAtFacts
  <2>3. ReadAt(stream, b, 0) = <<>> \o ReadAt(stream, b, 0)
    BY <2>2, ConcatEmptySeq
  <2> QED
    BY <1>5, <1>6, <2>3, Zenon
<1>9. Read
  BY <1>8 DEF Read
<1> QED
  BY <1>1, <1>9 DEF DecodeInv

\* Every step keeps it.
LEMMA NextRead == DecodeInv /\ [Next]_vars => DecodeInv'
<1> SUFFICES ASSUME DecodeInv, [Next]_vars PROVE DecodeInv'
  OBVIOUS
<1>1. CodecInv /\ TypeOK /\ Held /\ Placed /\ Read
  BY DEF DecodeInv, CodecInv
<1>2. CodecInv'
  BY <1>1, NextInv
<1>3. \/ Begins \/ Resets \/ Takes
      \/ (\E n \in Nat : Skips(n)) \/ (\E n \in Nat : Fills(n))
  BY <1>1, StepShape
<1>4. TypeOK'
  BY <1>2 DEF CodecInv
<1>5. Read'
  BY <1>1, <1>3, <1>4, ReadKept
<1> QED
  BY <1>2, <1>5 DEF DecodeInv

\* What has been returned is what FrameStream reads in the bytes given, whenever
\* no call is running.
Decoded == pc = "idle" => found = Abstract!RequestsIn(Mid(stream, 0, arrived))

\* It follows: of the bytes in the buffer nothing can be read.
LEMMA InvDecoded == DecodeInv => Decoded
<1> SUFFICES ASSUME DecodeInv, pc = "idle"
             PROVE  found = Abstract!RequestsIn(Mid(stream, 0, arrived))
  BY DEF Decoded
<1>1. TypeOK /\ Held /\ Placed /\ Read
  BY DEF DecodeInv, CodecInv
<1>2. data = <<>> /\ result = NoResult /\ (m_buffer = <<>> \/ Waits(m_buffer))
  BY <1>1 DEF TypeOK, Held
<1>3. /\ stream \in Seq(Byte) /\ arrived \in Nat /\ Len(stream) \in Nat
      /\ arrived <= Len(stream) /\ m_buffer \in Seq(Byte) /\ Len(m_buffer) \in Nat
      /\ found \in Seq(Request) /\ offset \in 0..Len(data)
      /\ Len(m_buffer) <= Buffered
  BY <1>1, TypeFacts DEF TypeOK, Placed
<1>4. Len(data) = 0
  BY <1>2
<1>5. Buffered = arrived
  BY <1>3, <1>4 DEF Buffered
<1>6. Removed = arrived - Len(m_buffer) /\ Removed \in 0..arrived /\ Removed + 0 = Removed
  <2>1. Removed = Buffered - Len(m_buffer)
    BY Zenon DEF Removed
  <2> QED
    BY <1>3, <1>5, <2>1
<1>7. Got = found
  <2>1. Got = found \o <<>>
    BY <1>2, NothingFound, Zenon DEF Got
  <2> QED
    BY <1>3, <2>1, ConcatEmptySeq
<1>8. m_buffer = Mid(stream, Removed, arrived - Removed)
  <2>1. 0 \in 0..Len(m_buffer)
    BY <1>3
  <2>2. Without(m_buffer, 0) = StreamFrom(Removed + 0)
    BY <1>1, <2>1, BufferIsStream
  <2>3. Without(m_buffer, 0) = m_buffer
    BY <1>3, WithoutNone
  <2>4. m_buffer = StreamFrom(Removed)
    BY <1>6, <2>2, <2>3, Zenon
  <2> QED
    BY <1>5, <2>4, Zenon DEF StreamFrom
<1>9. arrived \in 0..Len(stream) /\ arrived \in Buffered..Len(stream)
  BY <1>3, <1>5
<1>10. ReadAt(stream, arrived, Removed) = <<>>
  BY <1>2, <1>3, <1>6, <1>8, <1>9, ReadAtFacts
<1>11. ReadAt(stream, arrived, 0) = found \o <<>>
  BY <1>1, <1>7, <1>9, <1>10, Zenon DEF Read
<1>12. Abstract!RequestsIn(Mid(stream, 0, arrived)) = ReadAt(stream, arrived, 0)
  BY <1>3, <1>9, RequestsInStream
<1> QED
  BY <1>3, <1>11, <1>12, ConcatEmptySeq

\* What a step does to what FrameStream speaks of: nothing, unless a call
\* returns or another stream begins.
LEMMA FoundShape ==
    ASSUME TypeOK, Held, [Next]_vars
    PROVE  \/ /\ stream' = stream /\ found' = found
              /\ arrived' - Len(data') = arrived - Len(data)
           \/ /\ pc = "parse" /\ pc' = "idle" /\ stream' = stream /\ arrived' = arrived
              /\ data' = <<>>
           \/ /\ stream' \in Streams /\ arrived' = 0 /\ found' = <<>> /\ data' = <<>>
<1>1. /\ stream \in Seq(Byte) /\ Len(stream) \in Nat /\ arrived \in Nat
      /\ Len(data) \in Nat /\ arrived <= Len(stream)
  BY TypeFacts
<1>2. ASSUME NEW r, NEW buffer, pc = "parse", ParseReturns(buffer, r)
      PROVE  \/ stream' = stream /\ found' = found /\ arrived' = arrived /\ data' = data
             \/ /\ pc = "parse" /\ pc' = "idle" /\ stream' = stream /\ arrived' = arrived
                /\ data' = <<>>
  BY <1>2 DEF ParseReturns
<1>3. CASE AppendCall
  <2>1. PICK count \in 1..(Len(stream) - arrived) :
            data' = Mid(stream, arrived, count) /\ arrived' = arrived + count
    BY <1>3 DEF AppendCall
  <2>2. pc = "idle" /\ stream' = stream /\ found' = found
    BY <1>3 DEF AppendCall
  <2>3. count \in Nat /\ arrived + count <= Len(stream)
    BY <1>1, <2>1
  <2>4. Len(data') = count
    BY <1>1, <2>1, <2>3, MidFacts
  <2>5. Len(data) = 0
    <3>1. data = <<>>
      BY <2>2 DEF TypeOK
    <3> QED
      BY <3>1
  <2>6. arrived' - Len(data') = arrived - Len(data)
    <3>1. arrived' = arrived + count
      BY <2>1
    <3> QED
      BY <1>1, <2>3, <2>4, <2>5, <3>1
  <2> QED
    BY <2>2, <2>6
<1>4. CASE FillBuffer
  BY <1>4 DEF FillBuffer
<1>5. CASE BufferEmpty
  BY <1>2, <1>5 DEF BufferEmpty
<1>6. CASE DiscardAllNoise
  BY <1>2, <1>6, Zenon DEF DiscardAllNoise
<1>7. CASE WaitForBytes
  BY <1>2, <1>7 DEF WaitForBytes, HeaderIsFirst
<1>8. CASE DiscardNoise \/ RejectLength \/ RejectChecksum \/ RejectVersion
  BY <1>8 DEF DiscardNoise, RejectLength, RejectChecksum, RejectVersion, Discard
<1>9. CASE TakeRequest
  BY <1>9 DEF TakeRequest
<1>10. CASE Reset
  <2>1. pc = "idle" /\ stream' \in Streams /\ arrived' = 0 /\ found' = <<>> /\ data' = data
    BY <1>10 DEF Reset
  <2>2. data = <<>>
    BY <2>1 DEF TypeOK
  <2> QED
    BY <2>1, <2>2
<1>11. CASE UNCHANGED vars
  BY <1>11 DEF vars
<1> QED
  BY <1>3, <1>4, <1>5, <1>6, <1>7, <1>8, <1>9, <1>10, <1>11 DEF Next, Running

\* Every step of the codec is a step of FrameStream, or nothing it speaks of.
LEMMA StepDecodes ==
    DecodeInv /\ DecodeInv' /\ Decoded' /\ [Next]_vars => [Abstract!Next]_(Abstract!vars)
<1> SUFFICES ASSUME DecodeInv, DecodeInv', Decoded', [Next]_vars
             PROVE  [Abstract!Next]_(Abstract!vars)
  OBVIOUS
<1>1. TypeOK /\ Held /\ TypeOK'
  BY DEF DecodeInv, CodecInv
<1>2. /\ stream \in Seq(Byte) /\ Len(stream) \in Nat /\ arrived \in Nat
      /\ Len(data) \in Nat /\ arrived <= Len(stream) /\ data \in Seq(Byte)
      /\ Len(data) <= arrived
  BY <1>1, TypeFacts DEF TypeOK
<1>3. CASE /\ stream' = stream /\ found' = found
           /\ arrived' - Len(data') = arrived - Len(data)
  BY <1>3 DEF Abstract!vars
<1>4. CASE /\ pc = "parse" /\ pc' = "idle" /\ stream' = stream /\ arrived' = arrived
           /\ data' = <<>>
  <2>1. Len(data') = 0
    BY <1>4
  <2>2. Len(data) # 0
    BY <1>1, <1>2, <1>4, EmptySeq DEF Held
  <2>3. arrived' - Len(data') = arrived
    BY <1>2, <1>4, <2>1
  <2>4. arrived \in ((arrived - Len(data)) + 1)..Len(stream)
    BY <1>2, <2>2
  <2>5. found' = Abstract!RequestsIn(Mid(stream, 0, arrived))
    BY <1>4 DEF Decoded
  <2>6. \A x, o, n : Abstract!Mid(x, o, n) = Mid(x, o, n)
    BY Zenon DEF Abstract!Mid, Mid
  <2>7. Abstract!Arrive
    BY <1>4, <2>3, <2>4, <2>5, <2>6, Zenon DEF Abstract!Arrive
  <2> QED
    BY <2>7 DEF Abstract!Next
<1>5. CASE stream' \in Streams /\ arrived' = 0 /\ found' = <<>> /\ data' = <<>>
  <2>1. Len(data') = 0
    BY <1>5
  <2>2. arrived' = 0
    BY <1>5
  <2>3. arrived' - Len(data') = 0
    BY <2>1, <2>2
  <2>4. Abstract!Restart
    BY <1>5, <2>3, Zenon DEF Abstract!Restart
  <2> QED
    BY <2>4 DEF Abstract!Next
<1> QED
  BY <1>1, <1>3, <1>4, <1>5, FoundShape

\* The requests returned depend on the bytes alone, never on how they were cut
\* into calls (DemoBinaryProtocolCodec.cpp:86-112, 203-287).
THEOREM StreamIsDecoded == Spec => StreamDecoded
<1>1. Init => Abstract!Init
  <2> SUFFICES ASSUME Init PROVE Abstract!Init
    OBVIOUS
  <2>1. stream \in Streams /\ found = <<>> /\ data = <<>>
    BY DEF Init
  <2>2. arrived = 0
    BY DEF Init
  <2>3. Len(data) = 0
    BY <2>1
  <2>4. arrived - Len(data) = 0
    BY <2>2, <2>3
  <2> QED
    BY <2>1, <2>4, Zenon DEF Abstract!Init
<1>2. Spec => []DecodeInv
  BY InitRead, NextRead, PTL DEF Spec
<1> QED
  BY <1>1, <1>2, InvDecoded, StepDecodes, PTL DEF Spec, StreamDecoded, Abstract!Service

-----------------------------------------------------------------------------
(* The CRC of some bytes is two bytes. *)

Word == 0..MaxUInt16

\* A word and a number that is not beyond the largest word.
LEMMA WordIsNat == \A w : w \in Word <=> w \in Nat /\ w < 65536
<1> TAKE w
<1>1. MaxUInt16 \in Nat /\ MaxUInt16 >= 65535 /\ MaxUInt16 <= 65535
  BY SMT DEF MaxUInt16
<1>2. ASSUME w \in Word PROVE w \in Nat /\ w < 65536
  BY <1>1, <1>2, SMT DEF Word
<1>3. ASSUME w \in Nat, w < 65536 PROVE w \in Word
  BY <1>1, <1>3, SMT DEF Word
<1> QED
  BY <1>2, <1>3

\* A bit is set or deleted.
LEMMA FlipBitIs ==
    ASSUME NEW w, NEW i, NEW k, k = 2^i
    PROVE  FlipBit(w, i) = IF (w \div k) % 2 = 0 THEN w + k ELSE w - k
BY Zenon DEF FlipBit

\* One bit of the division makes a word of a word.
LEMMA DivideBitType == ASSUME NEW w \in Word PROVE DivideBit(w) \in Word
<1>1. w \in Nat /\ w < 65536
  BY WordIsNat
<1> DEFINE half == w \div 2
           high == FlipBit(half, 15)
           q == high \div 8192
           middle == FlipBit(high, 13)
           low == FlipBit(middle, 0)
<1>2. half \in Nat /\ half < 32768
  BY <1>1, SMT
<1>3. 2^15 = 32768 /\ 2^13 = 8192 /\ 2^0 = 1
  OBVIOUS
<1> HIDE DEF half
<1>4. high = half + 32768
  <2> DEFINE k == 2^15
  <2>1. high = IF (half \div k) % 2 = 0 THEN half + k ELSE half - k
    BY FlipBitIs
  <2>2. k = 32768
    BY <1>3
  <2> HIDE DEF k
  <2>3. half \div k = 0
    BY <1>2, <2>2, SMT
  <2>4. (half \div k) % 2 = 0
    BY <2>3
  <2> QED
    BY <2>1, <2>2, <2>4
<1>5. high \in Nat /\ high < 65536 /\ high >= 32768
  BY <1>2, <1>4, SMT
<1> HIDE DEF high
<1>6. q \in Nat /\ q < 8 /\ 8192 * q <= high /\ high < 8192 * q + 8192
  BY <1>5, SMT
<1>7. middle = IF q % 2 = 0 THEN high + 8192 ELSE high - 8192
  <2> DEFINE k == 2^13
  <2>1. middle = IF (high \div k) % 2 = 0 THEN high + k ELSE high - k
    BY FlipBitIs
  <2>2. k = 8192
    BY <1>3
  <2> HIDE DEF k, middle
  <2> QED
    BY <2>1, <2>2
<1> HIDE DEF q
<1>8. middle \in Nat /\ middle < 65536
  BY <1>5, <1>6, <1>7, SMT
<1> HIDE DEF middle
<1>9. low = IF (middle \div 1) % 2 = 0 THEN middle + 1 ELSE middle - 1
  <2> DEFINE k == 2^0
  <2>1. low = IF (middle \div k) % 2 = 0 THEN middle + k ELSE middle - k
    BY FlipBitIs
  <2>2. k = 1
    BY <1>3
  <2> HIDE DEF k, low
  <2> QED
    BY <2>1, <2>2
<1>10. middle \div 1 = middle
  BY <1>8, SMT
<1>11. low \in Nat /\ low < 65536
  BY <1>8, <1>9, <1>10, SMT
<1>12. DivideBit(w) = IF w % 2 = 1 THEN low ELSE half
  BY Zenon DEF DivideBit, half, high, middle, low
<1> HIDE DEF low
<1>13. low \in Word /\ half \in Word
  BY <1>2, <1>11, WordIsNat
<1> QED
  BY <1>12, <1>13

\* One that differs from a word in the bits of a byte.
XorOf(f) ==
    [p \in Word \X Byte |->
        IF p[2] = 0 THEN p[1]
        ELSE 2 * f[<<p[1] \div 2, p[2] \div 2>>] + ((p[1] + p[2]) % 2)]

DivideOf(f) ==
    [p \in (0..8) \X Word |-> IF p[1] = 0 THEN p[2] ELSE f[<<p[1] - 1, DivideBit(p[2])>>]]

CrcOf(data_, xor, divide, f) ==
    [n \in 0..Len(data_) |->
        IF n = 0 THEN MaxUInt16 ELSE divide[<<8, xor[<<f[n - 1], data_[n]>>]>>]]

\* CalculateCrc in terms of the three.
LEMMA CrcIs ==
    ASSUME NEW d
    PROVE  LET xor == CHOOSE f : f = XorOf(f)
               divide == CHOOSE f : f = DivideOf(f)
               crc == CHOOSE f : f = CrcOf(d, xor, divide, f)
           IN  CalculateCrc(d) = <<crc[Len(d)] % 256, crc[Len(d)] \div 256>>
BY Zenon DEF CalculateCrc, XorOf, DivideOf, CrcOf, Word

\* There is such an exclusive or, and it stays among the words.
LEMMA XorType ==
    ASSUME NEW xor, xor = CHOOSE f : f = XorOf(f)
    PROVE  \A w \in Word, b \in Byte : xor[<<w, b>>] \in Word
<1> DEFINE D == Word \X Byte
           m == [p \in D |-> p[2]]
           next == [p \in D |-> <<p[1] \div 2, p[2] \div 2>>]
           base == [p \in D |-> p[1]]
           step == [q \in D \X Nat |-> 2 * q[2] + ((q[1][1] + q[1][2]) % 2)]
           B == {1, 2, 4, 8, 16, 32, 64, 128, 256, 512, 1024, 2048, 4096, 8192, 16384,
                 32768, 65536}
           R == {r \in D \X Nat : \A b \in B : r[1][1] < b /\ r[1][2] < b => r[2] < b}
<1>1. \A p \in D : /\ p[1] \in Nat /\ p[1] < 65536 /\ p[2] \in Nat /\ p[2] < 256
                   /\ p = <<p[1], p[2]>>
  BY WordIsNat DEF Byte
<1>2. \A w, b : w \in Nat /\ w < 65536 /\ b \in Nat /\ b < 256 => <<w, b>> \in D
  BY WordIsNat DEF Byte
<1> HIDE DEF D
<1>3. m \in [D -> Nat] /\ base \in [D -> Nat]
  BY <1>1
<1>4. \A n \in Nat : n \div 2 \in Nat /\ n \div 2 <= n /\ (n # 0 => n \div 2 < n)
  BY SMT
<1>5. next \in [D -> D]
  BY <1>1, <1>2, <1>4
<1>6. step \in [D \X Nat -> Nat]
  BY <1>1
<1>7. \A p \in D : m[p] # 0 => m[next[p]] < m[p]
  <2> TAKE p \in D
  <2>1. next[p] \in D /\ next[p] = <<p[1] \div 2, p[2] \div 2>>
    BY <1>5
  <2>2. m[p] = p[2] /\ m[next[p]] = p[2] \div 2
    BY <2>1
  <2> QED
    BY <1>1, <1>4, <2>2
<1> DEFINE N == 255
<1>8. N \in Nat /\ \A p \in D : m[p] <= N
  BY <1>1
<1> HIDE DEF m, next, base, step, B, R, N
<1>9. Descends(D, m, next)
  BY <1>3, <1>5, <1>7 DEF Descends
<1>10. PICK g : g \in [D -> Nat] /\ Recursive(g, D, m, next, base, step)
  BY <1>3, <1>6, <1>8, <1>9, RecursionExists
<1>11. g = XorOf(g)
  <2>1. \A p \in D : /\ m[p] = p[2] /\ base[p] = p[1]
                     /\ next[p] = <<p[1] \div 2, p[2] \div 2>> /\ next[p] \in D
    BY <1>5 DEF m, base, next
  <2>2. \A p \in D, v \in Nat : step[<<p, v>>] = 2 * v + ((p[1] + p[2]) % 2)
    BY DEF step
  <2>3. \A p \in D :
            g[p] = IF p[2] = 0 THEN p[1]
                   ELSE 2 * g[<<p[1] \div 2, p[2] \div 2>>] + ((p[1] + p[2]) % 2)
    <3> TAKE p \in D
    <3>1. g[next[p]] \in Nat
      BY <1>10, <2>1
    <3>2. step[<<p, g[next[p]]>>] = 2 * g[next[p]] + ((p[1] + p[2]) % 2)
      BY <2>2, <3>1
    <3> QED
      BY <1>10, <2>1, <3>2, Zenon DEF Recursive
  <2>4. g = [p \in D |-> g[p]]
    BY <1>10
  <2> QED
    BY <2>3, <2>4 DEF XorOf, D
<1>12. xor = XorOf(xor)
  BY <1>11, Zenon
<1> DEFINE f == xor
<1>13. \A p \in D :
          f[p] = IF p[2] = 0 THEN p[1]
                 ELSE 2 * f[<<p[1] \div 2, p[2] \div 2>>] + ((p[1] + p[2]) % 2)
  BY <1>12 DEF XorOf, D
<1> HIDE DEF f
<1>14. \A p, v : p \in D =>
            (<<p, v>> \in R <=> v \in Nat /\ \A b \in B : p[1] < b /\ p[2] < b => v < b)
  BY DEF R
<1>15. \A b \in B : b \in Nat /\ (b = 1 \/ \E c \in B : b = 2 * c)
  BY SMT DEF B
<1>16. \A p \in D : <<p, f[p]>> \in R
  <2>1. \A p \in D : m[p] = p[2] /\ next[p] = <<p[1] \div 2, p[2] \div 2>> /\ next[p] \in D
    BY <1>5 DEF m, next
  <2>2. ASSUME NEW p \in D, m[p] = 0 PROVE <<p, f[p]>> \in R
    <3>1. f[p] = p[1] /\ p[1] \in Nat
      BY <1>1, <1>13, <2>1, <2>2
    <3> QED
      BY <1>14, <3>1
  <2>3. ASSUME NEW p \in D, m[p] # 0, <<next[p], f[next[p]]>> \in R PROVE <<p, f[p]>> \in R
    <3> DEFINE w == p[1]
               x == p[2]
               v == f[next[p]]
    <3>1. w \in Nat /\ x \in Nat /\ x # 0
      BY <1>1, <2>1, <2>3
    <3> DEFINE q == <<w \div 2, x \div 2>>
    <3>2. next[p] = q /\ q \in D /\ q[1] = w \div 2 /\ q[2] = x \div 2
      BY <2>1
    <3>3. f[p] = 2 * f[q] + ((w + x) % 2)
      BY <1>13, <3>1
    <3> HIDE DEF q
    <3>4. /\ next[p] \in D /\ next[p][1] = w \div 2 /\ next[p][2] = x \div 2
          /\ f[p] = 2 * v + ((w + x) % 2)
      BY <3>2, <3>3
    <3>5. v \in Nat /\ \A b \in B : w \div 2 < b /\ x \div 2 < b => v < b
      BY <1>14, <2>3, <3>4
    <3> HIDE DEF w, x, v
    <3>6. (w + x) % 2 \in {0, 1}
      BY <3>1, SMT
    <3>7. ASSUME NEW b \in B, w < b, x < b PROVE f[p] < b
      <4>1. b # 1 /\ b \in Nat
        BY <1>15, <3>1, <3>7
      <4>2. PICK c \in B : b = 2 * c
        BY <1>15, <4>1
      <4>3. c \in Nat
        BY <1>15
      <4>4. w \div 2 < c /\ x \div 2 < c
        BY <3>1, <3>7, <4>2, <4>3, SMT
      <4>5. v < c
        BY <3>5, <4>4
      <4> QED
        BY <3>4, <3>5, <3>6, <4>2, <4>3, <4>5
    <3>8. f[p] \in Nat
      BY <3>4, <3>5, <3>6
    <3> QED
      BY <1>14, <3>7, <3>8 DEF w, x
  <2> QED
    BY <1>9, <2>2, <2>3, RecursionHolds
<1> QED
  <2> SUFFICES ASSUME NEW w \in Word, NEW b \in Byte PROVE f[<<w, b>>] \in Word
    BY DEF f
  <2>1. w \in Nat /\ w < 65536 /\ b \in Nat /\ b < 65536
    BY WordIsNat DEF Byte
  <2>2. <<w, b>> \in D
    BY DEF D
  <2>3. 65536 \in B
    BY DEF B
  <2> DEFINE p == <<w, b>>
             most == 65536
  <2>4. p[1] = w /\ p[2] = b /\ p \in D
    BY <2>2
  <2>5. w < most /\ b < most /\ most \in B
    BY <2>1, <2>3
  <2> HIDE DEF p, most
  <2>6. f[p] \in Nat /\ f[p] < most
    BY <1>16, <1>14, <2>4, <2>5
  <2> QED
    BY <2>6, WordIsNat DEF p, most

\* A step of the division exists for each word, and yields one.
LEMMA DivideType ==
    ASSUME NEW divide, divide = CHOOSE f : f = DivideOf(f)
    PROVE  \A w \in Word : divide[<<8, w>>] \in Word
<1> DEFINE D == (0..8) \X Word
           m == [p \in D |-> p[1]]
           next == [p \in D |-> IF p[1] = 0 THEN p ELSE <<p[1] - 1, DivideBit(p[2])>>]
           base == [p \in D |-> p[2]]
           step == [q \in D \X Word |-> q[2]]
           N == 8
           R == D \X Word
<1>1. \A p \in D : p[1] \in 0..8 /\ p[2] \in Word /\ DivideBit(p[2]) \in Word
  BY DivideBitType
<1>2. \A n, w : n \in 0..8 /\ w \in Word => <<n, w>> \in D
  OBVIOUS
<1>3. m \in [D -> Nat] /\ base \in [D -> Word] /\ step \in [D \X Word -> Word]
  BY <1>1
<1>4. \A p \in D : p[1] # 0 => p[1] - 1 \in 0..8
  BY <1>1
<1> HIDE DEF D
<1>5. next \in [D -> D]
  BY <1>1, <1>2, <1>4
<1>6. \A p \in D : p[1] # 0 => next[p] \in D /\ next[p] = <<p[1] - 1, DivideBit(p[2])>>
  BY <1>5
<1>7. \A p \in D : m[p] # 0 => m[next[p]] < m[p]
  <2> TAKE p \in D
  <2> HAVE m[p] # 0
  <2>1. m[p] = p[1] /\ m[next[p]] = p[1] - 1
    BY <1>6
  <2> QED
    BY <1>1, <2>1
<1>8. N \in Nat /\ \A p \in D : m[p] <= N
  BY <1>1
<1>9. \A p \in D : m[p] = p[1] /\ base[p] = p[2]
  OBVIOUS
<1>10. \A p \in D, v \in Word : step[<<p, v>>] = v
  OBVIOUS
<1> HIDE DEF m, next, base, step, N
<1>11. Descends(D, m, next)
  BY <1>3, <1>5, <1>7 DEF Descends
<1>12. PICK g : g \in [D -> Word] /\ Recursive(g, D, m, next, base, step)
  BY <1>3, <1>8, <1>11, RecursionExists
<1>13. g = DivideOf(g)
  <2>1. \A p \in D :
            g[p] = IF p[1] = 0 THEN p[2] ELSE g[<<p[1] - 1, DivideBit(p[2])>>]
    <3> TAKE p \in D
    <3>1. g[p] = IF m[p] = 0 THEN base[p] ELSE step[<<p, g[next[p]]>>]
      BY <1>12 DEF Recursive
    <3>2. CASE p[1] = 0
      BY <1>9, <3>1, <3>2
    <3>3. CASE p[1] # 0
      <4>1. g[next[p]] \in Word
        BY <1>6, <1>12, <3>3
      <4> QED
        BY <1>6, <1>9, <1>10, <3>1, <3>3, <4>1
    <3> QED
      BY <3>2, <3>3
  <2>2. g = [p \in D |-> g[p]]
    BY <1>12
  <2> QED
    BY <2>1, <2>2 DEF DivideOf, D
<1>14. divide = DivideOf(divide)
  BY <1>13, Zenon
<1>15. \A p \in D :
          divide[p] = IF p[1] = 0 THEN p[2] ELSE divide[<<p[1] - 1, DivideBit(p[2])>>]
  BY <1>14 DEF DivideOf, D
<1>16. \A p, w : p \in D => (<<p, w>> \in R <=> w \in Word)
  OBVIOUS
<1> HIDE DEF R
<1>17. \A p \in D : <<p, divide[p]>> \in R
  <2>1. ASSUME NEW p \in D, m[p] = 0 PROVE <<p, divide[p]>> \in R
    <3>1. p[1] = 0 /\ p[2] \in Word
      BY <1>1, <1>9, <2>1
    <3>2. divide[p] = p[2]
      BY <1>15, <3>1
    <3> QED
      BY <1>16, <3>1, <3>2
  <2>2. ASSUME NEW p \in D, m[p] # 0, <<next[p], divide[next[p]]>> \in R
        PROVE  <<p, divide[p]>> \in R
    BY <1>6, <1>9, <1>15, <1>16, <2>2
  <2> QED
    BY <1>11, <2>1, <2>2, RecursionHolds
<1>18. \A w \in Word : <<8, w>> \in D
  BY <1>2
<1> QED
  BY <1>17, <1>18, <1>16

\* Both bytes of a CRC are bytes.
LEMMA CrcType ==
    ASSUME NEW d \in Seq(Byte)
    PROVE  CalculateCrc(d) \in Byte \X Byte
<1> DEFINE xor == CHOOSE f : f = XorOf(f)
           divide == CHOOSE f : f = DivideOf(f)
           crc == CHOOSE f : f = CrcOf(d, xor, divide, f)
           D == 0..Len(d)
           m == [n \in D |-> n]
           next == [n \in D |-> IF n = 0 THEN 0 ELSE n - 1]
           base == [n \in D |-> MaxUInt16]
           step == [q \in D \X Word |->
                       IF q[1] = 0 THEN MaxUInt16 ELSE divide[<<8, xor[<<q[2], d[q[1]]>>]>>]]
           R == D \X Word
           N == Len(d)
<1>1. CalculateCrc(d) = <<crc[Len(d)] % 256, crc[Len(d)] \div 256>>
  BY CrcIs
<1>2. \A w \in Word, b \in Byte : xor[<<w, b>>] \in Word
  BY XorType
<1>3. \A w \in Word : divide[<<8, w>>] \in Word
  BY DivideType
<1> HIDE DEF xor, divide
<1>4. Len(d) \in Nat /\ \A n \in 1..Len(d) : d[n] \in Byte
  BY LenProperties
<1>5. MaxUInt16 \in Word
  <2>1. MaxUInt16 \in Nat /\ MaxUInt16 < 65536
    BY SMT DEF MaxUInt16
  <2> QED
    BY <2>1, WordIsNat
<1>6. \A n \in D : n \in Nat /\ n <= Len(d) /\ (n # 0 => n \in 1..Len(d) /\ n - 1 \in D)
  BY <1>4
<1>7. 0 \in D /\ Len(d) \in D
  BY <1>4
<1> HIDE DEF D
<1>8. \A n \in D, w \in Word : n # 0 => divide[<<8, xor[<<w, d[n]>>]>>] \in Word
  BY <1>2, <1>3, <1>4, <1>6
<1>9. m \in [D -> Nat] /\ next \in [D -> D] /\ base \in [D -> Word]
  BY <1>5, <1>6, <1>7
<1>10. step \in [D \X Word -> Word]
  BY <1>5, <1>8
<1>11. \A n \in D : m[n] = n /\ base[n] = MaxUInt16 /\ (n # 0 => next[n] = n - 1)
  OBVIOUS
<1>12. \A n \in D, w \in Word : n # 0 => step[<<n, w>>] = divide[<<8, xor[<<w, d[n]>>]>>]
  OBVIOUS
<1>13. \A n \in D : m[n] # 0 => m[next[n]] < m[n]
  BY <1>6, <1>11
<1>14. N \in Nat /\ \A n \in D : m[n] <= N
  BY <1>4, <1>6
<1> HIDE DEF m, next, base, step, N
<1>15. Descends(D, m, next)
  BY <1>9, <1>13 DEF Descends
<1>16. PICK g : g \in [D -> Word] /\ Recursive(g, D, m, next, base, step)
  BY <1>9, <1>10, <1>14, <1>15, RecursionExists
<1>17. g = CrcOf(d, xor, divide, g)
  <2>1. \A n \in D :
            g[n] = IF n = 0 THEN MaxUInt16 ELSE divide[<<8, xor[<<g[n - 1], d[n]>>]>>]
    <3> TAKE n \in D
    <3>1. g[n] = IF m[n] = 0 THEN base[n] ELSE step[<<n, g[next[n]]>>]
      BY <1>16 DEF Recursive
    <3>2. CASE n = 0
      BY <1>11, <3>1, <3>2
    <3>3. CASE n # 0
      <4>1. g[n - 1] \in Word
        BY <1>6, <1>16, <3>3
      <4> QED
        BY <1>11, <1>12, <3>1, <3>3, <4>1
    <3> QED
      BY <3>2, <3>3
  <2>2. g = [n \in D |-> g[n]]
    BY <1>16
  <2> QED
    BY <2>1, <2>2 DEF CrcOf, D
<1>18. crc = CrcOf(d, xor, divide, crc)
  BY <1>17, Zenon
<1> HIDE DEF crc
<1>19. \A n \in D :
          crc[n] = IF n = 0 THEN MaxUInt16 ELSE divide[<<8, xor[<<crc[n - 1], d[n]>>]>>]
  BY <1>18 DEF CrcOf, D
<1>20. \A n \in D : <<n, crc[n]>> \in R
  <2>1. ASSUME NEW n \in D, m[n] = 0 PROVE <<n, crc[n]>> \in R
    BY <1>5, <1>11, <1>19, <2>1
  <2>2. ASSUME NEW n \in D, m[n] # 0, <<next[n], crc[next[n]]>> \in R
        PROVE  <<n, crc[n]>> \in R
    <3>1. n # 0 /\ crc[n - 1] \in Word
      BY <1>11, <2>2
    <3> QED
      BY <1>8, <1>19, <3>1
  <2> HIDE DEF R
  <2> QED
    BY <1>15, <2>1, <2>2, RecursionHolds
<1> DEFINE v == crc[Len(d)]
<1>21. v \in Word
  BY <1>7, <1>20
<1> HIDE DEF v
<1>22. v \in Nat /\ v < 65536
  BY <1>21, WordIsNat
<1>23. v % 256 \in 0..255 /\ v \div 256 \in 0..255
  BY <1>22, SMT
<1> QED
  BY <1>1, <1>23 DEF v, Byte

-----------------------------------------------------------------------------
(* What encode() makes of a message. *)

\* s is the bytes of u, then those of v.
Joins(s, u, v) ==
    /\ s \in Seq(Byte) /\ Len(s) = Len(u) + Len(v)
    /\ \A i \in 1..Len(u) : s[i] = u[i]
    /\ \A i \in 1..Len(v) : s[Len(u) + i] = v[i]

\* So they are joined.
LEMMA Joined ==
    ASSUME NEW u, u \in Seq(Byte), NEW v, v \in Seq(Byte)
    PROVE  Joins(u \o v, u, v)
<1> DEFINE s == u \o v
<1>1. Len(u) \in Nat /\ Len(v) \in Nat
  BY LenProperties
<1>2. /\ s \in Seq(Byte) /\ Len(s) = Len(u) + Len(v)
      /\ \A i \in 1..(Len(u) + Len(v)) : s[i] = IF i <= Len(u) THEN u[i] ELSE v[i - Len(u)]
  BY ConcatProperties, Zenon
<1> HIDE DEF s
<1>3. ASSUME NEW i \in 1..Len(u) PROVE s[i] = u[i]
  BY <1>1, <1>2
<1>4. ASSUME NEW i \in 1..Len(v) PROVE s[Len(u) + i] = v[i]
  <2> DEFINE j == Len(u) + i
  <2>1. j \in 1..(Len(u) + Len(v)) /\ ~(j <= Len(u)) /\ j - Len(u) = i
    BY <1>1
  <2> HIDE DEF j
  <2>2. s[j] = v[i]
    BY <1>2, <2>1
  <2> QED
    BY <2>2 DEF j
<1> QED
  BY <1>2, <1>3, <1>4 DEF Joins, s

\* A word as two bytes, and back.
LEMMA WordBytes ==
    ASSUME NEW w, w \in Word
    PROVE  /\ w \div 256 \in Byte /\ w % 256 \in Byte
           /\ 256 * (w \div 256) + (w % 256) = w
           /\ BigEndianUInt16(w) = <<w \div 256, w % 256>>
<1>1. w \in Nat /\ w < 65536
  BY WordIsNat
<1>2. w \div 256 \in 0..255 /\ w % 256 \in 0..255
  BY <1>1, SMT
<1>3. 256 * (w \div 256) + (w % 256) = w
  BY <1>1, SMT
<1>4. BigEndianUInt16(w) = <<w \div 256, w % 256>>
  BY Zenon DEF BigEndianUInt16
<1> QED
  BY <1>2, <1>3, <1>4 DEF Byte

\* A word is less than 2^16.
LEMMA WordModulo == ASSUME NEW w, w \in Word PROVE w % 65536 = w
<1>1. w \in Nat /\ w < 65536
  BY WordIsNat
<1> QED
  BY <1>1, SMT

\* What the checksum of a message covers.
Body(m) ==
    <<m.version, m.command>> \o BigEndianUInt16(m.sequence)
        \o BigEndianUInt16(Len(m.payload) % 65536) \o m.payload

\* A message that is sent is within the limits of the decoder.
LEMMA SentFacts ==
    ASSUME NEW m, m \in SentMessage
    PROVE  /\ m.version = Codec.version /\ m.version \in Byte /\ m.command \in Byte
           /\ m.sequence \in Word
           /\ m.payload \in Seq(Byte) /\ Len(m.payload) \in Nat
           /\ Len(m.payload) <= Codec.maxPayloadLength /\ Len(m.payload) \in Word
           /\ m = [version |-> m.version, command |-> m.command,
                   sequence |-> m.sequence, payload |-> m.payload]
<1>1. /\ m.version = Codec.version /\ m.command \in Byte
      /\ m.sequence \in Word
      /\ m.payload \in Seq(Byte) /\ Len(m.payload) <= Codec.maxPayloadLength
      /\ m = [version |-> m.version, command |-> m.command,
              sequence |-> m.sequence, payload |-> m.payload]
  BY DEF SentMessage, Word
<1>2. Codec.maxPayloadLength \in Word /\ Codec.version \in Byte
  BY CodecAssumption DEF ValidCodecOptions, Word
<1>3. Len(m.payload) \in Nat
  BY <1>1, LenProperties
<1> DEFINE n == Len(m.payload)
           most == Codec.maxPayloadLength
<1>4. n \in Word
  <2>1. n \in Nat /\ n <= most /\ most \in Nat /\ most < 65536
    BY <1>1, <1>2, <1>3, WordIsNat
  <2> HIDE DEF n, most
  <2> QED
    BY <2>1, WordIsNat
<1> QED
  BY <1>1, <1>2, <1>3, <1>4, Zenon

\* b is the body of the message m: six bytes, then the payload.
IsBodyOf(b, m) ==
    LET n == Len(m.payload)
    IN  /\ b \in Seq(Byte) /\ Len(b) = 6 + n /\ n \in Nat
        /\ b[1] = m.version /\ b[2] = m.command
        /\ b[3] = m.sequence \div 256 /\ b[4] = m.sequence % 256
        /\ b[5] = n \div 256 /\ b[6] = n % 256
        /\ \A i \in 1..n : b[6 + i] = m.payload[i]

\* That is what encode() makes of it.
LEMMA BodyFacts == ASSUME NEW m, m \in SentMessage PROVE IsBodyOf(Body(m), m)
<1> DEFINE q == m.sequence
           p == m.payload
           n == Len(p)
           u == <<m.version, m.command>>
           v == BigEndianUInt16(q)
           w == BigEndianUInt16(n)
           h == u \o v
           k == h \o w
           b == Body(m)
           q1 == q \div 256
           q2 == q % 256
           n1 == n \div 256
           n2 == n % 256
<1>1. /\ m.version \in Byte /\ m.command \in Byte /\ q \in Word
      /\ p \in Seq(Byte) /\ n \in Word /\ n \in Nat
  BY SentFacts, Zenon
<1>2. b = k \o p
  <2> DEFINE N(x) == u \o v \o BigEndianUInt16(x) \o p
  <2>1. b = N(n % 65536)
    BY DEF Body
  <2> HIDE DEF n, N, b
  <2>2. n % 65536 = n
    BY <1>1, WordModulo
  <2>3. b = N(n)
    BY <2>1, <2>2
  <2> QED
    BY <2>3 DEF N
<1> HIDE DEF q, p, n, b
<1>3. q1 \in Byte /\ q2 \in Byte /\ v = <<q1, q2>>
  BY <1>1, WordBytes
<1>4. n1 \in Byte /\ n2 \in Byte /\ w = <<n1, n2>>
  BY <1>1, WordBytes
<1>5. u \in Seq(Byte) /\ Len(u) = 2 /\ u[1] = m.version /\ u[2] = m.command
  BY <1>1
<1> HIDE DEF q1, q2, n1, n2, u, v, w
<1>6. /\ v \in Seq(Byte) /\ Len(v) = 2 /\ v[1] = q1 /\ v[2] = q2
      /\ w \in Seq(Byte) /\ Len(w) = 2 /\ w[1] = n1 /\ w[2] = n2
  BY <1>3, <1>4
<1>7. Joins(h, u, v)
  BY <1>5, <1>6, Joined, Zenon
<1> HIDE DEF h
<1>8. /\ h \in Seq(Byte) /\ Len(h) = 4
      /\ h[1] = u[1] /\ h[2] = u[2] /\ h[3] = v[1] /\ h[4] = v[2]
  BY <1>5, <1>6, <1>7 DEF Joins
<1>9. Joins(k, h, w)
  BY <1>6, <1>8, Joined, Zenon
<1> HIDE DEF k
<1>10. /\ k \in Seq(Byte) /\ Len(k) = 6
       /\ k[1] = h[1] /\ k[2] = h[2] /\ k[3] = h[3] /\ k[4] = h[4]
       /\ k[5] = w[1] /\ k[6] = w[2]
  BY <1>6, <1>8, <1>9 DEF Joins
<1>11. Joins(b, k, p)
  BY <1>1, <1>2, <1>10, Joined, Zenon
<1>12. /\ b \in Seq(Byte) /\ Len(b) = 6 + n
       /\ b[1] = k[1] /\ b[2] = k[2] /\ b[3] = k[3] /\ b[4] = k[4] /\ b[5] = k[5] /\ b[6] = k[6]
       /\ \A i \in 1..n : b[6 + i] = p[i]
  BY <1>1, <1>10, <1>11 DEF Joins, n
<1>13. /\ b[1] = m.version /\ b[2] = m.command
       /\ b[3] = q1 /\ b[4] = q2 /\ b[5] = n1 /\ b[6] = n2
  BY <1>5, <1>6, <1>8, <1>10, <1>12, Zenon
<1> QED
  BY <1>1, <1>12, <1>13, Zenon DEF p, q, n, b, q1, q2, n1, n2, IsBodyOf

\* e is the frame of the message m: the header, the body and the body's CRC.
IsFrameOf(e, m) ==
    LET n == Len(m.payload)
    IN  /\ e \in Seq(Byte) /\ n \in Nat /\ Len(e) = 10 + n
        /\ e[1] = HeaderFirst /\ e[2] = HeaderSecond
        /\ e[3] = m.version /\ e[4] = m.command
        /\ e[5] = m.sequence \div 256 /\ e[6] = m.sequence % 256
        /\ e[7] = n \div 256 /\ e[8] = n % 256
        /\ \A i \in 1..n : e[8 + i] = m.payload[i]
        /\ Mid(e, 2, n + 6) = Body(m)
        /\ <<e[9 + n], e[10 + n]>> = CalculateCrc(Body(m))

\* That is what encode() writes.
LEMMA EncodeFacts == ASSUME NEW m, m \in SentMessage PROVE IsFrameOf(Encode(m), m)
<1> DEFINE n == Len(m.payload)
           b == Body(m)
           c == CalculateCrc(b)
           h == <<HeaderFirst, HeaderSecond>>
           k == h \o b
           e == Encode(m)
           q1 == m.sequence \div 256
           q2 == m.sequence % 256
           n1 == n \div 256
           n2 == n % 256
           P == \A i \in 1..n : b[6 + i] = m.payload[i]
<1>1. /\ b \in Seq(Byte) /\ Len(b) = 6 + n /\ n \in Nat
      /\ b[1] = m.version /\ b[2] = m.command
      /\ b[3] = q1 /\ b[4] = q2 /\ b[5] = n1 /\ b[6] = n2
      /\ P
  <2>1. IsBodyOf(b, m)
    BY BodyFacts, Zenon
  <2> QED
    BY <2>1, Zenon DEF IsBodyOf
<1>2. e = k \o c
  <2> DEFINE F(x) == (h \o x) \o CalculateCrc(x)
             B == <<m.version, m.command>> \o BigEndianUInt16(m.sequence)
                      \o BigEndianUInt16(Len(m.payload) % 65536) \o m.payload
  <2>1. Encode(m) = F(B)
    BY DEF Encode
  <2>2. B = b
    BY DEF Body
  <2> HIDE DEF F, B, b
  <2>3. Encode(m) = F(b)
    BY <2>1, <2>2
  <2> QED
    BY <2>3 DEF F
<1> HIDE DEF b, n, e, q1, q2, n1, n2, P
<1>3. c \in Byte \X Byte
  BY <1>1, CrcType
<1> HIDE DEF c
<1>4. c \in Seq(Byte) /\ Len(c) = 2 /\ c = <<c[1], c[2]>>
  <2>1. PICK x \in Byte, y \in Byte : c = <<x, y>>
    BY <1>3
  <2> QED
    BY <2>1
<1>5. h \in Seq(Byte) /\ Len(h) = 2 /\ h[1] = HeaderFirst /\ h[2] = HeaderSecond
  BY DEF HeaderFirst, HeaderSecond, Byte
<1> HIDE DEF h
<1>6. Joins(k, h, b)
  BY <1>1, <1>5, Joined, Zenon
<1> HIDE DEF k
<1>7. /\ k \in Seq(Byte) /\ Len(k) = 8 + n /\ k[1] = h[1] /\ k[2] = h[2]
      /\ \A i \in 1..(6 + n) : k[2 + i] = b[i]
  BY <1>1, <1>5, <1>6 DEF Joins
<1>8. Joins(e, k, c)
  BY <1>2, <1>4, <1>7, Joined, Zenon
<1>9. /\ e \in Seq(Byte) /\ Len(e) = 10 + n /\ \A i \in 1..(8 + n) : e[i] = k[i]
      /\ e[9 + n] = c[1] /\ e[10 + n] = c[2]
  <2>1. (8 + n) + 1 = 9 + n /\ (8 + n) + 2 = 10 + n
    BY <1>1
  <2>2. e[Len(k) + 1] = c[1] /\ e[Len(k) + 2] = c[2]
    BY <1>4, <1>8 DEF Joins
  <2> QED
    BY <1>1, <1>4, <1>7, <1>8, <2>1, <2>2 DEF Joins
<1>10. \A i \in 1..(6 + n) : e[2 + i] = b[i]
  <2> TAKE i \in 1..(6 + n)
  <2>1. 2 + i \in 1..(8 + n)
    BY <1>1
  <2> QED
    BY <1>7, <1>9, <2>1
<1>11. e[3] = b[1] /\ e[4] = b[2] /\ e[5] = b[3] /\ e[6] = b[4] /\ e[7] = b[5] /\ e[8] = b[6]
  BY <1>1, <1>10
<1>12. \A i \in 1..n : e[8 + i] = m.payload[i]
  <2> TAKE i \in 1..n
  <2>1. 6 + i \in 1..(6 + n) /\ 2 + (6 + i) = 8 + i
    BY <1>1
  <2>2. e[8 + i] = b[6 + i]
    BY <1>10, <2>1
  <2> QED
    BY <1>1, <2>2 DEF P
<1>13. Mid(e, 2, n + 6) = b
  <2> DEFINE r == n + 6
             x == Mid(e, 2, r)
  <2>1. r \in Nat /\ 2 + r <= Len(e) /\ r = Len(b) /\ 2 \in Nat
    BY <1>1, <1>9
  <2>2. \A i \in 1..r : e[2 + i] = b[i]
    BY <1>1, <1>10
  <2>3. e \in Seq(Byte) /\ b \in Seq(Byte)
    BY <1>1, <1>9
  <2> HIDE DEF r
  <2>4. x \in Seq(Byte) /\ Len(x) = r /\ \A i \in 1..r : x[i] = e[2 + i]
    BY <2>1, <2>3, MidFacts
  <2> HIDE DEF x
  <2>5. x = b
    BY <2>1, <2>2, <2>3, <2>4, SeqEqual
  <2> QED
    BY <2>5 DEF x, r
<1>14. e[1] = HeaderFirst /\ e[2] = HeaderSecond
  BY <1>1, <1>5, <1>7, <1>9
<1>15. <<e[9 + n], e[10 + n]>> = c
  BY <1>4, <1>9
<1>16. /\ e[3] = m.version /\ e[4] = m.command
       /\ e[5] = q1 /\ e[6] = q2 /\ e[7] = n1 /\ e[8] = n2
  BY <1>1, <1>11, Zenon
<1> QED
  BY <1>1, <1>9, <1>12, <1>13, <1>14, <1>15, <1>16, Zenon
  DEF IsFrameOf, e, n, b, c, q1, q2, n1, n2

\* A frame that is sent is that of its message, but for the last byte where the
\* checksum is falsified.
LEMMA FrameSentFacts ==
    ASSUME NEW item, item \in Item
    PROVE  LET f == FrameSent(item)
               e == Encode(item.message)
           IN  /\ item.message \in SentMessage /\ f \in Seq(Byte) /\ e \in Seq(Byte)
               /\ Len(f) = Len(e) /\ Len(f) = 10 + Len(item.message.payload)
               /\ \A i \in 1..(Len(f) - 1) : f[i] = e[i]
               /\ f[Len(f)] = e[Len(f)] <=> ~item.corrupted
               /\ ~item.corrupted => f = e
<1> DEFINE f == FrameSent(item)
           m == item.message
           e == Encode(m)
           n == Len(m.payload)
<1>1. m \in SentMessage /\ item.corrupted \in BOOLEAN
  BY DEF Item
<1>2. e \in Seq(Byte) /\ n \in Nat /\ Len(e) = 10 + n
  BY <1>1, EncodeFacts, Zenon DEF IsFrameOf
<1>3. f = IF item.corrupted THEN CorruptChecksum(e) ELSE e
  BY Zenon DEF FrameSent
<1>4. CorruptChecksum(e) =
          [e EXCEPT ![Len(e)] = IF e[Len(e)] % 2 = 0 THEN e[Len(e)] + 1 ELSE e[Len(e)] - 1]
  BY DEF CorruptChecksum
<1> HIDE DEF f, m, e, n
<1>5. CASE ~item.corrupted
  BY <1>1, <1>2, <1>3, <1>5 DEF f, m, e, n
<1>6. CASE item.corrupted
  <2> DEFINE l == Len(e)
             v == e[l]
             w == IF v % 2 = 0 THEN v + 1 ELSE v - 1
  <2>1. l \in Nat /\ l \in 1..l /\ l = 10 + n
    BY <1>2
  <2>2. v \in 0..255
    BY <1>2, <2>1, ElementOfSeq DEF Byte
  <2>3. f = [e EXCEPT ![l] = w]
    BY <1>3, <1>4, <1>6
  <2> HIDE DEF v
  <2>4. w \in 0..255 /\ w # v
    BY <2>2, SMT
  <2> HIDE DEF l, w
  <2>5. e \in [1..l -> Byte]
    BY <1>2, LenProperties DEF l
  <2>6. f \in [1..l -> Byte] /\ f[l] = w /\ \A i \in 1..l : i # l => f[i] = e[i]
    BY <2>1, <2>3, <2>4, <2>5 DEF Byte
  <2>7. f \in Seq(Byte) /\ Len(f) = l
    <3>1. f \in Seq(Byte)
      BY <2>1, <2>6
    <3>2. DOMAIN f = 1..l /\ DOMAIN f = 1..Len(f) /\ Len(f) \in Nat
      BY <2>6, <3>1, LenProperties
    <3> QED
      BY <2>1, <3>1, <3>2
  <2>8. \A i \in 1..(l - 1) : f[i] = e[i]
    BY <2>1, <2>6
  <2>9. Len(e) = l /\ e[l] = v
    BY DEF l, v
  <2>10. f[l] # e[l]
    BY <2>4, <2>6, <2>9
  <2>11. /\ m \in SentMessage /\ f \in Seq(Byte) /\ e \in Seq(Byte)
         /\ Len(f) = Len(e) /\ Len(f) = 10 + n
         /\ \A i \in 1..(Len(f) - 1) : f[i] = e[i]
         /\ f[Len(f)] # e[Len(f)]
    BY <1>1, <1>2, <2>7, <2>8, <2>9, <2>10
  <2> QED
    BY <1>6, <2>11, Zenon DEF f, m, e, n
<1> QED
  BY <1>5, <1>6

\* What is read of a message whose frame is at the front, as far as it is there.
LEMMA FrameRead ==
    ASSUME NEW item, item \in Item, NEW d, d \in Seq(Byte), d # <<>>,
           \A i \in 1..Len(d) : i <= Len(FrameSent(item)) => d[i] = FrameSent(item)[i]
    PROVE  LET f == FrameSent(item)
           IN  /\ Len(d) < Len(f) => Waits(d)
               /\ Len(f) <= Len(d) /\ item.corrupted => Rejected(d)
               /\ Len(f) <= Len(d) /\ ~item.corrupted =>
                      /\ Whole(d) /\ FrameLength(d) = Len(f)
                      /\ RequestOf(Mid(d, 0, FrameLength(d))) = <<ProtocolRequest(f)>>
                      /\ Sent(ProtocolRequest(f)) = item.message
<1> DEFINE f == FrameSent(item)
           m == item.message
           e == Encode(m)
           n == Len(m.payload)
           b == Body(m)
           q == m.sequence
           n1 == n \div 256
           n2 == n % 256
           q1 == q \div 256
           q2 == q % 256
           l == 10 + n
           P == \A i \in 1..n : e[8 + i] = m.payload[i]
<1>1. /\ m \in SentMessage /\ f \in Seq(Byte) /\ e \in Seq(Byte)
      /\ Len(f) = Len(e) /\ Len(f) = l
      /\ \A i \in 1..(l - 1) : f[i] = e[i]
      /\ f[l] = e[l] <=> ~item.corrupted
      /\ ~item.corrupted => f = e
  <2> HIDE DEF m, l, f, e
  <2>1. /\ m \in SentMessage /\ f \in Seq(Byte) /\ e \in Seq(Byte)
        /\ Len(f) = Len(e) /\ Len(f) = l
        /\ \A i \in 1..(Len(f) - 1) : f[i] = e[i]
        /\ f[Len(f)] = e[Len(f)] <=> ~item.corrupted
        /\ ~item.corrupted => f = e
    BY FrameSentFacts, Zenon DEF m, l, f, e
  <2> QED
    BY <2>1
<1>2. /\ e \in Seq(Byte) /\ n \in Nat /\ Len(e) = 10 + n
      /\ e[1] = HeaderFirst /\ e[2] = HeaderSecond
      /\ e[3] = m.version /\ e[4] = m.command /\ e[5] = q1 /\ e[6] = q2 /\ e[7] = n1 /\ e[8] = n2
      /\ P
      /\ Mid(e, 2, n + 6) = b
      /\ <<e[9 + n], e[10 + n]>> = CalculateCrc(b)
  <2>1. IsFrameOf(e, m)
    BY <1>1, EncodeFacts, Zenon
  <2> HIDE DEF e, m
  <2> QED
    BY <2>1, Zenon DEF IsFrameOf
<1>3. 256 * n1 + n2 = n /\ 256 * q1 + q2 = q
  <2>1. n \in Word /\ q \in Word
    BY <1>1, SentFacts, Zenon
  <2> HIDE DEF n, q
  <2> QED
    BY <2>1, WordBytes
<1>4. /\ n <= Codec.maxPayloadLength /\ m.version = Codec.version /\ m.payload \in Seq(Byte)
      /\ m = [version |-> m.version, command |-> m.command,
              sequence |-> q, payload |-> m.payload]
  BY <1>1, SentFacts, Zenon
<1>5. Len(d) \in Nat /\ Len(d) # 0
  BY LenProperties, EmptySeq
<1>6. \A i \in 1..Len(d) : i <= l => d[i] = f[i]
  BY <1>1
<1> HIDE DEF f, e, b, q, n1, n2, q1, q2, n, P
<1>7. l \in Nat /\ l >= 10 /\ l = 10 + n
  BY <1>2
<1> HIDE DEF l
<1>8. \A i \in 1..Len(d) : i < l => d[i] = e[i]
  <2> SUFFICES ASSUME NEW i \in 1..Len(d), i < l PROVE d[i] = e[i]
    OBVIOUS
  <2>1. i \in 1..(l - 1) /\ i <= l
    BY <1>7
  <2> QED
    BY <1>1, <1>6, <2>1
<1>9. LikeHeader(d)
  <2>1. d[1] = e[1] /\ (Len(d) > 1 => d[2] = e[2])
    BY <1>2, <1>5, <1>8, <1>7
  <2> QED
    BY <1>2, <2>1 DEF LikeHeader
<1>10. HasFrameLength(d) => FrameLength(d) = l /\ FitsLimit(d)
  <2> SUFFICES ASSUME HasFrameLength(d) PROVE FrameLength(d) = l /\ FitsLimit(d)
    OBVIOUS
  <2>1. 7 \in 1..Len(d) /\ 8 \in 1..Len(d) /\ 7 < l /\ 8 < l
    BY <1>5, <1>7 DEF HasFrameLength, PayloadOffset
  <2>2. d[7] = n1 /\ d[8] = n2
    BY <1>2, <1>8, <2>1
  <2>3. PayloadLength(d) = 256 * n1 + n2
    BY <2>2 DEF PayloadLength, ReadBigEndianUInt16, ByteAt, PayloadLengthOffset
  <2>4. PayloadLength(d) = n
    BY <1>3, <2>3
  <2> QED
    BY <1>4, <1>7, <2>4 DEF FrameLength, FixedFrameOverhead, FitsLimit
<1>11. Len(d) < l => Waits(d)
  BY <1>9, <1>10 DEF Waits
<1>12. ASSUME l <= Len(d)
       PROVE  /\ HasFrameLength(d) /\ FrameLength(d) = l /\ FitsLimit(d) /\ ~Waits(d)
              /\ d[1] = HeaderFirst /\ d[2] = HeaderSecond /\ Mid(d, 0, l) = f
  <2>1. HasFrameLength(d)
    BY <1>5, <1>12, <1>7 DEF HasFrameLength, PayloadOffset
  <2>2. ~(Len(d) < l)
    BY <1>5, <1>12, <1>7
  <2>3. d[1] = HeaderFirst /\ d[2] = HeaderSecond
    <3>1. 1 \in 1..Len(d) /\ 2 \in 1..Len(d) /\ 1 < l /\ 2 < l
      BY <1>5, <1>12, <1>7
    <3> QED
      BY <1>2, <1>8, <3>1
  <2> DEFINE x == Mid(d, 0, l)
  <2>4. 0 \in Nat /\ l \in Nat /\ 0 + l <= Len(d)
    BY <1>5, <1>12, <1>7
  <2>5. x \in Seq(Byte) /\ Len(x) = l /\ \A i \in 1..l : x[i] = d[0 + i]
    BY <2>4, MidFacts
  <2>6. \A i \in 1..l : d[0 + i] = f[i]
    BY <1>5, <1>6, <1>12, <2>4
  <2> HIDE DEF x
  <2>7. x = f
    BY <1>1, <2>5, <2>6, SeqEqual
  <2> QED
    BY <1>10, <2>1, <2>2, <2>3, <2>7, Zenon DEF Waits, x
<1>13. ChecksumMatches(f) <=> ~item.corrupted
  <2> DEFINE r == n + 6
             x == Mid(f, 2, r)
             y == Mid(f, 8 + n, 2)
             z == CalculateCrc(b)
  <2>1. Len(f) - 2 = 8 + n /\ Len(f) - 4 = r
    BY <1>1, <1>2, <1>7
  <2>2. ChecksumMatches(f) <=> y = CalculateCrc(x)
    BY <2>1, Zenon DEF ChecksumMatches, VersionOffset
  <2>3. x = b
    <3> DEFINE u == Mid(e, 2, r)
    <3>1. 2 \in Nat /\ r \in Nat /\ 2 + r <= Len(f) /\ 2 + r <= Len(e)
      BY <1>1, <1>2, <1>7
    <3>2. \A i \in 1..r : f[2 + i] = e[2 + i]
      BY <1>1, <1>2, <1>7
    <3>3. u = b
      BY <1>2
    <3> HIDE DEF r
    <3>4. x \in Seq(Byte) /\ Len(x) = r /\ \A i \in 1..r : x[i] = f[2 + i]
      BY <1>1, <3>1, MidFacts
    <3>5. u \in Seq(Byte) /\ Len(u) = r /\ \A i \in 1..r : u[i] = e[2 + i]
      BY <1>1, <3>1, MidFacts
    <3> HIDE DEF x, u
    <3>6. \A i \in 1..r : x[i] = u[i]
      BY <3>2, <3>4, <3>5
    <3>7. x = u
      BY <3>4, <3>5, <3>6, SeqEqual
    <3> QED
      BY <3>3, <3>7
  <2>4. y \in Seq(Byte) /\ Len(y) = 2 /\ y[1] = f[9 + n] /\ y[2] = f[10 + n]
    <3> DEFINE o == 8 + n
    <3>1. o \in Nat /\ 2 \in Nat /\ o + 2 <= Len(f) /\ o + 1 = 9 + n /\ o + 2 = 10 + n
      BY <1>1, <1>2, <1>7
    <3> HIDE DEF o
    <3>2. Mid(f, o, 2) \in Seq(Byte) /\ Len(Mid(f, o, 2)) = 2
          /\ \A i \in 1..2 : Mid(f, o, 2)[i] = f[o + i]
      BY <1>1, <3>1, MidFacts
    <3>3. Mid(f, o, 2)[1] = f[o + 1] /\ Mid(f, o, 2)[2] = f[o + 2]
      BY <3>2
    <3>4. y = Mid(f, o, 2)
      BY DEF o
    <3> QED
      BY <3>1, <3>2, <3>3, <3>4, Zenon
  <2>5. f[9 + n] = e[9 + n]
    BY <1>1, <1>2, <1>7
  <2>6. z = <<e[9 + n], e[10 + n]>>
    BY <1>2
  <2> HIDE DEF y, z, r, x
  <2>7. y = z <=> f[10 + n] = e[10 + n]
    <3>1. y = <<y[1], y[2]>>
      BY <2>4
    <3> QED
      BY <2>4, <2>5, <2>6, <3>1
  <2>8. ChecksumMatches(f) <=> y = z
    BY <2>2, <2>3 DEF z
  <2> QED
    BY <1>1, <1>7, <2>7, <2>8
<1>14. ~item.corrupted => RequestOf(f) = <<ProtocolRequest(f)>> /\ Sent(ProtocolRequest(f)) = m
  <2> SUFFICES ASSUME ~item.corrupted
               PROVE  RequestOf(f) = <<ProtocolRequest(f)>> /\ Sent(ProtocolRequest(f)) = m
    OBVIOUS
  <2>1. f = e
    BY <1>1
  <2>2. ByteAt(f, VersionOffset) = m.version /\ ByteAt(f, CommandOffset) = m.command
    BY <1>2, <2>1 DEF ByteAt, VersionOffset, CommandOffset
  <2>3. ReadBigEndianUInt16(f, SequenceOffset) = q
    <3> DEFINE high == f[5]
               low == f[6]
    <3>1. ReadBigEndianUInt16(f, SequenceOffset) = 256 * high + low
      BY DEF ReadBigEndianUInt16, SequenceOffset, ByteAt
    <3>2. high = q1 /\ low = q2
      BY <1>2, <2>1
    <3> HIDE DEF high, low
    <3> QED
      BY <1>3, <3>1, <3>2, Zenon
  <2>4. PayloadLength(f) = n
    <3> DEFINE high == f[7]
               low == f[8]
    <3>1. PayloadLength(f) = 256 * high + low
      BY DEF PayloadLength, ReadBigEndianUInt16, ByteAt, PayloadLengthOffset
    <3>2. high = n1 /\ low = n2
      BY <1>2, <2>1
    <3> HIDE DEF high, low
    <3> QED
      BY <1>3, <3>1, <3>2, Zenon
  <2>5. Mid(f, PayloadOffset, PayloadLength(f)) = m.payload
    <3> DEFINE x == Mid(f, 8, n)
               p == m.payload
    <3>1. 8 \in Nat /\ n \in Nat /\ 8 + n <= Len(f)
      BY <1>1, <1>2, <1>7
    <3>2. x \in Seq(Byte) /\ Len(x) = n /\ \A i \in 1..n : x[i] = f[8 + i]
      BY <1>1, <3>1, MidFacts
    <3>3. Len(p) = n /\ p \in Seq(Byte) /\ \A i \in 1..n : f[8 + i] = p[i]
      BY <1>2, <1>4, <2>1 DEF n, P
    <3> HIDE DEF x, p
    <3>4. x = p
      BY <3>2, <3>3, SeqEqual
    <3> QED
      BY <2>4, <3>4 DEF PayloadOffset, x, p
  <2>6. RequestOf(f) = <<ProtocolRequest(f)>>
    BY <1>4, <2>2, Zenon DEF RequestOf
  <2>7. Sent(ProtocolRequest(f)) =
            [version |-> ByteAt(f, VersionOffset), command |-> ByteAt(f, CommandOffset),
             sequence |-> ReadBigEndianUInt16(f, SequenceOffset),
             payload |-> Mid(f, PayloadOffset, PayloadLength(f))]
    BY DEF Sent, ProtocolRequest
  <2> QED
    BY <1>4, <2>2, <2>3, <2>5, <2>6, <2>7, Zenon
<1>15. Len(d) < Len(f) => Waits(d)
  BY <1>1, <1>11
<1>16. ASSUME Len(f) <= Len(d)
       PROVE  /\ item.corrupted => Rejected(d)
              /\ ~item.corrupted =>
                     /\ Whole(d) /\ FrameLength(d) = Len(f)
                     /\ RequestOf(Mid(d, 0, FrameLength(d))) = <<ProtocolRequest(f)>>
                     /\ Sent(ProtocolRequest(f)) = m
  <2>1. /\ HasFrameLength(d) /\ FrameLength(d) = l /\ FitsLimit(d) /\ ~Waits(d)
        /\ d[1] = HeaderFirst /\ d[2] = HeaderSecond /\ Mid(d, 0, FrameLength(d)) = f
    <3>1. l <= Len(d)
      BY <1>1, <1>16
    <3> QED
      BY <1>12, <3>1, Zenon
  <2>2. Whole(d) <=> ~item.corrupted
    <3>1. Len(d) >= PayloadOffset
      BY <2>1 DEF HasFrameLength
    <3>2. Len(d) >= FrameLength(d)
      BY <1>1, <1>16, <2>1
    <3> QED
      BY <1>13, <2>1, <3>1, <3>2, Zenon DEF Whole
  <2> QED
    BY <1>1, <1>14, <2>1, <2>2, Zenon DEF Rejected
<1> QED
  BY <1>15, <1>16, Zenon DEF f, m

-----------------------------------------------------------------------------
(* What a simulator sends, item by item. *)

\* One sequence more is flattened.
LEMMA FlattenFirst ==
    ASSUME NEW T, NEW w, w \in Seq(Seq(T)), NEW n, n \in Nat, n + 1 <= Len(w)
    PROVE  /\ FlattenSeq(SubSeq(w, 1, n)) \in Seq(T) /\ w[n + 1] \in Seq(T)
           /\ FlattenSeq(SubSeq(w, 1, n + 1)) = FlattenSeq(SubSeq(w, 1, n)) \o w[n + 1]
<1> DEFINE k == n + 1
           u == SubSeq(w, 1, n)
           v == SubSeq(w, 1, k)
<1>1. Len(w) \in Nat /\ k \in Nat /\ k <= Len(w) /\ k \in 1..Len(w)
  BY LenProperties
<1>2. \A i \in 1..Len(w) : w[i] \in Seq(T)
  BY ElementOfSeq
<1>3. u \in Seq(Seq(T)) /\ Len(u) = n /\ \A i \in 1..n : u[i] = w[i]
  <2>1. \A i \in 1..n : w[i] \in Seq(T)
    BY <1>1, <1>2
  <2> QED
    BY <2>1, SubSeqProperties
<1>4. v \in Seq(Seq(T)) /\ Len(v) = k /\ \A i \in 1..k : v[i] = w[i]
  <2>1. \A i \in 1..k : w[i] \in Seq(T)
    BY <1>1, <1>2
  <2> HIDE DEF k
  <2> QED
    BY <1>1, <2>1, SubSeqProperties
<1>5. v = Append(u, w[k])
  <2> DEFINE x == Append(u, w[k])
  <2>1. w[k] \in Seq(T)
    BY <1>1, <1>2
  <2> HIDE DEF u, v
  <2>2. x \in Seq(Seq(T)) /\ Len(x) = n + 1 /\ x[n + 1] = w[k] /\ \A i \in 1..n : x[i] = u[i]
    BY <1>3, <2>1, AppendProperties
  <2> HIDE DEF x
  <2>3. \A i \in 1..k : x[i] = v[i]
    <3> TAKE i \in 1..k
    <3>1. CASE i \in 1..n
      BY <1>3, <1>4, <2>2, <3>1
    <3>2. CASE i = n + 1
      BY <1>4, <2>2, <3>2
    <3> QED
      BY <3>1, <3>2
  <2>4. x = v
    BY <1>4, <2>2, <2>3, SeqEqual
  <2> QED
    BY <2>4 DEF x
<1>6. w[k] \in Seq(T)
  BY <1>1, <1>2
<1> HIDE DEF u, v, k
<1>7. FlattenSeq(Append(u, w[k])) = FlattenSeq(u) \o w[k]
  BY <1>3, <1>6, FlattenSeqAppend
<1>8. FlattenSeq(u) \in Seq(T)
  BY <1>3, FlattenSeqType
<1> QED
  BY <1>5, <1>6, <1>7, <1>8 DEF u, v, k

\* Of the first members of a sequence the images are the first images.
LEMMA FirstImages ==
    ASSUME NEW T, NEW items, items \in Seq(T), NEW V, NEW w, w \in Seq(V), Len(w) = Len(items),
           NEW n, n \in 0..Len(items), NEW u, u \in Seq(V), Len(u) = n,
           \A i \in 1..n : u[i] = w[i]
    PROVE  u = SubSeq(w, 1, n)
<1>1. n \in Nat /\ n <= Len(w) /\ Len(w) \in Nat
  BY LenProperties
<1>2. \A i \in 1..n : w[i] \in V
  BY <1>1, ElementOfSeq
<1> DEFINE x == SubSeq(w, 1, n)
<1>3. x \in Seq(V) /\ Len(x) = n /\ \A i \in 1..n : x[i] = w[i]
  BY <1>1, <1>2, SubSeqProperties
<1> HIDE DEF x
<1>4. u = x
  BY <1>3, SeqEqual
<1> QED
  BY <1>4 DEF x

\* The first items of a session are items.
LEMMA FirstItemsFacts ==
    ASSUME NEW session, session \in Seq(Item), NEW n, n \in 0..Len(session)
    PROVE  /\ FirstItems(session, n) \in Seq(Item) /\ Len(FirstItems(session, n)) = n
           /\ DOMAIN FirstItems(session, n) = 1..n
           /\ \A i \in 1..n : FirstItems(session, n)[i] = session[i] /\ session[i] \in Item
<1>1. n \in Nat /\ n <= Len(session) /\ Len(session) \in Nat
  BY LenProperties
<1>2. \A i \in 1..n : session[i] \in Item
  BY <1>1, ElementOfSeq
<1> DEFINE x == SubSeq(session, 1, n)
<1>3. x \in Seq(Item) /\ Len(x) = n /\ \A i \in 1..n : x[i] = session[i]
  BY <1>1, <1>2, SubSeqProperties
<1>4. x = FirstItems(session, n)
  BY Zenon DEF FirstItems
<1> HIDE DEF x
<1>5. DOMAIN x = 1..n
  BY <1>3, LenProperties
<1> QED
  BY <1>2, <1>3, <1>4, <1>5

Wires(items) == [n \in DOMAIN items |-> OnWire(items[n])]

Intact(items) ==
    [n \in DOMAIN items |-> IF items[n].corrupted THEN <<>> ELSE <<items[n].message>>]

\* One item on the wire: its noise, then its frame, which is not short.
LEMMA OnWireFacts ==
    ASSUME NEW item, item \in Item
    PROVE  /\ item.noise \in Seq(Byte) /\ FrameSent(item) \in Seq(Byte)
           /\ Joins(OnWire(item), item.noise, FrameSent(item))
           /\ Len(item.noise) \in Nat /\ Len(FrameSent(item)) \in Nat
           /\ Len(FrameSent(item)) >= 10
<1>1. item.noise \in Seq(Byte)
  BY DEF Item
<1>2. /\ FrameSent(item) \in Seq(Byte) /\ item.message \in SentMessage
      /\ Len(FrameSent(item)) = 10 + Len(item.message.payload)
  BY FrameSentFacts, Zenon
<1>3. Len(item.message.payload) \in Nat
  BY <1>2, SentFacts, Zenon
<1>4. Joins(OnWire(item), item.noise, FrameSent(item))
  BY <1>1, <1>2, Joined, Zenon DEF OnWire
<1>5. Len(item.noise) \in Nat
  BY <1>1, LenProperties
<1> QED
  BY <1>1, <1>2, <1>3, <1>4, <1>5

\* What is on the wire of some items, and the intact messages among them.
LEMMA ImagesType ==
    ASSUME NEW items, items \in Seq(Item)
    PROVE  /\ Wires(items) \in Seq(Seq(Byte)) /\ Len(Wires(items)) = Len(items)
           /\ \A i \in 1..Len(items) : Wires(items)[i] = OnWire(items[i])
           /\ Intact(items) \in Seq(Seq(SentMessage)) /\ Len(Intact(items)) = Len(items)
           /\ \A i \in 1..Len(items) :
                  Intact(items)[i] = IF items[i].corrupted THEN <<>> ELSE <<items[i].message>>
<1> DEFINE l == Len(items)
           F(item) == IF item.corrupted THEN <<>> ELSE <<item.message>>
<1>1. l \in Nat /\ DOMAIN items = 1..l /\ \A i \in 1..l : items[i] \in Item
  BY LenProperties
<1> HIDE DEF l
<1>2. \A item \in Item : OnWire(item) \in Seq(Byte)
  BY OnWireFacts, Zenon DEF Joins
<1>3. \A item \in Item : F(item) \in Seq(SentMessage)
  BY DEF Item
<1>4. Wires(items) = [i \in 1..l |-> OnWire(items[i])]
  BY <1>1 DEF Wires
<1>5. Intact(items) = [i \in 1..l |-> F(items[i])]
  BY <1>1, Zenon DEF Intact
<1> HIDE DEF F
<1>6. /\ Wires(items) \in Seq(Seq(Byte)) /\ Len(Wires(items)) = l
      /\ \A i \in 1..l : Wires(items)[i] = OnWire(items[i])
  BY <1>1, <1>2, <1>4
<1>7. /\ Intact(items) \in Seq(Seq(SentMessage)) /\ Len(Intact(items)) = l
      /\ \A i \in 1..l : Intact(items)[i] = F(items[i])
  BY <1>1, <1>3, <1>5
<1> QED
  BY <1>6, <1>7, Zenon DEF l, F

\* The first items on the wire, and one more.
LEMMA StreamStep ==
    ASSUME NEW session, session \in Seq(Item), NEW n, n \in Nat, n + 1 <= Len(session)
    PROVE  /\ StreamOf(FirstItems(session, n)) \in Seq(Byte)
           /\ session[n + 1] \in Item
           /\ StreamOf(FirstItems(session, n + 1)) =
                  StreamOf(FirstItems(session, n)) \o OnWire(session[n + 1])
           /\ IntactMessages(FirstItems(session, n)) \in Seq(SentMessage)
           /\ IntactMessages(FirstItems(session, n + 1)) =
                  IntactMessages(FirstItems(session, n)) \o
                      IF session[n + 1].corrupted THEN <<>> ELSE <<session[n + 1].message>>
<1> DEFINE w == Wires(session)
           v == Intact(session)
           k == n + 1
<1>1. /\ w \in Seq(Seq(Byte)) /\ Len(w) = Len(session)
      /\ \A i \in 1..Len(session) : w[i] = OnWire(session[i])
      /\ v \in Seq(Seq(SentMessage)) /\ Len(v) = Len(session)
      /\ \A i \in 1..Len(session) :
             v[i] = IF session[i].corrupted THEN <<>> ELSE <<session[i].message>>
  BY ImagesType, Zenon
<1>2. Len(session) \in Nat /\ k \in 1..Len(session)
  BY LenProperties
<1>3. session[k] \in Item
  BY <1>2, ElementOfSeq
<1>4. ASSUME NEW j \in 0..Len(session)
      PROVE  /\ StreamOf(FirstItems(session, j)) = FlattenSeq(SubSeq(w, 1, j))
             /\ IntactMessages(FirstItems(session, j)) = FlattenSeq(SubSeq(v, 1, j))
  <2> DEFINE items == FirstItems(session, j)
             x == Wires(items)
             y == Intact(items)
  <2>1. /\ items \in Seq(Item) /\ Len(items) = j
        /\ \A i \in 1..j : items[i] = session[i]
    BY FirstItemsFacts, Zenon
  <2> HIDE DEF items
  <2>2. /\ x \in Seq(Seq(Byte)) /\ Len(x) = j /\ \A i \in 1..j : x[i] = OnWire(items[i])
        /\ y \in Seq(Seq(SentMessage)) /\ Len(y) = j
        /\ \A i \in 1..j : y[i] = IF items[i].corrupted THEN <<>> ELSE <<items[i].message>>
    BY <2>1, ImagesType
  <2>3. \A i \in 1..j : i \in 1..Len(session)
    BY <1>2
  <2>4. \A i \in 1..j : x[i] = w[i] /\ y[i] = v[i]
    BY <1>1, <2>1, <2>2, <2>3, Zenon
  <2> HIDE DEF x, y, w, v
  <2>5. x = SubSeq(w, 1, j)
    BY <1>1, <2>2, <2>4, FirstImages
  <2>6. y = SubSeq(v, 1, j)
    BY <1>1, <2>2, <2>4, FirstImages
  <2>7. StreamOf(items) = FlattenSeq(x) /\ IntactMessages(items) = FlattenSeq(y)
    BY Zenon DEF StreamOf, IntactMessages, x, y, Wires, Intact
  <2> QED
    BY <2>5, <2>6, <2>7, Zenon DEF items
<1>5. n \in 0..Len(session) /\ k \in 0..Len(session)
  BY <1>2
<1>6. w[k] = OnWire(session[k])
  BY <1>1, <1>2
<1>7. v[k] = IF session[k].corrupted THEN <<>> ELSE <<session[k].message>>
  BY <1>1, <1>2
<1> HIDE DEF w, v
<1>8. /\ FlattenSeq(SubSeq(w, 1, n)) \in Seq(Byte)
      /\ FlattenSeq(SubSeq(w, 1, k)) = FlattenSeq(SubSeq(w, 1, n)) \o w[k]
  <2>1. n + 1 <= Len(w)
    BY <1>1
  <2> QED
    BY <1>1, <2>1, FlattenFirst
<1>9. /\ FlattenSeq(SubSeq(v, 1, n)) \in Seq(SentMessage)
      /\ FlattenSeq(SubSeq(v, 1, k)) = FlattenSeq(SubSeq(v, 1, n)) \o v[k]
  <2>1. n + 1 <= Len(v)
    BY <1>1
  <2> QED
    BY <1>1, <2>1, FlattenFirst
<1> QED
  BY <1>3, <1>4, <1>5, <1>6, <1>7, <1>8, <1>9, Zenon DEF k

\* How much the first n items are on the wire.
Extent(session, n) == Len(StreamOf(FirstItems(session, n)))

\* No item sends nothing.
LEMMA NoItems ==
    ASSUME NEW session, session \in Seq(Item)
    PROVE  /\ Extent(session, 0) = 0 /\ IntactMessages(FirstItems(session, 0)) = <<>>
           /\ FirstItems(session, Len(session)) = session
<1> DEFINE items == FirstItems(session, 0)
<1>1. Len(session) \in Nat
  BY LenProperties
<1>2. items \in Seq(Item) /\ Len(items) = 0
  BY <1>1, FirstItemsFacts
<1> HIDE DEF items
<1>3. /\ Wires(items) \in Seq(Seq(Byte)) /\ Len(Wires(items)) = 0
      /\ Intact(items) \in Seq(Seq(SentMessage)) /\ Len(Intact(items)) = 0
  BY <1>2, ImagesType
<1>4. Wires(items) = <<>> /\ Intact(items) = <<>>
  BY <1>3, EmptySeq
<1>5. FlattenSeq(<<>>) = <<>>
  BY DEF FlattenSeq
<1>6. StreamOf(items) = <<>> /\ IntactMessages(items) = <<>>
  BY <1>4, <1>5, Zenon DEF StreamOf, IntactMessages, Wires, Intact
<1>7. Len(StreamOf(items)) = 0
  BY <1>6
<1>8. FirstItems(session, Len(session)) = session
  BY SubSeqFull DEF FirstItems
<1> QED
  BY <1>6, <1>7, <1>8, Zenon DEF Extent, items

\* The frame of the n-th item of the session is in s, after its noise.
IsPlaced(session, s, n) ==
    LET item == session[n]
        start == Extent(session, n - 1)
        begin == start + Len(item.noise)
    IN  /\ Extent(session, n) = begin + Len(FrameSent(item))
        /\ \A i \in 1..Len(FrameSent(item)) : s[begin + i] = FrameSent(item)[i]

\* The items follow each other on the wire, and each is as it was sent.
LEMMA ItemPlaced ==
    ASSUME NEW session, session \in Seq(Item), NEW s, s = StreamOf(session)
    PROVE  /\ s \in Seq(Byte) /\ Extent(session, Len(session)) = Len(s)
           /\ \A n \in 0..Len(session) : Extent(session, n) \in Nat /\ Extent(session, n) <= Len(s)
           /\ \A n \in 1..Len(session) : IsPlaced(session, s, n)
<1> DEFINE N == Len(session)
           S(n) == StreamOf(FirstItems(session, n))
           Within(n) == /\ S(n) \in Seq(Byte) /\ Len(S(n)) <= Len(s)
                        /\ \A i \in 1..Len(S(n)) : s[i] = S(n)[i]
           D == {k \in Nat : k <= N => Within(N - k)}
<1>1. N \in Nat /\ S(N) = s
  BY LenProperties, NoItems, Zenon
<1>2. s \in Seq(Byte)
  BY ImagesType, FlattenSeqType, Zenon DEF StreamOf, Wires
<1>3. ASSUME NEW n \in Nat, n + 1 <= N
      PROVE  /\ S(n) \in Seq(Byte) /\ session[n + 1] \in Item
             /\ Joins(S(n + 1), S(n), OnWire(session[n + 1]))
             /\ Joins(OnWire(session[n + 1]), session[n + 1].noise, FrameSent(session[n + 1]))
  <2>1. /\ S(n) \in Seq(Byte) /\ session[n + 1] \in Item
        /\ S(n + 1) = S(n) \o OnWire(session[n + 1])
    BY <1>3, StreamStep
  <2>2. OnWire(session[n + 1]) \in Seq(Byte)
        /\ Joins(OnWire(session[n + 1]), session[n + 1].noise, FrameSent(session[n + 1]))
    BY <2>1, OnWireFacts, Zenon DEF Joins
  <2> HIDE DEF S
  <2> QED
    BY <2>1, <2>2, Joined
<1> HIDE DEF S, N
<1>4. 0 \in D
  <2>1. N - 0 = N
    BY <1>1
  <2>2. Within(N)
    BY <1>1, <1>2, LenProperties
  <2> HIDE DEF Within
  <2> QED
    BY <2>1, <2>2
<1>5. ASSUME NEW k \in Nat, k \in D PROVE k + 1 \in D
  <2> SUFFICES ASSUME k + 1 <= N PROVE Within(N - (k + 1))
    OBVIOUS
  <2> DEFINE n == N - (k + 1)
             w == OnWire(session[n + 1])
  <2>1. n \in Nat /\ n + 1 <= N /\ N - k = n + 1 /\ k <= N
    BY <1>1
  <2>2. Within(n + 1)
    BY <1>5, <2>1
  <2>3. S(n) \in Seq(Byte) /\ Joins(S(n + 1), S(n), w)
    BY <1>3, <2>1
  <2>4. w \in Seq(Byte) /\ Len(w) \in Nat /\ Len(S(n)) \in Nat
    <3>1. w \in Seq(Byte)
      BY <1>3, <2>1 DEF Joins
    <3> QED
      BY <2>3, <3>1, LenProperties
  <2> HIDE DEF n, w
  <2>5. Within(n)
    BY <2>2, <2>3, <2>4, LenProperties DEF Joins
  <2> HIDE DEF Within
  <2> QED
    BY <2>5 DEF n
<1> HIDE DEF Within, D
<1>6. Nat \subseteq D
  BY <1>4, <1>5, Induction
<1>7. ASSUME NEW n \in 0..N PROVE Within(n)
  <2>1. N - n \in Nat /\ N - (N - n) = n /\ N - n <= N
    BY <1>1
  <2>2. N - n \in D
    BY <1>6, <2>1
  <2> QED
    BY <2>1, <2>2 DEF D
<1>8. ASSUME NEW n \in 0..N PROVE Extent(session, n) \in Nat /\ Extent(session, n) <= Len(s)
  <2>1. Extent(session, n) = Len(S(n))
    BY Zenon DEF Extent, S
  <2> QED
    BY <1>7, <2>1, LenProperties DEF Within
<1>9. ASSUME NEW n \in 1..N
      PROVE  IsPlaced(session, s, n)
  <2> DEFINE m == n - 1
             item == session[n]
             f == FrameSent(item)
             o == item.noise
             w == OnWire(item)
             begin == Len(S(m)) + Len(o)
  <2>1. m \in Nat /\ m + 1 <= N /\ m + 1 = n /\ n \in 0..N
    BY <1>1
  <2> HIDE DEF m
  <2>2. S(m) \in Seq(Byte) /\ item \in Item /\ Joins(S(n), S(m), w) /\ Joins(w, o, f)
    BY <1>3, <2>1
  <2>3. /\ Len(o) \in Nat /\ Len(f) \in Nat /\ Len(S(m)) \in Nat
    BY <2>2, OnWireFacts, LenProperties
  <2>4. Within(n)
    BY <1>7, <2>1
  <2> HIDE DEF item, f, o, w
  <2>5. Len(S(n)) = begin + Len(f)
    BY <2>2, <2>3 DEF Joins
  <2>6. ASSUME NEW i \in 1..Len(f) PROVE s[begin + i] = f[i]
    <3> DEFINE j == Len(o) + i
               k == Len(S(m)) + j
    <3>1. j \in 1..Len(w) /\ w[j] = f[i]
      BY <2>2, <2>3 DEF Joins
    <3>2. k = begin + i /\ k \in 1..Len(S(n))
      BY <2>3, <2>5
    <3> HIDE DEF j
    <3>3. S(n)[k] = w[j]
      BY <2>2, <3>1 DEF Joins
    <3> HIDE DEF k
    <3>4. s[k] = S(n)[k]
      BY <2>4, <3>2 DEF Within
    <3> QED
      BY <3>1, <3>2, <3>3, <3>4
  <2>7. Extent(session, n) = Len(S(n)) /\ Extent(session, n - 1) = Len(S(m))
    BY Zenon DEF Extent, S, m
  <2> HIDE DEF begin
  <2>8. Extent(session, n) = begin + Len(f) /\ begin = Extent(session, n - 1) + Len(o)
    BY <2>5, <2>7 DEF begin
  <2> QED
    BY <2>6, <2>8, Zenon DEF item, f, o, IsPlaced
<1>10. Extent(session, N) = Len(s)
  BY <1>1, Zenon DEF Extent, S
<1> QED
  BY <1>2, <1>8, <1>9, <1>10, Zenon DEF N

-----------------------------------------------------------------------------
(* How the stream of a session is read. *)

\* What is read from p on depends on the bytes there.
ReadsOn(s, b, p) ==
    LET rest == Mid(s, p, b - p)
    IN  /\ rest \in Seq(Byte) /\ Len(rest) = b - p
        /\ \A i \in 1..(b - p) : rest[i] = s[p + i]
        /\ rest = <<>> \/ Waits(rest) => ReadAt(s, b, p) = <<>>
        /\ Whole(rest) => ReadAt(s, b, p) = RequestOf(Mid(rest, 0, FrameLength(rest)))
                                                \o ReadAt(s, b, p + FrameLength(rest))
        /\ Rejected(rest) => ReadAt(s, b, p) = ReadAt(s, b, p + 1)

\* It does so in every stream.
LEMMA RestRead ==
    ASSUME NEW s, s \in Seq(Byte), NEW b, b \in 0..Len(s), NEW p, p \in 0..b
    PROVE  ReadsOn(s, b, p)
BY ReadAtFacts DEF ReadsOn

\* Where nothing looks like a header the reading moves on.
LEMMA NoHeaderSkipped ==
    ASSUME NEW s, s \in Seq(Byte), NEW b, b \in 0..Len(s), NEW p, p \in Nat, p < b, ~HeaderAt(s, p)
    PROVE  ReadAt(s, b, p) = ReadAt(s, b, p + 1)
<1> DEFINE rest == Mid(s, p, b - p)
           next == Mid(s, p + 1, b - (p + 1))
<1>1. Len(s) \in Nat /\ b \in Nat /\ b <= Len(s) /\ p \in 0..b /\ p + 1 \in 0..b
  BY LenProperties
<1>2. /\ rest \in Seq(Byte) /\ Len(rest) = b - p
      /\ \A i \in 1..(b - p) : rest[i] = s[p + i]
      /\ rest = <<>> \/ Waits(rest) => ReadAt(s, b, p) = <<>>
      /\ Rejected(rest) => ReadAt(s, b, p) = ReadAt(s, b, p + 1)
  <2>1. ReadsOn(s, b, p)
    BY <1>1, RestRead, Zenon
  <2> QED
    BY <2>1, Zenon DEF ReadsOn
<1>3. /\ next \in Seq(Byte) /\ Len(next) = b - (p + 1)
      /\ next = <<>> \/ Waits(next) => ReadAt(s, b, p + 1) = <<>>
  <2>1. ReadsOn(s, b, p + 1)
    BY <1>1, RestRead, Zenon
  <2> QED
    BY <2>1, Zenon DEF ReadsOn
<1> HIDE DEF rest, next
<1>4. rest # <<>> /\ 1 \in 1..(b - p) /\ rest[1] = s[p + 1]
  <2>1. Len(rest) # 0 /\ Len(<<>>) = 0 /\ 1 \in 1..(b - p)
    BY <1>1, <1>2
  <2> QED
    BY <1>2, <2>1
<1>5. CASE Len(rest) > 1
  <2>1. 2 \in 1..(b - p) /\ p + 1 < Len(s) /\ (p + 1) + 1 = p + 2
    BY <1>1, <1>2, <1>5
  <2>2. rest[2] = s[p + 2]
    BY <1>2, <2>1
  <2>3. ByteAt(s, p) = rest[1] /\ ByteAt(s, p + 1) = rest[2]
    BY <1>4, <2>1, <2>2, Zenon DEF ByteAt
  <2>4. ~LikeHeader(rest)
    BY <1>5, <2>1, <2>3, Zenon DEF HeaderAt, LikeHeader
  <2> QED
    BY <1>2, <1>4, <2>4, NoiseRejected
<1>6. CASE ~(Len(rest) > 1)
  <2>1. Len(rest) = 1 /\ Len(next) = 0
    BY <1>1, <1>2, <1>3, <1>4, <1>6
  <2>2. ReadAt(s, b, p + 1) = <<>>
    BY <1>3, <2>1, EmptySeq
  <2>3. ~Whole(rest)
    BY <2>1 DEF Whole, PayloadOffset
  <2> QED
    BY <1>2, <1>4, <2>2, <2>3, Zenon DEF Rejected
<1> QED
  BY <1>5, <1>6

\* So it does as far as nothing looks like a header.
LEMMA NoiseSkipped ==
    ASSUME NEW s, s \in Seq(Byte), NEW b, b \in 0..Len(s), NEW a, a \in Nat,
           NEW c, c \in Nat, a <= c, c <= b, \A p \in a..(c - 1) : ~HeaderAt(s, p)
    PROVE  ReadAt(s, b, a) = ReadAt(s, b, c)
<1> DEFINE D == {k \in Nat : a + k <= c => ReadAt(s, b, a) = ReadAt(s, b, a + k)}
<1>1. b \in Nat
  BY LenProperties
<1>2. 0 \in D
  <2>1. a + 0 = a
    OBVIOUS
  <2> QED
    BY <2>1
<1>3. ASSUME NEW k \in Nat, k \in D PROVE k + 1 \in D
  <2> SUFFICES ASSUME a + (k + 1) <= c PROVE ReadAt(s, b, a) = ReadAt(s, b, a + (k + 1))
    OBVIOUS
  <2> DEFINE p == a + k
  <2>1. p \in Nat /\ p < b /\ p \in a..(c - 1) /\ p + 1 = a + (k + 1) /\ p <= c
    BY <1>1
  <2>2. ReadAt(s, b, a) = ReadAt(s, b, p)
    BY <1>3, <2>1
  <2> HIDE DEF p
  <2>3. ReadAt(s, b, p) = ReadAt(s, b, p + 1)
    BY <2>1, NoHeaderSkipped
  <2> QED
    BY <2>1, <2>2, <2>3, Zenon
<1> HIDE DEF D
<1>4. Nat \subseteq D
  BY <1>2, <1>3, Induction
<1>5. c - a \in Nat /\ a + (c - a) = c
  OBVIOUS
<1>6. c - a \in D
  BY <1>4, <1>5
<1> QED
  BY <1>5, <1>6 DEF D

\* Of no bytes nothing is read.
LEMMA EndRead ==
    ASSUME NEW s, s \in Seq(Byte), NEW b, b \in 0..Len(s)
    PROVE  ReadAt(s, b, b) = <<>>
<1> DEFINE rest == Mid(s, b, b - b)
<1>1. b \in Nat /\ b \in 0..b /\ b - b = 0
  BY LenProperties
<1>2. rest \in Seq(Byte) /\ Len(rest) = b - b /\ (rest = <<>> => ReadAt(s, b, b) = <<>>)
  BY <1>1, ReadAtFacts, Zenon
<1> HIDE DEF rest
<1> QED
  BY <1>1, <1>2, EmptySeq

\* What is read of one item: nothing before its last byte has arrived, then its
\* message or, if it was falsified, nothing.
LEMMA ItemRead ==
    ASSUME NEW session, session \in Sessions, NEW s, s = StreamOf(session),
           NEW n, n \in 1..Len(session), NEW b, b \in 0..Len(s), Extent(session, n - 1) <= b
    PROVE  LET item == session[n]
               f == FrameSent(item)
               start == Extent(session, n - 1)
               end == Extent(session, n)
           IN  /\ item \in Item
               /\ b < end => ReadAt(s, b, start) = <<>>
               /\ end <= b /\ item.corrupted => ReadAt(s, b, start) = ReadAt(s, b, end)
               /\ end <= b /\ ~item.corrupted =>
                      /\ ReadAt(s, b, start) = <<ProtocolRequest(f)>> \o ReadAt(s, b, end)
                      /\ <<ProtocolRequest(f)>> \in Seq(Request)
                      /\ Sent(ProtocolRequest(f)) = item.message
<1> DEFINE item == session[n]
           f == FrameSent(item)
           o == Len(item.noise)
           l == Len(f)
           start == Extent(session, n - 1)
           begin == start + o
           end == Extent(session, n)
<1>1. session \in Seq(Item) /\ Plain(session)
  BY SessionsAssumption
<1>2. item \in Item /\ Len(session) \in Nat
  BY <1>1, ElementOfSeq, LenProperties
<1>3. o \in Nat /\ l \in Nat /\ l >= 10 /\ f \in Seq(Byte)
  BY <1>2, OnWireFacts
<1>4. s \in Seq(Byte) /\ Len(s) \in Nat
  BY <1>1, ItemPlaced, LenProperties
<1>5. start \in Nat /\ end \in Nat /\ end <= Len(s)
  <2>1. n - 1 \in 0..Len(session) /\ n \in 0..Len(session)
    BY <1>2
  <2> QED
    BY <1>1, <2>1, ItemPlaced
<1>6. end = begin + l /\ \A i \in 1..l : s[begin + i] = f[i]
  <2>1. IsPlaced(session, s, n)
    BY <1>1, ItemPlaced, Zenon
  <2> QED
    BY <2>1, Zenon DEF IsPlaced
<1>7. \A p \in start..(end - 1) :
          HeaderAt(s, p) => p = begin \/ (p > begin /\ ~item.corrupted)
  <2>1. n \in DOMAIN session
    BY <1>1, <1>2, LenProperties
  <2>2. \A p \in Extent(session, n - 1)..(Extent(session, n) - 1) :
            HeaderAt(StreamOf(session), p) =>
                \/ p = Extent(session, n - 1) + Len(session[n].noise)
                \/ /\ p > Extent(session, n - 1) + Len(session[n].noise)
                   /\ ~session[n].corrupted
    BY <1>1, <2>1, Zenon DEF Plain, Extent
  <2> QED
    BY <2>2, Zenon
<1> HIDE DEF item, f, o, l, start, end
<1>8. begin \in Nat /\ start <= begin /\ begin < end /\ b \in Nat
  BY <1>3, <1>4, <1>5, <1>6
<1>9. \A p \in start..(begin - 1) : ~HeaderAt(s, p)
  BY <1>3, <1>5, <1>6, <1>7
<1>10. \A p \in (begin + 1)..(end - 1) : item.corrupted => ~HeaderAt(s, p)
  BY <1>3, <1>5, <1>6, <1>7
<1> HIDE DEF begin
<1> DEFINE rest == Mid(s, begin, b - begin)
<1>11. ASSUME begin <= b
       PROVE  /\ rest \in Seq(Byte) /\ Len(rest) = b - begin
              /\ \A i \in 1..(b - begin) : rest[i] = s[begin + i]
              /\ rest = <<>> \/ Waits(rest) => ReadAt(s, b, begin) = <<>>
              /\ Whole(rest) =>
                     ReadAt(s, b, begin) = RequestOf(Mid(rest, 0, FrameLength(rest)))
                                               \o ReadAt(s, b, begin + FrameLength(rest))
              /\ Rejected(rest) => ReadAt(s, b, begin) = ReadAt(s, b, begin + 1)
  <2>1. begin \in 0..b
    BY <1>8, <1>11
  <2>2. ReadsOn(s, b, begin)
    BY <1>4, <2>1, RestRead, Zenon
  <2> QED
    BY <2>2, Zenon DEF ReadsOn
<1>12. begin <= b => ReadAt(s, b, start) = ReadAt(s, b, begin)
  BY <1>4, <1>5, <1>8, <1>9, NoiseSkipped
<1> HIDE DEF rest
<1>13. ASSUME begin < b
       PROVE  /\ rest # <<>>
              /\ Len(rest) < l => Waits(rest)
              /\ l <= Len(rest) /\ item.corrupted => Rejected(rest)
              /\ l <= Len(rest) /\ ~item.corrupted =>
                     /\ Whole(rest) /\ FrameLength(rest) = l
                     /\ RequestOf(Mid(rest, 0, FrameLength(rest))) = <<ProtocolRequest(f)>>
                     /\ Sent(ProtocolRequest(f)) = item.message
  <2>1. rest \in Seq(Byte) /\ Len(rest) = b - begin
        /\ \A i \in 1..(b - begin) : rest[i] = s[begin + i]
    BY <1>8, <1>11, <1>13
  <2>2. rest # <<>>
    <3>1. Len(rest) # 0 /\ Len(<<>>) = 0
      BY <1>8, <1>13, <2>1
    <3> QED
      BY <3>1
  <2>3. \A i \in 1..Len(rest) : i <= l => rest[i] = f[i]
    <3> SUFFICES ASSUME NEW i \in 1..Len(rest), i <= l PROVE rest[i] = f[i]
      OBVIOUS
    <3>1. i \in 1..(b - begin) /\ i \in 1..l
      BY <1>3, <1>8, <2>1
    <3> QED
      BY <1>6, <2>1, <3>1
  <2> QED
    BY <1>2, <2>1, <2>2, <2>3, FrameRead DEF f, l
<1>14. ASSUME b < end PROVE ReadAt(s, b, start) = <<>>
  <2>1. CASE b < begin
    <3>1. \A p \in start..(b - 1) : ~HeaderAt(s, p)
      BY <1>5, <1>8, <1>9, <2>1
    <3>2. start <= b
      BY DEF start
    <3>3. ReadAt(s, b, start) = ReadAt(s, b, b)
      BY <1>4, <1>5, <1>8, <3>1, <3>2, NoiseSkipped
    <3> QED
      BY <1>4, <3>3, EndRead
  <2>2. CASE b = begin
    <3>1. Len(rest) = 0 /\ rest \in Seq(Byte)
      BY <1>8, <1>11, <2>2
    <3>2. rest = <<>>
      BY <3>1, EmptySeq
    <3>3. begin <= b
      BY <1>8, <2>2
    <3> QED
      BY <1>11, <1>12, <3>2, <3>3
  <2>3. CASE begin < b
    <3>1. Len(rest) < l /\ begin <= b
      BY <1>3, <1>6, <1>8, <1>11, <1>14, <2>3
    <3> QED
      BY <1>11, <1>12, <1>13, <2>3, <3>1, Zenon
  <2> QED
    BY <1>8, <2>1, <2>2, <2>3
<1>15. ASSUME end <= b, item.corrupted PROVE ReadAt(s, b, start) = ReadAt(s, b, end)
  <2>1. begin <= b /\ begin < b /\ l <= Len(rest)
    BY <1>3, <1>5, <1>6, <1>8, <1>11, <1>15
  <2>2. ReadAt(s, b, start) = ReadAt(s, b, begin + 1)
    BY <1>11, <1>12, <1>13, <1>15, <2>1, Zenon
  <2>3. begin + 1 \in Nat /\ begin + 1 <= end
    BY <1>5, <1>8
  <2>4. \A p \in (begin + 1)..(end - 1) : ~HeaderAt(s, p)
    BY <1>10, <1>15, Zenon
  <2>5. ReadAt(s, b, begin + 1) = ReadAt(s, b, end)
    BY <1>4, <1>5, <1>15, <2>3, <2>4, NoiseSkipped
  <2> QED
    BY <2>2, <2>5
<1>16. ASSUME end <= b, ~item.corrupted
       PROVE  /\ ReadAt(s, b, start) = <<ProtocolRequest(f)>> \o ReadAt(s, b, end)
              /\ <<ProtocolRequest(f)>> \in Seq(Request)
              /\ Sent(ProtocolRequest(f)) = item.message
  <2>1. begin <= b /\ begin < b /\ l <= Len(rest)
    BY <1>3, <1>5, <1>6, <1>8, <1>11, <1>16
  <2>2. /\ Whole(rest) /\ FrameLength(rest) = l
        /\ RequestOf(Mid(rest, 0, FrameLength(rest))) = <<ProtocolRequest(f)>>
        /\ Sent(ProtocolRequest(f)) = item.message
    BY <1>13, <1>16, <2>1, Zenon
  <2>3. ReadAt(s, b, start) = <<ProtocolRequest(f)>> \o ReadAt(s, b, begin + l)
    BY <1>11, <1>12, <2>1, <2>2, Zenon
  <2>4. <<ProtocolRequest(f)>> \in Seq(Request)
    <3>1. RequestOf(Mid(rest, 0, FrameLength(rest))) \in Seq(Request)
      BY <1>11, <2>1, <2>2, WholeFacts, Zenon
    <3> QED
      BY <2>2, <3>1, Zenon
  <2> QED
    BY <1>6, <2>2, <2>3, <2>4, Zenon
<1> QED
  BY <1>2, <1>14, <1>15, <1>16, Zenon DEF item, f, start, end

\* What was sent before ends before.
LEMMA ExtentGrows ==
    ASSUME NEW session, session \in Seq(Item)
    PROVE  \A n \in 0..Len(session) :
               /\ Extent(session, n) \in Nat
               /\ \A m \in 0..n : Extent(session, m) <= Extent(session, n)
<1> DEFINE N == Len(session)
           E(n) == Extent(session, n)
           D == {n \in Nat : n <= N => \A m \in 0..n : E(m) <= E(n)}
<1>1. N \in Nat
  BY LenProperties
<1>2. \A n \in 0..N : E(n) \in Nat
  BY ItemPlaced, Zenon
<1>3. ASSUME NEW n \in Nat, n + 1 <= N PROVE E(n) <= E(n + 1)
  <2> DEFINE k == n + 1
             item == session[k]
             o == Len(item.noise)
             l == Len(FrameSent(item))
  <2>1. k \in 1..N /\ k - 1 = n /\ n \in 0..N
    BY <1>1, <1>3
  <2>2. item \in Item
    BY <2>1, ElementOfSeq
  <2>3. o \in Nat /\ l \in Nat
    BY <2>2, OnWireFacts, Zenon
  <2> HIDE DEF k
  <2>4. E(k) = E(k - 1) + o + l
    <3>1. IsPlaced(session, StreamOf(session), k)
      BY <2>1, ItemPlaced, Zenon
    <3> QED
      BY <3>1, Zenon DEF IsPlaced
  <2> HIDE DEF E, o, l
  <2>5. E(n) \in Nat
    BY <1>2, <2>1
  <2>6. E(k) = E(n) + o + l
    BY <2>1, <2>4
  <2> QED
    BY <2>3, <2>5, <2>6 DEF k
<1> HIDE DEF E
<1>4. 0 \in D
  <2>1. 0 \in 0..N /\ \A m \in 0..0 : m = 0
    BY <1>1
  <2> QED
    BY <1>2, <2>1
<1>5. ASSUME NEW n \in Nat, n \in D PROVE n + 1 \in D
  <2> SUFFICES ASSUME n + 1 <= N, NEW m \in 0..(n + 1) PROVE E(m) <= E(n + 1)
    OBVIOUS
  <2>1. E(n) <= E(n + 1) /\ E(n) \in Nat /\ E(n + 1) \in Nat /\ E(m) \in Nat
    BY <1>1, <1>2, <1>3
  <2>2. CASE m = n + 1
    BY <2>1, <2>2
  <2>3. CASE m \in 0..n
    <3>1. E(m) <= E(n)
      BY <1>1, <1>5, <2>3
    <3> QED
      BY <2>1, <3>1
  <2> QED
    BY <2>2, <2>3
<1> HIDE DEF D
<1>6. Nat \subseteq D
  BY <1>4, <1>5, Induction
<1>7. ASSUME NEW n \in 0..N PROVE E(n) \in Nat /\ \A m \in 0..n : E(m) <= E(n)
  <2>1. n \in Nat /\ n <= N /\ n \in D
    BY <1>1, <1>6
  <2> QED
    BY <1>2, <2>1 DEF D
<1> QED
  BY <1>7, Zenon DEF E, N

\* The items that have wholly arrived are the first ones.
LEMMA ArrivedItems ==
    ASSUME NEW session, session \in Seq(Item), NEW b, b \in Nat
    PROVE  \E k \in 0..Len(session) :
               /\ Extent(session, k) <= b
               /\ k < Len(session) => b < Extent(session, k + 1)
               /\ Cardinality({n \in DOMAIN session : Extent(session, n) <= b}) = k
<1> DEFINE N == Len(session)
           E(n) == Extent(session, n)
           A == {n \in 1..N : b < E(n)}
           K == IF A = {} THEN N ELSE (CHOOSE m \in A : \A x \in A : m <= x) - 1
<1>1. N \in Nat /\ DOMAIN session = 1..N
  BY LenProperties
<1>2. \A n \in 0..N : E(n) \in Nat /\ \A m \in 0..n : E(m) <= E(n)
  BY ExtentGrows, Zenon
<1>3. E(0) = 0
  BY NoItems, Zenon
<1> HIDE DEF E, N, K
<1>4. K \in 0..N /\ \A n \in 1..N : n \in A <=> K < n
  <2>1. CASE A = {}
    <3>1. K = N
      BY <2>1 DEF K
    <3> HIDE DEF A
    <3> QED
      BY <1>1, <2>1, <3>1
  <2>2. CASE A # {}
    <3> DEFINE m == CHOOSE x \in A : \A y \in A : x <= y
    <3>1. A \subseteq Nat /\ A \subseteq 1..N
      BY <1>1
    <3>2. \A n \in 1..N : n \in A <=> b < E(n)
      OBVIOUS
    <3> HIDE DEF A
    <3>3. \E x \in A : \A y \in A : x <= y
      BY <2>2, <3>1, MinOfNaturals
    <3>4. m \in A /\ \A y \in A : m <= y
      BY <3>3
    <3>5. K = m - 1
      BY <2>2, Zenon DEF K
    <3> HIDE DEF m
    <3>6. m \in 1..N
      BY <3>1, <3>4
    <3>7. ASSUME NEW n \in 1..N PROVE n \in A <=> K < n
      <4>1. n \in A => m <= n
        BY <3>4
      <4>2. ASSUME m <= n PROVE n \in A
        <5>1. E(m) <= E(n) /\ E(m) \in Nat /\ E(n) \in Nat /\ b < E(m)
          BY <1>1, <1>2, <3>2, <3>4, <3>6, <4>2
        <5> QED
          BY <3>2, <5>1
      <4> QED
        BY <1>1, <3>5, <3>6, <4>1, <4>2
    <3> QED
      BY <1>1, <3>5, <3>6, <3>7
  <2> QED
    BY <2>1, <2>2
<1>5. \A n \in 1..N : b < E(n) <=> K < n
  BY <1>4
<1> HIDE DEF A
<1>6. E(K) <= b
  <2>1. CASE K = 0
    BY <1>3, <2>1
  <2>2. CASE K # 0
    <3>1. K \in 1..N /\ ~(K < K)
      BY <1>1, <1>4, <2>2
    <3>2. ~(b < E(K)) /\ E(K) \in Nat
      BY <1>2, <1>4, <1>5, <3>1
    <3> QED
      BY <3>2
  <2> QED
    BY <2>1, <2>2
<1>7. K < N => b < E(K + 1)
  BY <1>1, <1>4, <1>5
<1>8. {n \in 1..N : E(n) <= b} = 1..K
  <2>1. ASSUME NEW n PROVE (n \in 1..N /\ E(n) <= b) <=> n \in 1..K
    <3>1. n \in 1..N => E(n) \in Nat
      BY <1>1, <1>2
    <3>2. n \in 1..K => n \in 1..N
      BY <1>1, <1>4
    <3>3. n \in 1..N => (E(n) <= b <=> ~(b < E(n)))
      BY <3>1
    <3>4. n \in 1..N => (~(K < n) <=> n \in 1..K)
      BY <1>1, <1>4
    <3> QED
      BY <1>5, <3>2, <3>3, <3>4
  <2> QED
    BY <2>1
<1>9. Cardinality(1..K) = K
  <2>1. Cardinality(1..K) = IF 1 > K THEN 0 ELSE K - 1 + 1
    BY <1>1, <1>4, FS_Interval
  <2> QED
    BY <1>1, <1>4, <2>1
<1>10. /\ E(K) <= b /\ (K < N => b < E(K + 1))
       /\ Cardinality({n \in DOMAIN session : E(n) <= b}) = K
  BY <1>1, <1>6, <1>7, <1>8, <1>9
<1> QED
  BY <1>4, <1>10, Zenon DEF E, N

\* The messages in some requests.
SentOf(requests) == [i \in DOMAIN requests |-> Sent(requests[i])]

\* One request more is one message more.
LEMMA SentOfAppend ==
    ASSUME NEW g, g \in Seq(Request), NEW r, <<r>> \in Seq(Request),
           NEW v, v \in Seq(SentMessage), SentOf(g) = v, Sent(r) \in SentMessage
    PROVE  g \o <<r>> \in Seq(Request) /\ SentOf(g \o <<r>>) = v \o <<Sent(r)>>
<1> DEFINE h == g \o <<r>>
           n == Len(g)
           u == SentOf(h)
           w == v \o <<Sent(r)>>
<1>1. n \in Nat /\ DOMAIN g = 1..n
  BY LenProperties
<1>2. /\ h \in Seq(Request) /\ Len(h) = n + 1 /\ h[n + 1] = r
      /\ \A i \in 1..n : h[i] = g[i]
  <2>1. Len(<<r>>) = 1 /\ <<r>>[1] = r
    OBVIOUS
  <2>2. /\ h \in Seq(Request) /\ Len(h) = n + Len(<<r>>)
        /\ \A i \in 1..(n + Len(<<r>>)) : h[i] = IF i <= n THEN g[i] ELSE <<r>>[i - n]
    BY ConcatProperties, Zenon
  <2> HIDE DEF h, n
  <2> QED
    BY <1>1, <2>1, <2>2
<1>3. DOMAIN h = 1..(n + 1)
  BY <1>2, LenProperties
<1> HIDE DEF h
<1>4. u = [i \in 1..(n + 1) |-> Sent(h[i])]
  BY <1>3, Zenon DEF SentOf
<1>5. DOMAIN v = 1..n /\ \A i \in 1..n : v[i] = Sent(g[i])
  BY <1>1, Zenon DEF SentOf
<1>6. Len(v) = n
  BY <1>1, <1>5, LenProperties
<1>7. v \o <<Sent(r)>> \in Seq(SentMessage) /\ Len(v \o <<Sent(r)>>) = n + 1
      /\ (v \o <<Sent(r)>>)[n + 1] = Sent(r)
      /\ \A i \in 1..n : (v \o <<Sent(r)>>)[i] = v[i]
  <2> DEFINE x == Sent(r)
             y == <<x>>
  <2>1. x \in SentMessage
    OBVIOUS
  <2> HIDE DEF x
  <2>2. Len(y) = 1 /\ y[1] = x /\ y \in Seq(SentMessage)
    BY <2>1
  <2> HIDE DEF y
  <2>3. /\ v \o y \in Seq(SentMessage) /\ Len(v \o y) = Len(v) + Len(y)
        /\ \A i \in 1..(Len(v) + Len(y)) :
               (v \o y)[i] = IF i <= Len(v) THEN v[i] ELSE y[i - Len(v)]
    BY <2>2, ConcatProperties, Zenon
  <2>4. Len(v) = n
    BY <1>6
  <2> DEFINE z == v \o y
  <2> HIDE DEF z, n
  <2>5. z \in Seq(SentMessage) /\ Len(z) = n + 1 /\ z[n + 1] = x /\ \A i \in 1..n : z[i] = v[i]
    <3>1. /\ z \in Seq(SentMessage) /\ Len(z) = n + 1
          /\ \A i \in 1..(n + 1) : z[i] = IF i <= n THEN v[i] ELSE y[i - n]
      BY <2>2, <2>3, <2>4, Zenon DEF z
    <3>2. n + 1 \in 1..(n + 1) /\ ~(n + 1 <= n) /\ (n + 1) - n = 1
      BY <1>1
    <3>3. z[n + 1] = y[1]
      BY <3>1, <3>2, Zenon
    <3>4. \A i \in 1..n : i \in 1..(n + 1) /\ i <= n
      BY <1>1
    <3> QED
      BY <2>2, <3>1, <3>3, <3>4, Zenon
  <2> QED
    BY <2>5, Zenon DEF x, y, z
<1> HIDE DEF n, w
<1>8. w \in Seq(SentMessage) /\ Len(w) = n + 1 /\ w[n + 1] = Sent(r) /\ \A i \in 1..n : w[i] = v[i]
  BY <1>7, Zenon DEF w
<1>9. DOMAIN w = 1..(n + 1) /\ w = [i \in DOMAIN w |-> w[i]]
  <2>1. w \in [1..Len(w) -> SentMessage]
    BY <1>8, LenProperties
  <2> QED
    BY <1>8, <2>1
<1>10. \A i \in 1..(n + 1) : w[i] = Sent(h[i])
  <2> SUFFICES ASSUME NEW i \in 1..(n + 1) PROVE w[i] = Sent(h[i])
    OBVIOUS
  <2>1. i = n + 1 \/ i \in 1..n
    BY <1>1
  <2>2. CASE i = n + 1
    BY <1>2, <1>8, <2>2, Zenon
  <2>3. CASE i \in 1..n
    BY <1>2, <1>5, <1>8, <2>3, Zenon
  <2> QED
    BY <2>1, <2>2, <2>3
<1> HIDE DEF u
<1>11. u = w
  BY <1>4, <1>9, <1>10, Zenon
<1> QED
  BY <1>2, <1>11, Zenon DEF u, w, h

\* What the first n items of a session come to, once they have arrived.
FirstRead(session, b, n) ==
    LET s == StreamOf(session)
    IN  \E g \in Seq(Request) :
            /\ ReadAt(s, b, 0) = g \o ReadAt(s, b, Extent(session, n))
            /\ SentOf(g) = IntactMessages(FirstItems(session, n))

\* The items are read one after another.
LEMMA NextItemRead ==
    ASSUME NEW session, session \in Sessions, NEW b, b \in 0..Len(StreamOf(session)),
           NEW n, n \in Nat, n + 1 <= Len(session), Extent(session, n + 1) <= b,
           FirstRead(session, b, n)
    PROVE  FirstRead(session, b, n + 1)
<1> DEFINE s == StreamOf(session)
           k == n + 1
           item == session[k]
           r == ProtocolRequest(FrameSent(item))
           R(j) == ReadAt(s, b, j)
           E(j) == Extent(session, j)
           M(j) == IntactMessages(FirstItems(session, j))
<1>1. session \in Seq(Item)
  BY SessionsAssumption
<1>2. Len(session) \in Nat /\ k \in 1..Len(session) /\ k - 1 = n /\ n \in 0..Len(session)
      /\ n \in 0..k /\ k \in 0..Len(session) /\ s \in Seq(Byte) /\ Len(s) \in Nat
  BY <1>1, ItemPlaced, LenProperties
<1>3. E(n) <= b /\ E(n) \in 0..b /\ E(k) \in 0..b /\ E(k) <= b
  <2>1. E(n) <= E(k) /\ E(n) \in Nat /\ E(k) \in Nat
    BY <1>1, <1>2, ExtentGrows, Zenon
  <2> HIDE DEF E
  <2>2. E(k) <= b
    BY DEF E
  <2>3. b \in Nat
    BY <1>2
  <2> QED
    BY <2>1, <2>2, <2>3
<1> HIDE DEF E
<1>4. R(E(k)) \in Seq(Request)
  <2> HIDE DEF s
  <2>1. b \in 0..Len(s)
    BY DEF s
  <2> QED
    BY <1>2, <1>3, <2>1, ReadAtFacts
<1>5. /\ item \in Item
      /\ item.corrupted => R(E(n)) = R(E(k))
      /\ ~item.corrupted =>
             R(E(n)) = <<r>> \o R(E(k)) /\ <<r>> \in Seq(Request) /\ Sent(r) = item.message
  <2> HIDE DEF k
  <2>1. b \in 0..Len(s) /\ Extent(session, k - 1) <= b
    BY <1>2, <1>3, Zenon DEF E
  <2>2. LET i == session[k]
            f == FrameSent(i)
            start == Extent(session, k - 1)
            end == Extent(session, k)
        IN  /\ i \in Item
            /\ end <= b /\ i.corrupted => ReadAt(s, b, start) = ReadAt(s, b, end)
            /\ end <= b /\ ~i.corrupted =>
                   /\ ReadAt(s, b, start) = <<ProtocolRequest(f)>> \o ReadAt(s, b, end)
                   /\ <<ProtocolRequest(f)>> \in Seq(Request)
                   /\ Sent(ProtocolRequest(f)) = i.message
    BY <1>2, <2>1, ItemRead, Zenon
  <2> QED
    BY <1>2, <1>3, <2>2, Zenon DEF E
<1>6. /\ M(n) \in Seq(SentMessage)
      /\ M(k) = M(n) \o IF item.corrupted THEN <<>> ELSE <<item.message>>
  BY <1>1, StreamStep, Zenon
<1>7. PICK g \in Seq(Request) : R(0) = g \o R(E(n)) /\ SentOf(g) = M(n)
  BY Zenon DEF FirstRead, E
<1> HIDE DEF r, R, M, item
<1>8. CASE item.corrupted
  <2>1. M(k) = M(n)
    BY <1>6, <1>8, ConcatEmptySeq
  <2> QED
    BY <1>5, <1>7, <1>8, <2>1, Zenon DEF FirstRead, R, M, E
<1>9. CASE ~item.corrupted
  <2>1. /\ R(E(n)) = <<r>> \o R(E(k)) /\ <<r>> \in Seq(Request) /\ Sent(r) = item.message
        /\ item.message \in SentMessage
    BY <1>5, <1>9 DEF Item
  <2>2. g \o <<r>> \in Seq(Request) /\ SentOf(g \o <<r>>) = M(n) \o <<Sent(r)>>
    BY <1>6, <1>7, <2>1, SentOfAppend, Zenon
  <2>3. M(k) = M(n) \o <<Sent(r)>>
    BY <1>6, <1>9, <2>1, Zenon
  <2>4. R(0) = (g \o <<r>>) \o R(E(k))
    <3>1. (g \o <<r>>) \o R(E(k)) = g \o (<<r>> \o R(E(k)))
      BY <1>4, <2>1, ConcatRequests, Zenon
    <3> QED
      BY <1>7, <2>1, <3>1, Zenon
  <2> QED
    BY <2>2, <2>3, <2>4, Zenon DEF FirstRead, R, M, E
<1> QED
  BY <1>8, <1>9

\* All that have arrived, in order.
LEMMA ItemsRead ==
    ASSUME NEW session, session \in Sessions, NEW b, b \in 0..Len(StreamOf(session)),
           NEW k, k \in 0..Len(session), Extent(session, k) <= b
    PROVE  FirstRead(session, b, k)
<1> DEFINE s == StreamOf(session)
           D == {n \in Nat : n <= k => FirstRead(session, b, n)}
<1>1. session \in Seq(Item)
  BY SessionsAssumption
<1>2. Len(session) \in Nat /\ s \in Seq(Byte) /\ Len(s) \in Nat /\ k \in Nat /\ k <= Len(session)
  <2>1. Len(session) \in Nat /\ s \in Seq(Byte) /\ Len(s) \in Nat
    BY <1>1, ItemPlaced, LenProperties
  <2> QED
    BY <2>1
<1>3. FirstRead(session, b, 0)
  <2>1. Extent(session, 0) = 0 /\ IntactMessages(FirstItems(session, 0)) = <<>>
    BY <1>1, NoItems
  <2>2. ReadAt(s, b, 0) \in Seq(Request)
    <3> HIDE DEF s
    <3>1. b \in 0..Len(s) /\ 0 \in 0..b
      BY <1>2 DEF s
    <3> QED
      BY <1>2, <3>1, ReadAtFacts
  <2>3. SentOf(<<>>) = <<>> /\ <<>> \in Seq(Request)
    BY DEF SentOf
  <2>4. ReadAt(s, b, 0) = <<>> \o ReadAt(s, b, 0)
    BY <2>2, ConcatEmptySeq
  <2> QED
    BY <2>1, <2>3, <2>4, Zenon DEF FirstRead
<1>4. ASSUME NEW n \in Nat, n \in D PROVE n + 1 \in D
  <2> SUFFICES ASSUME n + 1 <= k PROVE FirstRead(session, b, n + 1)
    OBVIOUS
  <2>1. n <= k /\ n + 1 <= Len(session) /\ n + 1 \in 0..k
    BY <1>2
  <2>2. Extent(session, n + 1) <= b
    <3> DEFINE x == Extent(session, n + 1)
               y == Extent(session, k)
    <3>1. x <= y /\ x \in Nat /\ y \in Nat
      <4>1. n + 1 \in 0..Len(session)
        BY <1>2, <2>1
      <4> QED
        BY <1>1, <2>1, <4>1, ExtentGrows, Zenon
    <3>2. y <= b /\ b \in Nat
      BY <1>2
    <3> HIDE DEF x, y
    <3>3. x <= b
      BY <3>1, <3>2
    <3> QED
      BY <3>3 DEF x
  <2>3. FirstRead(session, b, n)
    BY <1>4, <2>1
  <2> QED
    BY <2>1, <2>2, <2>3, NextItemRead, Zenon
<1> HIDE DEF D
<1>5. Nat \subseteq D
  <2>1. 0 \in D
    BY <1>3 DEF D
  <2> QED
    BY <1>4, <2>1, Induction
<1>6. k \in D /\ k <= k
  BY <1>2, <1>5
<1> QED
  BY <1>6 DEF D

\* Of an item of which the last byte is still to come nothing is read.
LEMMA RestUnread ==
    ASSUME NEW session, session \in Sessions, NEW b, b \in 0..Len(StreamOf(session)),
           NEW k, k \in 0..Len(session), Extent(session, k) <= b,
           k < Len(session) => b < Extent(session, k + 1)
    PROVE  ReadAt(StreamOf(session), b, Extent(session, k)) = <<>>
<1> DEFINE s == StreamOf(session)
<1>1. session \in Seq(Item)
  BY SessionsAssumption
<1>2. Len(session) \in Nat /\ s \in Seq(Byte) /\ Len(s) \in Nat
      /\ Extent(session, Len(session)) = Len(s)
  BY <1>1, ItemPlaced, LenProperties
<1>3. CASE k < Len(session)
  <2> DEFINE n == k + 1
  <2>1. n \in 1..Len(session) /\ n - 1 = k
    BY <1>2, <1>3
  <2>2. b < Extent(session, n) /\ Extent(session, n - 1) <= b
    BY <1>3, <2>1
  <2> HIDE DEF n
  <2>3. ReadAt(s, b, Extent(session, n - 1)) = <<>>
    BY <2>1, <2>2, ItemRead, Zenon
  <2> QED
    BY <2>1, <2>3, Zenon
<1>4. CASE k = Len(session)
  <2>1. Extent(session, k) = b
    <3> HIDE DEF s
    <3>1. Extent(session, k) = Len(s) /\ b \in 0..Len(s)
      BY <1>2, <1>4 DEF s
    <3> QED
      BY <1>2, <3>1
  <2>2. ReadAt(s, b, b) = <<>>
    BY <1>2, EndRead, Zenon
  <2> QED
    BY <2>1, <2>2, Zenon
<1>5. k < Len(session) \/ k = Len(session)
  BY <1>2
<1> QED
  BY <1>3, <1>4, <1>5

\* So of a session the messages of what has wholly arrived are read.
LEMMA SessionRead ==
    ASSUME NEW session, session \in Sessions, arrived \in 0..Len(StreamOf(session))
    PROVE  SentOf(ReadAt(StreamOf(session), arrived, 0)) = IntactMessages(WhollyArrived(session))
<1> DEFINE s == StreamOf(session)
           A == {n \in DOMAIN session : Extent(session, n) <= arrived}
<1>1. session \in Seq(Item)
  BY SessionsAssumption
<1>2. arrived \in Nat
  <2>1. Len(s) \in Nat
    BY <1>1, ItemPlaced, LenProperties
  <2> QED
    BY <2>1
<1> HIDE DEF A
<1>3. PICK k \in 0..Len(session) :
          /\ Extent(session, k) <= arrived
          /\ k < Len(session) => arrived < Extent(session, k + 1)
          /\ Cardinality(A) = k
  BY <1>1, <1>2, ArrivedItems, Zenon DEF A
<1>4. WhollyArrived(session) = FirstItems(session, k)
  BY <1>3, Zenon DEF A, WhollyArrived, Extent
<1>5. ReadAt(s, arrived, Extent(session, k)) = <<>>
  BY <1>3, RestUnread, Zenon
<1>6. FirstRead(session, arrived, k)
  BY <1>3, ItemsRead, Zenon
<1>7. PICK g \in Seq(Request) :
          /\ ReadAt(s, arrived, 0) = g \o ReadAt(s, arrived, Extent(session, k))
          /\ SentOf(g) = IntactMessages(FirstItems(session, k))
  BY <1>6, Zenon DEF FirstRead
<1>8. ReadAt(s, arrived, 0) = g
  <2>1. ReadAt(s, arrived, 0) = g \o <<>>
    BY <1>5, <1>7, Zenon
  <2>2. g \o <<>> = g
    BY <1>7, ConcatEmptySeq
  <2> QED
    BY <2>1, <2>2, Zenon
<1> QED
  BY <1>4, <1>7, <1>8, Zenon

\* The codec has returned what can be read of what has arrived, hence those.
LEMMA DecodedArrive == DecodeInv => MessagesGetThrough
<1> SUFFICES ASSUME DecodeInv, pc = "idle", NEW session, session \in Sessions,
                    stream = StreamOf(session)
             PROVE  [i \in DOMAIN found |-> Sent(found[i])] =
                        IntactMessages(WhollyArrived(session))
  BY Zenon DEF MessagesGetThrough
<1>1. stream \in Seq(Byte) /\ arrived \in 0..Len(stream)
  BY TypeFacts DEF DecodeInv, CodecInv, TypeOK
<1>2. found = ReadAt(stream, arrived, 0)
  <2>1. found = Abstract!RequestsIn(Mid(stream, 0, arrived))
    BY InvDecoded, Zenon DEF Decoded
  <2> QED
    BY <1>1, <2>1, RequestsInStream, Zenon
<1>3. SentOf(found) = IntactMessages(WhollyArrived(session))
  BY <1>1, <1>2, SessionRead, Zenon
<1> QED
  BY <1>3, Zenon DEF SentOf

\* What encode() wrote is what append() reads: of what a simulator sends every
\* message gets through, unchanged, in order and as soon as it has wholly
\* arrived, but for those the checksum of which was falsified
\* (DemoBinaryProtocolCodec.cpp:86-169, 203-287).
THEOREM MessagesArrive == Spec => []MessagesGetThrough
<1>1. DecodeInv => MessagesGetThrough
  BY DecodedArrive
<1>2. Init => DecodeInv
  BY InitRead
<1>3. DecodeInv /\ [Next]_vars => DecodeInv'
  BY NextRead
<1> QED
  BY <1>1, <1>2, <1>3, PTL DEF Spec
===============================================================================
