------------------------------- MODULE Frames -------------------------------
(***************************************************************************)
(* The frames of the demo protocol (DemoBinaryProtocolCodec.cpp):          *)
(*                                                                         *)
(*     AA 55 | version | command | sequence | length | payload | CRC       *)
(*                                                                         *)
(* sequence and length are big-endian 16-bit words, the CRC covers         *)
(* everything between header and CRC and is sent low byte first.  Bytes    *)
(* are integers, and offsets count from 0 as in the source.                *)
(***************************************************************************)
EXTENDS Integers, Sequences, SequencesExt

Byte == 0..255

MaxUInt16 == 65535

HeaderFirst == 170
HeaderSecond == 85
VersionOffset == 2
CommandOffset == 3
SequenceOffset == 4
PayloadLengthOffset == 6
PayloadOffset == 8

\* Header, version, command, sequence, payload length and CRC.
FixedFrameOverhead == 10

\* DemoBinaryProtocolOptions::isValid: one full frame fits the buffer.
ValidCodecOptions(o) ==
    /\ o.maxPayloadLength \in 0..MaxUInt16
    /\ o.maxBufferedBytes \in (o.maxPayloadLength + FixedFrameOverhead)..(1024 * 1024)

Total(sizes) == FoldLeft(LAMBDA sum, size : sum + size, 0, sizes)

ByteAt(data, index) == data[index + 1]

\* QByteArray::mid, first and remove(0, count).
Mid(data, offset, length) == SubSeq(data, offset + 1, offset + length)
Without(data, count) == SubSeq(data, count + 1, Len(data))

ReadBigEndianUInt16(data, offset) == 256 * ByteAt(data, offset) + ByteAt(data, offset + 1)

BigEndianUInt16(value) == <<value \div 256, value % 256>>

\* The least offset of a header, -1 for none.
FindHeader(data) ==
    LET headers == {i \in 0..(Len(data) - 2) :
                        ByteAt(data, i) = HeaderFirst /\ ByteAt(data, i + 1) = HeaderSecond}
    IN  IF headers = {} THEN -1 ELSE CHOOSE i \in headers : \A j \in headers : i <= j

-----------------------------------------------------------------------------
(* CRC16-Modbus, on words of 16 bits. *)

FlipBit(word, i) == IF (word \div 2^i) % 2 = 0 THEN word + 2^i ELSE word - 2^i

\* One bit of the division by the polynomial 0xA001: bits 15, 13 and 0.
DivideBit(crc) ==
    LET half == crc \div 2
    IN  IF crc % 2 = 1 THEN FlipBit(FlipBit(FlipBit(half, 15), 13), 0) ELSE half

\* The CRC of data, as the two bytes that end a frame.
CalculateCrc(data) ==
    LET Word == 0..MaxUInt16
        Xor[p \in Word \X Byte] ==
            IF p[2] = 0 THEN p[1]
            ELSE 2 * Xor[<<p[1] \div 2, p[2] \div 2>>] + ((p[1] + p[2]) % 2)
        Divide[p \in (0..8) \X Word] ==
            IF p[1] = 0 THEN p[2] ELSE Divide[<<p[1] - 1, DivideBit(p[2])>>]
        Crc[n \in 0..Len(data)] ==
            IF n = 0 THEN MaxUInt16 ELSE Divide[<<8, Xor[<<Crc[n - 1], data[n]>>]>>]
        crc == Crc[Len(data)]
    IN  <<crc % 256, crc \div 256>>

-----------------------------------------------------------------------------
(* Encoding, and the two ways a fault falsifies an encoded frame. *)

Encode(response) ==
    LET body == <<response.version, response.command>>
                    \o BigEndianUInt16(response.sequence)
                    \o BigEndianUInt16(Len(response.payload) % 65536)
                    \o response.payload
    IN  <<HeaderFirst, HeaderSecond>> \o body \o CalculateCrc(body)

\* The last byte with its lowest bit flipped.
CorruptChecksum(frame) ==
    [frame EXCEPT ![Len(frame)] = IF @ % 2 = 0 THEN @ + 1 ELSE @ - 1]

\* Only the length field changes: neither the payload nor the CRC follow it.
AdjustPayloadLength(frame, adjustment) ==
    LET length == ReadBigEndianUInt16(frame, PayloadLengthOffset) + adjustment
    IN  [frame EXCEPT ![PayloadLengthOffset + 1] = length \div 256,
                      ![PayloadLengthOffset + 2] = length % 256]

-----------------------------------------------------------------------------
(* Reading a frame at the start of data. *)

HasFrameLength(data) == Len(data) >= PayloadOffset

PayloadLength(data) == ReadBigEndianUInt16(data, PayloadLengthOffset)

FrameLength(data) == FixedFrameOverhead + PayloadLength(data)

\* The CRC the frame carries is the one its bytes have.
ChecksumMatches(frame) ==
    Mid(frame, Len(frame) - 2, 2) = CalculateCrc(Mid(frame, VersionOffset, Len(frame) - 4))

ProtocolRequest(frame) ==
    [version |-> ByteAt(frame, VersionOffset),
     command |-> ByteAt(frame, CommandOffset),
     sequence |-> ReadBigEndianUInt16(frame, SequenceOffset),
     payload |-> Mid(frame, PayloadOffset, PayloadLength(frame)),
     rawData |-> frame]

=============================================================================
