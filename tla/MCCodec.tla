------------------------------- MODULE MCCodec -------------------------------
(***************************************************************************)
(* Streams for the decoder: what a simulator sends, and frames mixed with  *)
(* noise, with falsified and truncated ones.  Payloads of up to 10 bytes   *)
(* let a frame travel inside the payload of another.                       *)
(***************************************************************************)
EXTENDS CodecProperties

MCCodecOptions == [version |-> 1, maxPayloadLength |-> 10, maxBufferedBytes |-> 20]

Message(command, payload) ==
    [version |-> 1, command |-> command, sequence |-> 256 * command + 170,
     payload |-> payload]

Read == Message(4, <<>>)
Start == Message(2, <<170, 85, 170>>)       \* its payload looks like a header
Stop == Message(170, <<85>>)
Wrapped == Message(3, Encode(Read))         \* its payload is a frame

\* The frame whose CRC is known from tests/test_protocol.cpp.
ASSUME KnownFrame ==
    Encode([version |-> 1, command |-> 1, sequence |-> 4660, payload |-> <<170, 187>>])
        = <<170, 85, 1, 1, 18, 52, 0, 2, 170, 187, 188, 162>>

Intact(message) == [message |-> message, corrupted |-> FALSE, noise |-> <<>>]
Corrupted(message) == [message |-> message, corrupted |-> TRUE, noise |-> <<>>]
AfterNoise(message, noise) == [message |-> message, corrupted |-> FALSE, noise |-> noise]

\* The noise of samples/simulator.sample.json, and noise that ends like a
\* header begins.
MCSessions ==
    {<<Intact(Read), Intact(Start), Intact(Stop)>>,
     <<Intact(Wrapped), Intact(Read)>>,
     <<Corrupted(Read), Intact(Start)>>,
     <<AfterNoise(Read, <<222, 173>>), AfterNoise(Stop, <<85, 170>>)>>}

OtherVersion == Encode([Read EXCEPT !.version = 2])

NoisyStreams ==
    {<<0, 17, 34>> \o CorruptChecksum(Encode(Stop)) \o Encode(Read),
     CorruptChecksum(Encode(Wrapped)) \o Encode(Stop),
     AdjustPayloadLength(Encode(Read), 5) \o Encode(Start) \o Encode(Read),
     AdjustPayloadLength(Encode(Read), 11) \o Encode(Stop),
     AdjustPayloadLength(Encode(Start), -1) \o Encode(Stop),
     OtherVersion \o Encode(Stop),
     <<170>> \o Encode(Read) \o <<170, 170, 85, 1>>,
     Mid(Encode(Start), 0, 9) \o Encode(Read) \o Encode(Stop)}

MCStreams == {StreamOf(session) : session \in MCSessions} \cup NoisyStreams
=============================================================================
