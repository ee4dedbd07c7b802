SPECIFICATION Spec
CONSTANTS
    Codec <- MCCodecOptions
    Sessions <- MCSessions
    Streams <- MCStreams
INVARIANTS
    TypeOK
    OneFrameHeldBack
    FramesFound
    BytesAccounted
    MessagesGetThrough
PROPERTIES
    StreamDecoded
    AppendReturns
