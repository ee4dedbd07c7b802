SPECIFICATION Spec
CONSTANTS
    HexValue <- MCHexValue
    IpAddresses <- MCIpAddresses
    Document <- SampleDocument
    Messages <- MCMessages
    RuleTable <- SimulatedRules
    Options <- SimulatedOptions
    RandomSeed <- SimulatedSeed
    TelemetryEnabled <- SimulatesTelemetry
    TelemetryPayload <- SimulatedTelemetry
    CodecMutates = TRUE
    InitialSequence = 1
    SequenceModulus = 65536
    OutputQueueCapacity = 3
    Failures = {}
    MaxSessions = 1
    MaxRequests = 2
    MaxBatch = 2
    MaxTelemetry = 1
    MaxGeneration = 0
CHECK_DEADLOCK FALSE
INVARIANTS
    WritesAsDocumented
PROPERTIES
    DocumentHonoured
