SPECIFICATION EmbeddedSpec
CONSTANTS
    Commands = {"PLAIN", "SLOW"}
    Messages <- MCMessages
    RuleTable <- MCRules
    Options <- MCOptions
    OutputQueueCapacity = 3
    RandomSeed = 7
    CodecMutates = TRUE
    TelemetryEnabled = TRUE
    TelemetryPayload = 1
    InitialSequence = 2
    SequenceModulus = 3
    Failures = {}
    MaxSessions = 2
    MaxRequests = 2
    MaxBatch = 1
    MaxTelemetry = 1
    MaxGeneration = 4
CHECK_DEADLOCK FALSE
INVARIANT
    RequestsEndWithSession
