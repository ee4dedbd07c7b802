SPECIFICATION Spec
CONSTANTS
    Commands = {"PLAIN", "UNKNOWN"}
    Messages <- MCMessages
    RuleTable <- MCRules
    Options <- SmallPayloadOptions
    OutputQueueCapacity = 3
    RandomSeed = 7
    CodecMutates = TRUE
    TelemetryEnabled = FALSE
    TelemetryPayload = 1
    InitialSequence = 2
    SequenceModulus = 3
    Failures = {}
    MaxSessions = 1
    MaxRequests = 2
    MaxBatch = 2
    MaxTelemetry = 0
    MaxGeneration = 0
CHECK_DEADLOCK FALSE
INVARIANTS
    UnknownCommandsAnswered
