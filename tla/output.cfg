SPECIFICATION Spec
CONSTANTS
    Commands = {"PLAIN", "SPLIT", "EXACT", "PAIR", "TRIPLE", "PAIRLAST"}
    Messages <- MCMessages
    RuleTable <- MCRules
    Options <- MCOptions
    OutputQueueCapacity = 2
    RandomSeed = 7
    CodecMutates = TRUE
    TelemetryEnabled = TRUE
    TelemetryPayload = 1
    InitialSequence = 2
    SequenceModulus = 3
    Failures = {}
    MaxSessions = 1
    MaxRequests = 3
    MaxBatch = 2
    MaxTelemetry = 2
    MaxGeneration = 0
CHECK_DEADLOCK FALSE
INVARIANTS
    OutputQueueBounded
    FramesContiguous
    CoalescedWritesAgree
    CoalesceWindowFresh
    NoLostOutput
