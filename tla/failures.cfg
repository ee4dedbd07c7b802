SPECIFICATION Spec
CONSTANTS
    Commands = {"PLAIN", "SPLIT", "PAIR", "LOST", "DROP", "THROWS", "HOLLOW", "TOOSLOW", "TOOLONG", "BADSPLIT", "FORGED"}
    Messages <- MCMessages
    RuleTable <- MCRules
    Options <- MCOptions
    OutputQueueCapacity = 3
    RandomSeed = 7
    CodecMutates = FALSE
    TelemetryEnabled = TRUE
    TelemetryPayload = 1
    InitialSequence = 2
    SequenceModulus = 3
    Failures = {"parser", "frameFactory", "write"}
    MaxSessions = 1
    MaxRequests = 3
    MaxBatch = 2
    MaxTelemetry = 1
    MaxGeneration = 0
CHECK_DEADLOCK FALSE
INVARIANTS
    TypeOK
    NoLostRequest
    NoLostOutput
    AnswersFollowPlans
