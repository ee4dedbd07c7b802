SPECIFICATION Spec
CONSTANTS
    Commands = {"PLAIN", "SPLIT", "PAIR", "LAST", "HANGUP", "LOSSY", "SLOW", "MUTE", "UNKNOWN", "FORGED"}
    Messages <- MCMessages
    RuleTable <- MCRules
    Options <- MCOptions
    OutputQueueCapacity = 3
    RandomSeed = 7
    CodecMutates = TRUE
    TelemetryEnabled = TRUE
    TelemetryPayload = 1
    InitialSequence = 2
    SequenceModulus = 3
    Failures = {}
    MaxSessions = 1
    MaxRequests = 3
    MaxBatch = 2
    MaxTelemetry = 1
    MaxGeneration = 0
CHECK_DEADLOCK FALSE
INVARIANTS
    RepliesInOrder
    AnswersFollowPlans
    DisconnectIsLast
PROPERTIES
    NothingAfterScheduledDisconnect
