SPECIFICATION ProgramSpec
CONSTANTS
    HexValue <- MCHexValue
    IpAddresses <- MCIpAddresses
    Files <- AllFiles
    Arguments <- AllArguments
    Signals = {"SIGINT", "SIGTERM"}
CHECK_DEADLOCK FALSE
INVARIANTS
    TypeOK
    ExitCodesMean
    ListensOnlyToRun
    EndLeavesNothingOpen
    ConfiguredServersStart
    ConfiguredPlansExecute
    EveryRuleReachable
    LoaderIsStrict
PROPERTIES
    StopRequestObeyed
