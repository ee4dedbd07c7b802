SPECIFICATION Spec
CONSTANTS
    HexValue <- MCHexValue
    IpAddresses <- MCIpAddresses
    Files <- ManyFiles
    Arguments <- RunIt
    Signals = {}
CHECK_DEADLOCK FALSE
INVARIANT
    EveryResponseExecutes
