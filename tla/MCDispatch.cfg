SPECIFICATION FairSpec
CONSTANTS
    Listeners = {mixed, http}
    Conns = {c1, c2, c3}
    Capacity = 1
    MaxConcurrent = 1
    MaxRetries = 1
INVARIANTS TypeOK PermitAccounting ChannelAccounting ExitLosesNoParsedConnection
PROPERTIES ImplementsAdmission ParsedIsHandled DrainedExits
