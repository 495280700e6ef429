SPECIFICATION Spec
CONSTANTS
    None = None
    Bad = Bad
    Missing = Missing
    Lower <- MCLower
    AsciiLower <- MCAsciiLower
    Infixes <- MCInfixes
    Ports <- MCPorts
    PortOf <- MCPortOf
    Files <- MCFiles
    Requests <- MCRequests
    Resolve <- MCResolve
INVARIANT RoutedByAddress
CHECK_DEADLOCK FALSE
