SPECIFICATION Spec
CONSTANTS
    Handlers = {h1, h2}
    Dests = {"a"}
    Configs <- MCConfigs
    Members <- MCMembers
    Shards = 2
    Pollers = {traffic, connections}
    Bytes = {1}
SYMMETRY PollerSymmetry
CONSTRAINT QuietWhilePolled
INVARIANTS TypeOK ListedIsLive LiveIsListedOrCleared NoByteUnreported SequentialIsExact
PROPERTY FirstHitWins
