SPECIFICATION Spec
CONSTANTS
    Handlers = {h1, h2}
    Dests = {"a"}
    Configs <- MCConfigs
    Members <- MCMembers
    Shards = 2
    Pollers = {}
    Bytes = {1}
INVARIANT RelayingIsListed
