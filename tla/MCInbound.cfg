SPECIFICATION FairSpec
CONSTANT Scripts <- MCScripts
INVARIANTS TypeOK HandoverExact NoFalsePromise
PROPERTY HandshakeEnds
