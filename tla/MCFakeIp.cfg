SPECIFICATION Spec
CONSTANTS
    Hosts = {a, b, c}
    Threads = {t1, t2}
    PoolSize = 8
    Capacity = 3
SYMMETRY Symmetry
INVARIANTS TypeOK AddressesInside AnswersMapBack
