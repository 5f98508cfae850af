SPECIFICATION ViewsSpec
CONSTANTS
    MaxLines = 2
    TailLines = 2
    MaxBytes = 1
    MaxBuffers = 1
    MaxFaults = 1
    a = a
    b = b
    NoEnv = NoEnv
    EnvId = {a, b}
    Catalogs <- MCCatalogs
    Fast = {"fleet"}
    SlowTicks = 2
    MaxFails = 1
    MaxStack = 1
INVARIANTS
    SessionSeesAll
    BufferBounded
    OwnRevisions
    OneOutstanding
PROPERTIES
    Polled
    Released
CHECK_DEADLOCK FALSE
