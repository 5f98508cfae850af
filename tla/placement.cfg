CONSTANTS
    prod = prod
    pr7 = pr7
    Env = {prod}
    Preview = {}
    Node = {1, 2}
    Version = {"one"}
    Service = {"web"}
    Image = {"a"}
    Resource = {"mem", "cpu"}
    Spec <- MCSpec
    Capacity <- TightCapacity
    MaxRevision = 2
    None = None
    Faults = {"restart", "sync"}
    Stack = {"s"}
    EnvName = {1, 2}
    Digest = {1, 2}
    SecretKey = {"k"}
    Required <- MCRequired
    Caller = {c1, c2}
    MaxVersions = 2
    NoValue = NoValue
    Gone = Gone
SPECIFICATION PlacementSpec
INVARIANTS
    PlacedAtHome
    AllocIsReserved
PROPERTIES
    NoOvercommit
    RouteBeforeTeardown
    PushesAppend
    DeploysWithSecrets
CHECK_DEADLOCK FALSE
