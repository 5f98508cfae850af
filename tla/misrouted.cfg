CONSTANTS
    prod = prod
    pr7 = pr7
    Env = {prod}
    Preview = {}
    Node = {1, 2}
    Version = {"one"}
    Service = {"web"}
    Image = {"a"}
    Resource = {"mem", "cpu"}
    Spec <- MCSpec
    Capacity <- MCCapacity
    MaxRevision = 2
    None = None
    Faults = {"drain"}
SPECIFICATION RolloutSpec
INVARIANTS
    RouteReachesInstance
