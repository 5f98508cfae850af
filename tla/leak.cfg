CONSTANTS
    prod = prod
    pr7 = pr7
    Env = {pr7}
    Preview = {pr7}
    Node = {1}
    Version = {"one"}
    Service = {"web"}
    Image = {"a"}
    Resource = {"mem", "cpu"}
    Spec <- MCSpec
    Capacity <- MCCapacity
    MaxRevision = 1
    None = None
    Faults = {}
SPECIFICATION RolloutSpec
INVARIANTS
    AllocIsReserved
