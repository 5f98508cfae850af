CONSTANTS
    prod = prod
    pr7 = pr7
    Env = {pr7}
    Preview = {pr7}
    Node = {1}
    Version = {"one"}
    Service = {"web"}
    Image = {"a"}
    Resource = {"mem", "cpu"}
    Spec <- MCSpec
    Capacity <- MCCapacity
    MaxRevision = 2
    None = None
    Faults = {"sync"}
SPECIFICATION FairSpec
PROPERTIES
    RouteSettles
    StoreSpec
    RolloutResolves
    TeardownHappens
