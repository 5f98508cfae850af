CONSTANTS
    pr7 = pr7
    Env = {pr7}
    Preview = {pr7}
    Node = {1}
    Version = {"v1", "v2", "v3"}
    Service = {"web", "db"}
    Image = {"a", "b"}
    Resource = {"mem", "cpu"}
    Spec <- MCSpec
    Capacity <- MCCapacity
    MaxRevision = 2
    None = None
    Faults = {"drain", "silence", "restart"}
SPECIFICATION MCStoreSpec
CONSTRAINT Bounds
ACTION_CONSTRAINT LoopsStandStill
INVARIANTS
    DriftRejected
CHECK_DEADLOCK FALSE
