SPECIFICATION TuiFairSpec
CONSTANTS
    a = a
    b = b
    NoEnv = NoEnv
    EnvId = {a, b}
    Catalogs <- MCCatalogs
    Fast = {"fleet"}
    SlowTicks = 2
    MaxFails = 0
    MaxStack = 1
PROPERTIES FollowsCursor
CHECK_DEADLOCK FALSE
