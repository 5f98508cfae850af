SPECIFICATION NodeSpec
CONSTANTS
    Env = {pr7}
    Service = {"web", "db"}
    Swappable = {"web"}
    Probed = {"db"}
    Mounting = {"db"}
    Sealed = {"db"}
    Depends <- MCDepends
    Def = {1}
    MaxRevision = 2
    MaxSecret = 2
    MaxRestarts = 0
    Failing = TRUE
    n1 = n1
    n2 = n2
    j = j
    Host = {n1, n2}
    Steady = {n2}
    JoinToken = {j}
    Uses <- MCUses
    MaxKeys = 2
    RequireJoin = FALSE
    MaxVersion = 2
    Ids = {1, 2, 3}
    NodeRow <- MCRows
    Counts = {0, 1}
    Peaks <- MCPeaks
    MaxNodes = 3
    None = None
INVARIANTS
    OrderIndependent
    NeverUnapproved
    OpenableAtHome
    HeardUnlessLost
PROPERTIES
    DurableNeedsTombstone
    WantedIsKept
    JoinTokensAreTickets
CHECK_DEADLOCK FALSE
