SPECIFICATION PartsSpec
CONSTANTS
    Env = {pr7}
    Service = {"web"}
    Swappable = {"web"}
    Probed = {}
    Mounting = {"web"}
    Sealed = {}
    Depends <- MCDepends
    Def = {1}
    MaxRevision = 2
    MaxSecret = 1
    MaxRestarts = 1
    Failing = TRUE
    Document <- MCDocument
    Config <- MCConfig
    SecretKeys <- MCKeys
    a = a
    b = b
    Person = {a, b}
    Founder = a
    Guest = {b}
    MaxInvites = 2
    MaxAsks = 2
    MaxTokens = 2
INVARIANTS
    NothingAfterTeardown
    DebouncedReport
    InviteLedger
    KeepsMember
    Deployable
    FindsDeadlock
PROPERTIES
    OrphansCollected
    TombstoneHonoured
    InvitesAreTickets
CHECK_DEADLOCK FALSE
