SPECIFICATION AgentSpec
CONSTANTS
    Env = {pr7}
    Service = {"web", "db"}
    Swappable = {"web"}
    Probed = {"db"}
    Mounting = {"db"}
    Sealed = {"db"}
    Depends <- MCDepends
    Def = {1}
    MaxRevision = 2
    MaxSecret = 1
    MaxRestarts = 0
    Failing = TRUE
PROPERTIES
    AdoptedWasStarted
