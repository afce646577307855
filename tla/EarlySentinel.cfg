SPECIFICATION Spec
CONSTANTS
    startup = startup
    terminal = terminal
    None = None
    Startup = startup
    Terminals = {terminal}
    HasDocker = TRUE
    MaxBoots = 2
INVARIANT SentinelWaitsForGateway
CHECK_DEADLOCK FALSE
