SPECIFICATION FairSpec
CONSTANTS
    startup = startup
    terminal = terminal
    None = None
    Startup = startup
    Terminals = {terminal}
    HasDocker = TRUE
    MaxBoots = 2
INVARIANTS TypeOK SentinelNeedsImage TokenIsShared CredentialsOfThisStart
PROPERTIES ScriptsEnd SentinelComes
CHECK_DEADLOCK FALSE
