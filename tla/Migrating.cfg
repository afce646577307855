SPECIFICATION Migrating
CONSTANTS
    None = None
    Torn = Torn
    Words <- Arguments
    Bodies <- Bodys
    Valid = {"body", "slip"}
    Bare = {"bare"}
    V1Only = {"v1only"}
    Documents <- SomeDocuments
    MaxFaults = 2
    MaxEdits = 2
INVARIANTS TypeOK OriginalKept MatchSaysTheSame
PROPERTIES ImplementsRewrite MigrationSaysTheSame MigratedSettles
CHECK_DEADLOCK FALSE
