SPECIFICATION Testing
CONSTANTS
    None = None
    Absent = Absent
    ArgNames = {"a", "u"}
    Paths <- KitPaths
    Ancestors <- Above
    Order <- Walk
    Spec = "spec.yaml"
    Specs <- SpecPaths
    Files = "files"
    Home = "files/home"
    NewName <- Copy
    Calls <- SomeCalls
    MaxFaults = 1
    Configs <- ConfigFiles
    Seed <- Seeded
    Siblings <- WithSibling
    Gateways <- WithGateway
    Extension <- Paths2Syntax
    WellKnown = {"claude", "shell"}
    Shell = "shell"
INVARIANTS SuiteTypeOK NothingOutlives LoadsAsWritten GreenIsEarned SoundKitPasses
INVARIANTS FailuresAreSeparate ForbiddenAreChecked SiblingsSurvive
CHECK_DEADLOCK FALSE
