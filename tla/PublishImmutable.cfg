SPECIFICATION FairSpec
CONSTANTS
    push1 = push1
    push2 = push2
    again2 = again2
    release = release
    pr = pr
    d1 = d1
    d2 = d2
    d3 = d3
    d4 = d4
    None = None
    Runs = {push2, again2, release, pr}
    Movers = {push2, again2, pr}
    DryRuns = {pr}
    Commits = {1, 2, 3}
    Valid = {1, 2}
    Tags <- AllTags
    RunTag <- TagOf
    RunCommit <- CommitOf
    Digests = {d1, d2, d3}
    TagImmutability = TRUE
    MaxReruns = 1
INVARIANT TypeOK
INVARIANT TagNamesItsCommit
INVARIANT ReportsOwnSignedPush
INVARIANT LatestIsContinuous
PROPERTY RepositorySpec
PROPERTY PublishedTagRolls
CHECK_DEADLOCK FALSE
