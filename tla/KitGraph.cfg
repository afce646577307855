SPECIFICATION FairGraphSpec
CONSTANTS
    push2 = push2
    again2 = again2
    release = release
    pr = pr
    docs2 = docs2
    d1 = d1
    d2 = d2
    i1 = i1
    None = None
    Runs = {push2, again2, release, pr, docs2}
    Movers = {push2, again2, pr}
    DryRuns = {pr}
    ImageDryRuns = {pr}
    Event <- EventOf
    Worlds <- SomeWorlds
    Commits = {1, 2, 3}
    Valid = {1, 2, 3}
    Tags <- AllTags
    RunTag <- TagOf
    RunCommit <- CommitOf
    Digests = {d1, d2}
    ImageDigests = {i1}
    TagImmutability = FALSE
    MaxReruns = 1
INVARIANTS GraphTypeOK JobsFollowTheirInputs
PROPERTIES OverwriteNeedsRace PublishGetsPage
CHECK_DEADLOCK FALSE
