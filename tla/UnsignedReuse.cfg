SPECIFICATION Spec
CONSTANTS
    push1 = push1
    push2 = push2
    again2 = again2
    release = release
    pr = pr
    d1 = d1
    d2 = d2
    d3 = d3
    d4 = d4
    None = None
    Runs <- Runs3
    Movers = {push1, push2, again2}
    DryRuns = {}
    Commits = {1, 2, 3}
    Valid = {1, 2}
    Tags <- AllTags
    RunTag <- TagOf
    RunCommit <- CommitOf
    Digests = {d1, d2, d3, d4}
    TagImmutability = FALSE
    MaxReruns = 1
SYMMETRY Symmetry
INVARIANT LatestSigned
CHECK_DEADLOCK FALSE
