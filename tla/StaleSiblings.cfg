SPECIFICATION Spec
CONSTANTS
    claude = claude
    acp = acp
    None = None
    Kits = {claude, acp}
    Matches <- PrefixOf
    Dockerfiles = {claude}
    Shadowed = {claude, acp}
    Reshadowed = {claude}
    Extracted = {claude}
    Prompted = {claude}
    ReadyFiles = {claude}
    Misfiled = {}
    Options <- BothOptions
    MaxRuns = 3
PROPERTY StaleOnlyOwn
CHECK_DEADLOCK FALSE
