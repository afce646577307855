SPECIFICATION Spec
CONSTANTS
    Services = {1, 2}
    Domains = {1, 2}
    Envs = {1, 2, 3}
    ServiceKey <- KeyOf
    WellKnown = {2}
    Documents <- AllSpecs
    None = None
INVARIANT TypeOK
INVARIANT FoldIsFaithful
INVARIANT LoadsAgree
CHECK_DEADLOCK FALSE
