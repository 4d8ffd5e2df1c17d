CONSTANTS
    c1 = c1
    c2 = c2
    r1 = r1
    Callers = {c1}
    Resources = {r1}
    Prefixes = {"", "p"}
    EventNames = {"put", "delete", "get"}
    MaxCalls = 3
    Faults = TRUE
    InitConfigs <- MCInitConfigs
SPECIFICATION Spec
INVARIANT TypeOK
PROPERTY ContractSpec
CHECK_DEADLOCK FALSE
