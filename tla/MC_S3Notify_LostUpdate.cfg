CONSTANTS
    c1 = c1
    c2 = c2
    r1 = r1
    Callers = {c1, c2}
    Resources = {r1}
    Prefixes = {"", "p"}
    EventNames = {"put", "delete", "get"}
    MaxCalls = 1
    Faults = FALSE
    InitConfigs <- MCInitConfigs
SPECIFICATION Spec
PROPERTY ContractSpec
CHECK_DEADLOCK FALSE
