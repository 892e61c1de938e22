SPECIFICATION Spec
CONSTANTS
    Configs <- MCConfigs
    Paths <- MCPaths
    Endpoints <- MCEndpoints
    Syscalls <- MCSyscalls
    MaxEvents = 3
INVARIANTS
    TypeOK
    ReportsAgree
    ExitContract
CHECK_DEADLOCK FALSE
