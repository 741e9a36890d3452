SPECIFICATION Spec
CONSTANTS
    Conns = {c1}
    Requests <- OneRequest
    Hellos <- BigHello
    AllowedHosts <- MCAllowedHosts
    AllowedPorts = {443, 80}
    AllowIPLiteral = FALSE
    TelemetryHosts <- MCTelemetry
    BufSize = 4096
    MaxRecord = 16384
CHECK_DEADLOCK FALSE
INVARIANTS
    SingleRecordHelloPasses
