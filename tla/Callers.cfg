SPECIFICATION CallersSpec
CONSTANTS
    Calls = {c1, c2}
    Window = 2
    Limit = 1
    Ttl = 2
    Margin = 1
    Waits = {0, 3}
    LongestDelay = 2
    None = none
    Requests = {q1, q2}
    Lifetime = 2
    MaxTime = 3
    KeyHeaders <- MCKeyHeaders
    Custom <- MCCustom
    Platform <- MCPlatform
    Documents <- MCDocuments
    Height <- MCHeight
    Inputs <- MCInputs
    Responses <- MCResponses
INVARIANTS TypeOK SentInTime WriteOnce BridgeTypeOK CleanExit DataTypeOK NothingSmuggled ResponseRedacted AuditClean ClientsAgree
PROPERTIES AdmittedWithSession NothingHangs Recorded
CHECK_DEADLOCK FALSE
