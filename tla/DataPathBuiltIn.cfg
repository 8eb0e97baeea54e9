SPECIFICATION DataSpec
CONSTANTS
    KeyHeaders <- MCKeyHeaders
    Custom <- MCCustom
    Platform <- MCPlatform
    Documents <- MCDocuments
    Height <- MCHeight
    Inputs <- MCInputs
    Responses <- MCResponses
INVARIANT BuiltInFieldsRejected
CHECK_DEADLOCK FALSE
