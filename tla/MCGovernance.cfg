SPECIFICATION Spec
CONSTANTS
    Actions = {a1, a2}
    Tool = Tool
    NoTool = NoTool
    NoRequest = NoRequest
    Tools <- MCTools
    ToolRisk <- MCToolRisk
    Requests <- MCRequests
    Limits <- MCLimits
    MaxVersion = 2
    MaxDay = 2
INVARIANTS ApprovalBacksAuthority
PROPERTIES GrantsRespectControls DailySpendIsCapped
CHECK_DEADLOCK FALSE
