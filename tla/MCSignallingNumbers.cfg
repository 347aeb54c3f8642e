SPECIFICATION SigSpec
CONSTANTS
    MaxSent = 3
    MaxDerived = 2
    Numbers <- MCNumbers
    Forms <- MCForms
    NextForms <- MCNextForms
    Calls <- MCCalls
    Platforms <- MCPlatforms
    LongWords = {"device", "platform"}
    PortWords = {"5060", "15060"}
INVARIANT
    DialogNumbers
\* The device may stop sending and the application asks nothing more.
CHECK_DEADLOCK FALSE
