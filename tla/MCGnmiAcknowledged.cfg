SPECIFICATION NotifySpec
CONSTANTS
    c1 = c1
    c2 = c2
    Clients <- MCClients
    Cap = 2
    Window = 9
    MaxMessages = 3
    MaxConnects = 2
    Paths <- MCPaths
    Responses <- MCResponses
    Quiet = TRUE
PROPERTIES
    Acknowledged
CHECK_DEADLOCK FALSE
