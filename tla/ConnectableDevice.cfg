SPECIFICATION Spec
CONSTANTS
    d1 = d1
    d2 = d2
    w1 = w1
    Http <- MCHttp
    WebOs <- MCWebOs
    Name <- MCName
    MaxCalls = 5
INVARIANTS
    TypeOK
     DisconnectHolds

    
CHECK_DEADLOCK FALSE
