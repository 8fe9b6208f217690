SPECIFICATION Spec
CONSTANTS
    av = av
    s1 = s1
    s2 = s2
    EventServices <- MCEventServices
    Subs <- MCSubs
    SessionIds <- MCSessionIds
    MaxCalls = 2
INVARIANT DisconnectUnsubscribes
CHECK_DEADLOCK FALSE
