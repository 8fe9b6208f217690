SPECIFICATION Spec
CONSTANTS
    av = av
    s1 = s1
    s2 = s2
    EventServices <- MCEventServices
    Subs <- MCSubs
    SessionIds <- MCSessionIds
    MaxCalls = 4
INVARIANTS TypeOK EventsFlow HeldIdsAreLive TableIsServed
PROPERTY GoneIsNoticed
CHECK_DEADLOCK FALSE
