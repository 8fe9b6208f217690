SPECIFICATION Spec
CONSTANTS
    c1 = c1
    s1 = s1
    Commands <- MCCommands
    Subs <- MCSubs
    PairingOn = TRUE
    OnBackground = TRUE
    MaxCalls = 4
    MaxRegs = 2
    MaxQueue = 1
INVARIANTS
    TypeOK
    CommandAccounted
    QueueHoldsUnsent
    ConnectedIsTold
PROPERTIES
    SavedAreMadeAgain
    ImplementsChannel
CHECK_DEADLOCK FALSE
