SPECIFICATION ControlFairSpec
CONSTANTS
    ssdp = ssdp
    zeroconf = zeroconf
    home = home
    office = office
    Providers <- MCProviders
    SSIDs <- MCSSIDs
    MaxTimers = 4
CHECK_DEADLOCK FALSE
INVARIANTS ControlTypeOK ResumeIsPossible SearchingProvidersRun StopIsRespected
PROPERTIES OnlyNetworkChangeRevives PausedSearchGoesOn
