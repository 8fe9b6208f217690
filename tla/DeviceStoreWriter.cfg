SPECIFICATION FairSpec
CONSTANTS
    None = None
    MaxClock = 9
    Second = 2
INVARIANTS TypeOK FlagWillClear WrittenWhenAtPeace
PROPERTIES StoreReachesFile ImplementsFile
