SPECIFICATION Spec
SYMMETRY SlotSymmetry
CONSTANTS
    tv = tv
    renderer = renderer
    dial = dial
    dlna = dlna
    cast = cast
    None = None
    UUIDs <- MCUUIDs
    Types <- MCTypes
    ServiceIds <- MCServiceIds
    Filters <- Shared
    Announces <- OneType
    Fitting <- OneType
    n1 = n1
    n2 = n2
    Slots <- MCSlots
    MaxQueue = 1
INVARIANTS TypeOK HelloIsLoading FoundIsTold
