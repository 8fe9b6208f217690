SPECIFICATION Spec
SYMMETRY MCSymmetry
CONSTANTS
    o1 = o1
    o2 = o2
    i1 = i1
    i2 = i2
    tv = tv
    webos = webos
    dlna = dlna
    None = None
    Objects <- MCObjects
    Ids <- MCIds
    TVs <- MCTVs
    Services <- MCServices
    TVOf <- MCTVOf
    Durations = {0, 1}
    DefaultDuration = 0
    MaxDay = 1
    MaxStores = 3
PROPERTY ConnectedIsKept
