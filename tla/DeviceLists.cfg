SPECIFICATION Spec
SYMMETRY MCSymmetry
CONSTANTS
    d1 = d1
    d2 = d2
    tv = tv
    box = box
    dlna = dlna
    webos = webos
    u1 = u1
    u2 = u2
    play = play
    None = None
    Devices <- MCDevices
    Addresses <- MCAddresses
    ServiceIds <- MCServiceIds
    UUIDs <- MCUUIDs
    Capabilities <- MCCapabilities
    Descriptions <- MCDescriptions
    InitialCaps <- MCInitialCaps
    FilterChoices <- MCFilterChoices
INVARIANTS TypeOK FilteredListExact DelegateViewExact
PROPERTIES PickerFollows
