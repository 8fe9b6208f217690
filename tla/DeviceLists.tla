----------------------------- MODULE DeviceLists -----------------------------
(***************************************************************************)
(* The device lists of DiscoveryManager (src/Discovery/DiscoveryManager.m): *)
(* how service descriptions that providers find and lose become devices,    *)
(* which of them pass the capability filters, and what the delegate and the *)
(* device picker are told.                                                  *)
(*                                                                          *)
(* The manager is configured without a device store                         *)
(* ([DiscoveryManager sharedManagerWithDeviceStore:nil]), so a description   *)
(* at an unknown address always makes a new device.  All of it runs on the  *)
(* main thread; capability changes of a service reach the manager by a      *)
(* block that setCapabilities: dispatches to the main queue, possibly after *)
(* the device is gone.                                                      *)
(***************************************************************************)
EXTENDS Naturals, FiniteSets

CONSTANTS
    Devices,        \* ConnectableDevice objects (bound: how many can be referenced at a time)
    Addresses,      \* IP addresses
    ServiceIds,     \* "webOS TV", "DLNA", "DIAL", ...
    UUIDs,          \* service UUIDs
    Capabilities,
    Descriptions,   \* the service descriptions the providers can report
    InitialCaps,    \* the capabilities of a new service, by service id
    FilterChoices,  \* the filter arrays an application can set, each a set of capability sets
    None

\* complete: what addServiceDescription requires beyond a known class, i.e. a
\* DLNA service has its location XML and a Netcast service is a Netcast TV.
DescriptionType ==
    [address : Addresses, serviceId : ServiceIds, uuid : UUIDs, complete : BOOLEAN]

ServiceType == [uuid : UUIDs, caps : SUBSET Capabilities]

ASSUME ListsAssumption ==
    /\ Addresses # {}
    /\ None \notin Devices
    /\ None \notin ServiceType
    /\ Descriptions \subseteq DescriptionType
    /\ InitialCaps \in [ServiceIds -> SUBSET Capabilities]
    /\ FilterChoices \subseteq SUBSET SUBSET Capabilities
    /\ {} \in FilterChoices

VARIABLES
    address,      \* device.address, from its consolidated description
    services,     \* device.services, by service id
    allDevices,   \* _allDevices, by address
    compatible,   \* _compatibleDevices, by address
    filters,      \* _capabilityFilters
    hasPicker,    \* _currentPicker is not nil
    picker,       \* the picker's _devices, by address
    capsPending,  \* devices with a capabilitiesAdded block in the main queue
    view,         \* history: the devices the delegate has found and not lost
    told,         \* history: what the delegate was told in the last step
    ghosted       \* history: a capability change arrived for a device not listed

vars == <<address, services, allDevices, compatible, filters, hasPicker, picker,
          capsPending, view, told, ghosted>>

NoServices == [s \in ServiceIds |-> None]

Silence == [found |-> {}, lost |-> {}, updated |-> {}]

TypeOK ==
    /\ address \in [Devices -> Addresses]
    /\ services \in [Devices -> [ServiceIds -> ServiceType \union {None}]]
    /\ allDevices \in [Addresses -> Devices \union {None}]
    /\ compatible \in [Addresses -> Devices \union {None}]
    /\ filters \in FilterChoices
    /\ hasPicker \in BOOLEAN
    /\ picker \in [Addresses -> Devices \union {None}]
    /\ capsPending \subseteq Devices
    /\ view \subseteq Devices
    /\ told \in [found : SUBSET Devices, lost : SUBSET Devices, updated : SUBSET Devices]
    /\ ghosted \in BOOLEAN

Init ==
    /\ address = [d \in Devices |-> CHOOSE a \in Addresses : TRUE]   \* of no object yet
    /\ services = [d \in Devices |-> NoServices]
    /\ allDevices = [a \in Addresses |-> None]
    /\ compatible = [a \in Addresses |-> None]
    /\ filters = {}
    /\ hasPicker = FALSE
    /\ picker = [a \in Addresses |-> None]
    /\ capsPending = {}
    /\ view = {}
    /\ told = Silence
    /\ ghosted = FALSE

Entries(list) == {list[a] : a \in Addresses} \ {None}

Listed == Entries(allDevices)

\* Objects nobody refers to: the next allocation may be any of them.
Free == Devices \ (Listed \union Entries(compatible) \union Entries(picker)
                     \union capsPending \union view)

----------------------------------------------------------------------------
(* Compatibility *)

HasServices(sv) == \E s \in ServiceIds : sv[s] # None

CapabilitiesOf(sv) == UNION {sv[s].caps : s \in {x \in ServiceIds : sv[x] # None}}

\* deviceIsCompatible: for a device with services sv under the filters fs
DeviceIsCompatible(sv, fs) == fs = {} \/ \E f \in fs : f \subseteq CapabilitiesOf(sv)

----------------------------------------------------------------------------
(* Telling the delegate and the picker.  Each operator stands for the       *)
(* method of its name, for device d whose services are now sv and whose     *)
(* address is now a.                                                        *)

Tell(found, lost, updated) ==
    /\ told' = [found |-> found, lost |-> lost, updated |-> updated]
    /\ view' = (view \ lost) \union found

HandleDeviceLoss(d, a) ==
    /\ Tell({}, {d}, {})
    /\ picker' = IF hasPicker THEN [picker EXCEPT ![a] = None] ELSE picker

\* Mutant: only the delegate is told of a new device.
HandleDeviceAdd_NoPicker(d, a, sv) ==
    IF DeviceIsCompatible(sv, filters)
    THEN /\ compatible' = [compatible EXCEPT ![a] = d]
         /\ Tell({d}, {}, {})
         /\ UNCHANGED picker
    ELSE Tell({}, {}, {}) /\ UNCHANGED <<compatible, picker>>

HandleDeviceAdd(d, a, sv) ==
    IF DeviceIsCompatible(sv, filters)
    THEN /\ compatible' = [compatible EXCEPT ![a] = d]
         /\ Tell({d}, {}, {})
         /\ picker' = IF hasPicker THEN [picker EXCEPT ![a] = d] ELSE picker
    ELSE Tell({}, {}, {}) /\ UNCHANGED <<compatible, picker>>

\* Mutant: a device that stops passing the filters stays in the filtered list.
HandleDeviceUpdate_KeepsEntry(d, a, sv) ==
    IF DeviceIsCompatible(sv, filters)
    THEN IF compatible[a] # None
         THEN Tell({}, {}, {d}) /\ UNCHANGED <<compatible, picker>>
         ELSE HandleDeviceAdd(d, a, sv)
    ELSE HandleDeviceLoss(d, a) /\ UNCHANGED compatible

\* The entry at the device's address decides between update and add.
HandleDeviceUpdate(d, a, sv) ==
    IF DeviceIsCompatible(sv, filters)
    THEN IF compatible[a] # None
         THEN Tell({}, {}, {d}) /\ UNCHANGED <<compatible, picker>>
         ELSE HandleDeviceAdd(d, a, sv)
    ELSE compatible' = [compatible EXCEPT ![a] = None] /\ HandleDeviceLoss(d, a)

----------------------------------------------------------------------------
(* Discovery provider callbacks *)

\* Mutant: the service is filed under its address instead of its UUID.
AddServiceDescription_WrongKey(desc, sv) ==
    IF desc.complete /\ (sv[desc.serviceId] = None \/ sv[desc.serviceId].uuid # desc.uuid)
    THEN [sv EXCEPT ![desc.serviceId] = [uuid |-> desc.address, caps |-> InitialCaps[desc.serviceId]]]
    ELSE sv

\* addServiceDescription:toDevice: - a service of the same type and UUID only
\* gets the new description; one of the same type with another UUID is replaced.
AddServiceDescription(desc, sv) ==
    IF desc.complete /\ (sv[desc.serviceId] = None \/ sv[desc.serviceId].uuid # desc.uuid)
    THEN [sv EXCEPT ![desc.serviceId] = [uuid |-> desc.uuid, caps |-> InitialCaps[desc.serviceId]]]
    ELSE sv

\* discoveryProvider:didFindService: at an address that is not listed
DidFindNewDevice(desc) ==
    /\ allDevices[desc.address] = None
    /\ \E d \in Free :
         LET sv == AddServiceDescription(desc, NoServices) IN
         /\ services' = [services EXCEPT ![d] = sv]
         /\ address' = [address EXCEPT ![d] = desc.address]
         /\ IF HasServices(sv)
            THEN /\ allDevices' = [allDevices EXCEPT ![desc.address] = d]
                 /\ HandleDeviceAdd(d, desc.address, sv)
            ELSE Tell({}, {}, {}) /\ UNCHANGED <<allDevices, compatible, picker>>
    /\ UNCHANGED <<filters, hasPicker, capsPending, ghosted>>

\* ... and at the address of a listed device, which takes the service on
DidFindAnotherService(desc) ==
    LET d == allDevices[desc.address]
        sv == AddServiceDescription(desc, services[d])
    IN  /\ d # None
        /\ services' = [services EXCEPT ![d] = sv]
        /\ address' = IF desc.complete THEN [address EXCEPT ![d] = desc.address] ELSE address
        /\ HandleDeviceUpdate(d, address'[d], sv)
        /\ UNCHANGED <<allDevices, filters, hasPicker, capsPending, ghosted>>

\* discoveryProvider:didLoseService: - the service goes by its type, whatever
\* its UUID, and a device without services leaves the lists.
DidLoseService(desc) ==
    LET d == allDevices[desc.address]
        sv == [services[d] EXCEPT ![desc.serviceId] = None]
    IN  /\ d # None
        /\ services' = [services EXCEPT ![d] = sv]
        /\ IF HasServices(sv)
           THEN HandleDeviceUpdate(d, address[d], sv) /\ UNCHANGED allDevices
           ELSE /\ allDevices' = [allDevices EXCEPT ![desc.address] = None]
                /\ compatible' = [compatible EXCEPT ![desc.address] = None]
                /\ HandleDeviceLoss(d, address[d])
        /\ UNCHANGED <<address, filters, hasPicker, capsPending, ghosted>>

----------------------------------------------------------------------------
(* Capability changes *)

Recapped(d, s, caps) == [services EXCEPT ![d][s] = [services[d][s] EXCEPT !.caps = caps]]

\* -[DeviceService setCapabilities:], e.g. when a service connects or pairs:
\* the list changes now, the device and the manager hear of it later.
SetCapabilities(d, s, caps) ==
    /\ d \in Listed /\ services[d][s] # None
    /\ services' = Recapped(d, s, caps)
    /\ capsPending' = capsPending \union {d}
    /\ Tell({}, {}, {})
    /\ UNCHANGED <<address, allDevices, compatible, filters, hasPicker, picker, ghosted>>

\* The block runs: ConnectableDevice passes it to
\* -[DiscoveryManager connectableDevice:capabilitiesAdded:removed:].
CapabilitiesAdded(d) ==
    /\ d \in capsPending
    /\ capsPending' = capsPending \ {d}
    /\ HandleDeviceUpdate(d, address[d], services[d])
    /\ ghosted' = (ghosted \/ d \notin Listed)
    /\ UNCHANGED <<address, services, allDevices, filters, hasPicker>>

\* addCapability:, removeCapability: and their plurals call the delegate at once.
ChangeCapability(d, s, caps) ==
    /\ d \in Listed /\ services[d][s] # None
    /\ services' = Recapped(d, s, caps)
    /\ HandleDeviceUpdate(d, address[d], services'[d])
    /\ UNCHANGED <<address, allDevices, filters, hasPicker, capsPending, ghosted>>

----------------------------------------------------------------------------
(* The application and the network *)

\* Mutant: the old devices are dropped without telling the delegate.
SetCapabilityFilters_Silent(fs) ==
    LET passes(a) == allDevices[a] # None /\ DeviceIsCompatible(services[allDevices[a]], fs)
    IN  /\ filters' = fs
        /\ compatible' = [a \in Addresses |-> IF passes(a) THEN allDevices[a] ELSE None]
        /\ Tell({allDevices[a] : a \in {b \in Addresses : passes(b)}}, {}, {})
        /\ UNCHANGED <<address, services, allDevices, hasPicker, picker, capsPending, ghosted>>

\* setCapabilityFilters: - the delegate loses every device and finds the ones
\* that pass again; the picker is told nothing.
SetCapabilityFilters(fs) ==
    LET passes(a) == allDevices[a] # None /\ DeviceIsCompatible(services[allDevices[a]], fs)
    IN  /\ filters' = fs
        /\ compatible' = [a \in Addresses |-> IF passes(a) THEN allDevices[a] ELSE None]
        /\ Tell({allDevices[a] : a \in {b \in Addresses : passes(b)}}, Entries(compatible), {})
        /\ UNCHANGED <<address, services, allDevices, hasPicker, picker, capsPending, ghosted>>

\* devicePicker: the first call makes the picker and fills it.
DevicePicker ==
    /\ ~hasPicker
    /\ hasPicker' = TRUE
    /\ picker' = compatible
    /\ Tell({}, {}, {})
    /\ UNCHANGED <<address, services, allDevices, compatible, filters, capsPending, ghosted>>

\* purgeDeviceList, on a new network: every compatible device is lost, which
\* makes the picker if there was none, and both lists start afresh.
PurgeDeviceList ==
    LET lost == Entries(compatible) IN
    /\ Tell({}, lost, {})
    /\ hasPicker' = (hasPicker \/ lost # {})
    /\ picker' = [a \in Addresses |-> IF \E d \in lost : address[d] = a THEN None ELSE picker[a]]
    /\ allDevices' = [a \in Addresses |-> None]
    /\ compatible' = [a \in Addresses |-> None]
    /\ UNCHANGED <<address, services, filters, capsPending, ghosted>>

----------------------------------------------------------------------------
Next ==
    \/ \E desc \in Descriptions : DidFindNewDevice(desc)
    \/ \E desc \in Descriptions : DidFindAnotherService(desc)
    \/ \E desc \in Descriptions : DidLoseService(desc)
    \/ \E d \in Devices, s \in ServiceIds, caps \in SUBSET Capabilities : SetCapabilities(d, s, caps)
    \/ \E d \in Devices : CapabilitiesAdded(d)
    \/ \E d \in Devices, s \in ServiceIds, caps \in SUBSET Capabilities : ChangeCapability(d, s, caps)
    \/ \E fs \in FilterChoices : SetCapabilityFilters(fs)
    \/ DevicePicker
    \/ PurgeDeviceList

Spec == Init /\ [][Next]_vars

----------------------------------------------------------------------------
(* Properties *)

\* The filtered list is exactly the listed devices that pass the filters, at
\* their addresses, but for devices whose capability change is still in the
\* main queue - as long as no such change arrived for a device already dropped.
FilteredListExact ==
    ghosted \/ \A a \in Addresses :
        IF allDevices[a] = None THEN compatible[a] = None
        ELSE \/ allDevices[a] \in capsPending
             \/ compatible[a] = IF DeviceIsCompatible(services[allDevices[a]], filters)
                                THEN allDevices[a] ELSE None

\* Following didFindDevice and didLoseDevice, the delegate knows exactly the
\* devices of the filtered list, and it hears didUpdateDevice only of devices it
\* knows, under the same proviso.
DelegateViewExact ==
    ghosted \/ (view = Entries(compatible) /\ told.updated \subseteq view)

\* A listed device has a service: didFindService and didLoseService never
\* leave an empty device behind.
ListedHaveServices == \A d \in Listed : HasServices(services[d])

\* The picker shows every device of the filtered list.
PickerShowsCompatible == hasPicker => \A a \in Addresses :
                            compatible[a] # None => picker[a] = compatible[a]

\* The picker keeps a list of its own, from the manager's messages: whatever happens
\* but a change of the filters, which the picker is not told of, it goes on showing
\* the filtered list - late capability changes and purges included.
PickerFollows ==
    [][ PickerShowsCompatible /\ ~(\E fs \in FilterChoices : SetCapabilityFilters(fs))
          => PickerShowsCompatible' ]_vars
=============================================================================
