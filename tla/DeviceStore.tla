----------------------------- MODULE DeviceStore -----------------------------
(***************************************************************************)
(* DefaultConnectableDeviceStore (src/Devices/DefaultConnectableDeviceStore *)
(* .m) and its callers: the records of devices that were connected to, and  *)
(* how discovery, connections and the application read and change them, all *)
(* on the main thread.  The file is an instance of StoreFile: a store       *)
(* publishes the records, a block of the serial queue writes what is        *)
(* published at some later time, or fails, and the process may end at any   *)
(* point and start again from the file.  (DeviceStoreWriter shows how that  *)
(* comes about.)                                                            *)
(*                                                                          *)
(* A TV is what has an address; its services are found one by one and each  *)
(* has a UUID of its own.  ConnectableDevice makes up its id.               *)
(***************************************************************************)
EXTENDS Integers

CONSTANTS
    Objects,     \* ConnectableDevice objects (bound: how many are referenced at a time)
    Ids,         \* device ids (bound: how many are in use at a time)
    TVs,
    Services,    \* service UUIDs
    TVOf,        \* the TV a service runs on
    Durations,   \* the values an application gives maxStoreDuration, in days
    DefaultDuration,
    MaxDay,      \* bound on day
    MaxStores,   \* bound on the calls of -store
    None

ASSUME StoreAssumption ==
    /\ TVOf \in [Services -> TVs]
    /\ Durations \subseteq Nat /\ DefaultDuration \in Durations
    /\ MaxDay \in Nat /\ MaxStores \in Nat
    /\ None \notin Objects \cup Ids

VARIABLES
    storedDevices,   \* _storedDevices: the record of an id, or None
    activeDevices,   \* _activeDevices: the object of an id, or None
    maxDuration,     \* _maxStoreDuration
    object,          \* the objects: id, services, lastConnected and lastDetection
    listed,          \* _allDevices of DiscoveryManager, by TV
    day,             \* time, for lastDetection and the purge
    stores,          \* how often -store was called
    connected,       \* history: the ids that were ever connected
    deviceStore,     \* _deviceStore: the records that are published, or None
    json,            \* those the running block of the queue has serialised, or None
    disk             \* those in the file, None while it is empty

File == INSTANCE StoreFile

storeVars  == <<storedDevices, activeDevices, maxDuration>>
callerVars == <<object, listed, connected>>
fileVars   == <<deviceStore, json, disk>>
vars == <<storeVars, callerVars, fileVars, day, stores>>

\* lastConnected matters for being positive only.
RecordType == [services : SUBSET Services, lastConnected : BOOLEAN, lastDetection : Nat]

RecordsType == [Ids -> RecordType \cup {None}]

ObjectType ==
    [id : Ids \cup {None}, services : SUBSET Services, lastConnected : BOOLEAN,
     lastDetection : Nat]

NoRecords == [i \in Ids |-> None]
NoObject  == [id |-> None, services |-> {}, lastConnected |-> FALSE, lastDetection |-> 0]

TypeOK ==
    /\ storedDevices \in RecordsType
    /\ activeDevices \in [Ids -> Objects \cup {None}]
    /\ maxDuration \in Durations
    /\ object \in [Objects -> ObjectType]
    /\ listed \in [TVs -> Objects \cup {None}]
    /\ day \in Nat /\ stores \in Nat
    /\ connected \subseteq Ids
    /\ deviceStore \in RecordsType \cup {None}
    /\ json \in RecordsType \cup {None}
    /\ disk \in RecordsType \cup {None}

\* The first start: -load finds no file and makes an empty one.
Init ==
    /\ storedDevices = NoRecords
    /\ activeDevices = [i \in Ids |-> None]
    /\ maxDuration = DefaultDuration
    /\ object = [o \in Objects |-> NoObject]
    /\ listed = [t \in TVs |-> None]
    /\ day = 0 /\ stores = 0
    /\ connected = {}
    /\ File!FileInit

-----------------------------------------------------------------------------
(* Records.                                                                  *)

Entries(list) == {list[x] : x \in DOMAIN list} \ {None}

Listed == Entries(listed)

FreeObjects == Objects \ (Listed \cup Entries(activeDevices))

Holds(snapshot, i) == snapshot # None /\ snapshot[i] # None

\* ConnectableDevice makes up an id that nothing refers to.
FreeIds ==
    {i \in Ids : /\ storedDevices[i] = None /\ activeDevices[i] = None
                 /\ \A o \in Objects : object[o].id # i
                 /\ ~Holds(deviceStore, i) /\ ~Holds(disk, i) /\ ~Holds(json, i)}

\* deleteOldUnusedDevices
DeleteOldUnusedDevices(records, duration) ==
    [i \in Ids |->
        IF /\ records[i] # None
           /\ ~records[i].lastConnected
           /\ day - records[i].lastDetection > duration
        THEN None ELSE records[i]]

JsonRepresentationForDevice(device) ==
    [services |-> device.services, lastConnected |-> device.lastConnected,
     lastDetection |-> device.lastDetection]

\* Mutant: the record is serialised anew and forgets services not seen this time.
UpdatedRecord_Anew(record, device) == JsonRepresentationForDevice(device)

\* updateDevice: the services are added to those of the record.
UpdatedRecord(record, device) ==
    [JsonRepresentationForDevice(device) EXCEPT !.services = @ \cup record.services]

\* activeDeviceForUUID: by a service UUID
ActiveDevicesForUUID(u) == {o \in Entries(activeDevices) : u \in object[o].services}

\* storedDeviceForUUID: by a service UUID
StoredDevicesForUUID(u) ==
    {i \in Ids : storedDevices[i] # None /\ u \in storedDevices[i].services}

\* -store: the old devices are cleaned out and the rest is published.
Store(records) ==
    /\ stores < MaxStores
    /\ stores' = stores + 1
    /\ storedDevices' = DeleteOldUnusedDevices(records, maxDuration)
    /\ deviceStore' = storedDevices'
    /\ File!Publish

NoStore == UNCHANGED <<storedDevices, fileVars, stores>>

-----------------------------------------------------------------------------
(* The store's methods.                                                      *)

\* Mutant: a device that is not in the store is added by an update.
UpdateDevice_Adds(o, device) ==
    LET i == device.id IN
    /\ activeDevices' = [activeDevices EXCEPT ![i] = o]
    /\ Store([storedDevices EXCEPT ![i] =
                IF storedDevices[i] = None THEN JsonRepresentationForDevice(device)
                ELSE UpdatedRecord(storedDevices[i], device)])

\* updateDevice: for object o, which now is `device'; it returns at once for one
\* without services or without a record.
UpdateDevice(o, device) ==
    LET i == device.id IN
    IF device.services = {} \/ storedDevices[i] = None
    THEN UNCHANGED activeDevices /\ NoStore
    ELSE /\ activeDevices' = [activeDevices EXCEPT ![i] = o]
         /\ Store([storedDevices EXCEPT ![i] = UpdatedRecord(storedDevices[i], device)])

\* addDevice: returns at once for a device without services.
AddDevice(o) ==
    LET device == object[o]
        i == device.id
    IN IF device.services = {} \/ storedDevices[i] # None
       THEN UpdateDevice(o, device)
       ELSE /\ activeDevices' =
                 [activeDevices EXCEPT ![i] = IF activeDevices[i] = None THEN o ELSE @]
            /\ Store([storedDevices EXCEPT ![i] = JsonRepresentationForDevice(device)])

\* removeDevice: forgets the record, not the active object; it returns at once
\* for a device without services.
RemoveDevice(o) ==
    /\ object[o].id # None /\ object[o].services # {}
    /\ Store([storedDevices EXCEPT ![object[o].id] = None])
    /\ UNCHANGED <<activeDevices, maxDuration, object, listed, connected, day>>

RemoveAll ==
    /\ Store(NoRecords)
    /\ UNCHANGED <<activeDevices, maxDuration, object, listed, connected, day>>

\* setMaxStoreDuration: purges, but does not store.
SetMaxStoreDuration(duration) ==
    /\ maxDuration' = duration
    /\ storedDevices' = DeleteOldUnusedDevices(storedDevices, duration)
    /\ UNCHANGED <<activeDevices, callerVars, fileVars, day, stores>>

-----------------------------------------------------------------------------
(* The callers: discovery and connections.  An object that is not listed any *)
(* more works on for as long as an application holds it: it stays what it was *)
(* until another device takes its place among Objects.                       *)

\* deviceServiceConnectionSuccess: adds the device to the store, and sets its
\* lastConnected afterwards.
DeviceServiceConnectionSuccess(o) ==
    /\ object[o].id # None
    /\ AddDevice(o)
    /\ object' = [object EXCEPT ![o].lastConnected = TRUE]
    /\ connected' = connected \cup {object[o].id}
    /\ UNCHANGED <<maxDuration, listed, day>>

\* deviceService:capabilitiesAdded:removed:, which has the manager handle an update
\* of the device
CapabilitiesAdded(o) ==
    /\ object[o].id # None
    /\ UpdateDevice(o, object[o])
    /\ UNCHANGED <<maxDuration, object, listed, connected, day>>

\* serviceConfigUpdate:, for instance with a new pairing key, for the listed device
\* with this service
ServiceConfigUpdate(o) ==
    /\ o \in Listed
    /\ UpdateDevice(o, object[o])
    /\ UNCHANGED <<maxDuration, object, listed, connected, day>>

Seen(device, u) == [device EXCEPT !.services = @ \cup {u}, !.lastDetection = day]

\* didFindService: at the address of a listed device
DidFindAnotherService(u) ==
    LET o == listed[TVOf[u]]
        device == Seen(object[o], u)
    IN /\ o # None
       /\ object' = [object EXCEPT ![o] = device]
       /\ UpdateDevice(o, device)
       /\ UNCHANGED <<maxDuration, listed, connected, day>>

\* didFindService: at an address that is not listed.  deviceForId: knows an active
\* object, makes one from a record, or knows nothing; a new device is not stored.
DidFindActive(u) ==
    \E o \in ActiveDevicesForUUID(u) :
        /\ listed' = [listed EXCEPT ![TVOf[u]] = o]
        /\ object' = [object EXCEPT ![o] = Seen(object[o], u)]
        /\ UNCHANGED <<activeDevices, connected>>

DidFindStored(u) ==
    /\ ActiveDevicesForUUID(u) = {}
    /\ \E i \in StoredDevicesForUUID(u), o \in FreeObjects :
        /\ listed' = [listed EXCEPT ![TVOf[u]] = o]
        /\ object' = [object EXCEPT ![o] =
                [id |-> i, services |-> {u}, lastConnected |-> storedDevices[i].lastConnected,
                 lastDetection |-> day]]
        /\ activeDevices' =
                [activeDevices EXCEPT ![i] = IF activeDevices[i] = None THEN o ELSE @]
        /\ UNCHANGED connected

DidFindUnknown(u) ==
    /\ ActiveDevicesForUUID(u) = {} /\ StoredDevicesForUUID(u) = {}
    /\ \E i \in FreeIds, o \in FreeObjects :
        /\ listed' = [listed EXCEPT ![TVOf[u]] = o]
        /\ object' = [object EXCEPT ![o] = Seen([NoObject EXCEPT !.id = i], u)]
        /\ connected' = connected \ {i}
        /\ UNCHANGED activeDevices

DidFindNewDevice(u) ==
    /\ listed[TVOf[u]] = None
    /\ DidFindActive(u) \/ DidFindStored(u) \/ DidFindUnknown(u)
    /\ UNCHANGED <<maxDuration, day>> /\ NoStore

\* didLoseService: a device without services is not listed any more.
DidLoseService(u) ==
    LET o == listed[TVOf[u]]
        device == [object[o] EXCEPT !.services = @ \ {u}]
    IN /\ o # None
       /\ object' = [object EXCEPT ![o] = device]
       /\ IF device.services # {}
          THEN UpdateDevice(o, device) /\ UNCHANGED listed
          ELSE /\ listed' = [listed EXCEPT ![TVOf[u]] = None]
               /\ UNCHANGED activeDevices /\ NoStore
       /\ UNCHANGED <<maxDuration, connected, day>>

\* purgeDeviceList, on a new network
PurgeDeviceList ==
    /\ listed' = [t \in TVs |-> None]
    /\ UNCHANGED <<storeVars, object, connected, fileVars, day, stores>>

-----------------------------------------------------------------------------
(* Time and the process.                                                     *)

DayPasses ==
    /\ day < MaxDay
    /\ day' = day + 1
    /\ UNCHANGED <<storeVars, callerVars, fileVars, stores>>

\* The blocks of _deviceStoreQueue.
BlockRuns ==
    /\ File!Serialise \/ File!WriteFile \/ File!FailToWrite
    /\ UNCHANGED <<storeVars, callerVars, day, stores>>

\* Mutant: the records of the file are taken without looking for nil.
Restart_NoNilCheck ==
    /\ File!Reload
    /\ storedDevices' = disk
    /\ activeDevices' = [i \in Ids |-> None]
    /\ maxDuration' = DefaultDuration
    /\ object' = [o \in Objects |-> NoObject]
    /\ listed' = [t \in TVs |-> None]
    /\ UNCHANGED <<day, stores, connected>>

\* The process ends and -load reads the file, an empty one being a parsing error.
Restart ==
    /\ File!Reload
    /\ storedDevices' = IF disk = None THEN NoRecords ELSE disk
    /\ activeDevices' = [i \in Ids |-> None]
    /\ maxDuration' = DefaultDuration
    /\ object' = [o \in Objects |-> NoObject]
    /\ listed' = [t \in TVs |-> None]
    /\ UNCHANGED <<day, stores, connected>>

-----------------------------------------------------------------------------
Next ==
    \/ BlockRuns
    \/ \E o \in Objects : DeviceServiceConnectionSuccess(o)
    \/ \E o \in Objects : CapabilitiesAdded(o)
    \/ \E o \in Objects : ServiceConfigUpdate(o)
    \/ \E o \in Objects : RemoveDevice(o)
    \/ RemoveAll
    \/ \E duration \in Durations : SetMaxStoreDuration(duration)
    \/ \E u \in Services : DidFindNewDevice(u)
    \/ \E u \in Services : DidFindAnotherService(u)
    \/ \E u \in Services : DidLoseService(u)
    \/ PurgeDeviceList
    \/ DayPasses
    \/ Restart

Spec == Init /\ [][Next]_vars

-----------------------------------------------------------------------------
(* Properties.                                                               *)

\* An object of id i that is not listed any more, but still in use, writes the record.
WrittenByUnlisted(i) ==
    \E o \in Objects \ Listed :
        object[o].id = i /\ (DeviceServiceConnectionSuccess(o) \/ CapabilitiesAdded(o))

\* A record that stays keeps its services, those that were not seen this time too
\* (updateDevice), whichever of the objects of its id writes it; and the device that
\* is listed never takes the last detection back, although services come and go,
\* the file is reloaded and other objects write the record in between.  An object
\* that is not listed any more does take it back to the time it was last seen.
RecordsOnlyGrow ==
    [][ ~Restart =>
          \A i \in Ids : storedDevices[i] # None /\ storedDevices'[i] # None =>
              /\ storedDevices[i].services \subseteq storedDevices'[i].services
              /\ \/ storedDevices[i].lastDetection <= storedDevices'[i].lastDetection
                 \/ WrittenByUnlisted(i) ]_vars

\* DefaultConnectableDeviceStore.h: "Only ConnectableDevices that have been
\* connected to will be permanently stored".  No record in memory, published or
\* in the file is of a device that was only discovered.
OnlyConnectedStored ==
    \A i \in Ids :
        storedDevices[i] # None \/ Holds(deviceStore, i) \/ Holds(disk, i) => i \in connected

\* DefaultConnectableDeviceStore.h of maxStoreDuration: "ConnectableDevices that
\* have been connected to will never be removed from the device store unless
\* `remove:` or `removeAll` are called."  Violated: the record is made before
\* lastConnected is set.
ConnectedIsKept ==
    [][ \A i \in connected :
          storedDevices[i] # None /\ storedDevices'[i] = None =>
              \/ \E o \in Objects : object[o].id = i /\ RemoveDevice(o)
              \/ RemoveAll
              \/ Restart ]_vars
=============================================================================
