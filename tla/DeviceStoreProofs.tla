-------------------------- MODULE DeviceStoreProofs --------------------------
(***************************************************************************)
(* The records of the device store, for any TVs, services, objects and ids: *)
(* only devices that were connected are stored, and a record never loses a  *)
(* service, nor its last detection by the device that is listed.            *)
(***************************************************************************)
EXTENDS DeviceStore, TLAPS

\* A record of one that was connected, of a time that has come.
RecordsSound(records) ==
    \A i \in Ids : records[i] # None =>
        i \in connected /\ records[i].lastDetection <= day

SnapshotsSound ==
    /\ RecordsSound(storedDevices)
    /\ deviceStore # None => RecordsSound(deviceStore)
    /\ json # None => RecordsSound(json)
    /\ disk # None => RecordsSound(disk)
    /\ \A o \in Objects : object[o].lastDetection <= day

\* The objects of _activeDevices are found under their ids.
ActiveById == \A i \in Ids : activeDevices[i] # None => object[activeDevices[i]].id = i

\* A listed device has an id, and services, all of the TV it is listed for.
ListedIsOfTV ==
    \A t \in TVs : listed[t] # None =>
        /\ object[listed[t]].id # None
        /\ object[listed[t]].services # {}
        /\ \A u \in object[listed[t]].services : TVOf[u] = t

\* Service u was seen under id i, by an object or in a record.
Under(i, u) ==
    \/ \E o \in Objects : object[o].id = i /\ u \in object[o].services
    \/ storedDevices[i] # None /\ u \in storedDevices[i].services
    \/ Holds(deviceStore, i) /\ u \in deviceStore[i].services
    \/ Holds(json, i) /\ u \in json[i].services
    \/ Holds(disk, i) /\ u \in disk[i].services

\* An id is of one TV.
IdIsOfOneTV ==
    \A i \in Ids : \A u, v \in Services : Under(i, u) /\ Under(i, v) => TVOf[u] = TVOf[v]

\* A listed device was detected no earlier than its record says.
ListedIsLatest ==
    \A t \in TVs : listed[t] # None =>
        LET device == object[listed[t]] IN
        storedDevices[device.id] # None =>
            storedDevices[device.id].lastDetection <= device.lastDetection

\* A listed device was detected no earlier than any other object of its id.
ListedSeenLast ==
    \A t \in TVs : listed[t] # None =>
        \A x \in Objects : object[x].id = object[listed[t]].id =>
            object[x].lastDetection <= object[listed[t]].lastDetection

\* The inductive invariant.
StoreInv ==
    /\ TypeOK
    /\ SnapshotsSound
    /\ ActiveById
    /\ ListedIsOfTV
    /\ IdIsOfOneTV
    /\ ListedIsLatest
    /\ ListedSeenLast

-----------------------------------------------------------------------------
(* What the records are made of.                                             *)

LEMMA RecordType1 ==
    ASSUME NEW device \in ObjectType
    PROVE  /\ JsonRepresentationForDevice(device) \in RecordType
           /\ JsonRepresentationForDevice(device).services = device.services
           /\ JsonRepresentationForDevice(device).lastDetection = device.lastDetection
  BY DEF JsonRepresentationForDevice, RecordType, ObjectType

LEMMA RecordType2 ==
    ASSUME NEW device \in ObjectType, NEW record \in RecordType
    PROVE  /\ UpdatedRecord(record, device) \in RecordType
           /\ UpdatedRecord(record, device).services = device.services \cup record.services
           /\ UpdatedRecord(record, device).lastDetection = device.lastDetection
  BY DEF UpdatedRecord, JsonRepresentationForDevice, RecordType, ObjectType

LEMMA SeenType ==
    ASSUME NEW device \in ObjectType, NEW u \in Services, day \in Nat
    PROVE  /\ Seen(device, u) \in ObjectType
           /\ Seen(device, u).id = device.id
           /\ Seen(device, u).services = device.services \cup {u}
           /\ Seen(device, u).lastDetection = day
  BY DEF Seen, ObjectType

LEMMA DeletedFacts ==
    ASSUME NEW records \in RecordsType, NEW duration
    PROVE  /\ DeleteOldUnusedDevices(records, duration) \in RecordsType
           /\ \A i \in Ids : DeleteOldUnusedDevices(records, duration)[i] \in {None, records[i]}
  BY DEF DeleteOldUnusedDevices, RecordsType

-----------------------------------------------------------------------------
(* What the methods of the store do to the records.                          *)

\* Records go, or that of id i becomes the record of this device.
RecordsMove(i, device) ==
    /\ storedDevices' \in RecordsType
    /\ \A k \in Ids : \/ storedDevices'[k] \in {None, storedDevices[k]}
                      \/ /\ k = i /\ storedDevices[k] # None
                         /\ storedDevices'[k] = UpdatedRecord(storedDevices[k], device)
                      \/ /\ k = i /\ storedDevices[k] = None
                         /\ storedDevices'[k] = JsonRepresentationForDevice(device)
    /\ deviceStore' \in {deviceStore, storedDevices'}
    /\ json' = json /\ disk' = disk
    /\ stores' \in Nat

LEMMA StoreFacts ==
    ASSUME TypeOK, NEW records \in RecordsType, Store(records)
    PROVE  /\ storedDevices' \in RecordsType
           /\ \A k \in Ids : storedDevices'[k] \in {None, records[k]}
           /\ deviceStore' = storedDevices' /\ json' = json /\ disk' = disk
           /\ stores' \in Nat
<1>1. storedDevices' = DeleteOldUnusedDevices(records, maxDuration)
  BY DEF Store
<1>2. json' = json /\ disk' = disk
  BY DEF Store, File!Publish
<1>3. deviceStore' = storedDevices' /\ stores' \in Nat
  BY DEF Store, TypeOK
<1> QED
  BY <1>1, <1>2, <1>3, DeletedFacts

LEMMA NoStoreMoves ==
    ASSUME TypeOK, NoStore, NEW i, NEW device
    PROVE  RecordsMove(i, device)
  BY DEF NoStore, fileVars, RecordsMove, TypeOK

LEMMA UpdateMoves ==
    ASSUME TypeOK, NEW o \in Objects, NEW device \in ObjectType, device.id # None,
           UpdateDevice(o, device)
    PROVE  /\ RecordsMove(device.id, device)
           /\ storedDevices[device.id] = None => storedDevices'[device.id] = None
           /\ activeDevices' \in {activeDevices, [activeDevices EXCEPT ![device.id] = o]}
<1> DEFINE i == device.id
<1>1. i \in Ids
  BY DEF ObjectType
<1>2. CASE device.services = {} \/ storedDevices[i] = None
  <2>1. NoStore /\ activeDevices' = activeDevices /\ storedDevices' = storedDevices
    BY <1>2 DEF UpdateDevice, NoStore
  <2> QED
    BY <2>1, NoStoreMoves
<1>3. CASE device.services # {} /\ storedDevices[i] # None
  <2> DEFINE records == [storedDevices EXCEPT ![i] = UpdatedRecord(storedDevices[i], device)]
  <2>1. Store(records) /\ activeDevices' = [activeDevices EXCEPT ![i] = o]
    BY <1>3 DEF UpdateDevice
  <2>2. storedDevices[i] \in RecordType /\ storedDevices \in RecordsType
    BY <1>1, <1>3 DEF TypeOK, RecordsType
  <2>3. UpdatedRecord(storedDevices[i], device) \in RecordType
    BY <2>2, RecordType2
  <2>4. records \in RecordsType
    BY <1>1, <2>2, <2>3 DEF RecordsType
  <2>5. \A k \in Ids : records[k] = IF k = i THEN UpdatedRecord(storedDevices[i], device)
                                    ELSE storedDevices[k]
    BY <2>2 DEF RecordsType
  <2> HIDE DEF records, i
  <2>6. /\ storedDevices' \in RecordsType
        /\ \A k \in Ids : storedDevices'[k] \in {None, records[k]}
        /\ deviceStore' = storedDevices' /\ json' = json /\ disk' = disk
        /\ stores' \in Nat
    BY <2>1, <2>4, StoreFacts
  <2>7. RecordsMove(i, device)
    BY <1>3, <2>5, <2>6 DEF RecordsMove
  <2> QED
    BY <1>3, <2>1, <2>7 DEF i
<1> QED
  BY <1>2, <1>3

LEMMA AddMoves ==
    ASSUME TypeOK, NEW o \in Objects, object[o].id # None, AddDevice(o)
    PROVE  /\ RecordsMove(object[o].id, object[o])
           /\ activeDevices' \in {activeDevices, [activeDevices EXCEPT ![object[o].id] = o]}
<1> DEFINE device == object[o]
           i == device.id
<1>1. device \in ObjectType /\ i \in Ids
  BY DEF TypeOK, ObjectType
<1>2. CASE device.services = {} \/ storedDevices[i] # None
  <2>1. UpdateDevice(o, device)
    BY <1>2 DEF AddDevice
  <2> QED
    BY <1>1, <2>1, UpdateMoves
<1>3. CASE device.services # {} /\ storedDevices[i] = None
  <2> DEFINE records == [storedDevices EXCEPT ![i] = JsonRepresentationForDevice(device)]
  <2>1. /\ Store(records)
        /\ activeDevices' = [activeDevices EXCEPT ![i] = IF activeDevices[i] = None THEN o ELSE @]
    BY <1>3 DEF AddDevice
  <2>2. storedDevices \in RecordsType
    BY DEF TypeOK
  <2>3. JsonRepresentationForDevice(device) \in RecordType
    BY <1>1, RecordType1
  <2>4. records \in RecordsType
    BY <1>1, <2>2, <2>3 DEF RecordsType
  <2>5. \A k \in Ids : records[k] = IF k = i THEN JsonRepresentationForDevice(device)
                                    ELSE storedDevices[k]
    BY <2>2 DEF RecordsType
  <2>6. activeDevices' \in {activeDevices, [activeDevices EXCEPT ![i] = o]}
    BY <1>1, <2>1 DEF TypeOK
  <2> HIDE DEF records, i, device
  <2>7. /\ storedDevices' \in RecordsType
        /\ \A k \in Ids : storedDevices'[k] \in {None, records[k]}
        /\ deviceStore' = storedDevices' /\ json' = json /\ disk' = disk
        /\ stores' \in Nat
    BY <2>1, <2>4, StoreFacts
  <2>8. RecordsMove(i, device)
    BY <1>3, <2>5, <2>7 DEF RecordsMove
  <2> QED
    BY <2>6, <2>8 DEF i, device
<1> QED
  BY <1>2, <1>3

-----------------------------------------------------------------------------
(* Ids and TVs.                                                              *)

\* At most one listed device has an id.
LEMMA ListedById ==
    ASSUME StoreInv, NEW s \in TVs, NEW t \in TVs, listed[s] # None, listed[t] # None,
           object[listed[s]].id = object[listed[t]].id
    PROVE  s = t
<1>1. listed[s] \in Objects /\ listed[t] \in Objects
  BY DEF StoreInv, TypeOK
<1>2. object[listed[s]] \in ObjectType /\ object[listed[t]] \in ObjectType
  BY <1>1 DEF StoreInv, TypeOK
<1>3. PICK u \in object[listed[s]].services : TVOf[u] = s
  BY DEF StoreInv, ListedIsOfTV
<1>4. PICK v \in object[listed[t]].services : TVOf[v] = t
  BY DEF StoreInv, ListedIsOfTV
<1>5. object[listed[s]].id \in Ids /\ u \in Services /\ v \in Services
  BY <1>2 DEF StoreInv, ListedIsOfTV, ObjectType
<1>6. Under(object[listed[s]].id, u) /\ Under(object[listed[s]].id, v)
  BY <1>1 DEF Under
<1> QED
  BY <1>3, <1>4, <1>5, <1>6 DEF StoreInv, IdIsOfOneTV

\* All services under the id of a listed device are of its TV.
LEMMA UnderListed ==
    ASSUME StoreInv, NEW t \in TVs, listed[t] # None, NEW u \in Services,
           Under(object[listed[t]].id, u)
    PROVE  TVOf[u] = t
<1>1. listed[t] \in Objects /\ object[listed[t]] \in ObjectType
  BY DEF StoreInv, TypeOK
<1>2. PICK v \in object[listed[t]].services : TVOf[v] = t
  BY DEF StoreInv, ListedIsOfTV
<1>3. object[listed[t]].id \in Ids /\ v \in Services
  BY <1>1 DEF StoreInv, ListedIsOfTV, ObjectType
<1>4. Under(object[listed[t]].id, v)
  BY <1>1 DEF Under
<1> QED
  BY <1>2, <1>3, <1>4 DEF StoreInv, IdIsOfOneTV

LEMMA NothingNewUnder ==
    ASSUME IdIsOfOneTV, \A i \in Ids : \A u \in Services : Under(i, u)' => Under(i, u)
    PROVE  IdIsOfOneTV'
  BY DEF IdIsOfOneTV

\* What is under an id afterwards was before, or is of an object.
LEMMA MoveUnder ==
    ASSUME TypeOK, NEW i \in Ids, NEW rec \in ObjectType, RecordsMove(i, rec),
           NEW k \in Ids, NEW u \in Services, Under(k, u)'
    PROVE  \/ \E o \in Objects : object'[o].id = k /\ u \in object'[o].services
           \/ Under(k, u)
           \/ k = i /\ u \in rec.services
<1>1. storedDevices'[k] # None /\ u \in storedDevices'[k].services
        => Under(k, u) \/ (k = i /\ u \in rec.services)
  <2> SUFFICES ASSUME storedDevices'[k] # None, u \in storedDevices'[k].services
               PROVE  Under(k, u) \/ (k = i /\ u \in rec.services)
    OBVIOUS
  <2>1. CASE storedDevices'[k] = storedDevices[k]
    BY <2>1 DEF Under
  <2>2. CASE /\ k = i /\ storedDevices[k] # None
             /\ storedDevices'[k] = UpdatedRecord(storedDevices[k], rec)
    <3>1. storedDevices[k] \in RecordType
      BY <2>2 DEF TypeOK, RecordsType
    <3>2. u \in rec.services \/ u \in storedDevices[k].services
      BY <2>2, <3>1, RecordType2
    <3> QED
      BY <2>2, <3>2 DEF Under
  <2>3. CASE k = i /\ storedDevices'[k] = JsonRepresentationForDevice(rec)
    BY <2>3, RecordType1
  <2> QED
    BY <2>1, <2>2, <2>3 DEF RecordsMove
<1>2. Holds(deviceStore', k) /\ u \in deviceStore'[k].services
        => Under(k, u) \/ (storedDevices'[k] # None /\ u \in storedDevices'[k].services)
  BY DEF RecordsMove, Holds, Under
<1>3. \/ \E o \in Objects : object'[o].id = k /\ u \in object'[o].services
      \/ storedDevices'[k] # None /\ u \in storedDevices'[k].services
      \/ Holds(deviceStore', k) /\ u \in deviceStore'[k].services
      \/ Under(k, u)
  BY DEF Under, RecordsMove, Holds
<1> QED
  BY <1>1, <1>2, <1>3

\* The snapshots stay sound when the record written is of a connected device.
LEMMA MoveSound ==
    ASSUME TypeOK, SnapshotsSound, NEW i \in Ids, NEW rec \in ObjectType, RecordsMove(i, rec),
           rec.lastDetection <= day, day' = day, connected \subseteq connected',
           storedDevices'[i] # None => i \in connected',
           \A o \in Objects : object'[o].lastDetection <= day
    PROVE  SnapshotsSound'
<1>1. RecordsSound(storedDevices)'
  <2> SUFFICES ASSUME NEW k \in Ids, storedDevices'[k] # None
               PROVE  k \in connected' /\ storedDevices'[k].lastDetection <= day
    BY DEF RecordsSound
  <2>1. CASE storedDevices'[k] = storedDevices[k]
    BY <2>1 DEF SnapshotsSound, RecordsSound
  <2>2. CASE /\ k = i /\ storedDevices[k] # None
             /\ storedDevices'[k] = UpdatedRecord(storedDevices[k], rec)
    <3>1. storedDevices[k] \in RecordType
      BY <2>2 DEF TypeOK, RecordsType
    <3> QED
      BY <2>2, <3>1, RecordType2
  <2>3. CASE k = i /\ storedDevices'[k] = JsonRepresentationForDevice(rec)
    BY <2>3, RecordType1
  <2> QED
    BY <2>1, <2>2, <2>3 DEF RecordsMove
<1>2. (deviceStore # None => RecordsSound(deviceStore))'
  BY <1>1 DEF RecordsMove, SnapshotsSound, RecordsSound
<1>3. (json # None => RecordsSound(json))' /\ (disk # None => RecordsSound(disk))'
  BY DEF RecordsMove, SnapshotsSound, RecordsSound
<1> QED
  BY <1>1, <1>2, <1>3 DEF SnapshotsSound

-----------------------------------------------------------------------------
(* The steps.                                                                *)

\* A listed object o becomes `device', its record that of `rec', and it stays
\* listed if it has services.
ListedMove(t, o, device, rec) ==
    /\ o = listed[t]
    /\ object' = [object EXCEPT ![o] = device]
    /\ device.id = object[o].id
    /\ object[o].lastDetection <= device.lastDetection /\ device.lastDetection <= day
    /\ \A u \in device.services : TVOf[u] = t
    /\ RecordsMove(device.id, rec)
    /\ \A u \in rec.services : TVOf[u] = t
    /\ rec.lastDetection = device.lastDetection
    /\ activeDevices' \in {activeDevices, [activeDevices EXCEPT ![device.id] = o]}
    /\ \/ listed' = listed /\ device.services # {}
       \/ listed' = [listed EXCEPT ![t] = None]
    /\ connected \subseteq connected' /\ connected' \subseteq Ids
    /\ storedDevices'[device.id] # None => device.id \in connected'
    /\ maxDuration' = maxDuration /\ day' = day

ListedMoves ==
    \E t \in TVs, o \in Objects, device \in ObjectType, rec \in ObjectType :
        ListedMove(t, o, device, rec)

LEMMA ListedObjectStep ==
    ASSUME StoreInv, NEW t \in TVs, NEW o \in Objects,
           NEW device \in ObjectType, NEW rec \in ObjectType,
           ListedMove(t, o, device, rec)
    PROVE  StoreInv'
<1> USE DEF ListedMove
<1> USE DEF StoreInv
<1> DEFINE i == object[o].id
<1>0. o # None /\ listed[t] # None
  BY StoreAssumption
<1>1. i \in Ids /\ object[o] \in ObjectType
  BY <1>0 DEF ListedIsOfTV, TypeOK, ObjectType
<1>2. \A x \in Objects : object'[x] = IF x = o THEN device ELSE object[x]
  BY DEF TypeOK
<1>3. \A x \in TVs : listed'[x] # None => listed'[x] = listed[x] /\ (x = t => device.services # {})
  BY DEF TypeOK
<1>4. \A x \in TVs : x # t /\ listed[x] # None => listed[x] # o
  <2> SUFFICES ASSUME NEW x \in TVs, x # t, listed[x] = o PROVE FALSE
    BY <1>0
  <2> QED
    BY <1>0, ListedById
<1> HIDE DEF i
<1>5. TypeOK'
  <2>1. storedDevices' \in RecordsType /\ stores' \in Nat
    BY DEF RecordsMove
  <2>2. deviceStore' \in RecordsType \cup {None} /\ json' \in RecordsType \cup {None}
          /\ disk' \in RecordsType \cup {None}
    BY DEF RecordsMove, TypeOK
  <2>3. activeDevices' \in [Ids -> Objects \cup {None}]
    BY <1>1 DEF TypeOK, i
  <2>4. object' \in [Objects -> ObjectType] /\ listed' \in [TVs -> Objects \cup {None}]
    BY DEF TypeOK
  <2> QED
    BY <2>1, <2>2, <2>3, <2>4 DEF TypeOK
<1>6. SnapshotsSound'
  <2>1. \A x \in Objects : object'[x].lastDetection <= day
    BY <1>2 DEF SnapshotsSound
  <2> QED
    BY <1>1, <2>1, MoveSound DEF i
<1>7. ActiveById'
  <2> SUFFICES ASSUME NEW k \in Ids, activeDevices'[k] # None
               PROVE  object'[activeDevices'[k]].id = k
    BY DEF ActiveById
  <2>1. CASE activeDevices'[k] = activeDevices[k]
    <3>1. activeDevices[k] \in Objects /\ object[activeDevices[k]].id = k
      BY <2>1 DEF ActiveById, TypeOK
    <3> QED
      BY <1>2, <2>1, <3>1
  <2>2. CASE k = i /\ activeDevices'[k] = o
    BY <1>2, <2>2 DEF i
  <2> QED
    BY <1>1, <2>1, <2>2 DEF i, TypeOK
<1>8. ListedIsOfTV'
  <2> SUFFICES ASSUME NEW x \in TVs, listed'[x] # None
               PROVE  /\ object'[listed'[x]].id # None
                      /\ object'[listed'[x]].services # {}
                      /\ \A u \in object'[listed'[x]].services : TVOf[u] = x
    BY DEF ListedIsOfTV
  <2>1. listed'[x] = listed[x] /\ listed[x] \in Objects
    BY <1>3 DEF TypeOK
  <2>2. CASE x = t
    BY <1>0, <1>1, <1>2, <1>3, <2>1, <2>2 DEF i, ListedIsOfTV
  <2>3. CASE x # t
    <3>1. object'[listed'[x]] = object[listed[x]]
      BY <1>2, <1>4, <2>1, <2>3
    <3> QED
      BY <2>1, <3>1 DEF ListedIsOfTV
  <2> QED
    BY <2>2, <2>3
<1>9. IdIsOfOneTV'
  <2>1. ASSUME NEW k \in Ids, NEW u \in Services, Under(k, u)'
        PROVE  Under(k, u) \/ (k = i /\ TVOf[u] = t)
    <3>1. \/ \E x \in Objects : object'[x].id = k /\ u \in object'[x].services
          \/ Under(k, u)
          \/ k = i /\ u \in rec.services
      BY <1>1, <2>1, MoveUnder DEF i
    <3>2. ASSUME NEW x \in Objects, object'[x].id = k, u \in object'[x].services
          PROVE  Under(k, u) \/ (k = i /\ TVOf[u] = t)
      <4>1. CASE x = o
        BY <1>2, <3>2, <4>1 DEF i
      <4>2. CASE x # o
        BY <1>2, <3>2, <4>2 DEF Under
      <4> QED
        BY <4>1, <4>2
    <3> QED
      BY <3>1, <3>2
  <2>2. ASSUME NEW u \in Services, Under(i, u) PROVE TVOf[u] = t
    BY <1>0, <2>2, UnderListed DEF i
  <2> SUFFICES ASSUME NEW k \in Ids, NEW u \in Services, NEW v \in Services,
                      Under(k, u)', Under(k, v)'
               PROVE  TVOf[u] = TVOf[v]
    BY DEF IdIsOfOneTV
  <2>3. Under(k, u) \/ (k = i /\ TVOf[u] = t)
    BY <2>1
  <2>4. Under(k, v) \/ (k = i /\ TVOf[v] = t)
    BY <2>1
  <2> QED
    BY <2>2, <2>3, <2>4 DEF IdIsOfOneTV
<1>10. ListedIsLatest'
  <2> SUFFICES ASSUME NEW x \in TVs, listed'[x] # None,
                      storedDevices'[object'[listed'[x]].id] # None
               PROVE  storedDevices'[object'[listed'[x]].id].lastDetection
                        <= object'[listed'[x]].lastDetection
    BY DEF ListedIsLatest
  <2>1. listed'[x] = listed[x] /\ listed[x] \in Objects /\ listed[x] # None
    BY <1>3, StoreAssumption DEF TypeOK
  <2>2. CASE x = t
    <3>1. object'[listed'[x]] = device /\ device.id = i
      BY <1>2, <2>1, <2>2 DEF i
    <3>2. CASE storedDevices'[i] = storedDevices[i]
      <4>1. storedDevices[i].lastDetection <= object[o].lastDetection
        BY <1>0, <2>2, <3>1, <3>2 DEF ListedIsLatest, i
      <4>2. storedDevices[i].lastDetection \in Nat
        BY <1>1, <3>1, <3>2 DEF TypeOK, RecordsType, RecordType
      <4>3. object[o].lastDetection \in Nat /\ device.lastDetection \in Nat
        BY <1>1 DEF ObjectType
      <4> QED
        BY <3>1, <3>2, <4>1, <4>2, <4>3
    <3>3. CASE storedDevices[i] # None /\ storedDevices'[i] = UpdatedRecord(storedDevices[i], rec)
      <4>1. storedDevices[i] \in RecordType
        BY <1>1, <3>3 DEF TypeOK, RecordsType
      <4>2. storedDevices'[i].lastDetection = device.lastDetection
        BY <3>3, <4>1, RecordType2
      <4> QED
        BY <3>1, <4>2 DEF ObjectType
    <3>4. CASE storedDevices'[i] = JsonRepresentationForDevice(rec)
      <4>1. storedDevices'[i].lastDetection = device.lastDetection
        BY <3>4, RecordType1
      <4> QED
        BY <3>1, <4>1 DEF ObjectType
    <3> QED
      BY <1>1, <3>1, <3>2, <3>3, <3>4 DEF RecordsMove, i
  <2>3. CASE x # t
    <3>1. object'[listed'[x]] = object[listed[x]]
      BY <1>2, <1>4, <2>1, <2>3
    <3>2. object[listed[x]].id # i
      BY <1>0, <2>1, <2>3, ListedById DEF i
    <3>3. object[listed[x]].id \in Ids
      BY <2>1 DEF ListedIsOfTV, TypeOK, ObjectType
    <3>4. storedDevices'[object[listed[x]].id] = storedDevices[object[listed[x]].id]
      BY <3>1, <3>2, <3>3 DEF RecordsMove, i
    <3> QED
      BY <2>1, <3>1, <3>4 DEF ListedIsLatest
  <2> QED
    BY <2>2, <2>3
<1>11. ListedSeenLast'
  <2> SUFFICES ASSUME NEW x \in TVs, listed'[x] # None,
                      NEW y \in Objects, object'[y].id = object'[listed'[x]].id
               PROVE  object'[y].lastDetection <= object'[listed'[x]].lastDetection
    BY DEF ListedSeenLast
  <2>1. listed'[x] = listed[x] /\ listed[x] \in Objects /\ listed[x] # None
    BY <1>3, StoreAssumption DEF TypeOK
  <2>2. CASE x = t
    <3>1. object'[listed'[x]] = device
      BY <1>2, <2>1, <2>2
    <3>2. CASE y = o
      BY <1>2, <3>1, <3>2 DEF ObjectType
    <3>3. CASE y # o
      <4>1. object'[y] = object[y] /\ object[y].id = object[o].id
        BY <1>2, <3>1, <3>3
      <4>2. object[y].lastDetection <= object[o].lastDetection
        BY <1>0, <4>1 DEF ListedSeenLast
      <4>3. /\ object[y].lastDetection \in Nat /\ object[o].lastDetection \in Nat
            /\ device.lastDetection \in Nat
        BY DEF TypeOK, ObjectType
      <4> QED
        BY <3>1, <4>1, <4>2, <4>3
    <3> QED
      BY <3>2, <3>3
  <2>3. CASE x # t
    <3>1. object'[listed'[x]] = object[listed[x]]
      BY <1>2, <1>4, <2>1, <2>3
    <3>2. object[listed[x]].id # i
      BY <1>0, <2>1, <2>3, ListedById DEF i
    <3>3. y # o
      BY <1>2, <3>1, <3>2 DEF i
    <3>4. object'[y] = object[y]
      BY <1>2, <3>3
    <3> QED
      BY <2>1, <3>1, <3>4 DEF ListedSeenLast
  <2> QED
    BY <2>2, <2>3
<1> QED
  BY <1>5, <1>6, <1>7, <1>8, <1>9, <1>10, <1>11

\* What serviceConfigUpdate, didFindService and didLoseService need to know of a listed object.
LEMMA ListedFacts ==
    ASSUME StoreInv, NEW t \in TVs, listed[t] # None
    PROVE  /\ listed[t] \in Objects
           /\ object[listed[t]] \in ObjectType
           /\ object[listed[t]].id \in Ids /\ object[listed[t]].id # None
           /\ object[listed[t]].lastDetection \in Nat
           /\ object[listed[t]].lastDetection <= day
           /\ \A u \in object[listed[t]].services : TVOf[u] = t
           /\ object[listed[t]].services # {}
<1>1. listed[t] \in Objects /\ object[listed[t]] \in ObjectType
  BY DEF StoreInv, TypeOK
<1> QED
  BY <1>1 DEF StoreInv, ListedIsOfTV, SnapshotsSound, ObjectType

LEMMA ListedAt ==
    ASSUME StoreInv, NEW o \in Listed
    PROVE  \E t \in TVs : listed[t] = o /\ listed[t] # None
  BY DEF Listed, Entries, StoreInv, TypeOK

\* The record that an update leaves was there before.
LEMMA UpdatedIsConnected ==
    ASSUME StoreInv, NEW i \in Ids, NEW rec, RecordsMove(i, rec),
           storedDevices[i] = None => storedDevices'[i] = None, storedDevices'[i] # None
    PROVE  i \in connected
  BY DEF StoreInv, SnapshotsSound, RecordsSound

\* An object o, listed or not, writes its record and is otherwise the same.
HeldMove(o, device) ==
    /\ object[o].id \in Ids
    /\ object' = [object EXCEPT ![o] = device]
    /\ device.id = object[o].id /\ device.services = object[o].services
    /\ device.lastDetection = object[o].lastDetection
    /\ RecordsMove(object[o].id, object[o])
    /\ activeDevices' \in {activeDevices, [activeDevices EXCEPT ![object[o].id] = o]}
    /\ listed' = listed
    /\ connected \subseteq connected' /\ connected' \subseteq Ids
    /\ storedDevices'[object[o].id] # None => object[o].id \in connected'
    /\ maxDuration' = maxDuration /\ day' = day

HeldMoves(o) == \E device \in ObjectType : HeldMove(o, device)

LEMMA HeldStep ==
    ASSUME StoreInv, NEW o \in Objects, HeldMoves(o)
    PROVE  StoreInv'
<1> USE DEF StoreInv
<1> DEFINE i == object[o].id
<1>0. PICK device \in ObjectType : HeldMove(o, device)
  BY DEF HeldMoves
<1> USE <1>0 DEF HeldMove
<1>1. i \in Ids /\ object[o] \in ObjectType
  BY DEF TypeOK
<1>2. \A x \in Objects : object'[x] = IF x = o THEN device ELSE object[x]
  BY DEF TypeOK
<1>3. \A x \in Objects : /\ object'[x].id = object[x].id
                         /\ object'[x].services = object[x].services
                         /\ object'[x].lastDetection = object[x].lastDetection
  BY <1>2
<1> HIDE DEF i
<1>5. TypeOK'
  <2>1. storedDevices' \in RecordsType /\ stores' \in Nat
    BY DEF RecordsMove
  <2>2. deviceStore' \in RecordsType \cup {None} /\ json' \in RecordsType \cup {None}
          /\ disk' \in RecordsType \cup {None}
    BY DEF RecordsMove, TypeOK
  <2>3. activeDevices' \in [Ids -> Objects \cup {None}]
    BY <1>1 DEF TypeOK, i
  <2>4. object' \in [Objects -> ObjectType]
    BY DEF TypeOK
  <2> QED
    BY <2>1, <2>2, <2>3, <2>4 DEF TypeOK
<1>6. SnapshotsSound'
  <2>1. \A x \in Objects : object'[x].lastDetection <= day
    BY <1>3 DEF SnapshotsSound
  <2>2. object[o].lastDetection <= day
    BY DEF SnapshotsSound
  <2> QED
    BY <1>1, <2>1, <2>2, MoveSound DEF i
<1>7. ActiveById'
  <2> SUFFICES ASSUME NEW k \in Ids, activeDevices'[k] # None
               PROVE  object'[activeDevices'[k]].id = k
    BY DEF ActiveById
  <2>1. CASE activeDevices'[k] = activeDevices[k]
    <3>1. activeDevices[k] \in Objects /\ object[activeDevices[k]].id = k
      BY <2>1 DEF ActiveById, TypeOK
    <3> QED
      BY <1>3, <2>1, <3>1
  <2>2. CASE k = i /\ activeDevices'[k] = o
    BY <1>3, <2>2 DEF i
  <2> QED
    BY <1>1, <2>1, <2>2 DEF i, TypeOK
<1>8. \A x \in TVs : listed[x] # None => listed[x] \in Objects
  BY DEF TypeOK
<1>9. ListedIsOfTV'
  BY <1>3, <1>8 DEF ListedIsOfTV
<1>10. IdIsOfOneTV'
  <2>1. ASSUME NEW k \in Ids, NEW u \in Services, Under(k, u)' PROVE Under(k, u)
    <3>1. \/ \E x \in Objects : object'[x].id = k /\ u \in object'[x].services
          \/ Under(k, u)
          \/ k = i /\ u \in object[o].services
      BY <1>1, <2>1, MoveUnder DEF i
    <3>2. ASSUME NEW x \in Objects, object'[x].id = k, u \in object'[x].services
          PROVE  Under(k, u)
      BY <1>3, <3>2 DEF Under
    <3>3. k = i /\ u \in object[o].services => Under(k, u)
      BY DEF Under, i
    <3> QED
      BY <3>1, <3>2, <3>3
  <2> QED
    BY <2>1, NothingNewUnder
<1>11. ListedIsLatest'
  <2> SUFFICES ASSUME NEW x \in TVs, listed[x] # None,
                      storedDevices'[object[listed[x]].id] # None
               PROVE  storedDevices'[object[listed[x]].id].lastDetection
                        <= object[listed[x]].lastDetection
    BY <1>3, <1>8 DEF ListedIsLatest
  <2> DEFINE k == object[listed[x]].id
  <2>1. k \in Ids
    BY ListedFacts
  <2> HIDE DEF k
  <2>2. CASE storedDevices'[k] = storedDevices[k]
    BY <2>2 DEF ListedIsLatest, k
  <2>3. CASE k = i /\ storedDevices[k] # None /\ storedDevices'[k] = UpdatedRecord(storedDevices[k], object[o])
    <3>1. storedDevices[k] \in RecordType
      BY <2>1, <2>3 DEF TypeOK, RecordsType
    <3>2. storedDevices'[k].lastDetection = object[o].lastDetection
      BY <1>1, <2>3, <3>1, RecordType2
    <3> QED
      BY <2>3, <3>2 DEF ListedSeenLast, i, k
  <2>4. CASE k = i /\ storedDevices'[k] = JsonRepresentationForDevice(object[o])
    <3>1. storedDevices'[k].lastDetection = object[o].lastDetection
      BY <1>1, <2>4, RecordType1
    <3> QED
      BY <2>4, <3>1 DEF ListedSeenLast, i, k
  <2>5. storedDevices'[k] # None
    BY DEF k
  <2> QED
    BY <2>1, <2>2, <2>3, <2>4, <2>5 DEF RecordsMove, i, k
<1>12. ListedSeenLast'
  BY <1>3, <1>8 DEF ListedSeenLast
<1> QED
  BY <1>5, <1>6, <1>7, <1>9, <1>10, <1>11, <1>12

LEMMA ConnectionSuccessStep ==
    ASSUME StoreInv, NEW o \in Objects, DeviceServiceConnectionSuccess(o)
    PROVE  HeldMoves(o)
<1> DEFINE device == [object[o] EXCEPT !.lastConnected = TRUE]
<1>1. object[o] \in ObjectType /\ object[o].id # None
  BY DEF DeviceServiceConnectionSuccess, StoreInv, TypeOK
<1>2. object[o].id \in Ids
  BY <1>1 DEF ObjectType
<1>3. /\ device \in ObjectType /\ device.id = object[o].id /\ device.services = object[o].services
      /\ device.lastDetection = object[o].lastDetection
  BY <1>1 DEF ObjectType
<1>4. /\ RecordsMove(object[o].id, object[o])
      /\ activeDevices' \in {activeDevices, [activeDevices EXCEPT ![object[o].id] = o]}
  BY <1>1, AddMoves DEF DeviceServiceConnectionSuccess, StoreInv
<1>5. object' = [object EXCEPT ![o] = device]
  BY DEF DeviceServiceConnectionSuccess
<1>6. /\ connected' = connected \cup {object[o].id}
      /\ UNCHANGED <<maxDuration, listed, day>>
  BY DEF DeviceServiceConnectionSuccess
<1>7. connected \subseteq connected' /\ connected' \subseteq Ids /\ object[o].id \in connected'
  BY <1>2, <1>6 DEF StoreInv, TypeOK
<1> HIDE DEF device
<1>8. HeldMove(o, device)
  BY <1>2, <1>3, <1>4, <1>5, <1>6, <1>7 DEF HeldMove
<1> QED
  BY <1>3, <1>8 DEF HeldMoves

\* capabilitiesAdded and serviceConfigUpdate
LEMMA HeldUpdateStep ==
    ASSUME StoreInv, NEW o \in Objects, object[o].id # None, UpdateDevice(o, object[o]),
           UNCHANGED <<maxDuration, object, listed, connected, day>>
    PROVE  HeldMoves(o)
<1>1. object[o] \in ObjectType
  BY DEF StoreInv, TypeOK
<1>2. object[o].id \in Ids
  BY <1>1 DEF ObjectType
<1>3. /\ RecordsMove(object[o].id, object[o])
      /\ storedDevices[object[o].id] = None => storedDevices'[object[o].id] = None
      /\ activeDevices' \in {activeDevices, [activeDevices EXCEPT ![object[o].id] = o]}
  BY <1>1, UpdateMoves DEF StoreInv
<1>4. object' = [object EXCEPT ![o] = object[o]]
  BY DEF StoreInv, TypeOK
<1>5. storedDevices'[object[o].id] # None => object[o].id \in connected'
  BY <1>2, <1>3, UpdatedIsConnected
<1>6. connected \subseteq connected' /\ connected' \subseteq Ids
  BY DEF StoreInv, TypeOK
<1>7. HeldMove(o, object[o])
  BY <1>2, <1>3, <1>4, <1>5, <1>6 DEF HeldMove
<1> QED
  BY <1>1, <1>7 DEF HeldMoves

LEMMA CapabilitiesStep ==
    ASSUME StoreInv, NEW o \in Objects, CapabilitiesAdded(o)
    PROVE  HeldMoves(o)
  BY HeldUpdateStep DEF CapabilitiesAdded

LEMMA ConfigUpdateStep ==
    ASSUME StoreInv, NEW o \in Objects, ServiceConfigUpdate(o)
    PROVE  HeldMoves(o) /\ o \in Listed
<1>1. PICK t \in TVs : listed[t] = o /\ listed[t] # None
  BY ListedAt DEF ServiceConfigUpdate
<1>2. object[o].id # None
  BY <1>1, ListedFacts
<1> QED
  BY <1>2, HeldUpdateStep DEF ServiceConfigUpdate

LEMMA FindAnotherStep ==
    ASSUME StoreInv, NEW u \in Services, DidFindAnotherService(u)
    PROVE  ListedMoves
<1> DEFINE t == TVOf[u]
           o == listed[t]
           device == Seen(object[o], u)
<1>1. t \in TVs /\ o # None
  BY StoreAssumption DEF DidFindAnotherService
<1>2. /\ o \in Objects /\ object[o] \in ObjectType /\ object[o].id \in Ids /\ object[o].id # None
      /\ object[o].lastDetection \in Nat /\ object[o].lastDetection <= day
      /\ \A v \in object[o].services : TVOf[v] = t
  BY <1>1, ListedFacts
<1>3. /\ device \in ObjectType /\ device.id = object[o].id
      /\ device.services = object[o].services \cup {u}
      /\ device.lastDetection = day /\ day \in Nat
  BY <1>2, SeenType DEF StoreInv, TypeOK
<1>4. /\ object' = [object EXCEPT ![o] = device] /\ UpdateDevice(o, device)
      /\ UNCHANGED <<maxDuration, listed, connected, day>>
  BY DEF DidFindAnotherService
<1>5. \A v \in device.services : TVOf[v] = t
  BY <1>2, <1>3
<1> HIDE DEF device, o, t
<1>6. /\ RecordsMove(device.id, device)
      /\ storedDevices[device.id] = None => storedDevices'[device.id] = None
      /\ activeDevices' \in {activeDevices, [activeDevices EXCEPT ![device.id] = o]}
  BY <1>2, <1>3, <1>4, UpdateMoves DEF StoreInv
<1>7. storedDevices'[device.id] # None => device.id \in connected'
  BY <1>2, <1>3, <1>4, <1>6, UpdatedIsConnected
<1>8. connected \subseteq connected' /\ connected' \subseteq Ids /\ device.services # {}
  BY <1>3, <1>4 DEF StoreInv, TypeOK
<1>9. object[o].lastDetection <= device.lastDetection /\ device.lastDetection <= day
  BY <1>2, <1>3
<1>10. o = listed[t]
  BY DEF o
<1>11. ListedMove(t, o, device, device)
  BY <1>3, <1>4, <1>5, <1>6, <1>7, <1>8, <1>9, <1>10 DEF ListedMove
<1> QED
  BY <1>1, <1>2, <1>3, <1>11 DEF ListedMoves

LEMMA LoseStep ==
    ASSUME StoreInv, NEW u \in Services, DidLoseService(u)
    PROVE  ListedMoves
<1> DEFINE t == TVOf[u]
           o == listed[t]
           device == [object[o] EXCEPT !.services = @ \ {u}]
<1>1. t \in TVs /\ o # None
  BY StoreAssumption DEF DidLoseService
<1>2. /\ o \in Objects /\ object[o] \in ObjectType /\ object[o].id \in Ids /\ object[o].id # None
      /\ object[o].lastDetection \in Nat /\ object[o].lastDetection <= day
      /\ \A v \in object[o].services : TVOf[v] = t
  BY <1>1, ListedFacts
<1>3. /\ device \in ObjectType /\ device.id = object[o].id
      /\ device.services = object[o].services \ {u}
      /\ device.lastDetection = object[o].lastDetection
  BY <1>2 DEF ObjectType
<1>4. /\ object' = [object EXCEPT ![o] = device]
      /\ UNCHANGED <<maxDuration, connected, day>>
      /\ \/ device.services # {} /\ UpdateDevice(o, device) /\ listed' = listed
         \/ NoStore /\ activeDevices' = activeDevices /\ listed' = [listed EXCEPT ![t] = None]
  BY DEF DidLoseService
<1>5. \A v \in device.services : TVOf[v] = t
  BY <1>2, <1>3
<1> HIDE DEF device, o, t
<1>6. /\ RecordsMove(device.id, device)
      /\ storedDevices[device.id] = None => storedDevices'[device.id] = None
      /\ \/ activeDevices' = activeDevices
         \/ activeDevices' = [activeDevices EXCEPT ![device.id] = o]
  <2>1. CASE UpdateDevice(o, device)
    BY <1>2, <1>3, <2>1, UpdateMoves DEF StoreInv
  <2>2. CASE NoStore /\ activeDevices' = activeDevices
    BY <2>2, NoStoreMoves DEF StoreInv, NoStore
  <2> QED
    BY <1>4, <2>1, <2>2
<1>7. storedDevices'[device.id] # None => device.id \in connected'
  BY <1>2, <1>3, <1>4, <1>6, UpdatedIsConnected
<1>8. connected \subseteq connected' /\ connected' \subseteq Ids
  BY <1>4 DEF StoreInv, TypeOK
<1>9. object[o].lastDetection <= device.lastDetection /\ device.lastDetection <= day
  BY <1>2, <1>3
<1>10. o = listed[t]
  BY DEF o
<1>11. \/ listed' = listed /\ device.services # {}
       \/ listed' = [listed EXCEPT ![t] = None]
  BY <1>4
<1>12. ListedMove(t, o, device, device)
  BY <1>3, <1>4, <1>5, <1>6, <1>7, <1>8, <1>9, <1>10, <1>11 DEF ListedMove
<1> QED
  BY <1>1, <1>2, <1>3, <1>12 DEF ListedMoves

\* Records go, snapshots move on towards the file, and devices are at most not
\* listed any more.
QuietMove ==
    /\ storedDevices' \in RecordsType
    /\ \A k \in Ids : storedDevices'[k] \in {None, storedDevices[k]}
    /\ deviceStore' \in {deviceStore, storedDevices'}
    /\ json' \in {None, json, deviceStore} /\ disk' \in {disk, json}
    /\ stores' \in Nat /\ maxDuration' \in Durations
    /\ activeDevices' = activeDevices /\ object' = object /\ connected' = connected
    /\ day' \in Nat /\ day <= day'
    /\ listed' \in {listed, [t \in TVs |-> None]}

LEMMA QuietStep ==
    ASSUME StoreInv, QuietMove
    PROVE  StoreInv'
<1> USE DEF StoreInv, QuietMove
<1>0. day \in Nat /\ day' \in Nat
  BY DEF TypeOK
<1>1. TypeOK'
  <2>1. /\ deviceStore' \in RecordsType \cup {None}
        /\ json' \in RecordsType \cup {None}
        /\ disk' \in RecordsType \cup {None}
    BY DEF TypeOK
  <2>2. listed' \in [TVs -> Objects \cup {None}]
    BY DEF TypeOK
  <2> QED
    BY <2>1, <2>2 DEF TypeOK
<1>2. SnapshotsSound'
  <2>1. ASSUME NEW records \in RecordsType, RecordsSound(records)
        PROVE  \A k \in Ids : records[k] # None =>
                 k \in connected' /\ records[k].lastDetection <= day'
    <3> SUFFICES ASSUME NEW k \in Ids, records[k] # None
                 PROVE  records[k].lastDetection <= day'
      BY <2>1 DEF RecordsSound
    <3>1. records[k].lastDetection \in Nat
      BY <2>1 DEF RecordsType, RecordType
    <3> QED
      BY <1>0, <2>1, <3>1 DEF RecordsSound
  <2>2. /\ storedDevices \in RecordsType /\ RecordsSound(storedDevices)
        /\ deviceStore # None => deviceStore \in RecordsType /\ RecordsSound(deviceStore)
        /\ json # None => json \in RecordsType /\ RecordsSound(json)
        /\ disk # None => disk \in RecordsType /\ RecordsSound(disk)
    BY DEF TypeOK, SnapshotsSound
  <2>3. RecordsSound(storedDevices)'
    BY <2>1, <2>2 DEF RecordsSound
  <2>4. (deviceStore # None => RecordsSound(deviceStore))'
    BY <2>1, <2>2, <2>3 DEF RecordsSound
  <2>5. (json # None => RecordsSound(json))'
    BY <2>1, <2>2 DEF RecordsSound
  <2>6. (disk # None => RecordsSound(disk))'
    BY <2>1, <2>2 DEF RecordsSound
  <2>7. \A o \in Objects : object'[o].lastDetection <= day'
    <3> SUFFICES ASSUME NEW o \in Objects PROVE object[o].lastDetection <= day'
      OBVIOUS
    <3>1. object[o].lastDetection \in Nat
      BY DEF TypeOK, ObjectType
    <3> QED
      BY <1>0, <3>1 DEF SnapshotsSound
  <2> QED
    BY <2>3, <2>4, <2>5, <2>6, <2>7 DEF SnapshotsSound
<1>3. ActiveById'
  BY DEF ActiveById
<1>4. \A t \in TVs : listed'[t] # None => listed'[t] = listed[t]
  OBVIOUS
<1>5. ListedIsOfTV'
  BY <1>4 DEF ListedIsOfTV
<1>6. IdIsOfOneTV'
  <2>1. ASSUME NEW i \in Ids, NEW u \in Services, Under(i, u)' PROVE Under(i, u)
    BY <2>1 DEF Under, Holds
  <2> QED
    BY <2>1, NothingNewUnder
<1>7. ListedIsLatest'
  <2> SUFFICES ASSUME NEW t \in TVs, listed'[t] # None,
                      storedDevices'[object[listed[t]].id] # None
               PROVE  storedDevices'[object[listed[t]].id].lastDetection
                        <= object[listed[t]].lastDetection
    BY <1>4 DEF ListedIsLatest
  <2>1. listed[t] # None
    BY <1>4
  <2>2. object[listed[t]].id \in Ids
    BY <2>1, ListedFacts
  <2> QED
    BY <2>1, <2>2 DEF ListedIsLatest
<1>8. ListedSeenLast'
  BY <1>4 DEF ListedSeenLast
<1> QED
  BY <1>1, <1>2, <1>3, <1>5, <1>6, <1>7, <1>8

LEMMA RemoveStep ==
    ASSUME StoreInv,
           (\E o \in Objects : RemoveDevice(o)) \/ RemoveAll
    PROVE  QuietMove
<1>1. PICK records \in RecordsType :
        /\ Store(records)
        /\ \A k \in Ids : records[k] \in {None, storedDevices[k]}
  <2>1. ASSUME NEW o \in Objects, RemoveDevice(o)
        PROVE  \E records \in RecordsType :
                 /\ Store(records)
                 /\ \A k \in Ids : records[k] \in {None, storedDevices[k]}
    <3> DEFINE records == [storedDevices EXCEPT ![object[o].id] = None]
    <3>1. records \in RecordsType /\ \A k \in Ids : records[k] \in {None, storedDevices[k]}
      BY DEF StoreInv, TypeOK, RecordsType
    <3>2. Store(records)
      BY <2>1 DEF RemoveDevice
    <3> QED
      BY <3>1, <3>2
  <2>2. ASSUME RemoveAll
        PROVE  \E records \in RecordsType :
                 /\ Store(records)
                 /\ \A k \in Ids : records[k] \in {None, storedDevices[k]}
    <3>1. NoRecords \in RecordsType /\ \A k \in Ids : NoRecords[k] = None
      BY DEF NoRecords, RecordsType
    <3> QED
      BY <2>2, <3>1 DEF RemoveAll
  <2> QED
    BY <2>1, <2>2
<1>2. /\ storedDevices' \in RecordsType
      /\ \A k \in Ids : storedDevices'[k] \in {None, records[k]}
      /\ deviceStore' = storedDevices' /\ json' = json /\ disk' = disk
      /\ stores' \in Nat
  BY <1>1, StoreFacts DEF StoreInv
<1>3. UNCHANGED <<activeDevices, maxDuration, object, listed, connected, day>>
  BY DEF RemoveDevice, RemoveAll
<1> QED
  BY <1>1, <1>2, <1>3 DEF StoreInv, TypeOK, QuietMove

LEMMA SetMaxStep ==
    ASSUME StoreInv, NEW duration \in Durations, SetMaxStoreDuration(duration)
    PROVE  QuietMove
<1>1. /\ storedDevices' \in RecordsType
      /\ \A k \in Ids : storedDevices'[k] \in {None, storedDevices[k]}
  BY DeletedFacts DEF SetMaxStoreDuration, StoreInv, TypeOK
<1> QED
  BY <1>1 DEF SetMaxStoreDuration, callerVars, fileVars, StoreInv, TypeOK, QuietMove

LEMMA OtherQuietSteps ==
    ASSUME StoreInv, BlockRuns \/ PurgeDeviceList \/ DayPasses \/ UNCHANGED vars
    PROVE  QuietMove
<1> USE DEF storeVars, callerVars, fileVars, StoreInv, TypeOK, QuietMove
<1>1. CASE BlockRuns
  BY <1>1 DEF BlockRuns, File!Serialise, File!WriteFile, File!FailToWrite
<1>2. CASE PurgeDeviceList
  BY <1>2 DEF PurgeDeviceList
<1>3. CASE DayPasses
  BY <1>3 DEF DayPasses
<1>4. CASE UNCHANGED vars
  BY <1>4 DEF vars
<1> QED
  BY <1>1, <1>2, <1>3, <1>4

LEMMA RestartStep ==
    ASSUME StoreInv, Restart
    PROVE  StoreInv'
<1> USE DEF StoreInv
<1>1. /\ deviceStore' = disk /\ json' = None /\ disk' = disk
      /\ storedDevices' = IF disk = None THEN NoRecords ELSE disk
      /\ activeDevices' = [i \in Ids |-> None] /\ maxDuration' = DefaultDuration
      /\ object' = [o \in Objects |-> NoObject] /\ listed' = [t \in TVs |-> None]
      /\ day' = day /\ stores' = stores /\ connected' = connected
  BY DEF Restart, File!Reload
<1>2. NoObject \in ObjectType /\ NoObject.services = {} /\ NoObject.lastDetection = 0
  BY DEF NoObject, ObjectType
<1>3. NoRecords \in RecordsType /\ \A k \in Ids : NoRecords[k] = None
  BY DEF NoRecords, RecordsType
<1>4. storedDevices' \in RecordsType
  BY <1>1, <1>3 DEF TypeOK
<1>5. TypeOK'
  BY <1>1, <1>2, <1>4, StoreAssumption DEF TypeOK
<1>6. SnapshotsSound'
  <2>1. RecordsSound(storedDevices)'
    BY <1>1, <1>3 DEF SnapshotsSound, RecordsSound
  <2>2. (deviceStore # None => RecordsSound(deviceStore))'
    BY <1>1 DEF SnapshotsSound, RecordsSound
  <2>3. (disk # None => RecordsSound(disk))'
    BY <1>1 DEF SnapshotsSound, RecordsSound
  <2>4. \A o \in Objects : object'[o].lastDetection <= day'
    BY <1>1, <1>2 DEF TypeOK
  <2> QED
    BY <1>1, <2>1, <2>2, <2>3, <2>4 DEF SnapshotsSound
<1>7. ActiveById' /\ ListedIsOfTV' /\ ListedIsLatest' /\ ListedSeenLast'
  BY <1>1 DEF ActiveById, ListedIsOfTV, ListedIsLatest, ListedSeenLast
<1>8. IdIsOfOneTV'
  <2>1. ASSUME NEW i \in Ids, NEW u \in Services, Under(i, u)' PROVE Under(i, u)
    BY <1>1, <1>2, <1>3, <2>1 DEF Under, Holds
  <2> QED
    BY <2>1, NothingNewUnder
<1> QED
  BY <1>5, <1>6, <1>7, <1>8

LEMMA StoreInit == Init => StoreInv
<1> SUFFICES ASSUME Init PROVE StoreInv
  OBVIOUS
<1>1. NoObject \in ObjectType /\ NoObject.services = {} /\ NoObject.lastDetection = 0
  BY DEF NoObject, ObjectType
<1>2. NoRecords \in RecordsType /\ \A k \in Ids : NoRecords[k] = None
  BY DEF NoRecords, RecordsType
<1>3. deviceStore = None /\ json = None /\ disk = None
  BY DEF Init, File!FileInit
<1>4. TypeOK
  BY <1>1, <1>2, <1>3, StoreAssumption DEF Init, TypeOK
<1>5. SnapshotsSound
  BY <1>1, <1>2, <1>3 DEF Init, SnapshotsSound, RecordsSound
<1>6. ActiveById /\ ListedIsOfTV /\ ListedIsLatest /\ ListedSeenLast
  BY DEF Init, ActiveById, ListedIsOfTV, ListedIsLatest, ListedSeenLast
<1>7. IdIsOfOneTV
  <2>1. ASSUME NEW i \in Ids, NEW u \in Services, Under(i, u) PROVE FALSE
    BY <1>1, <1>2, <1>3, <2>1 DEF Init, Under, Holds
  <2> QED
    BY <2>1 DEF IdIsOfOneTV
<1> QED
  BY <1>4, <1>5, <1>6, <1>7 DEF StoreInv

\* didFindService: for a TV that is not listed: object o becomes `device', just
\* detected, and is listed for TV t, which its id is of.
FoundMove(t, o, device) ==
    /\ listed[t] = None /\ o \notin Listed
    /\ object' = [object EXCEPT ![o] = device]
    /\ listed' = [listed EXCEPT ![t] = o]
    /\ device.id \in Ids /\ device.services # {} /\ device.lastDetection = day
    /\ \A v \in device.services : TVOf[v] = t
    /\ \A v \in Services : Under(device.id, v) => TVOf[v] = t
    /\ activeDevices' \in {activeDevices, [activeDevices EXCEPT ![device.id] = o]}
    /\ \A k \in Ids : activeDevices[k] = o => k = device.id
    /\ connected' \subseteq Ids
    /\ \A k \in connected \ connected' :
         /\ storedDevices[k] = None
         /\ ~Holds(deviceStore, k) /\ ~Holds(json, k) /\ ~Holds(disk, k)
    /\ NoStore /\ maxDuration' = maxDuration /\ day' = day

LEMMA FoundStep ==
    ASSUME StoreInv, NEW t \in TVs, NEW o \in Objects, NEW device \in ObjectType,
           FoundMove(t, o, device)
    PROVE  StoreInv'
<1> USE DEF StoreInv, FoundMove
<1> DEFINE i == device.id
<1>1. /\ storedDevices' = storedDevices /\ stores' = stores
      /\ deviceStore' = deviceStore /\ json' = json /\ disk' = disk
  BY DEF NoStore, fileVars
<1>2. \A x \in Objects : object'[x] = IF x = o THEN device ELSE object[x]
  BY DEF TypeOK
<1>3. \A x \in TVs : listed'[x] = IF x = t THEN o ELSE listed[x]
  BY DEF TypeOK
<1>4. \A x \in TVs : x # t /\ listed'[x] # None =>
         /\ listed[x] \in Objects /\ listed[x] # None
         /\ object'[listed'[x]] = object[listed[x]]
  <2> SUFFICES ASSUME NEW x \in TVs, x # t, listed'[x] # None
               PROVE  /\ listed[x] \in Objects /\ listed[x] # None
                      /\ object'[listed'[x]] = object[listed[x]]
    OBVIOUS
  <2>1. listed'[x] = listed[x] /\ listed[x] \in Objects /\ listed[x] # None
    BY <1>3 DEF TypeOK
  <2>2. listed[x] # o
    BY <2>1 DEF Listed, Entries, TypeOK
  <2> QED
    BY <1>2, <2>1, <2>2
<1>5. TypeOK'
  <2>1. activeDevices' \in [Ids -> Objects \cup {None}]
    BY DEF TypeOK
  <2>2. object' \in [Objects -> ObjectType] /\ listed' \in [TVs -> Objects \cup {None}]
    BY DEF TypeOK
  <2> QED
    BY <1>1, <2>1, <2>2 DEF TypeOK
<1>6. SnapshotsSound'
  <2>1. \A x \in Objects : object'[x].lastDetection <= day
    BY <1>2 DEF SnapshotsSound, TypeOK
  <2>2. /\ \A k \in Ids : storedDevices[k] # None => k \in connected'
        /\ \A k \in Ids : deviceStore # None /\ deviceStore[k] # None => k \in connected'
        /\ \A k \in Ids : json # None /\ json[k] # None => k \in connected'
        /\ \A k \in Ids : disk # None /\ disk[k] # None => k \in connected'
    BY DEF SnapshotsSound, RecordsSound, Holds
  <2> QED
    BY <1>1, <2>1, <2>2 DEF SnapshotsSound, RecordsSound
<1>7. ActiveById'
  <2> SUFFICES ASSUME NEW k \in Ids, activeDevices'[k] # None
               PROVE  object'[activeDevices'[k]].id = k
    BY DEF ActiveById
  <2>1. CASE activeDevices'[k] = activeDevices[k]
    <3>1. activeDevices[k] \in Objects /\ object[activeDevices[k]].id = k
      BY <2>1 DEF ActiveById, TypeOK
    <3> QED
      BY <1>2, <2>1, <3>1
  <2>2. CASE k = i /\ activeDevices'[k] = o
    BY <1>2, <2>2
  <2> QED
    BY <2>1, <2>2 DEF TypeOK
<1>8. ListedIsOfTV'
  <2> SUFFICES ASSUME NEW x \in TVs, listed'[x] # None
               PROVE  /\ object'[listed'[x]].id # None
                      /\ object'[listed'[x]].services # {}
                      /\ \A u \in object'[listed'[x]].services : TVOf[u] = x
    BY DEF ListedIsOfTV
  <2>1. CASE x = t
    BY <1>2, <1>3, <2>1, StoreAssumption
  <2>2. CASE x # t
    BY <1>4, <2>2 DEF ListedIsOfTV
  <2> QED
    BY <2>1, <2>2
<1>9. IdIsOfOneTV'
  <2>1. ASSUME NEW k \in Ids, NEW u \in Services, Under(k, u)'
        PROVE  Under(k, u) \/ (k = i /\ TVOf[u] = t)
    <3>1. \/ \E x \in Objects : object'[x].id = k /\ u \in object'[x].services
          \/ Under(k, u)
      BY <1>1, <2>1 DEF Under, Holds
    <3>2. ASSUME NEW x \in Objects, object'[x].id = k, u \in object'[x].services
          PROVE  Under(k, u) \/ (k = i /\ TVOf[u] = t)
      <4>1. CASE x = o
        BY <1>2, <3>2, <4>1
      <4>2. CASE x # o
        BY <1>2, <3>2, <4>2 DEF Under
      <4> QED
        BY <4>1, <4>2
    <3> QED
      BY <3>1, <3>2
  <2> SUFFICES ASSUME NEW k \in Ids, NEW u \in Services, NEW v \in Services,
                      Under(k, u)', Under(k, v)'
               PROVE  TVOf[u] = TVOf[v]
    BY DEF IdIsOfOneTV
  <2>2. Under(k, u) \/ (k = i /\ TVOf[u] = t)
    BY <2>1
  <2>3. Under(k, v) \/ (k = i /\ TVOf[v] = t)
    BY <2>1
  <2> QED
    BY <2>2, <2>3 DEF IdIsOfOneTV
<1>10. ListedIsLatest'
  <2> SUFFICES ASSUME NEW x \in TVs, listed'[x] # None,
                      storedDevices[object'[listed'[x]].id] # None
               PROVE  storedDevices[object'[listed'[x]].id].lastDetection
                        <= object'[listed'[x]].lastDetection
    BY <1>1 DEF ListedIsLatest
  <2>1. CASE x = t
    <3>1. object'[listed'[x]] = device
      BY <1>2, <1>3, <2>1
    <3> QED
      BY <3>1 DEF SnapshotsSound, RecordsSound
  <2>2. CASE x # t
    BY <1>4, <2>2 DEF ListedIsLatest
  <2> QED
    BY <2>1, <2>2
<1>11. ListedSeenLast'
  <2> SUFFICES ASSUME NEW x \in TVs, listed'[x] # None,
                      NEW y \in Objects, object'[y].id = object'[listed'[x]].id
               PROVE  object'[y].lastDetection <= object'[listed'[x]].lastDetection
    BY DEF ListedSeenLast
  <2>1. CASE x = t
    <3>1. object'[listed'[x]] = device
      BY <1>2, <1>3, <2>1
    <3>2. object'[y].lastDetection <= day
      BY <1>6 DEF SnapshotsSound
    <3> QED
      BY <3>1, <3>2
  <2>2. CASE x # t
    <3>1. /\ listed[x] \in Objects /\ listed[x] # None
          /\ object'[listed'[x]] = object[listed[x]]
      BY <1>4, <2>2
    <3>2. y # o
      <4> SUFFICES ASSUME y = o PROVE FALSE
        OBVIOUS
      <4>1. device.id = object[listed[x]].id
        BY <1>2, <3>1
      <4>2. object[listed[x]] \in ObjectType
        BY <3>1 DEF TypeOK
      <4>3. PICK v \in object[listed[x]].services : TVOf[v] = x
        BY <3>1 DEF ListedIsOfTV
      <4>4. v \in Services /\ Under(device.id, v)
        BY <3>1, <4>1, <4>2 DEF Under, ObjectType
      <4> QED
        BY <2>2, <4>3, <4>4
    <3>3. object'[y] = object[y]
      BY <1>2, <3>2
    <3> QED
      BY <3>1, <3>3 DEF ListedSeenLast
  <2> QED
    BY <2>1, <2>2
<1> QED
  BY <1>5, <1>6, <1>7, <1>8, <1>9, <1>10, <1>11

LEMMA FindNewStep ==
    ASSUME StoreInv, NEW u \in Services, DidFindNewDevice(u)
    PROVE  StoreInv'
<1> DEFINE t == TVOf[u]
<1>1. /\ t \in TVs /\ listed[t] = None /\ NoStore
      /\ maxDuration' = maxDuration /\ day' = day
  BY StoreAssumption DEF DidFindNewDevice
<1>2. day \in Nat
  BY DEF StoreInv, TypeOK
<1> HIDE DEF t
<1>3. CASE DidFindActive(u)
  <2>1. PICK o \in ActiveDevicesForUUID(u) :
          /\ listed' = [listed EXCEPT ![t] = o]
          /\ object' = [object EXCEPT ![o] = Seen(object[o], u)]
          /\ activeDevices' = activeDevices /\ connected' = connected
    BY <1>3 DEF DidFindActive, t
  <2>2. PICK i \in Ids : activeDevices[i] = o /\ o # None /\ u \in object[o].services
    BY <2>1 DEF ActiveDevicesForUUID, Entries, StoreInv, TypeOK
  <2>3. o \in Objects /\ object[o] \in ObjectType /\ object[o].id = i
    BY <2>2 DEF StoreInv, TypeOK, ActiveById
  <2> DEFINE device == Seen(object[o], u)
  <2>4. /\ device \in ObjectType /\ device.id = i /\ device.lastDetection = day
        /\ device.services = object[o].services \cup {u}
    BY <1>2, <2>3, SeenType
  <2>5. \A v \in Services : Under(i, v) => TVOf[v] = t
    <3>1. Under(i, u)
      BY <2>2, <2>3 DEF Under
    <3> QED
      BY <3>1 DEF StoreInv, IdIsOfOneTV, t
  <2>6. \A v \in device.services : TVOf[v] = t
    <3>1. \A v \in object[o].services : v \in Services /\ Under(i, v)
      BY <2>3 DEF Under, ObjectType
    <3> QED
      BY <2>4, <2>5, <3>1 DEF t
  <2>7. o \notin Listed
    <3> SUFFICES ASSUME NEW x \in TVs, listed[x] = o, listed[x] # None PROVE FALSE
      BY ListedAt
    <3>1. TVOf[u] = x
      BY <2>2 DEF StoreInv, ListedIsOfTV
    <3> QED
      BY <1>1, <3>1 DEF t
  <2>8. \A k \in Ids : activeDevices[k] = o => k = i
    BY <2>2, <2>3 DEF StoreInv, ActiveById
  <2> HIDE DEF device
  <2>9. object' = [object EXCEPT ![o] = device] /\ device.services # {}
    BY <2>1, <2>4 DEF device
  <2>10. connected' \subseteq Ids
    BY <2>1 DEF StoreInv, TypeOK
  <2>11. FoundMove(t, o, device)
    BY <1>1, <2>1, <2>4, <2>5, <2>6, <2>7, <2>8, <2>9, <2>10 DEF FoundMove
  <2> QED
    BY <1>1, <2>3, <2>4, <2>11, FoundStep
<1>4. ASSUME NEW o \in FreeObjects
      PROVE  /\ o \in Objects /\ o \notin Listed
             /\ \A k \in Ids : activeDevices[k] # o
  BY StoreAssumption DEF FreeObjects, Entries, StoreInv, TypeOK
<1>5. CASE DidFindStored(u)
  <2>1. PICK i \in StoredDevicesForUUID(u), o \in FreeObjects :
          /\ listed' = [listed EXCEPT ![t] = o]
          /\ object' = [object EXCEPT ![o] =
                [id |-> i, services |-> {u}, lastConnected |-> storedDevices[i].lastConnected,
                 lastDetection |-> day]]
          /\ activeDevices' =
                [activeDevices EXCEPT ![i] = IF activeDevices[i] = None THEN o ELSE @]
          /\ connected' = connected
    BY <1>5 DEF DidFindStored, t
  <2>2. i \in Ids /\ storedDevices[i] # None /\ u \in storedDevices[i].services
    BY DEF StoredDevicesForUUID
  <2>3. storedDevices[i] \in RecordType
    BY <2>2 DEF StoreInv, TypeOK, RecordsType
  <2> DEFINE device == [id |-> i, services |-> {u},
                        lastConnected |-> storedDevices[i].lastConnected,
                        lastDetection |-> day]
  <2>4. /\ device \in ObjectType /\ device.id = i /\ device.lastDetection = day
        /\ device.services = {u}
    BY <1>2, <2>2, <2>3 DEF RecordType, ObjectType
  <2>5. \A v \in Services : Under(i, v) => TVOf[v] = t
    <3>1. Under(i, u)
      BY <2>2 DEF Under
    <3> QED
      BY <2>2, <3>1 DEF StoreInv, IdIsOfOneTV, t
  <2>6. activeDevices' \in {activeDevices, [activeDevices EXCEPT ![i] = o]}
    BY <2>1, <2>2 DEF StoreInv, TypeOK
  <2>7. object' = [object EXCEPT ![o] = device]
    BY <2>1
  <2> HIDE DEF device
  <2>8. connected' \subseteq Ids
    BY <2>1 DEF StoreInv, TypeOK
  <2>9. FoundMove(t, o, device)
    BY <1>1, <1>4, <2>1, <2>2, <2>4, <2>5, <2>6, <2>7, <2>8 DEF FoundMove, t
  <2> QED
    BY <1>1, <1>4, <2>4, <2>9, FoundStep
<1>6. CASE DidFindUnknown(u)
  <2>1. PICK i \in FreeIds, o \in FreeObjects :
          /\ listed' = [listed EXCEPT ![t] = o]
          /\ object' = [object EXCEPT ![o] = Seen([NoObject EXCEPT !.id = i], u)]
          /\ connected' = connected \ {i} /\ activeDevices' = activeDevices
    BY <1>6 DEF DidFindUnknown, t
  <2>2. /\ i \in Ids /\ storedDevices[i] = None
        /\ \A x \in Objects : object[x].id # i
        /\ ~Holds(deviceStore, i) /\ ~Holds(disk, i) /\ ~Holds(json, i)
    BY DEF FreeIds
  <2> DEFINE new == [NoObject EXCEPT !.id = i]
             device == Seen(new, u)
  <2>3. new \in ObjectType /\ new.id = i /\ new.services = {}
    BY <2>2 DEF NoObject, ObjectType
  <2>4. /\ device \in ObjectType /\ device.id = i /\ device.lastDetection = day
        /\ device.services = {u}
    BY <1>2, <2>3, SeenType
  <2>5. \A v \in Services : ~Under(i, v)
    BY <2>2 DEF Under
  <2>6. object' = [object EXCEPT ![o] = device]
    BY <2>1
  <2> HIDE DEF device, new
  <2>7. connected' \subseteq Ids /\ \A k \in connected \ connected' : k = i
    BY <2>1 DEF StoreInv, TypeOK
  <2>8. FoundMove(t, o, device)
    BY <1>1, <1>4, <2>1, <2>2, <2>4, <2>5, <2>6, <2>7 DEF FoundMove, t
  <2> QED
    BY <1>1, <1>4, <2>4, <2>8, FoundStep
<1> QED
  BY <1>3, <1>5, <1>6 DEF DidFindNewDevice

LEMMA StoreInvariant == Spec => []StoreInv
<1>1. ASSUME StoreInv, [Next]_vars PROVE StoreInv'
  <2> SUFFICES ASSUME Next \/ UNCHANGED vars PROVE StoreInv'
    BY <1>1
  <2> USE <1>1
  <2>1. CASE BlockRuns \/ PurgeDeviceList \/ DayPasses \/ UNCHANGED vars
    BY <2>1, OtherQuietSteps, QuietStep
  <2>2. CASE \E o \in Objects : DeviceServiceConnectionSuccess(o)
    BY <2>2, ConnectionSuccessStep, HeldStep
  <2>3. CASE \E o \in Objects : ServiceConfigUpdate(o) \/ CapabilitiesAdded(o)
    BY <2>3, ConfigUpdateStep, CapabilitiesStep, HeldStep
  <2>4. CASE (\E o \in Objects : RemoveDevice(o)) \/ RemoveAll
    BY <2>4, RemoveStep, QuietStep
  <2>5. CASE \E duration \in Durations : SetMaxStoreDuration(duration)
    BY <2>5, SetMaxStep, QuietStep
  <2>6. CASE \E u \in Services : DidFindNewDevice(u)
    BY <2>6, FindNewStep
  <2>7. CASE \E u \in Services : DidFindAnotherService(u)
    BY <2>7, FindAnotherStep, ListedObjectStep DEF ListedMoves
  <2>8. CASE \E u \in Services : DidLoseService(u)
    BY <2>8, LoseStep, ListedObjectStep DEF ListedMoves
  <2>9. CASE Restart
    BY <2>9, RestartStep
  <2> QED
    BY <2>1, <2>2, <2>3, <2>4, <2>5, <2>6, <2>7, <2>8, <2>9 DEF Next
<1> QED
  BY <1>1, StoreInit, PTL DEF Spec

\* A record that an update replaces keeps its services.
LEMMA MoveKeepsServices ==
    ASSUME TypeOK, NEW i \in Ids, NEW rec \in ObjectType, RecordsMove(i, rec),
           NEW k \in Ids, storedDevices[k] # None, storedDevices'[k] # None
    PROVE  /\ storedDevices[k].services \subseteq storedDevices'[k].services
           /\ \/ storedDevices'[k].lastDetection = storedDevices[k].lastDetection
              \/ k = i /\ storedDevices'[k].lastDetection = rec.lastDetection
<1>1. storedDevices[k] \in RecordType
  BY DEF TypeOK, RecordsType
<1>2. \/ storedDevices'[k] = storedDevices[k]
      \/ k = i /\ storedDevices'[k] = UpdatedRecord(storedDevices[k], rec)
  BY DEF RecordsMove
<1> QED
  BY <1>1, <1>2, RecordType2

\* What RecordsOnlyGrow says of one record.
Grown(i) ==
    /\ storedDevices[i].services \subseteq storedDevices'[i].services
    /\ \/ storedDevices[i].lastDetection <= storedDevices'[i].lastDetection
       \/ WrittenByUnlisted(i)

\* The listed device was detected no earlier than the record says.
LEMMA ListedGrows ==
    ASSUME StoreInv, ListedMoves, NEW i \in Ids,
           storedDevices[i] # None, storedDevices'[i] # None
    PROVE  Grown(i)
<1>1. PICK t \in TVs, o \in Objects, device \in ObjectType, rec \in ObjectType :
        ListedMove(t, o, device, rec)
  BY DEF ListedMoves
<1>2. /\ o = listed[t] /\ listed[t] # None /\ device.id = object[o].id
      /\ RecordsMove(device.id, rec) /\ rec.lastDetection = device.lastDetection
      /\ object[o].lastDetection <= device.lastDetection
  BY <1>1, StoreAssumption DEF ListedMove
<1>3. /\ object[o].id \in Ids /\ object[o].lastDetection \in Nat
      /\ device.lastDetection \in Nat
  BY <1>2, ListedFacts DEF ObjectType
<1>4. /\ storedDevices[i].services \subseteq storedDevices'[i].services
      /\ \/ storedDevices'[i].lastDetection = storedDevices[i].lastDetection
         \/ i = device.id /\ storedDevices'[i].lastDetection = rec.lastDetection
  BY <1>2, <1>3, MoveKeepsServices DEF StoreInv
<1>5. storedDevices[i].lastDetection \in Nat
  BY DEF StoreInv, TypeOK, RecordsType, RecordType
<1>6. i = device.id => storedDevices[i].lastDetection <= object[o].lastDetection
  BY <1>2 DEF StoreInv, ListedIsLatest
<1>7. storedDevices[i].lastDetection <= storedDevices'[i].lastDetection
  BY <1>2, <1>3, <1>4, <1>5, <1>6
<1> QED
  BY <1>4, <1>7 DEF Grown

\* So does an object that writes its record, if it is the listed one.
LEMMA HeldGrows ==
    ASSUME StoreInv, NEW o \in Objects, HeldMoves(o), NEW i \in Ids,
           storedDevices[i] # None, storedDevices'[i] # None,
           i = object[o].id /\ o \notin Listed => WrittenByUnlisted(i)
    PROVE  Grown(i)
<1>1. PICK device \in ObjectType : HeldMove(o, device)
  BY DEF HeldMoves
<1>2. object[o].id \in Ids /\ RecordsMove(object[o].id, object[o])
  BY <1>1 DEF HeldMove
<1>3. object[o] \in ObjectType
  BY DEF StoreInv, TypeOK
<1>4. /\ storedDevices[i].services \subseteq storedDevices'[i].services
      /\ \/ storedDevices'[i].lastDetection = storedDevices[i].lastDetection
         \/ i = object[o].id /\ storedDevices'[i].lastDetection = object[o].lastDetection
  BY <1>2, <1>3, MoveKeepsServices DEF StoreInv
<1>5. storedDevices[i].lastDetection \in Nat
  BY DEF StoreInv, TypeOK, RecordsType, RecordType
<1>6. CASE storedDevices'[i].lastDetection = storedDevices[i].lastDetection
  BY <1>4, <1>5, <1>6 DEF Grown
<1>7. CASE i = object[o].id /\ o \notin Listed
  BY <1>4, <1>7 DEF Grown
<1>8. CASE /\ i = object[o].id /\ o \in Listed
           /\ storedDevices'[i].lastDetection = object[o].lastDetection
  <2>1. PICK t \in TVs : listed[t] = o /\ listed[t] # None
    BY <1>8, ListedAt
  <2>2. storedDevices[i].lastDetection <= object[o].lastDetection
    BY <1>8, <2>1 DEF StoreInv, ListedIsLatest
  <2> QED
    BY <1>4, <1>8, <2>2 DEF Grown
<1> QED
  BY <1>4, <1>6, <1>7, <1>8

LEMMA StepGrows ==
    ASSUME StoreInv, [Next]_vars, ~Restart, NEW i \in Ids,
           storedDevices[i] # None, storedDevices'[i] # None
    PROVE  Grown(i)
<1>1. CASE ListedMoves
  BY <1>1, ListedGrows
<1>2. CASE QuietMove \/ NoStore
  <2>1. storedDevices'[i] = storedDevices[i]
    BY <1>2 DEF QuietMove, NoStore
  <2>2. storedDevices[i].lastDetection \in Nat
    BY DEF StoreInv, TypeOK, RecordsType, RecordType
  <2> QED
    BY <2>1, <2>2 DEF Grown
<1>3. CASE BlockRuns \/ PurgeDeviceList \/ DayPasses \/ UNCHANGED vars
  BY <1>2, <1>3, OtherQuietSteps
<1>4. ASSUME NEW o \in Objects, DeviceServiceConnectionSuccess(o) \/ CapabilitiesAdded(o)
      PROVE  Grown(i)
  <2>1. HeldMoves(o)
    BY <1>4, ConnectionSuccessStep, CapabilitiesStep
  <2>2. i = object[o].id /\ o \notin Listed => WrittenByUnlisted(i)
    BY <1>4 DEF WrittenByUnlisted
  <2> QED
    BY <2>1, <2>2, HeldGrows
<1>5. ASSUME NEW o \in Objects, ServiceConfigUpdate(o)
      PROVE  Grown(i)
  BY <1>5, ConfigUpdateStep, HeldGrows
<1>6. CASE (\E o \in Objects : RemoveDevice(o)) \/ RemoveAll
  BY <1>2, <1>6, RemoveStep
<1>7. CASE \E duration \in Durations : SetMaxStoreDuration(duration)
  BY <1>2, <1>7, SetMaxStep
<1>8. CASE \E u \in Services : DidFindNewDevice(u)
  BY <1>2, <1>8 DEF DidFindNewDevice
<1>9. CASE \E u \in Services : DidFindAnotherService(u)
  BY <1>1, <1>9, FindAnotherStep
<1>10. CASE \E u \in Services : DidLoseService(u)
  BY <1>1, <1>10, LoseStep
<1> QED
  BY <1>3, <1>4, <1>5, <1>6, <1>7, <1>8, <1>9, <1>10 DEF Next

-----------------------------------------------------------------------------
(* The theorems.                                                             *)

\* TypeOK: every record, published, serialised or in the file, is whole, and no
\* object or id is made up, through any number of restarts.
THEOREM TypeCorrect == Spec => []TypeOK
<1>1. StoreInv => TypeOK
  BY DEF StoreInv
<1> QED
  BY <1>1, StoreInvariant, PTL

\* OnlyConnectedStored: whatever discovery, updates and reloads do, no record in
\* memory, published or in the file is of a device that was only discovered
\* (addDevice: is called by deviceServiceConnectionSuccess alone).
THEOREM OnlyConnectedAreStored == Spec => []OnlyConnectedStored
<1>1. StoreInv => OnlyConnectedStored
  BY DEF StoreInv, SnapshotsSound, RecordsSound, OnlyConnectedStored, Holds
<1> QED
  BY <1>1, StoreInvariant, PTL

\* RecordsOnlyGrow: a record that stays never loses a service, whichever object
\* writes it, and the device that is listed never takes its last detection back,
\* although updateDevice: takes it from whatever object it is given and older objects
\* of the same id, still in use, may have written the record before.
THEOREM RecordsNeverForget == Spec => RecordsOnlyGrow
<1>1. StoreInv /\ [Next]_vars =>
        [ ~Restart =>
            \A i \in Ids : storedDevices[i] # None /\ storedDevices'[i] # None =>
                /\ storedDevices[i].services \subseteq storedDevices'[i].services
                /\ \/ storedDevices[i].lastDetection <= storedDevices'[i].lastDetection
                   \/ WrittenByUnlisted(i) ]_vars
  BY StepGrows DEF Grown
<1> QED
  BY <1>1, StoreInvariant, PTL DEF Spec, RecordsOnlyGrow
=============================================================================
