----------------------- MODULE DiscoveryManagerProofs -----------------------
(***************************************************************************)
(* Proofs about the two halves of DiscoveryManager: DiscoveryControl, for   *)
(* any providers, networks and bound on the timers, and DeviceLists, for    *)
(* any devices, addresses, services, capabilities and filters.              *)
(***************************************************************************)
EXTENDS DiscoveryControl, DeviceLists, TLAPS

-----------------------------------------------------------------------------
(* Control                                                                   *)


\* What makes ControlTypeOK inductive: pauseDiscovery takes one from the number of
\* timers only when _ssidTimer refers to a scheduled one.
TimerScheduled == ssidTimer => timers > 0

ControlInv ==
    /\ ControlTypeOK
    /\ TimerScheduled
    /\ ResumeIsPossible
    /\ SearchingProvidersRun
    /\ StopIsRespected

LEMMA ControlInitially == ControlInit => ControlInv
<1> SUFFICES ASSUME ControlInit PROVE ControlInv
  OBVIOUS
<1> USE DEF ControlInit
<1>1. timers \in Nat /\ timers > 0 /\ mainQueue \in Seq(Blocks)
  OBVIOUS
<1>2. ControlTypeOK
  BY <1>1, Zenon DEF ControlTypeOK
<1>3. ResumeIsPossible /\ SearchingProvidersRun /\ StopIsRespected
  BY Zenon DEF ResumeIsPossible, SearchingProvidersRun, StopIsRespected
<1> QED
  BY <1>1, <1>2, <1>3, Zenon DEF ControlInv, TimerScheduled

\* The notifier's two blocks, for which the queue is the interesting part.
LEMMA RunBlockInv == ControlInv /\ RunBlock => ControlInv'
<1> SUFFICES ASSUME ControlInv, RunBlock PROVE ControlInv'
  OBVIOUS
<1> USE DEF ControlInv, ControlTypeOK, TimerScheduled, ResumeIsPossible, SearchingProvidersRun, StopIsRespected
<1>1. mainQueue' \in Seq(Blocks)
  BY DEF RunBlock
<1>2. CASE PauseDiscovery
  <2>1. timers' \in Nat /\ (ssidTimer' => timers' > 0)
    BY <1>2 DEF PauseDiscovery
  <2> QED
    BY <1>1, <1>2, <2>1, Zenon DEF RunBlock, PauseDiscovery
<1>3. CASE ResumeDiscovery
  <2>1. timers' \in Nat /\ timers' > 0
    BY <1>3 DEF ResumeDiscovery
  <2> QED
    BY <1>1, <1>3, <2>1, Zenon DEF RunBlock, ResumeDiscovery, RunningAfterDetect, LateAfterDetect
<1> QED
  BY <1>2, <1>3 DEF RunBlock

LEMMA ControlStep == ControlInv /\ [ControlNext]_controlVars => ControlInv'
<1> SUFFICES ASSUME ControlInv, [ControlNext]_controlVars PROVE ControlInv'
  OBVIOUS
<1> USE DEF ControlInv, ControlTypeOK, TimerScheduled, ResumeIsPossible, SearchingProvidersRun, StopIsRespected
<1>1. ASSUME NEW p \in Providers, RegisterDeviceService(p) PROVE ControlInv'
  BY <1>1 DEF RegisterDeviceService, timerVars, envVars
<1>2. ASSUME NEW p \in Providers, UnregisterDeviceService(p) PROVE ControlInv'
  BY <1>2 DEF UnregisterDeviceService, managerVars, timerVars, envVars
<1>3. CASE StartDiscovery
  BY <1>3 DEF StartDiscovery, managerVars, timerVars, envVars
<1>4. CASE StopDiscovery
  BY <1>4 DEF StopDiscovery, managerVars, timerVars, envVars
<1>5. CASE DetectSSIDChange
  BY <1>5 DEF DetectSSIDChange, RunningAfterDetect, LateAfterDetect, envVars
<1>6. CASE RunBlock
  BY <1>6, RunBlockInv
<1>7. CASE AppResignsActive
  BY <1>7 DEF AppResignsActive, managerVars, timerVars
<1>8. CASE AppEntersBackground
  BY <1>8 DEF AppEntersBackground, Post, Blocks, managerVars, timerVars
<1>9. CASE AppBecomesActive
  BY <1>9 DEF AppBecomesActive, Post, Blocks, managerVars, timerVars
<1>10. ASSUME NEW s \in SSIDs, JoinNetwork(s) PROVE ControlInv'
  BY <1>10 DEF JoinNetwork, managerVars, timerVars
<1>11. CASE UNCHANGED controlVars
  BY <1>11 DEF controlVars, managerVars, timerVars, envVars
<1> QED
  BY <1>1, <1>2, <1>3, <1>4, <1>5, <1>6, <1>7, <1>8, <1>9, <1>10, <1>11 DEF ControlNext

LEMMA ControlInvariant == ControlSpec => []ControlInv
  BY ControlInitially, ControlStep, PTL DEF ControlSpec

\* Every variable keeps its type, the number of SSID timers included, however
\* pauses and resumes interleave with the calls of the application.
THEOREM ControlTypeCorrect == ControlSpec => []ControlTypeOK
<1>1. ControlInv => ControlTypeOK
  BY DEF ControlInv
<1> QED
  BY <1>1, ControlInvariant, PTL

\* A search that is on or paused keeps the notifier listening, so that
\* pauseDiscovery and resumeDiscovery can reach it.
THEOREM SearchStaysReachable == ControlSpec => []ResumeIsPossible
<1>1. ControlInv => ResumeIsPossible
  BY DEF ControlInv
<1> QED
  BY <1>1, ControlInvariant, PTL

\* During a search every provider registered before it started is running,
\* for any number of providers.
THEOREM SearchKeepsProvidersRunning == ControlSpec => []SearchingProvidersRun
<1>1. ControlInv => SearchingProvidersRun
  BY DEF ControlInv
<1> QED
  BY <1>1, ControlInvariant, PTL

\* A stop that finds no pause waiting is final: no late block of the notifier and
\* no network brings the search back, for any number of timers and blocks.
THEOREM StopIsFinal == ControlSpec => []StopIsRespected
<1>1. ControlInv => StopIsRespected
  BY DEF ControlInv
<1> QED
  BY <1>1, ControlInvariant, PTL

\* Outside a search a provider starts only in the purge that a change of
\* network causes.
THEOREM RevivalNeedsNetworkChange == ControlSpec => OnlyNetworkChangeRevives
<1> DEFINE Revives == ~searching' /\ ~(running' \subseteq running) => currentSSID' # currentSSID
<1>1. ControlInv /\ [ControlNext]_controlVars => [Revives]_controlVars
  <2> SUFFICES ASSUME ControlInv, ControlNext PROVE Revives
    OBVIOUS
  <2> USE DEF ControlInv, ControlTypeOK
  <2>1. ASSUME NEW p \in Providers, RegisterDeviceService(p) PROVE Revives
    BY <2>1 DEF RegisterDeviceService
  <2>2. ASSUME NEW p \in Providers, UnregisterDeviceService(p) PROVE Revives
    BY <2>2 DEF UnregisterDeviceService, managerVars
  <2>3. CASE StartDiscovery
    BY <2>3 DEF StartDiscovery, managerVars
  <2>4. CASE StopDiscovery
    BY <2>4 DEF StopDiscovery, managerVars
  <2>5. CASE DetectSSIDChange
    BY <2>5 DEF DetectSSIDChange, RunningAfterDetect, NetworkChanged
  <2>6. CASE RunBlock
    <3>1. CASE PauseDiscovery
      BY <3>1 DEF PauseDiscovery
    <3>2. CASE ResumeDiscovery
      BY <3>2 DEF ResumeDiscovery, RunningAfterDetect, NetworkChanged
    <3> QED
      BY <2>6, <3>1, <3>2 DEF RunBlock
  <2>7. CASE AppResignsActive
    BY <2>7 DEF AppResignsActive, managerVars
  <2>8. CASE AppEntersBackground
    BY <2>8 DEF AppEntersBackground, managerVars
  <2>9. CASE AppBecomesActive
    BY <2>9 DEF AppBecomesActive, managerVars
  <2>10. ASSUME NEW s \in SSIDs, JoinNetwork(s) PROVE Revives
    BY <2>10 DEF JoinNetwork, managerVars
  <2> QED
    BY <2>1, <2>2, <2>3, <2>4, <2>5, <2>6, <2>7, <2>8, <2>9, <2>10 DEF ControlNext
<1> QED
  BY <1>1, ControlInvariant, PTL DEF ControlSpec, OnlyNetworkChangeRevives

-----------------------------------------------------------------------------
(* Lists                                                                     *)


\* A listed device has the address it is listed under.
KeyedByAddress == \A a \in Addresses : allDevices[a] # None => address[allDevices[a]] = a

\* An entry of the filtered list is the listed device of its address.
CompatibleIsListed == ghosted \/ \A a \in Addresses : compatible[a] \in {None, allDevices[a]}

ListsInv ==
    /\ TypeOK
    /\ KeyedByAddress
    /\ ListedHaveServices
    /\ CompatibleIsListed
    /\ FilteredListExact
    /\ DelegateViewExact

USE ListsAssumption

----------------------------------------------------------------------------
(* Types *)

\* What telling the delegate and the picker leaves of the types.
ToldTypes ==
    /\ compatible' \in [Addresses -> Devices \union {None}]
    /\ picker' \in [Addresses -> Devices \union {None}]
    /\ view' \subseteq Devices
    /\ told' \in [found : SUBSET Devices, lost : SUBSET Devices, updated : SUBSET Devices]

LEMMA TellType ==
    ASSUME TypeOK, NEW f \in SUBSET Devices, NEW l \in SUBSET Devices, NEW u \in SUBSET Devices,
           Tell(f, l, u)
    PROVE  /\ view' \subseteq Devices
           /\ told' \in [found : SUBSET Devices, lost : SUBSET Devices, updated : SUBSET Devices]
  BY DEF Tell, TypeOK

LEMMA LossType ==
    ASSUME TypeOK, NEW d \in Devices, NEW a \in Addresses, HandleDeviceLoss(d, a)
    PROVE  /\ picker' \in [Addresses -> Devices \union {None}]
           /\ view' \subseteq Devices
           /\ told' \in [found : SUBSET Devices, lost : SUBSET Devices, updated : SUBSET Devices]
<1>1. Tell({}, {d}, {})
  BY DEF HandleDeviceLoss
<1>2. {d} \in SUBSET Devices /\ {} \in SUBSET Devices
  OBVIOUS
<1>3. picker' \in [Addresses -> Devices \union {None}]
  BY DEF HandleDeviceLoss, TypeOK
<1> QED
  BY <1>1, <1>2, <1>3, TellType

LEMMA AddType ==
    ASSUME TypeOK, NEW d \in Devices, NEW a \in Addresses, NEW sv, HandleDeviceAdd(d, a, sv)
    PROVE  ToldTypes
<1>1. {d} \in SUBSET Devices /\ {} \in SUBSET Devices
  OBVIOUS
<1>2. CASE DeviceIsCompatible(sv, filters)
  <2>1. Tell({d}, {}, {})
    BY <1>2 DEF HandleDeviceAdd
  <2>2. /\ compatible' \in [Addresses -> Devices \union {None}]
        /\ picker' \in [Addresses -> Devices \union {None}]
    BY <1>2 DEF HandleDeviceAdd, TypeOK
  <2> QED
    BY <1>1, <2>1, <2>2, TellType DEF ToldTypes
<1>3. CASE ~DeviceIsCompatible(sv, filters)
  <2>1. Tell({}, {}, {}) /\ UNCHANGED <<compatible, picker>>
    BY <1>3 DEF HandleDeviceAdd
  <2> QED
    BY <1>1, <2>1, TellType DEF ToldTypes, TypeOK
<1> QED
  BY <1>2, <1>3

LEMMA UpdateType ==
    ASSUME TypeOK, NEW d \in Devices, NEW a \in Addresses, NEW sv, HandleDeviceUpdate(d, a, sv)
    PROVE  ToldTypes
<1>1. {d} \in SUBSET Devices /\ {} \in SUBSET Devices
  OBVIOUS
<1>2. CASE DeviceIsCompatible(sv, filters) /\ compatible[a] # None
  <2>1. Tell({}, {}, {d}) /\ UNCHANGED <<compatible, picker>>
    BY <1>2 DEF HandleDeviceUpdate
  <2> QED
    BY <1>1, <2>1, TellType DEF ToldTypes, TypeOK
<1>3. CASE DeviceIsCompatible(sv, filters) /\ compatible[a] = None
  BY <1>3, AddType DEF HandleDeviceUpdate
<1>4. CASE ~DeviceIsCompatible(sv, filters)
  <2>1. HandleDeviceLoss(d, a) /\ compatible' = [compatible EXCEPT ![a] = None]
    BY <1>4 DEF HandleDeviceUpdate
  <2> QED
    BY <2>1, LossType DEF ToldTypes, TypeOK
<1> QED
  BY <1>2, <1>3, <1>4

LEMMA NoServicesType == NoServices \in [ServiceIds -> ServiceType \union {None}]
  BY DEF NoServices

LEMMA AddServiceType ==
    ASSUME NEW desc \in Descriptions, NEW sv \in [ServiceIds -> ServiceType \union {None}]
    PROVE  AddServiceDescription(desc, sv) \in [ServiceIds -> ServiceType \union {None}]
<1>1. desc \in DescriptionType
  OBVIOUS
<1>2. [uuid |-> desc.uuid, caps |-> InitialCaps[desc.serviceId]] \in ServiceType
  BY <1>1 DEF DescriptionType, ServiceType
<1> QED
  BY <1>1, <1>2 DEF AddServiceDescription, DescriptionType

LEMMA RecappedType ==
    ASSUME TypeOK, NEW d \in Devices, NEW s \in ServiceIds, NEW caps \in SUBSET Capabilities,
           services[d][s] # None
    PROVE  Recapped(d, s, caps) \in [Devices -> [ServiceIds -> ServiceType \union {None}]]
<1>1. services[d][s] \in ServiceType
  BY DEF TypeOK
<1>2. [services[d][s] EXCEPT !.caps = caps] \in ServiceType
  BY <1>1 DEF ServiceType
<1> QED
  BY <1>2 DEF Recapped, TypeOK

LEMMA EntriesType ==
    ASSUME NEW list \in [Addresses -> Devices \union {None}]
    PROVE  Entries(list) \subseteq Devices
  BY DEF Entries

----------------------------------------------------------------------------
(* What handleDeviceAdd: and handleDeviceUpdate: do to the filtered list    *)
(* and to the delegate's view                                               *)

LEMMA AddList ==
    ASSUME TypeOK, NEW d \in Devices, NEW a \in Addresses, NEW sv,
           compatible[a] = None, HandleDeviceAdd(d, a, sv)
    PROVE  compatible' = [compatible EXCEPT ![a] = IF DeviceIsCompatible(sv, filters) THEN d ELSE None]
  BY DEF HandleDeviceAdd, TypeOK

LEMMA UpdateList ==
    ASSUME TypeOK, NEW d \in Devices, NEW a \in Addresses, NEW sv,
           compatible[a] \in {None, d}, HandleDeviceUpdate(d, a, sv)
    PROVE  compatible' = [compatible EXCEPT ![a] = IF DeviceIsCompatible(sv, filters) THEN d ELSE None]
<1>1. CASE DeviceIsCompatible(sv, filters) /\ compatible[a] # None
  BY <1>1 DEF HandleDeviceUpdate, TypeOK
<1>2. CASE DeviceIsCompatible(sv, filters) /\ compatible[a] = None
  BY <1>2, AddList DEF HandleDeviceUpdate
<1>3. CASE ~DeviceIsCompatible(sv, filters)
  BY <1>3 DEF HandleDeviceUpdate
<1> QED
  BY <1>1, <1>2, <1>3

\* Writing one entry of a list, at an address where it held d or nothing and
\* d is nowhere else, adds d to its entries or takes it away.
LEMMA EntriesPut ==
    ASSUME NEW list \in [Addresses -> Devices \union {None}], NEW d \in Devices, NEW a \in Addresses,
           list[a] \in {None, d}
    PROVE  Entries([list EXCEPT ![a] = d]) = Entries(list) \union {d}
  BY DEF Entries

LEMMA EntriesDrop ==
    ASSUME NEW list \in [Addresses -> Devices \union {None}], NEW d \in Devices, NEW a \in Addresses,
           list[a] \in {None, d}, \A b \in Addresses : b # a => list[b] # d
    PROVE  Entries([list EXCEPT ![a] = None]) = Entries(list) \ {d}
  BY DEF Entries

\* A step without didUpdateDevice.
LEMMA NoUpdate ==
    ASSUME NEW f, NEW l, Tell(f, l, {})
    PROVE  told'.updated = {}
  BY DEF Tell

LEMMA AddView ==
    ASSUME TypeOK, NEW d \in Devices, NEW a \in Addresses, NEW sv,
           view = Entries(compatible), compatible[a] = None, HandleDeviceAdd(d, a, sv)
    PROVE  view' = Entries(compatible') /\ told'.updated \subseteq view'
<1>1. CASE DeviceIsCompatible(sv, filters)
  <2>1. compatible' = [compatible EXCEPT ![a] = d] /\ view' = view \union {d}
    BY <1>1 DEF HandleDeviceAdd, Tell
  <2>2. told'.updated = {}
    BY <1>1, NoUpdate DEF HandleDeviceAdd
  <2> QED
    BY <2>1, <2>2, EntriesPut DEF TypeOK
<1>2. CASE ~DeviceIsCompatible(sv, filters)
  <2>1. compatible' = compatible /\ view' = view
    BY <1>2 DEF HandleDeviceAdd, Tell
  <2>2. told'.updated = {}
    BY <1>2, NoUpdate DEF HandleDeviceAdd
  <2> QED
    BY <2>1, <2>2
<1> QED
  BY <1>1, <1>2

LEMMA UpdateView ==
    ASSUME TypeOK, NEW d \in Devices, NEW a \in Addresses, NEW sv,
           view = Entries(compatible), compatible[a] \in {None, d},
           \A b \in Addresses : b # a => compatible[b] # d,
           HandleDeviceUpdate(d, a, sv)
    PROVE  view' = Entries(compatible') /\ told'.updated \subseteq view'
<1>1. CASE DeviceIsCompatible(sv, filters) /\ compatible[a] # None
  <2>1. compatible' = compatible /\ view' = view /\ told'.updated = {d}
    BY <1>1 DEF HandleDeviceUpdate, Tell
  <2>2. d \in Entries(compatible)
    BY <1>1 DEF Entries, TypeOK
  <2> QED
    BY <2>1, <2>2
<1>2. CASE DeviceIsCompatible(sv, filters) /\ compatible[a] = None
  BY <1>2, AddView DEF HandleDeviceUpdate
<1>3. CASE ~DeviceIsCompatible(sv, filters)
  <2>1. compatible' = [compatible EXCEPT ![a] = None] /\ view' = view \ {d}
    BY <1>3 DEF HandleDeviceUpdate, HandleDeviceLoss, Tell
  <2>2. told'.updated = {}
    BY <1>3, NoUpdate DEF HandleDeviceUpdate, HandleDeviceLoss
  <2> QED
    BY <2>1, <2>2, EntriesDrop DEF TypeOK
<1> QED
  BY <1>1, <1>2, <1>3

----------------------------------------------------------------------------
(* The steps *)

\* A listed device that gets services sv and goes through handleDeviceUpdate:
\* leaves the lists exact; devices other than d keep their messages in flight.
LEMMA ListedUpdate ==
    ASSUME ListsInv,
           NEW a \in Addresses, NEW d \in Devices, d = allDevices[a],
           NEW sv \in [ServiceIds -> ServiceType \union {None}], HasServices(sv),
           services' = [services EXCEPT ![d] = sv],
           HandleDeviceUpdate(d, a, sv),
           capsPending' \subseteq Devices, capsPending \ {d} \subseteq capsPending',
           UNCHANGED <<address, allDevices, filters, hasPicker>>,
           ghosted' = ghosted
    PROVE  ListsInv'
<1> USE DEF ListsInv
<1>1. TypeOK'
  <2>1. ToldTypes
    BY UpdateType
  <2> QED
    BY <2>1 DEF TypeOK, ToldTypes
<1>2. KeyedByAddress'
  BY DEF KeyedByAddress
<1>3. ListedHaveServices'
  <2>1. \A x \in Devices : services'[x] = IF x = d THEN sv ELSE services[x]
    BY DEF TypeOK
  <2>2. Listed' = Listed /\ Listed \subseteq Devices
    BY EntriesType DEF Listed, Entries, TypeOK
  <2> QED
    BY <2>1, <2>2 DEF ListedHaveServices, HasServices
<1>4. ASSUME ~ghosted
      PROVE  /\ \A b \in Addresses : compatible[b] \in {None, allDevices[b]}
             /\ \A b \in Addresses : b # a => compatible[b] # d /\ allDevices[b] # d
             /\ compatible' = [compatible EXCEPT ![a] = IF DeviceIsCompatible(sv, filters) THEN d ELSE None]
  <2>1. \A b \in Addresses : compatible[b] \in {None, allDevices[b]}
    BY <1>4 DEF CompatibleIsListed
  <2>2. \A b \in Addresses : b # a => allDevices[b] # d
    BY DEF KeyedByAddress
  <2>3. compatible' = [compatible EXCEPT ![a] = IF DeviceIsCompatible(sv, filters) THEN d ELSE None]
    BY <2>1, UpdateList
  <2> QED
    BY <2>1, <2>2, <2>3
<1>5. CompatibleIsListed'
  BY <1>4 DEF CompatibleIsListed, TypeOK
<1>6. FilteredListExact'
  <2> SUFFICES ASSUME ~ghosted, NEW b \in Addresses, allDevices[b] # None,
                      allDevices[b] \notin capsPending'
               PROVE  compatible'[b] = IF DeviceIsCompatible(services'[allDevices[b]], filters)
                                       THEN allDevices[b] ELSE None
    <3>1. ASSUME ~ghosted, NEW b \in Addresses, allDevices[b] = None PROVE compatible'[b] = None
      <4>1. b # a /\ compatible[b] = None
        BY <3>1 DEF FilteredListExact
      <4> QED
        BY <1>4, <3>1, <4>1 DEF TypeOK
    <3> QED
      BY <3>1 DEF FilteredListExact
  <2>1. CASE b = a
    BY <1>4, <2>1 DEF TypeOK
  <2>2. CASE b # a
    <3>1. allDevices[b] # d /\ compatible'[b] = compatible[b]
      BY <1>4, <2>2 DEF TypeOK
    <3>2. allDevices[b] \notin capsPending /\ services'[allDevices[b]] = services[allDevices[b]]
      BY <3>1 DEF TypeOK
    <3> QED
      BY <3>1, <3>2 DEF FilteredListExact
  <2> QED
    BY <2>1, <2>2
<1>7. DelegateViewExact'
  <2> SUFFICES ASSUME ~ghosted PROVE view' = Entries(compatible') /\ told'.updated \subseteq view'
    BY DEF DelegateViewExact, Entries
  <2>1. view = Entries(compatible)
    BY DEF DelegateViewExact
  <2> QED
    BY <1>4, <2>1, UpdateView
<1> QED
  BY <1>1, <1>2, <1>3, <1>5, <1>6, <1>7

LEMMA ListsInit == Init => ListsInv
<1> SUFFICES ASSUME Init PROVE ListsInv
  OBVIOUS
<1> USE DEF Init
<1>1. TypeOK
  <2>1. address \in [Devices -> Addresses]
    OBVIOUS
  <2>2. services \in [Devices -> [ServiceIds -> ServiceType \union {None}]]
    BY NoServicesType
  <2>3. told \in [found : SUBSET Devices, lost : SUBSET Devices, updated : SUBSET Devices]
    BY DEF Silence
  <2>4. hasPicker \in BOOLEAN /\ ghosted \in BOOLEAN
    OBVIOUS
  <2> QED
    BY <2>1, <2>2, <2>3, <2>4 DEF TypeOK
<1>2. KeyedByAddress /\ ListedHaveServices /\ CompatibleIsListed
  BY DEF KeyedByAddress, ListedHaveServices, CompatibleIsListed, Listed, Entries
<1>3. FilteredListExact /\ DelegateViewExact
  BY DEF FilteredListExact, DelegateViewExact, Entries, Silence
<1> QED
  BY <1>1, <1>2, <1>3 DEF ListsInv

LEMMA FindNewStep ==
    ASSUME ListsInv, NEW desc \in Descriptions, DidFindNewDevice(desc)
    PROVE  ListsInv'
<1> USE DEF ListsInv
<1> DEFINE a == desc.address
           sv == AddServiceDescription(desc, NoServices)
<1>1. a \in Addresses /\ allDevices[a] = None
  BY DEF DidFindNewDevice, DescriptionType
<1>2. sv \in [ServiceIds -> ServiceType \union {None}]
  BY NoServicesType, AddServiceType
<1>3. PICK d \in Free :
        /\ services' = [services EXCEPT ![d] = sv]
        /\ address' = [address EXCEPT ![d] = a]
        /\ IF HasServices(sv)
           THEN /\ allDevices' = [allDevices EXCEPT ![a] = d]
                /\ HandleDeviceAdd(d, a, sv)
           ELSE Tell({}, {}, {}) /\ UNCHANGED <<allDevices, compatible, picker>>
  BY DEF DidFindNewDevice
<1>4. d \in Devices /\ (\A b \in Addresses : allDevices[b] # d /\ compatible[b] # d) /\ d \notin capsPending
  BY DEF Free, Listed, Entries
<1>5. UNCHANGED <<filters, hasPicker, capsPending, ghosted>>
  BY DEF DidFindNewDevice
<1> HIDE DEF a, sv
<1>6. \A x \in Devices : /\ services'[x] = IF x = d THEN sv ELSE services[x]
                         /\ address'[x] = IF x = d THEN a ELSE address[x]
  BY <1>3, <1>4 DEF TypeOK
<1>7. CASE HasServices(sv)
  <2>1. allDevices' = [allDevices EXCEPT ![a] = d] /\ HandleDeviceAdd(d, a, sv)
    BY <1>3, <1>7
  <2>2. ToldTypes
    BY <1>1, <1>4, <2>1, AddType
  <2>3. TypeOK'
    BY <1>1, <1>2, <1>3, <1>4, <1>5, <2>1, <2>2 DEF TypeOK, ToldTypes
  <2>4. \A b \in Addresses : allDevices'[b] = IF b = a THEN d ELSE allDevices[b]
    BY <1>1, <2>1 DEF TypeOK
  <2>5. KeyedByAddress'
    <3> SUFFICES ASSUME NEW b \in Addresses, allDevices'[b] # None PROVE address'[allDevices'[b]] = b
      BY DEF KeyedByAddress
    <3> QED
      BY <1>4, <1>6, <2>4 DEF KeyedByAddress, TypeOK
  <2>6. ListedHaveServices'
    <3> SUFFICES ASSUME NEW b \in Addresses, allDevices'[b] # None
                 PROVE  HasServices(services'[allDevices'[b]])
      BY DEF ListedHaveServices, Listed, Entries, HasServices
    <3>1. b # a => allDevices[b] \in Listed
      BY <2>4 DEF Listed, Entries
    <3> QED
      BY <1>4, <1>6, <1>7, <2>4, <3>1 DEF ListedHaveServices, TypeOK
  <2>7. ASSUME ~ghosted PROVE compatible[a] = None
    BY <1>1, <2>7 DEF CompatibleIsListed
  <2>8. ASSUME ~ghosted
        PROVE  compatible' = [compatible EXCEPT ![a] = IF DeviceIsCompatible(sv, filters) THEN d ELSE None]
    BY <1>1, <1>4, <2>1, <2>7, <2>8, AddList
  <2>9. CompatibleIsListed'
    BY <1>5, <2>4, <2>8 DEF CompatibleIsListed, TypeOK
  <2>10. FilteredListExact'
    <3> SUFFICES ASSUME ~ghosted, NEW b \in Addresses
                 PROVE  IF allDevices'[b] = None THEN compatible'[b] = None
                        ELSE \/ allDevices'[b] \in capsPending
                             \/ compatible'[b] = IF DeviceIsCompatible(services'[allDevices'[b]], filters)
                                                 THEN allDevices'[b] ELSE None
      BY <1>5 DEF FilteredListExact, DeviceIsCompatible, CapabilitiesOf
    <3>1. CASE b = a
      BY <1>1, <1>4, <1>6, <2>4, <2>8, <3>1 DEF TypeOK
    <3>2. CASE b # a
      <4>1. compatible'[b] = compatible[b] /\ allDevices'[b] = allDevices[b]
        BY <2>4, <2>8, <3>2 DEF TypeOK
      <4>2. allDevices[b] # None => services'[allDevices[b]] = services[allDevices[b]]
        BY <1>4, <1>6 DEF TypeOK
      <4> QED
        BY <4>1, <4>2 DEF FilteredListExact
    <3> QED
      BY <3>1, <3>2
  <2>11. DelegateViewExact'
    <3> SUFFICES ASSUME ~ghosted PROVE view' = Entries(compatible') /\ told'.updated \subseteq view'
      BY <1>5 DEF DelegateViewExact, Entries
    <3>1. view = Entries(compatible)
      BY DEF DelegateViewExact
    <3> QED
      BY <1>1, <1>4, <2>1, <2>7, <3>1, AddView
  <2> QED
    BY <2>3, <2>5, <2>6, <2>9, <2>10, <2>11
<1>8. CASE ~HasServices(sv)
  <2>1. Tell({}, {}, {}) /\ UNCHANGED <<allDevices, compatible, picker>>
    BY <1>3, <1>8
  <2>2. view' = view /\ told'.updated = {}
    BY <2>1, NoUpdate DEF Tell
  <2>3. TypeOK'
    <3>1. told' \in [found : SUBSET Devices, lost : SUBSET Devices, updated : SUBSET Devices]
      BY <2>1, TellType
    <3> QED
      BY <1>1, <1>2, <1>3, <1>4, <1>5, <2>1, <2>2, <3>1 DEF TypeOK
  <2>4. \A b \in Addresses : allDevices[b] # None =>
            /\ services'[allDevices[b]] = services[allDevices[b]]
            /\ address'[allDevices[b]] = address[allDevices[b]]
    BY <1>4, <1>6 DEF TypeOK
  <2>5. KeyedByAddress'
    BY <2>1, <2>4 DEF KeyedByAddress
  <2>6. ListedHaveServices'
    BY <2>1, <2>4 DEF ListedHaveServices, Listed, Entries
  <2>7. CompatibleIsListed' /\ DelegateViewExact'
    BY <1>5, <2>1, <2>2 DEF CompatibleIsListed, DelegateViewExact, Entries
  <2>8. FilteredListExact'
    BY <1>5, <2>1, <2>4 DEF FilteredListExact
  <2> QED
    BY <2>3, <2>5, <2>6, <2>7, <2>8
<1> QED
  BY <1>7, <1>8

LEMMA FindAnotherStep ==
    ASSUME ListsInv, NEW desc \in Descriptions, DidFindAnotherService(desc)
    PROVE  ListsInv'
<1> DEFINE a == desc.address
           d == allDevices[a]
           sv == AddServiceDescription(desc, services[d])
<1>1. a \in Addresses /\ d \in Devices
  BY DEF DidFindAnotherService, DescriptionType, ListsInv, TypeOK
<1>2. sv \in [ServiceIds -> ServiceType \union {None}]
  BY <1>1, AddServiceType DEF ListsInv, TypeOK
<1>3. HasServices(sv)
  <2>1. HasServices(services[d])
    BY <1>1 DEF ListsInv, ListedHaveServices, Listed, Entries
  <2>2. desc.serviceId \in ServiceIds /\ services[d] \in [ServiceIds -> ServiceType \union {None}]
    BY <1>1 DEF DescriptionType, ListsInv, TypeOK
  <2>3. [uuid |-> desc.uuid, caps |-> InitialCaps[desc.serviceId]] # None
    <3>1. [uuid |-> desc.uuid, caps |-> InitialCaps[desc.serviceId]] \in ServiceType
      BY DEF DescriptionType, ServiceType
    <3> QED
      BY <3>1
  <2> QED
    BY <2>1, <2>2, <2>3 DEF HasServices, AddServiceDescription
<1>4. address' = address
  <2>1. address[d] = a
    BY <1>1 DEF ListsInv, KeyedByAddress
  <2> QED
    BY <1>1, <2>1 DEF DidFindAnotherService, ListsInv, TypeOK
<1>5. HandleDeviceUpdate(d, a, sv)
  BY <1>1, <1>4 DEF DidFindAnotherService, ListsInv, KeyedByAddress
<1>6. /\ services' = [services EXCEPT ![d] = sv]
      /\ UNCHANGED <<allDevices, filters, hasPicker, capsPending, ghosted>>
  BY DEF DidFindAnotherService
<1>7. capsPending' \subseteq Devices /\ capsPending \ {d} \subseteq capsPending'
  BY <1>6 DEF ListsInv, TypeOK
<1> HIDE DEF a, sv
<1> QED
  BY <1>1, <1>2, <1>3, <1>4, <1>5, <1>6, <1>7, ListedUpdate

LEMMA LoseStep ==
    ASSUME ListsInv, NEW desc \in Descriptions, DidLoseService(desc)
    PROVE  ListsInv'
<1> DEFINE a == desc.address
           d == allDevices[a]
           sv == [services[d] EXCEPT ![desc.serviceId] = None]
<1>1. a \in Addresses /\ d \in Devices /\ desc.serviceId \in ServiceIds
  BY DEF DidLoseService, DescriptionType, ListsInv, TypeOK
<1>2. sv \in [ServiceIds -> ServiceType \union {None}]
  BY <1>1 DEF ListsInv, TypeOK
<1>3. address[d] = a
  BY <1>1 DEF ListsInv, KeyedByAddress
<1>4. /\ services' = [services EXCEPT ![d] = sv]
      /\ UNCHANGED <<address, filters, hasPicker, capsPending, ghosted>>
  BY DEF DidLoseService
<1>5. capsPending' \subseteq Devices /\ capsPending \ {d} \subseteq capsPending'
  BY <1>4 DEF ListsInv, TypeOK
<1>6. CASE HasServices(sv)
  <2>1. HandleDeviceUpdate(d, a, sv) /\ UNCHANGED allDevices
    BY <1>3, <1>6 DEF DidLoseService
  <2> HIDE DEF a, sv
  <2> QED
    BY <1>1, <1>2, <1>4, <1>5, <1>6, <2>1, ListedUpdate
<1>7. CASE ~HasServices(sv)
  <2> USE DEF ListsInv
  <2>1. /\ allDevices' = [allDevices EXCEPT ![a] = None]
        /\ compatible' = [compatible EXCEPT ![a] = None]
        /\ HandleDeviceLoss(d, a)
    BY <1>3, <1>7 DEF DidLoseService
  <2> HIDE DEF sv
  <2>2. TypeOK'
    BY <1>1, <1>2, <1>4, <2>1, LossType DEF TypeOK
  <2>3. \A b \in Addresses : /\ allDevices'[b] = IF b = a THEN None ELSE allDevices[b]
                             /\ compatible'[b] = IF b = a THEN None ELSE compatible[b]
    BY <1>1, <2>1 DEF TypeOK
  <2>4. \A b \in Addresses : b # a => allDevices[b] # d
    BY <1>1 DEF KeyedByAddress
  <2>5. \A b \in Addresses : b # a /\ allDevices[b] # None =>
                               services'[allDevices[b]] = services[allDevices[b]]
    BY <1>1, <1>4, <2>4 DEF TypeOK
  <2>6. KeyedByAddress'
    BY <1>4, <2>3 DEF KeyedByAddress
  <2>7. ListedHaveServices'
    <3> SUFFICES ASSUME NEW b \in Addresses, allDevices'[b] # None
                 PROVE  HasServices(services'[allDevices'[b]])
      BY DEF ListedHaveServices, Listed, Entries, HasServices
    <3> QED
      BY <2>3, <2>5 DEF ListedHaveServices, Listed, Entries
  <2>8. CompatibleIsListed'
    BY <1>4, <2>3 DEF CompatibleIsListed
  <2>9. FilteredListExact'
    <3> SUFFICES ASSUME ~ghosted, NEW b \in Addresses
                 PROVE  IF allDevices'[b] = None THEN compatible'[b] = None
                        ELSE \/ allDevices'[b] \in capsPending
                             \/ compatible'[b] = IF DeviceIsCompatible(services'[allDevices'[b]], filters)
                                                 THEN allDevices'[b] ELSE None
      BY <1>4 DEF FilteredListExact, DeviceIsCompatible, CapabilitiesOf
    <3>1. CASE b = a
      BY <2>3, <3>1
    <3>2. CASE b # a
      BY <2>3, <2>5, <3>2 DEF FilteredListExact
    <3> QED
      BY <3>1, <3>2
  <2>10. DelegateViewExact'
    <3> SUFFICES ASSUME ~ghosted PROVE view' = Entries(compatible') /\ told'.updated \subseteq view'
      BY <1>4 DEF DelegateViewExact, Entries
    <3>1. view = Entries(compatible) /\ view' = view \ {d} /\ told'.updated = {}
      BY <2>1, NoUpdate DEF DelegateViewExact, HandleDeviceLoss, Tell
    <3>2. compatible[a] \in {None, d} /\ \A b \in Addresses : b # a => compatible[b] # d
      BY <1>1, <2>4 DEF CompatibleIsListed
    <3> QED
      BY <1>1, <2>1, <3>1, <3>2, EntriesDrop DEF TypeOK
  <2> QED
    BY <2>2, <2>6, <2>7, <2>8, <2>9, <2>10
<1> QED
  BY <1>6, <1>7

\* Giving a service other capabilities keeps every device's services present.
LEMMA RecappedServices ==
    ASSUME TypeOK, NEW d \in Devices, NEW s \in ServiceIds, NEW caps \in SUBSET Capabilities,
           services[d][s] # None
    PROVE  /\ HasServices(Recapped(d, s, caps)[d])
           /\ \A x \in Devices : x # d => Recapped(d, s, caps)[x] = services[x]
           /\ Recapped(d, s, caps) = [services EXCEPT ![d] = Recapped(d, s, caps)[d]]
<1>1. [services[d][s] EXCEPT !.caps = caps] # None
  <2>1. services[d][s] \in ServiceType
    BY DEF TypeOK
  <2>2. [services[d][s] EXCEPT !.caps = caps] \in ServiceType
    BY <2>1 DEF ServiceType
  <2> QED
    BY <2>2
<1>2. Recapped(d, s, caps)[d] = [services[d] EXCEPT ![s] = [services[d][s] EXCEPT !.caps = caps]]
  BY DEF Recapped, TypeOK
<1>3. HasServices(Recapped(d, s, caps)[d])
  BY <1>1, <1>2 DEF HasServices, TypeOK
<1>4. \A x \in Devices : x # d => Recapped(d, s, caps)[x] = services[x]
  BY DEF Recapped, TypeOK
<1>5. Recapped(d, s, caps) = [services EXCEPT ![d] = Recapped(d, s, caps)[d]]
  BY <1>2 DEF Recapped, TypeOK
<1> QED
  BY <1>3, <1>4, <1>5

LEMMA SetCapabilitiesStep ==
    ASSUME ListsInv, NEW d \in Devices, NEW s \in ServiceIds, NEW caps \in SUBSET Capabilities,
           SetCapabilities(d, s, caps)
    PROVE  ListsInv'
<1> USE DEF ListsInv
<1>1. /\ services' = Recapped(d, s, caps) /\ services[d][s] # None
      /\ capsPending' = capsPending \union {d}
      /\ Tell({}, {}, {})
      /\ UNCHANGED <<address, allDevices, compatible, filters, hasPicker, picker, ghosted>>
  BY DEF SetCapabilities
<1>2. HasServices(services'[d]) /\ \A x \in Devices : x # d => services'[x] = services[x]
  BY <1>1, RecappedServices
<1>3. /\ view' = view /\ told'.updated = {}
      /\ told' \in [found : SUBSET Devices, lost : SUBSET Devices, updated : SUBSET Devices]
  BY <1>1, TellType, NoUpdate DEF Tell
<1>4. TypeOK'
  <2>1. services' \in [Devices -> [ServiceIds -> ServiceType \union {None}]]
    BY <1>1, RecappedType
  <2> QED
    BY <1>1, <1>3, <2>1 DEF TypeOK
<1>5. KeyedByAddress' /\ CompatibleIsListed' /\ DelegateViewExact'
  BY <1>1, <1>3 DEF KeyedByAddress, CompatibleIsListed, DelegateViewExact, Entries
<1>6. ListedHaveServices'
  <2>1. Listed' = Listed /\ Listed \subseteq Devices
    BY <1>1, EntriesType DEF Listed, Entries, TypeOK
  <2> QED
    BY <1>2, <2>1 DEF ListedHaveServices
<1>7. FilteredListExact'
  <2>1. \A a \in Addresses : allDevices[a] \in Devices /\ allDevices[a] \notin capsPending' =>
            services'[allDevices[a]] = services[allDevices[a]] /\ allDevices[a] \notin capsPending
    BY <1>1, <1>2
  <2>2. \A a \in Addresses : allDevices[a] # None => allDevices[a] \in Devices
    BY DEF TypeOK
  <2> QED
    BY <1>1, <2>1, <2>2 DEF FilteredListExact
<1> QED
  BY <1>4, <1>5, <1>6, <1>7

LEMMA ChangeCapabilityStep ==
    ASSUME ListsInv, NEW d \in Devices, NEW s \in ServiceIds, NEW caps \in SUBSET Capabilities,
           ChangeCapability(d, s, caps)
    PROVE  ListsInv'
<1> DEFINE sv == Recapped(d, s, caps)[d]
<1>1. PICK a \in Addresses : d = allDevices[a]
  BY DEF ChangeCapability, Listed, Entries
<1>2. address[d] = a
  BY <1>1 DEF ListsInv, KeyedByAddress, TypeOK
<1>3. services[d][s] # None /\ TypeOK
  BY DEF ChangeCapability, ListsInv
<1>4. services' = [services EXCEPT ![d] = sv] /\ HasServices(sv)
  BY <1>3, RecappedServices DEF ChangeCapability
<1>5. sv \in [ServiceIds -> ServiceType \union {None}]
  BY <1>3, RecappedType
<1>6. HandleDeviceUpdate(d, a, sv)
  BY <1>2 DEF ChangeCapability
<1>7. /\ UNCHANGED <<address, allDevices, filters, hasPicker, capsPending, ghosted>>
      /\ capsPending' \subseteq Devices /\ capsPending \ {d} \subseteq capsPending'
  BY <1>3 DEF ChangeCapability, TypeOK
<1> HIDE DEF sv
<1> QED
  BY <1>1, <1>4, <1>5, <1>6, <1>7, ListedUpdate

LEMMA CapabilitiesAddedStep ==
    ASSUME ListsInv, NEW d \in Devices, CapabilitiesAdded(d)
    PROVE  ListsInv'
<1>1. /\ UNCHANGED <<address, services, allDevices, filters, hasPicker>>
      /\ HandleDeviceUpdate(d, address[d], services[d])
      /\ capsPending' = capsPending \ {d}
      /\ ghosted' = (ghosted \/ d \notin Listed)
  BY DEF CapabilitiesAdded
<1>2. CASE d \in Listed
  <2>1. PICK a \in Addresses : d = allDevices[a]
    BY <1>2 DEF Listed, Entries
  <2>2. address[d] = a
    BY <2>1 DEF ListsInv, KeyedByAddress, TypeOK
  <2>3. HasServices(services[d]) /\ services[d] \in [ServiceIds -> ServiceType \union {None}]
    BY <1>2 DEF ListsInv, ListedHaveServices, TypeOK
  <2>4. services' = [services EXCEPT ![d] = services[d]]
    BY <1>1 DEF ListsInv, TypeOK
  <2>5. ghosted' = ghosted
    BY <1>1, <1>2 DEF ListsInv, TypeOK
  <2>6. capsPending' \subseteq Devices /\ capsPending \ {d} \subseteq capsPending'
    BY <1>1 DEF ListsInv, TypeOK
  <2> QED
    BY <1>1, <2>1, <2>2, <2>3, <2>4, <2>5, <2>6, ListedUpdate
<1>3. CASE d \notin Listed
  <2> USE DEF ListsInv
  <2>1. ghosted' = TRUE
    BY <1>1, <1>3
  <2>2. ToldTypes
    BY <1>1, UpdateType DEF TypeOK
  <2>3. TypeOK'
    BY <1>1, <2>1, <2>2 DEF TypeOK, ToldTypes
  <2>4. KeyedByAddress' /\ ListedHaveServices'
    BY <1>1 DEF KeyedByAddress, ListedHaveServices, Listed, Entries
  <2>5. CompatibleIsListed' /\ FilteredListExact' /\ DelegateViewExact'
    BY <2>1 DEF CompatibleIsListed, FilteredListExact, DelegateViewExact
  <2> QED
    BY <2>3, <2>4, <2>5
<1> QED
  BY <1>2, <1>3

LEMMA FiltersStep ==
    ASSUME ListsInv, NEW fs \in FilterChoices, SetCapabilityFilters(fs)
    PROVE  ListsInv'
<1> USE DEF ListsInv
<1> DEFINE passes(a) == allDevices[a] # None /\ DeviceIsCompatible(services[allDevices[a]], fs)
           found == {allDevices[a] : a \in {b \in Addresses : passes(b)}}
<1>1. /\ filters' = fs
      /\ compatible' = [a \in Addresses |-> IF passes(a) THEN allDevices[a] ELSE None]
      /\ Tell(found, Entries(compatible), {})
      /\ UNCHANGED <<address, services, allDevices, hasPicker, picker, capsPending, ghosted>>
  BY DEF SetCapabilityFilters
<1>2. found \in SUBSET Devices /\ Entries(compatible) \in SUBSET Devices
  BY EntriesType DEF TypeOK
<1>3. TypeOK'
  <2>1. /\ view' \subseteq Devices
        /\ told' \in [found : SUBSET Devices, lost : SUBSET Devices, updated : SUBSET Devices]
    <3> HIDE DEF found
    <3> QED
      BY <1>1, <1>2, TellType
  <2>2. compatible' \in [Addresses -> Devices \union {None}]
    BY <1>1 DEF TypeOK
  <2> QED
    BY <1>1, <2>1, <2>2 DEF TypeOK
<1>4. KeyedByAddress' /\ ListedHaveServices'
  BY <1>1 DEF KeyedByAddress, ListedHaveServices, Listed, Entries
<1>5. CompatibleIsListed'
  BY <1>1 DEF CompatibleIsListed
<1>6. FilteredListExact'
  BY <1>1 DEF FilteredListExact
<1>7. DelegateViewExact'
  <2> SUFFICES ASSUME ~ghosted PROVE view' = Entries(compatible') /\ told'.updated \subseteq view'
    BY <1>1 DEF DelegateViewExact, Entries
  <2>1. view' = (view \ Entries(compatible)) \union found /\ told'.updated = {}
    BY <1>1, NoUpdate DEF Tell
  <2>2. view = Entries(compatible)
    BY DEF DelegateViewExact
  <2>3. Entries(compatible') = found
    BY <1>1 DEF Entries
  <2> QED
    BY <2>1, <2>2, <2>3
<1> QED
  BY <1>3, <1>4, <1>5, <1>6, <1>7

LEMMA PickerStep ==
    ASSUME ListsInv, DevicePicker
    PROVE  ListsInv'
<1> USE DEF ListsInv
<1>1. /\ hasPicker' = TRUE /\ picker' = compatible /\ Tell({}, {}, {})
      /\ UNCHANGED <<address, services, allDevices, compatible, filters, capsPending, ghosted>>
  BY DEF DevicePicker
<1>2. /\ view' = view /\ told'.updated = {}
      /\ told' \in [found : SUBSET Devices, lost : SUBSET Devices, updated : SUBSET Devices]
  BY <1>1, TellType, NoUpdate DEF Tell
<1>3. TypeOK'
  BY <1>1, <1>2 DEF TypeOK
<1>4. KeyedByAddress' /\ ListedHaveServices' /\ CompatibleIsListed' /\ DelegateViewExact'
  BY <1>1, <1>2 DEF KeyedByAddress, ListedHaveServices, CompatibleIsListed, DelegateViewExact, Listed, Entries
<1>5. FilteredListExact'
  BY <1>1 DEF FilteredListExact
<1> QED
  BY <1>3, <1>4, <1>5

LEMMA PurgeStep ==
    ASSUME ListsInv, PurgeDeviceList
    PROVE  ListsInv'
<1> USE DEF ListsInv
<1> DEFINE lost == Entries(compatible)
<1>1. /\ Tell({}, lost, {})
      /\ hasPicker' = (hasPicker \/ lost # {})
      /\ picker' = [a \in Addresses |-> IF \E d \in lost : address[d] = a THEN None ELSE picker[a]]
      /\ allDevices' = [a \in Addresses |-> None]
      /\ compatible' = [a \in Addresses |-> None]
      /\ UNCHANGED <<address, services, filters, capsPending, ghosted>>
  BY DEF PurgeDeviceList
<1>2. lost \in SUBSET Devices
  BY EntriesType DEF TypeOK
<1>3. TypeOK'
  <2>1. /\ view' \subseteq Devices
        /\ told' \in [found : SUBSET Devices, lost : SUBSET Devices, updated : SUBSET Devices]
    <3> HIDE DEF lost
    <3> QED
      BY <1>1, <1>2, TellType
  <2>2. picker' \in [Addresses -> Devices \union {None}] /\ hasPicker' \in BOOLEAN
    BY <1>1 DEF TypeOK
  <2>3. /\ allDevices' \in [Addresses -> Devices \union {None}]
        /\ compatible' \in [Addresses -> Devices \union {None}]
    BY <1>1
  <2> QED
    BY <1>1, <2>1, <2>2, <2>3 DEF TypeOK
<1>4. KeyedByAddress' /\ ListedHaveServices' /\ CompatibleIsListed' /\ FilteredListExact'
  BY <1>1 DEF KeyedByAddress, ListedHaveServices, CompatibleIsListed, FilteredListExact, Listed, Entries
<1>5. DelegateViewExact'
  <2> SUFFICES ASSUME ~ghosted PROVE view' = Entries(compatible') /\ told'.updated \subseteq view'
    BY <1>1 DEF DelegateViewExact, Entries
  <2>1. view' = view \ lost /\ view = lost /\ told'.updated = {}
    BY <1>1, NoUpdate DEF Tell, DelegateViewExact
  <2> QED
    BY <1>1, <2>1 DEF Entries
<1> QED
  BY <1>3, <1>4, <1>5

LEMMA ListsStep == ListsInv /\ [Next]_vars => ListsInv'
<1> SUFFICES ASSUME ListsInv, [Next]_vars PROVE ListsInv'
  OBVIOUS
<1>1. CASE UNCHANGED vars
  BY <1>1 DEF vars, ListsInv, TypeOK, KeyedByAddress, ListedHaveServices, CompatibleIsListed,
              FilteredListExact, DelegateViewExact, Listed, Entries
<1>2. CASE Next
  BY <1>2, FindNewStep, FindAnotherStep, LoseStep, SetCapabilitiesStep, CapabilitiesAddedStep,
     ChangeCapabilityStep, FiltersStep, PickerStep, PurgeStep DEF Next
<1> QED
  BY <1>1, <1>2

LEMMA ListsInvariant == Spec => []ListsInv
  BY ListsInit, ListsStep, PTL DEF Spec

----------------------------------------------------------------------------
(* Results *)

\* Every variable of the lists keeps its type.
THEOREM ListsTypeCorrect == Spec => []TypeOK
<1>1. ListsInv => TypeOK
  BY DEF ListsInv
<1> QED
  BY <1>1, ListsInvariant, PTL

\* As long as no capability change reaches handleDeviceUpdate: for a device
\* that is no longer listed, compatibleDevices is exactly the filtered
\* allDevices, but for devices whose change is still in the main queue.
THEOREM FilteringIsExact == Spec => []FilteredListExact
<1>1. ListsInv => FilteredListExact
  BY DEF ListsInv
<1> QED
  BY <1>1, ListsInvariant, PTL

\* Under the same proviso, a delegate that follows didFindDevice and
\* didLoseDevice has the devices of compatibleDevices and no other, and
\* didUpdateDevice is only sent for one of them.
THEOREM DelegateIsExact == Spec => []DelegateViewExact
<1>1. ListsInv => DelegateViewExact
  BY DEF ListsInv
<1> QED
  BY <1>1, ListsInvariant, PTL

\* didFindService: and didLoseService: never leave a listed device without services.
THEOREM NoEmptyDevice == Spec => []ListedHaveServices
<1>1. ListsInv => ListedHaveServices
  BY DEF ListsInv
<1> QED
  BY <1>1, ListsInvariant, PTL

-----------------------------------------------------------------------------
(* The picker: what each message leaves of its list                         *)

LEMMA AddKeepsPicker ==
    ASSUME TypeOK, PickerShowsCompatible, hasPicker' = hasPicker,
           NEW d \in Devices, NEW a \in Addresses, NEW sv, HandleDeviceAdd(d, a, sv)
    PROVE  PickerShowsCompatible'
<1>1. CASE DeviceIsCompatible(sv, filters)
  BY <1>1 DEF HandleDeviceAdd, PickerShowsCompatible, TypeOK
<1>2. CASE ~DeviceIsCompatible(sv, filters)
  BY <1>2 DEF HandleDeviceAdd, PickerShowsCompatible
<1> QED
  BY <1>1, <1>2

\* A loss is told to the picker for the address that leaves the filtered list.
LEMMA LossKeepsPicker ==
    ASSUME TypeOK, PickerShowsCompatible, hasPicker' = hasPicker,
           NEW d \in Devices, NEW a \in Addresses, HandleDeviceLoss(d, a),
           compatible' = [compatible EXCEPT ![a] = None]
    PROVE  PickerShowsCompatible'
  BY DEF HandleDeviceLoss, PickerShowsCompatible, TypeOK

LEMMA UpdateKeepsPicker ==
    ASSUME TypeOK, PickerShowsCompatible, hasPicker' = hasPicker,
           NEW d \in Devices, NEW a \in Addresses, NEW sv, HandleDeviceUpdate(d, a, sv)
    PROVE  PickerShowsCompatible'
<1>1. CASE DeviceIsCompatible(sv, filters) /\ compatible[a] # None
  BY <1>1 DEF HandleDeviceUpdate, PickerShowsCompatible
<1>2. CASE DeviceIsCompatible(sv, filters) /\ compatible[a] = None
  BY <1>2, AddKeepsPicker DEF HandleDeviceUpdate
<1>3. CASE ~DeviceIsCompatible(sv, filters)
  BY <1>3, LossKeepsPicker DEF HandleDeviceUpdate
<1> QED
  BY <1>1, <1>2, <1>3

LEMMA PickerStays ==
    ASSUME ListsInv, PickerShowsCompatible, Next,
           ~(\E fs \in FilterChoices : SetCapabilityFilters(fs))
    PROVE  PickerShowsCompatible'
<1> USE DEF ListsInv
<1>1. ASSUME NEW desc \in Descriptions, DidFindNewDevice(desc) PROVE PickerShowsCompatible'
  <2> DEFINE a == desc.address
             sv == AddServiceDescription(desc, NoServices)
  <2>1. PICK d \in Free :
          IF HasServices(sv)
          THEN /\ allDevices' = [allDevices EXCEPT ![a] = d]
               /\ HandleDeviceAdd(d, a, sv)
          ELSE Tell({}, {}, {}) /\ UNCHANGED <<allDevices, compatible, picker>>
    BY <1>1 DEF DidFindNewDevice
  <2>2. d \in Devices /\ a \in Addresses /\ hasPicker' = hasPicker
    BY <1>1 DEF Free, DescriptionType, DidFindNewDevice
  <2>3. CASE HasServices(sv)
    BY <2>1, <2>2, <2>3, AddKeepsPicker
  <2>4. CASE ~HasServices(sv)
    BY <2>1, <2>2, <2>4 DEF PickerShowsCompatible
  <2> QED
    BY <2>3, <2>4
<1>2. ASSUME NEW desc \in Descriptions, DidFindAnotherService(desc) PROVE PickerShowsCompatible'
  <2> DEFINE d == allDevices[desc.address]
             sv == AddServiceDescription(desc, services[d])
  <2>1. d \in Devices /\ desc.address \in Addresses
    BY <1>2 DEF DidFindAnotherService, DescriptionType, TypeOK
  <2>2. address'[d] \in Addresses /\ hasPicker' = hasPicker /\ HandleDeviceUpdate(d, address'[d], sv)
    BY <1>2, <2>1 DEF DidFindAnotherService, TypeOK
  <2> QED
    BY <2>1, <2>2, UpdateKeepsPicker
<1>3. ASSUME NEW desc \in Descriptions, DidLoseService(desc) PROVE PickerShowsCompatible'
  <2> DEFINE a == desc.address
             d == allDevices[a]
             sv == [services[d] EXCEPT ![desc.serviceId] = None]
  <2>1. d \in Devices /\ a \in Addresses /\ hasPicker' = hasPicker
    BY <1>3 DEF DidLoseService, DescriptionType, TypeOK
  <2>2. address[d] = a
    BY <2>1 DEF KeyedByAddress
  <2>3. CASE HasServices(sv)
    <3>1. HandleDeviceUpdate(d, a, sv)
      BY <1>3, <2>2, <2>3 DEF DidLoseService
    <3> QED
      BY <2>1, <3>1, UpdateKeepsPicker
  <2>4. CASE ~HasServices(sv)
    <3>1. HandleDeviceLoss(d, a) /\ compatible' = [compatible EXCEPT ![a] = None]
      BY <1>3, <2>2, <2>4 DEF DidLoseService
    <3> QED
      BY <2>1, <3>1, LossKeepsPicker
  <2> QED
    BY <2>3, <2>4
<1>4. ASSUME NEW d \in Devices, NEW s \in ServiceIds, NEW caps \in SUBSET Capabilities,
             SetCapabilities(d, s, caps)
      PROVE  PickerShowsCompatible'
  BY <1>4 DEF SetCapabilities, PickerShowsCompatible
<1>5. ASSUME NEW d \in Devices, CapabilitiesAdded(d) PROVE PickerShowsCompatible'
  <2>1. address[d] \in Addresses /\ hasPicker' = hasPicker /\ HandleDeviceUpdate(d, address[d], services[d])
    BY <1>5 DEF CapabilitiesAdded, TypeOK
  <2> QED
    BY <2>1, UpdateKeepsPicker
<1>6. ASSUME NEW d \in Devices, NEW s \in ServiceIds, NEW caps \in SUBSET Capabilities,
             ChangeCapability(d, s, caps)
      PROVE  PickerShowsCompatible'
  <2>1. address[d] \in Addresses /\ hasPicker' = hasPicker /\ HandleDeviceUpdate(d, address[d], services'[d])
    BY <1>6 DEF ChangeCapability, TypeOK
  <2> QED
    BY <2>1, UpdateKeepsPicker
<1>7. CASE DevicePicker
  BY <1>7 DEF DevicePicker, PickerShowsCompatible
<1>8. CASE PurgeDeviceList
  BY <1>8 DEF PurgeDeviceList, PickerShowsCompatible
<1> QED
  BY <1>1, <1>2, <1>3, <1>4, <1>5, <1>6, <1>7, <1>8 DEF Next

\* The picker's list, kept from the messages of handleDeviceAdd:, handleDeviceUpdate:
\* and handleDeviceLoss:, goes on showing compatibleDevices through every step but a
\* change of the filters - capability changes of devices already lost included.
THEOREM PickerKeepsUp == Spec => PickerFollows
<1> DEFINE Follows == PickerShowsCompatible /\ ~(\E fs \in FilterChoices : SetCapabilityFilters(fs))
                        => PickerShowsCompatible'
<1>1. ListsInv /\ [Next]_vars => [Follows]_vars
  BY PickerStays
<1> QED
  BY <1>1, ListsInvariant, PTL DEF Spec, PickerFollows
=============================================================================
