------------------------ MODULE SSDPDiscoveryProvider ------------------------
(***************************************************************************)
(* SSDPDiscoveryProvider (src/Discovery/Providers/SSDPDiscoveryProvider.m): *)
(* the search requests, the datagrams that answer them, the loads of the    *)
(* location XML and what the provider tells its delegate, the manager.      *)
(*                                                                          *)
(* Three kinds of threads meet here.  startDiscovery, stopDiscovery,        *)
(* addDeviceFilter, the handler of a datagram and the delegate's messages   *)
(* run on the main thread, the last two as blocks of the main queue; the    *)
(* handler of the refresh timer runs on a global queue and the end of a     *)
(* location load on _locationLoadQueue.  A lock guards each dictionary, but *)
(* nothing orders the critical sections of one load with a datagram or a    *)
(* stop that comes in between.                                              *)
(*                                                                          *)
(* A ServiceDescription is an object with identity: it is created for a     *)
(* datagram, kept in _helloDevices, completed by a load, then kept in       *)
(* _foundServices.  Slot n stands for the n-th object that is referenced    *)
(* and for the load its datagram started.                                   *)
(***************************************************************************)
EXTENDS Naturals, Sequences

CONSTANTS
    UUIDs,       \* devices, by the UUID of their USN
    Types,       \* search targets: the ST and NT headers and ssdp.filter
    ServiceIds,
    Filters,     \* the device filters services register, [serviceId, filter]
    Announces,   \* <<uuid, type>>: the types a device announces
    Fitting,     \* those whose location XML has the services the filter requires
    Slots,       \* bound: descriptions and loads alive at a time
    MaxQueue,    \* bound: no datagram arrives when more blocks wait in the main queue
    None

ASSUME SSDPAssumption ==
    /\ Filters \subseteq [serviceId : ServiceIds, filter : Types]
    /\ Announces \subseteq UUIDs \X Types
    /\ Fitting \subseteq Announces
    /\ MaxQueue \in Nat
    /\ None \notin UUIDs \cup Types \cup Slots

VARIABLES
    isRunning,
    refreshTimer,    \* refreshTimer is not nil
    refreshing,      \* a handler of the timer was started and has not searched yet
    socketsOpen,     \* _searchSocket and _multicastSocket
    serviceFilters,  \* _serviceFilters, whose order does not matter
    foundServices,   \* _foundServices: the description of a UUID, or None
    helloDevices,    \* _helloDevices: likewise, while its location XML loads
    type,            \* description.type, by slot
    loads,           \* the location load of each slot
    mainQueue,       \* blocks: datagrams to handle and messages to the delegate
    told,            \* history: <<uuid, serviceId>> found and not lost, for the delegate
    present          \* environment: the devices on the network

vars == <<isRunning, refreshTimer, refreshing, socketsOpen, serviceFilters, foundServices,
          helloDevices, type, loads, mainQueue, told, present>>

control == <<isRunning, refreshTimer, refreshing, socketsOpen, serviceFilters>>

LoadType ==
    [pc : {"idle", "loading", "queued", "put", "notify", "end"}, uuid : UUIDs \cup {None},
     type : Types \cup {None}, result : {"none", "xml", "error"}, service : Slots \cup {None}]

IdleLoad ==
    [pc |-> "idle", uuid |-> None, type |-> None, result |-> "none", service |-> None]

BlockType ==
    [kind : {"alive", "byebye"}, uuid : UUIDs, type : Types]
        \cup [kind : {"found", "lost"}, uuid : UUIDs, ids : SUBSET ServiceIds]

TypeOK ==
    /\ isRunning \in BOOLEAN
    /\ refreshTimer \in BOOLEAN
    /\ refreshing \in BOOLEAN
    /\ socketsOpen \in BOOLEAN
    /\ serviceFilters \subseteq Filters
    /\ foundServices \in [UUIDs -> Slots \cup {None}]
    /\ helloDevices \in [UUIDs -> Slots \cup {None}]
    /\ type \in [Slots -> Types \cup {None}]
    /\ loads \in [Slots -> LoadType]
    /\ mainQueue \in Seq(BlockType)
    /\ told \subseteq UUIDs \X ServiceIds
    /\ present \subseteq UUIDs

Init ==
    /\ isRunning = FALSE
    /\ refreshTimer = FALSE
    /\ refreshing = FALSE
    /\ socketsOpen = FALSE
    /\ serviceFilters = {}
    /\ foundServices = [u \in UUIDs |-> None]
    /\ helloDevices = [u \in UUIDs |-> None]
    /\ type = [n \in Slots |-> None]
    /\ loads = [n \in Slots |-> IdleLoad]
    /\ mainQueue = <<>>
    /\ told = {}
    /\ present = UUIDs

-----------------------------------------------------------------------------
(* Helpers.                                                                  *)

SearchFilters == {f.filter : f \in serviceFilters}

IsSearchingForFilter(t) == t \in SearchFilters

ServiceIdsForFilter(t) == {f.serviceId : f \in {g \in serviceFilters : g.filter = t}}

\* notifyDelegateOfNewService: and notifyDelegateOfLostService: dispatch a message
\* per service id, one after the other: here one block that carries the ids.
Message(kind, u, t) == [kind |-> kind, uuid |-> u, ids |-> ServiceIdsForFilter(t)]

Referenced(n) ==
    \/ loads[n].pc # "idle"
    \/ \E u \in UUIDs : n \in {foundServices[u], helloDevices[u]}
    \/ \E m \in Slots : loads[m].service = n

FreeSlots == {n \in Slots : ~Referenced(n)}

\* sendSearchRequests:NO.  One M-SEARCH per filter; sendRequestForFilter opens
\* the sockets that are closed, whether or not the provider still runs.
SendSearchRequests == socketsOpen' = (socketsOpen \/ serviceFilters # {})

-----------------------------------------------------------------------------
(* Control: the main thread and the refresh timer.                           *)

\* Mutant: the search is sent once and not repeated.
StartDiscovery_OneSearch ==
    /\ ~isRunning
    /\ isRunning' = TRUE
    /\ SendSearchRequests
    /\ UNCHANGED <<refreshTimer, refreshing, serviceFilters, foundServices, helloDevices, type,
                   loads, mainQueue, told, present>>

StartDiscovery ==
    /\ ~isRunning
    /\ isRunning' = TRUE
    /\ IF refreshTimer
       THEN UNCHANGED <<refreshTimer, socketsOpen>>
       ELSE SendSearchRequests /\ refreshTimer' = TRUE
    /\ UNCHANGED <<refreshing, serviceFilters, foundServices, helloDevices, type, loads,
                   mainQueue, told, present>>

\* Mutant: the services being loaded are kept over a stop.
StopDiscovery_KeepsHello ==
    /\ isRunning' = FALSE
    /\ refreshTimer' = FALSE
    /\ socketsOpen' = FALSE
    /\ foundServices' = [u \in UUIDs |-> None]
    /\ loads' = [n \in Slots |-> IF loads[n].pc = "queued" THEN IdleLoad ELSE loads[n]]
    /\ UNCHANGED <<refreshing, serviceFilters, helloDevices, type, mainQueue, told, present>>

\* cancelAllOperations drops the completion blocks that have not started; a
\* request that is still loading, or a block that runs, goes on.
StopDiscovery ==
    /\ refreshTimer' = FALSE
    /\ socketsOpen' = FALSE
    /\ foundServices' = [u \in UUIDs |-> None]
    /\ helloDevices' = [u \in UUIDs |-> None]
    /\ loads' = [n \in Slots |-> IF loads[n].pc = "queued" THEN IdleLoad ELSE loads[n]]
    /\ isRunning' = FALSE
    /\ UNCHANGED <<refreshing, serviceFilters, type, mainQueue, told, present>>

\* Each filter is registered at most once.
AddDeviceFilter(f) ==
    /\ f \notin serviceFilters
    /\ serviceFilters' = serviceFilters \cup {f}
    /\ UNCHANGED <<isRunning, refreshTimer, refreshing, socketsOpen, foundServices, helloDevices,
                   type, loads, mainQueue, told, present>>

\* The timer starts its handler on a global queue.
RefreshFires ==
    /\ refreshTimer
    /\ refreshing' = TRUE
    /\ UNCHANGED <<isRunning, refreshTimer, socketsOpen, serviceFilters, foundServices,
                   helloDevices, type, loads, mainQueue, told, present>>

\* The handler, which a cancel of the timer does not wait for.
RefreshSearches ==
    /\ refreshing
    /\ refreshing' = FALSE
    /\ SendSearchRequests
    /\ UNCHANGED <<isRunning, refreshTimer, serviceFilters, foundServices, helloDevices, type,
                   loads, mainQueue, told, present>>

-----------------------------------------------------------------------------
(* The network.  Datagrams may be lost, repeated and late.  The listener     *)
(* hands each one it reads to the main queue.                                *)

Arrive(kind, u, t) ==
    mainQueue' = Append(mainQueue, [kind |-> kind, uuid |-> u, type |-> t])

\* The search of the timer, and one answer to it.  (Answers that take longer, or
\* to the search of startDiscovery, are datagrams like any other: see Datagram.)
SearchIsAnswered(u, t) ==
    /\ refreshing
    /\ refreshing' = FALSE
    /\ SendSearchRequests
    /\ u \in present
    /\ IsSearchingForFilter(t)
    /\ Len(mainQueue) <= MaxQueue
    /\ Arrive("alive", u, t)
    /\ UNCHANGED <<isRunning, refreshTimer, serviceFilters, foundServices, helloDevices, type,
                   loads, told, present>>

\* The answer to a search, or a NOTIFY, ssdp:alive or ssdp:byebye.
Datagram(kind, u, t) ==
    /\ socketsOpen
    /\ Len(mainQueue) < MaxQueue
    /\ kind = "alive" => u \in present
    /\ Arrive(kind, u, t)
    /\ UNCHANGED <<control, foundServices, helloDevices, type, loads, told, present>>

\* A device is switched off, or leaves the network without a word.
Leave(u) ==
    /\ u \in present
    /\ present' = present \ {u}
    /\ UNCHANGED <<control, foundServices, helloDevices, type, loads, mainQueue, told>>

-----------------------------------------------------------------------------
(* socket:didReceiveData:fromAddress:, a block of the main queue.            *)

IsHead(kind) == mainQueue # <<>> /\ Head(mainQueue).kind = kind

\* An advertisement or the answer to a search.  A UUID that is neither found nor
\* being loaded gets a description and getLocationData; for any other only
\* lastDetection changes, which nothing reads (see RefreshSearches).
ReceiveAlive ==
    LET u == Head(mainQueue).uuid
        t == Head(mainQueue).type
    IN /\ IsHead("alive")
       /\ IF IsSearchingForFilter(t) /\ foundServices[u] = None /\ helloDevices[u] = None
          THEN \E n \in FreeSlots :
                   /\ helloDevices' = [helloDevices EXCEPT ![u] = n]
                   /\ type' = [type EXCEPT ![n] = t]
                   /\ loads' = [loads EXCEPT ![n] = [IdleLoad EXCEPT !.pc = "loading",
                                                                     !.uuid = u, !.type = t]]
          ELSE UNCHANGED <<helloDevices, type, loads>>
       /\ mainQueue' = Tail(mainQueue)
       /\ UNCHANGED <<control, foundServices, told, present>>

\* Mutant: the delegate is told, but the service stays in the dictionary.
ReceiveByebye_KeepsFound ==
    LET u == Head(mainQueue).uuid
        t == Head(mainQueue).type
    IN /\ IsHead("byebye")
       /\ IF IsSearchingForFilter(t) /\ foundServices[u] # None
          THEN mainQueue' = Append(Tail(mainQueue), Message("lost", u, type[foundServices[u]]))
          ELSE mainQueue' = Tail(mainQueue)
       /\ UNCHANGED <<control, foundServices, helloDevices, type, loads, told, present>>

\* A goodbye.  Only a service that is found is lost: one whose location XML is
\* still loading is not forgotten.
ReceiveByebye ==
    LET u == Head(mainQueue).uuid
        t == Head(mainQueue).type
    IN /\ IsHead("byebye")
       /\ IF IsSearchingForFilter(t) /\ foundServices[u] # None
          THEN /\ mainQueue' = Append(Tail(mainQueue), Message("lost", u, type[foundServices[u]]))
               /\ foundServices' = [foundServices EXCEPT ![u] = None]
          ELSE /\ mainQueue' = Tail(mainQueue)
               /\ UNCHANGED foundServices
       /\ UNCHANGED <<control, helloDevices, type, loads, told, present>>

-----------------------------------------------------------------------------
(* getLocationData:forKey:andType:.  The request ends, then its completion   *)
(* block runs on _locationLoadQueue, one critical section at a time.         *)

\* The request ends with the device's XML, or with an error.
LoadEnds(n, result) ==
    /\ loads[n].pc = "loading"
    /\ result = "xml" => loads[n].uuid \in present
    /\ loads' = [loads EXCEPT ![n] = [@ EXCEPT !.pc = "queued", !.result = result]]
    /\ UNCHANGED <<control, foundServices, helloDevices, type, mainQueue, told, present>>

\* The block starts: the XML is searched for a device with the required
\* services, and the description is looked up and filled in.
LoadLooksUp(n) ==
    LET u == loads[n].uuid
        service == IF loads[n].result = "xml" /\ <<u, loads[n].type>> \in Fitting
                   THEN helloDevices[u] ELSE None
    IN /\ loads[n].pc = "queued"
       /\ IF service # None
          THEN /\ type' = [type EXCEPT ![service] = loads[n].type]
               /\ loads' = [loads EXCEPT ![n] = [@ EXCEPT !.pc = "put", !.service = service]]
          ELSE /\ loads' = [loads EXCEPT ![n] = [@ EXCEPT !.pc = "end"]]
               /\ UNCHANGED type
       /\ UNCHANGED <<control, foundServices, helloDevices, mainQueue, told, present>>

\* Mutant: the UUID is stored in place of the description.
LoadPutsFound_Key(n) ==
    /\ loads[n].pc = "put"
    /\ foundServices' = [foundServices EXCEPT ![loads[n].uuid] = loads[n].uuid]
    /\ loads' = [loads EXCEPT ![n] = [@ EXCEPT !.pc = "notify"]]
    /\ UNCHANGED <<control, helloDevices, type, mainQueue, told, present>>

LoadPutsFound(n) ==
    /\ loads[n].pc = "put"
    /\ foundServices' = [foundServices EXCEPT ![loads[n].uuid] = loads[n].service]
    /\ loads' = [loads EXCEPT ![n] = [@ EXCEPT !.pc = "notify"]]
    /\ UNCHANGED <<control, helloDevices, type, mainQueue, told, present>>

\* notifyDelegateOfNewService:, after the lock is released.
LoadNotifies(n) ==
    /\ loads[n].pc = "notify"
    /\ mainQueue' = Append(mainQueue, Message("found", loads[n].uuid, type[loads[n].service]))
    /\ loads' = [loads EXCEPT ![n] = [@ EXCEPT !.pc = "end"]]
    /\ UNCHANGED <<control, foundServices, helloDevices, type, told, present>>

\* The end of the block, whatever the load brought.
LoadRemovesHello(n) ==
    /\ loads[n].pc = "end"
    /\ helloDevices' = [helloDevices EXCEPT ![loads[n].uuid] = None]
    /\ loads' = [loads EXCEPT ![n] = IdleLoad]
    /\ UNCHANGED <<control, foundServices, type, mainQueue, told, present>>

\* discoveryProvider:didFindService: and didLoseService: reach the delegate.
Deliver ==
    LET block == Head(mainQueue)
    IN /\ IsHead("found") \/ IsHead("lost")
       /\ told' = IF block.kind = "found" THEN told \cup ({block.uuid} \X block.ids)
                  ELSE told \ ({block.uuid} \X block.ids)
       /\ mainQueue' = Tail(mainQueue)
       /\ UNCHANGED <<control, foundServices, helloDevices, type, loads, present>>

-----------------------------------------------------------------------------
MainThread == ReceiveAlive \/ ReceiveByebye \/ Deliver

LoadRuns(n) ==
    \/ LoadLooksUp(n) \/ LoadPutsFound(n) \/ LoadNotifies(n) \/ LoadRemovesHello(n)

Next ==
    \/ StartDiscovery
    \/ StopDiscovery
    \/ \E f \in Filters : AddDeviceFilter(f)
    \/ RefreshFires
    \/ RefreshSearches
    \/ \E a \in Announces : SearchIsAnswered(a[1], a[2])
    \/ \E a \in Announces, kind \in {"alive", "byebye"} : Datagram(kind, a[1], a[2])
    \/ \E u \in UUIDs : Leave(u)
    \/ MainThread
    \/ \E n \in Slots : LoadRuns(n) \/ \E result \in {"xml", "error"} : LoadEnds(n, result)

Spec == Init /\ [][Next]_vars

LoadSucceeds(u) == \E n \in Slots : loads[n].uuid = u /\ LoadEnds(n, "xml")

\* The queues and the timer go on; a request ends; a device that is asked again
\* and again, and whose XML is requested again and again, is heard at last.
Fairness ==
    /\ WF_vars(RefreshFires)
    /\ WF_vars(RefreshSearches)
    /\ WF_vars(MainThread)
    /\ \A n \in Slots : WF_vars(LoadRuns(n)) /\ WF_vars(LoadEnds(n, "error"))
    /\ \A a \in Announces : SF_vars(SearchIsAnswered(a[1], a[2]))
    /\ \A u \in UUIDs : SF_vars(LoadSucceeds(u))

FairSpec == Spec /\ Fairness

-----------------------------------------------------------------------------
(* Properties.                                                               *)

\* A UUID that has an entry in _helloDevices has a load under way that will
\* remove the entry (the last statement of getLocationData's block), also when a
\* stop cancelled loads or an older load of the same UUID ended: no device is
\* ignored for good because socket:didReceiveData: takes it for being loaded.
HelloIsLoading ==
    \A u \in UUIDs : helloDevices[u] # None =>
        /\ loads[helloDevices[u]].uuid = u
        /\ loads[helloDevices[u]].pc # "idle"

IsMessage(block, kind, u, id) == block.kind = kind /\ block.uuid = u /\ id \in block.ids

\* A delegate that knows the services T, and will run the queue q, will know the
\* service u, id in the end.
WillKnow(q, T, u, id) ==
    \/ /\ <<u, id>> \in T
       /\ \A j \in 1..Len(q) : ~IsMessage(q[j], "lost", u, id)
    \/ \E i \in 1..Len(q) :
           /\ IsMessage(q[i], "found", u, id)
           /\ \A j \in i + 1..Len(q) : ~IsMessage(q[j], "lost", u, id)

WillBeTold(u, id) == WillKnow(mainQueue, told, u, id)

IsNotifying(u) ==
    \E n \in Slots : loads[n].uuid = u /\ loads[n].pc = "notify"

\* A service in _foundServices, whose later answers are ignored, is known to the
\* delegate for one of its service ids, or a message is on its way: a goodbye, a
\* stop and a restart between the sections of a load never swallow the find.
FoundIsTold ==
    \A u \in UUIDs : foundServices[u] # None =>
        IsNotifying(u) \/ \E id \in ServiceIds : WillBeTold(u, id)

\* The provider goes on running and is registered for the device's types.
KeepsLooking(u) ==
    isRunning /\ \A t \in Types : <<u, t>> \in Announces => IsSearchingForFilter(t)

IsLoading(u) == \E n \in Slots : loads[n].uuid = u

\* A device that stays on the network and announces only services that fit is
\* reported to the delegate at last, whatever was lost, failed, stopped or said
\* goodbye before (the refresh timer repeats the search).  The loads of one UUID
\* must not overlap for ever: each could then be robbed of its entry in
\* _helloDevices by the end of the one before, which is no worry with loads that
\* take less than the ten seconds between two searches.
PresentIsReported ==
    \A u \in UUIDs :
        /\ \E t \in Types : <<u, t>> \in Announces
        /\ \A t \in Types : <<u, t>> \in Announces => <<u, t>> \in Fitting
        => (<>[](u \in present /\ KeepsLooking(u)) /\ []<>~IsLoading(u)
               => []<>(\E id \in ServiceIds : <<u, id>> \in told))
=============================================================================
