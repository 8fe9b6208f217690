--------------------- MODULE SSDPDiscoveryProviderProofs ---------------------
(***************************************************************************)
(* For every set of devices, types, filters and overlapping loads: no entry *)
(* of _helloDevices is left without a load, and no find is swallowed.       *)
(***************************************************************************)
EXTENDS SSDPDiscoveryProvider, TLAPS

\* Descriptions and loads are of types some filter searches for, so that a find
\* is reported for one service id at least.
TypesSearched == \A n \in Slots : type[n] # None => IsSearchingForFilter(type[n])

LoadsSearched ==
    \A n \in Slots : loads[n].pc # "idle" =>
        loads[n].uuid \in UUIDs /\ IsSearchingForFilter(loads[n].type)

ServicesSearched ==
    \A n \in Slots : loads[n].pc \in {"put", "notify"} =>
        loads[n].service \in Slots /\ IsSearchingForFilter(type[loads[n].service])

TypesRegistered == TypesSearched /\ LoadsSearched /\ ServicesSearched

ProviderInv == TypeOK /\ HelloIsLoading /\ TypesRegistered /\ FoundIsTold

-----------------------------------------------------------------------------
\* What registration adds to _serviceFilters stays there.
LEMMA FiltersGrow ==
    ASSUME serviceFilters \subseteq serviceFilters'
    PROVE  \A t : IsSearchingForFilter(t) => IsSearchingForFilter(t)'
BY DEF IsSearchingForFilter, SearchFilters

\* isSearchingForFilter and serviceIdsForFilter look at the same filters.
LEMMA SearchedHasIds ==
    ASSUME TypeOK, NEW t, IsSearchingForFilter(t)
    PROVE  \E id \in ServiceIds : id \in ServiceIdsForFilter(t)
<1>1. PICK f \in serviceFilters : f.filter = t
  BY DEF IsSearchingForFilter, SearchFilters
<1>2. f.serviceId \in ServiceIds
  BY <1>1, SSDPAssumption DEF TypeOK
<1>. QED
  BY <1>1, <1>2 DEF ServiceIdsForFilter

\* A block at the end of the main queue that is not the loss of a service leaves
\* the delegate's last word on the service as it is.
LEMMA AppendKeeps ==
    ASSUME NEW q \in Seq(BlockType), NEW b \in BlockType, NEW T, NEW u, NEW id,
           WillKnow(q, T, u, id), ~IsMessage(b, "lost", u, id)
    PROVE  WillKnow(Append(q, b), T, u, id)
<1>. DEFINE p == Append(q, b)
<1>1. /\ Len(q) \in Nat /\ Len(p) = Len(q) + 1
      /\ \A i \in 1..Len(q) : p[i] = q[i]
      /\ p[Len(q) + 1] = b
  OBVIOUS
<1>. HIDE DEF p
<1>2. \A j \in 1..Len(p) : (j \in 1..Len(q) /\ p[j] = q[j]) \/ (j = Len(q) + 1 /\ p[j] = b)
  BY <1>1
<1>3. CASE /\ <<u, id>> \in T
           /\ \A j \in 1..Len(q) : ~IsMessage(q[j], "lost", u, id)
  <2>1. \A j \in 1..Len(p) : ~IsMessage(p[j], "lost", u, id)
    BY <1>2, <1>3
  <2>2. WillKnow(p, T, u, id)
    BY <1>3, <2>1 DEF WillKnow
  <2>. QED
    BY <2>2 DEF p
<1>4. ASSUME NEW i \in 1..Len(q), IsMessage(q[i], "found", u, id),
             \A j \in i + 1..Len(q) : ~IsMessage(q[j], "lost", u, id)
      PROVE  WillKnow(Append(q, b), T, u, id)
  <2>1. i \in 1..Len(p) /\ p[i] = q[i]
    BY <1>1
  <2>2. \A j \in i + 1..Len(p) : j \in 1..Len(p) /\ (j \in i + 1..Len(q) \/ j = Len(q) + 1)
    BY <1>1
  <2>3. \A j \in i + 1..Len(p) : ~IsMessage(p[j], "lost", u, id)
    BY <1>2, <1>4, <2>2
  <2>4. WillKnow(p, T, u, id)
    BY <1>4, <2>1, <2>3 DEF WillKnow
  <2>. QED
    BY <2>4 DEF p
<1>. QED
  BY <1>3, <1>4 DEF WillKnow

\* A find at the end of the main queue is the last word.
LEMMA AppendFinds ==
    ASSUME NEW q \in Seq(BlockType), NEW b \in BlockType, NEW T, NEW u, NEW id,
           IsMessage(b, "found", u, id)
    PROVE  WillKnow(Append(q, b), T, u, id)
<1>. DEFINE p == Append(q, b)
<1>1. Len(p) \in Nat /\ Len(p) \in 1..Len(p) /\ p[Len(p)] = b
  OBVIOUS
<1>. HIDE DEF p
<1>2. \A j \in Len(p) + 1..Len(p) : FALSE
  BY <1>1
<1>3. WillKnow(p, T, u, id)
  BY <1>1, <1>2 DEF WillKnow
<1>. QED
  BY <1>3 DEF p

\* The delegate's last word is the same after the head of the queue has run, if a
\* message at the head has reached the delegate.
LEMMA TailKeeps ==
    ASSUME NEW q \in Seq(BlockType), q # <<>>, NEW T, NEW S, NEW u, NEW id,
           WillKnow(q, T, u, id),
           IsMessage(q[1], "found", u, id) => <<u, id>> \in S,
           <<u, id>> \in T /\ ~IsMessage(q[1], "lost", u, id) => <<u, id>> \in S
    PROVE  WillKnow(Tail(q), S, u, id)
<1>. DEFINE p == Tail(q)
<1>1. /\ Len(q) \in Nat \ {0} /\ Len(p) = Len(q) - 1
      /\ \A i \in 1..Len(p) : p[i] = q[i + 1] /\ i + 1 \in 1..Len(q)
  OBVIOUS
<1>. HIDE DEF p
<1>2. CASE /\ <<u, id>> \in T
           /\ \A j \in 1..Len(q) : ~IsMessage(q[j], "lost", u, id)
  <2>1. <<u, id>> \in S
    BY <1>1, <1>2
  <2>2. \A j \in 1..Len(p) : ~IsMessage(p[j], "lost", u, id)
    BY <1>1, <1>2
  <2>3. WillKnow(p, S, u, id)
    BY <2>1, <2>2 DEF WillKnow
  <2>. QED
    BY <2>3 DEF p
<1>3. ASSUME NEW i \in 1..Len(q), IsMessage(q[i], "found", u, id),
             \A j \in i + 1..Len(q) : ~IsMessage(q[j], "lost", u, id)
      PROVE  WillKnow(p, S, u, id)
  <2>1. CASE i = 1
    <3>1. <<u, id>> \in S
      BY <1>3, <2>1
    <3>2. \A j \in 1..Len(p) : j + 1 \in i + 1..Len(q) /\ p[j] = q[j + 1]
      BY <1>1, <2>1
    <3>3. \A j \in 1..Len(p) : ~IsMessage(p[j], "lost", u, id)
      BY <1>3, <3>2
    <3>. QED
      BY <3>1, <3>3 DEF WillKnow
  <2>2. CASE i # 1
    <3>1. i - 1 \in 1..Len(p) /\ (i - 1) + 1 = i /\ p[i - 1] = q[i]
      BY <1>1, <2>2
    <3>2. \A j \in (i - 1) + 1..Len(p) : j + 1 \in i + 1..Len(q) /\ p[j] = q[j + 1]
      BY <1>1, <3>1
    <3>3. \A j \in (i - 1) + 1..Len(p) : ~IsMessage(p[j], "lost", u, id)
      BY <1>3, <3>2
    <3>. QED
      BY <1>3, <3>1, <3>3 DEF WillKnow
  <2>. QED
    BY <2>1, <2>2
<1>. QED
  BY <1>2, <1>3 DEF WillKnow, p

\* The two ways a load's lookup ends: with nothing, or with the description of
\* the entry, whose type it sets.
LEMMA LookUpEnds ==
    ASSUME TypeOK, TypesRegistered, NEW n \in Slots, LoadLooksUp(n)
    PROVE  /\ loads[n].uuid \in UUIDs /\ loads[n].pc = "queued"
           /\ \/ /\ type' = type
                 /\ loads' = [loads EXCEPT ![n] = [@ EXCEPT !.pc = "end"]]
              \/ \E m \in Slots :
                     /\ type' = [type EXCEPT ![m] = loads[n].type]
                     /\ loads' = [loads EXCEPT ![n] = [@ EXCEPT !.pc = "put", !.service = m]]
<1>1. loads[n].uuid \in UUIDs /\ loads[n].pc = "queued"
  BY DEF LoadLooksUp, TypesRegistered, TypesSearched, LoadsSearched, ServicesSearched
<1>2. helloDevices[loads[n].uuid] \in Slots \cup {None}
  BY <1>1 DEF TypeOK
<1>. QED
  BY <1>1, <1>2, SSDPAssumption DEF LoadLooksUp

-----------------------------------------------------------------------------
\* The types of all variables are preserved.
LEMMA TypeStep ==
    ASSUME ProviderInv, [Next]_vars
    PROVE  TypeOK'
<1>. USE SSDPAssumption DEF ProviderInv, TypeOK, control
<1>0. IdleLoad \in LoadType
  BY DEF IdleLoad, LoadType
<1>l. ASSUME NEW l \in LoadType, NEW pc \in {"idle", "loading", "queued", "put", "notify", "end"}
      PROVE  /\ [l EXCEPT !.pc = pc] \in LoadType
             /\ \A r \in {"xml", "error"} : [l EXCEPT !.pc = pc, !.result = r] \in LoadType
             /\ \A n \in Slots : [l EXCEPT !.pc = pc, !.service = n] \in LoadType
  BY DEF LoadType
<1>h. mainQueue # <<>> => Head(mainQueue) \in BlockType /\ Tail(mainQueue) \in Seq(BlockType)
  OBVIOUS
<1>d. \A kind \in {"alive", "byebye"} : mainQueue # <<>> /\ Head(mainQueue).kind = kind =>
          Head(mainQueue).uuid \in UUIDs /\ Head(mainQueue).type \in Types
  BY <1>h DEF BlockType
<1>m. ASSUME NEW kind \in {"found", "lost"}, NEW u \in UUIDs, NEW t
      PROVE  Message(kind, u, t) \in BlockType
  <2>1. ServiceIdsForFilter(t) \in SUBSET ServiceIds
    BY DEF ServiceIdsForFilter
  <2>. QED
    BY <2>1 DEF Message, BlockType
<1>1. CASE StartDiscovery
  BY <1>1 DEF StartDiscovery, SendSearchRequests
<1>2. CASE StopDiscovery
  BY <1>0, <1>2 DEF StopDiscovery
<1>3. CASE \E f \in Filters : AddDeviceFilter(f)
  BY <1>3 DEF AddDeviceFilter
<1>4. CASE RefreshFires
  BY <1>4 DEF RefreshFires
<1>5. CASE RefreshSearches
  BY <1>5 DEF RefreshSearches, SendSearchRequests
<1>6. CASE \E a \in Announces : SearchIsAnswered(a[1], a[2])
  <2>1. PICK a \in Announces : SearchIsAnswered(a[1], a[2])
    BY <1>6
  <2>2. [kind |-> "alive", uuid |-> a[1], type |-> a[2]] \in BlockType
    BY DEF BlockType
  <2>3. TypeOK'
    <3>1. socketsOpen' \in BOOLEAN
      BY <2>1 DEF SearchIsAnswered, SendSearchRequests
    <3>2. mainQueue' \in Seq(BlockType)
      BY <2>1, <2>2 DEF SearchIsAnswered, Arrive
    <3>. QED
      BY <2>1, <3>1, <3>2 DEF SearchIsAnswered
  <2>. QED
    BY <2>3
<1>7. CASE \E a \in Announces, kind \in {"alive", "byebye"} : Datagram(kind, a[1], a[2])
  <2>1. PICK a \in Announces, kind \in {"alive", "byebye"} : Datagram(kind, a[1], a[2])
    BY <1>7
  <2>2. [kind |-> kind, uuid |-> a[1], type |-> a[2]] \in BlockType
    BY DEF BlockType
  <2>. QED
    BY <2>1, <2>2 DEF Datagram, Arrive
<1>8. CASE \E u \in UUIDs : Leave(u)
  BY <1>8 DEF Leave
<1>9. CASE ReceiveAlive
  <2>1. Head(mainQueue).uuid \in UUIDs /\ Head(mainQueue).type \in Types /\ mainQueue # <<>>
    BY <1>9, <1>d DEF ReceiveAlive, IsHead
  <2>2. \A u \in UUIDs, t \in Types :
            [IdleLoad EXCEPT !.pc = "loading", !.uuid = u, !.type = t] \in LoadType
    BY DEF IdleLoad, LoadType
  <2>3. TypeOK'
    <3>1. CASE UNCHANGED <<helloDevices, type, loads>>
      BY <1>9, <1>h, <2>1, <3>1 DEF ReceiveAlive
    <3>2. CASE ~UNCHANGED <<helloDevices, type, loads>>
      <4>. DEFINE u == Head(mainQueue).uuid
                  t == Head(mainQueue).type
      <4>1. PICK n \in FreeSlots :
                /\ helloDevices' = [helloDevices EXCEPT ![u] = n]
                /\ type' = [type EXCEPT ![n] = t]
                /\ loads' = [loads EXCEPT ![n] = [IdleLoad EXCEPT !.pc = "loading",
                                                                  !.uuid = u, !.type = t]]
        BY <1>9, <3>2 DEF ReceiveAlive
      <4>2. n \in Slots
        BY DEF FreeSlots
      <4>3. /\ helloDevices' \in [UUIDs -> Slots \cup {None}]
            /\ type' \in [Slots -> Types \cup {None}]
            /\ loads' \in [Slots -> LoadType]
        BY <2>1, <2>2, <4>1, <4>2
      <4>. QED
        BY <1>9, <1>h, <2>1, <4>3 DEF ReceiveAlive
    <3>. QED
      BY <3>1, <3>2
  <2>. QED
    BY <2>3
<1>10. CASE ReceiveByebye
  <2>1. Head(mainQueue).uuid \in UUIDs /\ mainQueue # <<>>
    BY <1>10, <1>d DEF ReceiveByebye, IsHead
  <2>2. mainQueue' \in Seq(BlockType)
    <3>1. Message("lost", Head(mainQueue).uuid, type[foundServices[Head(mainQueue).uuid]]) \in BlockType
      BY <1>m, <2>1
    <3>2. Append(Tail(mainQueue),
                 Message("lost", Head(mainQueue).uuid, type[foundServices[Head(mainQueue).uuid]]))
              \in Seq(BlockType)
      BY <1>h, <2>1, <3>1
    <3>. QED
      BY <1>10, <1>h, <2>1, <3>2 DEF ReceiveByebye
  <2>. QED
    BY <1>10, <2>1, <2>2 DEF ReceiveByebye
<1>11. CASE Deliver
  <2>1. mainQueue # <<>> /\ Head(mainQueue).uuid \in UUIDs
        /\ Head(mainQueue).ids \in SUBSET ServiceIds
    BY <1>11, <1>h DEF Deliver, IsHead, BlockType
  <2>. QED
    BY <1>11, <1>h, <2>1 DEF Deliver
<1>12. ASSUME NEW n \in Slots, LoadRuns(n) PROVE TypeOK'
  <2>0. loads[n].pc # "idle" => loads[n].uuid \in UUIDs
    BY DEF TypesRegistered, TypesSearched, LoadsSearched, ServicesSearched
  <2>1. CASE LoadLooksUp(n)
    <3>. DEFINE u == loads[n].uuid
    <3>1. u \in UUIDs /\ helloDevices[u] \in Slots \cup {None}
      BY <2>0, <2>1 DEF LoadLooksUp
    <3>2. type' \in [Slots -> Types \cup {None}]
      BY <2>1, <3>1 DEF LoadLooksUp, LoadType
    <3>3. \/ loads' = [loads EXCEPT ![n] = [@ EXCEPT !.pc = "end"]]
          \/ \E m \in Slots : loads' = [loads EXCEPT ![n] = [@ EXCEPT !.pc = "put", !.service = m]]
      BY <2>1, <3>1 DEF LoadLooksUp
    <3>4. loads' \in [Slots -> LoadType]
      <4>1. /\ [loads[n] EXCEPT !.pc = "end"] \in LoadType
            /\ \A m \in Slots : [loads[n] EXCEPT !.pc = "put", !.service = m] \in LoadType
        BY <1>l
      <4>2. CASE loads' = [loads EXCEPT ![n] = [@ EXCEPT !.pc = "end"]]
        BY <4>1, <4>2
      <4>3. ASSUME NEW m \in Slots,
                   loads' = [loads EXCEPT ![n] = [@ EXCEPT !.pc = "put", !.service = m]]
            PROVE  loads' \in [Slots -> LoadType]
        BY <4>1, <4>3
      <4>. QED
        BY <3>3, <4>2, <4>3
    <3>. QED
      BY <2>1, <3>2, <3>4 DEF LoadLooksUp
  <2>2. CASE LoadPutsFound(n)
    <3>1. loads[n].service \in Slots /\ loads[n].uuid \in UUIDs
      BY <2>0, <2>2 DEF LoadPutsFound, TypesRegistered, TypesSearched, LoadsSearched, ServicesSearched
    <3>2. loads' \in [Slots -> LoadType]
      BY <1>l, <2>2 DEF LoadPutsFound
    <3>. QED
      BY <2>2, <3>1, <3>2 DEF LoadPutsFound
  <2>3. CASE LoadNotifies(n)
    <3>1. loads' \in [Slots -> LoadType]
      BY <1>l, <2>3 DEF LoadNotifies
    <3>2. mainQueue' \in Seq(BlockType)
      BY <1>m, <2>0, <2>3 DEF LoadNotifies
    <3>. QED
      BY <2>3, <3>1, <3>2 DEF LoadNotifies
  <2>4. CASE LoadRemovesHello(n)
    BY <1>0, <2>4 DEF LoadRemovesHello
  <2>. QED
    BY <1>12, <2>1, <2>2, <2>3, <2>4 DEF LoadRuns
<1>13. ASSUME NEW n \in Slots, NEW result \in {"xml", "error"}, LoadEnds(n, result) PROVE TypeOK'
  <2>1. loads' \in [Slots -> LoadType]
    BY <1>l, <1>13 DEF LoadEnds
  <2>. QED
    BY <1>13, <2>1 DEF LoadEnds
<1>14. CASE UNCHANGED vars
  BY <1>14 DEF vars
<1>. QED
  BY <1>1, <1>2, <1>3, <1>4, <1>5, <1>6, <1>7, <1>8, <1>9, <1>10, <1>11, <1>12, <1>13, <1>14
     DEF Next, MainThread

-----------------------------------------------------------------------------
\* HelloIsLoading is preserved: an entry goes with its load.
LEMMA HelloStep ==
    ASSUME ProviderInv, TypeOK', [Next]_vars
    PROVE  HelloIsLoading'
<1>. USE SSDPAssumption DEF ProviderInv, TypeOK, HelloIsLoading
<1>1. CASE UNCHANGED <<helloDevices, loads>>
  BY <1>1
<1>2. CASE StopDiscovery
  BY <1>2 DEF StopDiscovery
<1>3. CASE ReceiveAlive
  <2>1. CASE UNCHANGED <<helloDevices, type, loads>>
    BY <2>1
  <2>2. CASE ~UNCHANGED <<helloDevices, type, loads>>
    <3>. DEFINE w == Head(mainQueue).uuid
                t == Head(mainQueue).type
    <3>1. PICK n \in FreeSlots :
              /\ helloDevices' = [helloDevices EXCEPT ![w] = n]
              /\ loads' = [loads EXCEPT ![n] = [IdleLoad EXCEPT !.pc = "loading",
                                                                !.uuid = w, !.type = t]]
      BY <1>3, <2>2 DEF ReceiveAlive
    <3>2. n \in Slots /\ loads[n].pc = "idle" /\ \A u \in UUIDs : helloDevices[u] # n
      BY DEF FreeSlots, Referenced
    <3>3. loads'[n].pc = "loading" /\ loads'[n].uuid = w
      BY <3>1, <3>2 DEF IdleLoad
    <3>4. \A u \in UUIDs \ {w} : helloDevices'[u] # None =>
              /\ helloDevices'[u] = helloDevices[u]
              /\ loads'[helloDevices[u]] = loads[helloDevices[u]]
      BY <3>1, <3>2
    <3>5. w \in UUIDs => helloDevices'[w] = n
      BY <3>1
    <3>. QED
      BY <3>3, <3>4, <3>5
  <2>. QED
    BY <2>1, <2>2
<1>4. ASSUME NEW n \in Slots, LoadRuns(n) \/ \E result \in {"xml", "error"} : LoadEnds(n, result)
      PROVE  HelloIsLoading'
  <2>1. CASE LoadRemovesHello(n)
    <3>1. \A u \in UUIDs : helloDevices'[u] # None =>
              u # loads[n].uuid /\ helloDevices'[u] = helloDevices[u]
      BY <2>1 DEF LoadRemovesHello
    <3>2. \A u \in UUIDs : helloDevices'[u] # None => helloDevices[u] # n
      BY <3>1
    <3>. QED
      BY <2>1, <3>1, <3>2 DEF LoadRemovesHello
  <2>2. CASE ~LoadRemovesHello(n)
    <3>1. /\ helloDevices' = helloDevices
          /\ \A m \in Slots : loads'[m].uuid = loads[m].uuid
          /\ \A m \in Slots : loads[m].pc # "idle" => loads'[m].pc # "idle"
      <4>1. CASE LoadLooksUp(n)
        <5>1. helloDevices' = helloDevices
          BY <4>1 DEF LoadLooksUp
        <5>2. CASE loads' = [loads EXCEPT ![n] = [@ EXCEPT !.pc = "end"]]
          BY <5>1, <5>2 DEF LoadType
        <5>3. ASSUME NEW m \in Slots,
                     loads' = [loads EXCEPT ![n] = [@ EXCEPT !.pc = "put", !.service = m]]
              PROVE  /\ \A k \in Slots : loads'[k].uuid = loads[k].uuid
                     /\ \A k \in Slots : loads[k].pc # "idle" => loads'[k].pc # "idle"
          <6>1. loads'[n].uuid = loads[n].uuid /\ loads'[n].pc = "put"
            BY <5>3 DEF LoadType
          <6>2. \A k \in Slots \ {n} : loads'[k] = loads[k]
            BY <5>3
          <6>. QED
            BY <6>1, <6>2
        <5>4. \/ loads' = [loads EXCEPT ![n] = [@ EXCEPT !.pc = "end"]]
              \/ \E m \in Slots :
                     loads' = [loads EXCEPT ![n] = [@ EXCEPT !.pc = "put", !.service = m]]
          BY <4>1, LookUpEnds
        <5>. QED
          BY <5>1, <5>2, <5>3, <5>4
      <4>2. CASE LoadPutsFound(n)
        BY <4>2 DEF LoadPutsFound, LoadType
      <4>3. CASE LoadNotifies(n)
        BY <4>3 DEF LoadNotifies, LoadType
      <4>4. CASE \E result \in {"xml", "error"} : LoadEnds(n, result)
        BY <4>4 DEF LoadEnds, LoadType
      <4>. QED
        BY <1>4, <2>2, <4>1, <4>2, <4>3, <4>4 DEF LoadRuns
    <3>. QED
      BY <3>1
  <2>. QED
    BY <2>1, <2>2
<1>5. \/ UNCHANGED <<helloDevices, loads>> \/ StopDiscovery \/ ReceiveAlive
      \/ \E n \in Slots : LoadRuns(n) \/ \E result \in {"xml", "error"} : LoadEnds(n, result)
  BY DEF Next, MainThread, vars, StartDiscovery, AddDeviceFilter, RefreshFires, RefreshSearches,
         SearchIsAnswered, Datagram, Leave, ReceiveByebye, Deliver
<1>. QED
  BY <1>1, <1>2, <1>3, <1>4, <1>5

-----------------------------------------------------------------------------
\* TypesRegistered is preserved: a type is searched for when its datagram is
\* handled, and registration only adds filters.
LEMMA RegisteredStep ==
    ASSUME ProviderInv, TypeOK', [Next]_vars
    PROVE  TypesRegistered'
<1>. USE SSDPAssumption DEF ProviderInv, TypeOK, control
<1>0. \A t : IsSearchingForFilter(t) => IsSearchingForFilter(t)'
  <2>1. serviceFilters \subseteq serviceFilters'
    BY DEF Next, MainThread, vars, StartDiscovery, StopDiscovery, AddDeviceFilter, RefreshFires,
           RefreshSearches, SearchIsAnswered, Datagram, Leave, ReceiveAlive, ReceiveByebye, Deliver,
           LoadRuns, LoadEnds, LoadLooksUp, LoadPutsFound, LoadNotifies, LoadRemovesHello
  <2>. QED
    BY <2>1, FiltersGrow
<1>1. CASE UNCHANGED <<type, loads>>
  BY <1>0, <1>1 DEF TypesRegistered, TypesSearched, LoadsSearched, ServicesSearched
<1>2. CASE StopDiscovery
  <2>1. \A n \in Slots : loads'[n] = loads[n] \/ loads'[n] = IdleLoad
    BY <1>2 DEF StopDiscovery
  <2>2. IdleLoad.pc = "idle"
    BY DEF IdleLoad
  <2>3. type' = type
    BY <1>2 DEF StopDiscovery
  <2>. QED
    BY <1>0, <2>1, <2>2, <2>3 DEF TypesRegistered, TypesSearched, LoadsSearched, ServicesSearched
<1>3. CASE ReceiveAlive
  <2>1. CASE UNCHANGED <<helloDevices, type, loads>>
    BY <1>1, <2>1
  <2>2. CASE ~UNCHANGED <<helloDevices, type, loads>>
    <3>. DEFINE w == Head(mainQueue).uuid
                t == Head(mainQueue).type
    <3>1. PICK n \in FreeSlots :
              /\ type' = [type EXCEPT ![n] = t]
              /\ loads' = [loads EXCEPT ![n] = [IdleLoad EXCEPT !.pc = "loading",
                                                                !.uuid = w, !.type = t]]
      BY <1>3, <2>2 DEF ReceiveAlive
    <3>2. IsSearchingForFilter(t)
      BY <1>3, <2>2 DEF ReceiveAlive
    <3>3. w \in UUIDs
      <4>1. Head(mainQueue) \in BlockType
        BY <1>3 DEF ReceiveAlive, IsHead
      <4>. QED
        BY <1>3, <4>1 DEF ReceiveAlive, IsHead, BlockType
    <3>4. n \in Slots /\ \A m \in Slots : loads[m].service # n
      BY DEF FreeSlots, Referenced
    <3>5. loads'[n].pc = "loading" /\ loads'[n].uuid = w /\ loads'[n].type = t
      BY <3>1, <3>4 DEF IdleLoad
    <3>6. /\ \A m \in Slots \ {n} : type'[m] = type[m] /\ loads'[m] = loads[m]
          /\ type'[n] = t
      BY <3>1, <3>4
    <3>. HIDE DEF w, t
    <3>7. TypesSearched'
      BY <1>0, <3>2, <3>6 DEF TypesRegistered, TypesSearched, LoadsSearched, ServicesSearched
    <3>8. LoadsSearched'
      BY <1>0, <3>2, <3>3, <3>5, <3>6 DEF TypesRegistered, TypesSearched, LoadsSearched, ServicesSearched
    <3>9. ServicesSearched'
      <4>1. SUFFICES ASSUME NEW m \in Slots, loads'[m].pc \in {"put", "notify"}
                     PROVE  /\ loads'[m].service \in Slots
                            /\ IsSearchingForFilter(type[loads[m].service])'
        BY DEF ServicesSearched
      <4>2. m # n /\ loads'[m] = loads[m]
        BY <3>5, <3>6, <4>1
      <4>3. loads[m].service \in Slots \ {n} /\ IsSearchingForFilter(type[loads[m].service])
        BY <3>4, <4>1, <4>2 DEF TypesRegistered, ServicesSearched
      <4>4. type'[loads'[m].service] = type[loads[m].service]
        BY <3>6, <4>2, <4>3
      <4>. QED
        BY <1>0, <4>2, <4>3, <4>4
    <3>. QED
      BY <3>7, <3>8, <3>9 DEF TypesRegistered, TypesSearched, LoadsSearched, ServicesSearched
  <2>. QED
    BY <2>1, <2>2
<1>4. ASSUME NEW n \in Slots, LoadLooksUp(n)
      PROVE  TypesRegistered'
  <2>1. loads[n].uuid \in UUIDs /\ loads[n].pc = "queued" /\ IsSearchingForFilter(loads[n].type)
    BY <1>4, LookUpEnds DEF TypesRegistered, TypesSearched, LoadsSearched, ServicesSearched
  <2>2. CASE /\ type' = type
             /\ loads' = [loads EXCEPT ![n] = [@ EXCEPT !.pc = "end"]]
    <3>1. loads'[n].pc = "end" /\ loads'[n].uuid = loads[n].uuid /\ loads'[n].type = loads[n].type
      BY <2>2 DEF LoadType
    <3>2. \A m \in Slots \ {n} : loads'[m] = loads[m]
      BY <2>2
    <3>. QED
      BY <1>0, <2>1, <2>2, <3>1, <3>2 DEF TypesRegistered, TypesSearched, LoadsSearched, ServicesSearched
  <2>3. ASSUME NEW m \in Slots,
               type' = [type EXCEPT ![m] = loads[n].type],
               loads' = [loads EXCEPT ![n] = [@ EXCEPT !.pc = "put", !.service = m]]
        PROVE  TypesRegistered'
    <3>1. /\ loads'[n].pc = "put" /\ loads'[n].uuid = loads[n].uuid
          /\ loads'[n].type = loads[n].type /\ loads'[n].service = m
      BY <2>3 DEF LoadType
    <3>2. \A k \in Slots \ {n} : loads'[k] = loads[k]
      BY <2>3
    <3>3. type'[m] = loads[n].type /\ \A k \in Slots \ {m} : type'[k] = type[k]
      BY <2>3
    <3>4. TypesSearched'
      BY <1>0, <2>1, <3>3 DEF TypesRegistered, TypesSearched, LoadsSearched, ServicesSearched
    <3>5. LoadsSearched'
      BY <1>0, <2>1, <3>1, <3>2 DEF TypesRegistered, TypesSearched, LoadsSearched, ServicesSearched
    <3>6. ServicesSearched'
      BY <1>0, <2>1, <3>1, <3>2, <3>3 DEF TypesRegistered, TypesSearched, LoadsSearched, ServicesSearched
    <3>. QED
      BY <3>4, <3>5, <3>6 DEF TypesRegistered, TypesSearched, LoadsSearched, ServicesSearched
  <2>. QED
    BY <1>4, <2>2, <2>3, LookUpEnds
<1>5. ASSUME NEW n \in Slots,
             \/ LoadPutsFound(n) \/ LoadNotifies(n) \/ LoadRemovesHello(n)
             \/ \E result \in {"xml", "error"} : LoadEnds(n, result)
      PROVE  TypesRegistered'
  <2>1. /\ type' = type
        /\ \A m \in Slots \ {n} : loads'[m] = loads[m]
    BY <1>5 DEF LoadPutsFound, LoadNotifies, LoadRemovesHello, LoadEnds
  <2>2. CASE LoadPutsFound(n)
    <3>1. loads'[n] = [loads[n] EXCEPT !.pc = "notify"] /\ loads[n].pc = "put"
      BY <2>2 DEF LoadPutsFound
    <3>2. /\ loads'[n].uuid = loads[n].uuid /\ loads'[n].type = loads[n].type
          /\ loads'[n].service = loads[n].service
      BY <3>1 DEF LoadType
    <3>. QED
      BY <1>0, <2>1, <3>1, <3>2 DEF TypesRegistered, TypesSearched, LoadsSearched, ServicesSearched
  <2>3. CASE LoadNotifies(n)
    <3>1. loads'[n] = [loads[n] EXCEPT !.pc = "end"] /\ loads[n].pc = "notify"
      BY <2>3 DEF LoadNotifies
    <3>2. /\ loads'[n].uuid = loads[n].uuid /\ loads'[n].type = loads[n].type
          /\ loads'[n].pc = "end"
      BY <3>1 DEF LoadType
    <3>. QED
      BY <1>0, <2>1, <3>1, <3>2 DEF TypesRegistered, TypesSearched, LoadsSearched, ServicesSearched
  <2>4. CASE LoadRemovesHello(n)
    <3>1. loads'[n].pc = "idle"
      BY <2>4 DEF LoadRemovesHello, IdleLoad
    <3>. QED
      BY <1>0, <2>1, <3>1 DEF TypesRegistered, TypesSearched, LoadsSearched, ServicesSearched
  <2>5. CASE \E result \in {"xml", "error"} : LoadEnds(n, result)
    <3>1. PICK result \in {"xml", "error"} : LoadEnds(n, result)
      BY <2>5
    <3>2. /\ loads'[n].uuid = loads[n].uuid /\ loads'[n].type = loads[n].type
          /\ loads'[n].pc = "queued" /\ loads[n].pc = "loading"
      BY <3>1 DEF LoadEnds, LoadType
    <3>. QED
      BY <1>0, <2>1, <3>2 DEF TypesRegistered, TypesSearched, LoadsSearched, ServicesSearched
  <2>. QED
    BY <1>5, <2>2, <2>3, <2>4, <2>5
<1>6. \/ UNCHANGED <<type, loads>> \/ StopDiscovery \/ ReceiveAlive
      \/ \E n \in Slots : \/ LoadLooksUp(n) \/ LoadPutsFound(n) \/ LoadNotifies(n)
                          \/ LoadRemovesHello(n)
                          \/ \E result \in {"xml", "error"} : LoadEnds(n, result)
  BY DEF Next, MainThread, LoadRuns, vars, StartDiscovery, AddDeviceFilter, RefreshFires,
         RefreshSearches, SearchIsAnswered, Datagram, Leave, ReceiveByebye, Deliver
<1>. QED
  BY <1>1, <1>2, <1>3, <1>4, <1>5, <1>6

-----------------------------------------------------------------------------
\* FoundIsTold is preserved.  A find goes from the load that made it to the queue
\* and to the delegate; a loss is only queued with the entry's removal.
LEMMA FoundStep ==
    ASSUME ProviderInv, TypeOK', [Next]_vars
    PROVE  FoundIsTold'
<1>. USE SSDPAssumption DEF ProviderInv, TypeOK, control
<1>0. SUFFICES ASSUME NEW u \in UUIDs, foundServices'[u] # None
               PROVE  IsNotifying(u)' \/ \E id \in ServiceIds : WillBeTold(u, id)'
  BY DEF FoundIsTold
<1>a. ASSUME foundServices[u] # None PROVE IsNotifying(u) \/ \E id \in ServiceIds : WillBeTold(u, id)
  BY <1>a DEF FoundIsTold
<1>k. ASSUME foundServices[u] # None,
             IsNotifying(u) => IsNotifying(u)',
             \A id \in ServiceIds : WillBeTold(u, id) => WillBeTold(u, id)'
      PROVE  IsNotifying(u)' \/ \E id \in ServiceIds : WillBeTold(u, id)'
  BY <1>a, <1>k
<1>b. ASSUME NEW b \in BlockType, b.kind # "lost" \/ b.uuid # u,
             mainQueue' = Append(mainQueue, b), told' = told
      PROVE  \A id \in ServiceIds : WillBeTold(u, id) => WillBeTold(u, id)'
  <2>1. \A id : ~IsMessage(b, "lost", u, id)
    BY <1>b DEF IsMessage
  <2>. QED
    BY <1>b, <2>1, AppendKeeps DEF WillBeTold
<1>t. ASSUME mainQueue # <<>>, Head(mainQueue).kind \notin {"found", "lost"}
      PROVE  \A id \in ServiceIds : WillBeTold(u, id) => WillKnow(Tail(mainQueue), told, u, id)
  <2>1. Head(mainQueue) = mainQueue[1]
    BY <1>t
  <2>2. \A id : ~IsMessage(mainQueue[1], "found", u, id) /\ ~IsMessage(mainQueue[1], "lost", u, id)
    BY <1>t, <2>1 DEF IsMessage
  <2>. QED
    BY <1>t, <2>2, TailKeeps DEF WillBeTold
<1>1. CASE UNCHANGED <<foundServices, loads, mainQueue, told>>
  <2>1. IsNotifying(u) => IsNotifying(u)'
    BY <1>1 DEF IsNotifying
  <2>2. \A id \in ServiceIds : WillBeTold(u, id) => WillBeTold(u, id)'
    BY <1>1 DEF WillBeTold
  <2>. QED
    BY <1>0, <1>1, <1>k, <2>1, <2>2
<1>2. CASE StopDiscovery
  BY <1>0, <1>2 DEF StopDiscovery
<1>3. ASSUME NEW a \in Announces, NEW kind \in {"alive", "byebye"}, Arrive(kind, a[1], a[2]),
             UNCHANGED <<foundServices, loads, told>>
      PROVE  IsNotifying(u)' \/ \E id \in ServiceIds : WillBeTold(u, id)'
  <2>. DEFINE b == [kind |-> kind, uuid |-> a[1], type |-> a[2]]
  <2>1. b \in BlockType /\ b.kind # "lost"
    BY DEF BlockType
  <2>2. mainQueue' = Append(mainQueue, b)
    BY <1>3 DEF Arrive
  <2>. HIDE DEF b
  <2>3. IsNotifying(u) => IsNotifying(u)'
    BY <1>3 DEF IsNotifying
  <2>. QED
    BY <1>0, <1>3, <1>b, <1>k, <2>1, <2>2, <2>3
<1>4. CASE ReceiveAlive
  <2>1. /\ foundServices' = foundServices /\ told' = told /\ mainQueue' = Tail(mainQueue)
        /\ mainQueue # <<>> /\ Head(mainQueue).kind \notin {"found", "lost"}
    BY <1>4 DEF ReceiveAlive, IsHead
  <2>2. \A n \in Slots : loads[n].pc = "notify" => loads'[n] = loads[n]
    BY <1>4 DEF ReceiveAlive, FreeSlots, Referenced
  <2>3. IsNotifying(u) => IsNotifying(u)'
    BY <2>2 DEF IsNotifying
  <2>4. \A id \in ServiceIds : WillBeTold(u, id) => WillBeTold(u, id)'
    BY <1>t, <2>1 DEF WillBeTold
  <2>. QED
    BY <1>0, <1>k, <2>1, <2>3, <2>4
<1>5. CASE ReceiveByebye
  <2>. DEFINE w == Head(mainQueue).uuid
  <2>1. /\ told' = told /\ loads' = loads
        /\ mainQueue # <<>> /\ Head(mainQueue).kind \notin {"found", "lost"}
    BY <1>5 DEF ReceiveByebye, IsHead
  <2>2. IsNotifying(u) => IsNotifying(u)'
    BY <2>1 DEF IsNotifying
  <2>3. CASE mainQueue' = Tail(mainQueue) /\ foundServices' = foundServices
    <3>1. \A id \in ServiceIds : WillBeTold(u, id) => WillBeTold(u, id)'
      BY <1>t, <2>1, <2>3 DEF WillBeTold
    <3>. QED
      BY <1>0, <1>k, <2>2, <2>3, <3>1
  <2>4. CASE /\ mainQueue' = Append(Tail(mainQueue), Message("lost", w, type[foundServices[w]]))
             /\ foundServices' = [foundServices EXCEPT ![w] = None]
    <3>. DEFINE b == Message("lost", w, type[foundServices[w]])
    <3>1. w \in UUIDs
      <4>1. Head(mainQueue) \in BlockType
        BY <2>1
      <4>. QED
        BY <4>1 DEF BlockType
    <3>2. u # w /\ foundServices[u] # None
      BY <1>0, <2>4, <3>1
    <3>3. b \in BlockType
      <4>1. ServiceIdsForFilter(type[foundServices[w]]) \in SUBSET ServiceIds
        BY DEF ServiceIdsForFilter
      <4>. QED
        BY <3>1, <4>1 DEF Message, BlockType
    <3>4. \A id : ~IsMessage(b, "lost", u, id)
      BY <3>2 DEF Message, IsMessage
    <3>5. Tail(mainQueue) \in Seq(BlockType)
      BY <2>1
    <3>6. mainQueue' = Append(Tail(mainQueue), b)
      BY <2>4
    <3>. HIDE DEF b
    <3>7. \A id \in ServiceIds : WillBeTold(u, id) => WillBeTold(u, id)'
      BY <1>t, <2>1, <3>3, <3>4, <3>5, <3>6, AppendKeeps DEF WillBeTold
    <3>. QED
      BY <1>k, <2>2, <3>2, <3>7
  <2>. QED
    BY <1>5, <2>3, <2>4 DEF ReceiveByebye
<1>6. CASE Deliver
  <2>. DEFINE block == Head(mainQueue)
  <2>1. /\ UNCHANGED <<foundServices, loads>> /\ mainQueue # <<>> /\ mainQueue' = Tail(mainQueue)
        /\ block = mainQueue[1]
    BY <1>6 DEF Deliver, IsHead
  <2>2. IsNotifying(u) => IsNotifying(u)'
    BY <2>1 DEF IsNotifying
  <2>3. ASSUME NEW id \in ServiceIds
        PROVE  /\ IsMessage(mainQueue[1], "found", u, id) => <<u, id>> \in told'
               /\ <<u, id>> \in told /\ ~IsMessage(mainQueue[1], "lost", u, id) => <<u, id>> \in told'
    <3>1. CASE block.kind = "found"
      <4>1. told' = told \cup ({block.uuid} \X block.ids)
        BY <1>6, <3>1 DEF Deliver
      <4>. QED
        BY <2>1, <4>1 DEF IsMessage
    <3>2. CASE block.kind = "lost"
      <4>1. told' = told \ ({block.uuid} \X block.ids)
        BY <1>6, <3>2 DEF Deliver
      <4>. QED
        BY <2>1, <3>2, <4>1 DEF IsMessage
    <3>. QED
      BY <1>6, <3>1, <3>2 DEF Deliver, IsHead
  <2>4. \A id \in ServiceIds : WillBeTold(u, id) => WillBeTold(u, id)'
    BY <2>1, <2>3, TailKeeps DEF WillBeTold
  <2>. QED
    BY <1>0, <1>k, <2>1, <2>2, <2>4
<1>7. ASSUME NEW n \in Slots,
             \/ LoadLooksUp(n) \/ LoadRemovesHello(n)
             \/ \E result \in {"xml", "error"} : LoadEnds(n, result)
      PROVE  IsNotifying(u)' \/ \E id \in ServiceIds : WillBeTold(u, id)'
  <2>1. /\ UNCHANGED <<foundServices, mainQueue, told>> /\ loads[n].pc # "notify"
        /\ \A m \in Slots \ {n} : loads'[m] = loads[m]
    BY <1>7 DEF LoadLooksUp, LoadRemovesHello, LoadEnds
  <2>2. IsNotifying(u) => IsNotifying(u)'
    BY <2>1 DEF IsNotifying
  <2>3. \A id \in ServiceIds : WillBeTold(u, id) => WillBeTold(u, id)'
    BY <2>1 DEF WillBeTold
  <2>. QED
    BY <1>0, <1>k, <2>1, <2>2, <2>3
<1>8. ASSUME NEW n \in Slots, LoadPutsFound(n)
      PROVE  IsNotifying(u)' \/ \E id \in ServiceIds : WillBeTold(u, id)'
  <2>1. /\ UNCHANGED <<mainQueue, told>> /\ loads[n].pc = "put"
        /\ \A m \in Slots \ {n} : loads'[m] = loads[m]
        /\ loads'[n] = [loads[n] EXCEPT !.pc = "notify"]
        /\ foundServices' = [foundServices EXCEPT ![loads[n].uuid] = loads[n].service]
    BY <1>8 DEF LoadPutsFound
  <2>2. loads'[n].pc = "notify" /\ loads'[n].uuid = loads[n].uuid
    BY <2>1 DEF LoadType
  <2>3. CASE u = loads[n].uuid
    BY <2>2, <2>3 DEF IsNotifying
  <2>4. CASE u # loads[n].uuid
    <3>1. foundServices[u] # None
      BY <1>0, <2>1, <2>4
    <3>2. IsNotifying(u) => IsNotifying(u)'
      BY <2>1 DEF IsNotifying
    <3>3. \A id \in ServiceIds : WillBeTold(u, id) => WillBeTold(u, id)'
      BY <2>1 DEF WillBeTold
    <3>. QED
      BY <1>k, <3>1, <3>2, <3>3
  <2>. QED
    BY <2>3, <2>4
<1>9. ASSUME NEW n \in Slots, LoadNotifies(n)
      PROVE  IsNotifying(u)' \/ \E id \in ServiceIds : WillBeTold(u, id)'
  <2>. DEFINE w == loads[n].uuid
              t == type[loads[n].service]
              b == Message("found", w, t)
  <2>1. /\ UNCHANGED <<foundServices, told>> /\ loads[n].pc = "notify"
        /\ mainQueue' = Append(mainQueue, b)
        /\ \A m \in Slots \ {n} : loads'[m] = loads[m]
    BY <1>9 DEF LoadNotifies
  <2>2. w \in UUIDs /\ IsSearchingForFilter(t)
    BY <2>1 DEF TypesRegistered, LoadsSearched, ServicesSearched
  <2>3. b \in BlockType /\ b.kind = "found" /\ b.uuid = w /\ b.ids = ServiceIdsForFilter(t)
    <3>1. ServiceIdsForFilter(t) \in SUBSET ServiceIds
      BY DEF ServiceIdsForFilter
    <3>. QED
      BY <2>2, <3>1 DEF Message, BlockType
  <2>. HIDE DEF b, t
  <2>4. CASE u = w
    <3>1. PICK id \in ServiceIds : id \in ServiceIdsForFilter(t)
      BY <2>2, SearchedHasIds
    <3>2. IsMessage(b, "found", u, id)
      BY <2>3, <2>4, <3>1 DEF IsMessage
    <3>3. WillBeTold(u, id)'
      BY <2>1, <2>3, <3>2, AppendFinds DEF WillBeTold
    <3>. QED
      BY <3>3
  <2>5. CASE u # w
    <3>1. IsNotifying(u) => IsNotifying(u)'
      BY <2>1, <2>5 DEF IsNotifying
    <3>2. \A id \in ServiceIds : WillBeTold(u, id) => WillBeTold(u, id)'
      BY <1>b, <2>1, <2>3
    <3>. QED
      BY <1>0, <1>k, <2>1, <3>1, <3>2
  <2>. QED
    BY <2>4, <2>5
<1>10. \/ UNCHANGED <<foundServices, loads, mainQueue, told>> \/ StopDiscovery
       \/ \E a \in Announces, kind \in {"alive", "byebye"} :
              Arrive(kind, a[1], a[2]) /\ UNCHANGED <<foundServices, loads, told>>
       \/ ReceiveAlive \/ ReceiveByebye \/ Deliver
       \/ \E n \in Slots : \/ LoadLooksUp(n) \/ LoadPutsFound(n) \/ LoadNotifies(n)
                           \/ LoadRemovesHello(n)
                           \/ \E result \in {"xml", "error"} : LoadEnds(n, result)
  BY DEF Next, MainThread, LoadRuns, vars, StartDiscovery, AddDeviceFilter, RefreshFires,
         RefreshSearches, SearchIsAnswered, Datagram, Leave
<1>. QED
  BY <1>1, <1>2, <1>3, <1>4, <1>5, <1>6, <1>7, <1>8, <1>9, <1>10

-----------------------------------------------------------------------------
\* The inductive invariant.
LEMMA ProviderInvariant == Spec => []ProviderInv
<1>1. Init => ProviderInv
  <2>. SUFFICES ASSUME Init PROVE ProviderInv
    OBVIOUS
  <2>1. IdleLoad \in LoadType /\ IdleLoad.pc = "idle"
    BY DEF IdleLoad, LoadType
  <2>2. TypeOK
    <3>1. loads \in [Slots -> LoadType] /\ type \in [Slots -> Types \cup {None}]
      BY <2>1 DEF Init
    <3>2. /\ foundServices \in [UUIDs -> Slots \cup {None}]
          /\ helloDevices \in [UUIDs -> Slots \cup {None}]
      BY DEF Init
    <3>3. mainQueue \in Seq(BlockType)
      BY DEF Init
    <3>. QED
      BY <3>1, <3>2, <3>3 DEF Init, TypeOK
  <2>3. \A u \in UUIDs : foundServices[u] = None /\ helloDevices[u] = None
    BY DEF Init
  <2>4. HelloIsLoading /\ FoundIsTold
    BY <2>3 DEF HelloIsLoading, FoundIsTold
  <2>5. TypesSearched
    BY DEF Init, TypesSearched
  <2>6. LoadsSearched /\ ServicesSearched
    BY <2>1 DEF Init, LoadsSearched, ServicesSearched
  <2>. QED
    BY <2>2, <2>4, <2>5, <2>6 DEF ProviderInv, TypesRegistered
<1>2. ProviderInv /\ [Next]_vars => ProviderInv'
  BY TypeStep, HelloStep, RegisteredStep, FoundStep DEF ProviderInv
<1>. QED
  BY <1>1, <1>2, PTL DEF Spec

\* TypeOK: the locked dictionaries, the loads and the blocks of the main queue keep
\* their types through every interleaving of loads, datagrams and calls.
THEOREM ProviderTypeCorrect == Spec => []TypeOK
<1>1. ProviderInv => TypeOK
  BY DEF ProviderInv
<1>. QED
  BY <1>1, ProviderInvariant, PTL

\* An entry of _helloDevices always has a load under way that will remove it, for
\* any number of devices and of loads that overlap.
THEOREM HelloNeverStuck == Spec => []HelloIsLoading
<1>1. ProviderInv => HelloIsLoading
  BY DEF ProviderInv
<1>. QED
  BY <1>1, ProviderInvariant, PTL

\* A service in _foundServices is known to the delegate, or a message is on its
\* way, whatever happens between the critical sections of a load.
THEOREM NoFindSwallowed == Spec => []FoundIsTold
<1>1. ProviderInv => FoundIsTold
  BY DEF ProviderInv
<1>. QED
  BY <1>1, ProviderInvariant, PTL

=============================================================================
