-------------------------- MODULE ConnectableDevice --------------------------
(***************************************************************************)
(* ConnectableDevice (src/Devices/): connecting and disconnecting the       *)
(* services of one device, and what its delegate hears of it.               *)
(*                                                                          *)
(* A service is modelled by what it does to the device.  An HTTP service    *)
(* (DLNA, Roku, DIAL) is connected as soon as connect is called; a webOS    *)
(* service opens a socket and registers, and is `connected' before its      *)
(* success is reported when the TV knows the client.  Its socket client     *)
(* opens the socket again by itself, for a command and when the application *)
(* is back from the background, also after the service was removed from the *)
(* device.  Services report to the device, and the device to its delegate,  *)
(* by blocks of the main queue.                                             *)
(***************************************************************************)
EXTENDS Naturals, Sequences, FiniteSets

CONSTANTS
    Http, WebOs,    \* the services, each object once
    Name(_),        \* serviceName: at most one service of a name is attached
    MaxCalls        \* bound: calls of the application, the manager and the network

Services == Http \union WebOs

ASSUME DeviceAssumption ==
    /\ Http \intersect WebOs = {} /\ IsFiniteSet(Services)
    /\ MaxCalls \in Nat

VARIABLES
    services,    \* _services
    conn,        \* the state of each service
    asleep,      \* the services whose socket client has _reconnectOnWake set
    observers,   \* observers of kConnectSDKWirelessSSIDChanged
    mainQueue,   \* blocks of the main queue
    told,        \* the last ready, failed or disconnected the delegate was sent
    waiting,     \* 0, or connect was called, the delegate has heard nothing since, and
                 \* waiting - 1 of the blocks that wait are older than the call
    wanted,      \* history: after the last disconnect, connect was called or a service was
                 \* sent a command; or that disconnect passed over a service that was
                 \* connecting or waits for the application to be active again
    calls        \* calls so far, for the bound

vars == <<services, conn, asleep, observers, mainQueue, told, waiting, wanted, calls>>

\* What a service reports to the device, and the device to its delegate.
Reports == {"success", "failConnect", "disconnectedService"}
Messages == {"ready", "failed", "disconnected", "serviceDisconnected", "connectionRequired"}
BlockType == [event : Reports \union Messages, of : Services \union {"device"}]
Block(e, s) == [event |-> e, of |-> s]

TypeOK ==
    /\ services \subseteq Services
    /\ \A s, t \in services : Name(s) = Name(t) => s = t
    /\ conn \in [Services -> {"new", "off", "connecting", "open", "on"}]
    /\ asleep \subseteq WebOs /\ observers \in Nat
    /\ mainQueue \in Seq(BlockType)
    /\ told \in {"nothing", "ready", "failed", "disconnected"}
    /\ waiting \in Nat /\ wanted \in BOOLEAN
    /\ calls \in 0..MaxCalls

Init ==
    /\ services = {} /\ conn = [s \in Services |-> "new"]
    /\ asleep = {} /\ observers = 0 /\ mainQueue = <<>>
    /\ told = "nothing" /\ waiting = 0 /\ wanted = FALSE /\ calls = 0

-----------------------------------------------------------------------------
(* Services.                                                                 *)

\* The `connected' of a service; a webOS one is when its socket is open.
Up(s) == conn[s] \in {"open", "on"}

\* connected and connectedServiceCount: every service here is connectable.
Connected == \A s \in services : Up(s)
NoneConnected == \A s \in services : ~Up(s)

\* [service connect] of each service of the set: an HTTP service succeeds at
\* once; a webOS service connects, or goes on connecting.
ConnectServices(S) ==
    conn' = [s \in Services |->
               IF s \notin S THEN conn[s]
               ELSE IF s \in Http THEN "on" ELSE "connecting"]

\* [service disconnect]: a webOS service that never had a socket says nothing.
AfterDisconnect(s) == IF s \in WebOs /\ conn[s] = "new" THEN "new" ELSE "off"
DisconnectBlocks(s) ==
    IF s \in WebOs /\ conn[s] = "new" THEN <<>> ELSE <<Block("disconnectedService", s)>>

\* The socket of a webOS service opens, for a client the TV knows.
ServiceOpens(s) ==
    /\ conn[s] = "connecting"
    /\ conn' = [conn EXCEPT ![s] = "open"]
    /\ UNCHANGED <<asleep, services, observers, mainQueue, told, waiting, wanted, calls>>

\* The TV has registered the client: socketDidConnect.
ServiceRegisters(s) ==
    /\ conn[s] \in {"connecting", "open"}
    /\ conn' = [conn EXCEPT ![s] = "on"]
    /\ mainQueue' = Append(mainQueue, Block("success", s))
    /\ UNCHANGED <<asleep, services, observers, told, waiting, wanted, calls>>

\* A socket fails before it is open.
ServiceFails(s) ==
    /\ conn[s] = "connecting"
    /\ conn' = [conn EXCEPT ![s] = "off"]
    /\ mainQueue' = Append(mainQueue, Block("failConnect", s))
    /\ UNCHANGED <<asleep, services, observers, told, waiting, wanted, calls>>

\* A socket ends before the client is registered: the TV or the user refuses the
\* registration, or the socket is closed.
ServiceRefused(s) ==
    /\ conn[s] \in {"connecting", "open"}
    /\ conn' = [conn EXCEPT ![s] = "off"]
    /\ mainQueue' = Append(mainQueue, Block("disconnectedService", s))
    /\ UNCHANGED <<asleep, services, observers, told, waiting, wanted, calls>>

\* A connected service ends: the socket is closed, or the device is out of reach.
ServiceDrops(s) ==
    /\ Up(s)
    /\ calls < MaxCalls /\ calls' = calls + 1                           \* bound
    /\ conn' = [conn EXCEPT ![s] = "off"]
    /\ mainQueue' = Append(mainQueue, Block("disconnectedService", s))
    /\ UNCHANGED <<asleep, services, observers, told, waiting, wanted>>

\* hAppDidEnterBackground: the client closes its socket and will open it on wake.
ServiceSleeps(s) ==
    /\ conn[s] \in {"connecting", "open", "on"}
    /\ calls < MaxCalls /\ calls' = calls + 1                           \* bound
    /\ conn' = [conn EXCEPT ![s] = "off"]
    /\ asleep' = asleep \union {s}
    /\ mainQueue' = Append(mainQueue, Block("disconnectedService", s))
    /\ UNCHANGED <<services, observers, told, waiting, wanted>>

\* hAppDidBecomeActive: the socket is opened, or an open one registers again.
ServiceWakes(s) ==
    /\ s \in asleep
    /\ asleep' = asleep \ {s}
    /\ conn' = [conn EXCEPT ![s] = IF Up(s) THEN "open" ELSE "connecting"]
    /\ UNCHANGED <<services, observers, mainQueue, told, waiting, wanted, calls>>

\* sendStringOverSocket: a command is sent over a socket that is closed, or gone.
ServiceReopens(s) ==
    /\ conn[s] = "off"
    /\ calls < MaxCalls /\ calls' = calls + 1                           \* bound
    /\ conn' = [conn EXCEPT ![s] = "connecting"]
    /\ wanted' = (wanted \/ s \in services)
    /\ UNCHANGED <<asleep, services, observers, mainQueue, told, waiting>>

\* A socket the client has closed reports that it is closed.
SocketCloses(s) ==
    /\ conn[s] = "off"
    /\ calls < MaxCalls /\ calls' = calls + 1                           \* bound
    /\ mainQueue' = Append(mainQueue, Block("disconnectedService", s))
    /\ UNCHANGED <<services, conn, asleep, observers, told, waiting, wanted>>

-----------------------------------------------------------------------------
(* Calls of the application and the manager.                                 *)

\* All elements of a set of services, in the order of a dictionary.
Orders(S) == {f \in [1..Cardinality(S) -> S] : \A i, j \in DOMAIN f : f[i] = f[j] => i = j}

\* Mutant: a device that is connected does not send ready again.
Connect_Silent ==
    /\ services # {}
    /\ calls < MaxCalls /\ calls' = calls + 1                           \* bound
    /\ IF Connected
         THEN UNCHANGED <<mainQueue, conn>>
         ELSE LET S == {s \in services : ~Up(s)} IN
              /\ ConnectServices(S)
              /\ \E f \in Orders(S \intersect Http) :
                   mainQueue' = mainQueue \o [i \in DOMAIN f |-> Block("success", f[i])]
    /\ observers' = observers + 1
    /\ waiting' = Len(mainQueue) + 1 /\ wanted' = TRUE
    /\ UNCHANGED <<asleep, services, told>>

\* The application connects a device the manager lists: one with a service.
Connect ==
    /\ services # {}
    /\ calls < MaxCalls /\ calls' = calls + 1                           \* bound
    /\ IF Connected
         THEN mainQueue' = Append(mainQueue, Block("ready", "device")) /\ UNCHANGED conn
         ELSE LET S == {s \in services : ~Up(s)} IN
              /\ ConnectServices(S)
              /\ \E f \in Orders(S \intersect Http) :
                   mainQueue' = mainQueue \o [i \in DOMAIN f |-> Block("success", f[i])]
    /\ observers' = observers + 1
    /\ waiting' = Len(mainQueue) + 1 /\ wanted' = TRUE
    /\ UNCHANGED <<asleep, services, told>>

\* Mutant: a service whose socket is open but not registered is passed over too.
DisconnectServices_OnlyRegistered(times) ==
    LET S == {s \in services : conn[s] = "on"} IN
    /\ conn' = [s \in Services |-> IF s \in S THEN "off" ELSE conn[s]]
    /\ \E f \in Orders(S) :
         mainQueue' = mainQueue
                        \o [i \in DOMAIN f |-> Block("disconnectedService", f[i])]
                        \o [i \in 1..times |-> Block("disconnected", "device")]
    /\ observers' = 0
    /\ wanted' = (\E s \in services : conn[s] = "connecting" \/ s \in asleep)

\* disconnect, called `times' times: services that are not connected, but still
\* connecting or asleep, are passed over, and the later times find no service to disconnect.
DisconnectServices(times) ==
    LET S == {s \in services : Up(s)} IN
    /\ conn' = [s \in Services |-> IF s \in S THEN "off" ELSE conn[s]]
    /\ \E f \in Orders(S) :
         mainQueue' = mainQueue
                        \o [i \in DOMAIN f |-> Block("disconnectedService", f[i])]
                        \o [i \in 1..times |-> Block("disconnected", "device")]
    /\ observers' = 0
    /\ wanted' = (\E s \in services : conn[s] = "connecting" \/ s \in asleep)

Disconnect ==
    /\ calls < MaxCalls /\ calls' = calls + 1                           \* bound
    /\ DisconnectServices(1)
    /\ UNCHANGED <<asleep, services, told, waiting>>

\* A new network.  Every connect has added an observer; the first to run removes
\* them all, and whether the others still run is the notification centre's.
SSIDChanged ==
    /\ calls < MaxCalls /\ calls' = calls + 1                           \* bound
    /\ \E times \in 1..observers : DisconnectServices(times)
    /\ UNCHANGED <<asleep, services, told, waiting>>

\* Mutant: the service of that name is not removed.
AddService_KeepsOld(s) ==
    LET old == {t \in services : Name(t) = Name(s)}
        first == [t \in old |-> IF Up(t) THEN DisconnectBlocks(t) ELSE <<>>]
    IN
    /\ s \notin services /\ conn[s] = "new"
    /\ calls < MaxCalls /\ calls' = calls + 1                           \* bound
    /\ services' = services \union {s}
    /\ conn' = [t \in Services |-> IF t \in old THEN AfterDisconnect(t) ELSE conn[t]]
    /\ mainQueue' =
         LET gone == IF old = {} THEN <<>>
                     ELSE LET t == CHOOSE t \in old : TRUE
                          IN first[t] \o DisconnectBlocks(t)
         IN Append(mainQueue \o gone, Block("connectionRequired", s))
    /\ UNCHANGED <<asleep, observers, told, waiting, wanted>>

\* addService.  A service of that name is replaced by one detected later: it is
\* disconnected, and disconnected again by removeServiceWithId.
AddService(s) ==
    LET old == {t \in services : Name(t) = Name(s)}
        first == [t \in old |-> IF Up(t) THEN DisconnectBlocks(t) ELSE <<>>]
    IN
    /\ s \notin services /\ conn[s] = "new"
    /\ calls < MaxCalls /\ calls' = calls + 1                           \* bound
    /\ services' = (services \ old) \union {s}
    /\ conn' = [t \in Services |-> IF t \in old THEN AfterDisconnect(t) ELSE conn[t]]
    /\ mainQueue' =
         LET gone == IF old = {} THEN <<>>
                     ELSE LET t == CHOOSE t \in old : TRUE
                          IN first[t] \o DisconnectBlocks(t)
         IN Append(mainQueue \o gone, Block("connectionRequired", s))
    /\ UNCHANGED <<asleep, observers, told, waiting, wanted>>

\* removeServiceWithId
RemoveServiceWithId(s) ==
    /\ s \in services
    /\ calls < MaxCalls /\ calls' = calls + 1                           \* bound
    /\ services' = services \ {s}
    /\ conn' = [conn EXCEPT ![s] = AfterDisconnect(s)]
    /\ mainQueue' = mainQueue \o DisconnectBlocks(s)
    /\ UNCHANGED <<asleep, observers, told, waiting, wanted>>

-----------------------------------------------------------------------------
(* Blocks of the main queue: what services report.                           *)

Runs(e) == mainQueue # <<>> /\ Head(mainQueue).event = e
About == Head(mainQueue).of

\* The rest of the main queue, with messages to the delegate behind it.
RestWith(messages) == Tail(mainQueue) \o messages

\* A block has run that is no answer to connect.
StillWaiting == waiting' = IF waiting > 1 THEN waiting - 1 ELSE waiting

DeviceServiceConnectionSuccess ==
    /\ Runs("success")
    /\ mainQueue' = RestWith(IF Connected THEN <<Block("ready", "device")>> ELSE <<>>)
    /\ StillWaiting
    /\ UNCHANGED <<asleep, services, conn, observers, told, wanted, calls>>

DeviceServiceDidFailConnect ==
    /\ Runs("failConnect")
    /\ mainQueue' = RestWith(<<Block("failed", "device")>>)
    /\ StillWaiting
    /\ UNCHANGED <<asleep, services, conn, observers, told, wanted, calls>>

\* Mutant: only the loss of the last service counts.
DeviceServiceDisconnected_OnlyLast ==
    /\ Runs("disconnectedService")
    /\ mainQueue' =
         RestWith((IF services = {} THEN <<Block("disconnected", "device")>> ELSE <<>>)
                    \o <<Block("serviceDisconnected", About)>>)
    /\ StillWaiting
    /\ UNCHANGED <<asleep, services, conn, observers, told, wanted, calls>>

\* With no service left, or none connected, the device is disconnected.
DeviceServiceDisconnected ==
    /\ Runs("disconnectedService")
    /\ mainQueue' =
         RestWith((IF NoneConnected THEN <<Block("disconnected", "device")>> ELSE <<>>)
                    \o <<Block("serviceDisconnected", About)>>)
    /\ StillWaiting
    /\ UNCHANGED <<asleep, services, conn, observers, told, wanted, calls>>

\* A message reaches the delegate.
Tell ==
    /\ \E e \in Messages :
         /\ Runs(e)
         /\ told' = IF e \in {"ready", "failed", "disconnected"} THEN e ELSE told
    /\ waiting' = IF waiting > 0 THEN waiting - 1 ELSE 0
    /\ mainQueue' = Tail(mainQueue)
    /\ UNCHANGED <<asleep, services, conn, observers, wanted, calls>>

MainQueueRuns ==
    \/ DeviceServiceConnectionSuccess \/ DeviceServiceDidFailConnect
    \/ DeviceServiceDisconnected \/ Tell

Next ==
    \/ Connect \/ Disconnect \/ SSIDChanged
    \/ \E s \in Services : AddService(s) \/ RemoveServiceWithId(s) \/ ServiceDrops(s)
    \/ \E s \in WebOs :
         \/ ServiceOpens(s) \/ ServiceRegisters(s) \/ ServiceFails(s) \/ ServiceRefused(s)
         \/ ServiceSleeps(s) \/ ServiceWakes(s) \/ ServiceReopens(s) \/ SocketCloses(s)
    \/ MainQueueRuns

\* The main queue is served, and a connection attempt ends: the socket's request
\* times out, and the TV answers a registration or closes its prompt.
Fairness ==
    /\ WF_vars(MainQueueRuns)
    /\ \A s \in WebOs : WF_vars(ServiceRegisters(s) \/ ServiceFails(s) \/ ServiceRefused(s))

Spec == Init /\ [][Next]_vars /\ Fairness

-----------------------------------------------------------------------------
(* Properties.                                                               *)

\* Once the main queue is empty, an application that last heard that the device
\* is ready has a connected service: when the last one ends, by whatever mix of
\* calls, drops, losses, replacements and sockets reopened, it is told so.  (The
\* service may be one that was removed and then sent a command: a device without
\* services is ready when it connects.)
LastDropIsTold == mainQueue = <<>> /\ told = "ready" => \E s \in Services : Up(s)

\* An application that calls connect hears of it, in a message sent after the
\* call: ready, failed, disconnected, a service disconnected, or a new service
\* to be connected.
ConnectIsAnswered == waiting > 0 ~> waiting = 0

\* disconnect, by the application or on a new network, is final: whatever was under
\* way, no service of the device is connected afterwards until connect is called or
\* one is sent a command.  Except when disconnect passed over a service that was
\* connecting, or whose socket was closed in the background: that one connects, by
\* itself or when the application is active again.
DisconnectHolds == ~wanted => \A s \in services : ~Up(s)
=============================================================================
