-------------------------- MODULE ConnectionManager --------------------------
(***************************************************************************)
(* LG Cast (src/Services/Helpers/LGCast/): the ConnectionManager and the    *)
(* two services that share it, RemoteCameraService and                      *)
(* ScreenMirroringService, with one TV, whose device has a webOS service    *)
(* and maybe others that stay connected without it.                         *)
(*                                                                          *)
(* Everything runs on the main queue: calls of the application, the         *)
(* device's messages, the callbacks of requests and subscriptions, and the  *)
(* reports of the LGCast framework.  A message or an answer may be under    *)
(* way when the connection is closed, and is handled all the same.          *)
(***************************************************************************)
EXTENDS Naturals, Sequences

CONSTANT MaxCalls    \* bound: calls of the application, and losses of the device

ASSUME ManagerAssumption == MaxCalls \in Nat

VARIABLES
    currentState,  \* _currentState; Disconnecting lasts only within closeConnection
    created,       \* the services that exist
    delegate,      \* _delegate: each service takes it when it is created
    running,       \* isRunning of each service
    playing,       \* isPlaying of the camera
    held,          \* _tvDevice is set, and this is its delegate
    timer,         \* _keepAliveTimer is valid
    subscribed,    \* the command and the power state subscription
    sent, late,    \* requests under way, of this connection and of closed ones
    device,        \* the TV's ConnectableDevice: connecting is its webOS service; partly
                   \* connected, others of its services are and that one is not
    messages,      \* blocks of the main queue with what the device tells its delegate
    starting,      \* history: services started whose connection is not completed
    dropped,       \* history: something the last start waits for will not come
    stale,         \* history: an answer to a closed connection was handled
    abandoned,     \* history: a service stopped running and did not close
    calls          \* calls so far, for the bound

vars == <<currentState, created, delegate, running, playing, held, timer, subscribed, sent, late,
          device, messages, starting, dropped, stale, abandoned, calls>>

services == <<created, delegate>>

Kinds == {"camera", "mirroring"}
Requests == {"subscribe", "connect", "getParameter", "setSource", "setParameter"}

TypeOK ==
    /\ currentState \in {"None", "Connecting", "Connected"}
    /\ created \subseteq Kinds /\ delegate \in created \union {"nobody"}
    /\ running \subseteq created
    /\ starting \subseteq running
    /\ playing \in BOOLEAN /\ held \in BOOLEAN /\ timer \in BOOLEAN
    /\ subscribed \in {"never", "on", "ended"}
    /\ sent \subseteq Requests /\ late \subseteq Requests
    /\ device \in {"off", "connecting", "partly", "on"}
    /\ messages \in Seq({"ready", "failed", "disconnected"})
    /\ dropped \in BOOLEAN /\ stale \in BOOLEAN /\ abandoned \in BOOLEAN
    /\ calls \in 0..MaxCalls

\* The application may have connected the device before.
Init ==
    /\ currentState = "None" /\ created = {} /\ delegate = "nobody"
    /\ running = {} /\ playing = FALSE /\ held = FALSE /\ timer = FALSE
    /\ subscribed = "never" /\ sent = {} /\ late = {}
    /\ device \in {"off", "partly", "on"} /\ messages = <<>>
    /\ starting = {} /\ dropped = FALSE /\ stale = FALSE /\ abandoned = FALSE
    /\ calls = 0

-----------------------------------------------------------------------------
(* What the manager does for the services.                                   *)

Active == currentState \in {"Connecting", "Connected"}

\* openConnection: a device that is connected is ready at once.
OpenConnection ==
    /\ currentState' = "Connecting" /\ held' = TRUE
    /\ IF device = "on"
         THEN messages' = Append(messages, "ready") /\ UNCHANGED device
         ELSE device' = "connecting" /\ UNCHANGED messages

\* Mutant: the timer is left running.
CloseConnection_KeepsTimer(queue, requests) ==
    /\ currentState' = "None" /\ UNCHANGED timer
    /\ subscribed' = IF subscribed = "on" THEN "ended" ELSE subscribed
    /\ late' = requests /\ sent' = {}
    /\ held' = FALSE
    /\ messages' = IF held THEN Append(queue, "disconnected") ELSE queue
    /\ device' = IF held /\ device # "connecting" THEN "off" ELSE device

\* closeConnection, with these messages and requests still under way.  [device
\* disconnect] passes over services that connect, and its message comes when the
\* manager is no longer the delegate, unless it is again.
CloseConnection(queue, requests) ==
    /\ currentState' = "None" /\ timer' = FALSE
    /\ subscribed' = IF subscribed = "on" THEN "ended" ELSE subscribed
    /\ late' = requests /\ sent' = {}
    /\ held' = FALSE
    /\ messages' = IF held THEN Append(queue, "disconnected") ELSE queue
    /\ device' = IF held /\ device # "connecting" THEN "off" ELSE device

Stopped(ks) ==
    /\ running' = running \ ks /\ starting' = starting \ ks

\* callOnConnectionFailed and callOnError, with what the services do: the camera
\* closes the connection once more on an error, which finds it closed.
FailConnection(queue, requests) ==
    /\ CloseConnection(queue, requests)
    /\ Stopped({delegate})
    /\ playing' = (playing /\ delegate # "camera")
    /\ UNCHANGED <<services, abandoned, calls>>

\* A request to the TV, next to those that remain; without a client key nothing
\* is sent and nothing called back.
Send(q, remain) ==
    \/ sent' = remain \union {q} /\ UNCHANGED dropped
    \/ dropped' = TRUE /\ sent' = remain

-----------------------------------------------------------------------------
(* Calls of the application, and reports of the framework.                   *)

Call == calls < MaxCalls /\ calls' = calls + 1                          \* bound

\* Mutant: a use of one service replaces the other.
Control_Again(k) ==
    /\ k \notin running
    /\ created' = {k} /\ delegate' = k
    /\ UNCHANGED <<currentState, running, playing, held, timer, subscribed, sent, late>>
    /\ UNCHANGED <<device, messages, starting, dropped, stale, abandoned, calls>>

\* remoteCameraControl, screenMirroringControl: the first use creates a service.
Control(k) ==
    /\ k \notin created
    /\ created' = created \union {k} /\ delegate' = k
    /\ UNCHANGED <<currentState, running, playing, held, timer, subscribed, sent, late>>
    /\ UNCHANGED <<device, messages, starting, dropped, stale, abandoned, calls>>

\* startRemoteCamera, startMirroring, of a service that does not run: one that
\* runs only says no.  allDevices may not have the device any more.
Start(k) ==
    /\ Call
    /\ k \in created /\ k \notin running
    /\ running' = running \union {k} /\ starting' = starting \union {k}
    /\ playing' = (playing /\ k # "camera")
    /\ \/ OpenConnection /\ dropped' = FALSE
       \/ dropped' = TRUE /\ UNCHANGED <<currentState, held, device, messages>>
    /\ UNCHANGED <<services, timer, subscribed, sent, late, stale, abandoned>>

\* stopRemoteCamera, stopMirroring, of a service that runs: another only says no.
Stop(k) ==
    /\ Call /\ k \in running
    /\ Stopped({k})
    /\ playing' = (playing /\ k # "camera")
    /\ CloseConnection(messages, late \union sent)
    /\ UNCHANGED <<services, dropped, stale, abandoned>>

\* setLensFacing, setMicMute and a rotation, while the camera plays.
SetCameraParameter ==
    /\ Call /\ playing
    /\ Send("setParameter", sent)
    /\ UNCHANGED <<currentState, services, running, playing, held, timer, subscribed, late>>
    /\ UNCHANGED <<device, messages, starting, stale, abandoned>>

\* lgcastCameraErrorDidOccur, lgcastMirroringErrorDidOccur: not running any more,
\* and the connection stays open.
FrameworkError(k) ==
    /\ Call /\ k \in running
    /\ Stopped({k})
    /\ abandoned' = TRUE
    /\ UNCHANGED <<currentState, services, playing, held, timer, subscribed, sent, late>>
    /\ UNCHANGED <<device, messages, dropped, stale>>

-----------------------------------------------------------------------------
(* The device.                                                               *)

OnlyDevice == UNCHANGED <<currentState, services, running, playing, held, timer, subscribed,
                          starting, stale, abandoned>>

DeviceConnects ==
    /\ device = "connecting" /\ device' = "on"
    /\ messages' = Append(messages, "ready")
    /\ OnlyDevice /\ UNCHANGED <<sent, late, dropped, calls>>

DeviceFails ==
    /\ device = "connecting" /\ device' \in {"off", "partly"}
    /\ messages' = Append(messages, "failed")
    /\ OnlyDevice /\ UNCHANGED <<sent, late, dropped, calls>>

\* didCloseWithCode: the callbacks of the requests go with the socket, but for
\* those that are in the main queue already.
SocketCloses == sent' \in SUBSET sent /\ late' \in SUBSET late

\* No service is connected any more, or the last of the reports of that is late and
\* finds the webOS service connecting again.
DeviceDrops ==
    /\ Call
    /\ device' \in {"off"} \union ({device} \intersect {"connecting"})
    /\ messages' = Append(messages, "disconnected")
    /\ SocketCloses
    /\ OnlyDevice /\ UNCHANGED dropped

\* The socket is closed, or the registration refused, and another service is
\* connected: the manager, which has no service:disconnectedWithError:, hears nothing.
WebOsDrops ==
    /\ Call
    /\ device # "off" /\ device' = "partly"
    /\ SocketCloses
    /\ dropped' = \/ dropped
                  \/ held /\ device = "connecting"
                  \/ ~(sent \ sent' \subseteq {"setParameter"})
    /\ OnlyDevice /\ UNCHANGED messages

\* The socket is opened again, for a command or when the application is active.
WebOsReopens ==
    /\ Call
    /\ device \in {"off", "partly"} /\ device' = "connecting"
    /\ OnlyDevice /\ UNCHANGED <<sent, late, messages, dropped>>

\* The message at the head of the main queue reaches the manager.
Told(e) == held /\ messages # <<>> /\ Head(messages) = e

\* Mutant: subscribes only when the connection is completed.
ConnectableDeviceReady_OnlyConnected ==
    /\ Told("ready") /\ messages' = Tail(messages)
    /\ IF currentState = "Connected"
         THEN sent' = sent \union {"subscribe"} /\ subscribed' = "on"
         ELSE UNCHANGED <<sent, subscribed>>
    /\ UNCHANGED <<currentState, services, running, playing, held, timer, late>>
    /\ UNCHANGED <<device, starting, dropped, stale, abandoned, calls>>

\* connectableDeviceReady: subscribe
ConnectableDeviceReady ==
    /\ Told("ready") /\ messages' = Tail(messages)
    /\ IF Active
         THEN sent' = sent \union {"subscribe"} /\ subscribed' = "on"
         ELSE UNCHANGED <<sent, subscribed>>
    /\ UNCHANGED <<currentState, services, running, playing, held, timer, late>>
    /\ UNCHANGED <<device, starting, dropped, stale, abandoned, calls>>

\* connectableDeviceDisconnected, and onPairingRejected: nothing is closed.
DisconnectedWhileConnecting ==
    /\ Told("disconnected") /\ messages' = Tail(messages)
    /\ currentState = "Connecting" /\ currentState' = "None"
    /\ Stopped({delegate})
    /\ abandoned' = TRUE
    /\ UNCHANGED <<services, playing, held, timer, subscribed, sent, late>>
    /\ UNCHANGED <<device, dropped, stale, calls>>

DisconnectedWhileConnected ==
    /\ Told("disconnected") /\ currentState = "Connected"
    /\ FailConnection(Tail(messages), late \union sent)
    /\ UNCHANGED <<dropped, stale>>

\* The manager has no method for a failure to connect, ignores a disconnection
\* without a connection, and is not there for messages once it let the device go.
MessageUnheard ==
    /\ messages # <<>> /\ messages' = Tail(messages)
    /\ ~held \/ Told("failed") \/ (Told("disconnected") /\ ~Active)
    /\ dropped' = (dropped \/ Told("failed"))
    /\ UNCHANGED <<currentState, services, running, playing, held, timer, subscribed, sent, late>>
    /\ UNCHANGED <<device, starting, stale, abandoned, calls>>

-----------------------------------------------------------------------------
(* Answers of the TV.  An answer is old when its connection was closed.       *)

Answered(q, old) ==
    /\ q \in IF old THEN late ELSE sent
    /\ stale' = (stale \/ old)
SentLeft(q, old) == IF old THEN sent ELSE sent \ {q}
LateLeft(q, old) == IF old THEN late \ {q} ELSE late

\* The first response to the command subscription: sendConnect, unless closed.
HandleSubscribed(old) ==
    LET q == "subscribe" IN
    /\ Answered(q, old) /\ late' = LateLeft(q, old)
    /\ IF Active
         THEN Send("connect", SentLeft(q, old)) /\ UNCHANGED subscribed
         ELSE sent' = SentLeft(q, old) /\ subscribed' = "ended" /\ UNCHANGED dropped
    /\ UNCHANGED <<currentState, services, running, playing, held, timer>>
    /\ UNCHANGED <<device, messages, starting, abandoned, calls>>

\* The success of sendConnect: sendGetParameter
ConnectAnswered(old) ==
    LET q == "connect" IN
    /\ Answered(q, old) /\ late' = LateLeft(q, old)
    /\ Send("getParameter", SentLeft(q, old))
    /\ UNCHANGED <<currentState, services, running, playing, held, timer, subscribed>>
    /\ UNCHANGED <<device, messages, starting, abandoned, calls>>

\* callOnConnectionCompleted, and onConnectionCompleted with setSourceDeviceInfo.
\* An answer without a payload is dropped.
GetParameterAnswered(old) ==
    LET q == "getParameter" IN
    /\ Answered(q, old) /\ late' = LateLeft(q, old)
    /\ \/ /\ currentState' = "Connected"
          /\ Send("setSource", SentLeft(q, old))
          /\ starting' = starting \ {delegate}
       \/ /\ dropped' = TRUE /\ sent' = SentLeft(q, old)
          /\ UNCHANGED <<currentState, starting>>
    /\ UNCHANGED <<services, running, playing, held, timer, subscribed>>
    /\ UNCHANGED <<device, messages, abandoned, calls>>

\* The success of setSourceDeviceInfo: sendKeepAlive.
SetSourceAnswered(old) ==
    LET q == "setSource" IN
    /\ Answered(q, old) /\ late' = LateLeft(q, old) /\ sent' = SentLeft(q, old)
    /\ timer' = TRUE
    /\ UNCHANGED <<currentState, services, running, playing, held, subscribed>>
    /\ UNCHANGED <<device, messages, starting, dropped, abandoned, calls>>

\* The success of sendSetParameter does nothing.
SetParameterAnswered(old) ==
    LET q == "setParameter" IN
    /\ Answered(q, old) /\ late' = LateLeft(q, old) /\ sent' = SentLeft(q, old)
    /\ UNCHANGED <<currentState, services, running, playing, held, timer, subscribed>>
    /\ UNCHANGED <<device, messages, starting, dropped, abandoned, calls>>

RequestFails(q, old) ==
    /\ Answered(q, old)
    /\ FailConnection(messages, LateLeft(q, old) \union SentLeft(q, old))
    /\ UNCHANGED dropped

\* handleCommand: PLAY and STOP matter to the camera, TEARDOWN ends the session.
PlayCommand ==
    /\ subscribed # "never" /\ Active
    /\ playing' = (playing \/ delegate = "camera")
    /\ UNCHANGED <<currentState, services, running, held, timer, subscribed, sent, late>>
    /\ UNCHANGED <<device, messages, starting, dropped, stale, abandoned, calls>>

StopCommand ==
    /\ subscribed # "never" /\ Active
    /\ playing' = (playing /\ delegate # "camera")
    /\ UNCHANGED <<currentState, services, running, held, timer, subscribed, sent, late>>
    /\ UNCHANGED <<device, messages, starting, dropped, stale, abandoned, calls>>

\* The power state subscription does not ask for the state.
TeardownOrPowerOff ==
    /\ subscribed # "never"
    /\ FailConnection(messages, late \union sent)
    /\ UNCHANGED <<dropped, stale>>

-----------------------------------------------------------------------------

MainQueueRuns ==
    \/ ConnectableDeviceReady \/ DisconnectedWhileConnecting
    \/ DisconnectedWhileConnected \/ MessageUnheard

Answer(old) ==
    \/ HandleSubscribed(old) \/ ConnectAnswered(old) \/ GetParameterAnswered(old)
    \/ SetSourceAnswered(old) \/ SetParameterAnswered(old)
    \/ \E q \in Requests : RequestFails(q, old)

Next ==
    \/ \E k \in Kinds : Control(k) \/ Start(k) \/ Stop(k) \/ FrameworkError(k)
    \/ SetCameraParameter
    \/ DeviceConnects \/ DeviceFails \/ DeviceDrops \/ WebOsDrops \/ WebOsReopens
    \/ MainQueueRuns
    \/ \E old \in BOOLEAN : Answer(old)
    \/ PlayCommand \/ StopCommand \/ TeardownOrPowerOff

\* The main queue is served, a connection attempt ends, and a request is answered
\* or fails, unless its socket is closed.
Fairness ==
    /\ WF_vars(MainQueueRuns)
    /\ WF_vars(DeviceConnects \/ DeviceFails)
    /\ WF_vars(Answer(FALSE)) /\ WF_vars(Answer(TRUE))

Spec == Init /\ [][Next]_vars /\ Fairness

-----------------------------------------------------------------------------
(* Properties.                                                               *)

\* With no service running nothing is left of a connection: no device is held, no
\* keep-alive is sent.  Excepted are the ways to stop running without closing (a
\* rejection, an error of the framework) and answers to a closed connection.
StoppedIsClosed ==
    running = {} /\ ~abandoned /\ ~stale => ~held /\ ~timer /\ currentState = "None"

\* A start ends: the connection is completed or the service is told that it is
\* not.  Except when what it waits for was dropped: there is no device or no client
\* key, the device fails to connect, an answer is empty, or the webOS service ends
\* while another one is connected.  And with both services in use it may not: they
\* share the connection, and only one of them is the delegate.
StartEnds ==
    \A k \in Kinds : k \in starting ~> k \notin starting \/ dropped \/ created = Kinds
=============================================================================
