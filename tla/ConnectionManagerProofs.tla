----------------------- MODULE ConnectionManagerProofs -----------------------
(***************************************************************************)
(* Proofs about ConnectionManager, for any number of calls.                 *)
(***************************************************************************)
EXTENDS ConnectionManager, TLAPS

Closed == ~held /\ ~timer /\ currentState = "None"

\* StoppedIsClosed, with the requests: a closed connection waits for no answer but
\* that to a parameter of the camera, which changes nothing.
NothingLeft ==
    running = {} /\ ~abandoned /\ ~stale => Closed /\ sent \subseteq {"setParameter"}

IInv == TypeOK /\ NothingLeft

-----------------------------------------------------------------------------
(* Closing.                                                                  *)

\* After closeConnection nothing is left, whoever called it.
LEMMA CloseLeavesNothing ==
    ASSUME NEW queue, NEW requests, CloseConnection(queue, requests)
    PROVE  Closed' /\ sent' = {}
BY DEF CloseConnection, Closed

\* closeConnection keeps the types of what it assigns.
LEMMA CloseTyped ==
    ASSUME TypeOK,
           NEW queue \in Seq({"ready", "failed", "disconnected"}), NEW requests \in SUBSET Requests,
           CloseConnection(queue, requests)
    PROVE  /\ currentState' \in {"None", "Connecting", "Connected"}
           /\ held' \in BOOLEAN /\ timer' \in BOOLEAN
           /\ subscribed' \in {"never", "on", "ended"}
           /\ sent' \subseteq Requests /\ late' \subseteq Requests
           /\ device' \in {"off", "connecting", "partly", "on"}
           /\ messages' \in Seq({"ready", "failed", "disconnected"})
<1>1. messages' \in Seq({"ready", "failed", "disconnected"})
  BY DEF CloseConnection
<1>2. device' \in {"off", "connecting", "partly", "on"} /\ subscribed' \in {"never", "on", "ended"}
  BY DEF CloseConnection, TypeOK
<1> QED
  BY <1>1, <1>2 DEF CloseConnection

LEMMA FailKeepsInvariant ==
    ASSUME IInv, dropped' \in BOOLEAN, stale' \in BOOLEAN,
           NEW queue \in Seq({"ready", "failed", "disconnected"}), NEW requests \in SUBSET Requests,
           FailConnection(queue, requests)
    PROVE  IInv'
<1>0. CloseConnection(queue, requests)
  BY DEF FailConnection
<1>1. /\ currentState' \in {"None", "Connecting", "Connected"}
      /\ held' \in BOOLEAN /\ timer' \in BOOLEAN
      /\ subscribed' \in {"never", "on", "ended"}
      /\ sent' \subseteq Requests /\ late' \subseteq Requests
      /\ device' \in {"off", "connecting", "partly", "on"}
      /\ messages' \in Seq({"ready", "failed", "disconnected"})
  BY <1>0, CloseTyped DEF IInv
<1>2. /\ created' \subseteq Kinds /\ delegate' \in created' \union {"nobody"}
      /\ running' \subseteq created' /\ starting' \subseteq running'
  BY DEF FailConnection, Stopped, services, IInv, TypeOK
<1>3. playing' \in BOOLEAN
  BY DEF FailConnection
<1>4. abandoned' \in BOOLEAN /\ calls' \in 0..MaxCalls
  BY DEF FailConnection, IInv, TypeOK
<1>5. TypeOK'
  BY <1>1, <1>2, <1>3, <1>4 DEF TypeOK
<1>6. NothingLeft'
  BY <1>0, CloseLeavesNothing DEF NothingLeft
<1> QED
  BY <1>5, <1>6 DEF IInv

-----------------------------------------------------------------------------
(* The actions.                                                              *)

LEMMA CallTyped == ASSUME TypeOK, Call PROVE calls' \in 0..MaxCalls
BY ManagerAssumption DEF Call, TypeOK

LEMMA SendTyped ==
    ASSUME TypeOK, NEW q \in Requests, NEW remain \in SUBSET Requests, Send(q, remain)
    PROVE  sent' \subseteq remain \union {q} /\ sent' \subseteq Requests /\ dropped' \in BOOLEAN
BY DEF Send, TypeOK

LEMMA AnsweredTyped ==
    ASSUME TypeOK, NEW q \in Requests, NEW old \in BOOLEAN, Answered(q, old)
    PROVE  /\ stale' \in BOOLEAN /\ (~stale' => ~stale /\ q \in sent)
           /\ SentLeft(q, old) \subseteq sent /\ LateLeft(q, old) \subseteq late
           /\ SentLeft(q, old) \in SUBSET Requests /\ LateLeft(q, old) \in SUBSET Requests
BY DEF Answered, SentLeft, LateLeft, TypeOK

LEMMA CallsKeep ==
    ASSUME IInv, NEW k \in Kinds,
           Control(k) \/ Start(k) \/ Stop(k) \/ FrameworkError(k) \/ SetCameraParameter
    PROVE  IInv'
<1> USE DEF IInv
<1>1. CASE Control(k)
  BY <1>1 DEF Control, TypeOK, NothingLeft, Closed
<1>2. CASE Start(k)
  <2>1. messages' \in Seq({"ready", "failed", "disconnected"})
    BY <1>2 DEF Start, OpenConnection, TypeOK
  <2>2. /\ currentState' \in {"None", "Connecting", "Connected"} /\ held' \in BOOLEAN
        /\ device' \in {"off", "connecting", "partly", "on"} /\ dropped' \in BOOLEAN
    BY <1>2 DEF Start, OpenConnection, TypeOK
  <2>3. /\ created' \subseteq Kinds /\ delegate' \in created' \union {"nobody"}
        /\ running' \subseteq created' /\ starting' \subseteq running' /\ running' # {}
    BY <1>2 DEF Start, services, TypeOK
  <2>4. playing' \in BOOLEAN
    BY <1>2 DEF Start
  <2>5. calls' \in 0..MaxCalls
    BY <1>2, CallTyped DEF Start
  <2>6. TypeOK'
    BY <1>2, <2>1, <2>2, <2>3, <2>4, <2>5 DEF Start, TypeOK
  <2> QED
    BY <2>3, <2>6 DEF NothingLeft
<1>3. CASE Stop(k)
  <2>0. CloseConnection(messages, late \union sent)
    BY <1>3 DEF Stop
  <2>1. /\ currentState' \in {"None", "Connecting", "Connected"}
        /\ held' \in BOOLEAN /\ timer' \in BOOLEAN
        /\ subscribed' \in {"never", "on", "ended"}
        /\ sent' \subseteq Requests /\ late' \subseteq Requests
        /\ device' \in {"off", "connecting", "partly", "on"}
        /\ messages' \in Seq({"ready", "failed", "disconnected"})
    <3>1. messages \in Seq({"ready", "failed", "disconnected"})
          /\ late \union sent \in SUBSET Requests
      BY DEF TypeOK
    <3> QED
      BY <2>0, <3>1, CloseTyped
  <2>2. /\ created' \subseteq Kinds /\ delegate' \in created' \union {"nobody"}
        /\ running' \subseteq created' /\ starting' \subseteq running'
    BY <1>3 DEF Stop, Stopped, services, TypeOK
  <2>3. playing' \in BOOLEAN
    BY <1>3 DEF Stop
  <2>4. calls' \in 0..MaxCalls
    BY <1>3, CallTyped DEF Stop
  <2>5. TypeOK'
    BY <1>3, <2>1, <2>2, <2>3, <2>4 DEF Stop, TypeOK
  <2> QED
    BY <2>0, <2>5, CloseLeavesNothing DEF NothingLeft
<1>4. CASE FrameworkError(k)
  <2>1. calls' \in 0..MaxCalls
    BY <1>4, CallTyped DEF FrameworkError
  <2>2. running' \subseteq created' /\ starting' \subseteq running'
    BY <1>4 DEF FrameworkError, Stopped, services, TypeOK
  <2> QED
    BY <1>4, <2>1, <2>2 DEF FrameworkError, services, TypeOK, NothingLeft
<1>5. CASE SetCameraParameter
  <2>1. calls' \in 0..MaxCalls
    BY <1>5, CallTyped DEF SetCameraParameter
  <2>2. sent \in SUBSET Requests /\ "setParameter" \in Requests
    BY DEF TypeOK, Requests
  <2>3. /\ sent' \subseteq sent \union {"setParameter"} /\ sent' \subseteq Requests
        /\ dropped' \in BOOLEAN
    BY <1>5, <2>2, SendTyped DEF SetCameraParameter
  <2> QED
    BY <1>5, <2>1, <2>3 DEF SetCameraParameter, services, TypeOK, NothingLeft, Closed
<1> QED
  BY <1>1, <1>2, <1>3, <1>4, <1>5

LEMMA DeviceKeeps ==
    ASSUME IInv, DeviceConnects \/ DeviceFails \/ DeviceDrops \/ WebOsDrops \/ WebOsReopens
    PROVE  IInv'
<1>1. calls' \in 0..MaxCalls
  <2>1. CASE Call
    BY <2>1, CallTyped DEF IInv
  <2>2. CASE UNCHANGED calls
    BY <2>2 DEF IInv, TypeOK
  <2> QED
    BY <2>1, <2>2 DEF DeviceConnects, DeviceFails, DeviceDrops, WebOsDrops, WebOsReopens
<1>2. messages' \in Seq({"ready", "failed", "disconnected"})
  <2>1. \/ UNCHANGED messages
        \/ \E e \in {"ready", "failed", "disconnected"} : messages' = Append(messages, e)
    BY DEF DeviceConnects, DeviceFails, DeviceDrops, WebOsDrops, WebOsReopens
  <2> QED
    BY <2>1 DEF IInv, TypeOK
<1>3. device' \in {"off", "connecting", "partly", "on"} /\ OnlyDevice
  BY DEF DeviceConnects, DeviceFails, DeviceDrops, WebOsDrops, WebOsReopens
<1>4. sent' \subseteq sent /\ late' \subseteq late
  BY DEF DeviceConnects, DeviceFails, DeviceDrops, WebOsDrops, WebOsReopens, SocketCloses
<1>5. dropped' \in BOOLEAN
  <2>1. CASE WebOsDrops
    BY <2>1 DEF WebOsDrops
  <2>2. CASE ~WebOsDrops
    BY <2>2 DEF IInv, TypeOK, DeviceConnects, DeviceFails, DeviceDrops, WebOsReopens
  <2> QED
    BY <2>1, <2>2
<1> QED
  BY <1>1, <1>2, <1>3, <1>4, <1>5 DEF IInv, TypeOK, OnlyDevice, services, NothingLeft, Closed

LEMMA MessagesKeep == ASSUME IInv, MainQueueRuns PROVE IInv'
<1> USE DEF IInv
<1>0. messages # <<>> /\ Tail(messages) \in Seq({"ready", "failed", "disconnected"})
  <2>1. messages # <<>>
    BY DEF MainQueueRuns, ConnectableDeviceReady, DisconnectedWhileConnecting,
           DisconnectedWhileConnected, MessageUnheard, Told
  <2> QED
    BY <2>1 DEF TypeOK
<1>1. CASE ConnectableDeviceReady
  <2>1. sent' \subseteq Requests /\ subscribed' \in {"never", "on", "ended"} /\ held
    BY <1>1 DEF ConnectableDeviceReady, Told, TypeOK, Requests
  <2> QED
    BY <1>0, <1>1, <2>1 DEF ConnectableDeviceReady, services, TypeOK, NothingLeft, Closed
<1>2. CASE DisconnectedWhileConnecting
  <2>1. running' \subseteq created' /\ starting' \subseteq running'
    BY <1>2 DEF DisconnectedWhileConnecting, Stopped, services, TypeOK
  <2> QED
    BY <1>0, <1>2, <2>1 DEF DisconnectedWhileConnecting, services, TypeOK, NothingLeft
<1>3. CASE DisconnectedWhileConnected
  <2>1. late \union sent \in SUBSET Requests /\ dropped' \in BOOLEAN /\ stale' \in BOOLEAN
    BY <1>3 DEF DisconnectedWhileConnected, TypeOK
  <2> QED
    BY <1>0, <1>3, <2>1, FailKeepsInvariant DEF DisconnectedWhileConnected
<1>4. CASE MessageUnheard
  <2>1. dropped' \in BOOLEAN
    BY <1>4 DEF MessageUnheard
  <2> QED
    BY <1>0, <1>4, <2>1 DEF MessageUnheard, services, TypeOK, NothingLeft, Closed
<1> QED
  BY <1>1, <1>2, <1>3, <1>4 DEF MainQueueRuns

LEMMA AnswersKeep == ASSUME IInv, NEW old \in BOOLEAN, Answer(old) PROVE IInv'
<1> USE DEF IInv
<1>r. {"subscribe", "connect", "getParameter", "setSource", "setParameter"} = Requests
  BY DEF Requests
<1>1. CASE HandleSubscribed(old)
  <2>1. /\ stale' \in BOOLEAN /\ (~stale' => ~stale /\ "subscribe" \in sent)
        /\ SentLeft("subscribe", old) \in SUBSET Requests
        /\ late' \in SUBSET Requests
    BY <1>1, <1>r, AnsweredTyped DEF HandleSubscribed
  <2>2. /\ sent' \subseteq Requests /\ dropped' \in BOOLEAN
        /\ subscribed' \in {"never", "on", "ended"}
    BY <1>1, <1>r, <2>1, SendTyped DEF HandleSubscribed, TypeOK
  <2> QED
    BY <1>1, <2>1, <2>2 DEF HandleSubscribed, services, TypeOK, NothingLeft, Closed
<1>2. CASE ConnectAnswered(old)
  <2>1. /\ stale' \in BOOLEAN /\ (~stale' => ~stale /\ "connect" \in sent)
        /\ SentLeft("connect", old) \in SUBSET Requests
        /\ late' \in SUBSET Requests
    BY <1>2, <1>r, AnsweredTyped DEF ConnectAnswered
  <2>2. sent' \subseteq Requests /\ dropped' \in BOOLEAN
    BY <1>2, <1>r, <2>1, SendTyped DEF ConnectAnswered
  <2> QED
    BY <1>2, <2>1, <2>2 DEF ConnectAnswered, services, TypeOK, NothingLeft, Closed
<1>3. CASE GetParameterAnswered(old)
  <2>1. /\ stale' \in BOOLEAN /\ (~stale' => ~stale /\ "getParameter" \in sent)
        /\ SentLeft("getParameter", old) \in SUBSET Requests
        /\ late' \in SUBSET Requests
    BY <1>3, <1>r, AnsweredTyped DEF GetParameterAnswered
  <2>2. sent' \subseteq Requests /\ dropped' \in BOOLEAN
    BY <1>3, <1>r, <2>1, SendTyped DEF GetParameterAnswered
  <2>3. /\ currentState' \in {"None", "Connecting", "Connected"}
        /\ starting' \subseteq starting
    BY <1>3 DEF GetParameterAnswered, TypeOK
  <2> QED
    BY <1>3, <2>1, <2>2, <2>3 DEF GetParameterAnswered, services, TypeOK, NothingLeft
<1>4. CASE SetSourceAnswered(old)
  <2>1. /\ stale' \in BOOLEAN /\ (~stale' => ~stale /\ "setSource" \in sent)
        /\ sent' \in SUBSET Requests /\ late' \in SUBSET Requests
    BY <1>4, <1>r, AnsweredTyped DEF SetSourceAnswered
  <2> QED
    BY <1>4, <2>1 DEF SetSourceAnswered, services, TypeOK, NothingLeft
<1>5. CASE SetParameterAnswered(old)
  <2>1. /\ stale' \in BOOLEAN /\ (~stale' => ~stale)
        /\ sent' \subseteq sent /\ late' \subseteq late
    BY <1>5, <1>r, AnsweredTyped DEF SetParameterAnswered
  <2> QED
    BY <1>5, <2>1 DEF SetParameterAnswered, services, TypeOK, NothingLeft, Closed
<1>6. ASSUME NEW q \in Requests, RequestFails(q, old) PROVE IInv'
  <2>1. /\ stale' \in BOOLEAN /\ dropped' \in BOOLEAN
        /\ LateLeft(q, old) \union SentLeft(q, old) \in SUBSET Requests
    BY <1>6, AnsweredTyped DEF RequestFails, TypeOK
  <2>2. messages \in Seq({"ready", "failed", "disconnected"})
    BY DEF TypeOK
  <2> QED
    BY <1>6, <2>1, <2>2, FailKeepsInvariant DEF RequestFails
<1> QED
  BY <1>1, <1>2, <1>3, <1>4, <1>5, <1>6 DEF Answer

LEMMA CommandsKeep ==
    ASSUME IInv, PlayCommand \/ StopCommand \/ TeardownOrPowerOff
    PROVE  IInv'
<1> USE DEF IInv
<1>1. CASE PlayCommand \/ StopCommand
  <2>1. playing' \in BOOLEAN
    BY <1>1 DEF PlayCommand, StopCommand
  <2> QED
    BY <1>1, <2>1 DEF PlayCommand, StopCommand, services, TypeOK, NothingLeft, Closed
<1>2. CASE TeardownOrPowerOff
  <2>1. /\ late \union sent \in SUBSET Requests /\ dropped' \in BOOLEAN /\ stale' \in BOOLEAN
        /\ messages \in Seq({"ready", "failed", "disconnected"})
    BY <1>2 DEF TeardownOrPowerOff, TypeOK
  <2> QED
    BY <1>2, <2>1, FailKeepsInvariant DEF TeardownOrPowerOff
<1> QED
  BY <1>1, <1>2

-----------------------------------------------------------------------------
(* The theorems.                                                             *)

LEMMA Invariance == Spec => []IInv
<1>1. Init => IInv
  <2> SUFFICES ASSUME Init PROVE IInv
    OBVIOUS
  <2>1. calls \in 0..MaxCalls
    BY ManagerAssumption DEF Init
  <2>2. messages \in Seq({"ready", "failed", "disconnected"})
    BY DEF Init
  <2>3. playing \in BOOLEAN /\ held \in BOOLEAN /\ timer \in BOOLEAN
    BY DEF Init
  <2>4. dropped \in BOOLEAN /\ stale \in BOOLEAN /\ abandoned \in BOOLEAN
    BY DEF Init
  <2>5. TypeOK
    BY <2>1, <2>2, <2>3, <2>4 DEF Init, TypeOK
  <2>6. NothingLeft
    BY DEF Init, NothingLeft, Closed
  <2> QED
    BY <2>5, <2>6 DEF IInv
<1>2. IInv /\ [Next]_vars => IInv'
  <2> SUFFICES ASSUME IInv, [Next]_vars PROVE IInv'
    OBVIOUS
  <2>1. CASE UNCHANGED vars
    BY <2>1 DEF vars, IInv, TypeOK, NothingLeft, Closed
  <2>2. CASE SetCameraParameter
    BY <2>2, CallsKeep DEF Kinds
  <2> QED
    BY <2>1, <2>2, CallsKeep, DeviceKeeps, MessagesKeep, AnswersKeep, CommandsKeep DEF Next
<1> QED
  BY <1>1, <1>2, PTL DEF Spec

\* The manager's variables keep their types; in particular only services that exist
\* run, and none that does not run is still being started.
THEOREM TypeCorrect == Spec => []TypeOK
<1>1. IInv => TypeOK
  BY DEF IInv
<1> QED
  BY <1>1, Invariance, PTL

\* Whatever the calls, drops, answers and commands: when the last service stops, by
\* a stop, a failure or an error, no device is held and no keep-alive goes on.
THEOREM StoppingCloses == Spec => []StoppedIsClosed
<1>1. IInv => StoppedIsClosed
  BY DEF IInv, NothingLeft, Closed, StoppedIsClosed
<1> QED
  BY <1>1, Invariance, PTL
=============================================================================
