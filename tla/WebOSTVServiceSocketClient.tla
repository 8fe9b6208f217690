---------------------- MODULE WebOSTVServiceSocketClient ----------------------
(***************************************************************************)
(* WebOSTVServiceSocketClient (src/Services/Helpers/): the web socket over  *)
(* which WebOSTVService talks to a webOS TV - opening it, hello and         *)
(* registration, the command queue, callbacks, subscriptions, and what      *)
(* happens when the application goes to the background and comes back.      *)
(*                                                                          *)
(* The client runs on the main thread.  The socket (LGSRWebSocket, external)*)
(* works on a queue of its own: its state changes there, and it reports by  *)
(* blocks of the main queue, which do nothing once its delegate is nil.  A  *)
(* close, the client's or the TV's, is a request to that queue; whether the *)
(* socket reports didClose afterwards depends on whether its streams are    *)
(* still open by then.  Callbacks of commands are blocks of the main queue. *)
(***************************************************************************)
EXTENDS Naturals, Sequences, FiniteSets, SequencesExt

CONSTANTS
    Commands,     \* the commands an application issues, each once
    Subs,         \* what it can subscribe to (URL and payload)
    PairingOn,    \* DiscoveryManager.pairingLevel is DeviceServicePairingLevelOn
    OnBackground, \* [DeviceService shouldDisconnectOnBackground]
    MaxCalls,     \* bound: calls of the application and the system
    MaxRegs,      \* bound: registrations held when the TV answers hello
    MaxQueue      \* bound: blocks waiting when the TV speaks

ASSUME ClientAssumption ==
    /\ PairingOn \in BOOLEAN /\ OnBackground \in BOOLEAN
    /\ MaxCalls \in Nat /\ MaxRegs \in Nat /\ MaxQueue \in Nat
    /\ IsFiniteSet(Commands) /\ IsFiniteSet(Subs)
    /\ {"hello", "register", "socket"} \intersect (Commands \union Subs) = {}
    /\ Commands \intersect Subs = {}
    /\ Commands \intersect (Subs \X {"subscribe", "unsubscribe"}) = {}

VARIABLES
    socket,           \* _socket: "nil", its readyState, or "gone": CLOSING and reported
    closeAsked,       \* the client has sent closeWithCode: to this socket
    due,              \* what the TV got over this open socket and has not answered
    connected,        \* _connected
    queue,            \* _commandQueue
    active,           \* _activeConnections: commands and "hello"
    regs,             \* the registrations in _activeConnections
    clientKey,        \* webOSTVServiceConfig.clientKey is set
    subscribed,       \* _subscribed
    resting,          \* those of _subscribed whose isSubscribed is not set
    saved,            \* savedSubscriptions
    asleep,           \* the application is in the background
    observing,        \* the two observers of the application's state are set
    reconnectOnWake,  \* _reconnectOnWake
    mainQueue,        \* blocks of the main queue, socket reports and callbacks
    raised,           \* send: was called on a connecting socket: NSAssert
    sends,            \* history: how often each command was given to a socket
    outcome,          \* history: how each command ended
    calls             \* calls so far, for the bound

sockVars == <<socket, closeAsked, due>>
subVars  == <<subscribed, resting, saved>>
appVars  == <<asleep, observing, reconnectOnWake>>
histVars == <<sends, outcome>>
vars == <<sockVars, connected, queue, active, regs, clientKey, subVars, appVars,
          mainQueue, raised, histVars, calls>>

ReadyStates == {"connecting", "open", "closing", "closed"}
Strings == Commands \union (Subs \X {"subscribe", "unsubscribe"})
Keys == Commands \union {"hello"}
SocketEvents == {"didOpen", "didClose", "didFail", "didFailCertificate",
                 "helloAnswer", "imposterAnswer", "response", "errorResponse",
                 "prompt", "registered", "denied"}
Callbacks == {"complete", "error", "imposter"}
Blocks == [event : SocketEvents \union Callbacks \union {"orphan"},
           of : Commands \union {"hello", "register", "socket"}]
Block(e, k) == [event |-> e, of |-> k]

TypeOK ==
    /\ socket \in ReadyStates \union {"nil", "gone"} /\ closeAsked \in BOOLEAN
    /\ due \in [Commands \union {"hello", "register"} -> Nat]
    /\ connected \in BOOLEAN /\ clientKey \in BOOLEAN /\ raised \in BOOLEAN
    /\ queue \in Seq(Strings)
    /\ active \subseteq Keys
    /\ regs \in Nat
    /\ subscribed \subseteq Subs /\ saved \subseteq Subs /\ resting \subseteq subscribed
    /\ asleep \in BOOLEAN /\ observing \in BOOLEAN /\ reconnectOnWake \in BOOLEAN
    /\ mainQueue \in Seq(Blocks)
    /\ sends \in [Commands -> Nat]
    /\ outcome \in [Commands -> {"idle", "issued", "answered", "failed", "dropped"}]
    /\ calls \in 0..MaxCalls

NoDue == [k \in Commands \union {"hello", "register"} |-> 0]

Init ==
    /\ socket = "nil" /\ closeAsked = FALSE /\ due = NoDue
    /\ connected = FALSE /\ queue = <<>> /\ active = {} /\ regs = 0
    /\ clientKey \in BOOLEAN
    /\ subscribed = {} /\ resting = {} /\ saved = {}
    /\ asleep = FALSE /\ observing = FALSE /\ reconnectOnWake = FALSE
    /\ mainQueue = <<>> /\ raised = FALSE
    /\ sends = [c \in Commands |-> 0] /\ outcome = [c \in Commands |-> "idle"]
    /\ calls = 0

-----------------------------------------------------------------------------
(* The socket and its queue.  All of it is the library's; only what it tells *)
(* the client, and when, is kept.                                            *)

\* The main queue when the socket's delegate is nil: its reports do nothing now.
Orphaned(blocks) ==
    [i \in DOMAIN blocks |->
       IF blocks[i].event \in SocketEvents THEN Block("orphan", "socket") ELSE blocks[i]]

\* The handshake is over; a close asked for in the meantime comes later.
SocketOpens ==
    /\ ~raised /\ socket = "connecting"
    /\ socket' = "open"
    /\ mainQueue' = Append(mainQueue, Block("didOpen", "socket"))
    /\ UNCHANGED <<closeAsked, due, connected, queue, active, regs, clientKey,
                   subVars, appVars, raised, histVars>>

\* The close reaches the socket: asked for by the client, or a close frame.
SocketCloses ==
    /\ ~raised
    /\ \/ socket = "connecting" /\ closeAsked
       \/ socket = "open"
    /\ socket' = "closing" /\ due' = NoDue
    /\ UNCHANGED <<closeAsked, connected, queue, active, regs, clientKey,
                   subVars, appVars, mainQueue, raised, histVars>>

\* The streams were still open: the close is reported.  They may not be.
SocketReportsClose ==
    /\ ~raised /\ socket = "closing"
    /\ socket' = "gone"
    /\ mainQueue' = Append(mainQueue, Block("didClose", "socket"))
    /\ UNCHANGED <<closeAsked, due, connected, queue, active, regs, clientKey,
                   subVars, appVars, raised, histVars>>

\* The streams end or fail; a bad certificate shows when the stream opens.
SocketEnds ==
    /\ ~raised /\ socket \in {"connecting", "open", "closing"}
    /\ \E e \in {"didClose", "didFail", "didFailCertificate"} :
          /\ e = "didFailCertificate" => socket = "connecting"
          /\ mainQueue' = Append(mainQueue, Block(e, "socket"))
    /\ socket' = "closed" /\ due' = NoDue
    /\ UNCHANGED <<closeAsked, connected, queue, active, regs, clientKey,
                   subVars, appVars, raised, histVars>>

\* What the TV may say about something it got.
Answers(k) == CASE k = "hello"    -> {"helloAnswer", "imposterAnswer"}
                [] k = "register" -> {"prompt", "registered", "denied"}
                [] OTHER          -> {"response", "errorResponse"}

TvAnswers ==
    /\ ~raised /\ socket = "open"
    /\ Len(mainQueue) < MaxQueue                                       \* bound
    /\ \E k \in DOMAIN due : \E e \in Answers(k) :
          /\ due[k] > 0
          /\ k = "hello" => regs < MaxRegs                              \* bound
          /\ due' = IF e = "prompt" THEN due ELSE [due EXCEPT ![k] = @ - 1]
          /\ mainQueue' = Append(mainQueue, Block(e, k))
    /\ UNCHANGED <<socket, closeAsked, connected, queue, active, regs, clientKey,
                   subVars, appVars, raised, histVars>>

-----------------------------------------------------------------------------
(* The parts the handlers are made of; mq is the main queue without the      *)
(* block that runs.                                                          *)

\* _socket = createSocketWithURLRequest, in place of one with no delegate.
NewSocket(mq) ==
    /\ socket' = "connecting" /\ closeAsked' = FALSE /\ due' = NoDue
    /\ mainQueue' = Orphaned(mq)

\* [_socket send:]: the TV gets it if no close goes before it.
Send(K) ==
    due' = IF socket = "open" /\ ~closeAsked
             THEN [k \in DOMAIN due |-> IF k \in K THEN due[k] + 1 ELSE due[k]]
             ELSE due

\* Mutant: hello is kept under its message id, not under "hello".
HelloTv_ById(mq) ==
    /\ connected' = TRUE
    /\ active' = active \union {"register"}
    /\ Send({"hello"})
    /\ mainQueue' = mq
    /\ UNCHANGED <<socket, closeAsked>>

\* webSocketDidOpen and helloTv
HelloTv(mq) ==
    /\ connected' = TRUE
    /\ active' = active \union {"hello"}
    /\ Send({"hello"})
    /\ mainQueue' = mq
    /\ UNCHANGED <<socket, closeAsked>>

OpenSocket(mq) ==
    \/ socket = "open" /\ HelloTv(mq)
    \/ /\ socket = "connecting"
       /\ mainQueue' = mq
       /\ UNCHANGED <<sockVars, connected, active>>
    \/ /\ socket \notin {"open", "connecting"}
       /\ NewSocket(mq)
       /\ UNCHANGED <<connected, active>>

\* disconnectWithError:.  The callbacks that wait in active are kept.
DisconnectWithError(reconnects) ==
    /\ observing' = (observing /\ reconnects)
    /\ connected' = FALSE
    /\ closeAsked' = (closeAsked \/ socket \in {"connecting", "open"})
    /\ subscribed' = {} /\ resting' = {}

\* sendStringOverSocket: for each of the strings, in this order, after the
\* commands of `flushed' were sent.  Ids are fresh, so that no string sent is
\* found in the queue.
SendStrings(ss, flushed, q, mq) ==
    \/ /\ socket = "open"
       /\ Send(flushed \union (Commands \intersect Range(ss)))
       /\ queue' = q /\ mainQueue' = mq
       /\ UNCHANGED <<socket, closeAsked>>
    \/ /\ socket # "open" /\ (ss = <<>> \/ socket \notin {"nil", "closed"})
       /\ queue' = q \o ss /\ mainQueue' = mq
       /\ UNCHANGED sockVars
    \/ /\ socket \in {"nil", "closed"} /\ ss # <<>>
       /\ queue' = q \o ss
       /\ NewSocket(mq)

\* send: on a socket that connects: its NSAssert ends the application.
Raise ==
    /\ raised' = TRUE
    /\ UNCHANGED <<sockVars, connected, queue, active, regs, clientKey, subVars,
                   appVars, mainQueue, histVars>>

Settled(C, end) == [c \in Commands |-> IF c \in C THEN end ELSE outcome[c]]
HandedOver(C) == [c \in Commands |-> IF c \in C THEN sends[c] + 1 ELSE sends[c]]

-----------------------------------------------------------------------------
(* What the application and the system call.                                 *)

\* WebOSTVService connect, which looks at the service's own `connected'.
Connect ==
    /\ ~raised
    /\ ~(connected /\ (PairingOn => clientKey))
    /\ OpenSocket(mainQueue)
    /\ UNCHANGED <<queue, regs, clientKey, subVars, appVars, raised, histVars>>

Disconnect ==
    /\ ~raised
    /\ DisconnectWithError(reconnectOnWake)
    /\ UNCHANGED <<socket, due, queue, active, regs, clientKey, saved, asleep,
                   reconnectOnWake, mainQueue, raised, histVars>>

SendCommand(c) ==
    /\ ~raised
    /\ outcome[c] = "idle"
    /\ outcome' = [outcome EXCEPT ![c] = "issued"]
    /\ active' = active \union {c}
    /\ SendStrings(<<c>>, {}, queue, mainQueue)
    /\ sends' = HandedOver(IF socket = "open" THEN {c} ELSE {})
    /\ UNCHANGED <<connected, regs, clientKey, subVars, appVars, raised>>

\* addSubscribe and [subscription subscribe]; its callbacks are the application's.
AddSubscribe(s) ==
    /\ ~raised
    /\ s \notin subscribed \ resting
    /\ subscribed' = subscribed \union {s} /\ resting' = resting \ {s}
    /\ SendStrings(<< <<s, "subscribe">> >>, {}, queue, mainQueue)
    /\ UNCHANGED <<connected, active, regs, clientKey, saved, appVars, raised, histVars>>

\* [subscription unsubscribe]: nothing is sent, and _subscribed keeps it, when
\* the client is not connected.
Unsubscribe(s) ==
    /\ ~raised
    /\ s \in subscribed \ resting
    /\ \/ /\ connected
          /\ subscribed' = subscribed \ {s} /\ UNCHANGED resting
          /\ SendStrings(<< <<s, "unsubscribe">> >>, {}, queue, mainQueue)
       \/ /\ ~connected
          /\ resting' = resting \union {s}
          /\ UNCHANGED <<subscribed, queue, sockVars, mainQueue>>
    /\ UNCHANGED <<connected, active, regs, clientKey, saved, appVars, raised, histVars>>

\* The application goes to the background: hAppDidEnterBackground.
Sleep ==
    /\ ~raised /\ ~asleep
    /\ asleep' = TRUE
    /\ IF observing /\ connected
         THEN /\ reconnectOnWake' = TRUE
              /\ saved' = subscribed
              /\ DisconnectWithError(TRUE)
         ELSE UNCHANGED <<reconnectOnWake, subVars, connected, closeAsked, observing>>
    /\ UNCHANGED <<socket, due, queue, active, regs, clientKey, mainQueue,
                   raised, histVars>>

\* Mutant: savedSubscriptions is reset before the registration.
Wake_ForgetsSaved ==
    /\ ~raised /\ asleep
    /\ asleep' = FALSE /\ saved' = {}
    /\ IF observing /\ reconnectOnWake
         THEN OpenSocket(mainQueue) /\ reconnectOnWake' = FALSE
         ELSE UNCHANGED <<sockVars, mainQueue, connected, active, reconnectOnWake>>
    /\ UNCHANGED <<queue, regs, clientKey, subscribed, resting, observing, raised, histVars>>

\* The application becomes active again: hAppDidBecomeActive.
Wake ==
    /\ ~raised /\ asleep
    /\ asleep' = FALSE
    /\ IF observing /\ reconnectOnWake
         THEN OpenSocket(mainQueue) /\ reconnectOnWake' = FALSE
         ELSE UNCHANGED <<sockVars, mainQueue, connected, active, reconnectOnWake>>
    /\ UNCHANGED <<queue, regs, clientKey, subVars, observing, raised, histVars>>

-----------------------------------------------------------------------------
(* Blocks of the main queue: the socket's reports.                           *)

\* The next block of the main queue is report or callback e, about k.
Runs(e, k) == ~raised /\ mainQueue # <<>> /\ Head(mainQueue) = Block(e, k)
Rest == Tail(mainQueue)

WebSocketDidOpen ==
    /\ Runs("didOpen", "socket")
    /\ HelloTv(Rest)
    /\ UNCHANGED <<queue, regs, clientKey, subVars, appVars, raised, histVars>>

\* A report of a socket that has no delegate any more.
OrphanedReport ==
    /\ Runs("orphan", "socket")
    /\ mainQueue' = Rest
    /\ UNCHANGED <<sockVars, connected, queue, active, regs, clientKey, subVars, appVars,
                   raised, histVars>>

\* Mutant: _connected is not reset.
WebSocketDidClose_StaysConnected ==
    /\ Runs("didClose", "socket")
    /\ UNCHANGED connected
    /\ active' = {} /\ regs' = 0
    /\ outcome' = Settled(active \intersect Commands, "dropped")
    /\ socket' = "nil" /\ closeAsked' = FALSE /\ due' = NoDue
    /\ mainQueue' = Orphaned(Rest)
    /\ UNCHANGED <<queue, clientKey, subVars, appVars, raised, sends>>

\* The callbacks of active are dropped, the queue and subscriptions stay.
WebSocketDidClose ==
    /\ Runs("didClose", "socket")
    /\ connected' = FALSE
    /\ active' = {} /\ regs' = 0
    /\ outcome' = Settled(active \intersect Commands, "dropped")
    /\ socket' = "nil" /\ closeAsked' = FALSE /\ due' = NoDue
    /\ mainQueue' = Orphaned(Rest)
    /\ UNCHANGED <<queue, clientKey, subVars, appVars, raised, sends>>

\* The error callbacks didFailWithError: dispatches, in the order of a
\* dictionary; the registrations after the first follow it.  A subscription's
\* callback is the application's.
ErrorBlocks ==
    LET keys == active \union (IF regs > 0 THEN {"register"} ELSE {})
    IN {[i \in 1..Len(s) |-> Block("error", s[i])]
          \o [i \in 1..(IF regs > 0 THEN regs - 1 ELSE 0) |-> Block("error", "register")]
        : s \in SetToSeqs(keys)}

\* Mutant: the callbacks called are not taken out of _activeConnections.
WebSocketDidFail_KeepsActive ==
    /\ Runs("didFail", "socket") \/ Runs("didFailCertificate", "socket")
    /\ connected' = FALSE
    /\ regs' = 0 /\ UNCHANGED active
    /\ \E errors \in ErrorBlocks :
          IF Head(mainQueue).event = "didFailCertificate"
            THEN clientKey' = FALSE /\ NewSocket(Rest \o errors)
            ELSE mainQueue' = Rest \o errors /\ UNCHANGED <<clientKey, sockVars>>
    /\ UNCHANGED <<queue, subVars, appVars, raised, histVars>>

WebSocketDidFail ==
    /\ Runs("didFail", "socket") \/ Runs("didFailCertificate", "socket")
    /\ connected' = FALSE
    /\ active' = {} /\ regs' = 0
    /\ \E errors \in ErrorBlocks :
          IF Head(mainQueue).event = "didFailCertificate"
            THEN clientKey' = FALSE /\ NewSocket(Rest \o errors)
            ELSE mainQueue' = Rest \o errors /\ UNCHANGED <<clientKey, sockVars>>
    /\ UNCHANGED <<queue, subVars, appVars, raised, histVars>>

\* didReceiveMessage: the answer to hello
HelloMessage ==
    /\ Runs("helloAnswer", "hello") \/ Runs("imposterAnswer", "hello")
    /\ mainQueue' =
          IF "hello" \notin active THEN Rest
          ELSE Append(Rest, Block(IF Head(mainQueue).event = "imposterAnswer"
                                    THEN "imposter" ELSE "complete", "hello"))
    /\ active' = active \ {"hello"}
    /\ UNCHANGED <<sockVars, connected, queue, regs, clientKey, subVars, appVars,
                   raised, histVars>>

\* Mutant: the command answered stays in _activeConnections.
CommandMessage_KeepsKey(c) ==
    /\ Runs("response", c) \/ Runs("errorResponse", c)
    /\ mainQueue' =
          IF c \notin active THEN Rest
          ELSE Append(Rest, Block(IF Head(mainQueue).event = "response"
                                    THEN "complete" ELSE "error", c))
    /\ UNCHANGED active
    /\ UNCHANGED <<sockVars, connected, queue, regs, clientKey, subVars, appVars,
                   raised, histVars>>

\* didReceiveMessage: the answer, or an error, to a command
CommandMessage(c) ==
    /\ Runs("response", c) \/ Runs("errorResponse", c)
    /\ mainQueue' =
          IF c \notin active THEN Rest
          ELSE Append(Rest, Block(IF Head(mainQueue).event = "response"
                                    THEN "complete" ELSE "error", c))
    /\ active' = active \ {c}
    /\ UNCHANGED <<sockVars, connected, queue, regs, clientKey, subVars, appVars,
                   raised, histVars>>

\* didReceiveMessage: prompt (pairingType, the command stays), registered
\* (client-key), or an error, for a registration
RegisterMessage ==
    \E e \in {"prompt", "registered", "denied"} :
      /\ Runs(e, "register")
      /\ mainQueue' = IF regs = 0 THEN Rest
                      ELSE Append(Rest, Block(IF e = "denied" THEN "error" ELSE "complete",
                                              "register"))
      /\ clientKey' = (clientKey \/ e = "registered")
      /\ regs' = IF e = "prompt" \/ regs = 0 THEN regs ELSE regs - 1
      /\ UNCHANGED <<sockVars, connected, queue, active, subVars, appVars, raised,
                     histVars>>

-----------------------------------------------------------------------------
(* Blocks of the main queue: the callbacks.                                  *)

\* hello's callbackComplete.  An imposter is disconnected and then registered
\* with all the same; registerWithTv sends over whatever _socket is now.
HelloComplete ==
    /\ Runs("complete", "hello") \/ Runs("imposter", "hello")
    /\ IF socket = "connecting" THEN Raise
       ELSE /\ regs' = regs + 1
            /\ IF Head(mainQueue).event = "imposter"
                 THEN clientKey' = FALSE /\ DisconnectWithError(reconnectOnWake)
                 ELSE UNCHANGED <<clientKey, observing, connected, closeAsked, subscribed, resting>>
            /\ due' = IF closeAsked' THEN due
                      ELSE IF socket = "open" THEN [due EXCEPT !["register"] = @ + 1] ELSE due
            /\ mainQueue' = Rest
            /\ UNCHANGED <<socket, queue, active, saved, asleep, reconnectOnWake,
                           raised, histVars>>

\* hello's callbackError, and a registration's: registrationFailed disconnects
HelloOrRegisterError ==
    /\ Runs("error", "hello") \/ Runs("error", "register")
    /\ DisconnectWithError(reconnectOnWake)
    /\ mainQueue' = Rest
    /\ UNCHANGED <<socket, due, queue, active, regs, clientKey, saved, asleep,
                   reconnectOnWake, raised, histVars>>

\* Mutant: _commandQueue is not emptied after it was sent.
RegisterComplete_KeepsQueue ==
    /\ Runs("complete", "register")
    /\ IF socket = "connecting" /\ queue # <<>> THEN Raise
       ELSE LET flushed == Commands \intersect Range(queue) IN
            /\ observing' = (observing \/ OnBackground)
            /\ \E ss \in SetToSeqs(saved) :
                 SendStrings([i \in DOMAIN ss |-> <<ss[i], "subscribe">>], flushed, queue, Rest)
            /\ sends' = HandedOver(IF socket = "nil" THEN {} ELSE flushed)
            /\ subscribed' = IF saved = {} THEN subscribed ELSE saved
            /\ resting' = IF saved = {} THEN resting ELSE {}
            /\ saved' = {}
            /\ UNCHANGED <<connected, active, regs, clientKey, asleep, reconnectOnWake, raised,
                           outcome>>

\* A registration's callbackComplete: the queue is sent, whatever the state of
\* the socket, and the subscriptions saved before sleeping are made again.
RegisterComplete ==
    /\ Runs("complete", "register")
    /\ IF socket = "connecting" /\ queue # <<>> THEN Raise
       ELSE LET flushed == Commands \intersect Range(queue) IN
            /\ observing' = (observing \/ OnBackground)
            /\ \E ss \in SetToSeqs(saved) :
                 SendStrings([i \in DOMAIN ss |-> <<ss[i], "subscribe">>], flushed, <<>>, Rest)
            /\ sends' = HandedOver(IF socket = "nil" THEN {} ELSE flushed)
            /\ subscribed' = IF saved = {} THEN subscribed ELSE saved
            /\ resting' = IF saved = {} THEN resting ELSE {}
            /\ saved' = {}
            /\ UNCHANGED <<connected, active, regs, clientKey, asleep, reconnectOnWake, raised,
                           outcome>>

\* A command's callbackComplete or callbackError: the application is told.
CommandCallback(c) ==
    /\ \/ Runs("complete", c) /\ outcome' = Settled({c}, "answered")
       \/ Runs("error", c) /\ outcome' = Settled({c}, "failed")
    /\ mainQueue' = Rest
    /\ UNCHANGED <<sockVars, connected, queue, active, regs, clientKey, subVars, appVars,
                   raised, sends>>

ApplicationCalls ==
    \/ Connect \/ Disconnect \/ Sleep \/ Wake
    \/ \E s \in Subs : AddSubscribe(s) \/ Unsubscribe(s)
    \/ \E c \in Commands : SendCommand(c)

SocketActs == SocketOpens \/ SocketCloses \/ SocketReportsClose \/ SocketEnds \/ TvAnswers

MainQueueRuns ==
    \/ WebSocketDidOpen \/ WebSocketDidClose \/ WebSocketDidFail \/ OrphanedReport
    \/ HelloMessage \/ RegisterMessage
    \/ HelloComplete \/ HelloOrRegisterError \/ RegisterComplete
    \/ \E c \in Commands : CommandMessage(c) \/ CommandCallback(c)

Next ==
    \/ ApplicationCalls /\ calls < MaxCalls /\ calls' = calls + 1           \* bound
    \/ (SocketActs \/ MainQueueRuns) /\ UNCHANGED calls

Spec == Init /\ [][Next]_vars

-----------------------------------------------------------------------------
(* Properties.                                                               *)

\* Where the callback of command c waits in the main queue.
Callback(c) == {i \in DOMAIN mainQueue :
                  mainQueue[i].of = c /\ mainQueue[i].event \in Callbacks}

\* Every command an application is waiting for is accounted for once: its
\* callback is held by _activeConnections, or is a block of the main queue, never
\* both and never two blocks; and no callback is held for one that has ended.
CommandAccounted ==
    \A c \in Commands :
      /\ outcome[c] = "issued" <=> (c \in active \/ Callback(c) # {})
      /\ c \in active => Callback(c) = {}
      /\ \A i, j \in Callback(c) : i = j

\* A command that still waits for an answer and was not given to a socket is in
\* _commandQueue, and one that was given to a socket is not: a command sent while
\* the socket is opened is neither lost by the queue nor sent twice by it.
QueueHoldsUnsent ==
    \A c \in Commands :
      /\ c \in active /\ sends[c] = 0 => c \in Range(queue)
      /\ sends[c] > 0 => c \notin Range(queue)
      /\ Cardinality({i \in DOMAIN queue : queue[i] = c}) <= 1

\* A client that says it is connected holds a socket, and if that socket is
\* closed the report that will tell the client so has not been dropped.
ConnectedIsTold ==
    connected => /\ socket # "nil"
                 /\ socket \in {"closed", "gone"} =>
                      \E i \in DOMAIN mainQueue : mainQueue[i].event \in
                         {"didClose", "didFail", "didFailCertificate"}

\* Subscriptions saved when the application went to sleep are given up only by
\* making them again: sent or queued, and in _subscribed with a callback - or
\* by saving those of a later connection.
SavedAreMadeAgain ==
    [][\A s \in saved \ saved' :
         \/ s \in subscribed' \ resting'
         \/ ~asleep /\ asleep' /\ saved' = subscribed]_vars

\* What the client promises for commands.
Channel == INSTANCE CommandChannel
ImplementsChannel == Channel!Spec
=============================================================================
