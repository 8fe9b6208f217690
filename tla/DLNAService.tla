----------------------------- MODULE DLNAService -----------------------------
(***************************************************************************)
(* DLNAService with its DLNAHTTPServer and DeviceServiceReachability (src/  *)
(* Services/, src/Helpers/): the connection to a renderer, the local server *)
(* that receives its events, and the event subscriptions the service makes, *)
(* renews and cancels with HTTP requests.                                   *)
(*                                                                          *)
(* Requests are answered in any order, and their answers handled by the     *)
(* main queue; the renewal is a delayed perform of the main run loop; the   *)
(* reachability check fails on a queue of its own and its report is a block *)
(* of the main queue.                                                       *)
(***************************************************************************)
EXTENDS Naturals

CONSTANTS
    EventServices,  \* serviceList: the renderer's services that send events
    Subs,           \* the subscriptions the application makes, each object once
    SessionIds,     \* the ids the renderer gives to sessions
    MaxCalls        \* bound: calls of the application and the device

ASSUME DLNAAssumption == MaxCalls \in Nat /\ 0 \notin SessionIds

VARIABLES
    connected,   \* connected
    running,     \* _httpServer.isRunning
    allSubs,     \* _allSubscriptions of the server
    subs,        \* isSubscribed of each subscription, "new" before
    sids,        \* _httpServerSessionIds; 0 for no entry
    renewal,     \* a perform of resubscribeSubscriptions is due
    requests,    \* requests under way, with the renderer's answer
    watching,    \* _serviceReachability runs
    losses,      \* blocks of didLoseReachability on the main queue
    renderer,    \* the sessions the renderer has for each service
    away,        \* the renderer has left the network
    lost,        \* history: a request or its answer was lost
    crossed,     \* history: the answer to an UNSUBSCRIBE removed another session's id
    calls        \* calls so far, for the bound

clientVars == <<connected, running, allSubs, subs, sids, renewal, watching>>
vars == <<clientVars, requests, losses, renderer, away, lost, crossed, calls>>

Request(k, v, x) == [kind |-> k, of |-> v, sid |-> x, answer |-> "none"]

TypeOK ==
    /\ connected \in BOOLEAN /\ running \in BOOLEAN /\ renewal \in BOOLEAN
    /\ watching \in BOOLEAN /\ losses \in Nat
    /\ subs \in [Subs -> {"new", "on", "off"}]
    /\ allSubs \subseteq {s \in Subs : subs[s] = "on"}
    /\ sids \in [EventServices -> SessionIds \union {0}]
    /\ requests \subseteq [kind : {"SUBSCRIBE", "RENEW", "UNSUBSCRIBE"}, of : EventServices,
                           sid : SessionIds, answer : {"none", "ok"}]
    /\ renderer \in [EventServices -> SUBSET SessionIds]
    /\ away \in BOOLEAN /\ lost \in BOOLEAN /\ crossed \in BOOLEAN
    /\ calls \in 0..MaxCalls

Init ==
    /\ connected = FALSE /\ running = FALSE /\ renewal = FALSE /\ watching = FALSE
    /\ allSubs = {} /\ subs = [s \in Subs |-> "new"]
    /\ sids = [v \in EventServices |-> 0] /\ requests = {} /\ losses = 0
    /\ renderer = [v \in EventServices |-> {}] /\ away = FALSE
    /\ lost = FALSE /\ crossed = FALSE /\ calls = 0

-----------------------------------------------------------------------------
(* The requests.                                                             *)

\* A session id the renderer has given to nothing that is still known.
Used(v) == renderer[v] \union {sids[v]} \union {r.sid : r \in {q \in requests : q.of = v}}
Fresh(v) == CHOOSE x \in SessionIds : x \notin Used(v)

\* subscribeServices: forgets the ids it has and asks for new ones.
SubscribeServices ==
    /\ \A v \in EventServices : SessionIds \ Used(v) # {}                 \* bound
    /\ sids' = [v \in EventServices |-> 0]
    /\ requests' = requests \union {Request("SUBSCRIBE", v, Fresh(v)) : v \in EventServices}

\* resubscribeSubscriptions and unsubscribeServices: one request for each id.
WithIds(k) == {Request(k, v, sids[v]) : v \in {u \in EventServices : sids[u] # 0}}

UnsubscribeServices ==
    /\ renewal' = FALSE
    /\ requests' = requests \union WithIds("UNSUBSCRIBE")

-----------------------------------------------------------------------------
(* Calls of the application and the device.                                  *)

Call == calls < MaxCalls /\ calls' = calls + 1                          \* bound

\* The device connects only services that are not connected.  The port of the
\* server may be taken; the start has then cleared the subscriptions all the same.
Connect ==
    /\ ~connected /\ Call
    /\ watching' = TRUE /\ connected' = TRUE
    /\ running' \in BOOLEAN /\ allSubs' = {}
    /\ SubscribeServices
    /\ UNCHANGED <<subs, renewal, losses, renderer, away, lost, crossed>>

DisconnectService ==
    /\ connected' = FALSE
    /\ UnsubscribeServices
    /\ running' = FALSE /\ watching' = FALSE
    /\ UNCHANGED <<allSubs, subs, sids>>

Disconnect ==
    /\ Call
    /\ DisconnectService
    /\ UNCHANGED <<losses, renderer, away, lost, crossed>>

\* sendSubscription with ServiceSubscriptionTypeSubscribe.  A server that does
\* not run is started, which clears what was just added.
Subscribe(s) ==
    /\ subs[s] = "new" /\ Call
    /\ subs' = [subs EXCEPT ![s] = "on"]
    /\ \/ /\ running
          /\ allSubs' = allSubs \union {s}
          /\ UNCHANGED <<running, sids, requests>>
       \/ /\ ~running
          /\ running' \in BOOLEAN /\ allSubs' = {}
          /\ SubscribeServices
    /\ UNCHANGED <<connected, renewal, watching, losses, renderer, away, lost, crossed>>

\* Mutant: a subscription that is cancelled stays in the table.
Unsubscribe_KeepsEntry(s) ==
    /\ subs[s] = "on" /\ Call
    /\ subs' = [subs EXCEPT ![s] = "off"]
    /\ IF allSubs = {}
         THEN UnsubscribeServices /\ running' = FALSE
         ELSE UNCHANGED <<renewal, requests, running>>
    /\ UNCHANGED <<allSubs, connected, sids, watching, losses, renderer, away, lost, crossed>>

\* Mutant: the server is stopped although other subscriptions are left.
Unsubscribe_StopsAlways(s) ==
    /\ subs[s] = "on" /\ Call
    /\ subs' = [subs EXCEPT ![s] = "off"]
    /\ allSubs' = allSubs \ {s}
    /\ UnsubscribeServices /\ running' = FALSE
    /\ UNCHANGED <<connected, sids, watching, losses, renderer, away, lost, crossed>>

\* sendSubscription with ServiceSubscriptionTypeUnsubscribe.
Unsubscribe(s) ==
    /\ subs[s] = "on" /\ Call
    /\ subs' = [subs EXCEPT ![s] = "off"]
    /\ allSubs' = allSubs \ {s}
    /\ IF allSubs' = {}
         THEN UnsubscribeServices /\ running' = FALSE
         ELSE UNCHANGED <<renewal, requests, running>>
    /\ UNCHANGED <<connected, sids, watching, losses, renderer, away, lost, crossed>>

-----------------------------------------------------------------------------
(* Renewal and answers, on the main queue.                                   *)

\* The perform is due, half the timeout after an answer; it cancels the others.
\* Earlier renewals are over by then: a request times out in 60 seconds, and the
\* delay is 150.
ResubscribeSubscriptions ==
    /\ renewal /\ \A r \in requests : r.kind # "RENEW"
    /\ renewal' = FALSE
    /\ requests' = requests \union WithIds("RENEW")
    /\ UNCHANGED <<connected, running, allSubs, subs, sids, watching>>
    /\ UNCHANGED <<losses, renderer, away, lost, crossed, calls>>

\* The completion handlers of the three kinds of request, for a status of 200.
SubscribeAnswer(r) ==
    /\ r.kind = "SUBSCRIBE"
    /\ sids' = [sids EXCEPT ![r.of] = r.sid]
    /\ renewal' = TRUE
    /\ UNCHANGED crossed

\* Mutant: only the first renewal is scheduled.
RenewAnswer_Once(r) ==
    /\ r.kind = "RENEW"
    /\ UNCHANGED <<renewal, sids, crossed>>

RenewAnswer(r) ==
    /\ r.kind = "RENEW"
    /\ renewal' = TRUE
    /\ UNCHANGED <<sids, crossed>>

\* Mutant: the id of a session that was ended is kept.
UnsubscribeAnswer_KeepsId(r) ==
    /\ r.kind = "UNSUBSCRIBE"
    /\ UNCHANGED <<sids, crossed, renewal>>

UnsubscribeAnswer(r) ==
    /\ r.kind = "UNSUBSCRIBE"
    /\ sids' = [sids EXCEPT ![r.of] = 0]
    /\ crossed' = (crossed \/ sids[r.of] \notin {0, r.sid})
    /\ UNCHANGED renewal

HandleAnswer(r) ==
    /\ r.answer = "ok"
    /\ requests' = requests \ {r}
    /\ SubscribeAnswer(r) \/ RenewAnswer(r) \/ UnsubscribeAnswer(r)
    /\ UNCHANGED <<connected, running, allSubs, subs, watching>>
    /\ UNCHANGED <<losses, renderer, away, lost, calls>>

\* An error, of a request or an answer that is lost, is ignored.
HandleError(r) ==
    /\ requests' = requests \ {r} /\ lost' = TRUE
    /\ UNCHANGED <<clientVars, losses, renderer, away, crossed, calls>>

-----------------------------------------------------------------------------
(* Reachability.                                                             *)

\* A check gets no data: the object stops itself and dispatches the block.
CheckFails ==
    /\ watching
    /\ watching' = FALSE /\ losses' = losses + 1
    /\ UNCHANGED <<connected, running, allSubs, subs, sids, renewal>>
    /\ UNCHANGED <<requests, renderer, away, lost, crossed, calls>>

\* Mutant: the check is stopped, and the service stays connected.
DidLoseReachability_Stops ==
    /\ losses > 0 /\ losses' = losses - 1
    /\ watching' = FALSE
    /\ UNCHANGED <<connected, running, allSubs, subs, sids, renewal, requests>>
    /\ UNCHANGED <<renderer, away, lost, crossed, calls>>

\* The block does not ask which connection its check belonged to.
DidLoseReachability ==
    /\ losses > 0 /\ losses' = losses - 1
    /\ \/ connected /\ DisconnectService
       \/ /\ ~connected /\ watching' = FALSE
          /\ UNCHANGED <<connected, running, allSubs, subs, sids, renewal, requests>>
    /\ UNCHANGED <<renderer, away, lost, crossed, calls>>

-----------------------------------------------------------------------------
(* The renderer.                                                             *)

\* The renderer knows the session a request is about.
Known(r) == r.kind = "SUBSCRIBE" \/ r.sid \in renderer[r.of]

\* A request reaches the renderer.
RendererAnswers(r) ==
    /\ r.answer = "none" /\ ~away /\ Known(r)
    /\ requests' = (requests \ {r}) \union {[r EXCEPT !.answer = "ok"]}
    /\ renderer' = [renderer EXCEPT ![r.of] =
                      CASE r.kind = "SUBSCRIBE" -> @ \union {r.sid}
                        [] r.kind = "RENEW" -> @
                        [] r.kind = "UNSUBSCRIBE" -> @ \ {r.sid}]
    /\ UNCHANGED <<clientVars, losses, away, lost, crossed, calls>>

\* A request for a session that has ended is refused, and the handler ignores
\* every status but 200.
RendererRefuses(r) ==
    /\ r.answer = "none" /\ ~away /\ ~Known(r)
    /\ requests' = requests \ {r}
    /\ UNCHANGED <<clientVars, losses, renderer, away, lost, crossed, calls>>

\* A session is kept as long as it is renewed: the renewal is due, or a request
\* about it is under way.
Kept(v, x) ==
    \/ renewal /\ sids[v] = x
    \/ \E r \in requests : r.of = v /\ r.sid = x

SessionExpires(v, x) ==
    /\ x \in renderer[v] /\ ~Kept(v, x)
    /\ renderer' = [renderer EXCEPT ![v] = @ \ {x}]
    /\ UNCHANGED <<clientVars, requests, losses, away, lost, crossed, calls>>

RendererLeaves ==
    /\ ~away /\ away' = TRUE /\ lost' = TRUE
    /\ UNCHANGED <<clientVars, requests, losses, renderer, crossed, calls>>

Next ==
    \/ Connect \/ Disconnect
    \/ \E s \in Subs : Subscribe(s) \/ Unsubscribe(s)
    \/ ResubscribeSubscriptions
    \/ \E r \in requests :
         HandleAnswer(r) \/ HandleError(r) \/ RendererAnswers(r) \/ RendererRefuses(r)
    \/ CheckFails \/ DidLoseReachability
    \/ \E v \in EventServices, x \in SessionIds : SessionExpires(v, x)
    \/ RendererLeaves

\* The main queue is served, and the timer of the check repeats: a renderer that
\* stays away is found out.
Fairness == WF_vars(DidLoseReachability) /\ WF_vars(away /\ CheckFails)

Spec == Init /\ [][Next]_vars /\ Fairness

-----------------------------------------------------------------------------
(* Properties.                                                               *)

\* While the server runs, each service of the renderer either has a SUBSCRIBE
\* under way or a session whose id the service holds and goes on renewing, unless
\* a request was lost or an id was removed by the answer to an older request.
EventsFlow ==
    running /\ ~lost /\ ~crossed =>
      \A v \in EventServices :
        \/ \E r \in requests : r.of = v /\ r.kind = "SUBSCRIBE"
        \/ sids[v] \in renderer[v] /\ Kept(v, sids[v])

\* An id the service holds names a session the renderer has, or one it is being
\* asked to end: it never holds the id of a session that is gone without its asking.
HeldIdsAreLive ==
    ~lost => \A v \in EventServices :
               \/ sids[v] \in renderer[v] \union {0}
               \/ \E r \in requests : r.of = v /\ r.sid = sids[v] /\ r.kind = "UNSUBSCRIBE"

\* A connected service with subscriptions in its table has the server that the
\* events come to: a start that finds the port taken leaves the table empty.
TableIsServed == connected /\ allSubs # {} => running

\* A renderer that leaves is noticed: the service does not stay connected.
GoneIsNoticed == away /\ connected ~> ~connected

\* Once every answer is in, a disconnected service whose server is stopped has no
\* session left with the renderer.
DisconnectUnsubscribes ==
    ~connected /\ ~running /\ requests = {} /\ ~lost =>
      \A v \in EventServices : renderer[v] = {}
=============================================================================
