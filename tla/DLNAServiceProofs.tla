-------------------------- MODULE DLNAServiceProofs --------------------------
(***************************************************************************)
(* Proofs about DLNAService, for any services of the renderer, any          *)
(* subscriptions and any session ids.                                       *)
(***************************************************************************)
EXTENDS DLNAService, TLAPS

-----------------------------------------------------------------------------
(* The inductive invariant.                                                  *)

\* The id a SUBSCRIBE will bring is in no one else's hands, and once the renderer
\* has answered the session exists.
SubscribeIsAlone ==
    \A r \in requests : r.kind = "SUBSCRIBE" =>
      /\ sids[r.of] # r.sid
      /\ \A q \in requests : q.of = r.of /\ q.sid = r.sid => q = r
      /\ r.answer = "ok" => r.sid \in renderer[r.of]

\* While the server runs, what is being ended is not what the service holds.
EndedIsNotHeld ==
    running => \A r \in requests : r.kind = "UNSUBSCRIBE" => r.sid # sids[r.of]

\* HeldIdsAreLive, with the cancellation answered.
HeldOrEnded ==
    ~lost => \A v \in EventServices :
               \/ sids[v] \in renderer[v] \union {0}
               \/ \E r \in requests :
                    r.of = v /\ r.sid = sids[v] /\ r.kind = "UNSUBSCRIBE" /\ r.answer = "ok"

\* A session whose id is held does not expire.
HeldIsKept ==
    ~lost => \A v \in EventServices : sids[v] \in renderer[v] => Kept(v, sids[v])

\* EventsFlow, without the renewal.
HasSession ==
    running /\ ~lost /\ ~crossed =>
      \A v \in EventServices :
        \/ \E r \in requests : r.of = v /\ r.kind = "SUBSCRIBE"
        \/ sids[v] \in renderer[v]

IInv == /\ TypeOK /\ SubscribeIsAlone /\ EndedIsNotHeld /\ HeldOrEnded /\ HeldIsKept
        /\ HasSession /\ TableIsServed

\* The part of it that the requests take part in.
Sessions == SubscribeIsAlone /\ EndedIsNotHeld /\ HeldOrEnded /\ HeldIsKept /\ HasSession

-----------------------------------------------------------------------------
(* The requests.                                                             *)

\* What the type says of one request.
LEMMA RequestTyped ==
    ASSUME TypeOK, NEW r \in requests
    PROVE  /\ r = [kind |-> r.kind, of |-> r.of, sid |-> r.sid, answer |-> r.answer]
           /\ r.kind \in {"SUBSCRIBE", "RENEW", "UNSUBSCRIBE"} /\ r.of \in EventServices
           /\ r.sid \in SessionIds /\ r.sid # 0 /\ r.answer \in {"none", "ok"}
BY DLNAAssumption DEF TypeOK

\* An id that is given to a new session is one nothing known has.
LEMMA FreshIsUnused ==
    ASSUME NEW v \in EventServices, SessionIds \ Used(v) # {}
    PROVE  Fresh(v) \in SessionIds /\ Fresh(v) \notin Used(v)
<1>1. \E x \in SessionIds : x \notin Used(v)
  OBVIOUS
<1> QED
  BY <1>1 DEF Fresh

\* The requests that subscribeServices adds, and what their ids are not.
LEMMA SubscribeServicesAdds ==
    ASSUME TypeOK, SubscribeServices
    PROVE  /\ requests \subseteq requests'
           /\ \A r \in requests' : r \in requests \/ r.kind = "SUBSCRIBE"
           /\ \A r \in requests' \ requests :
                /\ r.kind = "SUBSCRIBE" /\ r.of \in EventServices /\ r.answer = "none"
                /\ r.sid \in SessionIds
                /\ r.sid \notin renderer[r.of] /\ r.sid # sids[r.of]
                /\ \A q \in requests : q.of = r.of => q.sid # r.sid
                /\ \A q \in requests' \ requests : q.of = r.of => q = r
           /\ \A v \in EventServices : \E r \in requests' : r.of = v /\ r.kind = "SUBSCRIBE"
           /\ requests' \subseteq [kind : {"SUBSCRIBE", "RENEW", "UNSUBSCRIBE"},
                                   of : EventServices, sid : SessionIds, answer : {"none", "ok"}]
<1>1. \A v \in EventServices : Fresh(v) \in SessionIds /\ Fresh(v) \notin Used(v)
  BY FreshIsUnused DEF SubscribeServices
<1> DEFINE new(v) == Request("SUBSCRIBE", v, Fresh(v))
<1>2. requests' = requests \union {new(v) : v \in EventServices}
  BY DEF SubscribeServices
<1>3. \A v \in EventServices : /\ new(v).kind = "SUBSCRIBE" /\ new(v).of = v
                               /\ new(v).sid = Fresh(v) /\ new(v).answer = "none"
  BY DEF Request
<1>4. \A v \in EventServices :
        new(v) \in [kind : {"SUBSCRIBE", "RENEW", "UNSUBSCRIBE"},
                    of : EventServices, sid : SessionIds, answer : {"none", "ok"}]
  BY <1>1 DEF Request
<1>5. \A v \in EventServices : /\ Fresh(v) \notin renderer[v] /\ Fresh(v) # sids[v]
                               /\ \A q \in requests : q.of = v => q.sid # Fresh(v)
  BY <1>1 DEF Used
<1> HIDE DEF new
<1>6. \A v \in EventServices : \E r \in requests' : r.of = v /\ r.kind = "SUBSCRIBE"
  BY <1>2, <1>3
<1>7. requests' \subseteq [kind : {"SUBSCRIBE", "RENEW", "UNSUBSCRIBE"},
                           of : EventServices, sid : SessionIds, answer : {"none", "ok"}]
  BY <1>2, <1>4 DEF TypeOK
<1>8. ASSUME NEW r \in requests' \ requests
      PROVE  \E v \in EventServices : r = new(v)
  BY <1>2, <1>8
<1> QED
  BY <1>1, <1>2, <1>3, <1>5, <1>6, <1>7, <1>8

\* What subscribeServices does to the sessions, whoever calls it.
LEMMA SubscribeServicesKeeps ==
    ASSUME IInv, SubscribeServices, UNCHANGED <<renewal, renderer, lost, crossed>>
    PROVE  Sessions'
<1> USE SubscribeServicesAdds DEF IInv
<1>0. \A v \in EventServices : sids'[v] = 0 /\ 0 \notin renderer[v]
  BY DLNAAssumption DEF SubscribeServices, TypeOK
<1>1. SubscribeIsAlone'
  <2> SUFFICES ASSUME NEW r \in requests', r.kind = "SUBSCRIBE"
               PROVE  /\ sids'[r.of] # r.sid
                      /\ \A q \in requests' : q.of = r.of /\ q.sid = r.sid => q = r
                      /\ r.answer = "ok" => r.sid \in renderer'[r.of]
    BY DEF SubscribeIsAlone
  <2>1. CASE r \in requests
    BY <2>1, <1>0, RequestTyped DEF SubscribeIsAlone
  <2>2. CASE r \notin requests
    BY <2>2, <1>0, DLNAAssumption
  <2> QED
    BY <2>1, <2>2
<1>2. EndedIsNotHeld'
  BY <1>0, RequestTyped DEF EndedIsNotHeld
<1>3. HeldOrEnded' /\ HeldIsKept' /\ HasSession'
  BY <1>0 DEF HeldOrEnded, HeldIsKept, HasSession
<1> QED
  BY <1>1, <1>2, <1>3 DEF Sessions

\* The requests that renewal and cancellation add.
LEMMA WithIdsAdds ==
    ASSUME TypeOK, NEW k \in {"RENEW", "UNSUBSCRIBE"}
    PROVE  /\ WithIds(k) \subseteq [kind : {"SUBSCRIBE", "RENEW", "UNSUBSCRIBE"},
                                    of : EventServices, sid : SessionIds, answer : {"none", "ok"}]
           /\ \A r \in WithIds(k) : /\ r.kind = k /\ r.of \in EventServices
                                    /\ r.sid = sids[r.of] /\ r.answer = "none"
           /\ \A v \in EventServices : sids[v] # 0 =>
                \E r \in WithIds(k) : r.of = v /\ r.sid = sids[v] /\ r.kind = k
<1> DEFINE new(v) == Request(k, v, sids[v])
<1>1. \A v \in EventServices : /\ new(v).kind = k /\ new(v).of = v
                               /\ new(v).sid = sids[v] /\ new(v).answer = "none"
  BY DEF Request
<1>2. \A v \in EventServices : sids[v] # 0 =>
        new(v) \in [kind : {"SUBSCRIBE", "RENEW", "UNSUBSCRIBE"},
                    of : EventServices, sid : SessionIds, answer : {"none", "ok"}]
  BY DEF Request, TypeOK
<1>3. WithIds(k) = {new(v) : v \in {u \in EventServices : sids[u] # 0}}
  BY DEF WithIds
<1> HIDE DEF new
<1> QED
  BY <1>1, <1>2, <1>3

\* What unsubscribeServices does to the sessions: each caller stops the server.
LEMMA UnsubscribeServicesKeeps ==
    ASSUME IInv, UnsubscribeServices, running' = FALSE, UNCHANGED <<sids, renderer, lost, crossed>>
    PROVE  Sessions'
<1> USE DEF IInv
<1> DEFINE k == "UNSUBSCRIBE"
<1>0. requests' = requests \union WithIds(k)
  BY DEF UnsubscribeServices
<1>a. /\ \A r \in WithIds(k) : r.kind = k /\ r.of \in EventServices /\ r.sid = sids[r.of]
      /\ \A v \in EventServices : sids[v] # 0 =>
           \E r \in WithIds(k) : r.of = v /\ r.sid = sids[v] /\ r.kind = k
  BY WithIdsAdds
<1>1. SubscribeIsAlone'
  BY <1>0, <1>a DEF SubscribeIsAlone
<1>2. EndedIsNotHeld' /\ HasSession'
  BY DEF EndedIsNotHeld, HasSession
<1>3. HeldOrEnded'
  BY <1>0 DEF HeldOrEnded
<1>4. HeldIsKept'
  <2> SUFFICES ASSUME NEW v \in EventServices, sids[v] \in renderer[v]
               PROVE  \E r \in requests' : r.of = v /\ r.sid = sids[v]
    BY DEF HeldIsKept, Kept
  <2>1. sids[v] # 0
    BY DLNAAssumption DEF TypeOK
  <2> QED
    BY <2>1, <1>0, <1>a
<1> QED
  BY <1>1, <1>2, <1>3, <1>4 DEF Sessions

-----------------------------------------------------------------------------
(* Every step keeps the invariant.                                           *)

\* Types, for every action.
LEMMA TypeKept == TypeOK /\ [Next]_vars => TypeOK'
<1> SUFFICES ASSUME TypeOK, [Next]_vars PROVE TypeOK'
  OBVIOUS
<1>1. CASE Connect
  <2>1. requests' \subseteq [kind : {"SUBSCRIBE", "RENEW", "UNSUBSCRIBE"},
                             of : EventServices, sid : SessionIds, answer : {"none", "ok"}]
    BY <1>1, SubscribeServicesAdds DEF Connect
  <2> QED
    BY <1>1, <2>1, DLNAAssumption DEF Connect, Call, SubscribeServices, TypeOK
<1>2. CASE Disconnect
  <2>1. requests' \subseteq [kind : {"SUBSCRIBE", "RENEW", "UNSUBSCRIBE"},
                             of : EventServices, sid : SessionIds, answer : {"none", "ok"}]
    BY <1>2, WithIdsAdds DEF Disconnect, DisconnectService, UnsubscribeServices, TypeOK
  <2>2. calls' \in 0..MaxCalls
    BY <1>2, DLNAAssumption DEF Disconnect, Call, TypeOK
  <2> QED
    BY <1>2, <2>1, <2>2 DEF Disconnect, DisconnectService, UnsubscribeServices, TypeOK
<1>3. ASSUME NEW s \in Subs, Subscribe(s) PROVE TypeOK'
  <2>1. requests' \subseteq [kind : {"SUBSCRIBE", "RENEW", "UNSUBSCRIBE"},
                             of : EventServices, sid : SessionIds, answer : {"none", "ok"}]
    BY <1>3, SubscribeServicesAdds DEF Subscribe, TypeOK
  <2>a. subs' = [subs EXCEPT ![s] = "on"] /\ allSubs' \subseteq allSubs \union {s}
    BY <1>3 DEF Subscribe
  <2>2. /\ subs' \in [Subs -> {"new", "on", "off"}]
        /\ allSubs' \subseteq {u \in Subs : subs'[u] = "on"}
    BY <2>a DEF TypeOK
  <2>3. sids' \in [EventServices -> SessionIds \union {0}] /\ running' \in BOOLEAN
    BY <1>3 DEF Subscribe, SubscribeServices, TypeOK
  <2>4. calls' \in 0..MaxCalls
    BY <1>3, DLNAAssumption DEF Subscribe, Call, TypeOK
  <2> QED
    BY <1>3, <2>1, <2>2, <2>3, <2>4 DEF Subscribe, TypeOK
<1>4. ASSUME NEW s \in Subs, Unsubscribe(s) PROVE TypeOK'
  <2>1. requests' \subseteq [kind : {"SUBSCRIBE", "RENEW", "UNSUBSCRIBE"},
                             of : EventServices, sid : SessionIds, answer : {"none", "ok"}]
    BY <1>4, WithIdsAdds DEF Unsubscribe, UnsubscribeServices, TypeOK
  <2>2. /\ subs' \in [Subs -> {"new", "on", "off"}]
        /\ allSubs' \subseteq {u \in Subs : subs'[u] = "on"}
    BY <1>4 DEF Unsubscribe, TypeOK
  <2>3. running' \in BOOLEAN /\ renewal' \in BOOLEAN
    BY <1>4 DEF Unsubscribe, UnsubscribeServices, TypeOK
  <2>4. calls' \in 0..MaxCalls
    BY <1>4, DLNAAssumption DEF Unsubscribe, Call, TypeOK
  <2> QED
    BY <1>4, <2>1, <2>2, <2>3, <2>4 DEF Unsubscribe, TypeOK
<1>5. CASE ResubscribeSubscriptions
  <2>1. requests' \subseteq [kind : {"SUBSCRIBE", "RENEW", "UNSUBSCRIBE"},
                             of : EventServices, sid : SessionIds, answer : {"none", "ok"}]
    BY <1>5, WithIdsAdds DEF ResubscribeSubscriptions, TypeOK
  <2> QED
    BY <1>5, <2>1 DEF ResubscribeSubscriptions, TypeOK
<1>6. ASSUME NEW r \in requests, HandleAnswer(r) PROVE TypeOK'
  BY <1>6, RequestTyped
     DEF HandleAnswer, SubscribeAnswer, RenewAnswer, UnsubscribeAnswer, TypeOK
<1>7. ASSUME NEW r \in requests, HandleError(r) \/ RendererRefuses(r) PROVE TypeOK'
  BY <1>7 DEF HandleError, RendererRefuses, clientVars, TypeOK
<1>8. ASSUME NEW r \in requests, RendererAnswers(r) PROVE TypeOK'
  <2>1. [r EXCEPT !.answer = "ok"] \in [kind : {"SUBSCRIBE", "RENEW", "UNSUBSCRIBE"},
                             of : EventServices, sid : SessionIds, answer : {"none", "ok"}]
    BY DEF TypeOK
  <2>2. requests' \subseteq [kind : {"SUBSCRIBE", "RENEW", "UNSUBSCRIBE"},
                             of : EventServices, sid : SessionIds, answer : {"none", "ok"}]
    BY <1>8, <2>1 DEF RendererAnswers, TypeOK
  <2>3. renderer' \in [EventServices -> SUBSET SessionIds]
    BY <1>8, RequestTyped DEF RendererAnswers, TypeOK
  <2> QED
    BY <1>8, <2>2, <2>3 DEF RendererAnswers, clientVars, TypeOK
<1>9. CASE CheckFails
  <2>1. losses' \in Nat
    BY <1>9 DEF CheckFails, TypeOK
  <2> QED
    BY <1>9, <2>1 DEF CheckFails, TypeOK
<1>10. CASE DidLoseReachability
  <2>1. requests' \subseteq [kind : {"SUBSCRIBE", "RENEW", "UNSUBSCRIBE"},
                             of : EventServices, sid : SessionIds, answer : {"none", "ok"}]
    BY <1>10, WithIdsAdds
       DEF DidLoseReachability, DisconnectService, UnsubscribeServices, TypeOK
  <2>2. losses' \in Nat
    BY <1>10 DEF DidLoseReachability, TypeOK
  <2>3. CASE connected /\ DisconnectService
    BY <1>10, <2>1, <2>2, <2>3
       DEF DidLoseReachability, DisconnectService, UnsubscribeServices, TypeOK
  <2>4. CASE ~connected
    BY <1>10, <2>2, <2>4 DEF DidLoseReachability, TypeOK
  <2> QED
    BY <1>10, <2>3, <2>4 DEF DidLoseReachability
<1>11. ASSUME NEW v \in EventServices, NEW x \in SessionIds, SessionExpires(v, x) PROVE TypeOK'
  BY <1>11 DEF SessionExpires, clientVars, TypeOK
<1>12. CASE RendererLeaves
  BY <1>12 DEF RendererLeaves, clientVars, TypeOK
<1>13. CASE UNCHANGED vars
  BY <1>13 DEF vars, clientVars, TypeOK
<1> QED
  BY <1>1, <1>2, <1>3, <1>4, <1>5, <1>6, <1>7, <1>8, <1>9, <1>10, <1>11, <1>12, <1>13 DEF Next

\* Steps that change nothing the sessions depend on.
LEMMA SessionsUnchanged ==
    ASSUME IInv, UNCHANGED <<running, sids, renewal, requests, renderer, lost, crossed>>
    PROVE  Sessions'
BY DEF IInv, Sessions, SubscribeIsAlone, EndedIsNotHeld, HeldOrEnded, HeldIsKept, Kept, HasSession

\* A renewal: each id that is held has a request now.
LEMMA RenewalKeepsSessions == ASSUME IInv, ResubscribeSubscriptions PROVE Sessions'
<1> USE DEF IInv
<1> DEFINE k == "RENEW"
<1>0. /\ requests' = requests \union WithIds(k)
      /\ UNCHANGED <<running, sids, renderer, lost, crossed>>
  BY DEF ResubscribeSubscriptions
<1>a. /\ \A r \in WithIds(k) : r.kind = k /\ r.of \in EventServices /\ r.sid = sids[r.of]
      /\ \A v \in EventServices : sids[v] # 0 =>
           \E r \in WithIds(k) : r.of = v /\ r.sid = sids[v] /\ r.kind = k
  BY WithIdsAdds
<1>1. SubscribeIsAlone'
  BY <1>0, <1>a DEF SubscribeIsAlone
<1>2. EndedIsNotHeld' /\ HasSession' /\ HeldOrEnded'
  BY <1>0, <1>a DEF EndedIsNotHeld, HasSession, HeldOrEnded
<1>3. HeldIsKept'
  <2> SUFFICES ASSUME NEW v \in EventServices, sids[v] \in renderer[v]
               PROVE  \E r \in requests' : r.of = v /\ r.sid = sids[v]
    BY <1>0 DEF HeldIsKept, Kept
  <2>1. sids[v] # 0
    BY DLNAAssumption DEF TypeOK
  <2> QED
    BY <2>1, <1>0, <1>a
<1> QED
  BY <1>1, <1>2, <1>3 DEF Sessions

\* The answers.
LEMMA AnswerKeepsSessions ==
    ASSUME IInv, NEW r \in requests, HandleAnswer(r)
    PROVE  Sessions'
<1> USE DEF IInv
<1>0. /\ requests' = requests \ {r} /\ r.answer = "ok"
      /\ UNCHANGED <<running, renderer, lost>>
  BY DEF HandleAnswer
<1>t. /\ r.of \in EventServices /\ r.sid \in SessionIds /\ r.sid # 0
      /\ sids \in [EventServices -> SessionIds \union {0}]
      /\ \A v \in EventServices : 0 \notin renderer[v]
  BY RequestTyped, DLNAAssumption DEF TypeOK
<1>1. CASE SubscribeAnswer(r)
  <2>1. /\ r.kind = "SUBSCRIBE" /\ renewal' = TRUE /\ crossed' = crossed
        /\ sids' = [sids EXCEPT ![r.of] = r.sid]
    BY <1>1 DEF SubscribeAnswer
  <2>2. /\ r.sid \in renderer[r.of]
        /\ \A q \in requests' : q.of = r.of => q.sid # r.sid
    BY <2>1, <1>0 DEF SubscribeIsAlone
  <2>3. SubscribeIsAlone'
    BY <2>1, <2>2, <1>0, <1>t, RequestTyped DEF SubscribeIsAlone
  <2>4. EndedIsNotHeld'
    BY <2>1, <2>2, <1>0, <1>t, RequestTyped DEF EndedIsNotHeld
  <2>5. HeldOrEnded'
    BY <2>1, <2>2, <1>0, <1>t DEF HeldOrEnded
  <2>6. HeldIsKept'
    BY <2>1 DEF HeldIsKept, Kept
  <2>7. HasSession'
    BY <2>1, <2>2, <1>0, <1>t DEF HasSession
  <2> QED
    BY <2>3, <2>4, <2>5, <2>6, <2>7 DEF Sessions
<1>2. CASE RenewAnswer(r)
  <2>1. r.kind = "RENEW" /\ renewal' = TRUE /\ UNCHANGED <<sids, crossed>>
    BY <1>2 DEF RenewAnswer
  <2>2. SubscribeIsAlone' /\ EndedIsNotHeld' /\ HeldOrEnded' /\ HasSession'
    BY <2>1, <1>0 DEF SubscribeIsAlone, EndedIsNotHeld, HeldOrEnded, HasSession
  <2>3. HeldIsKept'
    BY <2>1 DEF HeldIsKept, Kept
  <2> QED
    BY <2>2, <2>3 DEF Sessions
<1>3. CASE UnsubscribeAnswer(r)
  <2>1. /\ r.kind = "UNSUBSCRIBE" /\ renewal' = renewal
        /\ sids' = [sids EXCEPT ![r.of] = 0]
        /\ ~crossed' => ~crossed /\ sids[r.of] \in {0, r.sid}
    BY <1>3 DEF UnsubscribeAnswer
  <2>2. SubscribeIsAlone' /\ EndedIsNotHeld'
    BY <2>1, <1>0, <1>t, RequestTyped DEF SubscribeIsAlone, EndedIsNotHeld
  <2>3. HeldOrEnded'
    BY <2>1, <1>0, <1>t DEF HeldOrEnded
  <2>4. HeldIsKept'
    <3> SUFFICES ASSUME ~lost, NEW v \in EventServices, sids'[v] \in renderer[v]
                 PROVE  Kept(v, sids[v])' /\ sids'[v] = sids[v]
      BY <1>0 DEF HeldIsKept, Kept
    <3>1. v # r.of /\ sids'[v] = sids[v]
      BY <2>1, <1>t
    <3> QED
      BY <3>1, <2>1, <1>0 DEF HeldIsKept, Kept
  <2>5. HasSession'
    <3> SUFFICES ASSUME running, ~lost, ~crossed', NEW v \in EventServices
                 PROVE  \/ \E q \in requests' : q.of = v /\ q.kind = "SUBSCRIBE"
                        \/ sids'[v] \in renderer[v]
      BY <1>0 DEF HasSession
    <3>1. sids[r.of] = 0
      BY <2>1 DEF EndedIsNotHeld
    <3>2. sids' = sids
      BY <3>1, <2>1, <1>t
    <3> QED
      BY <3>2, <2>1, <1>0 DEF HasSession
  <2> QED
    BY <2>2, <2>3, <2>4, <2>5 DEF Sessions
<1> QED
  BY <1>1, <1>2, <1>3 DEF HandleAnswer

\* A request that ends without an answer.
LEMMA ErrorKeepsSessions ==
    ASSUME IInv, NEW r \in requests, HandleError(r)
    PROVE  Sessions'
BY DEF IInv, HandleError, clientVars, Sessions, SubscribeIsAlone, EndedIsNotHeld, HeldOrEnded,
       HeldIsKept, HasSession

LEMMA RefusalKeepsSessions ==
    ASSUME IInv, NEW r \in requests, RendererRefuses(r)
    PROVE  Sessions'
<1> USE DEF IInv
<1>0. /\ requests' = requests \ {r} /\ r.answer = "none" /\ r.kind # "SUBSCRIBE"
      /\ r.sid \notin renderer[r.of]
      /\ UNCHANGED <<running, sids, renewal, renderer, lost, crossed>>
  BY DEF RendererRefuses, clientVars, Known
<1>1. SubscribeIsAlone' /\ EndedIsNotHeld' /\ HasSession'
  BY <1>0 DEF SubscribeIsAlone, EndedIsNotHeld, HasSession
<1>2. HeldOrEnded'
  BY <1>0 DEF HeldOrEnded
<1>3. HeldIsKept'
  BY <1>0 DEF HeldIsKept, Kept
<1> QED
  BY <1>1, <1>2, <1>3 DEF Sessions

\* The renderer handles a request.
LEMMA RendererKeepsSessions ==
    ASSUME IInv, NEW r \in requests, RendererAnswers(r)
    PROVE  Sessions'
<1> USE DEF IInv
<1> DEFINE a == [r EXCEPT !.answer = "ok"]
<1>0. /\ requests' = (requests \ {r}) \union {a}
      /\ UNCHANGED <<running, sids, renewal, lost, crossed>>
      /\ r.answer = "none"
  BY DEF RendererAnswers, clientVars
<1>t. /\ r.of \in EventServices /\ r.sid \in SessionIds
      /\ r.kind \in {"SUBSCRIBE", "RENEW", "UNSUBSCRIBE"}
  BY RequestTyped
<1>a. a.kind = r.kind /\ a.of = r.of /\ a.sid = r.sid /\ a.answer = "ok"
  BY RequestTyped
<1> HIDE DEF a
<1>r. /\ \A v \in EventServices : v # r.of => renderer'[v] = renderer[v]
      /\ r.kind = "SUBSCRIBE" => renderer'[r.of] = renderer[r.of] \union {r.sid}
      /\ r.kind = "RENEW" => renderer'[r.of] = renderer[r.of]
      /\ r.kind = "UNSUBSCRIBE" => renderer'[r.of] = renderer[r.of] \ {r.sid}
  BY <1>t DEF RendererAnswers, TypeOK
<1>1. SubscribeIsAlone'
  <2> SUFFICES ASSUME NEW q \in requests', q.kind = "SUBSCRIBE"
               PROVE  /\ sids[q.of] # q.sid
                      /\ \A p \in requests' : p.of = q.of /\ p.sid = q.sid => p = q
                      /\ q.answer = "ok" => q.sid \in renderer'[q.of]
    BY <1>0 DEF SubscribeIsAlone
  <2>1. CASE q = a
    BY <2>1, <1>0, <1>a, <1>r DEF SubscribeIsAlone
  <2>2. CASE q # a
    <3>1. q \in requests /\ q # r
      BY <2>2, <1>0
    <3>2. q.of = r.of => q.sid # r.sid
      BY <3>1 DEF SubscribeIsAlone
    <3> QED
      BY <3>1, <3>2, <1>0, <1>a, <1>r, <1>t, RequestTyped DEF SubscribeIsAlone
  <2> QED
    BY <2>1, <2>2
<1>2. EndedIsNotHeld'
  BY <1>0, <1>a DEF EndedIsNotHeld
<1>3. HeldOrEnded'
  <2> SUFFICES ASSUME ~lost, NEW v \in EventServices
               PROVE  \/ sids[v] \in renderer'[v] \union {0}
                      \/ \E q \in requests' : /\ q.of = v /\ q.sid = sids[v]
                                              /\ q.kind = "UNSUBSCRIBE" /\ q.answer = "ok"
    BY <1>0 DEF HeldOrEnded
  <2>1. CASE sids[v] \in renderer[v] \union {0}
    BY <2>1, <1>0, <1>a, <1>r, <1>t
  <2>2. CASE sids[v] \notin renderer[v] \union {0}
    BY <2>2, <1>0 DEF HeldOrEnded
  <2> QED
    BY <2>1, <2>2
<1>4. HeldIsKept'
  <2> SUFFICES ASSUME ~lost, NEW v \in EventServices, sids[v] \in renderer'[v]
               PROVE  renewal \/ \E q \in requests' : q.of = v /\ q.sid = sids[v]
    BY <1>0 DEF HeldIsKept, Kept
  <2>1. CASE sids[v] \in renderer[v]
    BY <2>1, <1>0, <1>a DEF HeldIsKept, Kept
  <2>2. CASE sids[v] \notin renderer[v]
    BY <2>2, <1>0, <1>a, <1>r, <1>t
  <2> QED
    BY <2>1, <2>2
<1>5. HasSession'
  <2> SUFFICES ASSUME running, ~lost, ~crossed, NEW v \in EventServices
               PROVE  \/ \E q \in requests' : q.of = v /\ q.kind = "SUBSCRIBE"
                      \/ sids[v] \in renderer'[v]
    BY <1>0 DEF HasSession
  <2>1. CASE \E q \in requests : q.of = v /\ q.kind = "SUBSCRIBE"
    BY <2>1, <1>0, <1>a
  <2>2. CASE sids[v] \in renderer[v]
    BY <2>2, <1>r, <1>t DEF EndedIsNotHeld
  <2> QED
    BY <2>1, <2>2 DEF HasSession
<1> QED
  BY <1>1, <1>2, <1>3, <1>4, <1>5 DEF Sessions

\* A session that is not kept ends.
LEMMA ExpiryKeepsSessions ==
    ASSUME IInv, NEW v \in EventServices, NEW x \in SessionIds, SessionExpires(v, x)
    PROVE  Sessions'
<1> USE DEF IInv
<1>0. /\ UNCHANGED <<running, sids, renewal, requests, lost, crossed>>
      /\ \A u \in EventServices : u # v => renderer'[u] = renderer[u]
      /\ renderer'[v] = renderer[v] \ {x}
      /\ ~Kept(v, x)
  BY DEF SessionExpires, clientVars, TypeOK
<1>1. ~lost => ~(sids[v] = x /\ x \in renderer[v])
  BY <1>0 DEF HeldIsKept
<1>2. SubscribeIsAlone'
  BY <1>0, RequestTyped DEF SubscribeIsAlone, Kept
<1>3. EndedIsNotHeld' /\ HeldOrEnded' /\ HasSession'
  BY <1>0, <1>1 DEF EndedIsNotHeld, HeldOrEnded, HasSession
<1>4. HeldIsKept'
  BY <1>0 DEF HeldIsKept, Kept
<1> QED
  BY <1>2, <1>3, <1>4 DEF Sessions

-----------------------------------------------------------------------------
(* The theorems.                                                             *)

LEMMA Initially == Init => IInv
<1> SUFFICES ASSUME Init PROVE IInv
  OBVIOUS
<1>1. TypeOK
  <2>1. calls \in 0..MaxCalls /\ losses \in Nat
    BY DLNAAssumption DEF Init
  <2>2. /\ subs \in [Subs -> {"new", "on", "off"}]
        /\ sids \in [EventServices -> SessionIds \union {0}]
        /\ renderer \in [EventServices -> SUBSET SessionIds]
    BY DEF Init
  <2> QED
    BY <2>1, <2>2 DEF Init, TypeOK
<1>2. SubscribeIsAlone /\ EndedIsNotHeld /\ HeldOrEnded /\ HasSession /\ TableIsServed
  BY DEF Init, SubscribeIsAlone, EndedIsNotHeld, HeldOrEnded, HasSession, TableIsServed
<1>3. HeldIsKept
  BY DEF Init, HeldIsKept
<1> QED
  BY <1>1, <1>2, <1>3 DEF IInv

LEMMA SessionsKept == IInv /\ [Next]_vars => Sessions'
<1> SUFFICES ASSUME IInv, [Next]_vars PROVE Sessions'
  OBVIOUS
<1>1. CASE Connect
  BY <1>1, SubscribeServicesKeeps DEF Connect
<1>2. CASE Disconnect
  BY <1>2, UnsubscribeServicesKeeps DEF Disconnect, DisconnectService
<1>3. ASSUME NEW s \in Subs, Subscribe(s) PROVE Sessions'
  <2>1. CASE running
    BY <1>3, <2>1, SessionsUnchanged DEF Subscribe
  <2>2. CASE ~running
    BY <1>3, <2>2, SubscribeServicesKeeps DEF Subscribe
  <2> QED
    BY <2>1, <2>2 DEF IInv, TypeOK
<1>4. ASSUME NEW s \in Subs, Unsubscribe(s) PROVE Sessions'
  <2>1. CASE allSubs' = {}
    BY <1>4, <2>1, UnsubscribeServicesKeeps DEF Unsubscribe
  <2>2. CASE allSubs' # {}
    BY <1>4, <2>2, SessionsUnchanged DEF Unsubscribe
  <2> QED
    BY <2>1, <2>2
<1>5. CASE ResubscribeSubscriptions
  BY <1>5, RenewalKeepsSessions
<1>6. ASSUME NEW r \in requests,
             HandleAnswer(r) \/ HandleError(r) \/ RendererAnswers(r) \/ RendererRefuses(r)
      PROVE  Sessions'
  BY <1>6, AnswerKeepsSessions, ErrorKeepsSessions, RendererKeepsSessions, RefusalKeepsSessions
<1>7. CASE CheckFails
  BY <1>7, SessionsUnchanged DEF CheckFails
<1>8. CASE DidLoseReachability
  <2>1. CASE DisconnectService
    BY <1>8, <2>1, UnsubscribeServicesKeeps DEF DidLoseReachability, DisconnectService
  <2>2. CASE ~DisconnectService
    BY <1>8, <2>2, SessionsUnchanged DEF DidLoseReachability
  <2> QED
    BY <2>1, <2>2
<1>9. ASSUME NEW v \in EventServices, NEW x \in SessionIds, SessionExpires(v, x) PROVE Sessions'
  BY <1>9, ExpiryKeepsSessions
<1>10. CASE RendererLeaves
  BY <1>10 DEF RendererLeaves, clientVars, IInv, Sessions, SubscribeIsAlone, EndedIsNotHeld,
     HeldOrEnded, HeldIsKept, HasSession
<1>11. CASE UNCHANGED vars
  BY <1>11, SessionsUnchanged DEF vars, clientVars
<1> QED
  BY <1>1, <1>2, <1>3, <1>4, <1>5, <1>6, <1>7, <1>8, <1>9, <1>10, <1>11 DEF Next

LEMMA TableKept == IInv /\ [Next]_vars => TableIsServed'
<1> SUFFICES ASSUME IInv, [Next]_vars PROVE TableIsServed'
  OBVIOUS
<1> USE DEF IInv, TableIsServed
<1>1. CASE Connect \/ Disconnect
  BY <1>1 DEF Connect, Disconnect, DisconnectService
<1>2. ASSUME NEW s \in Subs, Subscribe(s) \/ Unsubscribe(s) PROVE TableIsServed'
  BY <1>2 DEF Subscribe, Unsubscribe
<1>3. CASE CheckFails \/ DidLoseReachability \/ ResubscribeSubscriptions
  BY <1>3 DEF CheckFails, DidLoseReachability, DisconnectService, ResubscribeSubscriptions
<1>4. ASSUME NEW r \in requests,
             HandleAnswer(r) \/ HandleError(r) \/ RendererAnswers(r) \/ RendererRefuses(r)
      PROVE  TableIsServed'
  BY <1>4 DEF HandleAnswer, HandleError, RendererAnswers, RendererRefuses, clientVars
<1>5. ASSUME NEW v \in EventServices, NEW x \in SessionIds, SessionExpires(v, x)
      PROVE  TableIsServed'
  BY <1>5 DEF SessionExpires, clientVars
<1>6. CASE RendererLeaves \/ UNCHANGED vars
  BY <1>6 DEF RendererLeaves, vars, clientVars
<1> QED
  BY <1>1, <1>2, <1>3, <1>4, <1>5, <1>6 DEF Next

LEMMA Invariance == Spec => []IInv
<1>1. IInv /\ [Next]_vars => IInv'
  BY TypeKept, SessionsKept, TableKept DEF IInv, Sessions
<1> QED
  BY <1>1, Initially, PTL DEF Spec

\* The variables of the service keep their types; in particular the table of the
\* server holds only subscriptions the application has not cancelled.
THEOREM TypeCorrect == Spec => []TypeOK
<1>1. IInv => TypeOK
  BY DEF IInv
<1> QED
  BY <1>1, Invariance, PTL

\* As long as no request is lost and no answer removes another session's id, a
\* running server has, for each service of the renderer, a session that is renewed
\* or one that is being asked for.
THEOREM EventsKeepFlowing == Spec => []EventsFlow
<1>1. IInv => EventsFlow
  BY DEF IInv, HasSession, HeldIsKept, EventsFlow
<1> QED
  BY <1>1, Invariance, PTL

\* An id the service holds names a session that exists or is being ended.
THEOREM HeldIdsStayLive == Spec => []HeldIdsAreLive
<1>1. IInv => HeldIdsAreLive
  BY DEF IInv, HeldOrEnded, HeldIdsAreLive
<1> QED
  BY <1>1, Invariance, PTL

\* A connected service with subscriptions in its table has its server running.
THEOREM TableStaysServed == Spec => []TableIsServed
<1>1. IInv => TableIsServed
  BY DEF IInv
<1> QED
  BY <1>1, Invariance, PTL
=============================================================================
