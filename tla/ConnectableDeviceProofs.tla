----------------------- MODULE ConnectableDeviceProofs -----------------------
(***************************************************************************)
(* What the delegate of a device can rely on, for any services, calls and   *)
(* losses: the loss of the last connected service is told after every       *)
(* "ready", and a disconnect that passed no service over is final.          *)
(***************************************************************************)
EXTENDS ConnectableDevice, FiniteSetTheorems, SequenceTheorems, TLAPS

Idle(s) == conn[s] \in {"new", "off"}

\* A service that waits for the application to be active had a socket.
SleepersOld == \A s \in asleep : conn[s] # "new"

\* After a disconnect that passed nothing over, the services of the device do
\* nothing, nor will on wake.  One that was removed may be connected.
UnwantedIdle == ~wanted => \A s \in services : Idle(s) /\ s \notin asleep

AllDown == \A s \in Services : ~Up(s)

\* The loss of service s is reported behind block i of the main queue.
LossBehind(q, i, s) ==
    \E j \in 1..Len(q) : j > i /\ q[j] = Block("disconnectedService", s)

\* A success that has not been handled is of a service that is connected still,
\* or whose loss is reported behind it.
SuccessCovered ==
    \A i \in 1..Len(mainQueue) : mainQueue[i].event = "success" =>
        \/ mainQueue[i].of \in Services /\ Up(mainQueue[i].of)
        \/ LossBehind(mainQueue, i, mainQueue[i].of)

Has(q, E) == \E i \in 1..Len(q) : q[i].event \in E

\* Behind each "ready" the main queue holds another outcome.
ReadyOvertaken(q) ==
    \A i \in 1..Len(q) : q[i].event = "ready" =>
        \E j \in 1..Len(q) : j > i /\ q[j].event \in {"failed", "disconnected"}

\* "ready" is not the last the delegate will hear once the main queue has run.
Settled(q, last) ==
    \/ Has(q, {"disconnectedService"})
    \/ /\ last = "ready" => Has(q, {"ready", "failed", "disconnected"})
       /\ ReadyOvertaken(q)

LossSettled == AllDown => Settled(mainQueue, told)

\* The inductive invariant.
DeviceInv == TypeOK /\ SleepersOld /\ UnwantedIdle /\ SuccessCovered /\ LossSettled

-----------------------------------------------------------------------------
(* The main queue.                                                           *)

\* Blocks queued in two goes are queued behind each other.
LEMMA Regroup ==
    ASSUME NEW q \in Seq(BlockType), NEW u \in Seq(BlockType), NEW v \in Seq(BlockType)
    PROVE  (q \o u) \o v = q \o (u \o v)
BY ConcatAssociative

\* What is in a queue with blocks behind it.
LEMMA Behind ==
    ASSUME NEW q \in Seq(BlockType), NEW w \in Seq(BlockType)
    PROVE  /\ q \o w \in Seq(BlockType)
           /\ Len(q) \in Nat /\ Len(w) \in Nat /\ Len(q \o w) = Len(q) + Len(w)
           /\ \A i \in 1..Len(q) : i \in 1..Len(q \o w) /\ (q \o w)[i] = q[i]
           /\ \A i \in 1..Len(w) : /\ Len(q) + i \in 1..Len(q \o w)
                                   /\ (q \o w)[Len(q) + i] = w[i]
           /\ \A k \in 1..Len(q \o w) :
                \/ k \in 1..Len(q) /\ (q \o w)[k] = q[k]
                \/ \E i \in 1..Len(w) : k = Len(q) + i /\ (q \o w)[k] = w[i]
<1>1. /\ q \o w \in Seq(BlockType)
      /\ Len(q) \in Nat /\ Len(w) \in Nat /\ Len(q \o w) = Len(q) + Len(w)
      /\ \A i \in 1..Len(q) + Len(w) :
           (q \o w)[i] = IF i <= Len(q) THEN q[i] ELSE w[i - Len(q)]
  BY ConcatProperties, LenProperties
<1>2. \A i \in 1..Len(q) : i \in 1..Len(q \o w) /\ (q \o w)[i] = q[i]
  BY <1>1
<1>3. \A i \in 1..Len(w) : /\ Len(q) + i \in 1..Len(q \o w)
                           /\ (q \o w)[Len(q) + i] = w[i]
  BY <1>1
<1>4. ASSUME NEW k \in 1..Len(q \o w), k \notin 1..Len(q)
      PROVE  \E i \in 1..Len(w) : k = Len(q) + i /\ (q \o w)[k] = w[i]
  <2>1. k - Len(q) \in 1..Len(w) /\ k = Len(q) + (k - Len(q))
    BY <1>1, <1>4
  <2> QED
    BY <1>3, <2>1
<1> QED
  BY <1>1, <1>2, <1>3, <1>4

\* What is in a queue whose head has run.
LEMMA AfterHead ==
    ASSUME NEW q \in Seq(BlockType), q # <<>>
    PROVE  /\ Tail(q) \in Seq(BlockType) /\ Head(q) = q[1] /\ Head(q) \in BlockType
           /\ Len(q) \in Nat /\ Len(q) > 0 /\ Len(Tail(q)) = Len(q) - 1
           /\ \A i \in 1..Len(Tail(q)) : i + 1 \in 1..Len(q) /\ Tail(q)[i] = q[i + 1]
           /\ \A i \in 1..Len(q) : i # 1 =>
                i - 1 \in 1..Len(Tail(q)) /\ Tail(q)[i - 1] = q[i]
<1>1. /\ Head(q) \in BlockType /\ Tail(q) \in Seq(BlockType)
      /\ Len(Tail(q)) = Len(q) - 1
      /\ \A i \in 1..Len(Tail(q)) : Tail(q)[i] = q[i + 1]
  BY HeadTailProperties
<1>2. Len(q) \in Nat /\ Len(q) > 0
  BY EmptySeq, LenProperties
<1>3. Head(q) = q[1]
  OBVIOUS
<1>4. \A i \in 1..Len(q) : i # 1 => i - 1 \in 1..Len(Tail(q)) /\ Tail(q)[i - 1] = q[i]
  BY <1>1, <1>2
<1> QED
  BY <1>1, <1>2, <1>3, <1>4

\* Blocks behind a settled queue.
LEMMA SettledGrows ==
    ASSUME NEW q \in Seq(BlockType), NEW w \in Seq(BlockType), NEW last,
           Settled(q, last), ~Has(w, {"ready"})
    PROVE  Settled(q \o w, last)
<1>1. CASE Has(q, {"disconnectedService"})
  BY <1>1, Behind DEF Has, Settled
<1>2. CASE /\ last = "ready" => Has(q, {"ready", "failed", "disconnected"})
           /\ ReadyOvertaken(q)
  <2>1. last = "ready" => Has(q \o w, {"ready", "failed", "disconnected"})
    BY <1>2, Behind DEF Has
  <2>2. ReadyOvertaken(q \o w)
    <3> SUFFICES ASSUME NEW k \in 1..Len(q \o w), (q \o w)[k].event = "ready"
                 PROVE  \E j \in 1..Len(q \o w) :
                          j > k /\ (q \o w)[j].event \in {"failed", "disconnected"}
      BY DEF ReadyOvertaken
    <3>1. k \in 1..Len(q) /\ q[k].event = "ready"
      BY Behind DEF Has
    <3>2. PICK j \in 1..Len(q) : j > k /\ q[j].event \in {"failed", "disconnected"}
      BY <1>2, <3>1 DEF ReadyOvertaken
    <3> QED
      BY <3>2, Behind
  <2> QED
    BY <2>1, <2>2 DEF Settled
<1> QED
  BY <1>1, <1>2 DEF Settled

\* The loss of a service, or an outcome that is not "ready", settles it.
LEMMA SettledBehind ==
    ASSUME NEW q \in Seq(BlockType), NEW w \in Seq(BlockType), NEW last,
           \/ Has(w, {"disconnectedService"})
           \/ Has(w, {"failed", "disconnected"}) /\ ~Has(w, {"ready"})
    PROVE  Settled(q \o w, last)
<1>1. CASE Has(w, {"disconnectedService"})
  <2>1. PICK i \in 1..Len(w) : w[i].event = "disconnectedService"
    BY <1>1 DEF Has
  <2>2. /\ Len(q) + i \in 1..Len(q \o w)
        /\ (q \o w)[Len(q) + i].event = "disconnectedService"
    BY <2>1, Behind
  <2> QED
    BY <2>2 DEF Has, Settled
<1>2. CASE Has(w, {"failed", "disconnected"}) /\ ~Has(w, {"ready"})
  <2>1. PICK i \in 1..Len(w) : w[i].event \in {"failed", "disconnected"}
    BY <1>2 DEF Has
  <2>2. /\ Len(q) + i \in 1..Len(q \o w)
        /\ (q \o w)[Len(q) + i].event \in {"failed", "disconnected"}
    BY <2>1, Behind
  <2>3. Has(q \o w, {"ready", "failed", "disconnected"})
    BY <2>2 DEF Has
  <2>4. ReadyOvertaken(q \o w)
    <3> SUFFICES ASSUME NEW k \in 1..Len(q \o w), (q \o w)[k].event = "ready"
                 PROVE  Len(q) + i > k
      BY <2>2 DEF ReadyOvertaken
    <3>1. k \in 1..Len(q)
      BY <1>2, Behind DEF Has
    <3> QED
      BY <3>1, Behind
  <2> QED
    BY <2>3, <2>4 DEF Settled
<1> QED
  BY <1>1, <1>2

\* The head of a settled queue runs.
LEMMA SettledTail ==
    ASSUME NEW q \in Seq(BlockType), q # <<>>, NEW last, NEW next, Settled(q, last),
           q[1].event # "disconnectedService",
           IF q[1].event \in {"ready", "failed", "disconnected"}
             THEN next = q[1].event ELSE next = last
    PROVE  Settled(Tail(q), next)
<1>1. CASE Has(q, {"disconnectedService"})
  <2>1. PICK i \in 1..Len(q) : q[i].event = "disconnectedService"
    BY <1>1 DEF Has
  <2>2. i - 1 \in 1..Len(Tail(q)) /\ Tail(q)[i - 1] = q[i]
    BY <2>1, AfterHead
  <2> QED
    BY <2>1, <2>2 DEF Settled, Has
<1>2. CASE /\ last = "ready" => Has(q, {"ready", "failed", "disconnected"})
           /\ ReadyOvertaken(q)
  <2>1. next = "ready" => Has(Tail(q), {"ready", "failed", "disconnected"})
    <3> SUFFICES ASSUME next = "ready"
                 PROVE  Has(Tail(q), {"ready", "failed", "disconnected"})
      OBVIOUS
    <3>1. PICK i \in 1..Len(q) : i # 1 /\ q[i].event \in {"ready", "failed", "disconnected"}
      <4>1. CASE q[1].event = "ready"
        <5>1. 1 \in 1..Len(q)
          BY AfterHead
        <5>2. PICK j \in 1..Len(q) : j > 1 /\ q[j].event \in {"failed", "disconnected"}
          BY <1>2, <4>1, <5>1 DEF ReadyOvertaken
        <5> QED
          BY <5>2
      <4>2. CASE q[1].event # "ready"
        <5>1. last = "ready" /\ q[1].event \notin {"ready", "failed", "disconnected"}
          BY <4>2
        <5> QED
          BY <1>2, <5>1 DEF Has
      <4> QED
        BY <4>1, <4>2
    <3>2. i - 1 \in 1..Len(Tail(q)) /\ Tail(q)[i - 1] = q[i]
      BY <3>1, AfterHead
    <3> QED
      BY <3>1, <3>2 DEF Has
  <2>2. ReadyOvertaken(Tail(q))
    <3> SUFFICES ASSUME NEW k \in 1..Len(Tail(q)), Tail(q)[k].event = "ready"
                 PROVE  \E j \in 1..Len(Tail(q)) :
                          j > k /\ Tail(q)[j].event \in {"failed", "disconnected"}
      BY DEF ReadyOvertaken
    <3>1. k + 1 \in 1..Len(q) /\ q[k + 1].event = "ready"
      BY AfterHead
    <3>2. PICK j \in 1..Len(q) : j > k + 1 /\ q[j].event \in {"failed", "disconnected"}
      BY <1>2, <3>1 DEF ReadyOvertaken
    <3>3. j # 1 /\ j - 1 > k
      BY <3>2, AfterHead
    <3>4. j - 1 \in 1..Len(Tail(q)) /\ Tail(q)[j - 1] = q[j]
      BY <3>3, AfterHead
    <3> QED
      BY <3>2, <3>3, <3>4
  <2> QED
    BY <2>1, <2>2 DEF Settled
<1> QED
  BY <1>1, <1>2 DEF Settled

-----------------------------------------------------------------------------
(* The two kinds of steps.                                                   *)

UpNext(s) == conn'[s] \in {"open", "on"}

\* Blocks are queued: the loss of each service that is not connected any more,
\* and successes of services that are.
GrowMove(w) ==
    /\ mainQueue' = mainQueue \o w /\ told' = told
    /\ \A s \in Services : Up(s) =>
         \/ UpNext(s)
         \/ \E i \in 1..Len(w) : w[i] = Block("disconnectedService", s)
    /\ \A i \in 1..Len(w) : w[i].event = "success" => w[i].of \in Services /\ UpNext(w[i].of)
    /\ (\A s \in Services : ~UpNext(s)) =>
         \/ AllDown /\ ~Has(w, {"ready"})
         \/ Has(w, {"disconnectedService"})
         \/ Has(w, {"failed", "disconnected"}) /\ ~Has(w, {"ready"})

LEMMA GrowStep ==
    ASSUME TypeOK, SuccessCovered, LossSettled, NEW w \in Seq(BlockType), GrowMove(w)
    PROVE  SuccessCovered' /\ LossSettled'
<1> DEFINE q == mainQueue
<1>1. q \in Seq(BlockType) /\ mainQueue' = q \o w /\ told' = told
  BY DEF TypeOK, GrowMove
<1> HIDE DEF q
<1>2. SuccessCovered'
  <2> SUFFICES ASSUME NEW k \in 1..Len(q \o w), (q \o w)[k].event = "success"
               PROVE  \/ (q \o w)[k].of \in Services /\ UpNext((q \o w)[k].of)
                      \/ LossBehind(q \o w, k, (q \o w)[k].of)
    BY <1>1 DEF SuccessCovered, UpNext, Up
  <2>1. CASE k \in 1..Len(q) /\ (q \o w)[k] = q[k]
    <3> DEFINE s == q[k].of
    <3>1. CASE s \in Services /\ Up(s)
      <4>1. CASE UpNext(s)
        BY <2>1, <3>1, <4>1
      <4>2. ASSUME NEW i \in 1..Len(w), w[i] = Block("disconnectedService", s)
            PROVE  LossBehind(q \o w, k, s)
        <5>1. Len(q) + i \in 1..Len(q \o w) /\ (q \o w)[Len(q) + i] = w[i] /\ Len(q) + i > k
          BY <1>1, <2>1, Behind
        <5> QED
          BY <4>2, <5>1 DEF LossBehind
      <4> QED
        BY <2>1, <3>1, <4>1, <4>2 DEF GrowMove
    <3>2. CASE LossBehind(q, k, s)
      <4>1. PICK j \in 1..Len(q) : j > k /\ q[j] = Block("disconnectedService", s)
        BY <3>2 DEF LossBehind
      <4>2. j \in 1..Len(q \o w) /\ (q \o w)[j] = q[j]
        BY <1>1, Behind
      <4> QED
        BY <2>1, <4>1, <4>2 DEF LossBehind
    <3> QED
      BY <2>1, <3>1, <3>2 DEF SuccessCovered, q
  <2>2. ASSUME NEW i \in 1..Len(w), (q \o w)[k] = w[i]
        PROVE  (q \o w)[k].of \in Services /\ UpNext((q \o w)[k].of)
    BY <2>2 DEF GrowMove
  <2> QED
    BY <1>1, <2>1, <2>2, Behind
<1>3. LossSettled'
  <2> SUFFICES ASSUME \A s \in Services : ~UpNext(s)
               PROVE  Settled(q \o w, told)
    BY <1>1 DEF LossSettled, AllDown, UpNext, Up
  <2>1. CASE AllDown /\ ~Has(w, {"ready"})
    BY <1>1, <2>1, SettledGrows DEF LossSettled, q
  <2>2. CASE \/ Has(w, {"disconnectedService"})
             \/ Has(w, {"failed", "disconnected"}) /\ ~Has(w, {"ready"})
    BY <1>1, <2>2, SettledBehind
  <2> QED
    BY <2>1, <2>2 DEF GrowMove
<1> QED
  BY <1>2, <1>3

\* The head of the main queue runs and queues blocks.
RunMove(w) ==
    /\ mainQueue # <<>> /\ mainQueue' = Tail(mainQueue) \o w
    /\ services' = services /\ conn' = conn
    /\ ~Has(w, {"success"})
    /\ AllDown =>
         \/ Has(w, {"failed", "disconnected"}) /\ ~Has(w, {"ready"})
         \/ /\ ~Has(w, {"ready"}) /\ Head(mainQueue).event # "disconnectedService"
            /\ IF Head(mainQueue).event \in {"ready", "failed", "disconnected"}
                 THEN told' = Head(mainQueue).event ELSE told' = told
         \/ Head(mainQueue).event = "success"

LEMMA RunStep ==
    ASSUME TypeOK, SuccessCovered, LossSettled, NEW w \in Seq(BlockType), RunMove(w)
    PROVE  SuccessCovered' /\ LossSettled'
<1> DEFINE q == mainQueue
           r == Tail(q)
<1>1. q \in Seq(BlockType) /\ q # <<>> /\ mainQueue' = r \o w
  BY DEF TypeOK, RunMove
<1>2. r \in Seq(BlockType) /\ Head(q) = q[1] /\ 1 \in 1..Len(q)
  BY <1>1, AfterHead
<1>3. services' = services /\ conn' = conn
  BY DEF RunMove
<1> HIDE DEF q, r
<1>4. SuccessCovered'
  <2> SUFFICES ASSUME NEW k \in 1..Len(r \o w), (r \o w)[k].event = "success"
               PROVE  \/ (r \o w)[k].of \in Services /\ Up((r \o w)[k].of)
                      \/ LossBehind(r \o w, k, (r \o w)[k].of)
    BY <1>1, <1>3 DEF SuccessCovered, Up
  <2>1. k \in 1..Len(r) /\ (r \o w)[k] = r[k]
    <3>1. \A i \in 1..Len(w) : w[i].event # "success"
      BY DEF RunMove, Has
    <3>2. \/ k \in 1..Len(r) /\ (r \o w)[k] = r[k]
          \/ \E i \in 1..Len(w) : k = Len(r) + i /\ (r \o w)[k] = w[i]
      BY <1>2, Behind
    <3> QED
      BY <3>1, <3>2
  <2>2. k + 1 \in 1..Len(q) /\ r[k] = q[k + 1]
    BY <1>1, <2>1, AfterHead DEF r
  <2>3. CASE q[k + 1].of \in Services /\ Up(q[k + 1].of)
    BY <2>1, <2>2, <2>3
  <2>4. CASE LossBehind(q, k + 1, q[k + 1].of)
    <3>1. PICK j \in 1..Len(q) : j > k + 1 /\ q[j] = Block("disconnectedService", q[k + 1].of)
      BY <2>4 DEF LossBehind
    <3>2. j # 1 /\ j - 1 > k
      BY <2>1, <3>1
    <3>3. j - 1 \in 1..Len(r) /\ r[j - 1] = q[j]
      BY <1>1, <3>2, AfterHead DEF r
    <3>4. j - 1 \in 1..Len(r \o w) /\ (r \o w)[j - 1] = q[j]
      BY <1>2, <3>3, Behind
    <3> QED
      BY <2>1, <2>2, <3>1, <3>2, <3>4 DEF LossBehind
  <2> QED
    BY <2>1, <2>2, <2>3, <2>4 DEF SuccessCovered, q
<1>5. LossSettled'
  <2> SUFFICES ASSUME AllDown PROVE Settled(r \o w, told')
    BY <1>1, <1>3 DEF LossSettled, AllDown, Up
  <2>1. CASE Has(w, {"failed", "disconnected"}) /\ ~Has(w, {"ready"})
    BY <1>2, <2>1, SettledBehind
  <2>2. CASE /\ ~Has(w, {"ready"}) /\ Head(q).event # "disconnectedService"
             /\ IF Head(q).event \in {"ready", "failed", "disconnected"}
                  THEN told' = Head(q).event ELSE told' = told
    <3>1. Settled(q, told)
      BY DEF LossSettled, q
    <3>2. Settled(r, told')
      BY <1>1, <1>2, <2>2, <3>1, SettledTail DEF r
    <3> QED
      BY <1>2, <2>2, <3>2, SettledGrows
  <2>3. CASE Head(q).event = "success"
    <3>1. LossBehind(q, 1, q[1].of)
      BY <1>2, <2>3 DEF SuccessCovered, AllDown, q
    <3>2. PICK j \in 1..Len(q) : j > 1 /\ q[j] = Block("disconnectedService", q[1].of)
      BY <3>1 DEF LossBehind
    <3>3. j - 1 \in 1..Len(r) /\ r[j - 1] = q[j]
      BY <1>1, <3>2, AfterHead DEF r
    <3>4. j - 1 \in 1..Len(r \o w) /\ (r \o w)[j - 1].event = "disconnectedService"
      BY <1>2, <3>2, <3>3, Behind DEF Block
    <3> QED
      BY <3>4 DEF Settled, Has
  <2> QED
    BY <2>1, <2>2, <2>3 DEF RunMove, q
<1> QED
  BY <1>4, <1>5

\* The blocks a dictionary's order of services gives: one for each service.
LEMMA OrderBlocks ==
    ASSUME NEW S \in SUBSET Services, NEW f \in Orders(S), NEW e \in Reports \union Messages,
           NEW w, w = [i \in DOMAIN f |-> Block(e, f[i])]
    PROVE  /\ w \in Seq(BlockType)
           /\ \A i \in 1..Len(w) : w[i].event = e /\ w[i].of \in S
           /\ \A s \in S : \E i \in 1..Len(w) : w[i] = Block(e, s)
           /\ S = {} => w = <<>>
<1> DEFINE n == Cardinality(S)
<1>1. IsFiniteSet(S) /\ n \in Nat
  BY DeviceAssumption, FS_Subset, FS_CardinalityType
<1>2. f \in [1..n -> S] /\ \A i, j \in 1..n : f[i] = f[j] => i = j
  BY DEF Orders
<1>3. f \in Injection(1..n, S)
  BY <1>2 DEF Injection, IsInjective
<1>4. IsFiniteSet(1..n) /\ Cardinality(1..n) = n
  BY <1>1, FS_Interval
<1>5. f \in Surjection(1..n, S)
  BY <1>1, <1>3, <1>4, FS_Injection
<1>6. S = {} => n = 0
  BY FS_EmptySet
<1> HIDE DEF n
<1>7. w = [i \in 1..n |-> Block(e, f[i])]
  BY <1>2
<1>8. \A i \in 1..n : Block(e, f[i]) \in BlockType
  BY <1>2 DEF BlockType, Block
<1>9. w \in Seq(BlockType) /\ Len(w) = n
  BY <1>1, <1>7, <1>8
<1>10. \A i \in 1..Len(w) : w[i].event = e /\ w[i].of \in S
  BY <1>2, <1>7, <1>9 DEF Block
<1>11. \A s \in S : \E i \in 1..Len(w) : w[i] = Block(e, s)
  BY <1>5, <1>7, <1>9 DEF Surjection
<1>12. S = {} => w = <<>>
  BY <1>6, <1>9, EmptySeq
<1> QED
  BY <1>9, <1>10, <1>11, <1>12

-----------------------------------------------------------------------------
(* The actions.                                                              *)

QueueMoves == \E w \in Seq(BlockType) : GrowMove(w) \/ RunMove(w)

\* What is left to show of an action: SuccessCovered and LossSettled follow.
Holds == TypeOK' /\ SleepersOld' /\ UnwantedIdle' /\ QueueMoves

LEMMA HoldsIsEnough ==
    ASSUME DeviceInv, Holds
    PROVE  DeviceInv'
  BY GrowStep, RunStep DEF DeviceInv, Holds, QueueMoves

\* One block.
LEMMA OneBlock ==
    ASSUME NEW e \in Reports \union Messages, NEW s \in Services \union {"device"}
    PROVE  /\ <<Block(e, s)>> \in Seq(BlockType) /\ Len(<<Block(e, s)>>) = 1
           /\ <<Block(e, s)>>[1] = Block(e, s) /\ Block(e, s) \in BlockType
           /\ Block(e, s).event = e /\ Block(e, s).of = s
           /\ \A E : Has(<<Block(e, s)>>, E) <=> e \in E
<1>1. Block(e, s) \in BlockType /\ Block(e, s).event = e /\ Block(e, s).of = s
  BY DEF Block, BlockType
<1>2. /\ <<Block(e, s)>> \in Seq(BlockType) /\ Len(<<Block(e, s)>>) = 1
      /\ <<Block(e, s)>>[1] = Block(e, s)
  BY <1>1
<1>3. \A E : Has(<<Block(e, s)>>, E) <=> e \in E
  BY <1>1, <1>2 DEF Has
<1> QED
  BY <1>1, <1>2, <1>3

\* A block at the end of the main queue.
LEMMA AppendBlock ==
    ASSUME TypeOK, NEW e \in Reports \union Messages, NEW s \in Services \union {"device"}
    PROVE  /\ Append(mainQueue, Block(e, s)) = mainQueue \o <<Block(e, s)>>
           /\ Append(mainQueue, Block(e, s)) \in Seq(BlockType)
<1>1. mainQueue \in Seq(BlockType)
  BY DEF TypeOK
<1> QED
  BY <1>1, OneBlock, AppendIsConcat, AppendProperties

LEMMA ConnectHolds ==
    ASSUME DeviceInv, Connect
    PROVE  Holds
<1> USE DEF DeviceInv
<1>1. /\ services' = services /\ told' = told /\ services # {} /\ wanted' = TRUE
      /\ asleep' = asleep /\ calls' \in 0..MaxCalls /\ observers' \in Nat
  BY DeviceAssumption DEF Connect, TypeOK
<1>2. waiting' \in Nat
  BY LenProperties DEF Connect, TypeOK
<1>3. CASE Connected
  <2> DEFINE w == <<Block("ready", "device")>>
  <2>1. mainQueue' = Append(mainQueue, Block("ready", "device")) /\ conn' = conn
    BY <1>3 DEF Connect
  <2>2. mainQueue' = mainQueue \o w /\ mainQueue' \in Seq(BlockType) /\ w \in Seq(BlockType)
    BY <2>1, AppendBlock, OneBlock DEF Messages
  <2>3. \A i \in 1..Len(w) : w[i].event # "success"
    BY OneBlock DEF Messages
  <2>4. ~(\A s \in Services : ~UpNext(s))
    BY <1>1, <1>3, <2>1 DEF Connected, Up, UpNext, TypeOK
  <2>5. \A s \in Services : Up(s) => UpNext(s)
    BY <2>1 DEF Up, UpNext
  <2>6. GrowMove(w)
    BY <1>1, <2>2, <2>3, <2>4, <2>5 DEF GrowMove
  <2>7. TypeOK'
    BY <1>1, <1>2, <2>1, <2>2 DEF TypeOK
  <2>8. SleepersOld' /\ UnwantedIdle'
    BY <1>1, <2>1 DEF SleepersOld, UnwantedIdle
  <2> QED
    BY <2>2, <2>6, <2>7, <2>8 DEF Holds, QueueMoves
<1>4. CASE ~Connected
  <2> DEFINE S == {s \in services : ~Up(s)}
             T == S \intersect Http
  <2>1. PICK f \in Orders(T) :
          mainQueue' = mainQueue \o [i \in DOMAIN f |-> Block("success", f[i])]
    BY <1>4 DEF Connect
  <2> DEFINE w == [i \in DOMAIN f |-> Block("success", f[i])]
  <2>2. conn' = [s \in Services |->
                   IF s \notin S THEN conn[s]
                   ELSE IF s \in Http THEN "on" ELSE "connecting"]
    BY <1>4 DEF Connect, ConnectServices
  <2>3. T \in SUBSET Services /\ T \subseteq Http /\ T \subseteq S /\ S \subseteq services
          /\ services \subseteq Services
    BY DEF TypeOK
  <2>4. \A s \in Services : Up(s) => s \notin S
    OBVIOUS
  <2> HIDE DEF S, T
  <2>5. /\ w \in Seq(BlockType)
        /\ \A i \in 1..Len(w) : w[i].event = "success" /\ w[i].of \in T
    BY <2>3, OrderBlocks DEF Reports
  <2> HIDE DEF w
  <2>6. mainQueue' = mainQueue \o w
    BY <2>1 DEF w
  <2>7. \A s \in Services : Up(s) => UpNext(s)
    BY <2>2, <2>4 DEF Up, UpNext
  <2>8. \A s \in T : s \in Services /\ UpNext(s)
    BY <2>2, <2>3 DEF UpNext
  <2>9. (\A s \in Services : ~UpNext(s)) => AllDown
    BY <2>7 DEF AllDown
  <2>10. ~Has(w, {"ready"})
    BY <2>5 DEF Has
  <2>11. GrowMove(w)
    BY <1>1, <2>5, <2>6, <2>7, <2>8, <2>9, <2>10 DEF GrowMove
  <2>12. mainQueue' \in Seq(BlockType)
    BY <2>5, <2>6, ConcatProperties DEF TypeOK
  <2>13. conn' \in [Services -> {"new", "off", "connecting", "open", "on"}]
    BY <2>2 DEF TypeOK
  <2>14. TypeOK'
    BY <1>1, <1>2, <2>12, <2>13 DEF TypeOK
  <2>15. SleepersOld' /\ UnwantedIdle'
    <3>1. asleep \subseteq Services
      BY DEF TypeOK, Services
    <3> QED
      BY <1>1, <2>2, <3>1 DEF SleepersOld, UnwantedIdle
  <2> QED
    BY <2>5, <2>11, <2>14, <2>15 DEF Holds, QueueMoves
<1> QED
  BY <1>3, <1>4

LEMMA DisconnectStep ==
    ASSUME DeviceInv, NEW times \in Nat \ {0}, DisconnectServices(times),
           services' = services, asleep' = asleep, told' = told, waiting' = waiting,
           calls' \in 0..MaxCalls
    PROVE  Holds
<1> USE DEF DeviceInv
<1> DEFINE S == {s \in services : Up(s)}
           d == [i \in 1..times |-> Block("disconnected", "device")]
<1>1. PICK f \in Orders(S) :
        mainQueue' = mainQueue \o [i \in DOMAIN f |-> Block("disconnectedService", f[i])] \o d
  BY DEF DisconnectServices
<1> DEFINE b == [i \in DOMAIN f |-> Block("disconnectedService", f[i])]
           w == b \o d
<1>2. /\ conn' = [s \in Services |-> IF s \in S THEN "off" ELSE conn[s]]
      /\ observers' = 0 /\ wanted' = (\E s \in services : conn[s] = "connecting" \/ s \in asleep)
  BY DEF DisconnectServices
<1>3. S \in SUBSET Services /\ S \subseteq services /\ services \subseteq Services
  BY DEF TypeOK
<1>4. \A s \in services : Up(s) <=> s \in S
  OBVIOUS
<1>16. \A s \in Services : s \notin S /\ Up(s) => UpNext(s)
  BY <1>2 DEF Up, UpNext
<1> HIDE DEF S
<1>5. /\ b \in Seq(BlockType)
      /\ \A i \in 1..Len(b) : b[i].event = "disconnectedService"
      /\ \A s \in S : \E i \in 1..Len(b) : b[i] = Block("disconnectedService", s)
  <2> DEFINE e == "disconnectedService"
  <2>1. e \in Reports \union Messages
    BY DEF Reports
  <2>2. b = [i \in DOMAIN f |-> Block(e, f[i])]
    OBVIOUS
  <2> HIDE DEF e, b
  <2>3. /\ b \in Seq(BlockType)
        /\ \A i \in 1..Len(b) : b[i].event = e
        /\ \A s \in S : \E i \in 1..Len(b) : b[i] = Block(e, s)
    BY <1>3, <2>1, <2>2, OrderBlocks
  <2> QED
    BY <2>3 DEF e
<1> HIDE DEF b
<1>6. Block("disconnected", "device") \in BlockType
        /\ Block("disconnected", "device").event = "disconnected"
  BY OneBlock DEF Messages
<1>7. d \in Seq(BlockType) /\ Len(d) = times /\ \A i \in 1..times : d[i].event = "disconnected"
  BY <1>6
<1> HIDE DEF d
<1>8. /\ w \in Seq(BlockType)
      /\ \A k \in 1..Len(w) : w[k].event \in {"disconnectedService", "disconnected"}
  <2>1. w \in Seq(BlockType)
    BY <1>5, <1>7, ConcatProperties
  <2>2. ASSUME NEW k \in 1..Len(w)
        PROVE  w[k].event \in {"disconnectedService", "disconnected"}
    <3>1. \/ k \in 1..Len(b) /\ w[k] = b[k]
          \/ \E i \in 1..Len(d) : k = Len(b) + i /\ w[k] = d[i]
      BY <1>5, <1>7, Behind
    <3> QED
      BY <1>5, <1>7, <3>1
  <2> QED
    BY <2>1, <2>2
<1>9. \A s \in S : \E i \in 1..Len(w) : w[i] = Block("disconnectedService", s)
  BY <1>5, <1>7, Behind
<1>10. Has(w, {"failed", "disconnected"})
  <2>1. 1 \in 1..Len(d)
    BY <1>7
  <2>2. Len(b) + 1 \in 1..Len(w) /\ w[Len(b) + 1] = d[1]
    BY <1>5, <1>7, <2>1, Behind
  <2> QED
    BY <1>7, <2>1, <2>2 DEF Has
<1>11. mainQueue' = mainQueue \o w
  <2>1. mainQueue' = (mainQueue \o b) \o d
    BY <1>1 DEF b, d
  <2>2. mainQueue \in Seq(BlockType)
    BY DEF TypeOK
  <2>3. (mainQueue \o b) \o d = mainQueue \o (b \o d)
    BY <1>5, <1>7, <2>2, Regroup
  <2> QED
    BY <2>1, <2>3
<1> HIDE DEF w
<1>12. GrowMove(w)
  <2>1. ~Has(w, {"ready"}) /\ \A i \in 1..Len(w) : w[i].event # "success"
    BY <1>8 DEF Has
  <2>2. ASSUME NEW s \in Services, Up(s)
        PROVE  UpNext(s) \/ \E i \in 1..Len(w) : w[i] = Block("disconnectedService", s)
    BY <1>9, <1>16, <2>2
  <2> QED
    BY <1>10, <1>11, <2>1, <2>2 DEF GrowMove
<1>13. TypeOK'
  <2>1. mainQueue' \in Seq(BlockType)
    BY <1>8, <1>11, ConcatProperties DEF TypeOK
  <2>2. conn' \in [Services -> {"new", "off", "connecting", "open", "on"}]
    BY <1>2 DEF TypeOK
  <2>3. wanted' \in BOOLEAN /\ observers' \in Nat
    BY <1>2
  <2> QED
    BY <2>1, <2>2, <2>3 DEF TypeOK
<1>14. SleepersOld'
  <2>1. asleep \subseteq Services
    BY DEF TypeOK, Services
  <2> QED
    BY <1>2, <2>1 DEF SleepersOld
<1>15. UnwantedIdle'
  <2> SUFFICES ASSUME ~wanted', NEW s \in services
               PROVE  conn'[s] \in {"new", "off"} /\ s \notin asleep
    BY DEF UnwantedIdle, Idle
  <2>1. s \in Services /\ conn[s] # "connecting" /\ s \notin asleep
    BY <1>2, <1>3
  <2>2. CASE s \in S
    BY <1>2, <2>1, <2>2
  <2>3. CASE s \notin S
    <3>1. conn[s] \notin {"open", "on", "connecting"}
      BY <1>4, <2>1, <2>3 DEF Up
    <3>2. conn[s] \in {"new", "off", "connecting", "open", "on"}
      BY <2>1 DEF TypeOK
    <3> QED
      BY <1>2, <2>1, <2>3, <3>1, <3>2
  <2> QED
    BY <2>2, <2>3
<1> QED
  BY <1>8, <1>12, <1>13, <1>14, <1>15 DEF Holds, QueueMoves

LEMMA DisconnectsHold ==
    ASSUME DeviceInv, Disconnect \/ SSIDChanged
    PROVE  Holds
<1>1. calls' \in 0..MaxCalls /\ observers \in Nat
  BY DeviceAssumption DEF Disconnect, SSIDChanged, DeviceInv, TypeOK
<1>2. CASE Disconnect
  BY <1>1, <1>2, DisconnectStep DEF Disconnect
<1>3. CASE SSIDChanged
  <2>1. PICK times \in 1..observers : DisconnectServices(times)
    BY <1>3 DEF SSIDChanged
  <2>2. times \in Nat \ {0}
    BY <1>1
  <2> QED
    BY <1>1, <1>3, <2>1, <2>2, DisconnectStep DEF SSIDChanged
<1> QED
  BY <1>2, <1>3

\* The blocks of a service that is disconnected: none, or its loss.
LEMMA LossBlocks ==
    ASSUME NEW t \in Services
    PROVE  /\ DisconnectBlocks(t) \in Seq(BlockType)
           /\ Len(DisconnectBlocks(t)) \in {0, 1}
           /\ \A i \in 1..Len(DisconnectBlocks(t)) :
                DisconnectBlocks(t)[i] = Block("disconnectedService", t)
           /\ Up(t) => Len(DisconnectBlocks(t)) = 1
<1>1. CASE t \in WebOs /\ conn[t] = "new"
  <2>1. DisconnectBlocks(t) = <<>> /\ ~Up(t)
    BY <1>1 DEF DisconnectBlocks, Up
  <2> QED
    BY <2>1, EmptySeq
<1>2. CASE ~(t \in WebOs /\ conn[t] = "new")
  <2>1. DisconnectBlocks(t) = <<Block("disconnectedService", t)>>
    BY <1>2 DEF DisconnectBlocks
  <2> QED
    BY <2>1, OneBlock DEF Reports
<1> QED
  BY <1>1, <1>2

LEMMA AddHolds ==
    ASSUME DeviceInv, NEW s \in Services, AddService(s)
    PROVE  Holds
<1> USE DEF DeviceInv
<1> DEFINE old == {t \in services : Name(t) = Name(s)}
           first == [t \in old |-> IF Up(t) THEN DisconnectBlocks(t) ELSE <<>>]
           gone == IF old = {} THEN <<>>
                   ELSE LET t == CHOOSE t \in old : TRUE IN first[t] \o DisconnectBlocks(t)
           c == <<Block("connectionRequired", s)>>
           w == gone \o c
<1>1. /\ s \notin services /\ conn[s] = "new"
      /\ services' = (services \ old) \union {s}
      /\ conn' = [t \in Services |-> IF t \in old THEN AfterDisconnect(t) ELSE conn[t]]
      /\ mainQueue' = Append(mainQueue \o gone, Block("connectionRequired", s))
      /\ observers' = observers /\ told' = told /\ waiting' = waiting /\ wanted' = wanted
      /\ asleep' = asleep
  BY DEF AddService
<1>2. calls' \in 0..MaxCalls
  BY DeviceAssumption DEF AddService, TypeOK
<1>3. /\ gone \in Seq(BlockType)
      /\ \A i \in 1..Len(gone) : gone[i].event = "disconnectedService"
      /\ \A t \in old : Up(t) => \E i \in 1..Len(gone) : gone[i] = Block("disconnectedService", t)
  <2>1. CASE old = {}
    <3>1. gone = <<>>
      BY <2>1
    <3> QED
      BY <2>1, <3>1, EmptySeq
  <2>2. CASE old # {}
    <3> DEFINE t == CHOOSE t \in old : TRUE
               a == first[t]
               b == DisconnectBlocks(t)
    <3>1. t \in old /\ t \in Services
      BY <2>2 DEF TypeOK
    <3>2. old = {t}
      BY <3>1 DEF TypeOK
    <3>3. gone = a \o b /\ a \in {<<>>, b}
      BY <2>2, <3>1
    <3> HIDE DEF t, gone, old, first
    <3>4. /\ b \in Seq(BlockType) /\ Len(b) \in {0, 1}
          /\ \A i \in 1..Len(b) : b[i] = Block("disconnectedService", t)
          /\ Up(t) => Len(b) = 1
      BY <3>1, LossBlocks
    <3> HIDE DEF a, b
    <3>5. a \in Seq(BlockType) /\ \A i \in 1..Len(a) : a[i] = Block("disconnectedService", t)
      <4>1. CASE a = <<>>
        BY <4>1, EmptySeq
      <4>2. CASE a = b
        BY <3>4, <4>2
      <4> QED
        BY <3>3, <4>1, <4>2
    <3>6. gone \in Seq(BlockType)
      BY <3>3, <3>4, <3>5, ConcatProperties
    <3>7. \A k \in 1..Len(gone) : gone[k] = Block("disconnectedService", t)
      <4> SUFFICES ASSUME NEW k \in 1..Len(gone) PROVE gone[k] = Block("disconnectedService", t)
        OBVIOUS
      <4>1. \/ k \in 1..Len(a) /\ gone[k] = a[k]
            \/ \E i \in 1..Len(b) : k = Len(a) + i /\ gone[k] = b[i]
        BY <3>3, <3>4, <3>5, Behind
      <4> QED
        BY <3>4, <3>5, <4>1
    <3>8. Up(t) => 1 \in 1..Len(gone)
      <4>1. Len(gone) = Len(a) + Len(b) /\ Len(a) \in Nat /\ Len(b) \in Nat
        BY <3>3, <3>4, <3>5, Behind
      <4> QED
        BY <3>4, <4>1
    <3> QED
      BY <3>2, <3>6, <3>7, <3>8 DEF Block
  <2> QED
    BY <2>1, <2>2
<1>4. old \subseteq services /\ services \subseteq Services /\ s \notin old
  BY <1>1 DEF TypeOK
<1>5. /\ \A t \in services' : t = s \/ (t \in services /\ t \notin old)
      /\ \A t, u \in services' : Name(t) = Name(u) => t = u
  BY <1>1 DEF TypeOK
<1> HIDE DEF gone, first, old
<1>6. c \in Seq(BlockType) /\ Len(c) = 1 /\ c[1].event = "connectionRequired"
  BY OneBlock DEF Messages
<1>7. mainQueue' = mainQueue \o w /\ mainQueue' \in Seq(BlockType)
  <2>1. mainQueue \in Seq(BlockType) /\ mainQueue \o gone \in Seq(BlockType)
    BY <1>3, ConcatProperties DEF TypeOK
  <2>2. Block("connectionRequired", s) \in BlockType
    BY OneBlock DEF Messages
  <2>3. mainQueue' = (mainQueue \o gone) \o c
    BY <1>1, <2>1, <2>2, AppendIsConcat
  <2> QED
    BY <1>3, <1>6, <2>1, <2>3, ConcatAssociative, ConcatProperties
<1> HIDE DEF c
<1>8. w \in Seq(BlockType) /\ \A k \in 1..Len(w) :
         w[k].event \in {"disconnectedService", "connectionRequired"}
  <2>1. w \in Seq(BlockType)
    BY <1>3, <1>6, ConcatProperties
  <2>2. ASSUME NEW k \in 1..Len(w)
        PROVE  w[k].event \in {"disconnectedService", "connectionRequired"}
    <3>1. \/ k \in 1..Len(gone) /\ w[k] = gone[k]
          \/ \E i \in 1..Len(c) : k = Len(gone) + i /\ w[k] = c[i]
      BY <1>3, <1>6, Behind
    <3> QED
      BY <1>3, <1>6, <3>1
  <2> QED
    BY <2>1, <2>2
<1>9. \A t \in old : Up(t) => \E i \in 1..Len(w) : w[i] = Block("disconnectedService", t)
  <2> SUFFICES ASSUME NEW t \in old, Up(t)
               PROVE  \E i \in 1..Len(w) : w[i] = Block("disconnectedService", t)
    OBVIOUS
  <2>1. PICK i \in 1..Len(gone) : gone[i] = Block("disconnectedService", t)
    BY <1>3
  <2>2. i \in 1..Len(w) /\ w[i] = gone[i]
    BY <1>3, <1>6, Behind
  <2> QED
    BY <2>1, <2>2
<1> HIDE DEF w
<1>10. \A t \in Services : t \notin old => (UpNext(t) <=> Up(t))
  BY <1>1, <1>4 DEF UpNext, Up, TypeOK
<1>11. GrowMove(w)
  <2>1. ~Has(w, {"ready"}) /\ \A i \in 1..Len(w) : w[i].event # "success"
    BY <1>8 DEF Has
  <2>2. (\A t \in Services : ~UpNext(t)) => AllDown \/ Has(w, {"disconnectedService"})
    <3> SUFFICES ASSUME \A t \in Services : ~UpNext(t), NEW t \in Services, Up(t)
                 PROVE  Has(w, {"disconnectedService"})
      BY DEF AllDown
    <3>1. t \in old
      BY <1>10
    <3>2. PICK i \in 1..Len(w) : w[i] = Block("disconnectedService", t)
      BY <1>9, <3>1
    <3>3. w[i].event = "disconnectedService"
      BY <3>2 DEF Block
    <3> QED
      BY <3>3 DEF Has
  <2> QED
    BY <1>1, <1>7, <1>9, <1>10, <2>1, <2>2 DEF GrowMove
<1>12. \A t \in Services : conn'[t] \in {conn[t], "new", "off"}
  BY <1>1 DEF AfterDisconnect
<1>13. TypeOK'
  <2>1. conn' \in [Services -> {"new", "off", "connecting", "open", "on"}]
    BY <1>1 DEF TypeOK, AfterDisconnect
  <2>2. services' \subseteq Services
    BY <1>4, <1>5
  <2> QED
    BY <1>1, <1>2, <1>5, <1>7, <2>1, <2>2 DEF TypeOK
<1>14. SleepersOld'
  <2> SUFFICES ASSUME NEW t \in asleep PROVE conn'[t] # "new"
    BY <1>1 DEF SleepersOld
  <2>1. t \in Services /\ conn[t] # "new"
    BY DEF SleepersOld, TypeOK, Services
  <2> QED
    BY <1>1, <2>1 DEF AfterDisconnect
<1>15. UnwantedIdle'
  <2> SUFFICES ASSUME ~wanted, NEW t \in services'
               PROVE  conn'[t] \in {"new", "off"} /\ t \notin asleep
    BY <1>1 DEF UnwantedIdle, Idle
  <2>1. CASE t = s
    BY <1>1, <1>4, <2>1 DEF SleepersOld
  <2>2. CASE t \in services /\ t \notin old
    BY <1>1, <1>4, <2>2 DEF UnwantedIdle, Idle
  <2> QED
    BY <1>5, <2>1, <2>2
<1> QED
  BY <1>8, <1>11, <1>13, <1>14, <1>15 DEF Holds, QueueMoves

LEMMA RemoveHolds ==
    ASSUME DeviceInv, NEW s \in Services, RemoveServiceWithId(s)
    PROVE  Holds
<1> USE DEF DeviceInv
<1> DEFINE w == DisconnectBlocks(s)
<1>1. /\ s \in services /\ services' = services \ {s}
      /\ conn' = [conn EXCEPT ![s] = AfterDisconnect(s)]
      /\ mainQueue' = mainQueue \o w
      /\ observers' = observers /\ told' = told /\ waiting' = waiting /\ wanted' = wanted
      /\ asleep' = asleep
  BY DEF RemoveServiceWithId
<1>2. calls' \in 0..MaxCalls
  BY DeviceAssumption DEF RemoveServiceWithId, TypeOK
<1>3. /\ w \in Seq(BlockType) /\ Len(w) \in {0, 1} /\ (Up(s) => Len(w) = 1)
      /\ \A i \in 1..Len(w) : w[i] = Block("disconnectedService", s)
  BY LossBlocks
<1> HIDE DEF w
<1>4. \A i \in 1..Len(w) : w[i].event = "disconnectedService"
  BY <1>3 DEF Block
<1>5. Up(s) => 1 \in 1..Len(w) /\ w[1] = Block("disconnectedService", s)
  BY <1>3
<1>6. \A t \in Services : t # s => (UpNext(t) <=> Up(t))
  BY <1>1 DEF UpNext, Up, TypeOK
<1>7. GrowMove(w)
  <2>1. ~Has(w, {"ready"}) /\ \A i \in 1..Len(w) : w[i].event # "success"
    BY <1>4 DEF Has
  <2>2. (\A t \in Services : ~UpNext(t)) => AllDown \/ Has(w, {"disconnectedService"})
    BY <1>4, <1>5, <1>6 DEF AllDown, Has
  <2> QED
    BY <1>1, <1>5, <1>6, <2>1, <2>2 DEF GrowMove
<1>8. AfterDisconnect(s) \in {"new", "off"}
  BY DEF AfterDisconnect
<1>9. TypeOK'
  <2>1. mainQueue' \in Seq(BlockType)
    BY <1>1, <1>3, ConcatProperties DEF TypeOK
  <2>2. conn' \in [Services -> {"new", "off", "connecting", "open", "on"}]
    BY <1>1, <1>8 DEF TypeOK
  <2> QED
    BY <1>1, <1>2, <2>1, <2>2 DEF TypeOK
<1>10. SleepersOld' /\ UnwantedIdle'
  <2>1. asleep \subseteq Services /\ services \subseteq Services
    BY DEF TypeOK, Services
  <2>2. \A t \in Services : conn'[t] = IF t = s THEN AfterDisconnect(s) ELSE conn[t]
    BY <1>1 DEF TypeOK
  <2>3. SleepersOld'
    BY <1>1, <2>1, <2>2 DEF SleepersOld, AfterDisconnect
  <2>4. UnwantedIdle'
    BY <1>1, <2>1, <2>2 DEF UnwantedIdle, Idle
  <2> QED
    BY <2>3, <2>4
<1> QED
  BY <1>3, <1>7, <1>9, <1>10 DEF Holds, QueueMoves

\* What a service does on its own and reports: its state changes at most, and one
\* block is queued.
LEMMA ServiceStep ==
    ASSUME DeviceInv, NEW s \in Services, NEW to \in {"off", "on"}, NEW e \in Reports,
           conn' = [conn EXCEPT ![s] = to],
           mainQueue' = Append(mainQueue, Block(e, s)),
           asleep' \subseteq WebOs, asleep' \subseteq asleep \union {s},
           calls' \in 0..MaxCalls, UNCHANGED <<services, observers, told, waiting, wanted>>,
           ~Idle(s) \/ (to = "off" /\ asleep' = asleep),
           to = "off" /\ Up(s) => e = "disconnectedService",
           e = "success" => to = "on"
    PROVE  Holds
<1> USE DEF DeviceInv
<1> DEFINE w == <<Block(e, s)>>
<1>1. /\ w \in Seq(BlockType) /\ Len(w) = 1 /\ w[1] = Block(e, s) /\ w[1].event = e /\ w[1].of = s
      /\ \A E : Has(w, E) <=> e \in E
  BY OneBlock
<1>2. mainQueue' = mainQueue \o w /\ mainQueue' \in Seq(BlockType)
  BY AppendBlock
<1>3. services \subseteq Services /\ asleep \subseteq Services
  BY DEF TypeOK, Services
<1> HIDE DEF w
<1>4. \A t \in Services : conn'[t] = IF t = s THEN to ELSE conn[t]
  BY DEF TypeOK
<1>5. /\ \A t \in Services : t # s => (UpNext(t) <=> Up(t))
      /\ UpNext(s) <=> to = "on"
  BY <1>4 DEF UpNext, Up
<1>6. GrowMove(w)
  <2>1. ~Has(w, {"ready"})
    BY <1>1 DEF Reports
  <2>2. \A t \in Services : Up(t) =>
          \/ UpNext(t)
          \/ \E i \in 1..Len(w) : w[i] = Block("disconnectedService", t)
    BY <1>1, <1>5
  <2>3. (\A t \in Services : ~UpNext(t)) => AllDown \/ Has(w, {"disconnectedService"})
    BY <1>1, <1>5 DEF AllDown
  <2>4. \A i \in 1..Len(w) : w[i].event = "success" => w[i].of \in Services /\ UpNext(w[i].of)
    BY <1>1, <1>5
  <2> QED
    BY <1>2, <2>1, <2>2, <2>3, <2>4 DEF GrowMove
<1>7. TypeOK'
  BY <1>2 DEF TypeOK
<1>8. SleepersOld'
  <2> SUFFICES ASSUME NEW t \in asleep' PROVE conn'[t] # "new"
    BY DEF SleepersOld
  <2>1. t \in Services /\ (t = s \/ conn[t] # "new")
    BY <1>3 DEF SleepersOld
  <2> QED
    BY <1>4, <2>1
<1>9. UnwantedIdle'
  <2> SUFFICES ASSUME ~wanted, NEW t \in services
               PROVE  conn'[t] \in {"new", "off"} /\ t \notin asleep'
    BY DEF UnwantedIdle, Idle
  <2>1. Idle(t) /\ t \notin asleep /\ t \in Services
    BY <1>3 DEF UnwantedIdle
  <2>2. CASE t = s
    BY <1>4, <2>1, <2>2
  <2>3. CASE t # s
    BY <1>4, <2>1, <2>3 DEF Idle
  <2> QED
    BY <2>2, <2>3
<1> QED
  BY <1>1, <1>6, <1>7, <1>8, <1>9 DEF Holds, QueueMoves

LEMMA DropHolds ==
    ASSUME DeviceInv, NEW s \in Services, ServiceDrops(s)
    PROVE  Holds
<1>1. calls' \in 0..MaxCalls /\ ~Idle(s)
  BY DeviceAssumption DEF ServiceDrops, DeviceInv, TypeOK, Idle, Up
<1>2. asleep' = asleep /\ asleep \subseteq WebOs
  BY DEF ServiceDrops, DeviceInv, TypeOK
<1> QED
  BY <1>1, <1>2, ServiceStep DEF ServiceDrops, Reports

LEMMA ReportsHold ==
    ASSUME DeviceInv, NEW s \in WebOs,
           \/ ServiceRegisters(s) \/ ServiceFails(s) \/ ServiceRefused(s)
           \/ ServiceSleeps(s) \/ SocketCloses(s)
    PROVE  Holds
<1>1. s \in Services /\ asleep \subseteq WebOs /\ calls \in 0..MaxCalls
  BY DEF DeviceInv, TypeOK, Services
<1>2. CASE ServiceRegisters(s)
  <2>1. ~Idle(s) /\ asleep' = asleep /\ calls' = calls
    BY <1>2 DEF ServiceRegisters, Idle
  <2> QED
    BY <1>1, <1>2, <2>1, ServiceStep DEF ServiceRegisters, Reports
<1>3. CASE ServiceFails(s)
  <2>1. ~Idle(s) /\ ~Up(s) /\ asleep' = asleep /\ calls' = calls
    BY <1>3 DEF ServiceFails, Idle, Up
  <2> QED
    BY <1>1, <1>3, <2>1, ServiceStep DEF ServiceFails, Reports
<1>4. CASE ServiceRefused(s)
  <2>1. ~Idle(s) /\ asleep' = asleep /\ calls' = calls
    BY <1>4 DEF ServiceRefused, Idle
  <2> QED
    BY <1>1, <1>4, <2>1, ServiceStep DEF ServiceRefused, Reports
<1>5. CASE ServiceSleeps(s)
  <2>1. ~Idle(s) /\ asleep' = asleep \union {s}
    BY <1>5 DEF ServiceSleeps, Idle
  <2>2. calls' \in 0..MaxCalls
    BY <1>1, <1>5, DeviceAssumption DEF ServiceSleeps
  <2> QED
    BY <1>1, <1>5, <2>1, <2>2, ServiceStep DEF ServiceSleeps, Reports
<1>6. CASE SocketCloses(s)
  <2>1. conn' = [conn EXCEPT ![s] = "off"] /\ asleep' = asleep
    BY <1>1, <1>6 DEF SocketCloses, DeviceInv, TypeOK
  <2>2. calls' \in 0..MaxCalls
    BY <1>1, <1>6, DeviceAssumption DEF SocketCloses
  <2> QED
    BY <1>1, <1>6, <2>1, <2>2, ServiceStep DEF SocketCloses, Reports
<1> QED
  BY <1>2, <1>3, <1>4, <1>5, <1>6

\* Nothing is queued, and no service goes down.
LEMMA SilentStep ==
    ASSUME DeviceInv, UNCHANGED <<services, observers, mainQueue, told, waiting>>,
           conn' \in [Services -> {"new", "off", "connecting", "open", "on"}],
           \A t \in Services : Up(t) => UpNext(t),
           asleep' \subseteq WebOs, calls' \in 0..MaxCalls, wanted' \in BOOLEAN,
           SleepersOld', UnwantedIdle'
    PROVE  Holds
<1> USE DEF DeviceInv
<1> DEFINE w == <<>>
<1>1. w \in Seq(BlockType) /\ Len(w) = 0 /\ mainQueue' = mainQueue \o w
  BY EmptySeq, ConcatEmptySeq DEF TypeOK
<1> HIDE DEF w
<1>2. GrowMove(w)
  <2>1. ~Has(w, {"ready"}) /\ \A i \in 1..Len(w) : FALSE
    BY <1>1 DEF Has
  <2> QED
    BY <1>1, <2>1 DEF GrowMove, AllDown
<1>3. TypeOK'
  BY DEF TypeOK
<1> QED
  BY <1>1, <1>2, <1>3 DEF Holds, QueueMoves

\* A socket opens, or the client opens it again.
LEMMA OpensHold ==
    ASSUME DeviceInv, NEW s \in WebOs,
           ServiceOpens(s) \/ ServiceWakes(s) \/ ServiceReopens(s)
    PROVE  Holds
<1> USE DEF DeviceInv
<1>1. s \in Services /\ asleep \subseteq Services /\ services \subseteq Services
        /\ asleep' \subseteq asleep
  BY DEF TypeOK, Services, ServiceOpens, ServiceWakes, ServiceReopens
<1>2. PICK to \in {"connecting", "open"} :
        conn' = [conn EXCEPT ![s] = to] /\ (Up(s) => to = "open")
  BY DEF ServiceOpens, ServiceWakes, ServiceReopens, Up
<1>3. \A t \in Services : conn'[t] = IF t = s THEN to ELSE conn[t]
  BY <1>2 DEF TypeOK
<1>4. UNCHANGED <<services, observers, mainQueue, told, waiting>>
  BY DEF ServiceOpens, ServiceWakes, ServiceReopens
<1>5. calls' \in 0..MaxCalls
  BY DeviceAssumption DEF TypeOK, ServiceOpens, ServiceWakes, ServiceReopens
<1>6. /\ wanted' \in BOOLEAN
      /\ ~wanted' => ~wanted /\ (s \notin services \/ ~Idle(s) \/ s \in asleep)
  BY DEF ServiceOpens, ServiceWakes, ServiceReopens, Idle, TypeOK
<1>7. conn' \in [Services -> {"new", "off", "connecting", "open", "on"}]
  BY <1>2 DEF TypeOK
<1>8. \A t \in Services : Up(t) => UpNext(t)
  BY <1>2, <1>3 DEF Up, UpNext
<1>9. SleepersOld'
  BY <1>1, <1>3 DEF SleepersOld
<1>10. UnwantedIdle'
  <2> SUFFICES ASSUME ~wanted', NEW t \in services
               PROVE  conn'[t] \in {"new", "off"} /\ t \notin asleep'
    BY <1>4 DEF UnwantedIdle, Idle
  <2>1. ~wanted /\ Idle(t) /\ t \notin asleep /\ t \in Services
    BY <1>1, <1>6 DEF UnwantedIdle
  <2>2. t # s
    BY <1>6, <2>1
  <2> QED
    BY <1>1, <1>3, <2>1, <2>2 DEF Idle
<1>11. asleep' \subseteq WebOs
  BY <1>1 DEF TypeOK
<1> QED
  BY <1>4, <1>5, <1>6, <1>7, <1>8, <1>9, <1>10, <1>11, SilentStep

LEMMA StutterHolds ==
    ASSUME DeviceInv, UNCHANGED vars
    PROVE  Holds
<1> USE DEF DeviceInv, vars
<1>1. \A t \in Services : Up(t) => UpNext(t)
  BY DEF Up, UpNext
<1>2. SleepersOld' /\ UnwantedIdle'
  BY DEF SleepersOld, UnwantedIdle, Idle
<1>3. /\ conn' \in [Services -> {"new", "off", "connecting", "open", "on"}]
      /\ asleep' \subseteq WebOs /\ calls' \in 0..MaxCalls /\ wanted' \in BOOLEAN
  BY DEF TypeOK
<1> QED
  BY <1>1, <1>2, <1>3, SilentStep

\* The head of the main queue runs: TypeOK, SleepersOld and UnwantedIdle hold as
\* long as the blocks queued are blocks.
LEMMA RunHolds ==
    ASSUME DeviceInv, NEW w \in Seq(BlockType), RunMove(w),
           told' \in {"nothing", "ready", "failed", "disconnected"},
           waiting' \in Nat, UNCHANGED <<services, conn, asleep, observers, wanted, calls>>
    PROVE  Holds
<1> USE DEF DeviceInv
<1>1. mainQueue' \in Seq(BlockType)
  <2>1. Tail(mainQueue) \in Seq(BlockType)
    BY AfterHead DEF RunMove, TypeOK
  <2> QED
    BY <2>1, ConcatProperties DEF RunMove
<1>2. TypeOK'
  BY <1>1 DEF TypeOK
<1>3. SleepersOld' /\ UnwantedIdle'
  BY DEF SleepersOld, UnwantedIdle, Idle
<1> QED
  BY <1>2, <1>3 DEF Holds, QueueMoves

LEMMA MainQueueHolds ==
    ASSUME DeviceInv, MainQueueRuns
    PROVE  Holds
<1> USE DEF DeviceInv
<1>1. UNCHANGED <<services, conn, asleep, observers, wanted, calls>> /\ mainQueue # <<>>
  BY DEF MainQueueRuns, DeviceServiceConnectionSuccess, DeviceServiceDidFailConnect,
         DeviceServiceDisconnected, Tell, Runs
<1>2. waiting' \in Nat
  BY DEF MainQueueRuns, DeviceServiceConnectionSuccess, DeviceServiceDidFailConnect,
         DeviceServiceDisconnected, Tell, StillWaiting, TypeOK
<1>3. /\ <<>> \in Seq(BlockType) /\ \A E : ~Has(<<>>, E)
      /\ Tail(mainQueue) \o <<>> = Tail(mainQueue)
      /\ Tail(mainQueue) \in Seq(BlockType) /\ Head(mainQueue) \in BlockType
  <2>1. Tail(mainQueue) \in Seq(BlockType) /\ Head(mainQueue) \in BlockType
    BY <1>1, AfterHead DEF TypeOK
  <2> QED
    BY <2>1, EmptySeq, ConcatEmptySeq DEF Has
<1>4. told \in {"nothing", "ready", "failed", "disconnected"}
  BY DEF TypeOK
<1>5. CASE DeviceServiceConnectionSuccess
  <2>1. /\ Head(mainQueue).event = "success" /\ told' = told
        /\ mainQueue' = Tail(mainQueue) \o
              (IF Connected THEN <<Block("ready", "device")>> ELSE <<>>)
    BY <1>5 DEF DeviceServiceConnectionSuccess, Runs, RestWith
  <2>2. CASE Connected
    <3> DEFINE w == <<Block("ready", "device")>>
    <3>1. w \in Seq(BlockType) /\ ~Has(w, {"success"})
      BY OneBlock DEF Messages
    <3>2. mainQueue' = Tail(mainQueue) \o w
      BY <2>1, <2>2
    <3> HIDE DEF w
    <3>3. RunMove(w)
      BY <1>1, <2>1, <3>1, <3>2 DEF RunMove
    <3> QED
      BY <1>1, <1>2, <1>4, <2>1, <3>1, <3>3, RunHolds
  <2>3. CASE ~Connected
    <3>1. RunMove(<<>>)
      BY <1>1, <1>3, <2>1, <2>3 DEF RunMove
    <3> QED
      BY <1>1, <1>2, <1>3, <1>4, <2>1, <3>1, RunHolds
  <2> QED
    BY <2>2, <2>3
<1>6. CASE DeviceServiceDidFailConnect
  <2> DEFINE w == <<Block("failed", "device")>>
  <2>1. mainQueue' = Tail(mainQueue) \o w /\ told' = told
    BY <1>6 DEF DeviceServiceDidFailConnect, RestWith
  <2>2. /\ w \in Seq(BlockType) /\ ~Has(w, {"success"}) /\ ~Has(w, {"ready"})
        /\ Has(w, {"failed", "disconnected"})
    BY OneBlock DEF Messages
  <2> HIDE DEF w
  <2>3. RunMove(w)
    BY <1>1, <2>1, <2>2 DEF RunMove
  <2> QED
    BY <1>1, <1>2, <1>4, <2>1, <2>2, <2>3, RunHolds
<1>7. CASE DeviceServiceDisconnected
  <2> DEFINE a == IF NoneConnected THEN <<Block("disconnected", "device")>> ELSE <<>>
             b == <<Block("serviceDisconnected", About)>>
             w == a \o b
  <2>1. mainQueue' = Tail(mainQueue) \o w /\ told' = told
    BY <1>7 DEF DeviceServiceDisconnected, RestWith
  <2>2. About \in Services \union {"device"}
    BY <1>3 DEF About, BlockType
  <2>3. b \in Seq(BlockType) /\ \A i \in 1..Len(b) : b[i].event = "serviceDisconnected"
    <3> DEFINE e == "serviceDisconnected"
    <3>1. e \in Reports \union Messages /\ b = <<Block(e, About)>>
      BY DEF Messages
    <3> HIDE DEF e, b
    <3>2. b \in Seq(BlockType) /\ Len(b) = 1 /\ b[1].event = e
      BY <2>2, <3>1, OneBlock
    <3> QED
      BY <3>2 DEF e
  <2>4. /\ a \in Seq(BlockType) /\ \A i \in 1..Len(a) : a[i].event = "disconnected"
        /\ NoneConnected => 1 \in 1..Len(a)
    <3>1. CASE NoneConnected
      <4>1. a = <<Block("disconnected", "device")>>
        BY <3>1
      <4> QED
        BY <4>1, OneBlock DEF Messages
    <3>2. CASE ~NoneConnected
      <4>1. a = <<>>
        BY <3>2
      <4> QED
        BY <3>2, <4>1, EmptySeq
    <3> QED
      BY <3>1, <3>2
  <2> HIDE DEF a, b
  <2>5. /\ w \in Seq(BlockType)
        /\ \A k \in 1..Len(w) : w[k].event \in {"disconnected", "serviceDisconnected"}
    <3>1. w \in Seq(BlockType)
      BY <2>3, <2>4, ConcatProperties
    <3>2. ASSUME NEW k \in 1..Len(w)
          PROVE  w[k].event \in {"disconnected", "serviceDisconnected"}
      <4>1. \/ k \in 1..Len(a) /\ w[k] = a[k]
            \/ \E i \in 1..Len(b) : k = Len(a) + i /\ w[k] = b[i]
        BY <2>3, <2>4, Behind
      <4> QED
        BY <2>3, <2>4, <4>1
    <3> QED
      BY <3>1, <3>2
  <2>6. NoneConnected => Has(w, {"failed", "disconnected"})
    <3> SUFFICES ASSUME NoneConnected PROVE Has(w, {"failed", "disconnected"})
      OBVIOUS
    <3>1. 1 \in 1..Len(w) /\ w[1] = a[1]
      BY <2>3, <2>4, Behind
    <3>2. w[1].event = "disconnected"
      BY <2>4, <3>1
    <3> QED
      BY <3>1, <3>2 DEF Has
  <2> HIDE DEF w
  <2>7. ~Has(w, {"success"}) /\ ~Has(w, {"ready"})
    BY <2>5 DEF Has
  <2>8. AllDown => NoneConnected
    BY DEF AllDown, NoneConnected, TypeOK
  <2>9. RunMove(w)
    BY <1>1, <2>1, <2>6, <2>7, <2>8 DEF RunMove
  <2> QED
    BY <1>1, <1>2, <1>4, <2>1, <2>5, <2>9, RunHolds
<1>8. CASE Tell
  <2>1. PICK e \in Messages :
          /\ Head(mainQueue).event = e
          /\ told' = IF e \in {"ready", "failed", "disconnected"} THEN e ELSE told
    BY <1>8 DEF Tell, Runs
  <2>2. mainQueue' = Tail(mainQueue) \o <<>>
    BY <1>3, <1>8 DEF Tell
  <2>3. e # "disconnectedService"
    BY DEF Messages
  <2>4. RunMove(<<>>)
    BY <1>1, <1>3, <2>1, <2>2, <2>3 DEF RunMove
  <2>5. told' \in {"nothing", "ready", "failed", "disconnected"}
    BY <1>4, <2>1
  <2> QED
    BY <1>1, <1>2, <1>3, <2>4, <2>5, RunHolds
<1> QED
  BY <1>5, <1>6, <1>7, <1>8 DEF MainQueueRuns

LEMMA DeviceInit == Init => DeviceInv
<1> SUFFICES ASSUME Init PROVE DeviceInv
  OBVIOUS
<1>1. mainQueue \in Seq(BlockType) /\ Len(mainQueue) = 0
  BY EmptySeq DEF Init
<1>2. TypeOK
  <2>1. calls \in 0..MaxCalls
    BY DeviceAssumption DEF Init
  <2>2. conn \in [Services -> {"new", "off", "connecting", "open", "on"}]
    BY DEF Init
  <2>3. wanted \in BOOLEAN /\ services = {} /\ asleep = {} /\ observers \in Nat /\ waiting \in Nat
    BY DEF Init
  <2>4. told \in {"nothing", "ready", "failed", "disconnected"}
    BY DEF Init
  <2> QED
    BY <1>1, <2>1, <2>2, <2>3, <2>4 DEF TypeOK
<1>3. SleepersOld /\ UnwantedIdle
  BY DEF Init, SleepersOld, UnwantedIdle, Idle
<1>4. SuccessCovered /\ LossSettled
  BY <1>1 DEF Init, SuccessCovered, LossSettled, Settled, ReadyOvertaken
<1> QED
  BY <1>2, <1>3, <1>4 DEF DeviceInv

LEMMA DeviceInvariant == Spec => []DeviceInv
<1>1. ASSUME DeviceInv, [Next]_vars PROVE DeviceInv'
  <2> USE <1>1
  <2> SUFFICES Holds
    BY HoldsIsEnough
  <2>1. CASE Connect
    BY <2>1, ConnectHolds
  <2>2. CASE Disconnect \/ SSIDChanged
    BY <2>2, DisconnectsHold
  <2>3. CASE \E s \in Services : AddService(s)
    BY <2>3, AddHolds
  <2>4. CASE \E s \in Services : RemoveServiceWithId(s)
    BY <2>4, RemoveHolds
  <2>5. CASE \E s \in Services : ServiceDrops(s)
    BY <2>5, DropHolds
  <2>6. CASE \E s \in WebOs :
          \/ ServiceRegisters(s) \/ ServiceFails(s) \/ ServiceRefused(s)
          \/ ServiceSleeps(s) \/ SocketCloses(s)
    BY <2>6, ReportsHold
  <2>9. CASE \E s \in WebOs : ServiceOpens(s) \/ ServiceWakes(s) \/ ServiceReopens(s)
    BY <2>9, OpensHold
  <2>10. CASE UNCHANGED vars
    BY <2>10, StutterHolds
  <2>7. CASE MainQueueRuns
    BY <2>7, MainQueueHolds
  <2> QED
    BY <2>1, <2>2, <2>3, <2>4, <2>5, <2>6, <2>7, <2>9, <2>10 DEF Next
<1> QED
  BY <1>1, DeviceInit, PTL DEF Spec

-----------------------------------------------------------------------------
(* The theorems.                                                             *)

\* TypeOK: at most one service of a name is attached, and the main queue holds
\* blocks of services and messages only, for any number of calls.
THEOREM TypeCorrect == Spec => []TypeOK
<1>1. DeviceInv => TypeOK
  BY DEF DeviceInv
<1> QED
  BY <1>1, DeviceInvariant, PTL

\* DisconnectHolds: after disconnect, or a change of network, no service of the
\* device connects until connect is called or a service is sent a command, unless
\* disconnect passed one over that was connecting or closed in the background.
THEOREM DisconnectIsFinal == Spec => []DisconnectHolds
<1>1. DeviceInv => DisconnectHolds
  BY DEF DeviceInv, UnwantedIdle, DisconnectHolds, Idle, Up, TypeOK
<1> QED
  BY <1>1, DeviceInvariant, PTL

\* LastDropIsTold: however calls, losses and replacements of services and sockets
\* that are opened again mix with the blocks of the main queue, "ready" is not what
\* a delegate hears last of a device when no service is connected.
THEOREM ReadyIsTrue == Spec => []LastDropIsTold
<1>1. ASSUME DeviceInv PROVE LastDropIsTold
  <2> SUFFICES ASSUME mainQueue = <<>>, told = "ready", AllDown PROVE FALSE
    BY DEF LastDropIsTold, AllDown
  <2>1. Settled(mainQueue, told) /\ Len(mainQueue) = 0
    BY <1>1, EmptySeq DEF DeviceInv, LossSettled
  <2> QED
    BY <2>1 DEF Settled, Has
<1> QED
  BY <1>1, DeviceInvariant, PTL
=============================================================================
