------------------- MODULE WebOSTVServiceSocketClientProofs -------------------
(***************************************************************************)
(* Proofs about WebOSTVServiceSocketClient, for any commands and            *)
(* subscriptions, any number of calls, registrations and waiting blocks:    *)
(* every command is accounted for once and sent at most once, the client    *)
(* hears of the end of the socket it is connected over, subscriptions       *)
(* survive a sleep, and the client implements CommandChannel.               *)
(***************************************************************************)
EXTENDS WebOSTVServiceSocketClient, FiniteSetTheorems, SequenceTheorems, TLAPS

-----------------------------------------------------------------------------
(* The inductive invariant.  Its parts are stated of values, so that they    *)
(* can be shown of each new value of the main queue.                         *)

EndReports == {"didClose", "didFail", "didFailCertificate"}
Replies == {"response", "complete"}

\* In queue q of blocks: a block about c with one of the events E; at most one; a
\* block with one of the events E about anything.
Waits(q, c, E) == \E i \in 1..Len(q) : q[i].of = c /\ q[i].event \in E
Single(q, c, E) ==
    \A i, j \in 1..Len(q) :
      q[i].of = c /\ q[i].event \in E /\ q[j].of = c /\ q[j].event \in E => i = j
Has(q, E) == \E i \in 1..Len(q) : q[i].event \in E

\* Behind the report that the socket is open the report of its end waits.
OpenCovered(q) ==
    \A i \in 1..Len(q) : q[i].event = "didOpen" =>
      \E j \in 1..Len(q) : j > i /\ q[j].event \in EndReports

\* The connection.  A socket that is new or gone has no reports on their way; a
\* client without a socket waits for nothing; a socket that has ended has said so
\* to a client that is, or will be, connected over it.
Connection(sock, on, act, q) ==
    /\ sock \in {"nil", "connecting"} => ~Has(q, SocketEvents)
    /\ sock = "nil" => act = {}
    /\ sock \in {"closed", "gone"} => OpenCovered(q)
    /\ on => sock # "nil" /\ (sock \in {"closed", "gone"} => Has(q, EndReports))

\* Command c is in queue w of strings; at most once.
Queued(w, c) == \E i \in 1..Len(w) : w[i] = c
QueuedOnce(w, c) == \A i, j \in 1..Len(w) : w[i] = c /\ w[j] = c => i = j

\* Command c, with its outcome, its number of sends and of answers due: where its
\* callback is, where the command is, and that only what was sent is answered.
Accounted(c, act, w, out, n, du, q) ==
    /\ out = "issued" <=> (c \in act \/ Waits(q, c, Callbacks))
    /\ c \in act => ~Waits(q, c, Callbacks)
    /\ Single(q, c, Callbacks)
    /\ c \in act /\ n = 0 => Queued(w, c)
    /\ n > 0 => ~Queued(w, c)
    /\ QueuedOnce(w, c)
    /\ out = "idle" => n = 0 /\ ~Queued(w, c)
    /\ du > 0 \/ Waits(q, c, Replies) => n > 0

ConnectionSound == Connection(socket, connected, active, mainQueue)

CommandsSound ==
    \A c \in Commands : Accounted(c, active, queue, outcome[c], sends[c], due[c], mainQueue)

\* What a step that says nothing new of any command does to the queue of blocks,
\* and to the queue of strings.
KeepsCallbacks(q, p) ==
    \A c \in Commands : /\ Waits(p, c, Callbacks) <=> Waits(q, c, Callbacks)
                        /\ Single(q, c, Callbacks) => Single(p, c, Callbacks)
                        /\ Waits(p, c, Replies) => Waits(q, c, Replies)
KeepsCommands(w, v) ==
    \A c \in Commands : /\ Queued(v, c) <=> Queued(w, c)
                        /\ QueuedOnce(w, c) => QueuedOnce(v, c)

\* The inductive invariant.
ClientInv == TypeOK /\ ConnectionSound /\ CommandsSound

USE ClientAssumption

-----------------------------------------------------------------------------
(* The main queue.                                                           *)

\* A queue whose reports are orphaned: no report is left, the callbacks stay.
LEMMA OrphanedQueue ==
    ASSUME NEW q \in Seq(Blocks)
    PROVE  /\ Orphaned(q) \in Seq(Blocks)
           /\ ~Has(Orphaned(q), SocketEvents)
           /\ \A c : /\ Waits(Orphaned(q), c, Callbacks) <=> Waits(q, c, Callbacks)
                     /\ Single(q, c, Callbacks) => Single(Orphaned(q), c, Callbacks)
                     /\ Waits(Orphaned(q), c, Replies) => Waits(q, c, Replies)
<1> DEFINE o == Orphaned(q)
<1>1. Len(q) \in Nat /\ DOMAIN q = 1..Len(q) /\ \A i \in 1..Len(q) : q[i] \in Blocks
  BY LenProperties, ElementOfSeq
<1>2. Block("orphan", "socket") \in Blocks /\ Block("orphan", "socket").event = "orphan"
  BY DEF Block, Blocks
<1>3. o = [i \in 1..Len(q) |->
             IF q[i].event \in SocketEvents THEN Block("orphan", "socket") ELSE q[i]]
  BY <1>1 DEF Orphaned
<1> HIDE DEF o
<1>4. o \in Seq(Blocks) /\ Len(o) = Len(q)
  BY <1>1, <1>2, <1>3, IsASeq, LenProperties
<1>5. \A i \in 1..Len(q) :
        IF q[i].event \in SocketEvents THEN o[i].event = "orphan" ELSE o[i] = q[i]
  BY <1>2, <1>3
<1>6. ~Has(o, SocketEvents)
  BY <1>4, <1>5 DEF Has, SocketEvents
<1>7. \A i \in 1..Len(q) : o[i].event \in Callbacks \/ q[i].event \in Callbacks => o[i] = q[i]
  BY <1>5 DEF Callbacks, SocketEvents
<1>8. \A i \in 1..Len(q) : o[i].event \in Replies => o[i] = q[i]
  BY <1>5 DEF Replies
<1>9. ASSUME NEW c
      PROVE  /\ Waits(o, c, Callbacks) <=> Waits(q, c, Callbacks)
             /\ Single(q, c, Callbacks) => Single(o, c, Callbacks)
             /\ Waits(o, c, Replies) => Waits(q, c, Replies)
  <2>1. Waits(o, c, Callbacks) <=> Waits(q, c, Callbacks)
    BY <1>4, <1>7, Zenon DEF Waits
  <2>2. Single(q, c, Callbacks) => Single(o, c, Callbacks)
    BY <1>4, <1>7, Zenon DEF Single
  <2>3. Waits(o, c, Replies) => Waits(q, c, Replies)
    BY <1>4, <1>8, Zenon DEF Waits
  <2> QED
    BY <2>1, <2>2, <2>3
<1> QED
  BY <1>4, <1>6, <1>9 DEF o

\* Where the blocks of a longer queue come from.
LEMMA Behind ==
    ASSUME NEW q \in Seq(Blocks), NEW w \in Seq(Blocks)
    PROVE  /\ q \o w \in Seq(Blocks)
           /\ Len(q) \in Nat /\ Len(w) \in Nat /\ Len(q \o w) = Len(q) + Len(w)
           /\ \A i \in 1..Len(q) : i \in 1..Len(q \o w) /\ (q \o w)[i] = q[i]
           /\ \A i \in 1..Len(w) : /\ Len(q) + i \in 1..Len(q \o w)
                                   /\ (q \o w)[Len(q) + i] = w[i]
           /\ \A k \in 1..Len(q \o w) :
                \/ k \in 1..Len(q) /\ (q \o w)[k] = q[k]
                \/ \E i \in 1..Len(w) : k = Len(q) + i /\ (q \o w)[k] = w[i]
<1>1. /\ q \o w \in Seq(Blocks)
      /\ Len(q) \in Nat /\ Len(w) \in Nat /\ Len(q \o w) = Len(q) + Len(w)
      /\ \A i \in 1..Len(q) + Len(w) :
           (q \o w)[i] = IF i <= Len(q) THEN q[i] ELSE w[i - Len(q)]
  BY ConcatProperties, LenProperties
<1>2. \A i \in 1..Len(q) : i \in 1..Len(q \o w) /\ (q \o w)[i] = q[i]
  BY <1>1
<1>3. \A i \in 1..Len(w) : /\ Len(q) + i \in 1..Len(q \o w)
                           /\ (q \o w)[Len(q) + i] = w[i]
  BY <1>1
<1>4. ASSUME NEW k \in 1..Len(q \o w), k \notin 1..Len(q)
      PROVE  \E i \in 1..Len(w) : k = Len(q) + i /\ (q \o w)[k] = w[i]
  <2>1. k - Len(q) \in 1..Len(w) /\ k = Len(q) + (k - Len(q))
    BY <1>1, <1>4
  <2> QED
    BY <1>3, <2>1
<1> QED
  BY <1>1, <1>2, <1>3, <1>4

\* What waits in a longer queue.
LEMMA GrownQueue ==
    ASSUME NEW q \in Seq(Blocks), NEW w \in Seq(Blocks)
    PROVE  /\ q \o w \in Seq(Blocks)
           /\ \A c, E : Waits(q \o w, c, E) <=> Waits(q, c, E) \/ Waits(w, c, E)
           /\ \A c, E : Single(q, c, E) /\ Single(w, c, E) /\ ~(Waits(q, c, E) /\ Waits(w, c, E))
                        => Single(q \o w, c, E)
           /\ \A E : Has(q \o w, E) <=> Has(q, E) \/ Has(w, E)
           /\ OpenCovered(q) /\ ~Has(w, {"didOpen"}) => OpenCovered(q \o w)
<1>1. q \o w \in Seq(Blocks)
  BY Behind
<1> DEFINE g == q \o w
<1>b. /\ Len(q) \in Nat
      /\ \A i \in 1..Len(q) : i \in 1..Len(g) /\ g[i] = q[i]
      /\ \A i \in 1..Len(w) : Len(q) + i \in 1..Len(g) /\ g[Len(q) + i] = w[i]
      /\ \A k \in 1..Len(g) :
           \/ k \in 1..Len(q) /\ g[k] = q[k]
           \/ \E i \in 1..Len(w) : k = Len(q) + i /\ g[k] = w[i]
  BY Behind
<1> HIDE DEF g
<1>2. ASSUME NEW c, NEW E PROVE Waits(g, c, E) <=> Waits(q, c, E) \/ Waits(w, c, E)
  <2>1. Waits(g, c, E) => Waits(q, c, E) \/ Waits(w, c, E)
    BY <1>b, Zenon DEF Waits
  <2>2. Waits(q, c, E) => Waits(g, c, E)
    BY <1>b, Zenon DEF Waits
  <2>3. Waits(w, c, E) => Waits(g, c, E)
    BY <1>b, Zenon DEF Waits
  <2> QED
    BY <2>1, <2>2, <2>3
<1>3. ASSUME NEW c, NEW E, Single(q, c, E), Single(w, c, E), ~(Waits(q, c, E) /\ Waits(w, c, E))
      PROVE  Single(g, c, E)
  <2> SUFFICES ASSUME NEW i \in 1..Len(g), NEW j \in 1..Len(g),
                      g[i].of = c, g[i].event \in E, g[j].of = c, g[j].event \in E
               PROVE  i = j
    BY DEF Single
  <2>1. CASE Waits(q, c, E)
    <3>1. i \in 1..Len(q) /\ g[i] = q[i] /\ j \in 1..Len(q) /\ g[j] = q[j]
      BY <1>3, <1>b, <2>1, Zenon DEF Waits
    <3> QED
      BY <1>3, <3>1 DEF Single
  <2>2. CASE ~Waits(q, c, E)
    <3>1. PICK k \in 1..Len(w) : i = Len(q) + k /\ g[i] = w[k]
      BY <1>b, <2>2, Zenon DEF Waits
    <3>2. PICK l \in 1..Len(w) : j = Len(q) + l /\ g[j] = w[l]
      BY <1>b, <2>2, Zenon DEF Waits
    <3>3. k = l
      BY <1>3, <3>1, <3>2, Zenon DEF Single
    <3> QED
      BY <3>1, <3>2, <3>3
  <2> QED
    BY <2>1, <2>2
<1>4. ASSUME NEW E PROVE Has(g, E) <=> Has(q, E) \/ Has(w, E)
  <2>1. Has(g, E) => Has(q, E) \/ Has(w, E)
    BY <1>b, Zenon DEF Has
  <2>2. Has(q, E) => Has(g, E)
    BY <1>b, Zenon DEF Has
  <2>3. Has(w, E) => Has(g, E)
    BY <1>b, Zenon DEF Has
  <2> QED
    BY <2>1, <2>2, <2>3
<1>5. ASSUME OpenCovered(q), ~Has(w, {"didOpen"}) PROVE OpenCovered(g)
  <2> SUFFICES ASSUME NEW k \in 1..Len(g), g[k].event = "didOpen"
               PROVE  \E j \in 1..Len(g) : j > k /\ g[j].event \in EndReports
    BY DEF OpenCovered
  <2>1. k \in 1..Len(q) /\ q[k].event = "didOpen"
    BY <1>5, <1>b DEF Has
  <2>2. PICK j \in 1..Len(q) : j > k /\ q[j].event \in EndReports
    BY <1>5, <2>1 DEF OpenCovered
  <2> QED
    BY <2>2, <1>b
<1> QED
  BY <1>1, <1>2, <1>3, <1>4, <1>5 DEF g

\* A queue with a block behind it.
LEMMA AppendedQueue ==
    ASSUME NEW q \in Seq(Blocks), NEW b \in Blocks
    PROVE  /\ Append(q, b) \in Seq(Blocks)
           /\ \A c, E : Waits(Append(q, b), c, E) <=>
                          Waits(q, c, E) \/ (b.of = c /\ b.event \in E)
           /\ \A c, E : Single(q, c, E) /\ ~(Waits(q, c, E) /\ b.of = c /\ b.event \in E)
                        => Single(Append(q, b), c, E)
           /\ \A E : Has(Append(q, b), E) <=> Has(q, E) \/ b.event \in E
           /\ OpenCovered(q) /\ b.event # "didOpen" => OpenCovered(Append(q, b))
           /\ b.event \in EndReports => OpenCovered(Append(q, b))
<1> DEFINE w == <<b>>
<1>1. w \in Seq(Blocks) /\ Len(w) = 1 /\ w[1] = b
  OBVIOUS
<1>2. Append(q, b) = q \o w
  BY AppendIsConcat
<1>3. \A c, E : (Waits(w, c, E) <=> b.of = c /\ b.event \in E) /\ Single(w, c, E)
  BY <1>1 DEF Waits, Single
<1>4. \A E : Has(w, E) <=> b.event \in E
  BY <1>1 DEF Has
<1> HIDE DEF w
<1>5. ASSUME b.event \in EndReports PROVE OpenCovered(q \o w)
  <2>1. /\ Len(q) + 1 \in 1..Len(q \o w) /\ (q \o w)[Len(q) + 1] = b
        /\ Len(q) \in Nat /\ Len(q \o w) = Len(q) + 1
    <3>1. 1 \in 1..Len(w)
      BY <1>1
    <3>2. Len(q) \in Nat /\ Len(q \o w) = Len(q) + Len(w)
      BY <1>1, Behind
    <3>3. \A i \in 1..Len(w) : Len(q) + i \in 1..Len(q \o w) /\ (q \o w)[Len(q) + i] = w[i]
      BY <1>1, Behind, Zenon
    <3> QED
      BY <1>1, <3>1, <3>2, <3>3
  <2>2. b.event # "didOpen"
    BY <1>5 DEF EndReports
  <2> QED
    BY <1>5, <2>1, <2>2 DEF OpenCovered
<1>6. ~Has(w, {"didOpen"}) <=> b.event # "didOpen"
  BY <1>4
<1> QED
  BY <1>1, <1>2, <1>3, <1>4, <1>5, <1>6, GrownQueue

\* A queue whose head has run.
LEMMA ShrunkQueue ==
    ASSUME NEW q \in Seq(Blocks), q # <<>>
    PROVE  /\ Tail(q) \in Seq(Blocks) /\ Head(q) \in Blocks
           /\ \A c, E : Waits(q, c, E) <=>
                          Waits(Tail(q), c, E) \/ (Head(q).of = c /\ Head(q).event \in E)
           /\ \A c, E : Single(q, c, E) => Single(Tail(q), c, E)
           /\ \A c, E : Single(q, c, E) /\ Head(q).of = c /\ Head(q).event \in E
                        => ~Waits(Tail(q), c, E)
           /\ \A E : Has(q, E) <=> Has(Tail(q), E) \/ Head(q).event \in E
           /\ OpenCovered(q) => OpenCovered(Tail(q))
           /\ OpenCovered(q) /\ Head(q).event = "didOpen" => Has(Tail(q), EndReports)
<1> DEFINE t == Tail(q)
<1>1. /\ t \in Seq(Blocks) /\ Head(q) \in Blocks /\ Head(q) = q[1]
      /\ Len(q) \in Nat /\ Len(q) > 0 /\ Len(t) = Len(q) - 1
      /\ \A i \in 1..Len(t) : t[i] = q[i + 1]
  BY HeadTailProperties, EmptySeq, LenProperties
<1> HIDE DEF t
<1>2. /\ \A i \in 1..Len(t) : i + 1 \in 1..Len(q) /\ t[i] = q[i + 1]
      /\ \A i \in 1..Len(q) : i # 1 => i - 1 \in 1..Len(t) /\ t[i - 1] = q[i]
      /\ 1 \in 1..Len(q)
  BY <1>1
<1>3. ASSUME NEW c, NEW E
      PROVE  Waits(q, c, E) <=> Waits(t, c, E) \/ (Head(q).of = c /\ Head(q).event \in E)
  BY <1>1, <1>2 DEF Waits
<1>4. ASSUME NEW c, NEW E, Single(q, c, E)
      PROVE  /\ Single(t, c, E)
             /\ Head(q).of = c /\ Head(q).event \in E => ~Waits(t, c, E)
  <2>1. Single(t, c, E)
    BY <1>1, <1>2, <1>4 DEF Single
  <2>2. Head(q).of = c /\ Head(q).event \in E => ~Waits(t, c, E)
    BY <1>1, <1>2, <1>4 DEF Single, Waits
  <2> QED
    BY <2>1, <2>2
<1>5. ASSUME NEW E PROVE Has(q, E) <=> Has(t, E) \/ Head(q).event \in E
  BY <1>1, <1>2 DEF Has
<1>6. ASSUME OpenCovered(q) PROVE OpenCovered(t)
  <2> SUFFICES ASSUME NEW k \in 1..Len(t), t[k].event = "didOpen"
               PROVE  \E j \in 1..Len(t) : j > k /\ t[j].event \in EndReports
    BY DEF OpenCovered
  <2>1. PICK j \in 1..Len(q) : j > k + 1 /\ q[j].event \in EndReports
    BY <1>2, <1>6 DEF OpenCovered
  <2>2. j - 1 \in 1..Len(t) /\ t[j - 1] = q[j] /\ j - 1 > k
    BY <1>1, <1>2, <2>1
  <2> QED
    BY <2>1, <2>2
<1>7. ASSUME OpenCovered(q), Head(q).event = "didOpen" PROVE Has(t, EndReports)
  <2>1. PICK j \in 1..Len(q) : j > 1 /\ q[j].event \in EndReports
    BY <1>1, <1>2, <1>7 DEF OpenCovered
  <2>2. j - 1 \in 1..Len(t) /\ t[j - 1] = q[j]
    BY <1>2, <2>1
  <2> QED
    BY <2>1, <2>2 DEF Has
<1> QED
  BY <1>1, <1>3, <1>4, <1>5, <1>6, <1>7 DEF t

-----------------------------------------------------------------------------
(* What steps do to the callbacks and to the connection.                     *)

\* Keeping the callbacks composes.
LEMMA KeepsTwice ==
    ASSUME NEW q, NEW p, NEW r, KeepsCallbacks(q, p), KeepsCallbacks(p, r)
    PROVE  KeepsCallbacks(q, r)
BY DEF KeepsCallbacks

\* A queue, and the queue with its reports orphaned, hold the same callbacks.
LEMMA KeepsSame ==
    ASSUME NEW q
    PROVE  /\ KeepsCallbacks(q, q)
           /\ q \in Seq(Blocks) => KeepsCallbacks(q, Orphaned(q))
<1>1. KeepsCallbacks(q, q)
  BY DEF KeepsCallbacks
<1>2. ASSUME q \in Seq(Blocks) PROVE KeepsCallbacks(q, Orphaned(q))
  <2>1. \A c : /\ Waits(Orphaned(q), c, Callbacks) <=> Waits(q, c, Callbacks)
               /\ Single(q, c, Callbacks) => Single(Orphaned(q), c, Callbacks)
               /\ Waits(Orphaned(q), c, Replies) => Waits(q, c, Replies)
    BY <1>2, OrphanedQueue
  <2> DEFINE o == Orphaned(q)
  <2> HIDE DEF o
  <2>2. KeepsCallbacks(q, o)
    BY <2>1, Zenon DEF KeepsCallbacks, o
  <2> QED
    BY <2>2 DEF o
<1> QED
  BY <1>1, <1>2

\* A block that is no callback of a command has run, or is put behind the queue.
LEMMA KeepsRest ==
    ASSUME NEW e, NEW k, mainQueue \in Seq(Blocks), Runs(e, k)
    PROVE  /\ Rest \in Seq(Blocks) /\ mainQueue # <<>> /\ Head(mainQueue) = Block(e, k)
           /\ Block(e, k).event = e /\ Block(e, k).of = k /\ Block(e, k) \in Blocks
           /\ e \notin Callbacks \/ k \notin Commands => KeepsCallbacks(mainQueue, Rest)
           /\ e \notin EndReports =>
                \A sock, on, act : Connection(sock, on, act, mainQueue)
                                    => Connection(sock, on, act, Rest)
<1>1. mainQueue # <<>> /\ Head(mainQueue) = Block(e, k)
  BY DEF Runs
<1>2. Block(e, k).event = e /\ Block(e, k).of = k
  BY DEF Block
<1>3. Rest \in Seq(Blocks) /\ Block(e, k) \in Blocks
  BY <1>1, ShrunkQueue DEF Rest
<1>4. ASSUME e \notin Callbacks \/ k \notin Commands
      PROVE  KeepsCallbacks(mainQueue, Rest)
  BY <1>1, <1>2, <1>4, ShrunkQueue DEF Rest, KeepsCallbacks
<1>5. ASSUME NEW sock, NEW on, NEW act, e \notin EndReports,
             Connection(sock, on, act, mainQueue)
      PROVE  Connection(sock, on, act, Rest)
  BY <1>1, <1>2, <1>5, ShrunkQueue DEF Rest, Connection
<1> QED
  BY <1>1, <1>2, <1>3, <1>4, <1>5

LEMMA KeepsAppended ==
    ASSUME NEW q \in Seq(Blocks), NEW e, NEW k, Block(e, k) \in Blocks
    PROVE  /\ Append(q, Block(e, k)) \in Seq(Blocks)
           /\ Block(e, k).event = e /\ Block(e, k).of = k
           /\ k \notin Commands => KeepsCallbacks(q, Append(q, Block(e, k)))
           /\ e \notin SocketEvents =>
                \A sock, on, act : Connection(sock, on, act, q)
                                    => Connection(sock, on, act, Append(q, Block(e, k)))
<1>1. Block(e, k).event = e /\ Block(e, k).of = k
  BY DEF Block
<1>2. Append(q, Block(e, k)) \in Seq(Blocks)
  BY AppendedQueue
<1>3. ASSUME k \notin Commands PROVE KeepsCallbacks(q, Append(q, Block(e, k)))
  BY <1>1, <1>3, AppendedQueue DEF KeepsCallbacks
<1>4. ASSUME NEW sock, NEW on, NEW act, e \notin SocketEvents, Connection(sock, on, act, q)
      PROVE  Connection(sock, on, act, Append(q, Block(e, k)))
  <2>1. e # "didOpen"
    BY <1>4 DEF SocketEvents
  <2> QED
    BY <1>1, <1>4, <2>1, AppendedQueue DEF Connection
<1> QED
  BY <1>1, <1>2, <1>3, <1>4

\* Behind a new socket, whatever the client was, no report is left.
LEMMA NewConnection ==
    ASSUME NEW mq \in Seq(Blocks), NewSocket(mq)
    PROVE  /\ socket' = "connecting" /\ closeAsked' = FALSE /\ due' = NoDue
           /\ mainQueue' \in Seq(Blocks) /\ KeepsCallbacks(mq, mainQueue')
           /\ \A on, act : Connection(socket', on, act, mainQueue')
BY OrphanedQueue, KeepsSame DEF NewSocket, Connection

\* A step that says nothing new of any command.
LEMMA QuietStep ==
    ASSUME CommandsSound, UNCHANGED <<sends, outcome>>,
           KeepsCallbacks(mainQueue, mainQueue'), KeepsCommands(queue, queue'),
           \A c \in Commands : c \in active' <=> c \in active,
           \A c \in Commands : due'[c] > 0 => due[c] > 0 \/ sends[c] > 0
    PROVE  CommandsSound'
<1> SUFFICES ASSUME NEW c \in Commands
             PROVE  Accounted(c, active', queue', outcome'[c], sends'[c], due'[c], mainQueue')
  BY DEF CommandsSound
<1>1. Accounted(c, active, queue, outcome[c], sends[c], due[c], mainQueue)
  BY DEF CommandsSound
<1>2. /\ sends'[c] = sends[c] /\ outcome'[c] = outcome[c]
      /\ Waits(mainQueue', c, Callbacks) <=> Waits(mainQueue, c, Callbacks)
      /\ Single(mainQueue, c, Callbacks) => Single(mainQueue', c, Callbacks)
      /\ Waits(mainQueue', c, Replies) => Waits(mainQueue, c, Replies)
      /\ Queued(queue', c) <=> Queued(queue, c)
      /\ QueuedOnce(queue, c) => QueuedOnce(queue', c)
      /\ c \in active' <=> c \in active
      /\ due'[c] > 0 => due[c] > 0 \/ sends[c] > 0
  BY DEF KeepsCallbacks, KeepsCommands
<1> QED
  BY <1>1, <1>2 DEF Accounted

-----------------------------------------------------------------------------
(* The queue of strings.                                                     *)

LEMMA QueuedRange ==
    ASSUME NEW w \in Seq(Strings), NEW c
    PROVE  c \in Range(w) <=> Queued(w, c)
<1>1. DOMAIN w = 1..Len(w)
  BY LenProperties
<1> QED
  BY <1>1 DEF Range, Queued

\* Strings behind the queue.
LEMMA GrownCommands ==
    ASSUME NEW w \in Seq(Strings), NEW v \in Seq(Strings), NEW c
    PROVE  /\ w \o v \in Seq(Strings)
           /\ Queued(w \o v, c) <=> Queued(w, c) \/ Queued(v, c)
           /\ QueuedOnce(w, c) /\ ~Queued(v, c) => QueuedOnce(w \o v, c)
           /\ ~Queued(w, c) /\ QueuedOnce(v, c) => QueuedOnce(w \o v, c)
<1> DEFINE g == w \o v
<1>1. /\ g \in Seq(Strings)
      /\ Len(w) \in Nat /\ Len(v) \in Nat /\ Len(g) = Len(w) + Len(v)
      /\ \A i \in 1..Len(g) : g[i] = IF i <= Len(w) THEN w[i] ELSE v[i - Len(w)]
  BY ConcatProperties, LenProperties
<1> HIDE DEF g
<1>2. /\ \A i \in 1..Len(w) : i \in 1..Len(g) /\ g[i] = w[i]
      /\ \A i \in 1..Len(v) : Len(w) + i \in 1..Len(g) /\ g[Len(w) + i] = v[i]
  <2>1. \A i \in 1..Len(w) : i \in 1..Len(g) /\ g[i] = w[i]
    BY <1>1
  <2>2. ASSUME NEW i \in 1..Len(v)
        PROVE  Len(w) + i \in 1..Len(g) /\ g[Len(w) + i] = v[i]
    <3>1. Len(w) + i \in 1..Len(g) /\ ~(Len(w) + i <= Len(w)) /\ (Len(w) + i) - Len(w) = i
      BY <1>1
    <3> QED
      BY <1>1, <3>1
  <2> QED
    BY <2>1, <2>2
<1>3. \A k \in 1..Len(g) : \/ k \in 1..Len(w) /\ g[k] = w[k]
                           \/ k - Len(w) \in 1..Len(v) /\ g[k] = v[k - Len(w)]
  BY <1>1
<1>4. Queued(g, c) => Queued(w, c) \/ Queued(v, c)
  BY <1>3 DEF Queued
<1>5. Queued(w, c) \/ Queued(v, c) => Queued(g, c)
  BY <1>2, Zenon DEF Queued
<1>6. QueuedOnce(w, c) /\ ~Queued(v, c) => QueuedOnce(g, c)
  BY <1>3 DEF Queued, QueuedOnce
<1>7. ASSUME ~Queued(w, c), QueuedOnce(v, c) PROVE QueuedOnce(g, c)
  <2> SUFFICES ASSUME NEW i \in 1..Len(g), NEW j \in 1..Len(g), g[i] = c, g[j] = c
               PROVE  i = j
    BY DEF QueuedOnce
  <2>1. /\ i - Len(w) \in 1..Len(v) /\ v[i - Len(w)] = c
        /\ j - Len(w) \in 1..Len(v) /\ v[j - Len(w)] = c
    BY <1>3, <1>7 DEF Queued
  <2>2. i - Len(w) = j - Len(w)
    BY <1>7, <2>1 DEF QueuedOnce
  <2> QED
    BY <1>1, <2>2
<1> QED
  BY <1>1, <1>4, <1>5, <1>6, <1>7 DEF g

\* Strings of subscriptions behind the queue say nothing of any command.
LEMMA KeepsBehind ==
    ASSUME NEW w \in Seq(Strings), NEW v \in Seq(Strings),
           \A i \in 1..Len(v) : v[i] \in Subs \X {"subscribe", "unsubscribe"}
    PROVE  /\ w \o v \in Seq(Strings) /\ KeepsCommands(w, w \o v)
           /\ Commands \intersect Range(v) = {}
<1>1. \A c \in Commands : ~Queued(v, c)
  BY DEF Queued
<1> QED
  BY <1>1, GrownCommands, QueuedRange DEF KeepsCommands

\* The orders of a set list it whole, each member once.
LEMMA OrdersOfSet ==
    ASSUME NEW S, IsFiniteSet(S), NEW f \in SetToSeqs(S)
    PROVE  /\ f \in Seq(S) /\ DOMAIN f = 1..Len(f) /\ Len(f) \in Nat
           /\ \A i, j \in 1..Len(f) : f[i] = f[j] => i = j
           /\ \A x \in S : \E i \in 1..Len(f) : f[i] = x
           /\ S # {} => f # <<>>
<1> DEFINE n == Cardinality(S)
<1>1. n \in Nat
  BY FS_CardinalityType
<1>2. f \in [1..n -> S] /\ \A i, j \in 1..n : f[i] = f[j] => i = j
  BY DEF SetToSeqs
<1>3. f \in Injection(1..n, S)
  BY <1>2 DEF Injection, IsInjective
<1>4. IsFiniteSet(1..n) /\ Cardinality(1..n) = n
  BY <1>1, FS_Interval
<1>5. f \in Surjection(1..n, S)
  BY <1>1, <1>3, <1>4, FS_Injection
<1> HIDE DEF n
<1>6. f \in Seq(S) /\ Len(f) = n /\ DOMAIN f = 1..n
  BY <1>1, <1>2
<1>7. \A x \in S : \E i \in 1..Len(f) : f[i] = x
  BY <1>5, <1>6 DEF Surjection
<1> QED
  BY <1>1, <1>2, <1>6, <1>7

\* The saved subscriptions as strings, in any order.
LEMMA SavedStrings ==
    ASSUME NEW S \in SUBSET Subs, NEW f \in SetToSeqs(S)
    PROVE  LET ss == [i \in DOMAIN f |-> <<f[i], "subscribe">>]
           IN  /\ ss \in Seq(Strings)
               /\ \A i \in 1..Len(ss) : ss[i] \in Subs \X {"subscribe", "unsubscribe"}
<1> DEFINE ss == [i \in DOMAIN f |-> <<f[i], "subscribe">>]
<1>1. IsFiniteSet(S)
  BY FS_Subset
<1>2. /\ f \in Seq(S) /\ DOMAIN f = 1..Len(f) /\ Len(f) \in Nat
      /\ \A i \in 1..Len(f) : f[i] \in S
  BY <1>1, OrdersOfSet, ElementOfSeq
<1>3. \A i \in 1..Len(f) : <<f[i], "subscribe">> \in Subs \X {"subscribe", "unsubscribe"}
  BY <1>2
<1>4. \A i \in 1..Len(f) : <<f[i], "subscribe">> \in Strings
  BY <1>3 DEF Strings
<1>5. ss = [i \in 1..Len(f) |-> <<f[i], "subscribe">>]
  BY <1>2
<1> HIDE DEF ss
<1>6. ss \in Seq(Strings) /\ Len(ss) = Len(f)
  BY <1>2, <1>4, <1>5, IsASeq, LenProperties
<1> QED
  BY <1>3, <1>5, <1>6 DEF ss

\* The error callbacks of a failure: those of the commands held, each once.
LEMMA ErrorsOfFailure ==
    ASSUME TypeOK, NEW errors \in ErrorBlocks
    PROVE  /\ errors \in Seq(Blocks)
           /\ \A i \in 1..Len(errors) : errors[i].event = "error"
           /\ \A c \in Commands : /\ Waits(errors, c, Callbacks) <=> c \in active
                                  /\ Single(errors, c, Callbacks)
<1> DEFINE keys == active \union (IF regs > 0 THEN {"register"} ELSE {})
           more == IF regs > 0 THEN regs - 1 ELSE 0
<1>1. PICK s \in SetToSeqs(keys) :
        errors = [i \in 1..Len(s) |-> Block("error", s[i])]
                   \o [i \in 1..more |-> Block("error", "register")]
  BY DEF ErrorBlocks
<1>2. keys \subseteq Commands \union {"hello", "register"} /\ more \in Nat
  BY DEF TypeOK, Keys
<1>3. IsFiniteSet(keys)
  <2>1. IsFiniteSet({"hello"}) /\ IsFiniteSet({"register"})
    BY FS_Singleton
  <2>2. IsFiniteSet((Commands \union {"hello"}) \union {"register"})
    BY <2>1, FS_Union
  <2>3. (Commands \union {"hello"}) \union {"register"} = Commands \union {"hello", "register"}
    OBVIOUS
  <2> QED
    BY <1>2, <2>2, <2>3, FS_Subset
<1>k. \A c \in Commands : c \in keys <=> c \in active
  OBVIOUS
<1> HIDE DEF keys, more
<1>4. /\ s \in Seq(keys) /\ Len(s) \in Nat
      /\ \A i \in 1..Len(s) : s[i] \in keys
      /\ \A i, j \in 1..Len(s) : s[i] = s[j] => i = j
      /\ \A x \in keys : \E i \in 1..Len(s) : s[i] = x
  BY <1>3, OrdersOfSet, ElementOfSeq
<1> DEFINE q == [i \in 1..Len(s) |-> Block("error", s[i])]
           w == [i \in 1..more |-> Block("error", "register")]
<1>5. \A k \in Commands \union {"hello", "register"} :
        /\ Block("error", k) \in Blocks
        /\ Block("error", k).event = "error" /\ Block("error", k).of = k
  BY DEF Block, Blocks, Callbacks
<1>6. q \in Seq(Blocks) /\ Len(q) = Len(s) /\ \A i \in 1..Len(q) : q[i] = Block("error", s[i])
  <2>1. \A i \in 1..Len(s) : Block("error", s[i]) \in Blocks
    BY <1>2, <1>4, <1>5
  <2> QED
    BY <1>4, <2>1, IsASeq, LenProperties
<1>7. /\ w \in Seq(Blocks) /\ Len(w) = more
      /\ \A i \in 1..Len(w) : w[i] = Block("error", "register")
  BY <1>2, <1>5, IsASeq, LenProperties
<1>8. errors = q \o w
  BY <1>1
<1> HIDE DEF q, w
<1>9. \A i \in 1..Len(errors) : errors[i].event = "error"
  <2>1. \A i \in 1..Len(q) : q[i].event = "error"
    BY <1>2, <1>4, <1>5, <1>6
  <2>2. \A i \in 1..Len(w) : w[i].event = "error"
    BY <1>5, <1>7
  <2> QED
    <3>1. ASSUME NEW k \in 1..Len(q \o w) PROVE (q \o w)[k].event = "error"
      <4>1. \/ k \in 1..Len(q) /\ (q \o w)[k] = q[k]
            \/ \E i \in 1..Len(w) : k = Len(q) + i /\ (q \o w)[k] = w[i]
        BY <1>6, <1>7, Behind, Zenon
      <4> QED
        BY <2>1, <2>2, <4>1, Zenon
    <3> QED
      BY <1>8, <3>1
<1>10. ASSUME NEW c \in Commands
       PROVE  /\ Waits(errors, c, Callbacks) <=> c \in active
              /\ Single(errors, c, Callbacks)
  <2>1. \A i \in 1..Len(q) : q[i].of = s[i] /\ q[i].event = "error"
    BY <1>2, <1>4, <1>5, <1>6
  <2>2. "error" \in Callbacks
    BY DEF Callbacks
  <2>3. Waits(q, c, Callbacks) <=> c \in keys
    BY <1>4, <1>6, <2>1, <2>2 DEF Waits
  <2>4. Single(q, c, Callbacks)
    BY <1>4, <1>6, <2>1 DEF Single
  <2>5. c # "register"
    OBVIOUS
  <2>6. ~Waits(w, c, Callbacks) /\ Single(w, c, Callbacks)
    BY <1>5, <1>7, <2>5 DEF Waits, Single
  <2> QED
    BY <1>k, <1>6, <1>7, <1>8, <2>3, <2>4, <2>6, GrownQueue
<1> QED
  BY <1>6, <1>7, <1>8, <1>9, <1>10, GrownQueue

-----------------------------------------------------------------------------
(* The parts the handlers are made of.                                       *)

\* What the TV has to answer after [_socket send:].
LEMMA SendStep ==
    ASSUME TypeOK, NEW K, Send(K)
    PROVE  /\ due' \in [Commands \union {"hello", "register"} -> Nat]
           /\ \A c \in Commands : due'[c] > 0 => due[c] > 0 \/ c \in K
<1>1. /\ due \in [Commands \union {"hello", "register"} -> Nat]
      /\ due' = due \/ due' = [k \in DOMAIN due |-> IF k \in K THEN due[k] + 1 ELSE due[k]]
  BY DEF TypeOK, Send
<1> QED
  BY <1>1

LEMMA NothingDue ==
    /\ NoDue \in [Commands \union {"hello", "register"} -> Nat]
    /\ \A c \in Commands : ~(NoDue[c] > 0)
BY DEF NoDue

\* sendStringOverSocket: sends what it is given or queues it; it says nothing of
\* other commands, and leaves a sound connection, with a socket.
LEMMA SendStringsStep ==
    ASSUME TypeOK, NEW ss \in Seq(Strings), NEW flushed, NEW q \in Seq(Strings),
           NEW mq \in Seq(Blocks), SendStrings(ss, flushed, q, mq)
    PROVE  /\ socket' \in ReadyStates \union {"nil", "gone"} /\ closeAsked' \in BOOLEAN
           /\ due' \in [Commands \union {"hello", "register"} -> Nat]
           /\ queue' \in Seq(Strings) /\ mainQueue' \in Seq(Blocks)
           /\ queue' = IF socket = "open" THEN q ELSE q \o ss
           /\ KeepsCallbacks(mq, mainQueue')
           /\ \A on, act : Connection(socket, on, act, mq)
                             => Connection(socket', on, act, mainQueue')
           /\ socket' = "nil" => ss = <<>> /\ socket = "nil"
           /\ \A c \in Commands : due'[c] > 0 =>
                due[c] > 0 \/ (socket = "open" /\ (c \in flushed \/ c \in Range(ss)))
<1> USE ConcatProperties
<1>t. /\ socket \in ReadyStates \union {"nil", "gone"} /\ closeAsked \in BOOLEAN
      /\ due \in [Commands \union {"hello", "register"} -> Nat]
  BY DEF TypeOK
<1>1. CASE /\ socket = "open"
           /\ Send(flushed \union (Commands \intersect Range(ss)))
           /\ queue' = q /\ mainQueue' = mq
           /\ UNCHANGED <<socket, closeAsked>>
  <2>1. /\ due' \in [Commands \union {"hello", "register"} -> Nat]
        /\ \A c \in Commands : due'[c] > 0 =>
             due[c] > 0 \/ c \in flushed \union (Commands \intersect Range(ss))
    BY <1>1, SendStep
  <2>2. KeepsCallbacks(mq, mainQueue')
    BY <1>1, KeepsSame
  <2> QED
    BY <1>t, <1>1, <2>1, <2>2
<1>2. CASE /\ socket # "open" /\ (ss = <<>> \/ socket \notin {"nil", "closed"})
           /\ queue' = q \o ss /\ mainQueue' = mq
           /\ UNCHANGED sockVars
  <2>1. KeepsCallbacks(mq, mainQueue')
    BY <1>2, KeepsSame
  <2>2. UNCHANGED <<socket, closeAsked, due>>
    BY <1>2 DEF sockVars
  <2> QED
    BY <1>t, <1>2, <2>1, <2>2
<1>3. CASE /\ socket \in {"nil", "closed"} /\ ss # <<>>
           /\ queue' = q \o ss
           /\ NewSocket(mq)
  <2>1. /\ socket' = "connecting" /\ closeAsked' = FALSE /\ due' = NoDue
        /\ mainQueue' \in Seq(Blocks) /\ KeepsCallbacks(mq, mainQueue')
        /\ \A on, act : Connection(socket', on, act, mainQueue')
    BY <1>3, NewConnection
  <2>2. socket' \in ReadyStates
    BY <2>1 DEF ReadyStates
  <2> QED
    BY <1>3, <2>1, <2>2, NothingDue
<1> QED
  BY <1>1, <1>2, <1>3 DEF SendStrings

\* Opening the socket says nothing of any command and leaves a sound connection.
LEMMA OpenSocketStep ==
    ASSUME TypeOK, NEW mq \in Seq(Blocks), OpenSocket(mq)
    PROVE  /\ socket' \in ReadyStates \union {"nil", "gone"} /\ closeAsked' \in BOOLEAN
           /\ due' \in [Commands \union {"hello", "register"} -> Nat]
           /\ connected' \in BOOLEAN /\ active' \subseteq Keys /\ mainQueue' \in Seq(Blocks)
           /\ KeepsCallbacks(mq, mainQueue')
           /\ Connection(socket, connected, active, mq)
                => Connection(socket', connected', active', mainQueue')
           /\ \A c \in Commands : c \in active' <=> c \in active
           /\ \A c \in Commands : due'[c] > 0 => due[c] > 0
<1>t. /\ socket \in ReadyStates \union {"nil", "gone"} /\ closeAsked \in BOOLEAN
      /\ due \in [Commands \union {"hello", "register"} -> Nat]
      /\ connected \in BOOLEAN /\ active \subseteq Keys
  BY DEF TypeOK
<1>1. CASE socket = "open" /\ HelloTv(mq)
  <2>1. /\ connected' = TRUE /\ active' = active \union {"hello"} /\ Send({"hello"})
        /\ mainQueue' = mq /\ UNCHANGED <<socket, closeAsked>>
    BY <1>1 DEF HelloTv
  <2>2. /\ due' \in [Commands \union {"hello", "register"} -> Nat]
        /\ \A c \in Commands : due'[c] > 0 => due[c] > 0 \/ c \in {"hello"}
    BY <2>1, SendStep
  <2>3. KeepsCallbacks(mq, mainQueue')
    BY <2>1, KeepsSame
  <2>4. Connection(socket', connected', active', mainQueue')
    BY <1>1, <2>1 DEF Connection
  <2>5. active' \subseteq Keys
    BY <1>t, <2>1 DEF Keys
  <2> QED
    BY <1>t, <2>1, <2>2, <2>3, <2>4, <2>5
<1>2. CASE /\ socket = "connecting"
           /\ mainQueue' = mq
           /\ UNCHANGED <<sockVars, connected, active>>
  <2>1. UNCHANGED <<socket, closeAsked, due, connected, active>>
    BY <1>2 DEF sockVars
  <2>2. KeepsCallbacks(mq, mainQueue')
    BY <1>2, KeepsSame
  <2> QED
    BY <1>t, <1>2, <2>1, <2>2
<1>3. CASE /\ socket \notin {"open", "connecting"}
           /\ NewSocket(mq)
           /\ UNCHANGED <<connected, active>>
  <2>1. /\ socket' = "connecting" /\ closeAsked' = FALSE /\ due' = NoDue
        /\ mainQueue' \in Seq(Blocks) /\ KeepsCallbacks(mq, mainQueue')
        /\ \A on, act : Connection(socket', on, act, mainQueue')
    BY <1>3, NewConnection
  <2>2. socket' \in ReadyStates
    BY <2>1 DEF ReadyStates
  <2> QED
    BY <1>t, <1>3, <2>1, <2>2, NothingDue
<1> QED
  BY <1>1, <1>2, <1>3 DEF OpenSocket

\* Nothing changes for the commands but, perhaps, what is due.
LEMMA KeepsQueue == ASSUME NEW w PROVE KeepsCommands(w, w)
BY DEF KeepsCommands

-----------------------------------------------------------------------------
(* The invariant holds initially, and each action keeps it.                  *)

LEMMA ClientInitially == Init => ClientInv
<1> SUFFICES ASSUME Init PROVE ClientInv
  OBVIOUS
<1>1. mainQueue = <<>> /\ Len(mainQueue) = 0 /\ queue = <<>> /\ Len(queue) = 0
  BY DEF Init
<1>2. TypeOK
  <2>1. mainQueue \in Seq(Blocks) /\ queue \in Seq(Strings)
    BY <1>1
  <2>2. /\ sends \in [Commands -> Nat]
        /\ outcome \in [Commands -> {"idle", "issued", "answered", "failed", "dropped"}]
        /\ due \in [Commands \union {"hello", "register"} -> Nat]
    BY NothingDue DEF Init
  <2>3. /\ active \subseteq Keys /\ resting \subseteq subscribed /\ regs \in Nat
        /\ subscribed \subseteq Subs /\ saved \subseteq Subs /\ calls \in 0..MaxCalls
    BY DEF Init
  <2>4. /\ closeAsked \in BOOLEAN /\ connected \in BOOLEAN /\ clientKey \in BOOLEAN
        /\ raised \in BOOLEAN /\ asleep \in BOOLEAN /\ observing \in BOOLEAN
        /\ reconnectOnWake \in BOOLEAN /\ socket \in ReadyStates \union {"nil", "gone"}
    BY Zenon DEF Init
  <2> QED
    BY <2>1, <2>2, <2>3, <2>4, Zenon DEF TypeOK
<1>3. ConnectionSound
  BY <1>1 DEF Init, ConnectionSound, Connection, Has, OpenCovered
<1>4. CommandsSound
  <2> SUFFICES ASSUME NEW c \in Commands
               PROVE  Accounted(c, active, queue, outcome[c], sends[c], due[c], mainQueue)
    BY DEF CommandsSound
  <2>1. outcome[c] = "idle" /\ sends[c] = 0 /\ ~(due[c] > 0) /\ c \notin active
    BY NothingDue DEF Init
  <2>2. /\ \A E : ~Waits(mainQueue, c, E)
        /\ \A E : Single(mainQueue, c, E)
        /\ ~Queued(queue, c) /\ QueuedOnce(queue, c)
    BY <1>1 DEF Waits, Single, Queued, QueuedOnce
  <2> QED
    BY <2>1, <2>2 DEF Accounted
<1> QED
  BY <1>2, <1>3, <1>4 DEF ClientInv

LEMMA SocketOpensInv ==
    ASSUME ClientInv, calls' \in 0..MaxCalls, SocketOpens PROVE ClientInv'
<1> USE DEF ClientInv
<1>1. Block("didOpen", "socket") \in Blocks
  BY DEF Block, Blocks, SocketEvents
<1>2. /\ mainQueue \in Seq(Blocks) /\ socket = "connecting" /\ socket' = "open"
      /\ mainQueue' = Append(mainQueue, Block("didOpen", "socket"))
      /\ UNCHANGED <<due, queue, active, sends, outcome>>
  BY DEF SocketOpens, TypeOK, histVars
<1>3. mainQueue' \in Seq(Blocks) /\ KeepsCallbacks(mainQueue, mainQueue')
  BY <1>1, <1>2, KeepsAppended
<1>4. TypeOK'
  BY <1>2, <1>3 DEF TypeOK, SocketOpens, subVars, appVars, histVars, ReadyStates
<1>5. ConnectionSound'
  BY <1>2 DEF ConnectionSound, Connection
<1>6. CommandsSound'
  BY <1>2, <1>3, KeepsQueue, QuietStep
<1> QED
  BY <1>4, <1>5, <1>6

LEMMA SocketClosesInv ==
    ASSUME ClientInv, calls' \in 0..MaxCalls, SocketCloses PROVE ClientInv'
<1> USE DEF ClientInv
<1>1. /\ socket' = "closing" /\ due' = NoDue /\ socket # "nil"
      /\ UNCHANGED <<queue, active, mainQueue, sends, outcome>>
  BY DEF SocketCloses, histVars
<1>2. TypeOK'
  BY <1>1, NothingDue DEF TypeOK, SocketCloses, subVars, appVars, histVars, ReadyStates
<1>3. ConnectionSound'
  BY <1>1 DEF ConnectionSound, Connection
<1>4. CommandsSound'
  BY <1>1, KeepsQueue, KeepsSame, NothingDue, QuietStep
<1> QED
  BY <1>2, <1>3, <1>4

\* The report of the end of a socket goes behind every report that it is open.
LEMMA EndReported ==
    ASSUME mainQueue \in Seq(Blocks), NEW e \in EndReports, NEW sock \in {"closed", "gone"},
           NEW on, NEW act
    PROVE  LET q == Append(mainQueue, Block(e, "socket"))
           IN  /\ q \in Seq(Blocks) /\ KeepsCallbacks(mainQueue, q)
               /\ Connection(sock, on, act, q)
<1> DEFINE q == Append(mainQueue, Block(e, "socket"))
<1>1. Block(e, "socket") \in Blocks /\ Block(e, "socket").event = e
  BY DEF Block, Blocks, SocketEvents, EndReports
<1>2. q \in Seq(Blocks) /\ KeepsCallbacks(mainQueue, q)
  BY <1>1, KeepsAppended
<1>3. OpenCovered(q) /\ Has(q, EndReports)
  BY <1>1, AppendedQueue
<1>4. Connection(sock, on, act, q)
  BY <1>3 DEF Connection
<1> QED
  BY <1>2, <1>4

LEMMA SocketReportsCloseInv ==
    ASSUME ClientInv, calls' \in 0..MaxCalls, SocketReportsClose PROVE ClientInv'
<1> USE DEF ClientInv
<1>1. /\ mainQueue \in Seq(Blocks) /\ socket' = "gone"
      /\ mainQueue' = Append(mainQueue, Block("didClose", "socket"))
      /\ UNCHANGED <<due, connected, queue, active, sends, outcome>>
  BY DEF SocketReportsClose, TypeOK, histVars
<1>2. /\ mainQueue' \in Seq(Blocks) /\ KeepsCallbacks(mainQueue, mainQueue')
      /\ Connection(socket', connected', active', mainQueue')
  BY <1>1, EndReported DEF EndReports
<1>3. TypeOK'
  BY <1>1, <1>2 DEF TypeOK, SocketReportsClose, subVars, appVars, histVars
<1>4. CommandsSound'
  BY <1>1, <1>2, KeepsQueue, QuietStep
<1> QED
  BY <1>2, <1>3, <1>4 DEF ConnectionSound

LEMMA SocketEndsInv ==
    ASSUME ClientInv, calls' \in 0..MaxCalls, SocketEnds PROVE ClientInv'
<1> USE DEF ClientInv
<1>1. PICK e \in EndReports : mainQueue' = Append(mainQueue, Block(e, "socket"))
  BY DEF SocketEnds, EndReports
<1>2. /\ mainQueue \in Seq(Blocks) /\ socket' = "closed" /\ due' = NoDue
      /\ UNCHANGED <<connected, queue, active, sends, outcome>>
  BY DEF SocketEnds, TypeOK, histVars
<1>3. /\ mainQueue' \in Seq(Blocks) /\ KeepsCallbacks(mainQueue, mainQueue')
      /\ Connection(socket', connected', active', mainQueue')
  BY <1>1, <1>2, EndReported
<1>4. TypeOK'
  BY <1>2, <1>3, NothingDue DEF TypeOK, SocketEnds, subVars, appVars, histVars, ReadyStates
<1>5. CommandsSound'
  BY <1>2, <1>3, KeepsQueue, NothingDue, QuietStep
<1> QED
  BY <1>3, <1>4, <1>5 DEF ConnectionSound

\* An answer is only given to what was sent, so that only a command that was given
\* to a socket is said to be complete.
LEMMA TvAnswersInv ==
    ASSUME ClientInv, calls' \in 0..MaxCalls, TvAnswers PROVE ClientInv'
<1> USE DEF ClientInv
<1>k. PICK k \in DOMAIN due : \E e \in Answers(k) :
        /\ due[k] > 0
        /\ due' = IF e = "prompt" THEN due ELSE [due EXCEPT ![k] = @ - 1]
        /\ mainQueue' = Append(mainQueue, Block(e, k))
  BY DEF TvAnswers
<1>1. PICK e \in Answers(k) :
        /\ due[k] > 0
        /\ due' = IF e = "prompt" THEN due ELSE [due EXCEPT ![k] = @ - 1]
        /\ mainQueue' = Append(mainQueue, Block(e, k))
  BY <1>k
<1>2. /\ mainQueue \in Seq(Blocks) /\ due \in [Commands \union {"hello", "register"} -> Nat]
      /\ k \in Commands \union {"hello", "register"}
      /\ socket = "open" /\ UNCHANGED <<socket, connected, queue, active, sends, outcome>>
  BY DEF TvAnswers, TypeOK, histVars
<1>3. e \in SocketEvents /\ (e = "response" => k \in Commands)
  BY <1>2 DEF Answers, SocketEvents
<1>4. Block(e, k) \in Blocks /\ Block(e, k).event = e /\ Block(e, k).of = k
  BY <1>2, <1>3 DEF Block, Blocks
<1>5. due' \in [Commands \union {"hello", "register"} -> Nat]
  BY <1>1, <1>2
<1>6. \A c \in Commands : due'[c] > 0 => due[c] > 0
  BY <1>1, <1>2
<1>7. mainQueue' \in Seq(Blocks)
  BY <1>1, <1>2, <1>4, AppendedQueue
<1>8. TypeOK'
  BY <1>2, <1>5, <1>7 DEF TypeOK, TvAnswers, subVars, appVars, histVars
<1>9. ConnectionSound'
  BY <1>2 DEF ConnectionSound, Connection
<1>10. CommandsSound'
  <2> SUFFICES ASSUME NEW c \in Commands
               PROVE  Accounted(c, active', queue', outcome'[c], sends'[c], due'[c], mainQueue')
    BY DEF CommandsSound
  <2>1. Accounted(c, active, queue, outcome[c], sends[c], due[c], mainQueue)
    BY DEF CommandsSound
  <2>2. e \notin Callbacks
    BY <1>3 DEF SocketEvents, Callbacks
  <2>3. /\ Waits(mainQueue', c, Callbacks) <=> Waits(mainQueue, c, Callbacks)
        /\ Single(mainQueue, c, Callbacks) => Single(mainQueue', c, Callbacks)
        /\ Waits(mainQueue', c, Replies) => Waits(mainQueue, c, Replies) \/ k = c
    BY <1>1, <1>2, <1>4, <2>2, AppendedQueue
  <2>4. k = c => due[c] > 0
    BY <1>1
  <2> QED
    BY <1>2, <1>6, <2>1, <2>3, <2>4 DEF Accounted
<1> QED
  BY <1>8, <1>9, <1>10

LEMMA ConnectInv ==
    ASSUME ClientInv, calls' \in 0..MaxCalls, Connect PROVE ClientInv'
<1> USE DEF ClientInv
<1>1. OpenSocket(mainQueue) /\ mainQueue \in Seq(Blocks) /\ UNCHANGED <<queue, sends, outcome>>
  BY DEF Connect, TypeOK, histVars
<1>2. /\ socket' \in ReadyStates \union {"nil", "gone"} /\ closeAsked' \in BOOLEAN
      /\ due' \in [Commands \union {"hello", "register"} -> Nat]
      /\ connected' \in BOOLEAN /\ active' \subseteq Keys /\ mainQueue' \in Seq(Blocks)
      /\ KeepsCallbacks(mainQueue, mainQueue')
      /\ Connection(socket, connected, active, mainQueue)
           => Connection(socket', connected', active', mainQueue')
      /\ \A c \in Commands : c \in active' <=> c \in active
      /\ \A c \in Commands : due'[c] > 0 => due[c] > 0
  BY <1>1, OpenSocketStep
<1>3. TypeOK'
  BY <1>2 DEF TypeOK, Connect, subVars, appVars, histVars
<1>4. CommandsSound'
  BY <1>1, <1>2, KeepsQueue, QuietStep
<1> QED
  BY <1>2, <1>3, <1>4 DEF ConnectionSound

LEMMA WakeInv ==
    ASSUME ClientInv, calls' \in 0..MaxCalls, Wake PROVE ClientInv'
<1> USE DEF ClientInv
<1>1. mainQueue \in Seq(Blocks) /\ UNCHANGED <<queue, sends, outcome>>
  BY DEF Wake, TypeOK, histVars
<1>2. CASE observing /\ reconnectOnWake
  <2>1. OpenSocket(mainQueue) /\ reconnectOnWake' = FALSE
    BY <1>2 DEF Wake
  <2>2. /\ socket' \in ReadyStates \union {"nil", "gone"} /\ closeAsked' \in BOOLEAN
        /\ due' \in [Commands \union {"hello", "register"} -> Nat]
        /\ connected' \in BOOLEAN /\ active' \subseteq Keys /\ mainQueue' \in Seq(Blocks)
        /\ KeepsCallbacks(mainQueue, mainQueue')
        /\ Connection(socket, connected, active, mainQueue)
             => Connection(socket', connected', active', mainQueue')
        /\ \A c \in Commands : c \in active' <=> c \in active
        /\ \A c \in Commands : due'[c] > 0 => due[c] > 0
    BY <1>1, <2>1, OpenSocketStep
  <2>3. TypeOK'
    BY <2>1, <2>2 DEF TypeOK, Wake, subVars, histVars
  <2>4. CommandsSound'
    BY <1>1, <2>2, KeepsQueue, QuietStep
  <2> QED
    BY <2>2, <2>3, <2>4 DEF ConnectionSound
<1>3. CASE ~(observing /\ reconnectOnWake)
  <2>1. UNCHANGED <<socket, closeAsked, due, mainQueue, connected, active, reconnectOnWake>>
    BY <1>3 DEF Wake, sockVars
  <2>2. TypeOK'
    BY <2>1 DEF TypeOK, Wake, subVars, histVars
  <2>3. CommandsSound'
    BY <1>1, <2>1, KeepsSame, KeepsQueue, QuietStep
  <2> QED
    BY <2>1, <2>2, <2>3 DEF ConnectionSound
<1> QED
  BY <1>2, <1>3

\* disconnectWithError: only stops the client; what waits keeps waiting.
LEMMA DisconnectStep ==
    ASSUME TypeOK, NEW r, DisconnectWithError(r)
    PROVE  /\ observing' \in BOOLEAN /\ connected' = FALSE /\ closeAsked' \in BOOLEAN
           /\ subscribed' = {} /\ resting' = {}
           /\ \A q : Connection(socket, connected, active, q)
                       => Connection(socket, connected', active, q)
BY DEF TypeOK, DisconnectWithError, Connection

LEMMA DisconnectInv ==
    ASSUME ClientInv, calls' \in 0..MaxCalls, Disconnect PROVE ClientInv'
<1> USE DEF ClientInv
<1>1. /\ DisconnectWithError(reconnectOnWake)
      /\ UNCHANGED <<socket, due, queue, active, mainQueue, sends, outcome>>
  BY DEF Disconnect, histVars
<1>2. /\ observing' \in BOOLEAN /\ connected' = FALSE /\ closeAsked' \in BOOLEAN
      /\ subscribed' = {} /\ resting' = {}
      /\ Connection(socket, connected, active, mainQueue)
           => Connection(socket, connected', active, mainQueue)
  BY <1>1, DisconnectStep
<1>3. TypeOK'
  BY <1>2 DEF TypeOK, Disconnect, histVars
<1>4. ConnectionSound'
  BY <1>1, <1>2 DEF ConnectionSound
<1>5. CommandsSound'
  BY <1>1, KeepsSame, KeepsQueue, QuietStep
<1> QED
  BY <1>3, <1>4, <1>5

LEMMA SleepInv ==
    ASSUME ClientInv, calls' \in 0..MaxCalls, Sleep PROVE ClientInv'
<1> USE DEF ClientInv
<1>1. UNCHANGED <<socket, due, queue, active, mainQueue, sends, outcome>>
  BY DEF Sleep, histVars
<1>2. CommandsSound'
  BY <1>1, KeepsSame, KeepsQueue, QuietStep
<1>3. CASE observing /\ connected
  <2>1. reconnectOnWake' = TRUE /\ saved' = subscribed /\ DisconnectWithError(TRUE)
    BY <1>3 DEF Sleep
  <2>2. /\ observing' \in BOOLEAN /\ connected' = FALSE /\ closeAsked' \in BOOLEAN
        /\ subscribed' = {} /\ resting' = {}
        /\ Connection(socket, connected, active, mainQueue)
             => Connection(socket, connected', active, mainQueue)
    BY <2>1, DisconnectStep
  <2>3. TypeOK'
    BY <2>1, <2>2 DEF TypeOK, Sleep, histVars
  <2> QED
    BY <1>1, <1>2, <2>2, <2>3 DEF ConnectionSound
<1>4. CASE ~(observing /\ connected)
  <2>1. UNCHANGED <<reconnectOnWake, subVars, connected, closeAsked, observing>>
    BY <1>4 DEF Sleep
  <2>2. TypeOK'
    BY <2>1 DEF TypeOK, Sleep, subVars, histVars
  <2> QED
    BY <1>1, <1>2, <2>1, <2>2 DEF ConnectionSound
<1> QED
  BY <1>3, <1>4

\* A command that is issued is sent, or put in the queue: not both, and not again.
LEMMA SendCommandInv ==
    ASSUME ClientInv, calls' \in 0..MaxCalls, NEW d \in Commands, SendCommand(d)
    PROVE  ClientInv'
<1> USE DEF ClientInv
<1>1. /\ mainQueue \in Seq(Blocks) /\ queue \in Seq(Strings)
      /\ sends \in [Commands -> Nat]
      /\ outcome \in [Commands -> {"idle", "issued", "answered", "failed", "dropped"}]
      /\ SendStrings(<<d>>, {}, queue, mainQueue)
      /\ outcome[d] = "idle" /\ outcome' = [outcome EXCEPT ![d] = "issued"]
      /\ active' = active \union {d}
      /\ sends' = [c \in Commands |-> IF c \in (IF socket = "open" THEN {d} ELSE {})
                                        THEN sends[c] + 1 ELSE sends[c]]
  BY DEF SendCommand, HandedOver, TypeOK
<1>s. \A c \in Commands : sends'[c] = IF socket = "open" /\ c = d THEN sends[c] + 1 ELSE sends[c]
  BY <1>1
<1> DEFINE ss == <<d>>
<1>2. ss \in Seq(Strings) /\ ss # <<>> /\ Len(ss) = 1 /\ ss[1] = d
  BY DEF Strings
<1> HIDE DEF ss
<1>3. \A c : (Queued(ss, c) <=> c = d) /\ QueuedOnce(ss, c) /\ (c \in Range(ss) <=> c = d)
  BY <1>2, QueuedRange DEF Queued, QueuedOnce
<1>4. /\ socket' \in ReadyStates \union {"nil", "gone"} /\ closeAsked' \in BOOLEAN
      /\ due' \in [Commands \union {"hello", "register"} -> Nat]
      /\ queue' \in Seq(Strings) /\ mainQueue' \in Seq(Blocks)
      /\ queue' = IF socket = "open" THEN queue ELSE queue \o ss
      /\ KeepsCallbacks(mainQueue, mainQueue')
      /\ \A on, act : Connection(socket, on, act, mainQueue)
                        => Connection(socket', on, act, mainQueue')
      /\ socket' = "nil" => ss = <<>> /\ socket = "nil"
      /\ \A c \in Commands : due'[c] > 0 =>
           due[c] > 0 \/ (socket = "open" /\ (c \in {} \/ c \in Range(ss)))
  BY <1>1, <1>2, SendStringsStep DEF ss
<1>5. TypeOK'
  <2>1. sends' \in [Commands -> Nat]
    BY <1>1
  <2>2. outcome' \in [Commands -> {"idle", "issued", "answered", "failed", "dropped"}]
    BY <1>1
  <2>3. active' \subseteq Keys
    BY <1>1 DEF TypeOK, Keys
  <2> QED
    BY <1>4, <2>1, <2>2, <2>3 DEF TypeOK, SendCommand, subVars, appVars
<1>6. ConnectionSound'
  <2>1. Connection(socket', connected, active, mainQueue') /\ socket' # "nil"
    BY <1>2, <1>4 DEF ConnectionSound
  <2>2. connected' = connected
    BY DEF SendCommand
  <2> QED
    BY <2>1, <2>2 DEF ConnectionSound, Connection
<1>7. CommandsSound'
  <2> SUFFICES ASSUME NEW c \in Commands
               PROVE  Accounted(c, active', queue', outcome'[c], sends'[c], due'[c], mainQueue')
    BY DEF CommandsSound
  <2>1. Accounted(c, active, queue, outcome[c], sends[c], due[c], mainQueue)
    BY DEF CommandsSound
  <2>2. /\ Waits(mainQueue', c, Callbacks) <=> Waits(mainQueue, c, Callbacks)
        /\ Single(mainQueue, c, Callbacks) => Single(mainQueue', c, Callbacks)
        /\ Waits(mainQueue', c, Replies) => Waits(mainQueue, c, Replies)
    BY <1>4 DEF KeepsCallbacks
  <2>3. /\ Queued(queue', c) <=> Queued(queue, c) \/ (socket # "open" /\ c = d)
        /\ QueuedOnce(queue, c) /\ c # d => QueuedOnce(queue', c)
        /\ QueuedOnce(queue, c) /\ ~Queued(queue, c) => QueuedOnce(queue', c)
    BY <1>1, <1>2, <1>3, <1>4, GrownCommands
  <2>4. due'[c] > 0 => due[c] > 0 \/ (socket = "open" /\ c = d)
    BY <1>3, <1>4
  <2>5. c \in active' <=> c \in active \/ c = d
    BY <1>1
  <2>6. outcome'[c] = IF c = d THEN "issued" ELSE outcome[c]
    BY <1>1
  <2>7. sends[c] \in Nat
    BY <1>1
  <2>8. CASE c = d
    BY <1>1, <1>s, <2>1, <2>2, <2>3, <2>4, <2>5, <2>6, <2>7, <2>8 DEF Accounted
  <2>9. CASE c # d
    BY <1>s, <2>1, <2>2, <2>3, <2>4, <2>5, <2>6, <2>9 DEF Accounted
  <2> QED
    BY <2>8, <2>9
<1> QED
  BY <1>5, <1>6, <1>7

\* The string of a subscription, sent or queued.
LEMMA SubscriptionSent ==
    ASSUME ClientInv, NEW s \in Subs, NEW kind \in {"subscribe", "unsubscribe"},
           SendStrings(<< <<s, kind>> >>, {}, queue, mainQueue),
           UNCHANGED <<connected, active, sends, outcome>>
    PROVE  /\ socket' \in ReadyStates \union {"nil", "gone"} /\ closeAsked' \in BOOLEAN
           /\ due' \in [Commands \union {"hello", "register"} -> Nat]
           /\ queue' \in Seq(Strings) /\ mainQueue' \in Seq(Blocks)
           /\ ConnectionSound' /\ CommandsSound'
<1> USE DEF ClientInv
<1> DEFINE ss == << <<s, kind>> >>
<1>1. mainQueue \in Seq(Blocks) /\ queue \in Seq(Strings)
  BY DEF TypeOK
<1>2. Len(ss) = 1 /\ ss[1] = <<s, kind>> /\ <<s, kind>> \in Subs \X {"subscribe", "unsubscribe"}
  OBVIOUS
<1>3. ss \in Seq(Strings)
  BY DEF Strings
<1> HIDE DEF ss
<1>4. \A i \in 1..Len(ss) : ss[i] \in Subs \X {"subscribe", "unsubscribe"}
  BY <1>2
<1>5. /\ socket' \in ReadyStates \union {"nil", "gone"} /\ closeAsked' \in BOOLEAN
      /\ due' \in [Commands \union {"hello", "register"} -> Nat]
      /\ queue' \in Seq(Strings) /\ mainQueue' \in Seq(Blocks)
      /\ queue' = IF socket = "open" THEN queue ELSE queue \o ss
      /\ KeepsCallbacks(mainQueue, mainQueue')
      /\ \A on, act : Connection(socket, on, act, mainQueue)
                        => Connection(socket', on, act, mainQueue')
      /\ \A c \in Commands : due'[c] > 0 =>
           due[c] > 0 \/ (socket = "open" /\ (c \in {} \/ c \in Range(ss)))
  BY <1>1, <1>3, SendStringsStep DEF ss
<1>6. KeepsCommands(queue, queue') /\ Commands \intersect Range(ss) = {}
  BY <1>1, <1>3, <1>4, <1>5, KeepsBehind, KeepsQueue
<1>7. ConnectionSound'
  BY <1>5 DEF ConnectionSound
<1>8. CommandsSound'
  BY <1>5, <1>6, QuietStep
<1> QED
  BY <1>5, <1>7, <1>8

LEMMA AddSubscribeInv ==
    ASSUME ClientInv, calls' \in 0..MaxCalls, NEW s \in Subs, AddSubscribe(s)
    PROVE  ClientInv'
<1>1. /\ SendStrings(<< <<s, "subscribe">> >>, {}, queue, mainQueue)
      /\ UNCHANGED <<connected, active, sends, outcome>>
      /\ subscribed' = subscribed \union {s} /\ resting' = resting \ {s}
  BY DEF AddSubscribe, histVars
<1>2. /\ socket' \in ReadyStates \union {"nil", "gone"} /\ closeAsked' \in BOOLEAN
      /\ due' \in [Commands \union {"hello", "register"} -> Nat]
      /\ queue' \in Seq(Strings) /\ mainQueue' \in Seq(Blocks)
      /\ ConnectionSound' /\ CommandsSound'
  BY <1>1, SubscriptionSent
<1>3. TypeOK'
  BY <1>1, <1>2 DEF ClientInv, TypeOK, AddSubscribe, appVars
<1> QED
  BY <1>2, <1>3 DEF ClientInv

LEMMA UnsubscribeInv ==
    ASSUME ClientInv, calls' \in 0..MaxCalls, NEW s \in Subs, Unsubscribe(s)
    PROVE  ClientInv'
<1>1. UNCHANGED <<connected, active, sends, outcome>> /\ s \in subscribed /\ s \notin resting
  BY DEF Unsubscribe, histVars
<1>2. CASE /\ subscribed' = subscribed \ {s} /\ UNCHANGED resting
           /\ SendStrings(<< <<s, "unsubscribe">> >>, {}, queue, mainQueue)
  <2>1. /\ socket' \in ReadyStates \union {"nil", "gone"} /\ closeAsked' \in BOOLEAN
        /\ due' \in [Commands \union {"hello", "register"} -> Nat]
        /\ queue' \in Seq(Strings) /\ mainQueue' \in Seq(Blocks)
        /\ ConnectionSound' /\ CommandsSound'
    BY <1>1, <1>2, SubscriptionSent
  <2>2. resting' \subseteq subscribed'
    BY <1>1, <1>2 DEF ClientInv, TypeOK
  <2>u. UNCHANGED <<connected, active, regs, clientKey, saved, asleep, observing,
                    reconnectOnWake, raised, sends, outcome>>
    BY DEF Unsubscribe, appVars, histVars
  <2>3. TypeOK'
    BY <1>2, <2>1, <2>2, <2>u DEF ClientInv, TypeOK
  <2> QED
    BY <2>1, <2>3 DEF ClientInv
<1>3. CASE /\ resting' = resting \union {s}
           /\ UNCHANGED <<subscribed, queue, sockVars, mainQueue>>
  <2>1. UNCHANGED <<socket, closeAsked, due>>
    BY <1>3 DEF sockVars
  <2>2. TypeOK'
    BY <1>1, <1>3, <2>1 DEF ClientInv, TypeOK, Unsubscribe, appVars
  <2>3. ConnectionSound'
    BY <1>1, <1>3, <2>1 DEF ClientInv, ConnectionSound
  <2>4. CommandsSound'
    BY <1>1, <1>3, <2>1, KeepsSame, KeepsQueue, QuietStep DEF ClientInv
  <2> QED
    BY <2>2, <2>3, <2>4 DEF ClientInv
<1> QED
  BY <1>2, <1>3 DEF Unsubscribe

\* The socket is open, and the client greets the TV.  When the socket has ended in
\* the meantime, the report of that waits behind this one.
LEMMA WebSocketDidOpenInv ==
    ASSUME ClientInv, calls' \in 0..MaxCalls, WebSocketDidOpen PROVE ClientInv'
<1> USE DEF ClientInv
<1>1. /\ Runs("didOpen", "socket") /\ mainQueue \in Seq(Blocks)
      /\ connected' = TRUE /\ active' = active \union {"hello"} /\ Send({"hello"})
      /\ mainQueue' = Rest /\ UNCHANGED <<socket, closeAsked, queue, sends, outcome>>
  BY DEF WebSocketDidOpen, HelloTv, TypeOK, histVars
<1>2. /\ Rest \in Seq(Blocks) /\ mainQueue # <<>> /\ KeepsCallbacks(mainQueue, Rest)
      /\ Head(mainQueue).event = "didOpen"
      /\ Connection(socket, connected, active, Rest)
  BY <1>1, KeepsRest DEF ConnectionSound, Callbacks, EndReports
<1>3. /\ due' \in [Commands \union {"hello", "register"} -> Nat]
      /\ \A c \in Commands : due'[c] > 0 => due[c] > 0 \/ c \in {"hello"}
  BY <1>1, SendStep
<1>4. TypeOK'
  <2>1. active' \subseteq Keys
    BY <1>1 DEF TypeOK, Keys
  <2> QED
    BY <1>1, <1>2, <1>3, <2>1 DEF TypeOK, WebSocketDidOpen, subVars, appVars, histVars
<1>5. ConnectionSound'
  <2>1. Has(mainQueue, SocketEvents) /\ (OpenCovered(mainQueue) => Has(Rest, EndReports))
    BY <1>1, <1>2, ShrunkQueue DEF SocketEvents, Rest
  <2>2. /\ socket \notin {"nil", "connecting"}
        /\ socket \in {"closed", "gone"} => Has(Rest, EndReports) /\ OpenCovered(Rest)
    BY <1>2, <2>1 DEF ConnectionSound, Connection
  <2> QED
    BY <1>1, <2>2 DEF ConnectionSound, Connection
<1>6. CommandsSound'
  <2>1. \A c \in Commands : c \in active' <=> c \in active
    BY <1>1
  <2>2. \A c \in Commands : due'[c] > 0 => due[c] > 0
    BY <1>3
  <2> QED
    BY <1>1, <1>2, <2>1, <2>2, KeepsQueue, QuietStep
<1> QED
  BY <1>4, <1>5, <1>6

LEMMA OrphanedReportInv ==
    ASSUME ClientInv, calls' \in 0..MaxCalls, OrphanedReport PROVE ClientInv'
<1> USE DEF ClientInv
<1>1. /\ Runs("orphan", "socket") /\ mainQueue \in Seq(Blocks) /\ mainQueue' = Rest
      /\ UNCHANGED <<socket, closeAsked, due, connected, queue, active, sends, outcome>>
  BY DEF OrphanedReport, TypeOK, sockVars, histVars
<1>2. /\ mainQueue' \in Seq(Blocks) /\ KeepsCallbacks(mainQueue, mainQueue')
      /\ Connection(socket, connected, active, mainQueue')
  BY <1>1, KeepsRest DEF ConnectionSound, Callbacks, EndReports
<1>3. TypeOK'
  BY <1>1, <1>2 DEF TypeOK, OrphanedReport, subVars, appVars, histVars
<1>4. ConnectionSound'
  BY <1>1, <1>2 DEF ConnectionSound
<1>5. CommandsSound'
  BY <1>1, <1>2, KeepsQueue, QuietStep
<1> QED
  BY <1>3, <1>4, <1>5

\* The close drops the callbacks held, and with them the commands.
LEMMA WebSocketDidCloseInv ==
    ASSUME ClientInv, calls' \in 0..MaxCalls, WebSocketDidClose PROVE ClientInv'
<1> USE DEF ClientInv
<1>1. /\ Runs("didClose", "socket") /\ mainQueue \in Seq(Blocks)
      /\ connected' = FALSE /\ active' = {} /\ regs' = 0
      /\ outcome' = [c \in Commands |-> IF c \in active \intersect Commands
                                          THEN "dropped" ELSE outcome[c]]
      /\ socket' = "nil" /\ closeAsked' = FALSE /\ due' = NoDue
      /\ mainQueue' = Orphaned(Rest) /\ UNCHANGED <<queue, sends>>
  BY DEF WebSocketDidClose, Settled, TypeOK
<1>2. Rest \in Seq(Blocks) /\ KeepsCallbacks(mainQueue, Rest)
  BY <1>1, KeepsRest DEF Callbacks
<1>3. /\ mainQueue' \in Seq(Blocks) /\ ~Has(mainQueue', SocketEvents)
      /\ KeepsCallbacks(mainQueue, mainQueue')
  BY <1>1, <1>2, OrphanedQueue, KeepsSame, KeepsTwice
<1>4. TypeOK'
  <2>1. outcome' \in [Commands -> {"idle", "issued", "answered", "failed", "dropped"}]
    BY <1>1 DEF TypeOK
  <2> QED
    <3>1. UNCHANGED <<clientKey, subscribed, resting, saved, asleep, observing,
                      reconnectOnWake, raised>>
      BY DEF WebSocketDidClose, subVars, appVars
    <3> QED
      BY <1>1, <1>3, <2>1, <3>1, NothingDue DEF TypeOK
<1>5. ConnectionSound'
  BY <1>1, <1>3 DEF ConnectionSound, Connection
<1>6. CommandsSound'
  <2> SUFFICES ASSUME NEW c \in Commands
               PROVE  Accounted(c, active', queue', outcome'[c], sends'[c], due'[c], mainQueue')
    BY DEF CommandsSound
  <2>1. Accounted(c, active, queue, outcome[c], sends[c], due[c], mainQueue)
    BY DEF CommandsSound
  <2>2. /\ Waits(mainQueue', c, Callbacks) <=> Waits(mainQueue, c, Callbacks)
        /\ Single(mainQueue, c, Callbacks) => Single(mainQueue', c, Callbacks)
        /\ Waits(mainQueue', c, Replies) => Waits(mainQueue, c, Replies)
    BY <1>3 DEF KeepsCallbacks
  <2>3. /\ c \notin active' /\ ~(due'[c] > 0) /\ queue' = queue /\ sends' = sends
        /\ outcome'[c] = IF c \in active THEN "dropped" ELSE outcome[c]
    BY <1>1, NothingDue
  <2> QED
    BY <2>1, <2>2, <2>3 DEF Accounted
<1> QED
  BY <1>4, <1>5, <1>6

\* A failure turns the callbacks held into blocks of the main queue.
LEMMA WebSocketDidFailInv ==
    ASSUME ClientInv, calls' \in 0..MaxCalls, WebSocketDidFail PROVE ClientInv'
<1> USE DEF ClientInv
<1>1. /\ mainQueue \in Seq(Blocks) /\ connected' = FALSE /\ active' = {} /\ regs' = 0
      /\ UNCHANGED <<queue, sends, outcome>>
  BY DEF WebSocketDidFail, TypeOK, histVars
<1>2. PICK errors \in ErrorBlocks :
        IF Head(mainQueue).event = "didFailCertificate"
          THEN clientKey' = FALSE /\ NewSocket(Rest \o errors)
          ELSE mainQueue' = Rest \o errors /\ UNCHANGED <<clientKey, sockVars>>
  BY DEF WebSocketDidFail
<1>3. PICK e \in {"didFail", "didFailCertificate"} : Runs(e, "socket")
  BY DEF WebSocketDidFail
<1>4. Rest \in Seq(Blocks) /\ KeepsCallbacks(mainQueue, Rest) /\ mainQueue # <<>>
  BY <1>1, <1>3, KeepsRest DEF Callbacks
<1>5. /\ errors \in Seq(Blocks)
      /\ \A i \in 1..Len(errors) : errors[i].event = "error"
      /\ \A c \in Commands : /\ Waits(errors, c, Callbacks) <=> c \in active
                             /\ Single(errors, c, Callbacks)
  BY ErrorsOfFailure
<1> DEFINE all == Rest \o errors
<1>6. /\ all \in Seq(Blocks)
      /\ \A c, E : Waits(all, c, E) <=> Waits(Rest, c, E) \/ Waits(errors, c, E)
      /\ \A c, E : /\ Single(Rest, c, E) /\ Single(errors, c, E)
                   /\ ~(Waits(Rest, c, E) /\ Waits(errors, c, E))
                   => Single(all, c, E)
      /\ \A E : Has(all, E) <=> Has(Rest, E) \/ Has(errors, E)
      /\ OpenCovered(Rest) /\ ~Has(errors, {"didOpen"}) => OpenCovered(all)
  BY <1>4, <1>5, GrownQueue
<1>7. ~Has(errors, {"didOpen"}) /\ ~Has(errors, SocketEvents) /\ \A c : ~Waits(errors, c, Replies)
  BY <1>5 DEF Has, Waits, SocketEvents, Replies
<1>8. Connection(socket, FALSE, {}, all)
  <2>1. /\ Has(Rest, SocketEvents) => Has(mainQueue, SocketEvents)
        /\ OpenCovered(mainQueue) => OpenCovered(Rest)
    BY <1>1, <1>4, ShrunkQueue DEF Rest
  <2> QED
    BY <1>6, <1>7, <2>1 DEF ConnectionSound, Connection
<1> HIDE DEF all
<1>9. /\ socket' \in ReadyStates \union {"nil", "gone"} /\ closeAsked' \in BOOLEAN
      /\ due' \in [Commands \union {"hello", "register"} -> Nat] /\ clientKey' \in BOOLEAN
      /\ mainQueue' \in Seq(Blocks) /\ KeepsCallbacks(all, mainQueue')
      /\ Connection(socket', FALSE, {}, mainQueue')
      /\ \A c \in Commands : due'[c] > 0 => due[c] > 0
  <2>1. CASE clientKey' = FALSE /\ NewSocket(all)
    <3>1. /\ socket' = "connecting" /\ closeAsked' = FALSE /\ due' = NoDue
          /\ mainQueue' \in Seq(Blocks) /\ KeepsCallbacks(all, mainQueue')
          /\ \A on, act : Connection(socket', on, act, mainQueue')
      BY <1>6, <2>1, NewConnection
    <3>2. socket' \in ReadyStates
      BY <3>1 DEF ReadyStates
    <3> QED
      BY <2>1, <3>1, <3>2, NothingDue
  <2>2. CASE mainQueue' = all /\ UNCHANGED <<clientKey, sockVars>>
    <3>1. UNCHANGED <<socket, closeAsked, due, clientKey>>
      BY <2>2 DEF sockVars
    <3>2. KeepsCallbacks(all, mainQueue')
      BY <2>2, KeepsSame
    <3> QED
      BY <1>6, <1>8, <2>2, <3>1, <3>2 DEF TypeOK
  <2> QED
    BY <1>2, <2>1, <2>2 DEF all
<1>10. TypeOK'
  <2>1. UNCHANGED <<subscribed, resting, saved, asleep, observing, reconnectOnWake, raised>>
    BY DEF WebSocketDidFail, subVars, appVars
  <2> QED
    BY <1>1, <1>9, <2>1 DEF TypeOK
<1>11. ConnectionSound'
  BY <1>1, <1>9 DEF ConnectionSound
<1>12. CommandsSound'
  <2> SUFFICES ASSUME NEW c \in Commands
               PROVE  Accounted(c, active', queue', outcome'[c], sends'[c], due'[c], mainQueue')
    BY DEF CommandsSound
  <2>1. Accounted(c, active, queue, outcome[c], sends[c], due[c], mainQueue)
    BY DEF CommandsSound
  <2>2. /\ Waits(Rest, c, Callbacks) <=> Waits(mainQueue, c, Callbacks)
        /\ Single(mainQueue, c, Callbacks) => Single(Rest, c, Callbacks)
        /\ Waits(Rest, c, Replies) => Waits(mainQueue, c, Replies)
    BY <1>4 DEF KeepsCallbacks
  <2>3. /\ Waits(mainQueue', c, Callbacks) <=> Waits(all, c, Callbacks)
        /\ Single(all, c, Callbacks) => Single(mainQueue', c, Callbacks)
        /\ Waits(mainQueue', c, Replies) => Waits(all, c, Replies)
    BY <1>9 DEF KeepsCallbacks
  <2>4. /\ Waits(all, c, Callbacks) <=> Waits(Rest, c, Callbacks) \/ c \in active
        /\ Waits(all, c, Replies) => Waits(Rest, c, Replies)
        /\ Single(Rest, c, Callbacks) /\ ~(Waits(Rest, c, Callbacks) /\ c \in active)
             => Single(all, c, Callbacks)
    BY <1>5, <1>6, <1>7
  <2>5. c \notin active' /\ (due'[c] > 0 => due[c] > 0)
    BY <1>1, <1>9
  <2> QED
    BY <1>1, <2>1, <2>2, <2>3, <2>4, <2>5 DEF Accounted
<1> QED
  BY <1>10, <1>11, <1>12

\* Raising changes nothing else.
LEMMA RaiseInv ==
    ASSUME ClientInv, calls' \in 0..MaxCalls, Raise PROVE ClientInv'
<1>1. /\ raised' = TRUE
      /\ UNCHANGED <<socket, closeAsked, due, connected, queue, active, regs, clientKey,
                     subscribed, resting, saved, asleep, observing, reconnectOnWake,
                     mainQueue, sends, outcome>>
  BY DEF Raise, sockVars, subVars, appVars, histVars
<1>2. TypeOK'
  BY <1>1 DEF ClientInv, TypeOK
<1>3. ConnectionSound' /\ CommandsSound'
  BY <1>1 DEF ClientInv, ConnectionSound, CommandsSound
<1> QED
  BY <1>2, <1>3 DEF ClientInv

LEMMA HelloMessageInv ==
    ASSUME ClientInv, calls' \in 0..MaxCalls, HelloMessage PROVE ClientInv'
<1> USE DEF ClientInv
<1>1. /\ mainQueue \in Seq(Blocks) /\ active' = active \ {"hello"} /\ active \subseteq Keys
      /\ UNCHANGED <<socket, closeAsked, due, connected, queue, regs, clientKey, subscribed,
                     resting, saved, asleep, observing, reconnectOnWake, raised, sends, outcome>>
  BY DEF HelloMessage, TypeOK, sockVars, subVars, appVars, histVars
<1>2. PICK e \in {"helloAnswer", "imposterAnswer"} : Runs(e, "hello")
  BY DEF HelloMessage
<1>3. PICK f \in {"imposter", "complete"} :
        mainQueue' = Rest \/ mainQueue' = Append(Rest, Block(f, "hello"))
  BY DEF HelloMessage
<1>4. "hello" \notin Commands /\ f \notin SocketEvents /\ Block(f, "hello") \in Blocks
  BY DEF SocketEvents, Blocks, Block, Callbacks
<1>5. /\ Rest \in Seq(Blocks) /\ KeepsCallbacks(mainQueue, Rest)
      /\ Connection(socket, connected, active, Rest)
  BY <1>1, <1>2, <1>4, KeepsRest DEF EndReports, ConnectionSound
<1>6. /\ mainQueue' \in Seq(Blocks) /\ KeepsCallbacks(mainQueue, mainQueue')
      /\ Connection(socket, connected, active, mainQueue')
  <2> DEFINE more == Append(Rest, Block(f, "hello"))
  <2>1. /\ more \in Seq(Blocks) /\ KeepsCallbacks(Rest, more)
        /\ Connection(socket, connected, active, more)
    BY <1>4, <1>5, KeepsAppended
  <2> HIDE DEF more
  <2>2. KeepsCallbacks(mainQueue, more)
    BY <1>5, <2>1, KeepsTwice
  <2> QED
    BY <1>3, <1>5, <2>1, <2>2 DEF more
<1>7. TypeOK'
  BY <1>1, <1>6 DEF TypeOK
<1>8. ConnectionSound'
  BY <1>1, <1>6 DEF ConnectionSound, Connection
<1>9. CommandsSound'
  BY <1>1, <1>4, <1>6, KeepsQueue, QuietStep
<1> QED
  BY <1>7, <1>8, <1>9

\* The callback of the command answered moves from the client to the main queue.
LEMMA CommandMessageInv ==
    ASSUME ClientInv, calls' \in 0..MaxCalls, NEW d \in Commands, CommandMessage(d)
    PROVE  ClientInv'
<1> USE DEF ClientInv
<1>1. /\ mainQueue \in Seq(Blocks) /\ active' = active \ {d} /\ active \subseteq Keys
      /\ UNCHANGED <<socket, closeAsked, due, connected, queue, regs, clientKey, subscribed,
                     resting, saved, asleep, observing, reconnectOnWake, raised, sends, outcome>>
  BY DEF CommandMessage, TypeOK, sockVars, subVars, appVars, histVars
<1>2. PICK e \in {"response", "errorResponse"} : Runs(e, d)
  BY DEF CommandMessage
<1> DEFINE f == IF e = "response" THEN "complete" ELSE "error"
<1>3. /\ Rest \in Seq(Blocks) /\ mainQueue # <<>>
      /\ Head(mainQueue).event = e /\ Head(mainQueue).of = d
      /\ KeepsCallbacks(mainQueue, Rest) /\ Connection(socket, connected, active, Rest)
  BY <1>1, <1>2, KeepsRest DEF EndReports, Callbacks, ConnectionSound
<1>4. mainQueue' = IF d \notin active THEN Rest ELSE Append(Rest, Block(f, d))
  BY <1>3 DEF CommandMessage
<1>5. /\ f \in Callbacks /\ f \notin SocketEvents /\ (f \in Replies => e \in Replies)
      /\ Block(f, d) \in Blocks /\ Block(f, d).event = f /\ Block(f, d).of = d
  BY DEF SocketEvents, Blocks, Block, Callbacks, Replies
<1> HIDE DEF f
<1>6. /\ mainQueue' \in Seq(Blocks) /\ Connection(socket, connected, active, mainQueue')
  BY <1>3, <1>4, <1>5, KeepsAppended
<1>7. TypeOK'
  BY <1>1, <1>6 DEF TypeOK
<1>8. ConnectionSound'
  BY <1>1, <1>6 DEF ConnectionSound, Connection
<1>9. CommandsSound'
  <2> SUFFICES ASSUME NEW c \in Commands
               PROVE  Accounted(c, active', queue', outcome'[c], sends'[c], due'[c], mainQueue')
    BY DEF CommandsSound
  <2>1. Accounted(c, active, queue, outcome[c], sends[c], due[c], mainQueue)
    BY DEF CommandsSound
  <2>2. /\ Waits(Rest, c, Callbacks) <=> Waits(mainQueue, c, Callbacks)
        /\ Single(mainQueue, c, Callbacks) => Single(Rest, c, Callbacks)
        /\ Waits(Rest, c, Replies) => Waits(mainQueue, c, Replies)
    BY <1>3 DEF KeepsCallbacks
  <2>3. CASE d \in active
    <3>1. /\ Waits(mainQueue', c, Callbacks) <=> Waits(Rest, c, Callbacks) \/ c = d
          /\ Single(Rest, c, Callbacks) /\ ~(Waits(Rest, c, Callbacks) /\ c = d)
               => Single(mainQueue', c, Callbacks)
          /\ Waits(mainQueue', c, Replies) => Waits(Rest, c, Replies) \/ (c = d /\ f \in Replies)
      BY <1>3, <1>4, <1>5, <2>3, AppendedQueue
    <3>2. c = d /\ f \in Replies => Waits(mainQueue, c, Replies)
      BY <1>1, <1>3, <1>5, ShrunkQueue
    <3> QED
      BY <1>1, <2>1, <2>2, <2>3, <3>1, <3>2 DEF Accounted
  <2>4. CASE d \notin active
    BY <1>1, <1>4, <2>1, <2>2, <2>4 DEF Accounted
  <2> QED
    BY <2>3, <2>4
<1> QED
  BY <1>7, <1>8, <1>9

LEMMA RegisterMessageInv ==
    ASSUME ClientInv, calls' \in 0..MaxCalls, RegisterMessage PROVE ClientInv'
<1> USE DEF ClientInv
<1>1. PICK e \in {"prompt", "registered", "denied"} :
        /\ Runs(e, "register")
        /\ mainQueue' = IF regs = 0 THEN Rest
                        ELSE Append(Rest, Block(IF e = "denied" THEN "error" ELSE "complete",
                                                "register"))
        /\ clientKey' = (clientKey \/ e = "registered")
        /\ regs' = IF e = "prompt" \/ regs = 0 THEN regs ELSE regs - 1
        /\ UNCHANGED <<sockVars, connected, queue, active, subVars, appVars, raised, histVars>>
  BY DEF RegisterMessage
<1>2. UNCHANGED <<socket, closeAsked, due, connected, queue, active, subscribed, resting,
                  saved, asleep, observing, reconnectOnWake, raised, sends, outcome>>
  BY <1>1 DEF sockVars, subVars, appVars, histVars
<1>3. PICK f \in {"error", "complete"} :
        mainQueue' = Rest \/ mainQueue' = Append(Rest, Block(f, "register"))
  BY <1>1
<1>4. "register" \notin Commands /\ f \notin SocketEvents /\ Block(f, "register") \in Blocks
  BY DEF SocketEvents, Blocks, Block, Callbacks
<1>5. /\ Rest \in Seq(Blocks) /\ KeepsCallbacks(mainQueue, Rest)
      /\ Connection(socket, connected, active, Rest)
  BY <1>1, <1>4, KeepsRest DEF EndReports, ConnectionSound, TypeOK
<1>6. /\ mainQueue' \in Seq(Blocks) /\ KeepsCallbacks(mainQueue, mainQueue')
      /\ Connection(socket, connected, active, mainQueue')
  <2> DEFINE more == Append(Rest, Block(f, "register"))
  <2>1. /\ more \in Seq(Blocks) /\ KeepsCallbacks(Rest, more)
        /\ Connection(socket, connected, active, more)
    BY <1>4, <1>5, KeepsAppended
  <2> HIDE DEF more
  <2>2. KeepsCallbacks(mainQueue, more)
    BY <1>5, <2>1, KeepsTwice
  <2> QED
    BY <1>3, <1>5, <2>1, <2>2 DEF more
<1>7. regs' \in Nat /\ clientKey' \in BOOLEAN
  BY <1>1 DEF TypeOK
<1>8. TypeOK'
  BY <1>2, <1>6, <1>7 DEF TypeOK
<1>9. ConnectionSound'
  BY <1>2, <1>6 DEF ConnectionSound
<1>10. CommandsSound'
  BY <1>2, <1>6, KeepsQueue, QuietStep
<1> QED
  BY <1>8, <1>9, <1>10

LEMMA HelloCompleteInv ==
    ASSUME ClientInv, calls' \in 0..MaxCalls, HelloComplete PROVE ClientInv'
<1>r. CASE socket = "connecting"
  BY <1>r, RaiseInv DEF HelloComplete
<1>h. CASE socket # "connecting"
  <2> USE DEF ClientInv
  <2>1. /\ regs' = regs + 1 /\ mainQueue' = Rest
        /\ due' = due \/ due' = [due EXCEPT !["register"] = @ + 1]
        /\ UNCHANGED <<socket, queue, active, saved, asleep, reconnectOnWake, raised,
                       sends, outcome>>
    BY <1>h DEF HelloComplete, histVars
  <2>2. PICK e \in {"complete", "imposter"} : Runs(e, "hello")
    BY DEF HelloComplete
  <2>3. /\ clientKey' \in BOOLEAN /\ observing' \in BOOLEAN /\ connected' \in BOOLEAN
        /\ closeAsked' \in BOOLEAN /\ resting' \subseteq subscribed' /\ subscribed' \subseteq Subs
        /\ connected' => connected
    <3>1. CASE clientKey' = FALSE /\ DisconnectWithError(reconnectOnWake)
      BY <3>1, DisconnectStep
    <3>2. CASE UNCHANGED <<clientKey, observing, connected, closeAsked, subscribed, resting>>
      BY <3>2 DEF TypeOK
    <3> QED
      BY <1>h, <3>1, <3>2 DEF HelloComplete
  <2>4. /\ mainQueue' \in Seq(Blocks) /\ KeepsCallbacks(mainQueue, mainQueue')
        /\ Connection(socket, connected, active, mainQueue')
    BY <2>1, <2>2, KeepsRest DEF EndReports, ConnectionSound, TypeOK
  <2>5. /\ due' \in [Commands \union {"hello", "register"} -> Nat]
        /\ \A c \in Commands : due'[c] = due[c]
    BY <2>1 DEF TypeOK
  <2>6. TypeOK'
    BY <2>1, <2>3, <2>4, <2>5 DEF TypeOK
  <2>7. ConnectionSound'
    BY <2>1, <2>3, <2>4 DEF ConnectionSound, Connection
  <2>8. CommandsSound'
    BY <2>1, <2>4, <2>5, KeepsQueue, QuietStep
  <2> QED
    BY <2>6, <2>7, <2>8
<1> QED
  BY <1>r, <1>h

LEMMA HelloOrRegisterErrorInv ==
    ASSUME ClientInv, calls' \in 0..MaxCalls, HelloOrRegisterError PROVE ClientInv'
<1> USE DEF ClientInv
<1>1. /\ DisconnectWithError(reconnectOnWake) /\ mainQueue' = Rest
      /\ UNCHANGED <<socket, due, queue, active, regs, clientKey, saved, asleep,
                     reconnectOnWake, raised, sends, outcome>>
  BY DEF HelloOrRegisterError, histVars
<1>2. PICK k \in {"hello", "register"} : Runs("error", k)
  BY DEF HelloOrRegisterError
<1>3. /\ observing' \in BOOLEAN /\ connected' = FALSE /\ closeAsked' \in BOOLEAN
      /\ subscribed' = {} /\ resting' = {}
  BY <1>1, DisconnectStep
<1>4. /\ mainQueue' \in Seq(Blocks) /\ KeepsCallbacks(mainQueue, mainQueue')
      /\ Connection(socket, connected, active, mainQueue')
  BY <1>1, <1>2, KeepsRest DEF EndReports, ConnectionSound, TypeOK
<1>5. TypeOK'
  BY <1>1, <1>3, <1>4 DEF TypeOK
<1>6. ConnectionSound'
  BY <1>1, <1>3, <1>4 DEF ConnectionSound, Connection
<1>7. CommandsSound'
  BY <1>1, <1>4, KeepsQueue, QuietStep
<1> QED
  BY <1>5, <1>6, <1>7

\* Registration sends the queue over whatever socket there is: a command that was
\* queued is now sent, and no command is queued any more.
LEMMA RegisterCompleteInv ==
    ASSUME ClientInv, calls' \in 0..MaxCalls, RegisterComplete PROVE ClientInv'
<1>r. CASE socket = "connecting" /\ queue # <<>>
  BY <1>r, RaiseInv DEF RegisterComplete
<1>f. CASE ~(socket = "connecting" /\ queue # <<>>)
  <2> USE DEF ClientInv
  <2> DEFINE flushed == Commands \intersect Range(queue)
  <2>1. /\ Runs("complete", "register")
        /\ observing' = (observing \/ OnBackground)
        /\ sends' = [c \in Commands |-> IF c \in (IF socket = "nil" THEN {} ELSE flushed)
                                          THEN sends[c] + 1 ELSE sends[c]]
        /\ subscribed' = IF saved = {} THEN subscribed ELSE saved
        /\ resting' = IF saved = {} THEN resting ELSE {}
        /\ saved' = {}
        /\ UNCHANGED <<connected, active, regs, clientKey, asleep, reconnectOnWake, raised,
                       outcome>>
    BY <1>f DEF RegisterComplete, HandedOver
  <2>2. PICK f \in SetToSeqs(saved) :
          SendStrings([i \in DOMAIN f |-> <<f[i], "subscribe">>], flushed, <<>>, Rest)
    BY <1>f DEF RegisterComplete
  <2> DEFINE ss == [i \in DOMAIN f |-> <<f[i], "subscribe">>]
  <2>3. /\ mainQueue \in Seq(Blocks) /\ queue \in Seq(Strings) /\ <<>> \in Seq(Strings)
        /\ sends \in [Commands -> Nat] /\ saved \in SUBSET Subs /\ Len(<<>>) = 0
    BY DEF TypeOK
  <2>4. /\ ss \in Seq(Strings)
        /\ \A i \in 1..Len(ss) : ss[i] \in Subs \X {"subscribe", "unsubscribe"}
    BY <2>3, SavedStrings
  <2>5. \A c \in Commands : c \in flushed <=> Queued(queue, c)
    BY <2>3, QueuedRange
  <2> HIDE DEF ss, flushed
  <2>6. /\ Rest \in Seq(Blocks) /\ KeepsCallbacks(mainQueue, Rest)
        /\ Connection(socket, connected, active, Rest)
    BY <2>1, <2>3, KeepsRest DEF EndReports, ConnectionSound
  <2>7. /\ socket' \in ReadyStates \union {"nil", "gone"} /\ closeAsked' \in BOOLEAN
        /\ due' \in [Commands \union {"hello", "register"} -> Nat]
        /\ queue' \in Seq(Strings) /\ mainQueue' \in Seq(Blocks)
        /\ queue' = IF socket = "open" THEN <<>> ELSE <<>> \o ss
        /\ KeepsCallbacks(Rest, mainQueue')
        /\ \A on, act : Connection(socket, on, act, Rest)
                          => Connection(socket', on, act, mainQueue')
        /\ \A c \in Commands : due'[c] > 0 =>
             due[c] > 0 \/ (socket = "open" /\ (c \in flushed \/ c \in Range(ss)))
    BY <2>2, <2>3, <2>4, <2>6, SendStringsStep DEF ss
  <2>8. KeepsCallbacks(mainQueue, mainQueue')
    BY <2>6, <2>7, KeepsTwice
  <2>9. /\ KeepsCommands(<<>>, queue') /\ Commands \intersect Range(ss) = {}
    BY <2>3, <2>4, <2>7, KeepsBehind, KeepsQueue
  <2>10. TypeOK'
    <3>1. sends' \in [Commands -> Nat]
      BY <2>1, <2>3
    <3>2. observing' \in BOOLEAN /\ subscribed' \subseteq Subs /\ saved' \subseteq Subs
            /\ resting' \subseteq subscribed'
      BY <2>1, <2>3 DEF TypeOK
    <3> QED
      BY <2>1, <2>7, <3>1, <3>2 DEF TypeOK
  <2>11. ConnectionSound'
    BY <2>1, <2>6, <2>7 DEF ConnectionSound
  <2>12. CommandsSound'
    <3> SUFFICES ASSUME NEW c \in Commands
                 PROVE  Accounted(c, active', queue', outcome'[c], sends'[c], due'[c], mainQueue')
      BY DEF CommandsSound
    <3>1. Accounted(c, active, queue, outcome[c], sends[c], due[c], mainQueue)
      BY DEF CommandsSound
    <3>2. /\ Waits(mainQueue', c, Callbacks) <=> Waits(mainQueue, c, Callbacks)
          /\ Single(mainQueue, c, Callbacks) => Single(mainQueue', c, Callbacks)
          /\ Waits(mainQueue', c, Replies) => Waits(mainQueue, c, Replies)
      BY <2>8 DEF KeepsCallbacks
    <3>3. ~Queued(queue', c) /\ QueuedOnce(queue', c)
      <4>1. ~Queued(<<>>, c) /\ QueuedOnce(<<>>, c)
        BY <2>3 DEF Queued, QueuedOnce
      <4> QED
        BY <2>9, <4>1 DEF KeepsCommands
    <3>4. /\ sends[c] \in Nat
          /\ sends'[c] = IF socket # "nil" /\ Queued(queue, c) THEN sends[c] + 1 ELSE sends[c]
      BY <2>1, <2>3, <2>5
    <3>5. due'[c] > 0 => due[c] > 0 \/ (socket = "open" /\ Queued(queue, c))
      BY <2>5, <2>7, <2>9
    <3>6. socket = "nil" => c \notin active
      BY DEF ConnectionSound, Connection
    <3>7. active' = active /\ outcome'[c] = outcome[c]
      BY <2>1
    <3> QED
      BY <3>1, <3>2, <3>3, <3>4, <3>5, <3>6, <3>7 DEF Accounted
  <2> QED
    BY <2>10, <2>11, <2>12
<1> QED
  BY <1>r, <1>f

\* The block that tells the application is the last of its command.
LEMMA CommandCallbackInv ==
    ASSUME ClientInv, calls' \in 0..MaxCalls, NEW d \in Commands, CommandCallback(d)
    PROVE  ClientInv'
<1> USE DEF ClientInv
<1>1. PICK e \in {"complete", "error"} : Runs(e, d)
  BY DEF CommandCallback
<1>2. PICK end \in {"answered", "failed"} :
        outcome' = [c \in Commands |-> IF c \in {d} THEN end ELSE outcome[c]]
  BY DEF CommandCallback, Settled
<1>3. /\ mainQueue \in Seq(Blocks) /\ mainQueue' = Rest
      /\ outcome \in [Commands -> {"idle", "issued", "answered", "failed", "dropped"}]
      /\ UNCHANGED <<socket, closeAsked, due, connected, queue, active, regs, clientKey,
                     subscribed, resting, saved, asleep, observing, reconnectOnWake, raised,
                     sends>>
  BY DEF CommandCallback, TypeOK, sockVars, subVars, appVars
<1>4. /\ Rest \in Seq(Blocks) /\ mainQueue # <<>>
      /\ Head(mainQueue).event = e /\ Head(mainQueue).of = d
      /\ Connection(socket, connected, active, Rest)
  BY <1>1, <1>3, KeepsRest DEF EndReports, ConnectionSound
<1>5. outcome' \in [Commands -> {"idle", "issued", "answered", "failed", "dropped"}]
  BY <1>2, <1>3
<1>6. TypeOK'
  BY <1>3, <1>4, <1>5 DEF TypeOK
<1>7. ConnectionSound'
  BY <1>3, <1>4 DEF ConnectionSound
<1>8. CommandsSound'
  <2> SUFFICES ASSUME NEW c \in Commands
               PROVE  Accounted(c, active', queue', outcome'[c], sends'[c], due'[c], mainQueue')
    BY DEF CommandsSound
  <2>1. Accounted(c, active, queue, outcome[c], sends[c], due[c], mainQueue)
    BY DEF CommandsSound
  <2>2. e \in Callbacks
    BY DEF Callbacks
  <2>3. /\ Waits(mainQueue, c, Callbacks) <=> Waits(Rest, c, Callbacks) \/ c = d
        /\ Single(mainQueue, c, Callbacks) => Single(Rest, c, Callbacks)
        /\ Single(mainQueue, c, Callbacks) /\ c = d => ~Waits(Rest, c, Callbacks)
        /\ Waits(Rest, c, Replies) => Waits(mainQueue, c, Replies)
    BY <1>3, <1>4, <2>2, ShrunkQueue DEF Rest
  <2>4. outcome'[c] = IF c = d THEN end ELSE outcome[c]
    BY <1>2
  <2> QED
    BY <1>3, <2>1, <2>3, <2>4 DEF Accounted
<1> QED
  BY <1>6, <1>7, <1>8

LEMMA ClientStep == ClientInv /\ [Next]_vars => ClientInv'
<1> SUFFICES ASSUME ClientInv, [Next]_vars PROVE ClientInv'
  OBVIOUS
<1>1. CASE ApplicationCalls /\ calls < MaxCalls /\ calls' = calls + 1
  <2>1. calls' \in 0..MaxCalls
    BY <1>1 DEF ClientInv, TypeOK
  <2> QED
    BY <1>1, <2>1, ConnectInv, DisconnectInv, SleepInv, WakeInv, AddSubscribeInv,
       UnsubscribeInv, SendCommandInv DEF ApplicationCalls
<1>2. CASE SocketActs /\ UNCHANGED calls
  <2>1. calls' \in 0..MaxCalls
    BY <1>2 DEF ClientInv, TypeOK
  <2> QED
    BY <1>2, <2>1, SocketOpensInv, SocketClosesInv, SocketReportsCloseInv, SocketEndsInv,
       TvAnswersInv DEF SocketActs
<1>3. CASE MainQueueRuns /\ UNCHANGED calls
  <2>1. calls' \in 0..MaxCalls
    BY <1>3 DEF ClientInv, TypeOK
  <2> QED
    BY <1>3, <2>1, WebSocketDidOpenInv, WebSocketDidCloseInv, WebSocketDidFailInv,
       OrphanedReportInv, HelloMessageInv, RegisterMessageInv, HelloCompleteInv,
       HelloOrRegisterErrorInv, RegisterCompleteInv, CommandMessageInv, CommandCallbackInv
       DEF MainQueueRuns
<1>4. CASE UNCHANGED vars
  BY <1>4 DEF vars, sockVars, subVars, appVars, histVars, ClientInv, TypeOK,
              ConnectionSound, CommandsSound
<1> QED
  BY <1>1, <1>2, <1>3, <1>4 DEF Next

LEMMA ClientInvariant == Spec => []ClientInv
BY ClientInitially, ClientStep, PTL DEF Spec

-----------------------------------------------------------------------------
(* The properties of the client.                                             *)

\* Type correctness.
THEOREM TypeCorrect == Spec => []TypeOK
<1>1. ClientInv => TypeOK
  BY DEF ClientInv
<1> QED
  BY <1>1, ClientInvariant, PTL

\* Every command the application waits for has its callback in one place: with the
\* client, or as one block of the main queue (CommandAccounted).
THEOREM CommandsAreAccounted == Spec => []CommandAccounted
<1>1. ClientInv => CommandAccounted
  <2> SUFFICES ASSUME ClientInv, NEW c \in Commands
               PROVE  /\ outcome[c] = "issued" <=> (c \in active \/ Callback(c) # {})
                      /\ c \in active => Callback(c) = {}
                      /\ \A i, j \in Callback(c) : i = j
    BY DEF CommandAccounted
  <2>1. Accounted(c, active, queue, outcome[c], sends[c], due[c], mainQueue)
    BY DEF ClientInv, CommandsSound
  <2>2. DOMAIN mainQueue = 1..Len(mainQueue)
    BY LenProperties DEF ClientInv, TypeOK
  <2>3. Callback(c) # {} <=> Waits(mainQueue, c, Callbacks)
    BY <2>2 DEF Callback, Waits
  <2>4. Single(mainQueue, c, Callbacks) => \A i, j \in Callback(c) : i = j
    BY <2>2 DEF Callback, Single
  <2> QED
    BY <2>1, <2>3, <2>4 DEF Accounted
<1> QED
  BY <1>1, ClientInvariant, PTL

\* The command queue holds what was not given to a socket, each command once, and
\* nothing that was (QueueHoldsUnsent).
THEOREM QueueIsExact == Spec => []QueueHoldsUnsent
<1>1. ClientInv => QueueHoldsUnsent
  <2> SUFFICES ASSUME ClientInv, NEW c \in Commands
               PROVE  /\ c \in active /\ sends[c] = 0 => c \in Range(queue)
                      /\ sends[c] > 0 => c \notin Range(queue)
                      /\ Cardinality({i \in DOMAIN queue : queue[i] = c}) <= 1
    BY DEF QueueHoldsUnsent
  <2>1. Accounted(c, active, queue, outcome[c], sends[c], due[c], mainQueue)
    BY DEF ClientInv, CommandsSound
  <2>2. queue \in Seq(Strings) /\ DOMAIN queue = 1..Len(queue)
    BY LenProperties DEF ClientInv, TypeOK
  <2>3. c \in Range(queue) <=> Queued(queue, c)
    BY <2>2, QueuedRange
  <2> DEFINE at == {i \in DOMAIN queue : queue[i] = c}
  <2>4. Cardinality(at) <= 1
    <3>1. CASE at = {}
      <4>1. Cardinality(at) = 0
        BY <3>1, FS_EmptySet
      <4> QED
        BY <4>1
    <3>2. CASE at # {}
      <4>1. PICK x : x \in at
        BY <3>2
      <4>2. QueuedOnce(queue, c)
        BY <2>1 DEF Accounted
      <4>3. at = {x}
        BY <2>2, <4>1, <4>2 DEF QueuedOnce
      <4>4. Cardinality(at) = 1
        BY <4>3, FS_Singleton
      <4> QED
        BY <4>4
    <3> QED
      BY <3>1, <3>2
  <2> QED
    BY <2>1, <2>3, <2>4 DEF Accounted
<1> QED
  BY <1>1, ClientInvariant, PTL

\* The end of the socket a client is connected over is never kept from it
\* (ConnectedIsTold).
THEOREM EndIsTold == Spec => []ConnectedIsTold
<1>1. ClientInv => ConnectedIsTold
  <2> SUFFICES ASSUME ClientInv PROVE ConnectedIsTold
    OBVIOUS
  <2>1. DOMAIN mainQueue = 1..Len(mainQueue)
    BY LenProperties DEF ClientInv, TypeOK
  <2> QED
    BY <2>1 DEF ClientInv, ConnectionSound, Connection, Has, EndReports, ConnectedIsTold
<1> QED
  BY <1>1, ClientInvariant, PTL

\* Subscriptions saved before a sleep are given up only by making them again, or by
\* saving those of a later connection (SavedAreMadeAgain).
THEOREM SleepKeepsSubscriptions == Spec => SavedAreMadeAgain
<1> DEFINE Kept == \A s \in saved \ saved' :
                     \/ s \in subscribed' \ resting'
                     \/ ~asleep /\ asleep' /\ saved' = subscribed
<1>1. [Next]_vars => [Kept]_vars
  <2> SUFFICES ASSUME Next PROVE Kept
    OBVIOUS
  <2>1. CASE UNCHANGED saved
    BY <2>1
  <2>2. CASE Sleep
    BY <2>2 DEF Sleep, subVars
  <2>3. CASE RegisterComplete
    <3>1. CASE Raise
      BY <2>1, <3>1 DEF Raise, subVars
    <3>2. CASE ~Raise
      <4>1. /\ saved' = {} /\ subscribed' = (IF saved = {} THEN subscribed ELSE saved)
            /\ resting' = IF saved = {} THEN resting ELSE {}
        BY <2>3, <3>2 DEF RegisterComplete
      <4> QED
        BY <4>1
    <3> QED
      BY <3>1, <3>2
  <2>4. CASE Connect \/ Disconnect \/ Wake
    BY <2>1, <2>4 DEF Connect, Disconnect, Wake, subVars
  <2>5. CASE \E s \in Subs : AddSubscribe(s) \/ Unsubscribe(s)
    BY <2>1, <2>5 DEF AddSubscribe, Unsubscribe
  <2>6. CASE \E c \in Commands : SendCommand(c) \/ CommandMessage(c) \/ CommandCallback(c)
    BY <2>1, <2>6 DEF SendCommand, CommandMessage, CommandCallback, subVars
  <2>7. CASE SocketActs
    BY <2>1, <2>7 DEF SocketActs, SocketOpens, SocketCloses, SocketReportsClose, SocketEnds,
                      TvAnswers, subVars
  <2>8. CASE \/ WebSocketDidOpen \/ WebSocketDidClose \/ WebSocketDidFail \/ OrphanedReport
    BY <2>1, <2>8 DEF WebSocketDidOpen, WebSocketDidClose, WebSocketDidFail, OrphanedReport,
                      subVars
  <2>9. CASE HelloMessage \/ RegisterMessage \/ HelloComplete \/ HelloOrRegisterError
    BY <2>1, <2>9 DEF HelloMessage, RegisterMessage, HelloComplete, HelloOrRegisterError,
                      Raise, subVars
  <2> QED
    BY <2>2, <2>3, <2>4, <2>5, <2>6, <2>7, <2>8, <2>9
       DEF Next, ApplicationCalls, MainQueueRuns
<1> QED
  BY <1>1, PTL DEF Spec, SavedAreMadeAgain

\* Every step of the client is one of the channel, or none.
LEMMA ChannelStep == ClientInv /\ [Next]_vars => [Channel!Next]_(Channel!chan)
<1> SUFFICES ASSUME ClientInv, [Next]_vars
             PROVE  Channel!Next \/ UNCHANGED <<sends, outcome>>
  BY DEF Channel!chan
<1>t. /\ sends \in [Commands -> Nat]
      /\ outcome \in [Commands -> {"idle", "issued", "answered", "failed", "dropped"}]
      /\ mainQueue \in Seq(Blocks) /\ queue \in Seq(Strings)
  BY DEF ClientInv, TypeOK
<1>c. \A c \in Commands :
        Accounted(c, active, queue, outcome[c], sends[c], due[c], mainQueue)
  BY DEF ClientInv, CommandsSound
<1>1. ASSUME NEW c \in Commands, SendCommand(c) PROVE Channel!Issue(c)
  <2>1. /\ outcome[c] = "idle" /\ outcome' = [outcome EXCEPT ![c] = "issued"]
        /\ sends' = [d \in Commands |-> IF d \in (IF socket = "open" THEN {c} ELSE {})
                                          THEN sends[d] + 1 ELSE sends[d]]
    BY <1>1 DEF SendCommand, HandedOver
  <2>2. sends[c] = 0
    BY <1>c, <2>1 DEF Accounted
  <2>3. sends' = sends \/ sends' = [sends EXCEPT ![c] = 1]
    <3>1. CASE socket = "open"
      <4>1. sends' = [d \in Commands |-> IF d = c THEN 1 ELSE sends[d]]
        BY <1>t, <2>1, <2>2, <3>1
      <4> QED
        BY <1>t, <4>1
    <3>2. CASE socket # "open"
      <4>1. sends' = [d \in Commands |-> sends[d]]
        BY <2>1, <3>2
      <4> QED
        BY <1>t, <4>1
    <3> QED
      BY <3>1, <3>2
  <2> QED
    BY <2>1, <2>3 DEF Channel!Issue
<1>2. ASSUME RegisterComplete
      PROVE  (\E C \in SUBSET Commands : Channel!Transmit(C)) \/ UNCHANGED <<sends, outcome>>
  <2>1. CASE Raise
    BY <2>1 DEF Raise, histVars
  <2>2. CASE ~Raise
    <3> DEFINE C == IF socket = "nil" THEN {} ELSE Commands \intersect Range(queue)
    <3>1. /\ sends' = [c \in Commands |-> IF c \in C THEN sends[c] + 1 ELSE sends[c]]
          /\ outcome' = outcome
      BY <1>2, <2>2 DEF RegisterComplete, HandedOver
    <3>2. C \in SUBSET Commands
      OBVIOUS
    <3>3. \A c \in C : c \in Commands /\ Queued(queue, c)
      BY <1>t, QueuedRange
    <3> HIDE DEF C
    <3>4. \A c \in C : outcome[c] # "idle" /\ sends[c] = 0
      BY <1>t, <1>c, <3>3 DEF Accounted
    <3>5. sends' = [c \in Commands |-> IF c \in C THEN 1 ELSE sends[c]]
      BY <1>t, <3>1, <3>4
    <3>6. Channel!Transmit(C)
      BY <3>1, <3>4, <3>5 DEF Channel!Transmit
    <3> QED
      BY <3>2, <3>6
  <2> QED
    BY <2>1, <2>2
<1>3. ASSUME WebSocketDidClose PROVE Channel!Settle(active \intersect Commands, "dropped")
  <2>1. \A c \in active \intersect Commands : outcome[c] = "issued"
    BY <1>c DEF Accounted
  <2> QED
    BY <1>3, <2>1 DEF WebSocketDidClose, Settled, Channel!Settle
<1>4. ASSUME NEW c \in Commands, CommandCallback(c)
      PROVE  \E end \in {"answered", "failed"} : Channel!Settle({c}, end)
  <2>1. PICK e \in {"complete", "error"}, end \in {"answered", "failed"} :
          /\ Runs(e, c) /\ outcome' = Settled({c}, end)
          /\ end = "answered" => e = "complete"
    BY <1>4 DEF CommandCallback
  <2>2. mainQueue # <<>> /\ Head(mainQueue).event = e /\ Head(mainQueue).of = c
    BY <1>t, <2>1, KeepsRest
  <2>3. Waits(mainQueue, c, Callbacks) /\ (e = "complete" => Waits(mainQueue, c, Replies))
    BY <1>t, <2>2, ShrunkQueue DEF Callbacks, Replies
  <2>4. outcome[c] = "issued" /\ (end = "answered" => sends[c] > 0)
    BY <1>c, <2>1, <2>3 DEF Accounted
  <2>5. sends' = sends
    BY <1>4 DEF CommandCallback
  <2> QED
    BY <2>1, <2>4, <2>5 DEF Settled, Channel!Settle
<1>5. CASE Connect \/ Disconnect \/ Sleep \/ Wake
  BY <1>5 DEF Connect, Disconnect, Sleep, Wake, histVars
<1>6. CASE \E s \in Subs : AddSubscribe(s) \/ Unsubscribe(s)
  BY <1>6 DEF AddSubscribe, Unsubscribe, histVars
<1>7. CASE SocketActs
  BY <1>7 DEF SocketActs, SocketOpens, SocketCloses, SocketReportsClose, SocketEnds,
              TvAnswers, histVars
<1>8. CASE \/ WebSocketDidOpen \/ WebSocketDidFail \/ OrphanedReport
           \/ \E c \in Commands : CommandMessage(c)
  BY <1>8 DEF WebSocketDidOpen, WebSocketDidFail, OrphanedReport, CommandMessage, histVars
<1>9. CASE HelloMessage \/ RegisterMessage \/ HelloComplete \/ HelloOrRegisterError
  BY <1>9 DEF HelloMessage, RegisterMessage, HelloComplete, HelloOrRegisterError,
              Raise, histVars
<1>10. CASE UNCHANGED vars
  BY <1>10 DEF vars, histVars
<1>11. (\E C \in SUBSET Commands, end \in Channel!Ends : Channel!Settle(C, end))
         => Channel!Next
  BY DEF Channel!Next
<1>12. WebSocketDidClose => Channel!Next
  BY <1>3, <1>11 DEF Channel!Ends
<1>13. (\E c \in Commands : CommandCallback(c)) => Channel!Next
  BY <1>4, <1>11 DEF Channel!Ends
<1>14. (\E c \in Commands : SendCommand(c)) => Channel!Next
  BY <1>1 DEF Channel!Next
<1>15. RegisterComplete => Channel!Next \/ UNCHANGED <<sends, outcome>>
  BY <1>2 DEF Channel!Next
<1> QED
  BY <1>5, <1>6, <1>7, <1>8, <1>9, <1>10, <1>12, <1>13, <1>14, <1>15
     DEF Next, ApplicationCalls, MainQueueRuns

\* For those who issue commands the client is a CommandChannel: each command is
\* given to a socket at most once, its outcome is settled once and for all, and only
\* a command that was given to a socket is answered.
THEOREM ClientImplementsChannel == Spec => ImplementsChannel
<1>1. Init => Channel!Init
  BY DEF Init, Channel!Init
<1> QED
  BY <1>1, ChannelStep, ClientInvariant, PTL DEF Spec, ImplementsChannel, Channel!Spec

\* A command is given to a socket at most once, over all the connections made.
SentAtMostOnce == \A c \in Commands : sends[c] <= 1

\* Neither the queue sent after each registration nor a command issued meanwhile
\* gives a command to a socket again (SentAtMostOnce).
THEOREM NothingSentTwice == Spec => []SentAtMostOnce
<1>1. Init => SentAtMostOnce
  BY DEF Init, SentAtMostOnce
<1>2. ClientInv /\ SentAtMostOnce /\ [Next]_vars => SentAtMostOnce'
  <2> SUFFICES ASSUME ClientInv, SentAtMostOnce, [Next]_vars, NEW c \in Commands
               PROVE  sends'[c] <= 1
    BY DEF SentAtMostOnce
  <2>1. sends[c] <= 1 /\ sends \in [Commands -> Nat]
    BY DEF SentAtMostOnce, ClientInv, TypeOK
  <2>2. CASE UNCHANGED sends
    BY <2>1, <2>2
  <2>3. CASE \E d \in Commands : Channel!Issue(d)
    BY <2>1, <2>3 DEF Channel!Issue
  <2>4. CASE \E C \in SUBSET Commands : Channel!Transmit(C)
    BY <2>1, <2>4 DEF Channel!Transmit
  <2>5. CASE \E C \in SUBSET Commands, end \in Channel!Ends : Channel!Settle(C, end)
    BY <2>2, <2>5 DEF Channel!Settle
  <2> QED
    BY <2>2, <2>3, <2>4, <2>5, ChannelStep DEF Channel!Next, Channel!chan
<1> QED
  BY <1>1, <1>2, ClientInvariant, PTL DEF Spec

\* What the application was told of a command is never taken back or told again:
\* after the block of its callback, or the close that dropped it, no other comes.
OutcomeIsFinal ==
    [][\A c \in Commands : outcome[c] \notin {"idle", "issued"} => outcome'[c] = outcome[c]]_vars

\* However answers, failures and closes cross, a command ends once (OutcomeIsFinal).
THEOREM OutcomesAreFinal == Spec => OutcomeIsFinal
<1> DEFINE Final == \A c \in Commands : outcome[c] \notin {"idle", "issued"}
                                          => outcome'[c] = outcome[c]
<1>1. ClientInv /\ [Next]_vars => [Final]_vars
  <2> SUFFICES ASSUME ClientInv, [Next]_vars, NEW c \in Commands,
                      outcome[c] \notin {"idle", "issued"}
               PROVE  outcome'[c] = outcome[c]
    OBVIOUS
  <2>1. outcome \in [Commands -> {"idle", "issued", "answered", "failed", "dropped"}]
    BY DEF ClientInv, TypeOK
  <2>2. CASE UNCHANGED outcome
    BY <2>2
  <2>3. CASE \E d \in Commands : Channel!Issue(d)
    BY <2>1, <2>3 DEF Channel!Issue
  <2>4. CASE \E C \in SUBSET Commands : Channel!Transmit(C)
    BY <2>2, <2>4 DEF Channel!Transmit
  <2>5. CASE \E C \in SUBSET Commands, end \in Channel!Ends : Channel!Settle(C, end)
    BY <2>1, <2>5 DEF Channel!Settle
  <2> QED
    BY <2>2, <2>3, <2>4, <2>5, ChannelStep DEF Channel!Next, Channel!chan
<1> QED
  BY <1>1, ClientInvariant, PTL DEF Spec, OutcomeIsFinal
=============================================================================
