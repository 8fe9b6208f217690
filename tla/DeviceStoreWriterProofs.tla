----------------------- MODULE DeviceStoreWriterProofs -----------------------
(***************************************************************************)
(* The write protocol of the device store for any number of stores, writes  *)
(* and restarts: the pending flag is always cleared, the last snapshot gets *)
(* into the file, and the file keeps what StoreFile promises.               *)
(***************************************************************************)
EXTENDS DeviceStoreWriter, TLAPS

\* A block keeps the _updated of its dispatch, which -store moves past.
StampsBehind ==
    /\ updated <= clock
    /\ disk # None => disk <= clock
    /\ deviceStore # None => deviceStore <= clock
    /\ writer.json # None => writer.json <= clock
    /\ main.snapshot <= clock
    /\ \A k \in 1..Len(queue) : queue[k] <= updated
    /\ writer.pc # "idle" => writer.lastUpdated <= updated

\* There is something to write when a block is dispatched.
SomethingPublished ==
    /\ queue # <<>> \/ main.pc \in {"test", "write"} \/ writer.pc # "idle" => deviceStore # None
    /\ writer.pc = "write" => writer.json # None

\* Before the new snapshot is published, only a block that overtakes has seen the
\* new _updated.
OvertakingIsSeen ==
    main.pc = "publish" /\ writer.pc \in {"write", "clear", "compare"}
        => overtaken \/ writer.lastUpdated # updated

\* A block that will find no store since its dispatch writes what is published.
BlockIsCurrent ==
    /\ writer.pc = "write"
        => overtaken \/ writer.lastUpdated # updated \/ writer.json = deviceStore
    /\ writer.pc \in {"clear", "compare"}
        => overtaken \/ writer.lastUpdated # updated \/ disk = deviceStore
    /\ writer.pc \in {"clear", "compare", "rewrite"} => ~failed

\* The inductive invariant.
WriterInv ==
    /\ TypeOK
    /\ StampsBehind
    /\ SomethingPublished
    /\ FlagWillClear
    /\ OvertakingIsSeen
    /\ BlockIsCurrent
    /\ WrittenWhenAtPeace

-----------------------------------------------------------------------------
LEMMA AppendFacts ==
    ASSUME NEW q \in Seq(Nat), NEW n \in Nat
    PROVE  /\ Append(q, n) \in Seq(Nat)
           /\ Append(q, n) # <<>>
           /\ Len(Append(q, n)) = Len(q) + 1
           /\ \A k \in 1..Len(q) : Append(q, n)[k] = q[k]
           /\ Append(q, n)[Len(q) + 1] = n
  OBVIOUS

LEMMA HeadFacts ==
    ASSUME NEW q \in Seq(Nat), q # <<>>
    PROVE  /\ Head(q) \in Nat
           /\ Head(q) = q[1]
           /\ 1 \in 1..Len(q)
           /\ Tail(q) \in Seq(Nat)
           /\ Len(Tail(q)) = Len(q) - 1
           /\ \A k \in 1..Len(Tail(q)) : Tail(q)[k] = q[k + 1]
  OBVIOUS

\* Dropping the fraction of a time does not make it larger.
LEMMA Truncation ==
    ASSUME NEW n \in Nat
    PROVE  n - (n % Second) \in Nat /\ n - (n % Second) <= n
  <1>1. Second \in Nat /\ Second > 0
    BY WriterAssumption
  <1>. QED
    BY <1>1, Z3

LEMMA RestFacts ==
    /\ NoBlock \in WriterType
    /\ AtRest \in [pc : {"idle", "stamped", "publish", "test", "write"}, snapshot : Snapshots]
  BY DEF NoBlock, WriterType, AtRest, Snapshots

LEMMA InitInv == Init => WriterInv
<1>. SUFFICES ASSUME Init PROVE WriterInv
  OBVIOUS
<1>1. TypeOK
  <2>1. queue \in Seq(Nat) /\ updated \in Nat /\ clock \in Nat
    BY DEF Init
  <2>. QED
    BY <2>1, RestFacts DEF Init, TypeOK
<1>2. StampsBehind
  BY WriterAssumption DEF Init, StampsBehind, NoBlock, AtRest
<1>3. SomethingPublished /\ FlagWillClear /\ OvertakingIsSeen /\ BlockIsCurrent /\ WrittenWhenAtPeace
  BY DEF Init, SomethingPublished, FlagWillClear, OvertakingIsSeen, BlockIsCurrent,
         WrittenWhenAtPeace, AtPeace, NoBlock, AtRest
<1>. QED
  BY <1>1, <1>2, <1>3 DEF WriterInv

LEMMA StepInv == WriterInv /\ [Next]_vars => WriterInv'
<1>. SUFFICES ASSUME WriterInv, [Next]_vars PROVE WriterInv'
  OBVIOUS
<1>. USE DEF WriterInv
<1>1. CASE StoreBegins
  <2>1. TypeOK'
    <3>1. clock + 1 \in Nat
      BY DEF TypeOK
    <3>. QED
      BY <1>1, <3>1 DEF StoreBegins, TypeOK, Snapshots
  <2>2. StampsBehind'
    BY <1>1, WriterAssumption DEF StoreBegins, StampsBehind, TypeOK, WriterType, Snapshots
  <2>3. SomethingPublished'
    BY <1>1 DEF StoreBegins, SomethingPublished
  <2>4. FlagWillClear'
    BY <1>1 DEF StoreBegins, FlagWillClear
  <2>5. OvertakingIsSeen'
    BY <1>1 DEF StoreBegins, OvertakingIsSeen, StampsBehind, TypeOK, WriterType
  <2>6. BlockIsCurrent'
    BY <1>1 DEF StoreBegins, BlockIsCurrent, StampsBehind, TypeOK, WriterType
  <2>7. WrittenWhenAtPeace'
    BY <1>1 DEF StoreBegins, WrittenWhenAtPeace, AtPeace
  <2>. QED
    BY <2>1, <2>2, <2>3, <2>4, <2>5, <2>6, <2>7
<1>2. CASE StoreStampsAgain
  <2>1. TypeOK'
    BY <1>2 DEF StoreStampsAgain, TypeOK, WriterType, Snapshots
  <2>2. StampsBehind'
    <3>1. updated' = clock + 1 /\ clock' = clock + 1 /\ main'.snapshot = main.snapshot
      BY <1>2 DEF StoreStampsAgain, TypeOK
    <3>2. \A k \in 1..Len(queue) : queue[k] \in Nat
      BY DEF TypeOK
    <3>3. \A k \in 1..Len(queue)' : queue'[k] <= updated'
      BY <1>2, <3>1, <3>2 DEF StoreStampsAgain, StampsBehind, TypeOK
    <3>. QED
      BY <1>2, <3>1, <3>3, WriterAssumption
      DEF StoreStampsAgain, StampsBehind, TypeOK, WriterType, Snapshots
  <2>3. SomethingPublished'
    BY <1>2 DEF StoreStampsAgain, SomethingPublished
  <2>4. FlagWillClear'
    BY <1>2 DEF StoreStampsAgain, FlagWillClear
  <2>5. OvertakingIsSeen'
    BY <1>2 DEF StoreStampsAgain, OvertakingIsSeen, StampsBehind, TypeOK, WriterType
  <2>6. BlockIsCurrent'
    BY <1>2 DEF StoreStampsAgain, BlockIsCurrent, StampsBehind, TypeOK, WriterType
  <2>7. WrittenWhenAtPeace'
    BY <1>2 DEF StoreStampsAgain, WrittenWhenAtPeace, AtPeace
  <2>. QED
    BY <2>1, <2>2, <2>3, <2>4, <2>5, <2>6, <2>7
<1>3. CASE StorePublishes
  <2>1. TypeOK'
    BY <1>3 DEF StorePublishes, TypeOK, WriterType, Snapshots
  <2>2. StampsBehind'
    BY <1>3, WriterAssumption DEF StorePublishes, StampsBehind, TypeOK, WriterType, Snapshots
  <2>3. SomethingPublished'
    BY <1>3, WriterAssumption DEF StorePublishes, SomethingPublished, TypeOK, Snapshots
  <2>4. FlagWillClear'
    BY <1>3 DEF StorePublishes, FlagWillClear
  <2>5. OvertakingIsSeen'
    BY <1>3 DEF StorePublishes, OvertakingIsSeen, TypeOK
  <2>6. BlockIsCurrent'
    BY <1>3 DEF StorePublishes, BlockIsCurrent, OvertakingIsSeen, TypeOK
  <2>7. WrittenWhenAtPeace'
    BY <1>3 DEF StorePublishes, WrittenWhenAtPeace, AtPeace
  <2>. QED
    BY <2>1, <2>2, <2>3, <2>4, <2>5, <2>6, <2>7
<1>4. CASE StoreTests
  <2>1. TypeOK'
    BY <1>4 DEF StoreTests, AtRest, TypeOK, WriterType, Snapshots
  <2>2. StampsBehind'
    BY <1>4, WriterAssumption
    DEF StoreTests, AtRest, StampsBehind, TypeOK, WriterType, Snapshots
  <2>3. SomethingPublished'
    BY <1>4 DEF StoreTests, AtRest, SomethingPublished
  <2>4. FlagWillClear'
    BY <1>4 DEF StoreTests, AtRest, FlagWillClear
  <2>5. OvertakingIsSeen'
    BY <1>4 DEF StoreTests, AtRest, OvertakingIsSeen, TypeOK
  <2>6. BlockIsCurrent'
    BY <1>4 DEF StoreTests, AtRest, BlockIsCurrent, TypeOK
  <2>7. WrittenWhenAtPeace'
    BY <1>4 DEF StoreTests, AtRest, WrittenWhenAtPeace, AtPeace, FlagWillClear
  <2>. QED
    BY <2>1, <2>2, <2>3, <2>4, <2>5, <2>6, <2>7
<1>5. CASE StoreWrites
  <2>1. TypeOK'
    BY <1>5, AppendFacts
    DEF StoreWrites, WriteStoreToDisk, AtRest, TypeOK, WriterType, Snapshots
  <2>2. StampsBehind'
    BY <1>5, AppendFacts, WriterAssumption
    DEF StoreWrites, WriteStoreToDisk, AtRest, StampsBehind, TypeOK, WriterType, Snapshots
  <2>3. SomethingPublished'
    BY <1>5 DEF StoreWrites, WriteStoreToDisk, AtRest, SomethingPublished
  <2>4. FlagWillClear'
    BY <1>5, AppendFacts DEF StoreWrites, WriteStoreToDisk, AtRest, FlagWillClear
  <2>5. OvertakingIsSeen'
    BY <1>5 DEF StoreWrites, WriteStoreToDisk, AtRest, OvertakingIsSeen, TypeOK
  <2>6. BlockIsCurrent'
    BY <1>5 DEF StoreWrites, WriteStoreToDisk, AtRest, BlockIsCurrent, TypeOK
  <2>7. WrittenWhenAtPeace'
    BY <1>5, AppendFacts
    DEF StoreWrites, WriteStoreToDisk, AtRest, WrittenWhenAtPeace, AtPeace, TypeOK
  <2>. QED
    BY <2>1, <2>2, <2>3, <2>4, <2>5, <2>6, <2>7
<1>6. CASE BlockSerialises
  <2>1. TypeOK'
    BY <1>6, HeadFacts DEF BlockSerialises, TypeOK, WriterType, Snapshots
  <2>2. StampsBehind'
    BY <1>6, HeadFacts, WriterAssumption
    DEF BlockSerialises, StampsBehind, TypeOK, WriterType, Snapshots
  <2>3. SomethingPublished'
    BY <1>6 DEF BlockSerialises, SomethingPublished
  <2>4. FlagWillClear'
    BY <1>6 DEF BlockSerialises, FlagWillClear
  <2>5. OvertakingIsSeen'
    BY <1>6 DEF BlockSerialises, OvertakingIsSeen, TypeOK, WriterType
  <2>6. BlockIsCurrent'
    BY <1>6 DEF BlockSerialises, BlockIsCurrent, TypeOK, WriterType
  <2>7. WrittenWhenAtPeace'
    BY <1>6 DEF BlockSerialises, WrittenWhenAtPeace, AtPeace
  <2>. QED
    BY <2>1, <2>2, <2>3, <2>4, <2>5, <2>6, <2>7
<1>7. CASE BlockWrites
  <2>1. TypeOK'
    BY <1>7 DEF BlockWrites, TypeOK, WriterType, Snapshots
  <2>2. StampsBehind'
    BY <1>7, WriterAssumption DEF BlockWrites, StampsBehind, TypeOK, WriterType, Snapshots
  <2>3. SomethingPublished'
    BY <1>7 DEF BlockWrites, SomethingPublished
  <2>4. FlagWillClear'
    BY <1>7 DEF BlockWrites, FlagWillClear
  <2>5. OvertakingIsSeen'
    BY <1>7 DEF BlockWrites, OvertakingIsSeen, TypeOK, WriterType
  <2>6. BlockIsCurrent'
    BY <1>7 DEF BlockWrites, BlockIsCurrent, TypeOK, WriterType
  <2>7. WrittenWhenAtPeace'
    BY <1>7 DEF BlockWrites, WrittenWhenAtPeace, AtPeace, TypeOK, WriterType
  <2>. QED
    BY <2>1, <2>2, <2>3, <2>4, <2>5, <2>6, <2>7
<1>8. CASE BlockFails
  <2>1. TypeOK'
    BY <1>8 DEF BlockFails, NoBlock, TypeOK, WriterType, Snapshots
  <2>2. StampsBehind'
    BY <1>8, WriterAssumption
    DEF BlockFails, NoBlock, StampsBehind, TypeOK, WriterType, Snapshots
  <2>3. SomethingPublished'
    BY <1>8 DEF BlockFails, NoBlock, SomethingPublished
  <2>4. FlagWillClear'
    BY <1>8 DEF BlockFails, NoBlock, FlagWillClear
  <2>5. OvertakingIsSeen'
    BY <1>8 DEF BlockFails, NoBlock, OvertakingIsSeen, TypeOK, WriterType
  <2>6. BlockIsCurrent'
    BY <1>8 DEF BlockFails, NoBlock, BlockIsCurrent, TypeOK, WriterType
  <2>7. WrittenWhenAtPeace'
    BY <1>8 DEF BlockFails, NoBlock, WrittenWhenAtPeace, AtPeace
  <2>. QED
    BY <2>1, <2>2, <2>3, <2>4, <2>5, <2>6, <2>7
<1>9. CASE BlockClearsFlag
  <2>1. TypeOK'
    BY <1>9 DEF BlockClearsFlag, TypeOK, WriterType, Snapshots
  <2>2. StampsBehind'
    BY <1>9, WriterAssumption DEF BlockClearsFlag, StampsBehind, TypeOK, WriterType, Snapshots
  <2>3. SomethingPublished'
    BY <1>9 DEF BlockClearsFlag, SomethingPublished
  <2>4. FlagWillClear'
    BY <1>9 DEF BlockClearsFlag, FlagWillClear
  <2>5. OvertakingIsSeen'
    BY <1>9 DEF BlockClearsFlag, OvertakingIsSeen, TypeOK, WriterType
  <2>6. BlockIsCurrent'
    BY <1>9 DEF BlockClearsFlag, BlockIsCurrent, TypeOK, WriterType
  <2>7. WrittenWhenAtPeace'
    BY <1>9 DEF BlockClearsFlag, WrittenWhenAtPeace, AtPeace, TypeOK, WriterType
  <2>. QED
    BY <2>1, <2>2, <2>3, <2>4, <2>5, <2>6, <2>7
<1>10. CASE BlockCompares
  <2>1. TypeOK'
    BY <1>10 DEF BlockCompares, NoBlock, TypeOK, WriterType, Snapshots
  <2>2. StampsBehind'
    BY <1>10, WriterAssumption
    DEF BlockCompares, NoBlock, StampsBehind, TypeOK, WriterType, Snapshots
  <2>3. SomethingPublished'
    BY <1>10 DEF BlockCompares, NoBlock, SomethingPublished
  <2>4. FlagWillClear'
    BY <1>10 DEF BlockCompares, NoBlock, FlagWillClear
  <2>5. OvertakingIsSeen'
    BY <1>10 DEF BlockCompares, NoBlock, OvertakingIsSeen, TypeOK, WriterType
  <2>6. BlockIsCurrent'
    BY <1>10 DEF BlockCompares, NoBlock, BlockIsCurrent, TypeOK, WriterType
  <2>7. WrittenWhenAtPeace'
    BY <1>10
    DEF BlockCompares, NoBlock, WrittenWhenAtPeace, AtPeace, BlockIsCurrent, TypeOK,
        WriterType
  <2>. QED
    BY <2>1, <2>2, <2>3, <2>4, <2>5, <2>6, <2>7
<1>11. CASE BlockWritesAgain
  <2>1. TypeOK'
    BY <1>11, AppendFacts
    DEF BlockWritesAgain, WriteStoreToDisk, NoBlock, TypeOK, WriterType, Snapshots
  <2>2. StampsBehind'
    BY <1>11, AppendFacts, WriterAssumption
    DEF BlockWritesAgain, WriteStoreToDisk, NoBlock, StampsBehind, TypeOK, WriterType,
        Snapshots
  <2>3. SomethingPublished'
    BY <1>11 DEF BlockWritesAgain, WriteStoreToDisk, NoBlock, SomethingPublished
  <2>4. FlagWillClear'
    BY <1>11, AppendFacts DEF BlockWritesAgain, WriteStoreToDisk, NoBlock, FlagWillClear
  <2>5. OvertakingIsSeen'
    BY <1>11
    DEF BlockWritesAgain, WriteStoreToDisk, NoBlock, OvertakingIsSeen, TypeOK, WriterType
  <2>6. BlockIsCurrent'
    BY <1>11 DEF BlockWritesAgain, WriteStoreToDisk, NoBlock, BlockIsCurrent, TypeOK, WriterType
  <2>7. WrittenWhenAtPeace'
    BY <1>11, AppendFacts
    DEF BlockWritesAgain, WriteStoreToDisk, NoBlock, WrittenWhenAtPeace, AtPeace, TypeOK,
        WriterType
  <2>. QED
    BY <2>1, <2>2, <2>3, <2>4, <2>5, <2>6, <2>7
<1>12. CASE Restart
  <2>1. TypeOK'
    <3>1. updated' \in Nat
      BY <1>12, Truncation DEF Restart, TypeOK, Snapshots
    <3>2. queue' \in Seq(Nat)
      BY <1>12 DEF Restart
    <3>. QED
      BY <1>12, <3>1, <3>2, RestFacts DEF Restart, TypeOK
  <2>2. StampsBehind'
    BY <1>12, Truncation, WriterAssumption
    DEF Restart, NoBlock, AtRest, StampsBehind, TypeOK, WriterType, Snapshots
  <2>3. SomethingPublished'
    BY <1>12 DEF Restart, NoBlock, AtRest, SomethingPublished
  <2>4. FlagWillClear'
    BY <1>12 DEF Restart, NoBlock, AtRest, FlagWillClear
  <2>5. OvertakingIsSeen'
    BY <1>12 DEF Restart, NoBlock, AtRest, OvertakingIsSeen, TypeOK, WriterType
  <2>6. BlockIsCurrent'
    BY <1>12 DEF Restart, NoBlock, AtRest, BlockIsCurrent, TypeOK, WriterType
  <2>7. WrittenWhenAtPeace'
    BY <1>12 DEF Restart, NoBlock, AtRest, WrittenWhenAtPeace, AtPeace
  <2>. QED
    BY <2>1, <2>2, <2>3, <2>4, <2>5, <2>6, <2>7
<1>13. CASE UNCHANGED vars
  <2>1. TypeOK'
    BY <1>13 DEF vars, TypeOK, WriterType, Snapshots
  <2>2. StampsBehind'
    BY <1>13, WriterAssumption DEF vars, StampsBehind, TypeOK, WriterType, Snapshots
  <2>3. SomethingPublished'
    BY <1>13 DEF vars, SomethingPublished
  <2>4. FlagWillClear'
    BY <1>13 DEF vars, FlagWillClear
  <2>5. OvertakingIsSeen'
    BY <1>13 DEF vars, OvertakingIsSeen, TypeOK
  <2>6. BlockIsCurrent'
    BY <1>13 DEF vars, BlockIsCurrent, TypeOK
  <2>7. WrittenWhenAtPeace'
    BY <1>13 DEF vars, WrittenWhenAtPeace, AtPeace
  <2>. QED
    BY <2>1, <2>2, <2>3, <2>4, <2>5, <2>6, <2>7
<1>. QED
  BY <1>1, <1>2, <1>3, <1>4, <1>5, <1>6, <1>7, <1>8, <1>9, <1>10, <1>11, <1>12, <1>13
  DEF Next, StoreRuns, BlockRuns

LEMMA WriterInvariant == Spec => []WriterInv
  BY InitInv, StepInv, PTL DEF Spec

\* Both threads' variables keep their types.
THEOREM WriterTypeCorrect == Spec => []TypeOK
<1>1. WriterInv => TypeOK
  BY DEF WriterInv
<1>. QED
  BY <1>1, WriterInvariant, PTL

\* _waitToWrite never stays set without a block that will clear it, for any number
\* of stores, failed writes and restarts.
THEOREM FlagNeverStuck == Spec => []FlagWillClear
<1>1. WriterInv => FlagWillClear
  BY DEF WriterInv
<1>. QED
  BY <1>1, WriterInvariant, PTL

\* When -store and the queue are done, the file holds the snapshot published last,
\* unless the last write failed or a block overtook the publication.
THEOREM LastStoreIsWritten == Spec => []WrittenWhenAtPeace
<1>1. WriterInv => WrittenWhenAtPeace
  BY DEF WriterInv
<1>. QED
  BY <1>1, WriterInvariant, PTL

-----------------------------------------------------------------------------
\* -store, writeStoreToDisk and -load implement StoreFile: the file is replaced by
\* whole published snapshots only, in the order of their publication.
THEOREM WriterImplementsFile == Spec => ImplementsFile
<1>1. Init => File!FileInit
  BY DEF Init, NoBlock, File!FileInit
<1>2. WriterInv /\ [Next]_vars => [File!FileNext]_(File!fileVars)
  <2>. SUFFICES ASSUME WriterInv, [Next]_vars
                PROVE  File!FileNext \/ UNCHANGED File!fileVars
    OBVIOUS
  <2>. USE DEF WriterInv, File!fileVars
  <2>1. CASE StorePublishes
    <3>1. main.snapshot # None
      BY WriterAssumption DEF TypeOK, Snapshots
    <3>. QED
      BY <2>1, <3>1 DEF StorePublishes, File!FileNext, File!Publish
  <2>2. CASE BlockSerialises
    BY <2>2 DEF BlockSerialises, SomethingPublished, File!FileNext, File!Serialise
  <2>3. CASE BlockWrites
    BY <2>3 DEF BlockWrites, SomethingPublished, TypeOK, WriterType, File!FileNext, File!WriteFile
  <2>4. CASE BlockFails
    BY <2>4 DEF BlockFails, NoBlock, SomethingPublished, File!FileNext, File!FailToWrite
  <2>5. CASE Restart
    BY <2>5 DEF Restart, NoBlock, File!FileNext, File!Reload
  <2>6. CASE StoreBegins \/ StoreStampsAgain \/ StoreTests \/ StoreWrites \/ UNCHANGED vars
    BY <2>6 DEF StoreBegins, StoreStampsAgain, StoreTests, StoreWrites, vars
  <2>7. CASE BlockClearsFlag \/ BlockCompares \/ BlockWritesAgain
    BY <2>7 DEF BlockClearsFlag, BlockCompares, BlockWritesAgain, NoBlock, TypeOK, WriterType
  <2>. QED
    BY <2>1, <2>2, <2>3, <2>4, <2>5, <2>6, <2>7 DEF Next, StoreRuns, BlockRuns
<1>. QED
  BY <1>1, <1>2, WriterInvariant, PTL DEF Spec, ImplementsFile, File!FileSpec
=============================================================================
