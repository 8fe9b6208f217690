-------------------------- MODULE DeviceStoreWriter --------------------------
(***************************************************************************)
(* How the device store reaches its file                                    *)
(* (src/Devices/DefaultConnectableDeviceStore.m, -store, -writeStoreToDisk   *)
(* and -load).  -store runs on the main thread: it publishes a copy of the  *)
(* records in _deviceStore and, unless a write is pending, dispatches a     *)
(* block to the serial _deviceStoreQueue.  The block writes what is         *)
(* published when it starts and dispatches another one if there was a store *)
(* since it was dispatched.  Only _deviceStore is under a lock:             *)
(* _waitToWrite and _updated are read and written by both threads.          *)
(*                                                                          *)
(* A snapshot is known by its field "updated".  Every reading of the clock  *)
(* gives a new value; records have no part in this.                         *)
(***************************************************************************)
EXTENDS Integers, Sequences

CONSTANTS
    MaxClock,    \* bound on clock: a store takes two values
    Second,      \* values of clock in a second
    None

ASSUME WriterAssumption ==
    /\ MaxClock \in Nat
    /\ Second \in Nat \ {0}
    /\ None \notin Nat

VARIABLES
    updated,         \* _updated
    deviceStore,     \* _deviceStore: the snapshot that is published, or None
    waitToWrite,     \* _waitToWrite
    queue,           \* _deviceStoreQueue: lastUpdated of the blocks that wait
    writer,          \* the block that runs, the snapshot it has serialised
    main,            \* where the main thread is in -store, and its snapshot
    disk,            \* the file: None while it is empty
    clock,
    failed,          \* history: the last block failed to write
    overtaken        \* history: a block ran on the new _updated with the old snapshot

vars == <<updated, deviceStore, waitToWrite, queue, writer, main, disk, clock, failed, overtaken>>

Snapshots == Nat

WriterType ==
    [pc : {"idle", "write", "clear", "compare", "rewrite"}, lastUpdated : Nat,
     json : Snapshots \cup {None}]

NoBlock == [pc |-> "idle", lastUpdated |-> 0, json |-> None]
AtRest  == [pc |-> "idle", snapshot |-> 0]

TypeOK ==
    /\ updated \in Nat
    /\ deviceStore \in Snapshots \cup {None}
    /\ waitToWrite \in BOOLEAN
    /\ queue \in Seq(Nat)
    /\ writer \in WriterType
    /\ main \in [pc : {"idle", "stamped", "publish", "test", "write"}, snapshot : Snapshots]
    /\ disk \in Snapshots \cup {None}
    /\ clock \in Nat
    /\ failed \in BOOLEAN
    /\ overtaken \in BOOLEAN

\* The first start: -load finds no file, makes an empty one and sets _updated.
Init ==
    /\ updated = 1 /\ clock = 1
    /\ deviceStore = None /\ disk = None
    /\ waitToWrite = FALSE /\ queue = <<>> /\ writer = NoBlock
    /\ main = AtRest
    /\ failed = FALSE /\ overtaken = FALSE

-----------------------------------------------------------------------------
(* -store, on the main thread.                                               *)

\* _updated is set and the snapshot made.
StoreBegins ==
    /\ main.pc = "idle"
    /\ clock + 2 <= MaxClock
    /\ clock' = clock + 1
    /\ updated' = clock + 1
    /\ main' = [pc |-> "stamped", snapshot |-> clock + 1]
    /\ overtaken' = FALSE
    /\ UNCHANGED <<deviceStore, waitToWrite, queue, writer, disk, failed>>

\* _updated is set once more.
StoreStampsAgain ==
    /\ main.pc = "stamped"
    /\ clock' = clock + 1
    /\ updated' = clock + 1
    /\ main' = [main EXCEPT !.pc = "publish"]
    /\ UNCHANGED <<deviceStore, waitToWrite, queue, writer, disk, failed, overtaken>>

StorePublishes ==
    /\ main.pc = "publish"
    /\ deviceStore' = main.snapshot
    /\ main' = [main EXCEPT !.pc = "test"]
    /\ UNCHANGED <<updated, waitToWrite, queue, writer, disk, clock, failed, overtaken>>

StoreTests ==
    /\ main.pc = "test"
    /\ main' = IF waitToWrite THEN AtRest ELSE [main EXCEPT !.pc = "write"]
    /\ UNCHANGED <<updated, deviceStore, waitToWrite, queue, writer, disk, clock, failed, overtaken>>

WriteStoreToDisk ==
    /\ waitToWrite' = TRUE
    /\ queue' = Append(queue, updated)

StoreWrites ==
    /\ main.pc = "write"
    /\ WriteStoreToDisk
    /\ main' = AtRest
    /\ UNCHANGED <<updated, deviceStore, writer, disk, clock, failed, overtaken>>

-----------------------------------------------------------------------------
(* The block of writeStoreToDisk, on the serial queue.                       *)

\* Mutant: the block takes the snapshot being made, not the one published.
BlockSerialises_Unpublished ==
    /\ writer.pc = "idle" /\ queue # <<>>
    /\ writer' = [pc |-> "write", lastUpdated |-> Head(queue), json |-> updated]
    /\ queue' = Tail(queue)
    /\ overtaken' = (overtaken \/ (main.pc = "publish" /\ Head(queue) = updated))
    /\ UNCHANGED <<updated, deviceStore, waitToWrite, main, disk, clock, failed>>

\* Mutant: lastUpdated is read when the block starts, not when it is dispatched.
BlockSerialises_ReadsUpdated ==
    /\ writer.pc = "idle" /\ queue # <<>>
    /\ writer' = [pc |-> "write", lastUpdated |-> updated, json |-> deviceStore]
    /\ queue' = Tail(queue)
    /\ overtaken' = (overtaken \/ (main.pc = "publish" /\ Head(queue) = updated))
    /\ UNCHANGED <<updated, deviceStore, waitToWrite, main, disk, clock, failed>>

BlockSerialises ==
    /\ writer.pc = "idle" /\ queue # <<>>
    /\ writer' = [pc |-> "write", lastUpdated |-> Head(queue), json |-> deviceStore]
    /\ queue' = Tail(queue)
    /\ overtaken' = (overtaken \/ (main.pc = "publish" /\ Head(queue) = updated))
    /\ UNCHANGED <<updated, deviceStore, waitToWrite, main, disk, clock, failed>>

BlockWrites ==
    /\ writer.pc = "write"
    /\ disk' = writer.json
    /\ writer' = [writer EXCEPT !.pc = "clear"]
    /\ failed' = FALSE
    /\ UNCHANGED <<updated, deviceStore, waitToWrite, queue, main, clock, overtaken>>

\* Mutant: the error path returns without clearing the flag.
BlockFails_KeepsFlag ==
    /\ writer.pc = "write"
    /\ writer' = NoBlock
    /\ failed' = TRUE
    /\ UNCHANGED <<updated, deviceStore, waitToWrite, queue, main, disk, clock, overtaken>>

\* jsonError or writeError: the flag is cleared, nothing is tried again.
BlockFails ==
    /\ writer.pc = "write"
    /\ waitToWrite' = FALSE
    /\ writer' = NoBlock
    /\ failed' = TRUE
    /\ UNCHANGED <<updated, deviceStore, queue, main, disk, clock, overtaken>>

BlockClearsFlag ==
    /\ writer.pc = "clear"
    /\ waitToWrite' = FALSE
    /\ writer' = [writer EXCEPT !.pc = "compare"]
    /\ UNCHANGED <<updated, deviceStore, queue, main, disk, clock, failed, overtaken>>

\* Mutant: the block ends without looking whether there was a store meanwhile.
BlockCompares_Not ==
    /\ writer.pc = "compare"
    /\ writer' = NoBlock
    /\ UNCHANGED <<updated, deviceStore, waitToWrite, queue, main, disk, clock, failed, overtaken>>

BlockCompares ==
    /\ writer.pc = "compare"
    /\ writer' = IF writer.lastUpdated # updated THEN [writer EXCEPT !.pc = "rewrite"] ELSE NoBlock
    /\ UNCHANGED <<updated, deviceStore, waitToWrite, queue, main, disk, clock, failed, overtaken>>

BlockWritesAgain ==
    /\ writer.pc = "rewrite"
    /\ WriteStoreToDisk
    /\ writer' = NoBlock
    /\ UNCHANGED <<updated, deviceStore, main, disk, clock, failed, overtaken>>

-----------------------------------------------------------------------------
\* Mutant: _updated is taken from the file without looking for nil.
Restart_NoNilCheck ==
    /\ deviceStore' = disk
    /\ updated' = disk
    /\ waitToWrite' = FALSE /\ queue' = <<>> /\ writer' = NoBlock /\ main' = AtRest
    /\ failed' = FALSE /\ overtaken' = FALSE
    /\ UNCHANGED <<disk, clock>>

\* The process ends, with whatever it was about to write, and -load reads the
\* file; an empty one is a parsing error.  [updated intValue] drops the fraction.
Restart ==
    /\ deviceStore' = disk
    /\ updated' = IF disk = None THEN 0 ELSE disk - (disk % Second)
    /\ waitToWrite' = FALSE /\ queue' = <<>> /\ writer' = NoBlock /\ main' = AtRest
    /\ failed' = FALSE /\ overtaken' = FALSE
    /\ UNCHANGED <<disk, clock>>

StoreRuns == StoreStampsAgain \/ StorePublishes \/ StoreTests \/ StoreWrites

BlockRuns ==
    \/ BlockSerialises \/ BlockWrites \/ BlockFails \/ BlockClearsFlag
    \/ BlockCompares \/ BlockWritesAgain

Next == StoreBegins \/ StoreRuns \/ BlockRuns \/ Restart

Spec == Init /\ [][Next]_vars

\* Both threads go on.
FairSpec == Spec /\ WF_vars(StoreRuns) /\ WF_vars(BlockRuns)

-----------------------------------------------------------------------------
(* Properties.                                                               *)

\* While _waitToWrite is set, a block waits or runs that will clear it: no order
\* of the two threads and no failed write leaves the flag set for good, which
\* would keep every later -store from the file.
FlagWillClear ==
    waitToWrite => queue # <<>> \/ writer.pc \in {"write", "clear"}

AtPeace == main.pc = "idle" /\ queue = <<>> /\ writer.pc = "idle"

\* When both threads are done the file holds the snapshot published last,
\* although -store dispatches nothing while a block is pending - unless the last
\* write failed, or a block that was dispatched on the new _updated took the old
\* snapshot before -store published the new one.
WrittenWhenAtPeace ==
    AtPeace /\ ~failed /\ ~overtaken => disk = deviceStore

\* A snapshot that is published gets into the file, or a later one does, unless
\* the process ends, a write fails or the block overtakes it: writing again after
\* each store that came meanwhile (writeStoreToDisk) comes to an end.
StoreReachesFile ==
    \A s \in 1..MaxClock :
        deviceStore = s ~> \/ disk # None /\ disk >= s
                           \/ failed \/ overtaken
                           \/ deviceStore # None /\ deviceStore < s
                           \/ deviceStore = None

\* The file always holds a whole snapshot that had been published, and the order
\* of the writes is that of the snapshots: this module implements StoreFile.
File == INSTANCE StoreFile WITH json <- IF writer.pc = "write" THEN writer.json ELSE None

ImplementsFile == File!FileSpec
=============================================================================
