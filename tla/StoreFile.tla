------------------------------ MODULE StoreFile ------------------------------
(***************************************************************************)
(* What the writing of the device store promises to the rest of it: the     *)
(* file always holds a snapshot that was published, whole; each write takes *)
(* what is published when its block starts; a write may fail; a restart     *)
(* finds the file as it is and publishes it again.  When writes happen is   *)
(* left open: see DeviceStoreWriter, which implements this.                 *)
(***************************************************************************)
CONSTANT None

VARIABLES
    deviceStore,   \* _deviceStore, or None
    json,          \* what the running block has serialised, or None
    disk           \* the file, None while it is empty

fileVars == <<deviceStore, json, disk>>

FileInit == deviceStore = None /\ json = None /\ disk = None

\* -store assigns a new snapshot to _deviceStore.
Publish == deviceStore' # None /\ UNCHANGED <<json, disk>>

\* A block starts and serialises _deviceStore.
Serialise == deviceStore # None /\ json' = deviceStore /\ UNCHANGED <<deviceStore, disk>>

\* writeToFile:atomically:
WriteFile == json # None /\ disk' = json /\ json' = None /\ UNCHANGED deviceStore

\* jsonError or writeError
FailToWrite == json # None /\ json' = None /\ UNCHANGED <<deviceStore, disk>>

\* The process ends, -load reads the file.
Reload == deviceStore' = disk /\ json' = None /\ UNCHANGED disk

FileNext ==
    \/ Publish
    \/ Serialise
    \/ WriteFile
    \/ FailToWrite
    \/ Reload

FileSpec == FileInit /\ [][FileNext]_fileVars
=============================================================================
