-------------------------------- MODULE IoFile --------------------------------
(***************************************************************************)
(* The life of file objects (src/nboxkrnl/io and nt/file.cpp) on a volume  *)
(* of the FATX file system (io/hdd/fatx.cpp): the mount on the first open, *)
(* opening, requests on the file object's lock, closing, deletion.         *)
(*                                                                         *)
(* The FATX routines hold the volume's lock and are one step each; so is   *)
(* an interlocked operation and what runs under IoLock or ObLock.  Between *)
(* two steps another thread may run: an operation is the steps its thread  *)
(* has still to do.  All files are opened for synchronous I/O, as any      *)
(* other request stops the machine.                                        *)
(*                                                                         *)
(* The handle table is ObjectManager's subject.  FileObjectCount is left   *)
(* out: it is compared with 0 for dismounted volumes only, which have no   *)
(* files.  Directories are files here.                                     *)
(***************************************************************************)
EXTENDS Integers, Sequences, FiniteSets

CONSTANTS
    Threads,
    Files,      \* what ObCreateObject may return; memory is not reused
    Names,      \* paths on the volume
    Volume,     \* VolumeExtension->VolumeInfo, and the empty path it stands for
    NoInfo,     \* a null FsContext2
    Asked,      \* bound: what is asked for, [access, shared : SUBSET Rights]
    OpenLimit,  \* how many opens a SHARE_ACCESS counts (255)
    MaxHandles  \* bound: a file with so many handles is not duplicated

Rights == {"read", "write", "delete"}

ASSUME IoFileAssumption ==
    /\ Volume \notin Names /\ Volume \notin Files /\ NoInfo \notin Files \union {Volume}
    /\ Asked \subseteq [access : SUBSET Rights, shared : SUBSET Rights]
    /\ OpenLimit \in Nat \ {0} /\ MaxHandles \in Nat \ {0}

VARIABLES
    volumes,    \* volumes created for the device: MountedOrSelfDevice is the last
    references, \* ReferenceCount of the volume's device object
    mounting,   \* threads that hold DeviceLock
    files,      \* FILE_OBJECTs, with their counts and what FATX keeps in them
    infos,      \* FATX_FILE_INFOs, each called after the file it was made for
    todo,       \* the steps each thread's operation has still to do
    crashed     \* which corruption has happened, if any

deviceVars == <<volumes, references, mounting>>
vars == <<deviceVars, files, infos, todo, crashed>>

Infos == Files \union {Volume}

NoShare == [open |-> 0, access |-> [r \in Rights |-> 0], shared |-> [r \in Rights |-> 0]]

NewFile ==
    [state |-> "live",
     pointers |-> 1, handles |-> 0,
     device |-> TRUE,         \* DeviceObject is set
     handleCreated |-> FALSE, \* FO_HANDLE_CREATED
     cleaned |-> FALSE,       \* FO_CLEANUP_COMPLETE
     lockCount |-> -1, lockSignal |-> FALSE,
     info |-> NoInfo,         \* FsContext2
     access |-> {}, shared |-> {}]

NewInfo(name) ==
    [state |-> "listed", name |-> name, references |-> 0, share |-> NoShare,
     deleteOnClose |-> FALSE]

UnusedFile == [NewFile EXCEPT !.state = "unborn", !.pointers = 0]
UnusedInfo == [NewInfo(Volume) EXCEPT !.state = "none"]

Init ==
    /\ volumes = 0 /\ references = 0 /\ mounting = {}
    /\ files = [f \in Files |-> UnusedFile]
    /\ infos = [i \in Infos |-> UnusedInfo]
    /\ todo = [t \in Threads |-> <<>>]
    /\ crashed = "no"

-----------------------------------------------------------------------------
(* Steps.                                                                   *)

Step(op, f) == [op |-> op, file |-> f]

Idle(t) == crashed = "no" /\ todo[t] = <<>>
At(t, op) == crashed = "no" /\ todo[t] # <<>> /\ Head(todo[t]).op = op
Current(t) == Head(todo[t]).file
Start(t, steps) == todo' = [todo EXCEPT ![t] = steps]
Then(t, steps) == todo' = [todo EXCEPT ![t] = steps \o Tail(@)]

\* A list, a count or a freed object has been corrupted: the model stops, and
\* the rest of the state no longer means anything.
Crash(why) ==
    /\ crashed' = why
    /\ volumes' = 0 /\ references' = 0 /\ mounting' = {}
    /\ files' = [f \in Files |-> UnusedFile]
    /\ infos' = [i \in Infos |-> UnusedInfo]
    /\ todo' = [t \in Threads |-> <<>>]

-----------------------------------------------------------------------------
(* The lock of a file object.                                               *)

\* IopAcquireSynchronousFileLock.
IopAcquireSynchronousFileLock(t) ==
    /\ At(t, "acquire")
    /\ LET f == Current(t)
       IN  /\ files' = [files EXCEPT ![f].lockCount = @ + 1]
           /\ Then(t, IF files[f].lockCount = -1 THEN <<>> ELSE <<Step("wait", f)>>)
    /\ UNCHANGED <<deviceVars, infos, crashed>>

\* The wait on FileObject->Lock, a synchronization event, ends for who comes
\* when it is signalled.  Who comes earlier blocks, which is no step here: a
\* thread at "wait" may or may not be asleep already.
WaitForFileLock(t) ==
    /\ At(t, "wait")
    /\ files[Current(t)].lockSignal
    /\ files' = [files EXCEPT ![Current(t)].lockSignal = FALSE]
    /\ Then(t, <<>>)
    /\ UNCHANGED <<deviceVars, infos, crashed>>

\* Mutant: nobody is woken for the last claim.
LateMustSignal(count) == count > 1

\* Somebody else has claimed the lock, after the decrement.
MustSignal(count) == count > 0

\* IopReleaseSynchronousFileLock, up to the event.
IopReleaseSynchronousFileLock(t) ==
    /\ At(t, "release")
    /\ LET f == Current(t)
       IN  /\ files' = [files EXCEPT ![f].lockCount = @ - 1]
           /\ Then(t, IF MustSignal(files[f].lockCount) THEN <<Step("signal", f)>> ELSE <<>>)
    /\ UNCHANGED <<deviceVars, infos, crashed>>

\* KeSetEvent, the threads that have claimed the lock being still on their way
\* to the wait.
SignalFileLock(t) ==
    /\ At(t, "signal")
    /\ files' = [files EXCEPT ![Current(t)].lockSignal = TRUE]
    /\ Then(t, <<>>)
    /\ UNCHANGED <<deviceVars, infos, crashed>>

\* KeSetEvent, one of them being asleep: what it takes for the WaitType of that
\* thread's wait block is the upper half of a pointer in the object's next
\* event (ke/event.cpp:165, io/iop.hpp:306), never WaitAll, so that it unwaits
\* a thread that is none.
SignalFindsSleeper(t) ==
    /\ At(t, "signal")
    /\ \E u \in Threads : At(u, "wait") /\ Current(u) = Current(t)
    /\ Crash("wild unwait")

-----------------------------------------------------------------------------
(* References, and what the last one's end does.                            *)

\* IopCloseFile for the last handle.
CleanupSteps(f) == <<Step("acquire", f), Step("cleanup", f), Step("release", f)>>

\* Mutant: a file nobody refers to is closed without its lock.
UnlockedDeleteSteps(f) ==
    (IF files[f].device THEN <<Step("close", f), Step("volume", f)>> ELSE <<>>)
    \o <<Step("free", f)>>

\* IopDeleteFile; the lock is not given back.
DeleteSteps(f) ==
    (IF ~files[f].device THEN <<>>
     ELSE (IF files[f].handleCreated THEN <<>> ELSE CleanupSteps(f))
          \o <<Step("acquire", f), Step("close", f), Step("volume", f)>>)
    \o <<Step("free", f)>>

\* ObfDereferenceObject.
ObfDereferenceObject(t) ==
    /\ At(t, "deref")
    /\ LET f == Current(t)
       IN  /\ files' = [files EXCEPT ![f].pointers = @ - 1]
           /\ Then(t, IF files[f].pointers = 1 THEN DeleteSteps(f) ELSE <<>>)
    /\ UNCHANGED <<deviceVars, infos, crashed>>

\* The end of ObfDereferenceObject: the memory.
FreeFile(t) ==
    /\ At(t, "free")
    /\ files' = [files EXCEPT ![Current(t)].state = "freed"]
    /\ Then(t, <<>>)
    /\ UNCHANGED <<deviceVars, infos, crashed>>

\* IopDereferenceDeviceObject; a mounted volume is not DeletePending.
IopDereferenceDeviceObject(t) ==
    /\ At(t, "volume")
    /\ references' = references - 1
    /\ Then(t, <<>>)
    /\ UNCHANGED <<volumes, mounting, files, infos, crashed>>

-----------------------------------------------------------------------------
(* Opening.                                                                 *)

\* NtCreateFile and NtOpenFile reach IoParseDevice.
NtCreateFile(t) ==
    /\ Idle(t)
    /\ Start(t, <<Step("parse", NoInfo)>>)
    /\ UNCHANGED <<deviceVars, files, infos, crashed>>

\* IoParseDevice finds no volume and calls IopMountDevice.
MountNeeded(t) ==
    /\ At(t, "parse") /\ volumes = 0
    /\ Then(t, <<Step("lockdevice", NoInfo), Step("mount", NoInfo), Step("parse", NoInfo)>>)
    /\ UNCHANGED <<deviceVars, files, infos, crashed>>

WaitForDeviceLock(t) ==
    /\ At(t, "lockdevice") /\ mounting = {}
    /\ mounting' = {t}
    /\ Then(t, <<>>)
    /\ UNCHANGED <<volumes, references, files, infos, crashed>>

\* What the thread that gets DeviceLock does: a volume may be there by now.
Mounted == IF volumes = 0 THEN 1 ELSE volumes

\* IopMountDevice under DeviceLock, with FatxCreateVolume succeeding.
IopMountDevice(t) ==
    /\ At(t, "mount")
    /\ volumes' = Mounted
    /\ mounting' = {}
    /\ Then(t, <<>>)
    /\ UNCHANGED <<references, files, infos, crashed>>

\* FatxCreateVolume fails without a device object, and so does the open.
IopMountDeviceFails(t) ==
    /\ At(t, "mount") /\ volumes = 0
    /\ mounting' = {}
    /\ Start(t, <<>>)
    /\ UNCHANGED <<volumes, references, files, infos, crashed>>

\* IopMountDevice gives DeviceLock back while a thread sleeps for it: the
\* halfword taken for the WaitType lies behind the device object's fields.  If
\* it does not read WaitAll, KeSetEvent unwaits a thread that is none.
DeviceLockFindsSleeper(t) ==
    /\ At(t, "mount")
    /\ \E u \in Threads : At(u, "lockdevice")
    /\ Crash("wild unwait")

\* FatxCreateVolume cannot read the superblock: FatxDeleteVolume dereferences
\* the device object IoDeleteDevice has freed.
FatxDeleteVolume(t) ==
    /\ At(t, "mount") /\ volumes = 0
    /\ Crash("volume freed twice")

\* IoParseDevice up to the request: a reference to the volume, and a file
\* object unless the IRP or the object cannot be allocated.
IoParseDevice(t) ==
    /\ At(t, "parse") /\ volumes # 0
    /\ references' = references + 1
    /\ \/ \E f \in Files :
            /\ files[f].state = "unborn"
            /\ files' = [files EXCEPT ![f] = NewFile]
            /\ Then(t, <<Step("create", f)>>)
       \/ /\ Then(t, <<Step("volume", NoInfo)>>)
          /\ UNCHANGED files
    /\ UNCHANGED <<volumes, mounting, infos, crashed>>

\* SHARE_ACCESS with an open for these rights, sharing those, added or removed.
Counted(share, access, shared, by) ==
    LET count(counts, set) == [r \in Rights |-> counts[r] + (IF r \in set THEN by ELSE 0)]
    IN  IF access = {} THEN share
        ELSE [open |-> share.open + by,
              access |-> count(share.access, access),
              shared |-> count(share.shared, shared)]

\* Mutant: what the earlier opens do not share is looked at, what they do is not.
OneSidedMayShare(share, asked) ==
    asked.access = {} \/ \A r \in asked.access : share.shared[r] = share.open

\* IoCheckShareAccess: everybody shares what is asked for, what is shared
\* covers what everybody has.
MayShare(share, asked) ==
    \/ asked.access = {}
    \/ /\ share.open < OpenLimit
       /\ \A r \in asked.access : share.shared[r] = share.open
       /\ \A r \in Rights : share.access[r] # 0 => r \in asked.shared

\* IoSetShareAccess for the first open, IoCheckShareAccess for others.
Opened(share, asked) ==
    Counted(IF share.open = 0 THEN NoShare ELSE share, asked.access, asked.shared, 1)

\* IoParseDevice after the open: the file gets a reference for IoCreateFile.
ToHandle(t, f, i, asked) ==
    /\ files' = [files EXCEPT ![f].info = i, ![f].pointers = @ + 1,
                              ![f].access = asked.access,
                              ![f].shared = IF asked.access = {} THEN {} ELSE asked.shared]
    /\ Then(t, <<Step("handle", f), Step("created", f), Step("deref", f)>>)

\* Mutant: the volume's reference is left to the file, which has no device.
RefusedKeepsVolume(t, f) ==
    /\ files' = [files EXCEPT ![f].device = FALSE]
    /\ Then(t, <<Step("deref", f)>>)

\* The open fails: IoParseDevice takes the file's device away.
Refused(t, f) ==
    /\ files' = [files EXCEPT ![f].device = FALSE]
    /\ Then(t, <<Step("deref", f), Step("volume", NoInfo)>>)

Listed(name) == {i \in Infos : infos[i].state = "listed" /\ infos[i].name = name}

\* An open file of this name may be opened once more.
Admits(i, asked) ==
    /\ ~infos[i].deleteOnClose
    /\ infos[i].share.open = 0 \/ MayShare(infos[i].share, asked)

\* FatxIrpCreate fails before it has changed anything (names, options, sharing,
\* STATUS_DELETE_PENDING), or after it undid what it changed: a new
\* FATX_FILE_INFO goes when the host refuses the open.
FatxIrpCreateFails(t) ==
    /\ At(t, "create")
    /\ Refused(t, Current(t))
    /\ UNCHANGED <<deviceVars, infos, crashed>>

\* FatxIrpCreate of a file nobody has open, which may be for deletion.  The
\* host knows it by the address of a variable on the caller's stack, which is
\* the same for whatever a thread opens from the same depth of calls.
FatxIrpCreateNew(t) ==
    /\ At(t, "create")
    /\ \E name \in Names, asked \in Asked, delete \in BOOLEAN :
         /\ delete => "delete" \in asked.access
         /\ Listed(name) = {}
         /\ infos' = [infos EXCEPT ![Current(t)] =
                [NewInfo(name) EXCEPT !.references = 1, !.deleteOnClose = delete,
                                         !.share = Opened(NoShare, asked)]]
         /\ ToHandle(t, Current(t), Current(t), asked)
    /\ UNCHANGED <<deviceVars, crashed>>

\* FatxIrpCreate of a file that is open.
FatxIrpCreateAgain(t) ==
    /\ At(t, "create")
    /\ \E name \in Names, asked \in Asked : \E i \in Listed(name) :
         /\ Admits(i, asked)
         /\ infos' = [infos EXCEPT ![i].references = @ + 1,
                                   ![i].share = Opened(@, asked)]
         /\ ToHandle(t, Current(t), i, asked)
    /\ UNCHANGED <<deviceVars, crashed>>

\* FatxIrpCreate of a file that is open, which the host refuses: the sharing is
\* undone, the reference is not.
FatxIrpCreateHostFails(t) ==
    /\ At(t, "create")
    /\ \E name \in Names, asked \in Asked : \E i \in Listed(name) :
         /\ Admits(i, asked)
         /\ infos' = [infos EXCEPT ![i].references = @ + 1,
                ![i].share = Counted(Opened(@, asked), asked.access, asked.shared, -1)]
    /\ Refused(t, Current(t))
    /\ UNCHANGED <<deviceVars, crashed>>

\* FatxIrpCreate of the volume itself.
FatxIrpCreateVolume(t) ==
    /\ At(t, "create") /\ infos[Volume].state = "none"
    /\ \E asked \in Asked :
         /\ Admits(Volume, asked)
         /\ infos' = [infos EXCEPT ![Volume] =
                [infos[Volume] EXCEPT !.state = "listed", !.references = @ + 1,
                                      !.share = Opened(@, asked)]]
         /\ ToHandle(t, Current(t), Volume, asked)
    /\ UNCHANGED <<deviceVars, crashed>>

\* The same while it is open: VolumeInfo is inserted into OpenFileList again,
\* which turns the list into a loop FatxFindOpenFile does not leave.
VolumeListedTwice(t) ==
    /\ At(t, "create") /\ infos[Volume].state = "listed"
    /\ \E asked \in Asked : Admits(Volume, asked)
    /\ Crash("volume listed twice")

\* ObOpenObjectByName: the reference becomes the handle's.
ObOpenObjectByName(t) ==
    /\ At(t, "handle")
    /\ files' = [files EXCEPT ![Current(t)].handles = @ + 1]
    /\ Then(t, <<>>)
    /\ UNCHANGED <<deviceVars, infos, crashed>>

\* IoCreateFile at its end.
IoCreateFile(t) ==
    /\ At(t, "created")
    /\ files' = [files EXCEPT ![Current(t)].handleCreated = TRUE]
    /\ Then(t, <<>>)
    /\ UNCHANGED <<deviceVars, infos, crashed>>

-----------------------------------------------------------------------------
(* Requests.                                                                *)

\* A call with a handle of the file starts: a reference, and these steps.
WithHandle(t, f, steps) ==
    /\ Idle(t)
    /\ files[f].handles > 0
    /\ files' = [files EXCEPT ![f].pointers = @ + 1]
    /\ Start(t, steps)
    /\ UNCHANGED <<deviceVars, infos, crashed>>

\* NtReadFile, NtWriteFile and NtQueryVolumeInformationFile: IopCompleteRequest
\* gives the reference back before IopSynchronousService releases the lock.
NtReadFile(t, f) ==
    WithHandle(t, f, <<Step("acquire", f), Step("transfer", f),
                       Step("deref", f), Step("release", f)>>)

\* NtQueryInformationFile, and any of these when there is no memory for the
\* IRP (IopCleanupFailedIrpAllocation).
NtQueryInformationFile(t, f) ==
    \/ WithHandle(t, f, <<Step("acquire", f), Step("transfer", f),
                          Step("release", f), Step("deref", f)>>)
    \/ WithHandle(t, f, <<Step("acquire", f), Step("release", f), Step("deref", f)>>)

\* Any of these without the access it takes or with bad parameters.
RequestFails(t, f) == WithHandle(t, f, <<Step("deref", f)>>)

\* FatxIrpRead and its like, which look at FO_CLEANUP_COMPLETE first.
FatxIrpTransfer(t) ==
    /\ At(t, "transfer")
    /\ Then(t, <<>>)
    /\ UNCHANGED <<deviceVars, files, infos, crashed>>

\* NtDuplicateObject: the new handle comes with ObInsertObject.
NtDuplicateObject(t, f) ==
    /\ files[f].handles < MaxHandles
    /\ WithHandle(t, f, <<Step("duplicate", f), Step("deref", f)>>)

ObInsertObject(t) ==
    /\ At(t, "duplicate")
    /\ files' = [files EXCEPT ![Current(t)].handles = @ + 1, ![Current(t)].pointers = @ + 1]
    /\ Then(t, <<>>)
    /\ UNCHANGED <<deviceVars, infos, crashed>>

-----------------------------------------------------------------------------
(* Closing.                                                                 *)

\* SystemHandleCount is of before the close.
IsLastHandle(f) == files[f].handles = 1

\* NtClose: the handle, IopCloseFile if it was the last, the reference.
NtClose(t, f) ==
    /\ Idle(t)
    /\ files[f].handles > 0
    /\ files' = [files EXCEPT ![f].handles = @ - 1,
                              ![f].handleCreated = @ \/ IsLastHandle(f)]
    /\ Start(t, (IF IsLastHandle(f) THEN CleanupSteps(f) ELSE <<>>)
                \o <<Step("deref", f)>>)
    /\ UNCHANGED <<deviceVars, infos, crashed>>

ShareAfterCleanup(f) ==
    Counted(infos[files[f].info].share, files[f].access, files[f].shared, -1)

\* FatxIrpCleanup.
FatxIrpCleanup(t) ==
    /\ At(t, "cleanup")
    /\ LET f == Current(t)
       IN  /\ ~files[f].cleaned
           /\ files' = [files EXCEPT ![f].cleaned = TRUE]
           /\ infos' = [infos EXCEPT ![files[f].info].share = ShareAfterCleanup(f)]
    /\ Then(t, <<>>)
    /\ UNCHANGED <<deviceVars, crashed>>

\* The last handle is closed a second time, as one was made from a reference
\* (NtDuplicateObject) after the last was closed: IoRemoveShareAccess takes the
\* same open off the counts again.
CleanedTwice(t) ==
    /\ At(t, "cleanup") /\ files[Current(t)].cleaned
    /\ Crash("cleaned twice")

\* Mutant: the FATX_FILE_INFO goes with the last open that is counted.
LastCountedUse(i) == infos[i].share.open = 0

LastUse(i) == infos[i].references = 1

\* FatxIrpClose: with the last open the FATX_FILE_INFO goes, VolumeInfo only
\* from the list.
FatxIrpClose(t) ==
    /\ At(t, "close")
    /\ LET f == Current(t)
           i == files[f].info
           closed == [infos[i] EXCEPT !.references = @ - 1]
       IN  /\ infos' = [infos EXCEPT ![i] =
                 IF ~LastUse(i) THEN closed
                 ELSE IF i = Volume THEN [closed EXCEPT !.state = "none"]
                 ELSE [closed EXCEPT !.state = "freed"]]
           /\ files' = [files EXCEPT ![f].info = IF LastUse(i) THEN NoInfo ELSE @]
    /\ Then(t, <<>>)
    /\ UNCHANGED <<deviceVars, crashed>>

-----------------------------------------------------------------------------
Next ==
    \E t \in Threads :
        \/ IopAcquireSynchronousFileLock(t) \/ WaitForFileLock(t)
        \/ IopReleaseSynchronousFileLock(t) \/ SignalFileLock(t) \/ SignalFindsSleeper(t)
        \/ ObfDereferenceObject(t) \/ FreeFile(t) \/ IopDereferenceDeviceObject(t)
        \/ NtCreateFile(t)
        \/ MountNeeded(t) \/ WaitForDeviceLock(t) \/ IopMountDevice(t)
        \/ IopMountDeviceFails(t) \/ DeviceLockFindsSleeper(t) \/ FatxDeleteVolume(t)
        \/ IoParseDevice(t)
        \/ FatxIrpCreateFails(t) \/ FatxIrpCreateNew(t) \/ FatxIrpCreateAgain(t)
        \/ FatxIrpCreateHostFails(t) \/ FatxIrpCreateVolume(t) \/ VolumeListedTwice(t)
        \/ ObOpenObjectByName(t) \/ IoCreateFile(t)
        \/ \E f \in Files :
             \/ NtReadFile(t, f) \/ NtQueryInformationFile(t, f) \/ RequestFails(t, f)
             \/ NtDuplicateObject(t, f) \/ NtClose(t, f)
        \/ FatxIrpTransfer(t) \/ ObInsertObject(t)
        \/ FatxIrpCleanup(t) \/ CleanedTwice(t) \/ FatxIrpClose(t)

Spec == Init /\ [][Next]_vars

-----------------------------------------------------------------------------
(* Properties.                                                              *)

Steps == {"parse", "lockdevice", "mount", "create", "handle", "created", "duplicate",
          "acquire", "wait", "transfer", "cleanup", "close", "release", "signal",
          "deref", "volume", "free"}

\* Every variable has its type: counts never wrap, a lock's count starts at -1.
TypeOK ==
    /\ volumes \in Nat /\ references \in Nat
    /\ mounting \subseteq Threads /\ Cardinality(mounting) <= 1
    /\ \A f \in Files :
         /\ files[f].state \in {"unborn", "live", "freed"}
         /\ files[f].pointers \in Nat /\ files[f].handles \in Nat
         /\ files[f].lockCount \in Nat \union {-1}
         /\ files[f].info \in Infos \union {NoInfo}
         /\ files[f].access \subseteq Rights /\ files[f].shared \subseteq Rights
    /\ \A i \in Infos :
         /\ infos[i].state \in {"none", "listed", "freed"}
         /\ infos[i].name \in Names \union {Volume}
         /\ infos[i].references \in Nat
         /\ infos[i].share \in [open : 0..OpenLimit, access : [Rights -> 0..OpenLimit],
                                shared : [Rights -> 0..OpenLimit]]
    /\ todo \in [Threads -> Seq([op : Steps, file : Files \union {NoInfo}])]
    /\ crashed \in {"no", "volume freed twice", "volume listed twice", "cleaned twice",
                   "wild unwait"}

\* The steps of these kinds that threads have still to do with f.
Pending(ops, f) ==
    UNION {{<<t, k>> : k \in {j \in DOMAIN todo[t] :
                todo[t][j].op \in ops /\ todo[t][j].file = f}} : t \in Threads}

\* A file object's pointer count is what refers to it: handles, and the
\* references that calls under way will give back.
PointersExact ==
    \A f \in Files : files[f].pointers =
        files[f].handles + Cardinality(Pending({"create", "handle", "deref"}, f))

\* Nobody has anything left to do with a file object that has been freed: the
\* lock in it is released after the reference is given back, and IopDeleteFile
\* may run in the middle of a request.
FreedUntouched ==
    \A t \in Threads : \A k \in DOMAIN todo[t] :
        todo[t][k].file # NoInfo => files[todo[t][k].file].state = "live"

\* t is between acquiring f's lock and releasing it.
Holds(t, f) ==
    \E k \in DOMAIN todo[t] :
        /\ todo[t][k] \in {Step("release", f), Step("close", f)}
        /\ \A j \in 1..(k - 1) : todo[t][j] \notin {Step("acquire", f), Step("wait", f)}

\* The lock of a file object admits one request at a time, cleanup and close
\* included.
OneRequestAtATime ==
    \A f \in Files : Cardinality({t \in Threads : Holds(t, f)}) <= 1

\* Somebody will call KeSetEvent for a thread that waits: the release looks at
\* LockCount and signals later, when others have come.
WaiterRemembered ==
    \A t \in Threads, f \in Files :
        todo[t] # <<>> /\ Head(todo[t]) = Step("wait", f) =>
            files[f].lockSignal \/ Pending({"release", "signal"}, f) # {}

\* FATX has f open: from the end of its creation to the end of its close.
IsOpen(f) ==
    /\ files[f].state = "live" /\ files[f].device /\ files[f].info # NoInfo
    /\ files[f].pointers > 0 \/ Pending({"close"}, f) # {}

\* A FATX_FILE_INFO stays on the list as long as a file object is open on it,
\* whatever rights the file was opened with, and no two are of one name.
InfosOutliveFiles ==
    /\ \A f \in Files : IsOpen(f) =>
         /\ infos[files[f].info].state = "listed"
         /\ infos[files[f].info].references
              >= Cardinality({g \in Files : IsOpen(g) /\ files[g].info = files[f].info})
    /\ \A name \in Names : Cardinality(Listed(name)) <= 1

\* The files whose sharing counts.
Sharers(i) ==
    {f \in Files : IsOpen(f) /\ ~files[f].cleaned /\ files[f].info = i /\ files[f].access # {}}

\* Two files are open together only if each shares what the other may do.
SharingHolds ==
    \A i \in Infos : \A f, g \in Sharers(i) :
        f # g => files[f].access \subseteq files[g].shared

\* The counts of a SHARE_ACCESS are those of the files that are open and not
\* cleaned up, through failed opens, opens without rights, cleanup and close.
ShareCountsExact ==
    \A i \in Infos : infos[i].state = "listed" =>
        /\ infos[i].share.open = Cardinality(Sharers(i))
        /\ \A r \in Rights :
             /\ infos[i].share.access[r] = Cardinality({f \in Sharers(i) : r \in files[f].access})
             /\ infos[i].share.shared[r] = Cardinality({f \in Sharers(i) : r \in files[f].shared})

\* The volume's ReferenceCount is the number of file objects on it and of
\* opens and closes under way.
VolumeReferencesExact ==
    references =
        Cardinality({f \in Files : files[f].state = "live" /\ files[f].device
                                   /\ files[f].pointers > 0})
        + Cardinality(UNION {Pending({"volume"}, f) : f \in Files \union {NoInfo}})

\* Threads that open the first files of a device together mount it once.
MountedOnce == volumes <= 1

\* A file is closed in FATX after its cleanup, with no handle left.
CleanedBeforeClosed ==
    \A f \in Files : Pending({"close"}, f) # {} =>
        files[f].handles = 0 /\ (files[f].cleaned \/ Pending({"cleanup"}, f) # {})

\* Every reference to a file object and to the volume is counted, through opens
\* that fail half-way and closes that overtake requests; one volume is mounted.
ReferencesExact == TypeOK /\ PointersExact /\ VolumeReferencesExact /\ MountedOnce

\* The lock of a file object is one request's at a time, and no claim to it is
\* overlooked: who has claimed it finds the event signalled, or KeSetEvent is
\* still to be called for it.  (If it sleeps by then, that call is the end of
\* the machine: a request that blocks here never gets the lock.)
FileLockRight == OneRequestAtATime /\ WaiterRemembered

\* What a file object needs in FATX lasts until its close, which comes last.
ClosedInOrder == InfosOutliveFiles /\ CleanedBeforeClosed

\* Sharing is enforced, by counts that are exact.
SharingExact == SharingHolds /\ ShareCountsExact

\* A request that comes after the last close is refused (fatx.cpp:782, "Don't
\* allow to operate on the file after all its handles are closed") and ends: its
\* thread never waits for a lock that it holds itself.
RefusedRequestEnds ==
    \A t \in Threads, f \in Files :
        todo[t] # <<>> /\ Head(todo[t]) = Step("wait", f) =>
            Step("release", f) \notin {todo[t][k] : k \in DOMAIN todo[t]}
=============================================================================
