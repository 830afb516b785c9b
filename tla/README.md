# TLA+ models and proofs of nboxkrnl

nboxkrnl is an Xbox kernel for the nxbx emulator: it runs as guest code on one
emulated x86 processor. This directory holds TLA+ specifications of its core
logic, TLC configurations that check them on small instances, and proofs that
TLAPS checks for every value of the constants. Line numbers are those of
`src/nboxkrnl/`. `PROJECT.json` maps every definition to the lines it stands for
and lists the runs, mutants, findings, hazards and theorems.

## 1. The system

One processor, preemptive threads, three kinds of asynchronous activity: the
scheduler switching threads, deferred procedure calls (DPCs), and interrupts.
Almost everything is serialised by the IRQL: raising to DISPATCH_LEVEL keeps
other threads out, `disable()` keeps interrupts out.

### Inventory

For each component: the state it keeps; its operations; whom it talks to; what
is hard; what makes it correct.

| Component (files) | State | Operations | Interactions | Hard behaviour | Correct when | Here |
|---|---|---|---|---|---|---|
| Scheduler (`ke/thread.cpp`, `ki/ki.hpp`, `ki/ki.cpp`, `ki/init.cpp`) | `KTHREAD` state, priority, quantum; `KiReadyThreadLists`, `KiReadyThreadMask`; `KPRCB.CurrentThread/NextThread` | KiScheduleThread, KiQueueReadyThread, KiQuantumEnd, KiSwapThread, KiSetPriorityThread, KiUnlockDispatcherDatabase, NtYieldExecution, KiIdleLoop | waits and signals move threads; the clock and DPCs ask for switches | a preemption decided in one routine and carried out in another; Standby threads beaten or lowered; a bit mask beside the lists | structures agree; best thread runs; no switch forgotten; nobody starves | Dispatcher, DispatcherExports |
| Events, semaphores, mutants, waits (`ke/event.cpp`, `semaphore.cpp`, `mutant.cpp`, `wait.cpp`) | `DISPATCHER_HEADER`, wait lists, mutant owner and list | Set/Reset/Pulse, Release, KeWaitForSingleObject, KiWaitTest | readied threads go to the scheduler | waiters released one by one while interrupts come in; recursion limit; abandonment; wait-after-signal without unlocking | atomic objects, no lost wake-up | Dispatcher, SyncObjects, DispatcherRefinement |
| IRQLs and the clock (`ke/irql.cpp`, `hal/interrupt.cpp`) | IRQL, `HalpPendingInt`, PIC masks | KfRaise/LowerIrql, HalRequestSoftwareInterrupt, HalpSwIntDpc, HalpClockIsr | delivers the switch and the DPCs | software interrupt pending across calls | nothing requested is dropped | Dispatcher (PASSIVE and DISPATCH levels), Apc (APC level) |
| DPCs (`ke/dpc.cpp`) | DPC queue, DpcRoutineActive, DpcInterruptRequested | KeInsertQueueDpc, KeRemoveQueueDpc, KiExecuteDpcQueue | interrupts queue, the dispatcher retires | queueing while retiring | no DPC stranded | Dispatcher (without KeRemoveQueueDpc) |
| Critical sections (`rtl/critical.cpp`) | LockCount, OwningThread, RecursionCount, event | Enter, TryEnter, Leave, LeaveAndRegion | waits on an event | no lock around the fields | exclusion, no sleeper forgotten | CriticalSection |
| Read/write lock (`ex/rwlock.cpp`) | four counters, event, semaphore | acquire shared/exclusive, release | waits outside the interrupt-free block | counters and objects change apart | writers alone, no starvation | ReadWriteLock |
| APCs, suspend/resume (`ke/apc.cpp`, `ke/thread.cpp`) | APC queues, SuspendCount, critical region count | KiInsertQueueApc, KiExecuteApcQueue, KeSuspendThread, KeResumeThread | interrupt waits, run on IRQL drop | an APC ends a wait that then starts over | no APC stranded, one normal APC at a time, nothing outlives its thread | Apc |
| Timers (`ke/timer.cpp`, `ex/extimer.cpp`) | timer table, ExTimer reference | KeSet/CancelTimer, ExTimer free | DPCs, waits | expiry against cancel | reference counts exact | not modelled: expiry is unimplemented in the code (`KiTimerExpiration` stops the machine) |
| Queues (`ke/queue.cpp`) | entries, CurrentCount, thread links | insert, remove, rundown | thread switches change CurrentCount | concurrency accounting | count = active threads | not modelled: a thread that blocks is made the next to run (`ki/ki.hpp:97-102`), and no kernel code blocks on a queue |
| Device queues (`ke/device_queue.cpp`) | Busy, list | insert, insert by key, remove | I/O start routines | busy/idle hand-over in the three steps of IoStartNextPacket | one request at a time, in order, none left behind | DeviceQueue |
| Object manager (`ob/ob.cpp`, `ob/obp.cpp`, `nt/objects.cpp`) | handle table, reference and handle counts, directory | create, open, reference, close, make temporary | every `Nt` service | counts dropped around a callback; free-list encoding | counts exact, objects freed once and not in use, handles, names and free list intact | ObjectManager |
| Processes and threads (`ps/ps.cpp`) | unique thread list, reaper list | create, terminate, reap | DPC, objects, APCs | termination against waiters and APCs | waiters of a dead thread wake | Apc (the end of a thread, for APCs) |
| I/O manager (`io/io.cpp`, `iop.cpp`, `irp.cpp`, `nt/file.cpp`) | IRPs, share access, file objects with their lock, mounted volume | open/parse/mount, synchronous requests, cleanup, close, start packet | object manager (counts, handles), file system | a mount raced for, opens that fail half-way, a delete in the middle of a request | references exact, freed files untouched, the lock one request's at a time | IoFile, DeviceQueue |
| File-system cache (`io/fsc.cpp`) | element array and list, users, owner of each | map, unmap, flush, grow | file systems, system memory | the lock dropped for host reads and waits; the array moves | mapped pages keep their element | FscCache |
| File systems, devices (`io/hdd`, `io/cdrom`, `io/raw`) | volume, FAT chains, open counts | mount, create, read, write, cleanup, close | host I/O through ports | open counts shared by file objects, cleanup and close apart | information outlives its file objects; sharing exact | IoFile (the protocol of FATX) |
| Memory manager (`mm/`, `nt/memory.cpp`) | VAD tree with `MiLastFree`, system PTE list, page lists | reserve, carve, merge; reserve and release PTEs, allocate and free pages | pool, stacks, cache buffers | splits (some of which fail), merges and rotations under saved pointers; a free list written into its own entries | regions and entries partition their spaces | VadTree, AddressSpace, SystemMemory |
| Pool (`ex/pool.cpp`) | 64 chunk lists | allocate, free, query size | system memory | sizes at the class boundaries; headers in front of blocks | no block twice, none lost, room for what was asked | Pool |
| Executive wrappers (`ex/event.cpp`, `ex/sem.cpp`, `ex/exinterlocked.cpp`) | | handle wrappers, interlocked primitives | | | | not modelled: thin or single instructions |
| Spin locks, start-up, exceptions (`ke/spinlock.cpp`, `ke/interrupt.cpp`, `ke/kernel.cpp`, `ki/seh.cpp`) | | | | | | not modelled: IRQL changes only, hardware set-up |
| Run-time library, HAL ports, video, PHY, XBE loader, crypto, debug output | | | | | | not modelled: sequential data processing or port I/O |

## 2. The modules

| Module | Models | Correspondence |
|---|---|---|
| `Dispatcher` | the dispatcher database: scheduler, objects, single waits, software interrupt, clock, DPC queue, idle loop | one variable per kernel field (named in its comment); one action per routine, or per loop iteration / interruptible step of a routine; `pc` and `frame` are the program counter and locals of the routine in progress |
| `SyncObjects` | what events, semaphores and mutants promise: atomic, first come first served | abstract: signal state, FIFO of waiters, owner |
| `DispatcherRefinement` | the refinement mapping from `Dispatcher` to `SyncObjects` | a release is seen at once, when its call stores the new state |
| `DispatcherExports` | the exported routines around the core: priorities, yield, pulse, boost | extends `DispatcherRefinement`; the core's steps are reused unchanged |
| `CriticalSection` | `RTL_CRITICAL_SECTION`, one shared access per step | its event is an instance of `SyncObjects`, or, with a sleeper, unwaits no thread (`SignalUnwaitsNoThread`) |
| `ReadWriteLock` | `ERWLOCK`, one interrupt-free block per step | its semaphore, and its event as long as no writer sleeps, are an instance of `SyncObjects`; with a sleeping writer KeSetEvent is the end (`SetEventOfSleepers`) |
| `ObjectManager` | object headers, the handle table, one directory | a section from `ObLock` to `ObUnlock`, or an interlocked operation, is a step; `todo` holds the steps each thread's operation has left, so a trailing dereference is never optional |
| `Apc` | kernel APCs, critical regions, the wait they end, suspend and resume, the end of a thread | a thread is a stack of frames (its code, APC routines), each with the event it waits for; what runs at DISPATCH_LEVEL or above is a step, and a DPC may come between any two |
| `IoFile` | file objects on a FATX volume: open, mount, request, duplicate, cleanup, close, delete | `todo` holds the steps each thread's operation has left, as in `ObjectManager`; a FATX routine (under the volume's lock), an interlocked operation, a section under IoLock or ObLock is a step |
| `DeviceQueue` | `KDEVICE_QUEUE`, IoStartPacket, IoStartNextPacket | IoStartNextPacket is three steps; the driver is external |
| `VadTree` | the AVL tree of address regions and NtAllocateVirtualMemory | a call is one step (VadLock); sizes are in bytes of small pages; trees are records, pointers to nodes are keys, so that a stale `MiLastFree` shows; `vadLost` counts what failed splits cut off |
| `AddressSpace` | what NtAllocateVirtualMemory promises | abstract: a set of disjoint regions |
| `SystemMemory` | system PTEs and pages: MiAllocateSystemMemory, MiFreeSystemMemory, stacks | the list is words in the entries themselves: link, size in the next entry, OnePte |
| `Pool` | the pool allocator | headers keep the size that a later free reads |
| `FscCache` | the cache's elements: map, unmap, flush, grow | a section under MiLock is a step; `stale` marks a pointer into a freed array |
| `ListLemmas` | lemmas the proofs share | what appending, removing and unlinking do to a list, and counting with tallies |
| `DispatcherProofs` | theorems about `Dispatcher` and `DispatcherExports` | types and mask first, then the five safety properties, then that it implements `SyncObjects`, then what the exported routines keep of the structures |
| `CriticalSectionProofs`, `ReadWriteLockProofs`, `ApcProofs` | theorems about the module of that name | |
| `ObjectProofs` | theorems about `ObjectManager` | operations as lists of steps, then what an action that changes one object has to show, then one lemma per action |
| `IoFileProofs` | theorems about `IoFile` | lists of steps as phases, what each action does to phases and files, then counts, volume, locks, lives and sharing, one part at a time |
| `StructureProofs` | theorems about `DeviceQueue`, `Pool` and `FscCache` | the last two's lemmas are stated for lists, blocks and elements as parameters |
| `MCDispatcher`, `MCDispatcherExports`, `MCObjectManager`, `MCApc`, `MCIoFile` | values for the constants, symmetry | `CriticalSection` and `ReadWriteLock` need none |
| `MCStructures` | `DeviceQueue`, `VadTree`, `SystemMemory`, `Pool` and `FscCache` side by side | a behaviour is one of the five, chosen by `part` |

Layering: `Dispatcher` is shown to implement `SyncObjects`, and the two locks are
built on `SyncObjects` and on what KeSetEvent does outside of it, so their runs need no scheduler. `VadTree` implements
`AddressSpace`. `Apc` has a wait of its own, on synchronization events, because what
matters there is the loop around it, and leaves open which ready thread runs next.

### How the dispatcher is cut into steps

Dispatcher routines run at DISPATCH_LEVEL on the only processor, so between two
of their steps nothing but an interrupt service routine can run. A call is
therefore: an entry action (`KeSetEvent`, `KeWaitForSingleObject`, ...), the steps
it goes through (`KiWaitTest` once per waiter, `KiAdjustQuantumThread`,
`KiSwapThread`), and `KiUnlockDispatcherDatabase` or `ReturnLocked`. While `pc` is
not `"run"` no other call can start: the trailing steps are never optional.
`HalpClockIsr` and `KeInsertQueueDpc` (a device's service routine) may come
between any two steps unless the code has interrupts off (`InterruptsEnabled`).
A pending software interrupt is delivered before thread code runs below
DISPATCH_LEVEL, because the lowering code delivers it (`HalpCheckUnmaskedInt`).

### How the object manager is modelled

The public routines end in dereferences after the lock is dropped
(`ObInsertObject`, `ObfCloseHandle`, `ObpDetachNamedObject`); each is a step of its
own that carries the reference it will drop. That makes "the pointer count is
exact" a statement about every intermediate state: handles + link in the directory
+ references callers hold + references under way. The types of objects
differ in their procedures only: `"plain"` has none, a `"device"` parses names into
`"file"` objects, a file is closed and cleaned up. Callers pass any handle they like
and dereference only what they hold. `crashed` is set, and the model stops, where
the code follows a bad pointer: a closed handle, the handle after the last
one, the null Directory of an object detached before.

Points where the translation of the dispatcher needed a decision:

- `KeSetEvent` (ke/event.cpp:161-166) takes the address of the wait-list head for
  that of the first wait block. For synchronization events with waiters the
  `WaitType` it reads is whatever halfword lies behind the event: `TailReads` is
  the set of outcomes considered. Reading `WaitAny` makes it unwait a wild
  pointer; the model sets `crashed` and stops. (`KePulseEvent` and
  `KeSetEventBoostPriority` do not look there.)
- What lies there, 30 bytes from the start of the event, differs for the events inside
  larger structures. Behind `RTL_CRITICAL_SECTION` it is whatever follows the section,
  so either outcome is possible (`CriticalSection`). In `ERWLOCK` it is the upper half of
  `ReaderSemaphore.WaitListHead.Blink` (ex/ex.hpp:132-139), in `FILE_OBJECT` the upper
  half of a pointer in `Event` (io/iop.hpp:306-327): never 0 = WaitAll for a kernel address,
  so a release that finds a sleeper always unwaits something that is no thread, and
  `ReadWriteLock` and `IoFile` stop there. For `DEVICE_OBJECT.DeviceLock` it lies behind the
  object's fields, either outcome again. `Apc` and `FscCache`, whose events stand alone, take
  it to read WaitAll: with the other value they would stop like the rest.
- `VadTree` is the build without `_DEBUG`, whose assertions are null
  (import/nanopdclib/platform/xbox/include/assert.h:21). With them, the first region that is
  given back in front of another one stops the machine (vad_tree.cpp:307).
- `KiSwapThread` tests the zero flag after a call (thread.cpp:452-453): it is taken to
  reflect the call's result, as generated code leaves it.
- The quantum saturates at 0; the code only compares it with 0.
- `HalpSwIntDpc` clears `QuantumEnd` and calls `KiQuantumEnd` in one step
  (`SwIntQuantumEnd`): a clock tick between the two has the effect of one after.
- `KiUnwaitThread` is modelled without timeouts (a timed wait that expires reaches
  `KiTimerExpiration`, which stops the machine) and without APCs, which `Apc` has.
- `KeWaitForMultipleObjects` returns STATUS_NOT_IMPLEMENTED and changes nothing.
- `KTHREAD.Preempted` only chooses head or tail on paths the model has separately.

## 3. The runs

| Run | Checks |
|---|---|
| `sem` | three threads of two priorities, a semaphore used from threads, DPCs and around interrupts: `TypeOK`, `ReadyMaskExact`, `StructuresAgree` (PRCB, ready lists, wait lists), `NoLostWakeup`, `PrioritiesRight` (the best thread runs, priorities stay in their class), `NothingPutOffIsForgotten` (no Standby thread and no DPC is left without somebody to look at it), `ImplementsSyncObjects` |
| `objects` | a notification event, a synchronization event and a mutant: `ObjectsAgree` (mutant bookkeeping up to the limit and through abandonment), `ImplementsSyncObjects` |
| `live` | `EveryThreadRuns`: every Ready thread of equal priority runs, a Standby thread is switched to |
| `exports` | all exported priority, yield, pulse and boost routines: `ExportsAgree` (types, PRCB, lists, mask), `PulseIsAtomic` |
| `cs` | `MutualExclusion`, `NotForgotten`, `Served` (both up to the release that unwaits a wild pointer in place of a sleeper) |
| `rwlock` | `Exclusion`, `NotForgotten` (no decision made from the counters overlooks a sleeper), `Served` for either side: the turn of each comes, unless it is that of a sleeping writer, where the machine ends |
| `ob` | `TableIntact` (handle table and its free list), `CountsExact` (pointer and handle counts), `EndsOnce` (deleted once, a file cleaned up before it is freed), `NamesAreUsed`, `HandlesKeepObjects` (an open handle means the same object until it is closed; nothing in use is freed) |
| `apc` | `QueuesAgree` (lists, flags, waiters, suspend semaphore), `NoApcStranded`, `OneNormalAtATime`, `NoApcOutlivesThread`, `WaitEndsForAReason` |
| `io` | `ReferencesExact` (files, volume, one mount), `FreedUntouched`, `FileLockRight` (one holder, and no claim overlooked), `ClosedInOrder`, `SharingExact` |
| `structures` | `DqOneAtATime`, `DqNearestOldestNext`; `VadsPartition`, `VadImplementsAddressSpace`; `SmPtesPartition`; `PoolBlocksApart`; `FscMappedStays` |
| `apc_suspend` (violation) | a suspended thread runs on |
| `io_refused` (violation) | a refused request waits for the lock it holds |

What the properties say is in the comment above each. The ones worth arguing
about: `NoLostWakeup` (a release may skip `KiWaitTest` on a test of the *old*
state), `ImplementsSyncObjects` (waiters released one by one with interrupts in
between look like one atomic release), `NothingPutOffIsForgotten` (the decision to
preempt and the switch are made by different routines, sometimes a software
interrupt later), `MutualExclusion` (LockCount alone carries it, while the
unprotected fields are wrong at times), `CountsExact` (through OBJ_OPENIF, failing
insertions and detachment), `NoApcStranded` (four routines each look at a different
one of list, pending flag, requested interrupt and wait state), `WaitEndsForAReason`
(a normal APC must not end a wait in a critical region), `FileLockRight` (the
counter says that somebody waits before he does, and KeSetEvent is called after others
have come), `HandlesKeepObjects` (opening by name or by pointer makes the handle in another
section than the one that found the object, and entries are reused), `FreedUntouched` (a delete may run inside a request), `SharingExact`
(opens without rights take no part in the counts but hold the file open), and
`VadsPartition` (nothing is missing but what failed splits cut off, no two free
regions are left side by side, and `MiLastFree` never points to a node that moved).

### Bounds, and why they are enough

- Three threads, priorities 1 and 2 plus one or two levels to boost into, with
  LOW_REALTIME_PRIORITY just above: a running, a Standby and a beaten thread exist
  together, lists hold two threads, boosts reach the clamp. Four threads for the
  read/write lock: two readers, two writers, and nested shared holds.
- `ThreadQuantum` 1 or 2: a wait or a tick uses it up or does not.
- `SemaphoreLimit` 2 with adjustments 1 and 2: the limit is exceeded, several
  waiters are released by one call.
- `MutantLimit` -1 instead of MINLONG: three acquisitions reach it.
- `MaxDpcs` 1 in `sem`: a DPC is queued again while one runs. `MaxDepth` and
  `MaxShares` 2: nested once.
- `ob`: two threads, two objects and one name (a name collision, a device and a
  file), three handles (a free list of any order, and its end). Objects are not
  reused, so that a use after deletion shows.
- In `exports`, `KeSetPriorityThread` is called with the lowest priority;
  `KeSetBasePriorityThread` and `KeBoostPriorityThread` raise and lower by one.
- `apc`: one thread that gets a special and two normal APCs (one is held off while
  the other is in progress, the special one interrupts both), another that queues,
  signals and preempts; regions nest once besides the one of the thread's end;
  MAXIMUM_SUSPEND_COUNT is 2, so that a suspension is refused.
- `io`: two threads, two file objects, one path and the volume itself; three ways to
  ask for access that exclude each other in different ways; `OpenLimit` 2 in place
  of 255; two handles to a file, so that one close is the last and one is not.
- `structures`: four requests and two callers for the queue; an address space of 28 bytes
  from 4 on, pages of 2 and a granularity of 4, sizes that fill the granularity and
  sizes that do not, so that regions are split on either side, on both, fit
  exactly and lie side by side, one ends beyond HIGHEST_USER_ADDRESS as the initial region
  does, splits fail, and rotations, double ones included, occur; a limit below LOWEST_USER_ADDRESS,
  which makes `MiLastFree` null; two page tables of four entries, so that a block spans the
  border and a table is added when the list has no fit, and requests up to seven of eight pages, so that
  the second check for pages (mi.cpp:491) fails where the first passed; two volumes of two pages on
  a cache that grows from two elements to five; three pages of 32 units
  for the pool, with the largest size of a class and of all, one more, and more than a page.

`CHECK_DEADLOCK FALSE` is set where the system really may stop: all threads
waiting with interrupts absent from the instance, a machine that followed a wild
pointer, object or system memory used up, a thread that waits for itself. `sem` and
`apc` check deadlock.

### Fairness

- `WF(Continue)`: the processor executes its next step.
- `SF(HalpClockIsr)`: the PIC holds the clock's interrupt until it can be taken;
  `KeInsertQueueDpc` gets no fairness.
- `SF(KfLowerIrql)`, `SF(DpcReturns)`: code that raised the IRQL lowers it, a DPC
  routine returns, however many calls each makes first.
- `WF(WaitsNext)`: who returned from a call with Wait = TRUE waits.
- Locks: each thread continues its routine (`WF(Proceed)`), and who got the lock
  gives it back. `Served` is conditional: no thread waits for itself (nesting
  a shared hold behind a queued writer; nesting a section whose OwningThread was
  wiped out). It ends in `crashed` where a release finds a sleeper and KeSetEvent unwaits
  a wild pointer: what it excludes is waiting for ever in a machine that goes on.
- `Apc`, `IoFile`, `ObjectManager` and the structures state safety only; nothing in
  them is assumed to happen.

### Findings

1. `KeSuspendThread` (thread.cpp:583) marks the suspend APC as inserted and then calls
   `KiInsertQueueApc`, which ignores an APC that is marked: the first suspension
   queues nothing, later ones only move the semaphore. (`apc_suspend`)
2. `IopSynchronousService` completes a request, and so drops its reference to the
   file, before it releases the file's lock (iop.cpp:438, 450). If the handle was
   closed meanwhile, the request is refused with STATUS_FILE_CLOSED as fatx.cpp:782
   intends, and the last reference deletes the file, which waits for the lock its own
   thread holds (iop.cpp:308-310). NtQueryInformationFile releases the lock first and
   is not affected. (`io_refused`)

Also met, without a run of its own:

- `KeSetEvent` cannot hand over the events of `ERWLOCK` and `FILE_OBJECT` to a thread that
  sleeps (event.cpp:165-176, with the layouts of section 2): the first time a writer
  blocks on a read/write lock, or a request on a file that is in use, the release unwaits
  a thread that is none. FATX's `VolumeMutex` is an `ERWLOCK` (fatx.hpp:48), so two threads
  that contend for a volume are enough. Critical sections and `DeviceLock` depend on what
  happens to follow them in memory. (`SetEventOfSleepers`, `SignalFindsSleeper`)
- When only the split at the start of a free region is needed and there is no memory for it,
  `SplitVAD` has already cut the region short (vad_tree.cpp:309) and `CarveVAD` puts its
  size back only after a split at the end (351-360): the rest belongs to no region any
  more. (`ReserveFails`, `vadLost`)
- `CarveVADRange` asks for a split at offset 0 of the node behind the region unless that
  ends there (vad_tree.cpp:388-390), against the assertion at line 307. Without assertions the new
  half replaces the old and nothing is lost.
- The initial region is given HIGHEST_USER_ADDRESS for its size (mm.cpp:284) and so ends beyond
  it; the search backwards from `MiLastFree` heeds no limit (nt/memory.cpp:50-70), neither that of
  ZeroBits nor the highest address.

- `KeSetBasePriorityThread` (thread.cpp:1000-1007) and `KeBoostPriorityThread`
  (778-787) select a Standby thread and release with `KiReleaseDispatcherLock`,
  which only lowers the IRQL. The comment at thread.cpp:367 leaves the request to
  the caller; nobody makes it. The Standby thread runs when some later call
  happens to release the database properly.
- `NtYieldExecution` manipulates the ready lists at SYNC_LEVEL while the helpers
  it calls assert DISPATCH_LEVEL (thread.cpp:813; thread.cpp:292, ki.hpp:168).
- `RtlLeaveCriticalSection` clears `OwningThread` (critical.cpp:63) after giving the
  section away: the debug check at critical.cpp:49-55 fires for a legitimate owner,
  and an owner that enters again waits for itself.
- `ObpDestroyObjectHandle` does not encode the free entry it stores
  (obp.cpp:118), against ob.hpp:28: a closed handle is taken for an object.
- `KeSetEventBoostPriority` readies a thread it has not unlinked (event.cpp:267-268,
  the call is commented out).
- The last free handle of the first table decodes to -2, not -1
  (obp.cpp:93 and 103): the next handle is created through a wild pointer, a second
  table is never allocated. (`TableExhausted`)
- `ObpDetachNamedObject` leaves OB_FLAG_ATTACHED_OBJECT set (obp.cpp:434): an object
  that gets a handle again after its name went is detached through a null
  Directory. Opening by name while the last handle is closed is enough.
  (`DetachedTwice`)
- `ObOpenObjectByPointer` returns STATUS_SUCCESS with a null handle for an object of
  the wrong type (ob.cpp:326 assigns the result of NT_SUCCESS).
- A second open of the volume lists its FATX_FILE_INFO twice (fatx.cpp:528), which makes
  the list a loop; a mount that cannot read the superblock dereferences the device
  object it has freed. The model stops there (`VolumeListedTwice`, `FatxDeleteVolume`).
- `EraseVADNode` moves only the key of a successor into a node with two children
  (vad_tree.cpp:189): its region is lost. `MapMemoryBlock` starts at `MiLastFree`
  even if that is behind the limit ZeroBits sets, and runs off the tree
  (nt/memory.cpp:18). The model stops at either (`vadCrashed`).
- Taking the last page of a free list decodes PFN_LIST_END as a page (mi.cpp:103).
  The model stops (`smFaulted`).
- A cache that grows while another thread waits for the host leaves that thread a
  pointer into the freed array (fsc.cpp:135). The model stops (step "lost").
- `ExAllocatePoolWithTag` asserts that a chunk is not page-aligned (pool.cpp:101) before it
  can return the null pointer of a failed allocation, which is.
- `KeInsertByKeyDeviceQueue` leaves Inserted clear on what it queues
  (device_queue.cpp:148), so that KeRemoveEntryDeviceQueue does not find it.
- FATX and raw device control leave a critical region they may not have entered on
  that path (fatx.cpp:1116, raw.cpp:394); nt/file.cpp:336 and 447 dereference the event's
  handle in place of the object; `FATX_FILE_INFO.HostHandle` is the address of a stack
  variable (fatx.cpp:667). None of these is on a path that is modelled.

## 4. The proofs

For any sets of threads, objects, APCs and requests and any numbers that satisfy
the named assumptions of the models (`ThreadsAssumption`, `LockAssumption`,
`ApcAssumption`, ...: the sets are disjoint and hold what the code compares with, the
numbers are in the ranges the code gives them; TLC evaluates each in a run). No other
assumption is used.

| Module | Theorem | States |
|---|---|---|
| `DispatcherProofs` | `TypeCorrect`, `MaskCorrect` | `[]TypeOK`, `[]ReadyMaskExact` |
| `DispatcherProofs` | `SchedulerStructures`, `NoWakeupIsLost`, `ObjectsAndOwners`, `BestThreadRuns`, `PutOffIsDone` | `[]StructuresAgree`, `[]NoLostWakeup`, `[]ObjectsAgree`, `[]PrioritiesRight`, `[]NothingPutOffIsForgotten` |
| `DispatcherProofs` | `AtomicObjects` | `ImplementsSyncObjects` |
| `DispatcherProofs` | `ExportsKeepAgreement`, `PulsesAreAtomic` | `[]ExportsAgree`, `PulseIsAtomic`, both of `ExportsSpec` |
| `CriticalSectionProofs` | `SectionMutualExclusion`, `SectionNotForgotten` | `[]MutualExclusion`, `[]NotForgotten` |
| `ReadWriteLockProofs` | `LockExclusion`, `LockNotForgotten` | `[]Exclusion`, `[]NotForgotten` |
| `ApcProofs` | `ApcQueues`, `NoApcIsStranded`, `NoApcOutlives`, `NormalApcsDoNotNest`, `WaitsEndForAReason` | `[]QueuesAgree`, `[]NoApcStranded`, `[]NoApcOutlivesThread`, `[]OneNormalAtATime`, `WaitEndsForAReason` |
| `ObjectProofs` | `ObjectCounts`, `ObjectsEndOnce`, `NamesInDirectory`, `HandlesMeanObjects`, `HandleTable` | `[]CountsExact`, `[]EndsOnce`, `[]NamesAreUsed`, `HandlesKeepObjects`, `[]TableIntact` |
| `IoFileProofs` | `FileReferences`, `FilesOutliveRequests`, `FileLocks`, `FilesClosedInOrder`, `SharingEnforced` | `[]ReferencesExact`, `[]FreedUntouched`, `[]FileLockRight`, `[]ClosedInOrder`, `[]SharingExact` |
| `StructureProofs` | `DqOneRequestAtATime`, `DqRightRequestNext`; `PoolBlocksStayApart`; `PagesStayMapped` | `[]DqOneAtATime`, `DqNearestOldestNext`; `[]PoolBlocksApart`; `[]FscMappedStays` |

`SchedulerInvariant`, `ExportsInv`, `PulseInv`, `SectionInvariant`, `LockInvariant`, `ApcInvariant`,
`ObjectInvariant`, `FileInvariant`, `DqInvariant`, `PoolInvariant` and `FscInvariant` are the
inductive invariants these follow from. Every proof has the same plan:
lemmas about the operators that several actions use (queueing a thread, waking one,
the switch), a lemma for the initial states, one for each action with a step for
each conjunct it can disturb, and theorems that combine them with PTL. TLC checked
each inductive invariant on its small instance before it was proved.

### Why each invariant is what it is

**Types and mask.** `TypeOK` is not inductive: taking the head of the best ready list
yields a thread only if the mask is right, `priority[next]` is defined only if `next`
is a thread, and the switch queues `current`, which must not be the idle thread.
`TypeInvariant` is `TypeOK /\ ReadyMaskExact /\ CpuConsistent`, the last part saying
which values `pc`, `current`, `dpcActive` and `frame` have together.

**The scheduler.** The five properties need each other: who is on which list decides who
can be selected, what is selected decides who may wait, who waits decides what a
release has to look at. `SchedulerInv` adds what no property says: the Standby
thread is not worse than the running one (`StandbyBeatsCurrent`), a thread that
called with Wait = TRUE is at DISPATCH_LEVEL until it waits (`LockedToWait`), and a
thread runs beside a Standby one only with the interrupt pending (`SwitchIsDue`).

**The refinement.** The mapping shows objects as they are, except the one `KiWaitTest`
works on, which it shows as the loop will leave it: the waiters it is going to release are
gone. Each action is shown to be a step of `SyncObjects`
or a stutter: the call that stores the new state is the release, and a turn of
the loop takes one waiter and one unit of the signal, so that what is seen stays.
The lemmas assume `EventsAreBits` and `WaitsRight`, the part of `SchedulerInv` that does not
depend on which of the Ready threads runs: types, PRCB, wait lists, and objects with a
signal that nobody waits for in vain.

**The exported routines.** `SchedulerInv` is false of `DispatcherExports`: a yield lets a worse
thread run, `KeSetBasePriorityThread` leaves a Standby thread with nobody to
switch to it, priorities leave their class, and a pulse drops a signal. What survives
is where the threads are. `ExportsInv` says so without
the rules that fail: types; `Placed`, that PRCB and ready lists hold each Ready, Standby and
Running thread in the one place its state and priority name; the wait lists, until
`KeSetEventBoostPriority` overwrites them and the model stops; and the level, SYNC_LEVEL
exactly between the two steps of a yield. `KiSetPriorityThread` unlinks a thread and queues it, or
another, again in one step, so the lemmas about queueing are about any lists, mask,
set of threads and priorities (`Holds`), applied twice.

**The pulse.** `PulseIsAtomic` has the mapping of the refinement with one change: the event that
is being pulsed is shown reset from the start. `PulseInv` adds to `ExportsInv` the objects
(`ObjectsRight`, `EventsAreBits`) and that a pulse is under way only in `KiWaitTest` on that event
and in the release of the database after it, so no thread can look at the event before
the reset. `PulseInv` gives `WaitsRight` in every state in which an action of
`Dispatcher` is enabled, and with it the lemmas of the refinement: outside a pulse the two
mappings agree, within one every turn of the loop is a stutter, as is the reset; the step
that counts is the call, where all waiters or the first leave at once.

**The critical section.** `LockCount + 1` is the number of claims: threads that are in,
with their recursions, and threads that have counted themselves in. The right to
enter is a token: with the holder, in flight in a thread about to signal the event, or in
the event; there is one exactly if there are claims. The unprotected fields are only
ever right for the holder: `OwningThread` is the holder or null.

**The read/write lock.** The four counters are exact at any time if one counts what the
event and the semaphore have yet to deliver as already delivered. A writer or its
event exists exactly if there are claims and no reader is in. `LockNotForgotten` is about the
decisions: whenever a thread sleeps, somebody has the lock, or a release has decided for
a sleeper and is about to call, or an object is set for a thread still on its way to wait. It
does not say that the call wakes a writer; in a lock of this layout it does not.

**APCs.** `ApcInv` says what the code never writes down: which routines can be on a
thread's stack (`StackShape`), at which level each may be switched away from
(`LevelsRight`), that a list begins with its special APCs (`SpecialsFirst`), how far a
thread that ends has come (`ExitInOrder`), and which of pending flag, requested
interrupt and wait state covers an APC that could run (`DeliveryRight`).
`WaitEndsForAReason` is proved action by action from it.

**The object manager.** `ObInv` says which lists of steps an operation can have left
(`Plans`), so that the references it owns can be counted step by step. A counter of one
proves that nobody else can reach the object: the thread that created a named object and has not
inserted it yet is its only user (`InsertsRight`), so linking it cannot race with
another insertion, a close or a deletion. A file that has had a handle still has one, has
been cleaned up, or the close of its last one is under way (`FilesRight`): that is why it is
never freed without its cleanup. Most actions change one header and one list, and
`ObjectMoves` says once what each of them has to show: that pointers and the steps that own
them change by the same amount, and that who takes the last pointer deletes.
The free entries are a list without repetitions (`FreeListRight`); that
the walk of `TableIntact` goes along it is an induction, done by reflection: there is
no first place where the walk leaves the list. `HandlesMeanObjects` needs both halves of the invariant: an entry
that is an object and stays one is not touched by the step, because what a step writes is the
head of the free list or the handle it closes; and an object that a step frees has no pointer
left, so that no handle, caller, operation or directory refers to it.
Following a bad pointer (a closed handle, a full
table, a name detached twice) leads to a state that means nothing; the theorems are about
what happens before.

**File objects.** `IoFile`'s threads carry the list of the steps they have left. Only 35
lists occur, so the invariant names them: `IInv` is `Types` and that there are a phase and
a file for each thread (`\E ph, fl : Good(ph, fl)`) such that its list is the one of its
phase (`Lists`, `Plan`) and the phases explain the state. What a list promises is then a
fact about its name, shown once for all of them (`PlanSays`): whether it holds a reference,
is to close, or releases the lock before it acquires it again. On this rest the counts: a
file's pointer count is its handles plus the references of the phases, the volume's
count is the files in use on it plus the threads about to give a reference back
(`Pointers`, `VolumeCount`). The lock is a token as in the critical section: with a phase
that owns it, in a thread about to signal the event, or in the event; there is one exactly
if there are claims (`Locked`). The token reaches the event only if
nobody sleeps yet; else that call ends the machine (`SignalFindsSleeper`). The theorem is about
holders and claims, not about a sleeper being woken. `Lives` says what the code relies on without saying so: only
its opener knows a file without a handle, one thread deletes a file, and a file without
handles has been cleaned up or is about to be. `OpenInfos` keeps FATX's list of open files,
whose entries last as long as a file object is open on them, and the share counts are those
of the files open and not cleaned up. The request that waits for a lock it holds
(`io_refused`) is a phase of its own, `selfWait`: nothing ever leaves it, and the proof
shows that its file is then never closed nor freed, and that everything else stays exact.

**The device queue.** `Busy` is a token: the driver has it with the request in progress, or
one caller of IoStartNextPacket on its way from one request to the next. The
queue is in the order of its keys, which gives "nearest and oldest next".

**The pool.** A page is cut into chunks of one size and never put together again, so
`PoolInv` says that each chunk of a cut page is either once in the list of its size or the
block of one caller, and that blocks of whole pages keep clear of the cut ones. What is
left is arithmetic: chunks of a page are multiples of its unit, so two of
them are the same or apart, and the last ends with the page.

**The file system cache.** `FscMappedStays` is nearly inductive. `FscInv` adds what a
flush needs, that a thread in one has something left to remove (else the count it waits for
would pass zero), and that an element nobody uses has no users and no page on its
way, so that a page found in it is there. A volume has one thread, so an element in use has
one user, its volume's thread: this is why no other finds or takes it. After
growth the list is built anew from the array, and its head is one of the new
elements (`GrowGood`), so the second call of FscAllocateFreeElement finds a free one
("can't fail now", fsc.cpp:88).

### What is only model-checked

- `SystemMemory`: its property is about walks over linked entries, which are
  defined by recursion over data.
- `VadTree`: it has RECURSIVE operators, which TLAPS does not handle.
- All liveness (`EveryThreadRuns`, `Served`) and whatever depends on ENABLED: out of
  TLAPS' reach, as is induction over data.

## 5. Abstractions and limits

- IRQLs are PASSIVE, DISPATCH and (in `DispatcherExports`) SYNC; device levels are
  represented by interrupts that can occur at any of them. `Apc` has PASSIVE and APC
  and folds everything above into single steps.
- The refinement hides action labels: it shows the objects' states and waiters
  change atomically and in order, not which routine changed them. A spurious
  `Set` would not be seen by it, but by the mapped action's guards.
- Priority order and `NothingPutOffIsForgotten` are not claimed for
  `DispatcherExports`: KeSetBasePriorityThread breaks the second, and
  `NtYieldExecution` lets a lower thread run on purpose.
- `ObjectManager` has one directory; paths, symbolic links, drive letters and
  `ObReferenceObjectByName` are left out, allocation from the pool always succeeds,
  and a caller is given one reference to an object at a time.
- `PriorityDecrement` is zero in every thread of this code and left out.
- `Apc` leaves out user APCs and alerts, the IRQL that NtSuspendThread does not
  restore (ps.cpp:236), and the thread object's signal (ps.cpp:193).
- `IoFile` takes a FATX routine for one step: contention for the volume's `VolumeMutex` is left
  out (a writer that sleeps for it ends the machine, as `ReadWriteLock` has it), and so is
  dismounting. It also leaves out relative opens, directories, device control, asynchronous
  requests (the code stops on them), deletion on the host, `FileObjectCount`, and the
  raw and CD-ROM file systems, which repeat FATX's protocol without sharing.
- `VadTree` is of the build without assertions and leaves out protection and page accounting; NtFreeVirtualMemory and
  NtProtectVirtualMemory are unimplemented, so a region is only ever given back
  when committing it fails.
- `SystemMemory` counts pages instead of naming them and leaves out the usage
  counters, contiguous memory and the devkit region. `Pool` takes pages from
  an abstraction of it, the first ones that are free.
- `FscCache` leaves out shrinking (no caller in the repository) and two
  threads that look for the same page (a volume's lock prevents it).

### Not modelled

Timers (expiry stops the machine), kernel queues (the blocking path is broken as
described in the inventory), thread creation and the reaper, executive wrappers, spin locks, start-up and
exception dispatch, string and image routines, HAL ports, video, PHY, the XBE loader,
cryptography, debug output: sequential data processing, hardware access, or code
without a state of its own. The imported ReactOS headers, the tables of status codes
and the kernel's own headers make up most of the repository's lines and have no
behaviour to model.

## 6. Plan

Done: the dispatcher with its refinement and exports; the two locks;
the object manager; APCs; file objects; device queues; the memory structures; the cache.

Proved since: the dispatcher's safety and refinement, its exports' structures
and pulse, both locks, APCs, the object
manager, file objects, the device queue, the pool, the cache.

A proof still worth adding: `AddressSpace` (regions stay disjoint).

Modelling that would still add something: `ObjectManager` against an abstract
specification (handles as a partial function to live objects); the device's own
deletion (`IoDeleteDevice`) on top of `IoFile`; KeRemoveQueueDpc with DPC identities.
