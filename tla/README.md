# A TLA+ model of the Linux driver examples

The repository is a collection of small Linux kernel modules, each with its own
directory and, often, a user program that exercises it. There is no common
core; what the larger examples share is the shape of a character driver: file
operations that run in the threads of whoever calls them, state in static
variables or in a device structure, a lock or none, and an init and an exit
function that have to be each other's inverse. The project models the drivers
that keep state which several threads work on, and the loading and unloading of
the drivers that register several objects with the kernel or leave code running
behind their init function.

## Inventory

| Part | State | Operations | Interacts with |
|---|---|---|---|
| Storage device, `003/storage_kernel.c` | `storage_buffer`, `sector_lock_state`, `storage_mutex`, `user_keys` | `read`, `write`, ioctls lock, unlock, erase, lock info, mirror, backup | calls the mirror module; called by `storage_user.c` and any other client |
| Storage mirror, `003/storage_mirror_kernel.c` | `mirror_buffer`, `mirror_mutex`, a file | `mirror_sector`, `vblock_backup_to_file` | reads `storage_buffer` through a pointer; writes a file |
| Demonstration program, `003/storage_user.c` | its position in `main()` | eight calls in a row | the storage device |
| Keypad, `002/key_kernel.c`, `keypad_helper_kernel.c`, `queue_kernel.c` | a circular queue (`items`, `front`, `rear`, `count`), a spinlock | `write` (enqueue), `read` (dequeue), ioctl `CLEAR_BUF` (`queue_empty`) | filled once by `keypad_init` |
| Multi-reader device, `012/driver.c` | `data`, `data_ready`, `readers_count`, a wait queue | `read` with a five-second timeout, `write` | readers and writers wake each other |
| Dual poll device, `014/poll.c` | `event_flag`, `buffer`, `buffer_size`, a wait queue per minor | `poll`, blocking and non-blocking `read`, `write` | the loop of `poll_app.c` |
| Multi-device driver, `010/driver.c` | a buffer, a length and a mutex per device, a position per file | `open`, `read`, `write`, `llseek`, attributes `data`, `stats`, `reset` | file operations and sysfs meet in one buffer |
| Timers 028, 029, tasklets 031, 032, threads `001_driver_misc/kThread.c`, 023, 026, completion 030 | what is armed, what runs, task pointers | callbacks and thread functions, init and exit | callbacks and threads race with exit |
| Temperature sensor 004 | four atomics: temperature, two thresholds, alerts | `write`, ioctls | writers and those who set thresholds; `temp_init` itself |
| Light 005 | three atomics | `read`, `write`, ioctls | readers and writers of one status |
| Skeleton 011 | a buffer and its size, a position per file | `read`, `write`, `llseek` | files share the buffer without a lock |
| Interrupt demo 021, keyboard 022 | plain counters, a tasklet, work items, a handler | attributes, commands, handler | tasklet and work run beside resets and beside exit |
| Signal driver 027 | a pointer to a task | ioctl, `release`, interrupt handler | processes that fork, close and exit |
| Attributes of 007, 016, 017, 018 | a remembered value, a line or register | stores | the hardware |
| Linked list 024 | a ring of nodes | add, walk, remove, clean up | none; allocations fail |
| Loading and unloading, or probe and remove, of 001, 002, 003, 004, 005, 007, 008, 010, 011, 012, 014, 015, 016, 017, 018, 020, 021, 022, 027, `misc.c` and the modules of the first row of timers | what is registered with the kernel | init with its error labels, exit | every file operation rests on what init registered |
| 006, 009, 019, 025, `vmalloc.c` | | | not modelled: they do not compile (see "Not modelled") |
| 000, 013, the rest of `001_driver_misc`, `softirq2.c`, most user programs | none of their own | print, call a driver in a row | not modelled |

What is hard in this code: threads that interleave inside a file operation
(012 and 014 take no lock at all, 002 takes none in one of three operations,
003 has two mutexes that guard different halves of one copy); copies to and
from user space that fault half way; several atomics or counters that belong
together and are set one by one (004, 005, 021); waits that end by a wake-up, a signal or a
timer; a file write that is partial; callbacks that are running when their
module is unloaded; error paths that have to undo exactly what
was done. `PROJECT.json` lists these hazards line by line with the properties
that watch over them.

What makes each part correct:

- storage: a locked sector does not change, only a key opens it, reads and
  writes are atomic to clients, no path keeps the mutex;
- mirror: a sector that nobody changed during its copy is mirrored as it is, a
  backup that reports success is an image of the mirror, everybody gets out
  again;
- keypad: the queue is a bounded first-in first-out queue, and no index leaves
  it;
- multi-reader and dual poll: nobody sleeps through data that are there; no
  string runs out of its buffer;
- multi-device: no copy leaves the data, a reset forgets;
- sensor, light, interrupt demo, attributes: what several unlocked steps add up
  to is what one of them at a time would have given, in exactly the cases in
  which the code can promise it;
- skeleton: no copy leaves the buffer;
- signal driver: the task that is signalled exists, and nobody but its owner
  wipes out a registration;
- list: a ring in both directions, nothing leaks, nothing freed is looked at;
- loading: a failed or unloaded module leaves nothing behind, and nothing of it
  runs any more.

## Modules

`StorageDevice` is `storage_kernel.c`. `pc[p]` is where thread `p` is inside a
file operation, `call[p]` holds the arguments after the code's conversions
(`Clamp` is the cut at the end of the device, `FieldValue` the signed three-bit
field of the unlock request), `result[p]` the return value. A copy moves one
byte per step; a fault may end it at any byte, and the rest of a faulting
`copy_from_user` is zeroed. File offsets are arguments of the calls, as with
`pread` and `pwrite`. The mirror's functions appear as steps that return.

`StorageMirror` is `storage_mirror_kernel.c`; `StorageSystem` composes the two:
the mirror and backup ioctls call `mirror_sector` and `vblock_backup_to_file`
in the same thread. `MirrorHistory` adds one history variable to it, the threads
inside the copy of `mirror_sector` whose sector has been changed meanwhile, which
is what the promise of the mirror depends on. `StorageUser` puts `main()` of `storage_user.c` on top, with
the bytes of its unlock request as the compiler lays them out.

`AtomicStorage` says what the device promises, an indivisible memory with
lockable sectors: stores, changes of locks, reads and lock reports are one step
each, and what a read or a report hands out is visible (`got`, `told`). The
result codes of the calls are not part of it. `StorageHistory` adds one history
variable, the bytes as they were when the mutex was last free, and states that
the device implements `AtomicStorage` under the mapping that shows this variable
as the memory, and as received what a read has copied, or a report gathered, when
the call is about to release the mutex.

`KeypadQueue` is the queue with its spinlock; every load and store of an index
is a step, because `queue_empty` resets the indices without the lock.
`BoundedFifo` is its abstract specification. A read of an empty queue returns an
uninitialized character in the code, so an arbitrary one here.

`MultiReaderWait` splits `my_read` and `my_write` at every access to shared
data (`strlen` and the copies go character by character), and
`wait_event_interruptible_timeout` into its preparation, test, sleep
and the ways out of it (data, timer, signal). The increment of `readers_count`
is a load and a store. Stores the code does not order are made in any order.

`DualPoll` does the same for `poll.c`, with a program as one of its threads:
`poll_app.c`, `select_app.c` or `epoll_app.c`, chosen in the initial state. With
`poll` and `select` the program queues up anew for every wait; `my_poll` is two
steps, the queueing and the look at the flag; with `epoll` it
stays on the wait queues, a wake-up puts the device on the ready list, and
`epoll_wait` keeps it there as long as `my_poll` reports an event
(level-triggered). A message is its size; `select_app.c` and `epoll_app.c` ask for
one byte less than the buffer has, so a full message takes them two reads. Stores
that follow one another become visible in any order, or in that of the program if
`InOrder` is set; only the violation run sets it.

`MyDev` is the file operations and attributes of 010, with the file position
handled as `ksys_read` does: copied before the call, stored after it, without a
lock between two threads that share a file.

`Lifecycle` describes init and exit functions as data: the sequence of
acquisitions, the releases each failure leads to, and the releases of exit, in
the order of the source. One small machine runs these plans. For a platform
driver the plan is that of probe and remove, followed by the releases the kernel
makes for device-managed memory. `Careful` names the drivers that look at every
result; the others go on after a refusal, and are held to the properties as long
as nothing was refused.

`Deferred` extends `Lifecycle` with what runs beside init and exit: timers,
tasklets, work items, interrupt handlers, kernel threads and the completion
worker. An object is queued, or running at some point of its callback or thread
function; the steps of init start objects, those of exit stop them with the call
the source uses. `del_timer` only takes a timer off the queue, `hrtimer_cancel`
and `tasklet_kill` wait for the callback, `free_irq` and `kthread_stop` shut the
door and then wait. A thread that cannot be created leaves an error pointer,
which 026 replaces by NULL. The file operations of 021 do not name their module
as owner, so its users may go on to schedule work until the module is gone.

Seven small modules stand each for one driver, or for one group of attributes:

| Module | Source | A step is |
|---|---|---|
| `TempSensor` | 004, file operations and the end of `temp_init` | one access to one atomic; history variables note what the thresholds were during each call |
| `LightDevice` | 005, file operations | one access to one atomic |
| `IrqDemo` | 021, attributes, commands, tasklet and work function | a load or a store of a counter; the three stores of a reset come in any order |
| `SignalDriver` | 027, file operations and handler | a call of a process, the test or the store of `etx_release`, or one of the two reads of the pointer in the handler |
| `LinkedList` | 024, all of it | one turn of a loop |
| `Skeleton` | 011, file operations | one look at `buffer_size`, one copy |
| `SensorAttr` | 007, 016, 017, 018, attribute stores | the remembered value, the hardware |

The larger modules state their types in `TypeOK` (`STypeOK`); only that of
`StorageDevice` is part of a run, since the others say nothing that a deeper
property does not.

The `MC...` modules give the constants values. Definitions whose comment says
"Faulty variant" are deliberate mistakes; no specification uses them, they serve
to show that a property is able to fail.

## Runs

| Run | Question | Instance |
|---|---|---|
| `storage_device` | Do locked sectors keep their bytes, are reads, stores and lock reports atomic, are all accesses in bounds, does only a key unlock, is the whole an atomic memory? | 2 threads, 2 sectors of 2 bytes, offsets 0, 1, 3, 4, lengths 0 and 2: requests inside, across and beyond a sector and the device |
| `storage_system` | Is a sector that nobody changed meanwhile mirrored exactly, is a successful backup an image, does every call return? | 2 threads, 2 sectors of 1 byte, a file per thread, partial and failing writes, signals |
| `mirror_torn` (violation) | Is a mirrored sector one that a write left? | 2 threads, sectors of 2 bytes, whole-sector writes |
| `app_unlock` (violation) | Does the unlock of `main()` succeed? | `main()` alone, 8 sectors |
| `keypad_fifo` | Is the circular buffer a bounded FIFO queue? Does every call return? | 2 threads, 2 slots, 2 keys, filled by `keypad_init` |
| `keypad_clear` | Do the indices stay in bounds although `CLEAR_BUF` resets them without the lock? Does `CLEAR_BUF` return once nobody adds keys? | 2 threads, 2 slots, 1 key, a count that wraps at 4 |
| `multi_reader` | Is no wake-up lost, does `strlen` stay in the buffer, does every call return? | 2 readers, 1 writer, a buffer of 2 characters |
| `dual_poll` | Does neither a blocking reader nor a program that waits with `poll`, `select` or `epoll` sleep through an event, does each loop get to every event? | 1 device, a reader, any of the 3 programs, 1 writer, a buffer of 2 bytes, writes of 1 and 3 bytes |
| `dual_poll_unread` (violation) | Is an event cleared only once it was read? | 1 device, a program, 1 writer of messages of 1 byte, stores in program order |
| `lifecycle` | Do the error paths and exit functions of 30 modules undo exactly what was done, does nothing of a module run once it is gone, do loading and unloading end? | every module, every step refused or not, callbacks and threads at every point, unloaded at any moment and loaded again |
| `mydev` | Do positions and lengths stay in bounds, are reads snapshots, does a reset forget, does every call return? | 2 threads that share a file, 1 device of 2 bytes, all operations |
| `devices` | What do the drivers without locks still guarantee (see below)? | 2 users each; 3 reports of 20, 25 or 30 degrees, thresholds 20 and 30, which may cross; 2 statuses and a brightness above 255; 4 requests to 021; 3 processes and 2 files of 027; 5 nodes; a buffer of 3 bytes for 011; values 0, 1, 2 for the attributes |

The bounds are the smallest at which the cases differ: two threads are all a
mutex or an unprotected variable can tell apart; two sectors of two bytes have a
request inside one, across both, at and beyond the end; a queue of two slots is
full, empty and wraps; a buffer of two characters has one that is not the
terminator. Payload bytes are not interpreted by the code; one value and zero
tell old from new, two are needed where two writers are mixed. `Lifecycle` and
`Deferred` have no bound: two minors and two threads are what the code has.
`devices` explores seven drivers that have nothing in common, one at a time with
the others at rest; requests and reports are counted to bound the counters, and
3 or 4 of them are more than two users can have under way.
`SizeMax` is the width of the subtraction in 011: 8 values for a buffer of 3
tell a wrapped difference from every possible one. The
two minors of 014 share nothing but the poll call, whose loop over both is in
the model; one of them is checked.

### Fairness

Liveness is checked under these assumptions only: a thread that can take a step
of its own keeps running (weak fairness of its steps); a waiter for a mutex or
spinlock is not overtaken for ever (strong fairness of the acquisition: the
kernel hands a contended mutex over to its first waiter, and its spinlocks are
queued); a timer that was armed expires (weak fairness). Clients are not obliged
to make calls, signals and faults never have to come. `hrtimer_cancel` tries
again and again while the callback runs; it is assumed to meet one of the half
seconds in which it does not (strong fairness). `lifecycle` runs without the
deadlock check: 030 really may stop for ever in its init function, and the model
ends where an error pointer was dereferenced or code of a module that is gone
would run. In `devices` the tasklet and the work item of 021 get to run when
they are scheduled (weak fairness), nothing else is fair; it runs without the
deadlock check because the list driver ends and the bounded drivers come to
rest.

### What the drivers without locks guarantee

`devices` checks for each of them the strongest statement that holds:

- `AlertsAccounted` (004): a temperature outside the thresholds during the whole
  of its call is counted, one inside them is not, provided `temp_init` was
  through and low was not above high meanwhile.
- `StatusWhole` (005): between writes the light is what writes and commands add
  up to; a write on its own repairs what overlapping ones have mixed; a read
  during which at most one value was set shows a status of one moment.
- `CountsExact`, `RequestsServed` (021): each count is the number of executions
  since the last reset, unless that reset met an increment half way; every
  request is followed by an execution.
- `SignalsReachTheLiving` (027): the task kept without a reference exists, unless
  processes shared a file by `fork`. A registration stands until its process
  withdraws it or another one registers; a release that had made its test before
  the registration may still store its NULL over it, since test and store are not
  one step (`sigdrv.c:54-55`). The handler's second look at the pointer finds NULL
  only if some release has stored it in between.
- `ListSound` (024): a ring in both directions, in the order of insertion, with
  nothing leaked and nothing freed looked at.
- `CopiesInside` (011): copies stay in the buffer, unless a write cut the contents
  between the two looks of a read at their size.
- `ShownIsSet` (007, 016, 017, 018): what the attribute remembers is what the
  hardware was set to, once a store has run on its own since stores overlapped or
  the device was bound.

TLC refutes each of them without its exceptions.

## What the violation runs show

- `app_unlock`: `main()` sends a four-byte integer and then the key, the driver
  reads three bits of the first byte and takes the second byte for the key. The
  unlock is refused, although the comment in `main()` reads "Unlock sector 2".
- `mirror_torn`: `mirror_sector` copies from `storage_buffer` under
  `mirror_mutex`, writers hold `storage_mutex`. A sector can be mirrored half
  old, half new.
- `dual_poll_unread`: the comment says "Clear event once fully read". The
  reader's file position is not reset by the next message. In the trace a program
  reads a message of one byte, which clears the event and leaves its position
  at 1; a second message of one byte is complete, size and flag, when the program
  comes to read it, gets nothing because its position is at the end already, and
  clears the event. The run has stores in program order and messages of one
  length, so that nothing but the stale position is at work.

Further disagreements met while modelling, which the model contains and for
which the properties are worded accordingly (see the hazards):

- `CLEAR_BUF` during an enqueue leaves `count` and the indices in disagreement.
  `ImplementsFifo` is therefore checked without it.
- Two backups to one path: the second truncates the file while the first is
  writing it. `BackupIsMirrorImage` is checked with a file per thread.
- A signal that ends `mirror_sector`'s wait is not reported.
- The release of a file of 027 may wipe out the registration of another process.
- Sectors 4 to 7 can be locked and never unlocked.
- A lost increment of `readers_count` keeps a message for ever.
- 014 returns `PTR_ERR(my_devices[-1])` after its roll-back; 002 returns 0 when
  it has no device numbers; 022 frees its interrupt handler under another cookie
  and leaves it behind; a probe of 007 that fails keeps its descriptor, and its
  remove gives the descriptor back before the attribute that sets it; 004 makes
  its device usable before it sets the thresholds. `Lifecycle`'s properties name
  these drivers.
- 028 deletes a timer that re-arms itself with `del_timer`, which does not wait
  for a running callback: the timer can expire after the module is gone. The
  worker of 030 may still be returning when the module is gone.
  `NothingRunsOnceGone` names these two.
- 030 waits for ever if its worker cannot be created. 023 and `kThread.c` take an
  error pointer for a thread.
- 021 neither kills its tasklet nor cancels its work item, 022 does not cancel its
  own; both are named by `NothingRunsOnceGone`.
- 021 has a handler but never requests an interrupt for it.

## Proofs

Eight modules hold the proofs. What they prove holds for every set of threads,
nodes or drivers and for all sizes, offsets and lengths that the assumptions in
the modules admit: sizes are positive, "nobody" is not a thread, different kinds
of threads are different, a driver is one that has a plan. Every invariant that a
passing run checks is the subject of a theorem. TLC had checked every inductive invariant as an invariant of a
small instance before it was proved.

| Module | Theorem | Statement |
|---|---|---|
| `StorageDeviceProofs` | `Invariance` | `Spec => []IndInv` |
| | `TypeCorrect` | `Spec => []TypeOK` |
| | `MutualExclusion` | `Spec => []MutexHeldInside` |
| | `TargetsStayOpen` | `Spec => []StoreTargetsOpen` |
| | `WritesInBounds` | `Spec => []WriteInBounds` |
| | `LockedSectorsKeepTheirBytes` | `Spec => LockedSectorImmutable` |
| | `DataInvariance` | `Spec => [](IndInv /\ DataInv)` |
| | `ReadsAreSnapshots` | `Spec => []ReadIsSnapshot` |
| | `LockInfosAreSnapshots` | `Spec => []LockInfoIsSnapshot` |
| | `StoresLand` | `Spec => []StoreLanded` |
| | `SectorsOpenedByKey` | `Spec => OpenedByKeyOnly` |
| | `UpperSectorsStayLocked` | `Spec => [][s >= HalfField` and locked `=>` locked' `]_vars` for every sector `s` |
| | `DeviceIsAtomic` | `HSpec => ImplementsAtomic` |
| `StorageSystemProofs` | `SystemInvariance` | `SSpec => [](IndInv /\ SysInv)` |
| | `MirrorsAreCurrent` | `OSpec => []MirrorIsCurrent` |
| | `SystemTypeCorrect` | `SSpec => []STypeOK` |
| | `MirrorMutualExclusion` | `SSpec => []MirrorMutexHeld` |
| | `BackupsAreImages` | `OwnPaths` implies `SSpec => []BackupIsMirrorImage` |
| `KeypadProofs` | `QueueInvariance` | `Spec => []QueueInv` |
| | `IndicesInBounds` | `Spec => []IndexInBounds` |
| | `KeypadIsFifo` | `"clr" \notin Calls` implies `Spec => ImplementsFifo` |
| `MyDevProofs` | `DevInvariance` | `Spec => []DevInv` |
| | `DevTypeCorrect` | `Spec => []TypeOK` |
| | `CopiesInBounds` | `Spec => []CopyInBounds` |
| | `ReadsAreSnapshots` | `Spec => []ReadIsSnapshot` |
| | `ResetsForget` | `Spec => []ResetForgets` |
| `MultiReaderProofs` | `WaitInvariance` | `Spec => []WaitInv` |
| | `WaitTypeCorrect` | `Spec => []TypeOK` |
| | `WakeupsAreNotLost` | `Spec => []NoLostWakeup` |
| | `DataIsTerminated` | `Spec => []AlwaysTerminated` |
| `DualPollProofs` | `PollInvariance` | `Spec => []PollInv` |
| | `PollTypeCorrect` | `Spec => []TypeOK` |
| | `NoWakeupIsLost` | `Spec => []NoLostWakeup` |
| `DriverProofs` | `SkeletonCopiesInside` (011) | `SkelSpec => []CopiesInside` |
| | `AttributesShowWhatIsSet` (007, 016 to 018) | `AttrSpec => []ShownIsSet` |
| | `CountersAreExact` (021) | `IrqSpec => []CountsExact` |
| | `SignalsFindTheirTask` (027) | `SignalSpec => []SignalsReachTheLiving` |
| | `AlertsAddUp` (004) | `TempSpec => []AlertsAccounted` |
| | `LightStatusWhole` (005) | `LightSpec => []StatusWhole` |
| | `ListIsSound` (024) | `ListSpec => []ListSound` |
| `LifecycleProofs` | `DeferredInvariant` | `DSpec => [](DInv /\ ThreadsOnly)` |
| | `NothingIsLeftBehind` | `DSpec => []AbsentHoldsNothing` |
| | `LoadingIsComplete` | `DSpec => []LoadedIsComplete` |
| | `ReleasesAreHeld` | `DSpec => []ReleasesOnlyHeld` |
| | `NestingIsKept` | `DSpec => []NothingDangles` |
| | `NothingRunsAfterUnload` | `DSpec => []NothingRunsOnceGone` |

### The arguments

**Storage device, locks.** No single property is inductive. That a step never
changes a locked sector rests on `StoreTargetsOpen`: while a thread stores, all
sectors of its request are unlocked. This is kept because a lock can only change
in the hands of the owner of `storage_mutex` (`MutexHeldInside`) and the storing
thread is the owner; it is established by the test of the locks, which looks at
all sectors the request touches only if the request lies in the device
(`CallInRange`) and only if a thread at the point "store" really is in a write
or an erasure (`StepFitsOp`). The conjunction

    IndInv == TypeOK /\ MutexHeldInside /\ StepFitsOp /\ CallInRange /\ StoreTargetsOpen

is inductive; the proof has a lemma for each action, and one on the division
that maps addresses to sectors.

**Storage device, bytes.** A snapshot is kept because whoever could change it
does not own the mutex. `DataInv` adds to the two snapshot properties how far a
store and a copy are (`StoreProgress`, `CopyProgress`), that the part stored so
far is in the device (`StoredPrefix`), and that an unlock past its test gave a
key and names a sector that fits the bit-field (`KeyGiven`); hence a sector of
the upper half, once locked, is never unlocked again. `StoreLanded` is `StoredPrefix` at its end.

**Storage device, atomicity.** `StorageHistory` adds the buffer as it was when
the mutex was taken, and the mapping shows that buffer to the abstract memory
until the mutex is released. `BeforeInv` says that while nobody owns the mutex
the two buffers are the same, and while somebody does they differ only in the
part stored so far. The abstract write is taken by the release of the mutex, the
change of a lock by its assignment. The abstract read is taken by the end of the
copy, whole or cut short by a fault, and the report when the last flag has been
gathered: at that moment all that was copied byte by byte has to be in the memory
the abstract device shows, which holds because the copying thread owns the mutex
(`ReadIsSnapshot`, `LockInfoIsSnapshot` and `BeforeInv` together). When the call
goes on, what it handed out is forgotten. All other steps stutter.

**Storage system.** `SysInv` has the ownership of `mirror_mutex` on every error
path and the progress of a copy or a backup. A step of the mirror on behalf of a
device call is one step of the device (`StepIsDeviceStep`), so the invariant of
the device carries over. `FileIsImage` strengthens the property of backups to
every moment after the file was opened: what was written so far is the head of
the mirror as it is now. It is kept because only the owner of the mutex changes
the mirror and, given `OwnPaths`, only one thread writes the file. Without
`OwnPaths` it is false: `filp_open` with `O_TRUNC` comes before the mutex
(`storage_mirror_kernel.c:48`).

**Mirrored sectors.** `CopiedPrefix` says of a thread inside the copy that has not
been overtaken that the bytes copied so far are in the mirror as they are in the
device. The mirror keeps them because the thread owns `mirror_mutex`; the device
need not, and where a write or an erasure changes a byte of the sector, `overtaken`
says so from that step on. `MirrorIsCurrent` is `CopiedPrefix` at its end.

**Keypad.** With `CLEAR_BUF` the indices stay in bounds because every value ever
stored into them is a remainder or zero, also values computed from an index that
was reset meanwhile. `FifoInv`, without `CLEAR_BUF`, adds that what a thread has
loaded is still current while it owns the lock (`SeenIsCurrent`) and that `rear`
is `count` slots behind `front` (`RearFollows`), with the exceptions for an
operation half way. The refinement needs both and lemmas on sequences: an
enqueue appends to the contents seen from `front`, a dequeue removes the head.

**Multi-device driver.** `DevInv` follows the storage device, with a mutex per
device. `CallFits` and `Progress` are what bounds a copy of several steps;
`ResetClears` states `ResetForgets` also while the mutex is held, and for a reset
under way the cells it has already cleared.

**Wait queues (012, 014).** `NoLostWakeup` speaks of sleepers with an event; it
is kept only because a sleeper is on its queue before there is one
(`SleepersQueued` in 012, `SleeperQueued` in 014). A program in `poll` or
`select` queues itself device by device, so `PollerQueued` says it of every
device already asked: an event there was seen, has marked the thread, or its
writer has yet to call `wake_up`. Between `poll_wait` and the look at the flag
`LookQueued` has the caller on the queue of the device being asked, so a writer in
between marks it; the other order would lose that wake-up. With `epoll` the instance stays queued, and
`EpollQueued` says where an event is: on the ready list, in the list being looked
through, or on its way; `EpollEmpty` that nobody sleeps on a ready list with
something in it. 014 is proved for any non-empty set of devices, while the run
has one. `AlwaysTerminated` needs that a copy never passes its length
(`CopyWithin`).

**Drivers without locks.** `SkelBounds` names what each local size may be after
the first and the second look at `buffer_size`, and a lemma says when the
unsigned difference wraps. `OverlapKnown` and `ClashKnown` say that whoever is
under way with somebody else is noted as such; `TaskHolds` that a registered
task which never shared a file still holds one or is about to withdraw;
`RegistrationStands` that while a registration which met no release half way is in
place, nobody but its owner is about to store NULL. `TempNoted` ties what is noted of
a report to the thresholds; its last part is the point: a report that passed the
test of the high threshold and was never inside the thresholds is below the low
one, since one assignment cannot move both past it. `ReadNoted` gives one status
that everything a read has loaded so far agrees with. `CountsExact` is inductive
as it stands, but for the types.

**Linked list.** Between two calls the head and the allocated nodes form a ring
that follows the history variable `added`, the order of insertion: `next` of a
node is the first node added after it, `prev` the last one added before it, and
the head closes the circle. That is a statement about pairs of nodes, so neither
a sequence of nodes nor an induction over it is needed: unlinking a node leaves
its neighbours next to each other, and a traversal that has reached a node has
come by exactly those added before it, or after it when it runs backwards.
Inside the loops that free as they go, the successor was read before
(`LoopStart`, `LoopBody`), and it is not the node that is freed. The theorem has
no bound on the nodes; the calls are those of `list_init` and `list_exit`.

**Loading and unloading.** The argument has a static and a dynamic half. For
each plan `PlanSound` is shown once. `Stock(steps, n)` is what the steps before
`n` acquire and do not free, and the releases of an error path are `Orderly` for
it: they empty it (`Covered`), name only what is there and has not gone yet
(`Present`), and take nothing away that something still rests on (`Nested`). The
loop of 010 is done for a turn `i` in front of any releases that are in order
already, which gives its five labels for both devices and its exit function at
once. The dynamic half is an invariant by phase. During init the driver holds at
most the stock (and all of it if it looks at every result or nothing was
refused), plus what 022 and 007 may have left from an earlier life (`Carry`);
when loaded, what init keeps; during an error path or the exit function, the
releases still to be made cover what is held. One lemma, `OneRelease`, says that
the three parts of `Orderly` survive a release together with its entry. Only
`Covered` is claimed for drivers that ignore refusals: they may release what
they never got, but they leave nothing behind. For what runs beside a driver,
`Backed` says that whatever is queued or running is held or a known stray. It is
kept because `hrtimer_cancel`, `tasklet_kill`, `free_irq` and `kthread_stop` drop
their object from `held` only when it is idle, and a callback starts only what is
held. Together with `AbsentHoldsNothing` this gives `NothingRunsOnceGone`.
`ThreadsOnly` is what `ReleasesOnlyHeld` needs in addition for 026, whose exit
function tests for NULL.

The proofs changed the model in four places. `AlertsAccounted` had
allowed for reports under way; the proof needs no such slack and it was removed.
In `DualPoll` the initial control point was a `CASE` whose arms overlapped for
threads that are not programs, so that TLA+ left the value open; and a program
needs a device to wait for, which is now an assumption. `LinkedList` kept the
expected contents as a sequence; they are a set with an order of insertion now,
and `add_node` needs a node that is not in use, as `kmalloc` would return one.
`err_loop` of 010 was written with a fold over a sequence of sequences, which is
needless for two devices.

### Only model-checked

- Liveness under fairness is outside the proof system: `SCallsReturn`,
  `CallsReturn`, `ClearReturns`, `EventsServed`, `LoadAndUnloadEnd`,
  `RequestsServed`.
- The violation runs, which are refuted on an instance.

## Limits

- Storage: offsets are natural numbers; the wrap of a 32-bit `end` is not
  modelled. `user_keys` is fixed after loading, although the parameter file is
  writable. File positions are not kept.
- `AtomicStorage` does not compare result codes.
- `MyDev`: `loff_t` does not overflow. `open` and `release` change nothing.
- `DualPoll`: contents of messages are not kept, only their size.
- `Lifecycle`: calls with the error value of an earlier refusal do nothing; no
  file is opened before init returns; an object is never refused twice in one
  load except as the code retries it.
- `Deferred`: the counters that callbacks and threads keep are left out (that of
  021 is in `IrqDemo`, the others are only logged); `tasklet_kill` waits until
  the tasklet is idle; once a module is gone nothing of it is followed any more.
- The seven small modules leave out calls that only read, and calls whose copy
  from user space fails before anything was changed.
- `SignalDriver`: a task is freed when it has closed its files; that somebody may
  still hold a reference to it is not modelled. Processes have one thread.
- `LinkedList`: which address an allocation returns makes no difference.
- `Skeleton`: contents are their size; every process has a file of its own.
- Memory ordering: accesses are sequentially consistent except where the code
  makes plain stores in a row, which the model makes in any order.

## Not modelled

- 006 (`led_rgb_sysfs_attr.c`), 009, 019 and 025 (`list.c`), and `vmalloc.c` of
  008: missing semicolons, undeclared names, a garbled macro, calls with wrong
  arguments. They do not compile, so there is no behaviour to be faithful to. For
  the same reason (`device_read` lacks a parenthesis) only loading and unloading of
  001 are modelled.
- 020: `suspend` and `resume` assign one flag each; the count behind
  `pm_runtime_get_sync` is the kernel's. Only probe and remove are modelled.
- `misc.c`: `read` and `write` of one string repeat what 011 and 012 show with
  more than one actor. Only registration and release are modelled.
- 000, `hexdump.c`, `init_exit_data.c`, `panic.c`: they print or panic.
  `softirq2.c` needs a kernel patched with a softirq number of its own.
- User programs other than those of 003 and 014: a few calls in a row, which are
  among those the arbitrary clients of the models make.

## Plan

Done: storage, keypad, multi-reader, poll, multi-device, lifecycle, deferred
callbacks, the small drivers; every invariant the runs check and the two
refinements as theorems. What is left of the implementation is listed above,
with the reason.

Open:

1. The demonstration program of 003 as a client of the storage device: a proof
   that its steps are steps of `StorageDevice`.
2. The order of the two mutexes of 003 as an action property, the safety part of
   `SCallsReturn`.
3. `DeferredInvariant` speaks of the plans of the thirty drivers. Its dynamic half
   uses nothing of them but `PlanSound`, so a new driver costs a plan and one
   lemma.
