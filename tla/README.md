# TLA+ specifications of the FPGA runtime for OpenCL

This directory holds a formal model of the host runtime of this repository:
TLA+ modules translated from the C++ and C sources under `src/src` and
`src/lib`, TLC configurations that check them on small instances, and theorems
about them whose proofs TLAPS checks. `PROJECT.json` maps every definition to
the lines it models and lists the runs, the hazards each property is meant for,
and what was found.

The runtime turns OpenCL calls of the host program into operations of FPGA
boards. Its own logic is a scheduler: events with dependencies wait in command
queues, are broken into device operations, contend in one platform-wide queue
for devices, accelerators and buffers, and are completed by interrupts that
arrive at any time. That scheduler, the lock its threads sleep on, the rings
and pipes it shares with the device, the callbacks it runs in between, and the
many copies of a buffer it keeps in step are what the models are about.

## 1. Inventory

### Components, their state and their operations

| Component (source) | State | Operations | Hard behaviours |
|---|---|---|---|
| Condition variable (`lib/acl_threadsupport/src/acl_threadsupport.c`) | `waiter_mutex`, `num_waiters[2]`, `passive_sem[2]`, `timedout[2]`, `entry_q`, `signal_sem` | acquire, release, wait, timed wait, signal | signals come from interrupt context and take no lock; one *active* waiter broadcasts to the *passive* ones of its group; two groups share the variable in turn |
| Global lock (`acl_thread.cpp`) | one condition variable, recursion count of the thread | lock, unlock, suspend, resume, wait for the device | the lock is dropped around user callbacks, kept during blocking transfers |
| Device operation queue (`acl_device_op.cpp`) | `op[max_ops]` with group, status, `execution_status`; live list, free list, `num_committed`, `num_proposed`, `last_committed` | propose, commit, forget, update (submit / status / prune passes), post status, migrate check | fixed number of slots; groups of operations must run in sequence; conflict matrix; errors in the middle of a group; interrupts between any two steps |
| Kernel submission (`acl_kernel.cpp`) | `last_bin`, `loaded_bin`, invocation wrapper | propose reprogram + migrations + launch; receive update | the decision to reprogram is taken long before the launch |
| Kernel interface (`acl_kernel_if.cpp`) | invocation queue of each accelerator: front, back, next indices | launch, status interrupt, update | fast relaunch: a kernel is queued on an accelerator that is busy |
| Command queues and events (`acl_command_queue.cpp`, `acl_event.cpp`, `acl_command.cpp`) | `commands`, `inorder_commands`, `new_commands`, `completed_commands`, `num_commands`, `num_commands_submitted`, `last_barrier`; per event `depend_on`, `depend_on_me`, `execution_status`, `last_device_op`, reference count | enqueue, release, set user event status, update queue, submit, pop | events of different queues depend on one another; events are recycled through a pool; fast relaunch submits before a dependency is complete |
| Context, platform (`acl_context.cpp`, `acl_platform.cpp`) | lists of queues, pools of events and invocation wrappers, device exception status | idle update, exception callbacks | update is re-entered from interrupts' wake-ups |
| Event callbacks (`acl_event.cpp`, `acl_command_queue.cpp`, `acl_usm.cpp`) | list of callbacks of each event, reference count, `not_popped`, `defer_removal`, position of each update in its list | register, call, set status, release, update, blocking free | the lock is given up in the middle of an update, and the function of the user may update the same queue |
| Blocks of device memory (`acl_mem.cpp`) | list of allocated blocks, `block_allocation`, `reserved_allocations`, `reserved_allocations_count` | create, release, reserve, give back, migrate | `block_allocation` says where a buffer will be, not where it is; an address is fixed long before the buffer is there |
| Contents of buffers (`acl_mem.cpp`, `acl_program.cpp`) | `writable_copy_on_host`, `auto_mapped`, `mapping_count`, `mem_cpy_host_ptr_pending`, `next_sub` | read, write, copy, map, unmap, sub-buffers, kernels, migration, saving and restoring around programming | one bit per object says where its contents are; a buffer and its sub-buffers have blocks of their own for the same bytes |
| Programs (`acl_program.cpp`, `acl_device_binary.cpp`) | device programs, loaded binary of each device | build, eager programming | eager programming is a command like any other |
| printf (`acl_printf.cpp`) | bytes pending of an operation, read offset of the kernel | pick up on stall, on completion, on debug dump | the kernel is stopped until the buffer is emptied |
| Host pipes (`acl_hostch.cpp`) | `m_host_op_queue` of packets and mapped regions, `size_buffered`, `binded`, the channel's buffer and acknowledge pointer | bind, read, write, map, unmap | the pipe is used before and after it is bound to its channel; regions are unmapped in any order; blocking reads re-enter the update |
| SVM and USM (`acl_svm.cpp`, `acl_usm.cpp`) | lists of allocations | allocate, free (blocking), copy | a blocking free defers the removal of events that use the memory |
| MMD layer (`acl_hal_mmd.cpp`) | function tables, `dma` in progress | transfers, interrupt dispatch | entry points called from other threads |

The rest (device queries, auto-configuration parser, PLL tables, profiler,
samplers, offline HAL, ELF package library, hashing) keeps no state that the
order of events could spoil; it is listed in `PROJECT.json` as not modelled,
with the reason.

### How they interact

A host thread takes the global lock and calls the API. An enqueue creates an
event (`acl_create_event`) and puts it on its queue; the calls that enqueue a
kernel or a transfer, set a user event or wait go on with `acl_idle_update`.
The update of a context repeats rounds over its queues; the update of a queue
first *nudges* the device operation queue, then pops completed events, then
submits ready ones. Submitting proposes a group of operations and commits it,
which runs the device operation queue's own update: it starts operations, takes
over the statuses interrupts wrote, posts the first and the last status of a
group to the event, and frees what is finished. A host thread that waits
(`clFinish`, `clWaitForEvents`) sleeps on the condition variable; interrupts
write a status, then signal it.

### What makes each part correct

* Condition variable: every waiter of a group is woken by one delivered signal;
  no wake-up is lost, duplicated or posted to nobody.
* Device operation queue: the operations of a group run one after the other;
  nothing runs beside something it conflicts with; a kernel runs on its own
  binary with its buffers in place; every command completes exactly once, with
  an error if one of its operations failed; no slot is lost; the scheduler
  never stops while something could start.
* Kernel interface: each accelerator behaves like a first-in first-out queue of
  invocations: the interrupt of a kernel reaches the operation that launched
  it, a kernel runs with its own arguments, a stalled one is found.
* Command queues: a command begins only after what it must not overtake; the
  counters say what they count; an event that went back to the pool is named by
  nothing; no queue sleeps on work that could be done; everything finishes.
* Event callbacks: each is called once; whatever it does, the queue whose
  update it interrupts stays consistent, in order, and its events are
  reclaimed.
* Blocks: no two overlap, none leaks, and the address a kernel was given at its
  enqueue holds its buffer when it starts.
* Contents: all the copies of a buffer together behave like one memory.
* Host pipes: every byte arrives once, in order, as soon as the user gave it
  up; a mapped region can be unmapped.

## 2. Modules

| Module | Models | Lines of code it stands for |
|---|---|---|
| `CondVar` | the condition variable, one action per section between two blocking calls | `acl_threadsupport.c` |
| `DeviceOpQueue` | the device operation queue with kernel submission, migrations, reprograms, accelerator rings, printf stalls, interrupts | `acl_device_op.cpp`, parts of `acl_kernel.cpp`, `acl_mem.cpp`, `acl_printf.cpp`, `acl_kernel_if.cpp`, `acl_context.cpp` |
| `CommandQueues` | queues, events, dependencies, user events, update rounds; the device operation queue is seen through the statuses it posts | `acl_command_queue.cpp`, `acl_event.cpp`, `acl_command.cpp` |
| `LaunchFifo` | abstract: an accelerator is a bounded first-in first-out queue of invocations | what `acl_kernel_if.cpp` promises |
| `KernelIf` | launches and the interrupt handler on the rings of invocations, caches of registers, printf stalls, forced reset; implements `LaunchFifo` | `acl_kernel_if.cpp`, parts of `acl_hal_mmd.cpp`, `acl_printf.cpp`, `acl_kernel.cpp` |
| `HostPipe` | one host pipe before and after its binding | `acl_hostch.cpp` |
| `EventCallbacks` | callbacks that give the lock up, beside updates, releases, user events and a blocking free | `acl_event.cpp`, `acl_command_queue.cpp`, `acl_context.cpp`, `acl_usm.cpp` |
| `MemBlocks` | the allocator of device memory and the reservations of commands | `acl_mem.cpp`, parts of `acl_kernel.cpp`, `acl_device_op.cpp` |
| `BufferMemory` | abstract: a memory that is read and written | what `acl_mem.cpp` promises |
| `BufferCopies` | the copies of a buffer and its sub-buffers; implements `BufferMemory` | `acl_mem.cpp`, parts of `acl_kernel.cpp`, `acl_program.cpp` |
| `SequenceLemmas` | theorems about sequences, and induction by least counterexample, for the proofs | |
| `CondVarProofs`, `DeviceOpQueueProofs`, `CommandQueuesProofs`, `KernelIfProofs`, `HostPipeProofs`, `MemBlocksProofs`, `BufferCopiesProofs` | theorems about the module of that name | |
| `MC...` | the instances TLC checks, one module for each | |

A definition marked *a slip* in a comment is not part of the model: it is a
plausible mistake in the code, and putting it in the place of the definition
that follows makes a property fail. `PROJECT.json` says which.

### CondVar

The state is that of the C struct, plus `pc[t]`, where each thread is: outside
(`A`), holding the mutex (`B`), asleep as `active` or `passive` waiter, `awake`
(the active waiter took the signal and wants the mutex back), `woken`, `again`.
`JoinGroup` is the section from the post-increment of `num_waiters` to the
release of the mutex; `Deliver` is the active waiter's broadcast; `TakeWakeup`
and `ReturnWoken` are a passive waiter's. `Signal` may come at any moment.
`acl_reset_condvar` is `Init`; the debug dump is left out.

### DeviceOpQueue

`committed` and `free` are the live and the free list (sequences of operation
ids; the links are abstracted), `op[i]` an `acl_device_op_t`: its `status` is
the scheduler's (`status`), `exec` what interrupts write (`execution_status`).
`BeginSubmit`, `Commit` and `BackOff` are the submit functions: the group is
proposed as a whole and committed, or its slots go back. `SubmitPass`,
`StatusPass` and `PrunePass` are the three passes of
`acl_update_device_op_queue`: one step for the operation the first starts, one
for each operation the second looks at, one for the third, and the interrupts
`TransferDone`, `KernelStalls` and `KernelDone` fall between any two. `at` says
where the current copy of a buffer is, `loaded_bin` and `last_bin` what a
device holds and will hold, `ring` the invocations an accelerator holds, the
running one first. The conflict rules are translated from the conflict matrix
and the tests around it (half and full duplex).

### CommandQueues

One update round is a sequence of sections under the lock, `at` says in which:
`asleep` (the lock is free; host calls and interrupts may come), `round`,
`nudge`, `pop`, `submit`. `PopCompleted`/`PopInOrder`, `SubmitOutOfOrder`,
`SubmitInOrder` are the loops of `acl_update_ooo_queue` and
`acl_update_inorder_queue`, one action per element. `life` distinguishes an
event not yet enqueued, live, and back in the pool of its context. Interrupts
may come inside an update too: they mark an operation and signal; the event
learns of it in the next nudge or around a submission, as in the code.
`Enqueue` of a kernel or a transfer goes on with such an update; markers,
barriers and user events leave it to the thread that waits for them, which is
what `signalled` stands for there. Assertions of the code that could fail are
the predicates `PopFails` and `SubmitFails`.

What is taken from the modules beside it is stated, not checked by composition:
operations of one command act as one (`GroupInSequence` of `DeviceOpQueue`), an
operation starts only when there is room for it, and an accelerator treats its
launches as `LaunchFifo` says (`RefinesFifo` of `KernelIf`): it takes
`RingSize` of them, ends the oldest first (`Interrupt`), and announces as
running the oldest or one that fills the ring (`Run`). That no more are given
to it supposes, as the theorem about `KernelIf` does, that no kernel whose
buffers are being moved is overtaken by as many as the ring takes.

### KernelIf and LaunchFifo

Two threads share a ring of invocations per accelerator (`job_ids`, `front`,
`back`): the host thread, which launches, picks up printf data, dumps and
resets under the global lock, and the interrupt handler, which takes no lock.
`InFront` is the order of the device operation queue: `Launch` counts, as
`num_on_device` does, only the invocations in front of its own. A kernel can be
launched before one in front of it if that one has buffers to be moved;
`Overtaken` are the invocations to which this may happen.

Each action is one access that the other thread can see. The host's are
`Launch`, `WriteImage`, `EnterRing`, `Announce`, `WriteStart` for a launch and
`PickUp`, `ClearPending`, `Resume`, `Unstall` for a stall; the handler's are
`Query` (one accelerator of `acl_kernel_if_update_status`), then `PendStall`,
`FlagStall`, `ClearStallBit` or `Retire`, `Complete`, `Advance`,
`AnnounceNext`. The store of the host into the ring is seen by the handler at
any time up to the write of the start register (`StoreSeen`). `cra` are the
registers an accelerator latches when it is started, `image_cache` and
`arg_cache` the copies that decide which of them are written. The accelerators
(`Finish`, `Stall`) are modelled from how this code drives their registers.

`RefinesFifo` maps the ring, with the invocation being launched and the one
whose completion is being delivered, to the queue of `LaunchFifo`, and
`execution_status` to its `status`. Invocations end in the order of their
launches. They are *announced* as running in that order but for one case: the
host announces a launch when `front` equals `back`, which says that the ring is
empty, or, between the report of a completion and the store of `back` by the
handler, that it is full. `LaunchFifo` therefore lets the oldest and, in a full
queue, the newest be announced; `OneRunning` says what a comment of the code
expects instead (`acl_device_op.cpp:1063`; section 5). `CommandQueues` takes
an accelerator to be this queue. In `DeviceOpQueue` a launch is one step: it is
announced in an empty ring, or at the end of the one before it, and the
announcement in a full ring, which needs the steps in between, does not occur.

### HostPipe

`ops` is `m_host_op_queue`: packets, and mapped regions with the part that was
unmapped so far. Calls of the user hold `m_lock` and are one step; the binding
holds the global lock only, so that it is split in steps (`binder`) and the
reading of `binded` at the beginning of a call is a step of its own (`user`).
The n-th byte carries the number n, in both directions, which is what lets
`InOrder` say that none is lost, repeated or overtaken. The channel of the MMD
is external: a stream of bytes, a buffer and an acknowledge pointer.

### EventCallbacks

`acl_event_callback` gives the lock up around each function of the user. A
thread is a stack of activations: of the update of a context, of the setting of
a status, of the walk over the callbacks of an event, and of the functions the
user wrote, inside of which the runtime may be called again; it has the lock
while its top is none of the user's. `node` says whether a node of a callback
list is in use or freed: a freed node is read as it was when it was freed, the
most harmless outcome, so that what `CalledOnce` shows of it is a second call
of its function (section 5). The
queues of the context are visited in any order. One in-order queue and the
queue of the user events are modelled, with transfers and markers. `Hosts` says
what the program does: how many threads, how deeply calls are nested, which
callbacks are registered, whether memory is freed by `clMemBlockingFreeINTEL`,
and whether an event is left alone while a function that was registered on it
runs.

### MemBlocks

`region` is the list of blocks of the platform's global memory in the order of
addresses; addresses and sizes count units of `ACL_MEM_ALIGN`, and a device has
one memory system. `FirstGap` is the search of `acl_allocate_block`: from the
buffer's preferred bank to the end of the device's memory, then from its
beginning. A command is enqueued (`Enqueue`, then `Reserve` for one buffer at a
time, `RefuseKernel` or `RefuseMigration` and `GiveBack` when there is no
room), then launched and migrates its buffers one after the other; a copy from
one device to another is blocking and so one step with the move. Commands run
in any order, which abstracts the queues; the program keeps its buffers until
its commands have ended and orders migration commands behind kernels that use
the same buffers.

The comment at `acl_types.h:843-855` says a reservation's count goes down "when
the kernel completes"; the code, and the model, do it when the migration for it
starts.

### BufferCopies and BufferMemory

One buffer in device global memory and its sub-buffers, which share its backing
store on the host but have blocks of their own on the device. `onHost`, `auto`,
`count` and `pending` are `writable_copy_on_host`, `auto_mapped`,
`mapping_count` and `mem_cpy_host_ptr_pending`. The functions `Synced`,
`Unmapped`, `AsSource`, `AsDestination`, `Mapped`, `Bound` and `Migrated` are
the cases of `l_mem_transfer_buffer_explicitly`, `acl_bind_buffer_to_device`
and `acl_mem_migrate_buffer`; the actions put them together as the commands do.
Commands are single steps when they execute, since the program orders those
that touch the same cells (the other modules are about that order). What the
enqueueing of a command changes at once is a step of its own: `Bind` is the
`acl_bind_buffer_to_device` of `clEnqueueReadBuffer` and the others, which
gives a buffer its block and, if it was made from a host pointer, copies its
first contents there and waits for that, while commands that were enqueued
before may still have to execute. Programming a device is not a single step:
`SaveBuffer`, `ProgramDevice` and `RestoreBuffer` go object by object, while
the host goes on using what it has mapped. A device that is programmed with its
memory preserved saves and restores nothing, and is not modelled.

A program does what OpenCL allows: it does not use what is mapped for writing,
does not write what is mapped, and does not write in a kernel whose arguments
overlap. What else a program does is its *habits* (`host_ptr`,
`enqueue_first`, `part`, `invalidate`, `read_mapped`, `release`, and `map` for
mapping at all), given by `Programs` together with its sub-buffers and devices.
A program without `enqueue_first` enqueues no read, write, copy or map of a
buffer made from a host pointer before a kernel that uses it has run.

`RefinesMemory` maps each cell to its value in the one copy that is live
(`Live`): what any command or mapping reads is what was last written, and
nothing but a write changes it. Memory that was never written, or was wiped,
holds `Undefined`.

## 3. Runs

### Passing

| Run | Checks | Shows |
|---|---|---|
| `condvar` | `WakeupsConserved`, `OneActiveWaiter`, `NoStrandedWaiter` | wake-ups posted and due are exactly the sleepers of each group; one active waiter; nobody asleep without one who will wake them, and no deadlock |
| `condvar_live` | `WaitersReturn` | an untimed waiter returns as long as signals keep coming |
| `devop` | `SlotsRecycled`, `GroupInSequence`, `ConflictFree`, `KernelRunsOnItsBinary`, `CompletedOnce`, `NothingLeftToStart`, `BuffersStay` | safety of the scheduler |
| `devop_live` | `CommittedCompletes` | a command in the queue completes, printf stalls and relaunches included |
| `cmdq` | `CountsItsCommands`, `CountsItsSubmissions`, `FreedIsForgotten`, `NothingLeftToDo`, `AssertionsHold`, `StartsInOrder`, `CommandsFinish` | order, counting, recycling, no lost work, completion |
| `kernelif` | `RefinesFifo`, `SlotFreeAtLaunch`, `OldestIsNext`, `RunsItsInvocation`, `StallIsSeen`, `LaunchedEnds` | a launching thread and an interrupt handler that share no lock make each ring a queue whose invocations end in the order of their launches; the entry of a launch is empty, an overtaken one's too if there are entries for all; a kernel runs with its own image and arguments; a stalled kernel is resumed, and a launched one ends |
| `hostpipe` | `AckedIsReleased`, `InOrder`, `AssertionsHold`, `RegionsUnmap` | the device gets, or gives, every byte once and in order, no sooner than the user gave it up |
| `events` | `CalledOnce`, `InOrder`, `QueueHoldsUnpopped`, `AssertionsHold`, `Reclaimed` | callbacks in the middle of updates leave queues and events consistent |
| `mem` | `BlocksDisjoint`, `PromiseKept`, `NoBlockLost`, `FirstFitFindsRoom` | blocks do not overlap or leak; the address in a kernel's image stays that of its buffer; first fit finds whatever room there is |
| `buffers` | `OneLiveCopy`, `RefinesMemory` | all the copies of a buffer and its sub-buffers behave like one memory |

Each of these properties has a mutant in `PROJECT.json`: the definition of the
code and the slip that, in its place, makes TLC find the property violated
under the configuration of the run.

### Violations: where the code departs from what it says

| Run | Property | What happens |
|---|---|---|
| `devop_moved` | `KernelFindsItsBuffers` | a buffer in place for a kernel that waits for its accelerator is not "in use" and is migrated to another device |
| `buffers_lost` | `RefinesMemory` | a buffer made with `CL_MEM_COPY_HOST_PTR` is written before a kernel uses it: the enqueue copies its first contents by an unmap that no map preceded, which takes `mapping_count` below zero, and the write is lost |

Section 5 lists the other cases that the passing runs leave out, each with the
constants under which TLC shows it.

### Bounds, and why they are enough

* `condvar`: three threads, up to two signals pending at once, timed and
  untimed waits. Two groups exist at most; three threads suffice for a group
  with an active and a passive waiter beside one thread in the other group, and
  two signals for a signal that overtakes a broadcast. `WakeupsConserved` and
  its companions are proved for any number. The liveness run allows one pending
  signal and no time-outs.
* `devop`: seven workloads of two to three commands over three devices (half
  duplex with ring depth 0, full duplex with depth 1, one that may fail to
  program), two binaries, two buffers, four slots. Each workload aims at one
  kind of contention: binaries, one accelerator, relaunch, transfers of both
  directions, a buffer shared by devices, failures, and operations that finish
  at once. A kernel with a reprogram and a migration takes three slots, so that
  four slots make commands back off. `Reused` commands are enqueued again when
  they have completed, so slots and operations are recycled in every order.
  `devop_live` has three slots; `devop_moved` six, since its scenario needs two
  kernels and a migration side by side. No counter is cut off.
* `cmdq`: six workloads of three commands over an in-order queue, an
  out-of-order queue and the user event queue, two accelerators and room for
  two operations (one fewer than commands, so that submission fails for lack of
  room). One accelerator holds two launches, so that a ring is full while one
  is behind another; the other holds one. `Kept` events are never released by
  the host; the others may be at any time. Each command is enqueued once: an
  event that is recycled would be a new one with the same name, and
  `FreedIsForgotten` is what makes that harmless.
* `kernelif`: five accelerators, one per kind: a ring of two entries through
  which four invocations go (so that it wraps and is full), one that takes a
  single kernel at a time and stalls, the oldest registers with a debug dump,
  streaming control with a ring of three, and one that stalls twice. They share
  the caches' code and the handler but no state, so a workload uses one. Two of
  the three invocations of `a4` may be overtaken, and its ring takes three
  (`OvertakenHaveRoom` of section 4); those of the others are launched in the
  order of the operation queue.
  `MaxStalls` bounds the stalls of an accelerator; `MaxOvertakes` how often the
  host resumes a kernel before the handler has cleared its stall bit; `Resets`
  says which may be reset by force, after the last launch (`LaunchAfterReset`
  is FALSE), and `Stray = {NoJob}` that the entry a reset reads past the end of
  a ring is empty.
* `hostpipe`: packets of one byte, a depth of four, seven bytes in all: the
  buffer wraps, and full, partly unmapped and empty queues occur on both sides
  of the binding. `MapSizes` are none given, one and two bytes.
* `events`: three hosts. One thread registers callbacks on all statuses of a
  marker and a transfer; two threads nest calls two deep with a callback on a
  command and one on a user event; two threads, one of which frees memory while
  the other updates. Where the runtime is called while a callback runs, each
  event has one callback at most: with two on one, `CalledOnce` fails
  (section 5).
* `mem`: two devices with four and three usable units, three buffers of which
  one is two units large, banks that make the search start in the middle; three
  workloads of three commands, on devices that have no room for all three
  buffers beside their reservations, so that enqueues are refused.
* `buffers`: two cells, two values, two devices. The programs: disjoint
  sub-buffers moved between the devices, overlapping sub-buffers used and
  mapped on one, one sub-buffer mapped and moved, and the buffer alone with a
  host pointer and mapped parts, or with invalidating maps and reads of what is
  mapped. Two cells tell a part from the whole; two values tell old contents
  from new, one of them being also what wiped memory holds; two devices make
  objects move. `SYMMETRY` exchanges the devices. `VIEW` leaves out `last`,
  which records the access a step made and which no action reads:
  `RefinesMemory` is still evaluated on every step.

`cmdq`, `kernelif` and `hostpipe` do not check deadlock: their hosts may have
nothing more to do. All the others do.

### Fairness

* `CondVar`: `FairSpec` is fair to every thread, nothing obliges the device to
  signal: `WaitersReturn` is conditional on signals coming again and again.
  Mutex and semaphores are those of the system; strong fairness of `Deliver`,
  `TakeWakeup`, `ReturnWoken` says a thread is not overtaken for ever at the
  mutex or the semaphore. The wait itself needs only weak fairness.
* `DeviceOpQueue`: weak fairness of `Scheduler` (a loop under the lock), strong
  fairness of `IdleUpdate` (a waiting thread calls it after each wake-up, in
  between other threads' calls), weak fairness of `TransferDone` (a transfer in
  flight ends) and strong fairness of `KernelDone` (a kernel ends after
  finitely many stalls). Nothing obliges a kernel to stall or the host to
  submit.
* `CommandQueues`: weak fairness of `Update` (a loop), strong fairness of
  `Wake` (a sleeping thread is woken by a signal though other threads may take
  the lock first) and of `Device`, weak fairness of `Interrupt`. The host need
  not do anything: `CommandsFinish` is conditional on its user events getting a
  status.
* `KernelIf`: weak fairness of `Host` (the scheduler of `DeviceOpQueue` goes on
  launching and picking up), of `Handler` (the interrupt is level-triggered),
  of `StoreSeen` (a store reaches memory) and of `Finish` (an accelerator that
  is not stalled ends its kernel). Nothing obliges an accelerator to stall.

## 4. Proofs

`CondVarProofs` (for every finite set of threads and every bound on pending
signals): `TypeCorrect`, `Conservation`, `SingleActiveWaiter`,
`NoWaiterStranded`, that is its type invariant and all properties of run
`condvar`. The inductive invariant is `TypeOK /\ GroupInv /\ WakeupsConserved`.
`GroupInv` ties the count `num_waiters` to the roles: only the current group
counts waiters, and it counts some exactly when it has an active waiter, of
which there is one. Without it, `WakeupsConserved` is not inductive: a second
active waiter would post the same wake-ups again. The lemmas count: how the set
of blocked threads changes when one joins or leaves.

`DeviceOpQueueProofs` (for every set of commands, devices, accelerators,
buffers, binaries and workloads and every number of slots): its type invariant
and all seven properties of run `devop`.

* `TypeCorrect`, `SlotsAreRecycled`, `GroupsRunInSequence`,
  `EventsCompleteOnce`, `UpdatesReachAFixpoint` and `KernelsRunOnTheirBinary`
  need no more than the assumptions of the module. These say what a submit
  function may propose: a kernel command is migrations of its buffers and then
  the launch, eager programming is one operation, nothing else launches or
  programs, and the type of an operation limits how it may conflict.
* `OnlyWhatMayRunTogether` (`ConflictFree`) assumes `BuffersApart`: commands
  that share a buffer are for the same device. Without it the property fails
  (`SharedWorkloads` of section 5): a no-op migration is started past the
  conflict matrix and moves `block_allocation`, and a migration of the same
  buffer, compared with the rest of the queue before, now reads from a device
  it was not compared on.
* `BuffersOfKernelsStay` (`BuffersStay`) assumes `ArgumentsAreLeft`: the
  program does not ask by `clEnqueueMigrateMemObjects` for a buffer that
  kernels of another device use. OpenCL leaves the order of such commands to
  the program; `l_is_mem_in_use` is asked only for the migrations of kernels.

The instance of `devop` satisfies neither of the two hypotheses, for its
buffers are shared by devices and `m3` migrates one of them: what TLC shows
there is not a special case of these two theorems.

The live list is spoken of by positions: `At(k)` is its `k`-th operation. The
inductive invariant `IInv` has eleven parts beside the types. `ListInv`: every
slot is in one of the two lists, once. `IdleInv`: a free slot is blank.
`OpInv`: what an operation is, and how the two status fields go together.
`GroupInv`: the operations of a command are next to one another, and only the
first of those that are left can have started; this is what the comparison with
the *last* pending group of the scan relies on. `EventInv`, `CompletedOnce` and
`FailInv`: what an event was told, and that an error is known to the first
operation left of its group and to no other. `CurrentInv` and `RingInv`: what
interrupts can reach. `PruneInv` and `QuietInv`: what a pass has left behind,
and that a round that changed nothing has nothing left to start; a slot whose
start *was* refused stays refused as long as nothing happens. `ReprogInv`: a
kernel that has started has no reprogram pending before it. Two more invariants
rest on it. `BinInv`: the kernel at position `k` will find the binary of the
last reprogram that waits before it, or else the one loaded, and the same of
`last_bin` for the position behind the list. `TogetherInv`: what uses a device
was compared with all that is unfinished before it (`OrderInv`), and what uses
a device is of a type for which the matrices are symmetric (`UseInv`), so one
comparison is enough. Each action is taken through each part; `Progress` is
what most steps have in common, and `PickedBy` carries positions through a
prune pass.

`CommandQueuesProofs` (for every finite set of commands, every workload, every
set of queues and accelerators, any number of slots and any user statuses):

* `TypeCorrect`: `Spec => []TypeOK`. It is not only about types: the lists are
  sequences of events of that queue, the arcs join events.
* `PoolForgotten`: `Spec => []FreedIsForgotten`, an event that went back to the
  pool is named by no list, arc, barrier or operation. The theorem holds for
  the workloads of section 5 too.
* `EndsAtHead`: kernels on the device are in the ring of their accelerator,
  once each, and one whose end was reported is at its head, so `End` takes its
  own launch off the ring, even if another is announced as running before it.
* `SubmissionsCounted`: `Spec => []CountsItsSubmissions` if `UserStatuses` has
  no -2 (`INVALID`), the status that the code takes for its own.
* `CommandsCounted`: `Spec /\ []TerminatesInOrder => []CountsItsCommands`.
* `AssertionsKept`:
  `Spec /\ []TransfersTerminated /\ []KernelsFindRoom => []AssertionsHold`,
  again without -2.
* `NothingForgotten`:
  `Spec /\ []TerminatesInOrder /\ []KernelsFindRoom => []NothingLeftToDo`,
  without -2.
* `CommandsStartInOrder`: `StartsInOrder` under the same hypotheses and
  `[]BarriersNamed`. The property is about execution: a kernel executes when
  the launches before it in its ring have ended, whatever was announced.

The hypotheses of the last four are what section 5 shows to be needed.
`TerminatesInOrder`: what a failed user event terminates is in an in-order
queue. `TransfersTerminated`: and it is no kernel. `KernelsFindRoom`: a kernel
that an in-order queue could submit finds room. `BarriersNamed`: what is
enqueued behind a barrier has a wait list. `KernelsFindRoom` holds whenever
there are as many slots as commands (the theorem `RoomForAll`); the others are
about the wait lists a host writes, and all four hold in the run `cmdq` (TLC
checked it).

The inductive invariant `IInv` has six parts. `ListsInv`: the lists of a queue
hold only its own enqueued events; those on `completed_commands` are done,
those on `new_commands` have no operation, those in `commands` are live and not
popped, and `last_barrier` is one of them. `ArcsInv`: dependencies join live
events. `OpInv`: an operation in use belongs to a command that is not done, and
what that command still depends on is a kernel, so no user event can terminate
it (this is why a released event has no operation). `LifeInv`: a freed event is
done, a new one untouched. `RingInv` as above. Each action is taken through
each part; the lemmas `NextCases`, `TypeStep` and `Persistence` (what is done
stays done, what was enqueued stays enqueued) carry the steps that leave a part
alone. TLC checked `IInv` on all workloads, the violating ones included, before
it was proved.

The counts need more. `SubmittedInv`: an event that was popped is done, and one
on the device operation queue that is not done has an operation.
`InFlightCounted` is the count over all commands of the queue, the form that is
inductive. `CountInv`: `num_commands` and the lists during an update, too;
`UserInv`: user events that were popped stay on `new_commands` only until the
same visit forgets them. The assertions need where the scan is: `FreeInv` (what
is done in an out-of-order queue waits for nothing; a kernel that is no longer
queued has an operation), `PassedInv` (what the scan of an in-order queue has
passed is not to be submitted any more) and `OrderInv` (nothing is submitted
behind a command that is still to be). So what is in flight is in front of the
kernel that looks for it, and `queue_idx - 1` is a place of the queue.

`NothingForgotten` is about what is still owed to a queue. `AtRest(q)` says
that a look at `q` would change nothing: no completed event is in it, each
command on `new_commands` depends on something or finds no room, and the first
command of an in-order queue that was not submitted is blocked. `VisitInv`: in
every state somebody has signalled, or there will be another round because this
one changed something, or (`Visited`) each queue is at rest or still to be
looked at in this round, `CurRest` saying the same of the scan of the queue at
hand. `ControlInv` ties `todo`, `cur` and `queue_idx` to where the update is;
`EndedInv` says that the end an interrupt reported is signalled until the
update has picked it up. A step that takes something from a queue at rest
either signals or sets `updates`; a step that does neither leaves every other
queue as it found it (`AtRestKept`), which needs that no room is made
(`NoMoreRoom`). `FollowsInv`: what a command must not overtake was enqueued
before it; so of a queue at rest only the first command can be the one the
property looks for.

`CommandsStartInOrder` rests on `HeldInv`: whatever a command must not overtake
and is not done holds it back, first by a dependency or by its place in the
in-order queue, then, once the command is submitted, on the device, where it
can only be a launch of the same kernel that is in front in the ring. The
dependency a fast
relaunch drops is therefore replaced by a place in the ring. `LineInv` says
what the look at `queue_idx - 1` alone is enough for: in front of a submitted
command of an in-order queue all that is not done are launches of the same
kernel that have reached the device. `StatusInv` relates status, operation and
ring of one command. TLC checked these invariants on the workloads of the run
before they were proved.

The assumptions are those in the modules: `Command` is well typed, a kernel
names an accelerator, user events are in the user event queue, `UserStatuses`
are final statuses, `Slots` is positive, `Commands` finite, and a user event
has no wait list (`clCreateUserEvent` takes none).

`KernelIfProofs` (for every set of accelerators and invocations, every size of
their rings, every workload, any stalls, dumps and resets):

* `TypeCorrect`, and `StartsItsInvocation` (`RunsItsInvocation`): a kernel is
  started with its own image and arguments although only registers that differ
  from a cached copy are written. Both hold without further assumptions.
* `LaunchFindsSlot` (`SlotFreeAtLaunch`) and `ImplementsFifo` (`RefinesFifo`):
  every step of the two threads maps to a step of `LaunchFifo` or to none.
  They assume `ResetsComeLast` (nothing is launched after a forced reset, and
  the entry a reset reads past the end of a ring is empty: otherwise section 5
  has a counterexample), `StreamingIsNewer` (no accelerator has both the
  oldest registers and streaming control, which came later) and
  `OvertakenHaveRoom`: an accelerator of which an invocation may be overtaken
  has entries for all it is given. The last is about the count that stops at
  the operation itself (`acl_device_op.cpp:976`): without it the launch of an
  invocation that was overtaken finds its entry occupied (section 5). Where
  none is overtaken the theorems hold for rings of any size.
* `LooksAtTheOldest` (`OldestIsNext`) assumes moreover `OldestMapTakesOne`: an
  accelerator with the oldest registers, which tell only that something ended,
  takes one invocation at a time.
* `StallsAreSeen` (`StallIsSeen`) assumes all of these and two things about the
  accelerators that may stall. `PrintfTakesOne`: they take one invocation at a
  time, as `acl_auto_configure.cpp:1031` sees to ("Disable fast relaunch when
  kernel has printf"). `StallsApart`: the debug dump leaves them alone, and the
  host does not overtake the handler on one that stalls again; otherwise a
  stall is lost, as section 5 shows. The run meets all of these hypotheses,
  with a kernel that is overtaken and one that stalls twice.

The inductive invariant follows one invocation through the ring. `OrderInv`
says that of the invocations of an accelerator those that were launched are in
front of those still to be launched, save any that were overtaken; so where
none can be, counting what is in front counts all that is in flight. `RingUp`
and `RingDown` say which entries are occupied between `back` and `front`, with
the launch and the completion that are under way taken into account; `QueueInv`
ties them to the order in which the accelerator will finish; `TodoInv` says
where the host's and the handler's local variables come from; `CacheInv` that
the copies equal the registers; `CountUp` relates the finish counter to what
the handler has yet to retire. `StallInv` says where the news of a stall is: in
the register (`Raised`), with the handler or the host (`Reported`), or nowhere
because nothing is stalled (`Calm`), or because the kernel was resumed while
the handler was about to clear its bit (`Spent`). That the kernel that runs is
the one in the ring's only entry (`RunsAlone`, by `CountUp`) makes the pickup
resume the right one. The modular arithmetic of the indices is in a
few lemmas about the distance between two of them.

`HostPipeProofs` (for every packet size and depth, any requests and any number
of bytes), of a program that holds no mapped region while its pipe is bound and
makes no call on it at that time (`HeldAcrossBinding` and `Overlapping` are
FALSE, as in the run; section 5 shows what happens otherwise):

* `TypeCorrect`, `AcksWhatIsReleased` (`AckedIsReleased`), `BytesInOrder`
  (`InOrder`) and `RegionsCanBeUnmapped` (`RegionsUnmap`).
* `PlaceAssertions`: of `AssertionsHold` all that is about space and places.
  The rest, the bound `safe_memcpy` is given, holds for packets of one byte
  (`Assertions`) and not for longer ones (section 5): a packet is queued only
  behind a region of which *one* byte at least is to be acknowledged.

The inductive invariant numbers the bytes of the stream. `ChainInv`: the queued
operations follow each other without a gap from the channel's pointer to the
last byte reserved, and at rest the first of them is a region of which the user
still holds some. `OpInv`: an operation that has a place in the channel has the
one its bytes' numbers say; before the binding it has none. `RegionInv` and
`ReleasedInv` read what the user holds, and what it has given up, off the
queue; `BufferInv` says which places of the buffer already have their byte,
`SpaceInv` that nothing wraps onto bytes not taken yet. That the sizes of the
operations before one add up to its number (`PlaceOf`) makes the move at the
binding keep all that. `AppendStep`, `DropStep`, `AdvanceStep` and `SettleStep`
are the four ways the queue changes; every action is one or two of them.

`MemBlocksProofs` (for every set of buffers, devices and commands, any sizes,
banks and shapes of the memories):

* `TypeCorrect`: `Spec => []TypeOK`.
* `DisjointBlocks`: `Spec => []BlocksDisjoint`, whatever is reserved, refused,
  moved, given back and released; `NoRoomWorkloads` of section 5 included.
* `FindsTheLowestRoom`: `Spec => []FirstFitFindsRoom`.
* `AddressesStayGood`: `Spec /\ []NoneUndone => []PromiseKept`.
* `BlocksAreNotLost`: `Spec /\ []NoneUndone => []NoBlockLost`.
* `AssertionsAreMet`: `Spec /\ []NoneUndone => []AssertionsHold`.
* `KernelsKeepTheirBlocks`: with kernels only,
  `Spec => [](PromiseKept /\ NoBlockLost)`.

The inductive invariant for the first three is `TypeOK /\ ArgInv /\
BlocksDisjoint`; `ArgInv` says that the buffer a command is at is one of its
buffers. `BlocksDisjoint` is about pairs of blocks at any distance in the list,
the search compares neighbours only: `Sound` lists, and the lemmas
`InsertSound` and `RemoveSound`, carry the order from neighbours to all pairs.
`TryFacts` and `GapFacts` say what a search that succeeds has found: a place in
the list and an address between the end of the block before and the beginning
of the one behind. `LinkSound` and `UnlinkSound` are the two ways the list
changes, and `RegionStep`, `TypeStep` and `ArgStep` take every action through
them. That the search finds the lowest room rests on the order of the list:
behind the last block that ends before a free address there is a gap no higher
(`FreeHasGap`), and later gaps have higher addresses (`GapsInOrder`).

The other three need to know what `reserved_allocations_count` counts. The
code keeps the number only; the proof keeps the set (`Promises(m, d)`: the
commands that were promised a block for buffer `m` on device `d`, and for which
of their buffers). `CountInv` says that the count is the size of that set, or
more if the buffer is one of a command that was refused or terminated; then
the test `count <= 0` of `acl_mem_migrate_buffer` is never true while a promise
is open (no address goes bad), and for the other buffers it is true as soon as
none is (no block is lost). `PlaceInv` says that a reservation is a block of
that buffer on that device, so that the block a buffer leaves is never the one
it goes to; `LiveInv` and `ImageInv` that unfinished commands use existing
buffers and have an address for each. `PromiseStep`, `BroughtStep` and
`DropStep` are the three ways a promise begins and ends.

`NoneUndone` says that no migration command ever finds its device without room
for one of its buffers. It is needed: such a command takes a count off the
buffers it had not reached (`GiveBack`), after which the count of a buffer can
be lower than the number of commands that rely on it, and negative
(`NoRoomWorkloads` of section 5). Refused kernels and terminated commands need
no such hypothesis. Without migration commands it always holds, as
`KernelsKeepTheirBlocks` shows.

`BufferCopiesProofs` (for every buffer and its sub-buffers, read-only or not,
whatever cells they cover, every set of devices, values and kernels):

* `TypeCorrect`: `Spec => []TypeOK`.
* `NeverTwoLiveCopies` (`OneLiveCopy`) assumes that programs are `Undivided`: a
  buffer with sub-buffers has no host pointer, is not read where it is mapped,
  and is mapped as a whole. Without any one of the three TLC finds two live
  copies (`HostPtrSubs`, `SharedReads`, `MappedParts` of section 5).
* `CopiesAreOneMemory` (`RefinesMemory`): every step of a program that is
  `Orderly` is an access to one memory, or none. `Orderly` programs are
  `Undivided` and leave out the other cases of section 5 as well; each part of
  the definition is needed for one of them, but for the detail that it excludes
  a habit also where the program never maps. All programs of the run `buffers`
  are orderly.

Where a mapping leaves the bit `onHost` depends on `count`, and the next
synchronisation of sub-buffers on the bit and on `auto`; so the inductive
invariant of `NeverTwoLiveCopies`, `Structure`, is about all three. `Counted`:
the count is the number of mappings. `WhyOnHost`: an object is on the host only
because the user mapped it, the runtime brought it there or its first contents
are still to be copied. `OneAway`: of two objects that overlap one is on the
host, and both are if the user mapped one that the runtime did not bring; the
unmap of that one does not look at the other. `Coherent` adds what the copies
hold: `Agree` says that a function `f` of the cells is in each block whose
object is away from the host, save those wiped and not yet restored, on the
host where no such block covers a cell, and in whatever is mapped; `Saved`,
what the host copy has while a device is programmed; `MapsAlone`, that what
overlaps a mapped object is on the host. The
helpers of the model (`Synced`, `Unmapped`, `AsSource`, `Bound`, `Migrated`
and so on) each have a lemma that says what they do to the fields, one that
they keep the places sound, and one, `...Good`, that they keep the agreement
with the same `f`; a command is a chain of them and changes `f` where it
writes. `ContentsFrom` says that `f` can only be `Live`, the refinement
mapping, which is why the choice of a block in `Live` does not matter. TLC
checked `Structure` and `Coherent` on the instance of `buffers`.

`SequenceLemmas` states what `InsertAt` and `RemoveAt` do to the elements of a
sequence and to the set of them, and how lists without repetitions are
reversed, joined and split. The induction theorems of the library take an
operator as a parameter and cannot be used. Where a proof needs induction
(`Within` is defined by a walk over a list, `SizeBefore` by a sum), it looks at
the least number for which the claim fails: `LeastNatural`, and
`RecursionExists` for functions that are defined step by step.

Only model-checked:

* all liveness (`WaitersReturn`, `CommittedCompletes`, `CommandsFinish`,
  `LaunchedEnds`): out of the prover's reach, as is `ENABLED`;
* everything about `EventCallbacks`.

No module declares a `RECURSIVE` operator.

The type invariants of `CondVar`, `DeviceOpQueue`, `CommandQueues`, `KernelIf`,
`HostPipe`, `MemBlocks` and `BufferCopies` are proved and need no run. That of
`EventCallbacks` holds on the instance above.

## 5. Not modelled, and known limits

### Left out

* `DeviceOpQueue`: the link fields of the lists, the re-entrant update of a
  blocking host pipe transfer, and profiling time stamps. Two steps are
  modelled but no run looks at them closely: a migration is a no-op as soon as
  `block_allocation` says so, although the copy may not have ended
  (`acl_mem.cpp:5957`), and picking up printf data beside memory operations.
* `CommandQueues`: user callbacks and the deferred removal of
  `clMemBlockingFreeINTEL` (they are in `EventCallbacks`), deletion of queues,
  and the count of submissions of out-of-order queues, which nothing reads.
  `last_device_op` is taken to be the operation of the event as long as it is
  in use; in the code the slot may be reused by another command after the
  operation is pruned.
* `KernelIf`: the profiling of autorun kernels, register maps between 18.1 and
  2023.1, bringing the interface up.
* `HostPipe`: sideband signals, program-scoped pipes, destruction, and what
  happens to a bound pipe when its device is programmed with another binary.
* `EventCallbacks`: `completion_callback`, failures of a submission, negative
  statuses of user events, events taken from the pool a second time and the
  bound on rounds of an update.
* `MemBlocks`, `BufferCopies`: images, host-backed, user-provided and SVM
  memory; rectangular transfers and fills (the same transfers with other
  addresses); sub-buffers in `MemBlocks`.
* The device queries, the parser of the auto-configuration string, the PLL
  tables, the profiler, samplers, the offline HAL and the utilities keep no
  state that the order of events could spoil; a unit test reaches what they
  compute.
* Hazards without a property have a note in `PROJECT.json`. Beside them nothing
  here is about `timedout[]` (`acl_threadsupport.c:419`: written after the
  passive waiters were posted), or the waiting of a command that needs many
  slots while smaller ones keep taking them (`acl_kernel.cpp:3130`).

### Cases the passing runs leave out

The passing runs use programs in which the following does not come up. For
each, the constants below in the configuration of the run, with that property
alone, make TLC show it.

| Run | Constants | Property | What the code does |
|---|---|---|---|
| `condvar_live` | as they are, `Spec` | `WakeupReachesItsGroup` | a waiter of a later group that reuses queue index 0 takes the wake-up posted for a slow waiter of an earlier one; the header promises every waiter of the group is woken. The slow waiter needs a further signal |
| `devop` | `Workloads <- RingWorkloads` | `RingWithinDepth` | a kernel whose buffers are being moved is overtaken by later ones of its accelerator; the count of kernels on it stops at the operation itself (`acl_device_op.cpp:976`) and does not see them, so the accelerator gets one invocation too many |
| `devop` | `Workloads <- BadBinaryWorkloads` | `KernelAlwaysOnItsBinary` | `last_bin` is not taken back when a reprogram fails; the next kernel of that binary is launched on whatever is loaded |
| `devop` | `Workloads <- SharedWorkloads`, `MaxOps = 7`, deadlock unchecked | `ConflictFree` | a migration that has become a no-op is started past the conflict matrix (`acl_device_op.cpp:954`) and moves `block_allocation` to a device where a transfer is under way; a migration that was queued before it reads from there, beside that transfer |
| `cmdq` | `Workloads <- BarrierWorkloads` | `StartsInOrder` | a command without a wait list ignores the barrier of an out-of-order queue |
| `cmdq` | `Workloads <- TerminatedWorkloads` | `AssertionsHold` | a dependent of a failed user event in an out-of-order queue is popped while it is still on `new_commands` |
| `cmdq` | `Workloads <- InOrderWorkloads`, `UserStatuses <- NotAvailable` | `CountsItsSubmissions` | status -2 of a user event is taken for an internal code and makes `num_commands_submitted` of an in-order queue negative |
| `cmdq` | `Workloads <- FullWorkloads` | `StartsInOrder`, `AssertionsHold`, `NothingLeftToDo` | the update of an in-order queue goes on behind a kernel that found no room (`acl_command_queue.cpp:898`); room that is made meanwhile is taken by a kernel behind it, which starts first, the next look at `queue_idx - 1` (line 910) is in front of the queue, and the kernel that was passed over waits for the other one although there is room again |
| `kernelif` | `Overtaken = {i1}`, `Workloads <- FourOfTwo` | `SlotFreeAtLaunch` | an invocation that was overtaken by as many as its accelerator takes is launched all the same (`acl_device_op.cpp:976`) and finds its entry occupied, which ends in `assert(0)` (`acl_kernel_if.cpp:1123`) |
| `kernelif` | `Workloads <- FourOfTwo` | `OneRunning` | a launch that fills the ring between the report of a completion and the move of `back` finds `front` equal to `back` (`acl_kernel_if.cpp:1274`) and is announced as running beside the invocation that runs |
| `kernelif` | `Resets = {{a1}}`, `LaunchAfterReset = TRUE`, `Workloads <- QueuedTwice` | `OldestIsNext` | a forced reset empties a ring but leaves front and back; the next invocation is looked for at the wrong entry |
| `kernelif` | `MaxOvertakes` of `a5` 1, or `Dumps = {a2}` | `StallIsSeen` | the handler clears the stall bit with a value it read before the kernel was resumed and stalled again, or a debug dump is picked up in the place of a stall: the kernel stays stopped |
| `hostpipe` | `HeldAcrossBinding = TRUE` | `RegionsUnmap` | a region mapped before the binding is freed by it; its unmap is refused |
| `hostpipe` | `PacketSize = 2`, `MapSizes = {0, 1}` | `AssertionsHold` | a packet queued behind a mapped region that is smaller: the bound given to `safe_memcpy` (`acl_hostch.cpp:537`) is what is buffered already, not what is free |
| `hostpipe` | `Overlapping = TRUE` | `AssertionsHold`, `InOrder` | a call that read `binded` before the binding puts its packet behind a queue that was already emptied |
| `events` | `Program <- MarkerBetween`, `Hosts <- FlushesInside` | `InOrder` | after an update inside of a callback, the outer one passes over the next command (`acl_command_queue.cpp:840`) |
| `events` | `Hosts <- TwoOnOne` | `CalledOnce` | two callbacks on one event, an update inside of the first: the second is called by the update and again by the walk it interrupted, which stands on the freed node |
| `events` | `Hosts <- FreesSecond`, `UsesMemory = {y}` | `QueueHoldsUnpopped` | a command before the one whose memory is freed stays in the queue for ever |
| `mem` | `Workloads <- NoRoomWorkloads` | `AssertionsHold` | a migration command gives back a reservation it did not get: the count is -1 and the assertion of `acl_mem.cpp:4759` fails |
| `buffers` | `Programs <- HostPtrSubs` | `RefinesMemory` | sub-buffers of a buffer made with `CL_MEM_COPY_HOST_PTR` |
| `buffers` | `Programs <- ReadOnlySubs` | `RefinesMemory` | overlapping objects do not look at a sub-buffer with `CL_MEM_READ_ONLY`, whose stale block is used again |
| `buffers` | `Programs <- InvalidatedPart` or `InvalidatedParent` | `RefinesMemory` | an invalidating map of a part, or of a buffer with sub-buffers: the whole object is copied back at the unmap |
| `buffers` | `Programs <- ReleasedSubs` | `RefinesMemory` | what a released sub-buffer held on the device is lost |
| `buffers` | `Programs <- SharedReads` | `OneLiveCopy` | reading a buffer while a sub-buffer is mapped for reading makes two live copies |
| `buffers` | `Programs <- MappedParts` | `RefinesMemory` | parts of sub-buffers mapped at once |
| `buffers` | `Programs <- ReadMappedParts` | `RefinesMemory` | one part of a buffer is mapped for writing and another for reading; when the first is unmapped the buffer stays on the host for the second (`acl_mem.cpp:6559`), a write goes to the host copy, and a kernel that reads the buffer finds the block as it was |

Others belong to the same causes: an in-order queue with two launches of one
kernel and a command between them that a user event terminates makes
`acl_command_queue.cpp:913` follow the null `last_device_op` of that command
(an out-of-reach index in the model); two threads that both complete one user
event, and callbacks registered on an event that completes meanwhile and is
released inside of them, break `AssertionsHold` and `Reclaimed` of
`EventCallbacks`; a refused kernel and a terminated command keep their
reservations, which `NoBlockLost` excepts by `leaky`.

## 6. Plan

1. *Done:* `CondVar`, `DeviceOpQueue`, `CommandQueues`; proofs about the first
   and the last.
2. *Done:* `KernelIf`, shown to implement `LaunchFifo`; `HostPipe`;
   `EventCallbacks`; `MemBlocks`; `BufferCopies`, shown to implement
   `BufferMemory`.
3. Proofs. *Done:* the safety properties of `CondVar`, `DeviceOpQueue`,
   `CommandQueues`, `MemBlocks` and `HostPipe`; those of `KernelIf` and
   `BufferCopies`, refinements included. *Open:* the properties of
   `EventCallbacks`.
4. `GlobalLock`: recursion count, suspend and resume of `acl_thread.cpp`, over
   the condition variable; device exceptions beside it.
5. `DeviceOpLists`: the link fields implement the sequences of `DeviceOpQueue`.
