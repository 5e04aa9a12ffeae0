------------------------------- MODULE KernelIf -------------------------------
(* The kernel interface (acl_kernel_if.cpp): the ring of invocations of each *)
(* accelerator, the cached invocation image and arguments, and the two       *)
(* threads that share them.  The host thread launches, unstalls, dumps and    *)
(* resets under the global lock; the kernel interrupt handler of the MMD runs *)
(* on a thread of its own and takes no lock.  The accelerators themselves are *)
(* modelled from how this code drives their registers.                        *)
EXTENDS Integers, Sequences, FiniteSets, SequencesExt

CONSTANTS
    Accels, Jobs, NoJob, Unset,
    Job,         \* accelerator, image and arguments of an invocation
    Size,        \* accel_invoc_queue_depth: fast relaunch depth plus one
    InFront,     \* what is before an invocation in the device operation queue
    Overtaken,   \* invocations whose buffers are still to be moved when a later
                 \* one of the same accelerator is launched
    Printing,    \* accelerators that have printf calls
    Streaming,   \* accelerators controlled by streaming interfaces
    Csr181,      \* accelerators of the oldest register map
    DefaultImage,\* image of a default-constructed invocation
    MaxStalls,   \* bound: how often an accelerator may stall
    Dumps,       \* accelerators whose printf buffer the debug dump may flush
    Resets,      \* accelerators of each device that may be reset by force
    MaxOvertakes,\* bound: how often the host may resume a kernel before the
                 \* handler that reported its stall has cleared the stall bit
    LaunchAfterReset, \* whether kernels are launched after a forced reset
    Stray,       \* what the entry past the end of a ring may hold
    Workloads    \* sets of invocations, one of which a behaviour launches

ASSUME SizeAssumption == Size \in [Accels -> Nat \ {0}] /\ Accels # {}
ASSUME JobAssumption ==
    /\ IsFiniteSet(Jobs) /\ NoJob \notin Jobs
    /\ \A j \in Jobs :
        /\ Job[j].accel \in Accels
        /\ Job[j].args = [w \in DOMAIN Job[j].args |-> Job[j].args[w]]
ASSUME QueueAssumption ==
    /\ Overtaken \subseteq Jobs
    /\ \A j, k \in Jobs : j # k => (j \in InFront[k] <=> k \notin InFront[j])
ASSUME WorkloadsAssumption == Workloads \subseteq SUBSET Jobs
ASSUME ResetsAssumption == Resets \subseteq SUBSET Accels
ASSUME BoundsAssumption ==
    MaxStalls \in [Accels -> Nat] /\ MaxOvertakes \in [Accels -> Nat]

QUEUED == 3
SUBMITTED == 2
RUNNING == 1
COMPLETE == 0
FAILED == -1

VARIABLES
    todo,       \* invocations of this behaviour not yet launched
    exec,       \* execution_status of the operation of an invocation
    pending,    \* its num_printf_bytes_pending is not zero
    debug,      \* its debug_dump_printf
    job_ids,    \* accel_job_ids
    front, back,\* accel_queue_front, accel_queue_back
    unseen,     \* a store to job_ids the other thread does not see yet
    image_cache, arg_cache, \* static_img_cache, accel_arg_cache
    cra,        \* image and argument registers of an accelerator
    hw,         \* started invocations of an accelerator, the running one first
    done,       \* its finish counter
    stalled, stall_bit, \* it waits for its printf buffer; KERNEL_CSR_STALLED
    stalls,     \* how often it has stalled
    overtakes,  \* how often the host has overtaken the handler there
    host,       \* the host thread: step, job, ring index, register value read
    irq         \* the handler: step, accelerator, ring index, finishes, job

ringVars == <<job_ids, front, back, unseen>>
cacheVars == <<image_cache, arg_cache, cra>>
hwVars == <<hw, done, stalled, stall_bit, stalls, overtakes>>
opVars == <<exec, pending, debug>>
vars == <<todo, opVars, ringVars, cacheVars, hwVars, host, irq>>

HostIdle == [pc |-> "idle", job |-> NoJob, next |-> 0, csr |-> FALSE]
IrqIdle(a) == [pc |-> "idle", accel |-> a, next |-> 0, finishes |-> 0, job |-> NoJob]

NextIndex(a, i) == IF i = Size[a] - 1 THEN 0 ELSE i + 1
NewestEntry(a) == IF front[a] = -1 THEN 0 ELSE front[a]  \* a slip
NextEntry(a) == NextIndex(a, back[a])
AccelOf == [j \in Jobs |-> Job[j].accel]
InFlight(a) ==
    {j \in Jobs : AccelOf[j] = a /\ exec[j] \in {RUNNING, SUBMITTED}}

\* num_on_device: the count stops at the operation that is to be launched.
OnDevice(j) == {k \in InFlight(AccelOf[j]) : k \in InFront[j]}

Init ==
    /\ todo \in Workloads
    /\ exec = [j \in Jobs |-> QUEUED]
    /\ pending = [j \in Jobs |-> FALSE]
    /\ debug = [j \in Jobs |-> FALSE]
    /\ job_ids = [a \in Accels |-> [i \in 0 .. Size[a] - 1 |-> NoJob]]
    /\ front = [a \in Accels |-> -1]
    /\ back = [a \in Accels |-> -1]
    /\ unseen = NoJob
    /\ image_cache = [a \in Accels |-> DefaultImage]
    /\ arg_cache = [a \in Accels |-> Unset]
    /\ cra = [a \in Accels |-> [image |-> DefaultImage, args |-> Unset]]
    /\ hw = [a \in Accels |-> <<>>]
    /\ done = [a \in Accels |-> 0]
    /\ stalled = [a \in Accels |-> FALSE]
    /\ stall_bit = [a \in Accels |-> FALSE]
    /\ stalls = [a \in Accels |-> 0]
    /\ overtakes = [a \in Accels |-> 0]
    /\ host = HostIdle
    /\ irq = IrqIdle(CHOOSE a \in Accels : TRUE)

-----------------------------------------------------------------------------
\* acl_receive_kernel_update, called by both threads.  It only lowers a status.
Lowered(status, j, to) ==
    IF j # NoJob /\ status[j] > to THEN [status EXCEPT ![j] = to] ELSE status

\* The host thread.  A launch is only requested while the operation queue
\* counts, in front of it, no more kernels on the accelerator than the fast
\* relaunch depth; one that waits there for no more than its turn is not
\* overtaken, as what it waits for keeps this one waiting too.
Launch(j) ==
    LET a == AccelOf[j] IN
    /\ host.pc = "idle"
    /\ j \in todo
    /\ \A k \in todo \ Overtaken : AccelOf[k] = a => k \notin InFront[j]
    /\ Cardinality(OnDevice(j)) < Size[a]
    /\ todo' = todo \ {j}
    /\ exec' = [exec EXCEPT ![j] = SUBMITTED]
    /\ host' = [HostIdle EXCEPT !.pc = "image", !.job = j,
                                !.next = NextIndex(a, front[a])]
    /\ UNCHANGED <<pending, debug, ringVars, cacheVars, hwVars, irq>>

\* Registers are written only where the cached copy differs.
ChangedArgs(registers, cached, args) ==
    IF cached = Unset
    THEN args
    ELSE [w \in DOMAIN args |->
            IF cached[w] # args[w] THEN args[w] ELSE registers[w]]

StaleCopy(a) == image_cache[a]                 \* a slip
CachedImage(a) == IF a \in Streaming \cup Csr181 THEN image_cache[a] ELSE Job[host.job].image

WriteImage ==
    LET j == host.job
        a == AccelOf[j]
        image == IF a \in Streaming \/ (a \notin Csr181 /\ image_cache[a] = Job[j].image)
                 THEN cra[a].image ELSE Job[j].image
        args == IF a \in Csr181 THEN Job[j].args
                ELSE ChangedArgs(cra[a].args, arg_cache[a], Job[j].args) IN
    /\ host.pc = "image"
    /\ cra' = [cra EXCEPT ![a] = [image |-> image, args |-> args]]
    /\ image_cache' = [image_cache EXCEPT ![a] = CachedImage(a)]
    /\ arg_cache' = IF a \in Csr181 THEN arg_cache
                    ELSE [arg_cache EXCEPT ![a] = Job[j].args]
    /\ host' = [host EXCEPT !.pc = "enter"]
    /\ UNCHANGED <<todo, opVars, ringVars, hwVars, irq>>

EnterRing ==
    /\ host.pc = "enter"
    /\ unseen' = host.job
    /\ host' = [host EXCEPT !.pc = "announce"]
    /\ UNCHANGED <<todo, opVars, job_ids, front, back, cacheVars, hwVars, irq>>

\* The store reaches the memory the handler reads, at any time up to the
\* write of the start register, which is ordered after it.
StoreSeen ==
    /\ unseen # NoJob
    /\ job_ids' = [job_ids EXCEPT ![AccelOf[unseen]][host.next] = unseen]
    /\ unseen' = NoJob
    /\ UNCHANGED <<todo, opVars, front, back, cacheVars, hwVars, host, irq>>

Announce ==
    LET a == AccelOf[host.job] IN
    /\ host.pc = "announce"
    /\ exec' = IF front[a] = back[a] THEN Lowered(exec, host.job, RUNNING) ELSE exec
    /\ front' = [front EXCEPT ![a] = host.next]
    /\ host' = [host EXCEPT !.pc = "start"]
    /\ UNCHANGED <<todo, pending, debug, job_ids, back, unseen, cacheVars, hwVars, irq>>

\* The accelerator latches its registers with the start.
WriteStart ==
    LET a == AccelOf[host.job] IN
    /\ host.pc = "start" /\ unseen = NoJob
    /\ hw' = [hw EXCEPT ![a] = Append(@, [job |-> host.job, regs |-> cra[a]])]
    /\ host' = HostIdle
    /\ UNCHANGED <<todo, opVars, ringVars, cacheVars, done, stalled, stall_bit, stalls, overtakes, irq>>

-----------------------------------------------------------------------------
\* acl_process_printf_buffer for an operation with printf bytes pending.
PickUp(j) ==
    /\ host.pc = "idle" /\ pending[j]
    /\ host' = [HostIdle EXCEPT !.pc = "dumped", !.job = j]
    /\ UNCHANGED <<todo, opVars, ringVars, cacheVars, hwVars, irq>>

ClearPending ==
    /\ host.pc = "dumped"
    /\ pending' = [pending EXCEPT ![host.job] = FALSE]
    /\ host' = [host EXCEPT !.pc = "resume"]
    /\ UNCHANGED <<todo, exec, debug, ringVars, cacheVars, hwVars, irq>>

ResumesDumped(j) == debug[j]                   \* a slip
Resumes(j) == ~debug[j] /\ j \in Range(job_ids[AccelOf[j]])

\* acl_kernel_if_unstall_kernel reads the register of the accelerator whose
\* ring holds the operation, sets the unstall bit and writes it back.
Resume ==
    LET a == AccelOf[host.job]
        overtaking == irq.pc \in {"pend", "flag", "clear"} /\ irq.accel = a IN
    /\ host.pc = "resume"
    /\ IF ~Resumes(host.job)
       THEN host' = HostIdle /\ UNCHANGED overtakes
       ELSE /\ overtaking => overtakes[a] < MaxOvertakes[a]
            /\ overtakes' = IF overtaking THEN [overtakes EXCEPT ![a] = @ + 1] ELSE overtakes
            /\ host' = [host EXCEPT !.pc = "unstall", !.csr = stall_bit[a]]
    /\ UNCHANGED <<todo, opVars, ringVars, cacheVars, hw, done, stalled, stall_bit, stalls, irq>>

Unstall ==
    LET a == AccelOf[host.job] IN
    /\ host.pc = "unstall"
    /\ stalled' = [stalled EXCEPT ![a] = FALSE]
    /\ stall_bit' = [stall_bit EXCEPT ![a] = host.csr]
    /\ host' = HostIdle
    /\ UNCHANGED <<todo, opVars, ringVars, cacheVars, hw, done, stalls, overtakes, irq>>

\* acl_kernel_if_debug_dump_printf, from the ten second hang check.
DebugDump(a) ==
    LET j == job_ids[a][NextEntry(a)] IN
    /\ host.pc = "idle"
    /\ a \in Dumps /\ j # NoJob
    /\ pending' = [pending EXCEPT ![j] = TRUE]
    /\ debug' = [debug EXCEPT ![j] = TRUE]
    /\ UNCHANGED <<todo, exec, ringVars, cacheVars, hwVars, host, irq>>

\* acl_hal_mmd_reset_kernels: the kernels of a device are stopped and every
\* invocation in its rings is reported as failed.  Its loop also reads the
\* entry past the end of each ring.
Reset(device, past) ==
    LET ended == {past} \cup UNION {Range(job_ids[a]) : a \in device} IN
    /\ host.pc = "idle"
    /\ LaunchAfterReset \/ todo = {}
    /\ exec' = [j \in Jobs |-> IF j \in ended THEN Lowered(exec, j, FAILED)[j] ELSE exec[j]]
    /\ job_ids' = [a \in Accels |-> IF a \in device
                     THEN [i \in DOMAIN job_ids[a] |-> NoJob] ELSE job_ids[a]]
    /\ hw' = [a \in Accels |-> IF a \in device THEN <<>> ELSE hw[a]]
    /\ done' = [a \in Accels |-> IF a \in device THEN 0 ELSE done[a]]
    /\ stalled' = [a \in Accels |-> a \notin device /\ stalled[a]]
    /\ stall_bit' = [a \in Accels |-> a \notin device /\ stall_bit[a]]
    /\ UNCHANGED <<todo, pending, debug, front, back, unseen, cacheVars, stalls, overtakes, host, irq>>

Host ==
    \/ \E j \in Jobs : Launch(j) \/ PickUp(j)
    \/ WriteImage \/ EnterRing \/ Announce \/ WriteStart
    \/ ClearPending \/ Resume \/ Unstall

-----------------------------------------------------------------------------
\* The handler visits every accelerator; it skips one whose next ring entry
\* is empty.  A stall is served first and alone.
Query(a) ==
    LET next == NextEntry(a)
        entered == [IrqIdle(a) EXCEPT !.next = next, !.job = job_ids[a][next]] IN
    /\ irq.pc = "idle"
    /\ job_ids[a][next] # NoJob
    /\ \/ /\ a \in Printing /\ stall_bit[a]
          /\ irq' = [entered EXCEPT !.pc = "pend"]
          /\ UNCHANGED done
       \/ /\ ~(a \in Printing /\ stall_bit[a])
          /\ done[a] > 0
          /\ irq' = [entered EXCEPT !.pc = "retire",
                                    !.finishes = IF a \in Csr181 THEN 1 ELSE done[a]]
          /\ done' = IF a \in Csr181 THEN done ELSE [done EXCEPT ![a] = 0]
    /\ UNCHANGED <<todo, opVars, ringVars, cacheVars, hw, stalled, stall_bit, stalls, overtakes, host>>

\* acl_schedule_printf_buffer_pickup stores the size, then the flag.
PendStall ==
    /\ irq.pc = "pend"
    /\ pending' = [pending EXCEPT ![irq.job] = TRUE]
    /\ irq' = [irq EXCEPT !.pc = "flag"]
    /\ UNCHANGED <<todo, exec, debug, ringVars, cacheVars, hwVars, host>>

FlagStall ==
    /\ irq.pc = "flag"
    /\ debug' = [debug EXCEPT ![irq.job] = FALSE]
    /\ irq' = [irq EXCEPT !.pc = "clear"]
    /\ UNCHANGED <<todo, exec, pending, ringVars, cacheVars, hwVars, host>>

ClearStallBit ==
    /\ irq.pc = "clear"
    /\ stall_bit' = [stall_bit EXCEPT ![irq.accel] = FALSE]
    /\ irq' = IrqIdle(irq.accel)
    /\ UNCHANGED <<todo, opVars, ringVars, cacheVars, hw, done, stalled, stalls, overtakes, host>>

\* One round of the loop over the finished invocations, in four steps.
KeepsEntry(a) == job_ids                       \* a slip
EmptiedEntry(a) == [job_ids EXCEPT ![a][irq.next] = NoJob]

Retire ==
    LET a == irq.accel IN
    /\ irq.pc = "retire"
    /\ irq' = [irq EXCEPT !.pc = "complete", !.job = job_ids[a][irq.next]]
    /\ job_ids' = EmptiedEntry(a)
    /\ UNCHANGED <<todo, opVars, front, back, unseen, cacheVars, hwVars, host>>

Complete ==
    LET a == irq.accel IN
    /\ irq.pc = "complete"
    /\ exec' = Lowered(exec, irq.job, COMPLETE)
    /\ done' = IF a \in Csr181 \ Streaming THEN [done EXCEPT ![a] = 0] ELSE done
    /\ IF a \in Printing \ Streaming /\ irq.job # NoJob
       THEN \E left \in BOOLEAN :
              /\ pending' = [pending EXCEPT ![irq.job] = left]
              /\ debug' = [debug EXCEPT ![irq.job] = FALSE]
       ELSE UNCHANGED <<pending, debug>>
    /\ irq' = [irq EXCEPT !.pc = "advance"]
    /\ UNCHANGED <<todo, ringVars, cacheVars, hw, stalled, stall_bit, stalls, overtakes, host>>

StaysBehind(a) == back[a]                      \* a slip
NewBack(a) == irq.next

Advance ==
    LET a == irq.accel IN
    /\ irq.pc = "advance"
    /\ back' = [back EXCEPT ![a] = NewBack(a)]
    /\ irq' = [irq EXCEPT !.pc = "next", !.next = NextIndex(a, irq.next)]
    /\ UNCHANGED <<todo, opVars, job_ids, front, unseen, cacheVars, hwVars, host>>

OneAtATime == FALSE                            \* a slip
MoreFinishes == irq.finishes > 1

AnnounceNext ==
    LET a == irq.accel IN
    /\ irq.pc = "next"
    /\ exec' = Lowered(exec, job_ids[a][irq.next], RUNNING)
    /\ irq' = IF MoreFinishes
              THEN [irq EXCEPT !.pc = "retire", !.finishes = @ - 1]
              ELSE IrqIdle(a)
    /\ UNCHANGED <<todo, pending, debug, ringVars, cacheVars, hwVars, host>>

Handler ==
    \/ \E a \in Accels : Query(a)
    \/ PendStall \/ FlagStall \/ ClearStallBit
    \/ Retire \/ Complete \/ Advance \/ AnnounceNext

-----------------------------------------------------------------------------
\* The accelerators run their invocations in the order they were started.
Finish(a) ==
    /\ hw[a] # <<>> /\ ~stalled[a]
    /\ hw' = [hw EXCEPT ![a] = Tail(@)]
    /\ done' = [done EXCEPT ![a] = @ + 1]
    /\ UNCHANGED <<todo, opVars, ringVars, cacheVars, stalled, stall_bit, stalls, overtakes, host, irq>>

Stall(a) ==
    /\ hw[a] # <<>> /\ ~stalled[a]
    /\ stalls[a] < MaxStalls[a]
    /\ stalled' = [stalled EXCEPT ![a] = TRUE]
    /\ stall_bit' = [stall_bit EXCEPT ![a] = TRUE]
    /\ stalls' = [stalls EXCEPT ![a] = @ + 1]
    /\ UNCHANGED <<todo, opVars, ringVars, cacheVars, hw, done, overtakes, host, irq>>

Next ==
    \/ Host \/ Handler \/ StoreSeen
    \/ \E a \in Accels : DebugDump(a) \/ Finish(a) \/ Stall(a)
    \/ \E device \in Resets, past \in Stray : Reset(device, past)

Spec == Init /\ [][Next]_vars

\* The host keeps running its update passes, the interrupt is level
\* triggered, and some running kernel that is not stalled ends.
FairSpec ==
    /\ Spec
    /\ WF_vars(Host) /\ WF_vars(Handler) /\ WF_vars(StoreSeen)
    /\ WF_vars(\E a \in Accels : Finish(a))

-----------------------------------------------------------------------------
Images == {DefaultImage} \cup {Job[j].image : j \in Jobs}
Registers == [image : Images, args : {Unset} \cup {Job[j].args : j \in Jobs}]

TypeOK ==
    /\ todo \subseteq Jobs
    /\ exec \in [Jobs -> FAILED .. QUEUED]
    /\ pending \in [Jobs -> BOOLEAN] /\ debug \in [Jobs -> BOOLEAN]
    /\ DOMAIN job_ids = Accels
    /\ front \in [Accels -> Int] /\ back \in [Accels -> Int]
    /\ \A a \in Accels :
        /\ job_ids[a] \in [0 .. Size[a] - 1 -> Jobs \cup {NoJob}]
        /\ front[a] \in -1 .. Size[a] - 1
        /\ back[a] \in -1 .. Size[a] - 1
    /\ unseen \in Jobs \cup {NoJob}
    /\ image_cache \in [Accels -> Images] /\ DOMAIN arg_cache = Accels
    /\ cra \in [Accels -> Registers]
    /\ hw \in [Accels -> Seq([job : Jobs, regs : Registers])]
    /\ done \in [Accels -> Nat] /\ stalls \in [Accels -> Nat]
    /\ stalled \in [Accels -> BOOLEAN] /\ stall_bit \in [Accels -> BOOLEAN]
    /\ host \in [pc : {"idle", "image", "enter", "announce", "start",
                       "dumped", "resume", "unstall"},
                 job : Jobs \cup {NoJob}, next : Nat, csr : BOOLEAN]
    /\ irq \in [pc : {"idle", "pend", "flag", "clear",
                      "retire", "complete", "advance", "next"},
                accel : Accels, next : Nat, finishes : Nat,
                job : Jobs \cup {NoJob}]

\* Where the oldest invocation of an accelerator is looked for.
Oldest(a) ==
    IF irq.accel = a /\ irq.pc \in {"complete", "advance"}
    THEN NextIndex(a, irq.next) ELSE NextIndex(a, back[a])

\* The ring of an accelerator, with a store that is still on its way.
Cells(a) ==
    [i \in DOMAIN job_ids[a] |->
        IF unseen # NoJob /\ AccelOf[unseen] = a /\ i = host.next
        THEN unseen ELSE job_ids[a][i]]

\* What a ring holds, from the entry first on.
Entries(ring, first, size) ==
    [n \in 1 .. Cardinality({i \in DOMAIN ring : ring[i] # NoJob}) |->
        ring[(first + n - 1) % size]]

Held(a) == Entries(Cells(a), Oldest(a), Size[a])

\* With the one whose completion is being delivered and the one being launched.
Completing(a) == irq.pc = "complete" /\ irq.accel = a /\ irq.job # NoJob
Launching(a) == host.pc \in {"image", "enter"} /\ AccelOf[host.job] = a
Queue(a) ==
    (IF Completing(a) THEN <<irq.job>> ELSE <<>>) \o Held(a)
        \o (IF Launching(a) THEN <<host.job>> ELSE <<>>)

Fifo == INSTANCE LaunchFifo
          WITH Capacity <- Size,
               queue <- [a \in Accels |-> Queue(a)],
               status <- exec

(* The ring, shared by a launching thread and an interrupt handler that take *)
(* no common lock, is a first-in first-out queue per accelerator: kernels    *)
(* complete in the order of their launches, each once, and a reset fails     *)
(* those that are left, whatever the interleaving.  Reported running is the  *)
(* oldest, or the newest when its launch fills the queue: the host compares  *)
(* front with a back that the handler has still to move on.                  *)
RefinesFifo == Fifo!FifoSpec

(* The entry a launch is about to write is free: "Assert that the requested  *)
(* accelerator is currently empty".  It rests on the handler clearing the    *)
(* entry before it reports the completion that allows the next launch, and   *)
(* on the operation queue: if an invocation is overtaken by as many as its   *)
(* accelerator takes, it is launched all the same and finds no free entry.   *)
SlotFreeAtLaunch ==
    host.pc \in {"image", "enter"} =>
        job_ids[AccelOf[host.job]][host.next] = NoJob

(* Of the invocations of an accelerator one is in running state at a time:   *)
(* "only a single event in the command_queue is ever in a running state"     *)
(* (acl_device_op.cpp:1064), with kernels that are launched behind others.   *)
(* A launch that fills the ring between the completion of the oldest and the *)
(* move of back is reported running before the one that runs.                *)
OneRunning ==
    \A j, k \in Jobs :
        AccelOf[j] = AccelOf[k] /\ exec[j] = RUNNING /\ exec[k] = RUNNING => j = k

(* Between two interrupts the handler will look for the next completion at   *)
(* the entry of the invocation the accelerator really ends next, so that no  *)
(* finish is skipped as one of an idle accelerator or credited to another.   *)
OldestIsNext ==
    host.pc = "idle" /\ irq.pc = "idle" =>
        \A a \in Accels :
            LET next == job_ids[a][NextEntry(a)] IN
            /\ done[a] > 0 => next # NoJob
            /\ done[a] = 0 /\ hw[a] # <<>> => next = Head(hw[a]).job

(* Although only registers whose cached value differs are written, each      *)
(* kernel runs with the image and the arguments of its own invocation.       *)
RunsItsInvocation ==
    \A a \in Accels : \A i \in DOMAIN hw[a] :
        LET start == hw[a][i] IN
        /\ a \notin Streaming => start.regs.image = Job[start.job].image
        /\ start.regs.args = Job[start.job].args

(* A kernel that waits for its printf buffer is never forgotten: its stall   *)
(* bit is still set or the host still has a pickup to do for it.             *)
StallIsSeen ==
    host.pc = "idle" /\ irq.pc = "idle" =>
        \A a \in Accels : stalled[a] => stall_bit[a] \/ pending[Head(hw[a]).job]

(* Every launched kernel ends, the ones that stall on the way included: the *)
(* launches of a behaviour are finitely many, so in the end none is left.    *)
LaunchedEnds == <>[](\A a \in Accels : InFlight(a) = {})
=============================================================================
