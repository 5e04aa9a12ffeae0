--------------------------- MODULE DeviceOpQueue ---------------------------
(***************************************************************************)
(* The platform-wide device operation queue of src/acl_device_op.cpp: the  *)
(* one scheduler through which every command reaches a device.             *)
(*                                                                         *)
(* A command (an event) is turned into a group of operations, committed as *)
(* a whole by its submit function (acl_submit_kernel_device_op and its     *)
(* siblings).  acl_update_device_op_queue then repeats three passes, under *)
(* the global lock, until nothing changes: submit the earliest operation   *)
(* that conflicts with nothing before it, take over the status updates of  *)
(* the hardware, prune what is finished.  Interrupt handlers take no lock: *)
(* they write execution_status and num_printf_bytes_pending of an          *)
(* operation at any point of these passes.                                 *)
(*                                                                         *)
(* The live and free lists are sequences of operation ids.  A binary       *)
(* stands for its binary_rand_hash, which is all the code compares.        *)
(***************************************************************************)
EXTENDS Integers, Sequences, SequencesExt, FiniteSets

CONSTANTS
    Commands,         \* the events
    Command,          \* what each asks for: see CommandType
    Workloads,        \* sets of commands that are to be executed together
    Reused,           \* the commands that are enqueued again and again
    Devices, Accels, Buffers, Binaries,
    UserMemory,       \* buffers created over memory of the user's program
    None,             \* no binary, buffer, accelerator, command or operation
    MaxOps,           \* max_ops, the capacity of the queue
    FullDuplex        \* the devices with max_inflight_mem_ops = 2

Ids == 1..MaxOps

OpTypes == {"KERNEL", "MEM_TRANSFER_READ", "MEM_TRANSFER_WRITE",
            "MEM_TRANSFER_COPY", "REPROGRAM", "MEM_MIGRATION", "USM_MEMCPY",
            "HOSTPIPE_READ", "HOSTPIPE_WRITE",
            "DEVICE_GLOBAL_READ", "DEVICE_GLOBAL_WRITE"}
ConflictTypes == {"NONE", "MEM_READ", "MEM_WRITE", "MEM", "KERNEL",
                  "REPROGRAM", "HOSTPIPE_READ", "HOSTPIPE_WRITE",
                  "DEVICE_GLOBAL_READ", "DEVICE_GLOBAL_WRITE"}

(* CL_QUEUED ... CL_COMPLETE, and the one error code told apart. *)
QUEUED    == 3
SUBMITTED == 2
RUNNING   == 1
COMPLETE  == 0
FAILED    == -1

(* An operation of a command: its type, the conflict type it has on each   *)
(* device it affects (for a migration see Affects), the buffer it migrates *)
(* whether it moves no data (acl_mem_op_requires_transfer is false), and   *)
(* whether the device may fail it.                                         *)
OpSpec == [type : OpTypes,
           affects : SUBSET (Devices \X ConflictTypes),
           mem : Buffers \cup {None},
           noTransfer : BOOLEAN,
           mayFail : BOOLEAN]

CommandType ==
    [kind : {"kernel", "program", "other"},
     ops : Seq(OpSpec),
     device : Devices,
     bin : Binaries \cup {None},
     accel : Accels \cup {None},
     depth : Nat,        \* fast_launch_depth of the accelerator
     relaunches : Nat,   \* extra launches of a serialized NDRange
     prints : BOOLEAN,   \* the kernel calls printf
     badBin : BOOLEAN]   \* programming the device with bin may fail

ASSUME SizeAssumption == MaxOps \in Nat \ {0}
ASSUME CommandAssumption == Command \in [Commands -> CommandType]
(* What the submit functions make of a command: a kernel is migrations of  *)
(* its buffers and then the launch (acl_submit_kernel_device_op), eager    *)
(* programming one operation (acl_submit_program_device_op), and nothing   *)
(* else launches or programs.  Some transfers have nothing to move.  The   *)
(* type of an operation limits how it may conflict                         *)
(* (acl_device_op_conflict_type).                                          *)
ConflictsOf(type) ==
    CASE type \in {"MEM_TRANSFER_READ", "MEM_TRANSFER_WRITE",
                   "MEM_TRANSFER_COPY"} -> {"MEM_READ", "MEM_WRITE", "MEM"}
      [] type = "USM_MEMCPY" -> {"NONE", "MEM_READ", "MEM_WRITE", "MEM"}
      [] type = "MEM_MIGRATION" -> {"MEM"}
      [] OTHER -> {type}
MayMoveNothing == {"MEM_TRANSFER_READ", "MEM_TRANSFER_WRITE",
                   "MEM_TRANSFER_COPY", "HOSTPIPE_READ", "HOSTPIPE_WRITE",
                   "DEVICE_GLOBAL_READ", "DEVICE_GLOBAL_WRITE"}
SpecOf(s, c) ==
    /\ \A x \in s.affects : x[2] \in ConflictsOf(s.type)
    /\ s.type = "MEM_MIGRATION" => s.mem \in Buffers
    /\ s.type = "KERNEL" => s.affects = {<<c.device, "KERNEL">>}
    /\ s.type = "REPROGRAM" => /\ s.affects = {<<c.device, "REPROGRAM">>}
                               /\ s.mayFail => c.badBin
    /\ s.noTransfer => s.type \in MayMoveNothing
TypesOf(c) == {c.ops[n].type : n \in DOMAIN c.ops}
Launches(c) ==
    /\ c.accel \in Accels /\ c.bin \in Binaries
    /\ c.ops[Len(c.ops)].type = "KERNEL"
    /\ \A n \in 1..Len(c.ops) - 1 : c.ops[n].type = "MEM_MIGRATION"
Programs(c) ==
    /\ c.bin \in Binaries
    /\ Len(c.ops) = 1 /\ c.ops[1].type = "REPROGRAM"
ASSUME SubmitAssumption ==
    \A e \in Commands : LET c == Command[e] IN
        /\ c.ops # <<>>
        /\ \A n \in DOMAIN c.ops : SpecOf(c.ops[n], c)
        /\ c.kind = "kernel" => Launches(c)
        /\ c.kind = "program" => Programs(c)
        /\ c.kind = "other" => {"KERNEL", "REPROGRAM"} \cap TypesOf(c) = {}
ASSUME FailAssumption ==
    \A c \in Commands : \A n \in DOMAIN Command[c].ops :
        Command[c].ops[n].mayFail
            => Command[c].ops[n].type \notin {"KERNEL", "MEM_MIGRATION"}
ASSUME SetsAssumption ==
    /\ Workloads \subseteq SUBSET Commands /\ Reused \subseteq Commands
    /\ FullDuplex \subseteq Devices /\ UserMemory \subseteq Buffers
ASSUME NoneAssumption ==
    None \notin Commands \cup Binaries \cup Buffers \cup Accels \cup Ids
ASSUME PlacesAssumption == Devices \cap {"user", "deferred"} = {}

VARIABLES
    op,          \* the operations, by id (activation id)
    committed,   \* ids of the live list, in order
    free,        \* ids of the free list, first_free first
    pc,          \* the pass of the update that is running, or "idle"
    cursor,      \* position the status pass has reached
    num_updates, \* whether this round of passes changed something
    caller,      \* the command whose submit function runs the update
    status,      \* execution_status of each event
    last_op,     \* last_device_op of each event
    current_op,  \* current_device_op of each event
    posted,      \* history: completions posted to each event
    failed,      \* history: the device failed an operation of the event
    at,          \* block_allocation of each buffer, see Places
    last_bin, loaded_bin,  \* of each device
    ring         \* kernels each accelerator has in its invocation queue

lists == <<committed, free>>
events == <<status, last_op, current_op, posted, failed>>
bins == <<last_bin, loaded_bin>>
control == <<pc, cursor, num_updates, caller>>
vars == <<op, lists, control, events, at, bins, ring>>

IsKernelCommand(c) == Command[c].kind = "kernel"
BuffersOf(c) == {Command[c].ops[n].mem : n \in DOMAIN Command[c].ops} \ {None}
Live == ToSet(committed)

IdleOp == [cmd |-> None, type |-> "KERNEL", affects |-> {}, mem |-> None,
           noTransfer |-> FALSE, mayFail |-> FALSE,
           status |-> COMPLETE, exec |-> COMPLETE,
           group |-> 0, first |-> TRUE, last |-> TRUE,
           printf |-> "none", left |-> 0]

OpType == [cmd : Commands \cup {None}, type : OpTypes,
           affects : SUBSET (Devices \X ConflictTypes),
           mem : Buffers \cup {None}, noTransfer : BOOLEAN, mayFail : BOOLEAN,
           status : COMPLETE..QUEUED, exec : FAILED..QUEUED,
           group : Ids \cup {0}, first : BOOLEAN, last : BOOLEAN,
           printf : {"none", "stall", "final"}, left : Nat]

(* Where a buffer's block_allocation is: on a device, in the user's own    *)
(* memory, or nowhere yet (allocation_deferred).                           *)
Places == Devices \cup {"user", "deferred"}

TypeOK ==
    /\ op \in [Ids -> OpType]
    /\ committed \in Seq(Ids) /\ free \in Seq(Ids)
    /\ pc \in {"idle", "submit", "status", "prune", "done"}
    /\ cursor \in 1..MaxOps + 1
    /\ num_updates \in BOOLEAN
    /\ caller \in Commands \cup {None}
    /\ status \in [Commands -> FAILED..QUEUED]
    /\ last_op \in [Commands -> Ids \cup {None}]
    /\ current_op \in [Commands -> Ids \cup {None}]
    /\ posted \in [Commands -> Nat]
    /\ failed \in [Commands -> BOOLEAN]
    /\ at \in [Buffers -> Places]
    /\ last_bin \in [Devices -> Binaries \cup {None}]
    /\ loaded_bin \in [Devices -> Binaries \cup {None}]
    /\ ring \in [Accels -> Seq(Ids)]

(* The events of a workload are queued; the others are finished. *)
Init ==
    /\ op = [i \in Ids |-> IdleOp]
    /\ committed = <<>>
    /\ free = [i \in Ids |-> i]
    /\ pc = "idle" /\ cursor = 1 /\ num_updates = FALSE /\ caller = None
    /\ \E W \in Workloads :
         /\ status = [c \in Commands |-> IF c \in W THEN QUEUED ELSE COMPLETE]
         /\ posted = [c \in Commands |-> IF c \in W THEN 0 ELSE 1]
    /\ last_op = [c \in Commands |-> None]
    /\ current_op = [c \in Commands |-> None]
    /\ failed = [c \in Commands |-> FALSE]
    /\ at = [b \in Buffers |-> IF b \in UserMemory THEN "user" ELSE "deferred"]
    /\ last_bin = [d \in Devices |-> None]
    /\ loaded_bin = [d \in Devices |-> None]
    /\ ring = [a \in Accels |-> <<>>]

----------------------------------------------------------------------------
(* What may run beside what: conflict_matrix_half_duplex and               *)
(* conflict_matrix_full_duplex, row a (the candidate) against column b     *)
(* (what is pending).                                                      *)
Pipes == {"HOSTPIPE_READ", "HOSTPIPE_WRITE"}
Reads == {"MEM_READ", "DEVICE_GLOBAL_READ"}
Writes == {"MEM_WRITE", "DEVICE_GLOBAL_WRITE"}
DeviceGlobals == {"DEVICE_GLOBAL_READ", "DEVICE_GLOBAL_WRITE"}

HalfDuplexConflict(a, b) ==
    \/ "REPROGRAM" \in {a, b}
    \/ /\ {a, b} \cap {"NONE", "KERNEL"} = {}
       /\ ~({a, b} \subseteq Pipes)

FullDuplexConflict(a, b) ==
    /\ HalfDuplexConflict(a, b)
    /\ ~(a \in Reads /\ b \in Writes)
    /\ ~(a \in Writes /\ b \in Reads)
    /\ ~(a \in Pipes /\ b \in DeviceGlobals)

Conflict(d, a, b) ==
    IF d \in FullDuplex THEN FullDuplexConflict(a, b)
                        ELSE HalfDuplexConflict(a, b)

(* l_get_devices_affected_for_op: a migration involves every device its    *)
(* command's buffers are on and the device they go to.                     *)
Affects(i) ==
    IF op[i].type = "MEM_MIGRATION"
    THEN (Devices \cap ({Command[op[i].cmd].device}
                          \cup {at[b] : b \in BuffersOf(op[i].cmd)}))
           \X {"MEM"}
    ELSE op[i].affects

OpsConflict(i, j) ==
    \E x \in Affects(i), y \in Affects(j) :
        x[1] = y[1] /\ Conflict(x[1], x[2], y[2])

(* First pass.  An operation counts as pending from its commit on, so that *)
(* nothing overtakes an earlier operation it conflicts with.               *)
Pending(i) == op[i].status \in RUNNING..QUEUED
PendingBefore(k) == {j \in 1..(k - 1) : Pending(committed[j])}

(* A slip: a comparison with the last pending operation only.              *)
ConflictWithLastOnly(k) ==
    PendingBefore(k) # {}
      /\ OpsConflict(committed[k], committed[Max(PendingBefore(k))])

(* Exclusion groups: the last pending operation before k is of its group.  *)
GroupBusy(k) ==
    /\ PendingBefore(k) # {}
    /\ op[committed[Max(PendingBefore(k))]].group = op[committed[k]].group

MatrixConflict(k) ==
    \E j \in PendingBefore(k) : OpsConflict(committed[k], committed[j])

(* A slip: the printf buffer of a running kernel is not looked at.         *)
QueuedOnly(k) == ~GroupBusy(k) /\ op[committed[k]].status = QUEUED

IsCandidate(k) ==
    /\ ~GroupBusy(k)
    /\ \/ op[committed[k]].status = QUEUED
       \/ op[committed[k]].printf # "none"

IsKernelMigration(i) ==
    op[i].type = "MEM_MIGRATION" /\ IsKernelCommand(op[i].cmd)
MovesNothing(i) == at[op[i].mem] \in {Command[op[i].cmd].device, "deferred"}
IsNoopMigration(i) == IsKernelMigration(i) /\ MovesNothing(i)

(* A migration that must move data was met earlier in this scan. *)
NoopPruningBlocked(k) ==
    \E j \in 1..(k - 1) :
        /\ IsCandidate(j)
        /\ IsKernelMigration(committed[j])
        /\ ~IsNoopMigration(committed[j])

OnDevice(i) == op[i].type = "KERNEL" /\ op[i].status \in {SUBMITTED, RUNNING}

NeverInUse(i) == FALSE  \* a slip: nothing keeps a buffer in its place
MemInUse(i) == \E j \in Live : OnDevice(j) /\ op[i].mem \in BuffersOf(op[j].cmd)

(* Only the kernels committed before it are counted. *)
AccelFull(k) ==
    Cardinality({j \in 1..(k - 1) :
        /\ OnDevice(committed[j])
        /\ Command[op[committed[j]].cmd].accel
             = Command[op[committed[k]].cmd].accel})
      > Command[op[committed[k]].cmd].depth

CanSubmit(k) ==
    LET i == committed[k] IN
    /\ IsCandidate(k)
    /\ \/ IsNoopMigration(i) /\ ~NoopPruningBlocked(k)
       \/ op[i].noTransfer
       \/ /\ ~MatrixConflict(k)
          /\ IsKernelMigration(i) => ~MemInUse(i)
          /\ op[i].type = "KERNEL" /\ op[i].status = QUEUED => ~AccelFull(k)

----------------------------------------------------------------------------
(* The callbacks of the queue: what each does before it returns.           *)
Asynchronous(i) ==
    /\ ~op[i].noTransfer
    /\ op[i].type \in {"MEM_TRANSFER_READ", "MEM_TRANSFER_WRITE",
                       "MEM_TRANSFER_COPY", "MEM_MIGRATION", "USM_MEMCPY"}
    /\ op[i].type = "MEM_MIGRATION" => ~MovesNothing(i)

LaunchKernel(i) ==
    LET a == Command[op[i].cmd].accel IN
    ring' = [ring EXCEPT ![a] = Append(@, i)]

ExecAfterCall(i, ok) ==
    IF ~ok THEN FAILED
    ELSE IF op[i].type = "KERNEL"
    THEN IF ring[Command[op[i].cmd].accel] = <<>> THEN RUNNING ELSE SUBMITTED
    ELSE IF Asynchronous(i) THEN RUNNING ELSE COMPLETE

(* A migration moves block_allocation before the copy it starts has ended. *)
PlacesAfter(i) ==
    IF op[i].type = "MEM_MIGRATION"
    THEN [at EXCEPT ![op[i].mem] = Command[op[i].cmd].device] ELSE at

BinariesAfter(i) ==
    IF op[i].type = "REPROGRAM"
    THEN [loaded_bin EXCEPT ![Command[op[i].cmd].device] = Command[op[i].cmd].bin]
    ELSE loaded_bin

EachPosts(i) == TRUE  \* a slip: every operation of a group posts

(* Which operations of a group post which status to the event. *)
PostsSubmitted(i) == op[i].first
PostsRunning(i) ==
    op[i].type = "KERNEL" \/ (op[i].first /\ ~IsKernelCommand(op[i].cmd))
PostsCompletion(i) == op[i].last

(* acl_submit_device_op on a QUEUED operation that carries no error. *)
StartOp(i) ==
    \E ok \in {TRUE, ~op[i].mayFail} :
        LET c == op[i].cmd IN
        /\ op' = [op EXCEPT ![i].status = SUBMITTED,
                            ![i].exec = ExecAfterCall(i, ok)]
        /\ status' = IF PostsSubmitted(i) THEN [status EXCEPT ![c] = SUBMITTED]
                                          ELSE status
        /\ current_op' = [current_op EXCEPT ![c] = i]
        /\ failed' = [failed EXCEPT ![c] = @ \/ ~ok]
        /\ IF op[i].type = "KERNEL" THEN LaunchKernel(i) ELSE UNCHANGED ring
        /\ at' = IF ok THEN PlacesAfter(i) ELSE at
        /\ loaded_bin' = IF ok THEN BinariesAfter(i) ELSE loaded_bin
        /\ UNCHANGED <<lists, last_op, posted, last_bin>>

(* A QUEUED operation whose group has failed is not started. *)
SkipOp(i) ==
    /\ op' = [op EXCEPT ![i].status = SUBMITTED]
    /\ UNCHANGED <<lists, events, at, bins, ring>>

(* acl_process_printf_buffer: a blocking transfer, then unstall. *)
ProcessPrintf(i) ==
    /\ op' = [op EXCEPT ![i].printf = "none"]
    /\ UNCHANGED <<lists, events, at, bins, ring>>

SubmitOp(i) ==
    IF op[i].status # QUEUED THEN ProcessPrintf(i)
    ELSE IF op[i].exec < 0 THEN SkipOp(i) ELSE StartOp(i)

SubmitPass ==
    /\ pc = "submit"
    /\ LET ready == {k \in DOMAIN committed : CanSubmit(k)} IN
         IF ready = {}
         THEN /\ num_updates' = FALSE
              /\ UNCHANGED <<op, lists, events, at, bins, ring>>
         ELSE /\ num_updates' = TRUE
              /\ SubmitOp(committed[Min(ready)])
    /\ pc' = "status" /\ cursor' = 1
    /\ UNCHANGED caller

----------------------------------------------------------------------------
(* Second pass: one step per operation, for an interrupt may come between. *)
TakeRunning(i) ==
    /\ op[i].status = SUBMITTED /\ op[i].exec <= RUNNING
    /\ op' = [op EXCEPT ![i].status = RUNNING]
    /\ status' = IF PostsRunning(i)
                 THEN [status EXCEPT ![op[i].cmd] = RUNNING] ELSE status
    /\ num_updates' = TRUE
    /\ UNCHANGED <<last_op, current_op, posted, failed, ring>>

(* A serialized NDRange kernel goes back to its accelerator. *)
MustRelaunch(i) ==
    op[i].type = "KERNEL" /\ op[i].exec = COMPLETE /\ op[i].left > 0

Relaunch(i) ==
    /\ op[i].status = RUNNING /\ MustRelaunch(i)
    /\ op' = [op EXCEPT ![i].exec = RUNNING, ![i].left = @ - 1]
    /\ LaunchKernel(i)
    /\ UNCHANGED <<events, num_updates>>

TakeComplete(i) ==
    LET c == op[i].cmd IN
    /\ op[i].status = RUNNING /\ op[i].exec <= COMPLETE /\ ~MustRelaunch(i)
    /\ op' = [op EXCEPT ![i].status = COMPLETE]
    /\ status' = IF PostsCompletion(i) THEN [status EXCEPT ![c] = op[i].exec]
                                       ELSE status
    /\ posted' = IF PostsCompletion(i) THEN [posted EXCEPT ![c] = @ + 1]
                                       ELSE posted
    /\ current_op' = [current_op EXCEPT ![c] = None]
    /\ num_updates' = TRUE
    /\ UNCHANGED <<last_op, failed, ring>>

NothingToTake(i) ==
    /\ \/ op[i].status \in {QUEUED, COMPLETE}
       \/ op[i].status = SUBMITTED /\ op[i].exec > RUNNING
       \/ op[i].status = RUNNING /\ op[i].exec > COMPLETE
    /\ UNCHANGED <<op, events, num_updates, ring>>

StatusPass ==
    /\ pc = "status"
    /\ IF cursor <= Len(committed)
       THEN LET i == committed[cursor] IN
            /\ TakeRunning(i) \/ Relaunch(i) \/ TakeComplete(i) \/ NothingToTake(i)
            /\ cursor' = cursor + 1 /\ UNCHANGED pc
       ELSE /\ pc' = "prune" /\ cursor' = 1
            /\ UNCHANGED <<op, events, num_updates, ring>>
    /\ UNCHANGED <<lists, caller, at, bins>>

----------------------------------------------------------------------------
(* Third pass: finished operations go back on the free list, and a failed  *)
(* one hands its error to the next of its group.                           *)
Finished(i) == op[i].status <= COMPLETE /\ op[i].printf = "none"

FinishedOps == {i \in Live : Finished(i)}

(* The members of s that are in S, in their order: SelectSeq, written as   *)
(* a function of the prefix that has been walked over.                     *)
Within(s, S) ==
    LET sel[k \in 0..Len(s)] ==
          IF k = 0 THEN <<>>
          ELSE IF s[k] \in S THEN Append(sel[k - 1], s[k]) ELSE sel[k - 1]
    IN  sel[Len(s)]

(* Slips: an error stays with its operation; the pruned operations replace *)
(* the free list; a round that only took status updates is the last.       *)
OwnErrorOnly == [k \in DOMAIN committed |-> op[committed[k]].exec < 0]
FreeListReplaced(done) == Reverse(done)
PrunedSomething(done) == done # <<>>

(* Whether the k-th operation has an error when the pass reaches it. *)
HasError ==
    LET err[k \in DOMAIN committed] ==
          \/ op[committed[k]].exec < 0
          \/ /\ k > 1 /\ err[k - 1]
             /\ Finished(committed[k - 1]) /\ ~op[committed[k - 1]].last
    IN  err

FreeAfterPrune(done) == Reverse(done) \o free

(* acl_update_device_op_queue goes round again while a round changed       *)
(* anything.                                                               *)
AnotherRound(done) == num_updates \/ done # <<>>

PrunePass ==
    /\ pc = "prune"
    /\ LET done == Within(committed, FinishedOps) IN
         /\ committed' = Within(committed, Live \ FinishedOps)
         /\ free' = FreeAfterPrune(done)
         /\ op' = [i \in Ids |->
                     IF i \in ToSet(done) THEN IdleOp
                     ELSE IF \E k \in DOMAIN committed :
                               committed[k] = i /\ HasError[k]
                          THEN [op[i] EXCEPT !.exec = FAILED]
                          ELSE op[i]]
         /\ pc' = IF AnotherRound(done) THEN "submit" ELSE "done"
    /\ UNCHANGED <<cursor, num_updates, caller, events, at, bins, ring>>

----------------------------------------------------------------------------
(* The submit functions: acl_forget_proposed_device_ops (whose update runs *)
(* first), then propose and commit, or back off.                           *)
(* A slip: what is queued before the command is forgotten. *)
LoadedBinaryOnly(c) == loaded_bin[Command[c].device] # Command[c].bin

NeedReprogram(c) ==
    LET d == Command[c].device IN
    IF last_bin[d] # None THEN last_bin[d] # Command[c].bin
                          ELSE loaded_bin[d] # Command[c].bin

ReprogramOp(c) ==
    [type |-> "REPROGRAM",
     affects |-> {<<Command[c].device, "REPROGRAM">>},
     mem |-> None, noTransfer |-> FALSE, mayFail |-> Command[c].badBin]

Proposal(c) ==
    IF IsKernelCommand(c) /\ NeedReprogram(c)
    THEN <<ReprogramOp(c)>> \o Command[c].ops ELSE Command[c].ops

ProposedOp(c, n, size, group) ==
    LET s == Proposal(c)[n] IN
    [cmd |-> c, type |-> s.type, affects |-> s.affects, mem |-> s.mem,
     noTransfer |-> s.noTransfer, mayFail |-> s.mayFail, status |-> QUEUED, exec |-> QUEUED,
     group |-> group, first |-> n = 1, last |-> n = size, printf |-> "none",
     left |-> IF s.type = "KERNEL" THEN Command[c].relaunches ELSE 0]

StartUpdate(c) ==
    /\ pc' = "submit" /\ caller' = c
    /\ UNCHANGED <<op, lists, cursor, num_updates, events, at, bins, ring>>

BeginSubmit(c) ==
    /\ pc = "idle" /\ status[c] = QUEUED /\ last_op[c] = None
    /\ StartUpdate(c)

(* acl_idle_update, or any call that nudges the scheduler. *)
IdleUpdate == pc = "idle" /\ committed # <<>> /\ StartUpdate(None)

Commit(c) ==
    LET size == Len(Proposal(c))
        ids == SubSeq(free, 1, size) IN
    /\ pc = "done" /\ caller = c
    /\ size <= Len(free)
    /\ committed' = committed \o ids
    /\ free' = SubSeq(free, size + 1, Len(free))
    /\ op' = [i \in Ids |->
                IF i \in ToSet(ids)
                THEN ProposedOp(c, CHOOSE n \in 1..size : ids[n] = i, size,
                                ids[size])
                ELSE op[i]]
    /\ last_op' = [last_op EXCEPT ![c] = ids[size]]
    /\ last_bin' = IF Command[c].kind \in {"kernel", "program"}
                   THEN [last_bin EXCEPT ![Command[c].device] = Command[c].bin]
                   ELSE last_bin
    /\ pc' = "submit" /\ caller' = None
    /\ UNCHANGED <<cursor, num_updates, status, current_op, posted, failed, at,
                   loaded_bin, ring>>

(* Not enough free slots: the proposed operations return to the free list  *)
(* in their order, and the command is submitted again later.               *)
BackOff(c) ==
    /\ pc = "done" /\ caller = c
    /\ Len(Proposal(c)) > Len(free)
    /\ pc' = IF Command[c].kind = "program" THEN "idle" ELSE "submit"
    /\ caller' = None
    /\ UNCHANGED <<op, lists, cursor, num_updates, events, at, bins, ring>>

EndUpdate ==
    /\ pc = "done" /\ caller = None
    /\ pc' = "idle"
    /\ UNCHANGED <<op, lists, cursor, num_updates, caller, events, at, bins, ring>>

(* The command queue is done with a complete event; the command is used    *)
(* again for a new event.                                                  *)
Release(c) ==
    /\ c \in Reused
    /\ pc = "idle" /\ status[c] <= COMPLETE /\ last_op[c] # None
    /\ status' = [status EXCEPT ![c] = QUEUED]
    /\ last_op' = [last_op EXCEPT ![c] = None]
    /\ posted' = [posted EXCEPT ![c] = 0]
    /\ failed' = [failed EXCEPT ![c] = FALSE]
    /\ UNCHANGED <<op, lists, control, current_op, at, bins, ring>>

----------------------------------------------------------------------------
(* The hardware, through handlers that may interrupt any of the above.     *)
TransferInFlight(i) ==
    /\ i \in Live /\ op[i].status \in {SUBMITTED, RUNNING}
    /\ op[i].exec = RUNNING /\ op[i].type # "KERNEL"

(* acl_hal_mmd_status_handler: the update names the event, which routes it *)
(* to its current operation.                                               *)
TransferDone(i) ==
    LET c == op[i].cmd IN
    /\ TransferInFlight(i)
    /\ IF current_op[c] # None
       THEN op' = [op EXCEPT ![current_op[c]].exec = COMPLETE] /\ UNCHANGED status
       ELSE status' = [status EXCEPT ![c] = COMPLETE] /\ UNCHANGED op
    /\ UNCHANGED <<lists, control, last_op, current_op, posted, failed, at,
                   bins, ring>>

(* The kernel at the head stalls on a full printf buffer. *)
KernelStalls(a) ==
    /\ ring[a] # <<>> /\ Command[op[Head(ring[a])].cmd].prints
    /\ op[Head(ring[a])].printf = "none"
    /\ op[Head(ring[a])].exec = RUNNING
    /\ op' = [op EXCEPT ![Head(ring[a])].printf = "stall"]
    /\ UNCHANGED <<lists, control, events, at, bins, ring>>

(* acl_receive_kernel_update: the head completes, perhaps with text left   *)
(* in its printf buffer, and the next one runs.                            *)
KernelDone(a, rest) ==
    /\ ring[a] # <<>> /\ op[Head(ring[a])].printf # "stall"
    /\ rest = "none" \/ Command[op[Head(ring[a])].cmd].prints
    /\ ring' = [ring EXCEPT ![a] = Tail(@)]
    /\ op' = [i \in Ids |->
                IF i = Head(ring[a])
                THEN [op[i] EXCEPT !.exec = COMPLETE,
                                   !.printf = IF rest = "none" THEN @ ELSE rest]
                ELSE IF Len(ring[a]) > 1 /\ i = ring[a][2] /\ op[i].exec > RUNNING
                     THEN [op[i] EXCEPT !.exec = RUNNING]
                     ELSE op[i]]
    /\ UNCHANGED <<lists, control, events, at, bins>>

Scheduler ==
    SubmitPass \/ StatusPass \/ PrunePass \/ EndUpdate
      \/ \E c \in Commands : Commit(c) \/ BackOff(c)

Hardware ==
    \/ \E i \in Ids : TransferDone(i)
    \/ \E a \in Accels, rest \in {"none", "final"} : KernelDone(a, rest)

Next ==
    \/ Scheduler \/ Hardware \/ IdleUpdate
    \/ \E a \in Accels : KernelStalls(a)
    \/ \E c \in Commands : BeginSubmit(c) \/ Release(c)

Spec == Init /\ [][Next]_vars

(* The update loop is code that runs to its end; the hardware finishes     *)
(* what it was given, a kernel after a finite number of stalls; while a    *)
(* thread waits, acl_idle_update keeps coming.                             *)
FairSpec ==
    /\ Spec
    /\ WF_vars(Scheduler)
    /\ SF_vars(IdleUpdate)
    /\ \A i \in Ids : WF_vars(TransferDone(i))
    /\ \A a \in Accels :
         SF_vars(\E rest \in {"none", "final"} : KernelDone(a, rest))

----------------------------------------------------------------------------
OnHardware(i) ==
    /\ i \in Live
    /\ op[i].status \in {SUBMITTED, RUNNING} /\ op[i].exec \in {SUBMITTED, RUNNING}
KernelOnHardware(i) == OnHardware(i) /\ op[i].type = "KERNEL"

(* No slot of the queue is lost or handed out twice: committing, backing   *)
(* off and pruning move operations between the live and the free list.     *)
(* Between updates no operation of a complete event is left, so that its   *)
(* owner may release it: "You could dereference an invalid pointer through *)
(* a dead or recycled cl_event" (acl_device_op.cpp).                       *)
SlotsRecycled ==
    /\ Len(committed) + Len(free) = MaxOps
    /\ Live \cup ToSet(free) = Ids
    /\ pc = "idle" => \A i \in Live : status[op[i].cmd] > COMPLETE

(* The operations of a command follow one another: one is started only     *)
(* when every earlier one of its group is complete, and none is on the     *)
(* device once one of them has failed.  So an interrupt, which names only  *)
(* the event, reaches the operation that caused it.                        *)
GroupInSequence ==
    /\ \A k, l \in DOMAIN committed :
         /\ k < l
         /\ op[committed[k]].group = op[committed[l]].group
         /\ op[committed[l]].status # QUEUED
         => op[committed[k]].status = COMPLETE
    /\ \A i \in Ids : OnHardware(i) => ~failed[op[i].cmd]
    /\ \A i \in Ids : TransferInFlight(i) => current_op[op[i].cmd] = i

(* Two operations are on a device together only if the conflict matrix     *)
(* allows it, whatever moved between the time the scan compared them and   *)
(* now.                                                                    *)
ConflictFree ==
    \A i, j \in Ids :
        i # j /\ OnHardware(i) /\ OnHardware(j) => ~OpsConflict(i, j)

(* A kernel runs on the binary it was compiled into: the reprogram decided *)
(* on at submission from last_bin has happened, and no later command's     *)
(* reprogram has come before the kernel is done.  On a device that can     *)
(* always be programmed this is so; acl_types.h promises it for all.       *)
OnItsBinary(i) ==
    loaded_bin[Command[op[i].cmd].device] = Command[op[i].cmd].bin
AlwaysProgrammable(d) ==
    \A c \in Commands : Command[c].device = d => ~Command[c].badBin
KernelRunsOnItsBinary ==
    \A i \in Ids :
        KernelOnHardware(i) /\ AlwaysProgrammable(Command[op[i].cmd].device)
            => OnItsBinary(i)
KernelAlwaysOnItsBinary == \A i \in Ids : KernelOnHardware(i) => OnItsBinary(i)

(* While a kernel is on the device its buffers stay there: the migrations  *)
(* of kernels on other devices wait (l_is_mem_in_use).                     *)
BuffersStay ==
    [][\A i \in Ids : KernelOnHardware(i) =>
         \A b \in BuffersOf(op[i].cmd) :
             at[b] = Command[op[i].cmd].device => at'[b] = at[b]]_vars

(* A kernel on the device finds its buffers there. *)
KernelFindsItsBuffers ==
    \A i \in Ids : KernelOnHardware(i) =>
        \A b \in BuffersOf(op[i].cmd) : at[b] = Command[op[i].cmd].device

(* An event is completed once, and with an error exactly when one of its   *)
(* operations failed: propagation through the group loses no error and     *)
(* invents none.                                                           *)
CompletedOnce ==
    \A c \in Commands :
        /\ posted[c] = IF status[c] <= COMPLETE THEN 1 ELSE 0
        /\ status[c] <= COMPLETE => (status[c] = FAILED <=> failed[c])

(* "make sure we don't surpass the fast relaunch depth"                    *)
(* (acl_device_op.cpp:968): an accelerator is never given more kernels     *)
(* than its invocation queue has entries, which                            *)
(* acl_kernel_if_launch_kernel_on_custom_sof asserts.  It may be: the      *)
(* count stops at the operation itself, and one further back in the queue  *)
(* may have been launched before it.                                       *)
RingWithinDepth ==
    \A a \in Accels : \A i \in ToSet(ring[a]) :
        Len(ring[a]) <= Command[op[i].cmd].depth + 1

(* The update stops only at a fixpoint: nothing that could be started is   *)
(* left waiting for the next interrupt.                                    *)
NothingLeftToStart ==
    pc = "idle" =>
        \A k \in DOMAIN committed :
            op[committed[k]].status = QUEUED => ~CanSubmit(k)

(* Every command that got its operations into the queue completes. *)
CommittedCompletes ==
    \A c \in Commands : (last_op[c] # None) ~> (status[c] <= COMPLETE)
=============================================================================
