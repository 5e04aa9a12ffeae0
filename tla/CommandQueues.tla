--------------------------- MODULE CommandQueues ---------------------------
(***************************************************************************)
(* The command queues of a context and the events they own                 *)
(* (src/acl_command_queue.cpp, src/acl_event.cpp, src/acl_command.cpp):    *)
(* dependencies between events, in-order and out-of-order queues, user     *)
(* events and the update rounds of acl_update_context that move completed  *)
(* events out of the queues and ready commands to the device.              *)
(*                                                                         *)
(* Every API call and every update runs under the global lock; a thread    *)
(* gives the lock up only where it sleeps (at = "asleep").  Statuses reach *)
(* the events inside the update of the device operation queue, which runs  *)
(* at the start of the update of each queue ("nudge") and around each      *)
(* submission ("submit"); what that queue does is taken from DeviceOpQueue *)
(* here: each command is one operation that starts, runs and ends.  The    *)
(* accelerators run their launches as LaunchFifo says.  Only interrupts    *)
(* come at any moment: they mark a command as ended and signal.            *)
(* Callbacks of the user are left out.                                     *)
(***************************************************************************)
EXTENDS Integers, Sequences, SequencesExt, FiniteSets

CONSTANTS
    Commands,      \* the events, one for each command of the host
    Command,       \* what each asks for: see CommandType
    Workloads,     \* sets of commands that are enqueued together
    Kept,          \* events the host never releases
    Queues, InOrder, UserQueue,
    Accels,
    RingSize,      \* launches each accelerator holds: fast_launch_depth + 1
    None,          \* no accelerator, event or operation
    Slots,         \* capacity of the device operation queue, in commands
    UserStatuses   \* the statuses clSetUserEventStatus is called with

Kinds == {"kernel", "transfer", "sync", "user"}

CommandType ==
    [queue : Queues, kind : Kinds, accel : Accels \cup {None},
     waits : SUBSET Commands,  \* the wait list of the call
     all : BOOLEAN,            \* a marker without a wait list
     barrier : BOOLEAN,        \* clEnqueueBarrierWithWaitList
     subbuffers : BOOLEAN,     \* a kernel with unmapped sub-buffers
     mayFail : BOOLEAN]

QUEUED    == 3
SUBMITTED == 2
RUNNING   == 1
COMPLETE  == 0
FAILED    == -1  \* ACL_INVALID_EXECUTION_TRANSITION, also what device
                 \* operations report
INVALID   == -2  \* ACL_INVALID_EXECUTION_STATUS

ASSUME CommandAssumption ==
    /\ Command \in [Commands -> CommandType]
    /\ \A e \in Commands :
         Command[e].kind = "kernel" => Command[e].accel \in Accels
ASSUME QueueAssumption ==
    /\ InOrder \subseteq Queues
    /\ UserQueue \in Queues \ InOrder
    /\ \A e \in Commands :
         /\ Command[e].kind = "user" <=> Command[e].queue = UserQueue
         /\ Command[e].kind = "user" =>  \* clCreateUserEvent has no wait list
              Command[e].waits = {} /\ ~Command[e].all
ASSUME StatusAssumption ==  \* clSetUserEventStatus refuses the others
    \A s \in UserStatuses : s \in Int /\ s <= COMPLETE
ASSUME SizeAssumption ==
    /\ IsFiniteSet(Commands) /\ Slots \in Nat \ {0}
    /\ RingSize \in [Accels -> Nat \ {0}]
ASSUME NoneAssumption == None \notin Commands \cup (COMPLETE..QUEUED)

VARIABLES
    life,        \* "new", "live" or "freed" (back in the context's pool)
    status,      \* execution_status
    deps,        \* depend_on; depend_on_me is its inverse
    op,          \* status of last_device_op, None when it is NULL
    on_doq,      \* is_on_device_op_queue
    attached,    \* command_queue is not NULL
    held,        \* the host has a reference
    popped,      \* not not_popped
    num_commands, submitted,  \* of each queue (num_commands_submitted)
    inorder,     \* inorder_commands
    commands, new_commands, completed, last_barrier,  \* out-of-order queues
    ring,        \* launched kernels of each accelerator
    ended,       \* commands of which an interrupt has reported the end
    signalled,   \* somebody called acl_signal_device_update
    at,          \* where the update is: see TypeOK
    todo,        \* queues left in this round of acl_update_context
    cur, idx,    \* the queue that is updated, and queue_idx
    updates,     \* num_updates of the round
    single,      \* acl_update_queue, not acl_update_context
    follows      \* history: what each command must not overtake

objects == <<life, status, deps, op, on_doq, attached, held, popped>>
queues == <<num_commands, submitted, inorder, commands, new_commands,
            completed, last_barrier>>
device == <<ring, ended>>
control == <<at, todo, cur, idx, updates, single>>
vars == <<objects, queues, device, signalled, control, follows>>

TypeOK ==
    /\ life \in [Commands -> {"new", "live", "freed"}]
    /\ status \in [Commands -> UserStatuses \cup FAILED..QUEUED]
    /\ deps \in [Commands -> SUBSET Commands]
    /\ op \in [Commands -> COMPLETE..QUEUED \cup {None}]
    /\ on_doq \in [Commands -> BOOLEAN] /\ attached \in [Commands -> BOOLEAN]
    /\ held \in [Commands -> BOOLEAN] /\ popped \in [Commands -> BOOLEAN]
    /\ num_commands \in [Queues -> Int] /\ submitted \in [Queues -> Int]
    /\ inorder \in [Queues -> Seq(Commands)]
    /\ commands \in [Queues -> SUBSET Commands]
    /\ new_commands \in [Queues -> Seq(Commands)]
    /\ completed \in [Queues -> Seq(Commands)]
    /\ last_barrier \in [Queues -> Commands \cup {None}]
    /\ ring \in [Accels -> Seq(Commands)] /\ ended \subseteq Commands
    /\ signalled \in BOOLEAN
    /\ at \in {"asleep", "round", "nudge", "pop", "submit"}
    /\ todo \subseteq Queues /\ cur \in Queues /\ idx \in Nat \ {0}
    /\ updates \in BOOLEAN /\ single \in BOOLEAN
    /\ follows \in [Commands -> SUBSET Commands]

(* The commands outside the workload are over. *)
Init ==
    /\ \E W \in Workloads :
         /\ life = [e \in Commands |-> IF e \in W THEN "new" ELSE "freed"]
         /\ status = [e \in Commands |-> IF e \in W THEN QUEUED ELSE COMPLETE]
    /\ deps = [e \in Commands |-> {}]
    /\ op = [e \in Commands |-> None]
    /\ on_doq = [e \in Commands |-> FALSE]
    /\ attached = [e \in Commands |-> FALSE]
    /\ held = [e \in Commands |-> FALSE]
    /\ popped = [e \in Commands |-> FALSE]
    /\ num_commands = [q \in Queues |-> 0]
    /\ submitted = [q \in Queues |-> 0]
    /\ inorder = [q \in Queues |-> <<>>]
    /\ commands = [q \in Queues |-> {}]
    /\ new_commands = [q \in Queues |-> <<>>]
    /\ completed = [q \in Queues |-> <<>>]
    /\ last_barrier = [q \in Queues |-> None]
    /\ ring = [a \in Accels |-> <<>>] /\ ended = {}
    /\ signalled = FALSE
    /\ at = "asleep" /\ todo = {} /\ cur = UserQueue /\ idx = 1
    /\ updates = FALSE /\ single = FALSE
    /\ follows = [e \in Commands |-> {}]

----------------------------------------------------------------------------
Done(e) == status[e] <= COMPLETE
QueueOf(e) == Command[e].queue
IsKernel(e) == Command[e].kind = "kernel"
Dependents(e) == {d \in Commands : e \in deps[d]}
Unpopped(q) == {e \in Commands : life[e] = "live" /\ QueueOf(e) = q /\ ~popped[e]}

(* A completion goes to the list of an out-of-order queue, whether it is   *)
(* set by acl_set_execution_status or posted by a device operation.        *)
PushedTwice(e, s) ==  \* a slip: the caller pushes as well
    IF s <= COMPLETE /\ QueueOf(e) \notin InOrder
    THEN [completed EXCEPT ![QueueOf(e)] = @ \o <<e, e>>] ELSE completed
CompletedAfter(e, s) ==
    IF s <= COMPLETE /\ QueueOf(e) \notin InOrder
    THEN [completed EXCEPT ![QueueOf(e)] = Append(@, e)] ELSE completed

(* The end of a device operation takes its command off the count, failed   *)
(* or not.  (An out-of-order queue never reads its count: it is left out.) *)
StaysCounted(e) == submitted  \* a slip
SubmittedAfter(e) ==
    IF QueueOf(e) \in InOrder THEN [submitted EXCEPT ![QueueOf(e)] = @ - 1]
                              ELSE submitted

----------------------------------------------------------------------------
(* API calls that create events.  A host names in a wait list only events  *)
(* it holds.                                                               *)
Enqueueable(e) ==
    /\ at = "asleep" /\ life[e] = "new"
    /\ \A w \in Command[e].waits : life[w] = "live" /\ held[w]

(* clEnqueueMarkerWithWaitList passes every event of the queue.            *)
WaitList(e) ==
    Command[e].waits
      \cup IF Command[e].all THEN commands[QueueOf(e)] ELSE {}
Unfinished(e) == {w \in WaitList(e) : ~Done(w)}

(* acl_create_event looks at the barrier only when there is a list. *)
LastBarrier(e) == {last_barrier[QueueOf(e)]} \ {None}
Barrier(e) == IF WaitList(e) # {} THEN LastBarrier(e) ELSE {}

(* Slip: the events that are already done are waited for. *)
WaitsForTheDone(e) == WaitList(e) \cup Barrier(e)
DependsOn(e) == Unfinished(e) \cup Barrier(e)

(* What the host was promised: its wait list, the last barrier ("all new   *)
(* events to OOO queue must depend on it"), the commands before it.        *)
Follows(e) ==
    {w \in WaitList(e) \cup LastBarrier(e) \cup ToSet(inorder[QueueOf(e)]) :
       ~Done(w)}

(* acl_idle_update starts a round over the queues. *)
StartRound ==
    /\ at' = "round" /\ todo' = Queues /\ updates' = FALSE /\ single' = FALSE
    /\ UNCHANGED <<cur, idx>>

(* acl_create_event and acl_command_queue_add_event, with the event of a   *)
(* barrier recorded and a user event declared submitted.  The calls that   *)
(* enqueue a kernel or a transfer go on with acl_idle_update; the others   *)
(* leave the update to the next call that waits for the device.            *)
Updates(e) == Command[e].kind \in {"kernel", "transfer"}

Enqueue(e) ==
    LET q == QueueOf(e) IN
    /\ Enqueueable(e)
    /\ life' = [life EXCEPT ![e] = "live"]
    /\ status' = [status EXCEPT ![e] =
                    IF Command[e].kind = "user" THEN SUBMITTED ELSE QUEUED]
    /\ deps' = [deps EXCEPT ![e] = DependsOn(e)]
    /\ follows' = [follows EXCEPT ![e] = Follows(e)]
    /\ attached' = [attached EXCEPT ![e] = TRUE]
    /\ held' = [held EXCEPT ![e] = TRUE]
    /\ num_commands' = [num_commands EXCEPT ![q] = @ + 1]
    /\ IF q \in InOrder
       THEN /\ inorder' = [inorder EXCEPT ![q] = Append(@, e)]
            /\ UNCHANGED <<commands, new_commands, last_barrier>>
       ELSE /\ commands' = [commands EXCEPT ![q] = @ \cup {e}]
            /\ new_commands' = [new_commands EXCEPT ![q] = Append(@, e)]
            /\ last_barrier' = IF Command[e].barrier
                               THEN [last_barrier EXCEPT ![q] = e]
                               ELSE last_barrier
            /\ UNCHANGED inorder
    /\ IF Updates(e) THEN StartRound /\ UNCHANGED signalled
                     ELSE signalled' = TRUE /\ UNCHANGED control
    /\ UNCHANGED <<op, on_doq, popped, submitted, completed, device>>

----------------------------------------------------------------------------
(* The update: rounds over the queues until nothing changes.               *)
(* A thread in clWaitForEvents, clFinish or clFlush wakes up.              *)
Wake ==
    /\ at = "asleep" /\ signalled
    /\ signalled' = FALSE
    /\ StartRound
    /\ UNCHANGED <<objects, queues, device, follows>>

(* clSetUserEventStatus, which goes on with acl_idle_update.               *)
SetUserEventStatus(e, s) ==
    /\ at = "asleep" /\ life[e] = "live" /\ Command[e].kind = "user" /\ ~Done(e)
    /\ held[e]
    /\ status' = [status EXCEPT ![e] = s]
    /\ completed' = CompletedAfter(e, s)
    /\ signalled' = TRUE
    /\ StartRound
    /\ UNCHANGED <<life, deps, op, on_doq, attached, held, popped, num_commands,
                   submitted, inorder, commands, new_commands, last_barrier,
                   device, follows>>

(* The order of the queues in a round depends on who had the last update;  *)
(* acl_update_queue passes over a queue without commands.                  *)
UpdateQueue(q) ==
    /\ at = "round" /\ q \in todo /\ num_commands[q] # 0
    /\ at' = "nudge" /\ todo' = todo \ {q} /\ cur' = q
    /\ UNCHANGED <<objects, queues, device, signalled, idx, updates, single,
                   follows>>

AnotherRound == updates /\ ~single

EndRound ==
    /\ at = "round" /\ \A q \in todo : num_commands[q] = 0
    /\ at' = IF AnotherRound THEN "round" ELSE "asleep"
    /\ todo' = IF AnotherRound THEN Queues ELSE {}
    /\ updates' = FALSE /\ single' = FALSE
    /\ UNCHANGED <<objects, queues, device, signalled, cur, idx, follows>>

(* acl_maybe_delete_event: an event that is done and that no dependency    *)
(* arc touches leaves its queue, and is deleted unless the host holds it.  *)
Alive(e) == ~Done(e) \/ deps[e] # {} \/ Dependents(e) # {}
LifeAfter(e) == IF held[e] THEN life ELSE [life EXCEPT ![e] = "freed"]

(* clReleaseEvent: the last reference; an event that was popped is deleted *)
(* here, otherwise its queue is updated once.                              *)
Release(e) ==
    /\ at = "asleep" /\ life[e] = "live" /\ held[e] /\ e \notin Kept
    /\ held' = [held EXCEPT ![e] = FALSE]
    /\ IF popped[e]
       THEN /\ life' = IF Alive(e) THEN life ELSE [life EXCEPT ![e] = "freed"]
            /\ attached' = IF Alive(e) THEN attached
                           ELSE [attached EXCEPT ![e] = FALSE]
            /\ UNCHANGED control
       ELSE /\ at' = "round" /\ todo' = {QueueOf(e)} /\ single' = TRUE
            /\ updates' = FALSE
            /\ UNCHANGED <<life, attached, cur, idx>>
    /\ UNCHANGED <<status, deps, op, on_doq, popped, queues, device, signalled,
                   follows>>

----------------------------------------------------------------------------
(* The device, seen through the update of the device operation queue,      *)
(* which ends only when nothing more can be taken or started.              *)
InUse == {e \in Commands : op[e] \in RUNNING..QUEUED}
OnDevice == {e \in Commands : op[e] \in {SUBMITTED, RUNNING}}
AtHead(e) == IsKernel(e) => Head(ring[Command[e].accel]) = e

(* LaunchFifo: a launch that fills its accelerator may be announced as      *)
(* running while those before it have still to run.                        *)
RingFull(a) == Len(ring[a]) >= RingSize[a]
FillsRing(e) ==
    /\ IsKernel(e) /\ RingFull(Command[e].accel)
    /\ Last(ring[Command[e].accel]) = e

Updating == at \in {"nudge", "submit"}
Settled ==
    \A e \in InUse :
        /\ op[e] = QUEUED => OnDevice # {}
        /\ op[e] = SUBMITTED => ~AtHead(e)
        /\ op[e] = RUNNING => e \notin ended

Start(e) ==
    /\ Updating /\ op[e] = QUEUED
    /\ IsKernel(e) => ~RingFull(Command[e].accel)
    /\ op' = [op EXCEPT ![e] = SUBMITTED]
    /\ status' = [status EXCEPT ![e] = SUBMITTED]
    /\ ring' = IF IsKernel(e) THEN [ring EXCEPT ![Command[e].accel] = Append(@, e)]
                              ELSE ring
    /\ UNCHANGED <<life, deps, on_doq, attached, held, popped, queues, ended,
                   signalled, control, follows>>

Run(e) ==
    /\ Updating /\ op[e] = SUBMITTED
    /\ AtHead(e) \/ FillsRing(e)
    /\ op' = [op EXCEPT ![e] = RUNNING]
    /\ status' = [status EXCEPT ![e] = RUNNING]
    /\ UNCHANGED <<life, deps, on_doq, attached, held, popped, queues, device,
                   signalled, control, follows>>

End(e) ==
    /\ Updating /\ op[e] = RUNNING /\ e \in ended
    /\ op' = [op EXCEPT ![e] = COMPLETE]
    /\ \E s \in IF Command[e].mayFail THEN {COMPLETE, FAILED} ELSE {COMPLETE} :
         /\ status' = [status EXCEPT ![e] = s]
         /\ completed' = CompletedAfter(e, s)
    /\ ring' = IF IsKernel(e) THEN [ring EXCEPT ![Command[e].accel] = Tail(@)]
                              ELSE ring
    /\ submitted' = SubmittedAfter(e)
    /\ ended' = ended \ {e}
    /\ UNCHANGED <<life, deps, on_doq, attached, held, popped, num_commands,
                   inorder, commands, new_commands, last_barrier, signalled,
                   control, follows>>

(* The interrupt that reports the end of a command; an accelerator ends    *)
(* its oldest launch first.                                                *)
Interrupt(e) ==
    /\ op[e] = RUNNING /\ AtHead(e) /\ e \notin ended
    /\ ended' = ended \cup {e}
    /\ signalled' = TRUE
    /\ UNCHANGED <<objects, queues, ring, control, follows>>

Nudged ==
    /\ at = "nudge" /\ Settled
    /\ at' = "pop"
    /\ UNCHANGED <<objects, queues, device, signalled, todo, cur, idx, updates,
                   single, follows>>

----------------------------------------------------------------------------
(* Completed events leave their queue and free what depends on them.       *)
WithoutParent(e) == [d \in Commands |-> deps[d] \ {e}]

(* A failing user event terminates what depends on it. An in-order queue   *)
(* takes that for the end of a device operation if the status is INVALID.  *)
Terminated(e) ==
    IF Command[e].kind = "user" /\ status[e] < 0 THEN Dependents(e) ELSE {}

(* acl_set_execution_status has pushed a terminated event on the list of   *)
(* its queue before acl_update_ooo_queue pushes it.                        *)
TerminatedOn(q, e) ==
    LET s == SetToSeq({d \in Terminated(e) : QueueOf(d) = q}) IN
    [k \in 1..2 * Len(s) |-> s[(k + 1) \div 2]]

BarrierKept(e) == last_barrier  \* a slip
BarrierAfter(e) ==
    [last_barrier EXCEPT ![QueueOf(e)] = IF @ = e THEN None ELSE @]

(* acl_remove_first_event_dependency asserts depend_on.empty().            *)
PopFails ==
    /\ at = "pop" /\ cur \notin InOrder /\ completed[cur] # <<>>
    /\ LET e == Head(completed[cur]) IN Dependents(e) # {} /\ deps[e] # {}

PopCompleted ==
    LET q == cur
        e == Head(completed[q])
        gone == life[e] = "live" /\ deps[e] = {} IN
    /\ at = "pop" /\ q \notin InOrder /\ completed[q] # <<>>
    /\ ~PopFails
    /\ deps' = WithoutParent(e)
    /\ status' = [d \in Commands |->
                    IF d \in Terminated(e) THEN status[e] ELSE status[d]]
    /\ completed' =
         [r \in Queues |->
            IF r \in InOrder THEN <<>>
            ELSE (IF r = q THEN Tail(completed[r]) ELSE completed[r])
                   \o TerminatedOn(r, e)]
    /\ submitted' =
         [r \in Queues |->
            IF r \in InOrder /\ status[e] = INVALID
            THEN submitted[r]
                   - Cardinality({d \in Terminated(e) : QueueOf(d) = r})
            ELSE submitted[r]]
    /\ signalled' = (signalled \/ Terminated(e) # {})
    /\ last_barrier' = BarrierAfter(e)
    /\ life' = IF gone THEN LifeAfter(e) ELSE life
    /\ attached' = IF gone THEN [attached EXCEPT ![e] = FALSE] ELSE attached
    /\ commands' = [commands EXCEPT ![q] = @ \ {e}]
    /\ popped' = [popped EXCEPT ![e] = TRUE]
    /\ num_commands' = [num_commands EXCEPT ![q] = @ - 1]
    /\ updates' = TRUE
    /\ UNCHANGED <<op, on_doq, held, inorder, new_commands, device, at, todo,
                   cur, idx, single, follows>>

DoneAt(q, k) == k <= Len(inorder[q]) /\ Done(inorder[q][k])

PopInOrder ==
    LET q == cur
        e == inorder[q][idx] IN
    /\ at = "pop" /\ q \in InOrder /\ DoneAt(q, idx)
    /\ deps' = WithoutParent(e)
    /\ IF deps[e] = {}
       THEN /\ life' = LifeAfter(e)
            /\ attached' = [attached EXCEPT ![e] = FALSE]
            /\ popped' = [popped EXCEPT ![e] = TRUE]
            /\ inorder' = [inorder EXCEPT ![q] = RemoveAt(@, idx)]
            /\ num_commands' = [num_commands EXCEPT ![q] = @ - 1]
            /\ updates' = TRUE /\ UNCHANGED idx
       ELSE /\ idx' = idx + 1
            /\ updates' = (updates \/ Dependents(e) # {})
            /\ UNCHANGED <<life, attached, popped, inorder, num_commands>>
    /\ UNCHANGED <<status, op, on_doq, held, submitted, commands, new_commands,
                   completed, last_barrier, device, signalled, at, todo, cur,
                   single, follows>>

Popped ==
    /\ at = "pop"
    /\ IF cur \in InOrder THEN ~DoneAt(cur, idx) ELSE completed[cur] = <<>>
    /\ at' = "submit"
    /\ UNCHANGED <<objects, queues, device, signalled, todo, cur, idx, updates,
                   single, follows>>

----------------------------------------------------------------------------
(* acl_submit_command.  A marker completes at once; anything else needs    *)
(* room in the device operation queue or stays queued; a command that is   *)
(* not queued any more is in error.                                        *)
Room == Cardinality(InUse) < Slots
SubmitSucceeds(e) == status[e] # QUEUED \/ Command[e].kind = "sync" \/ Room

NotCounted(e) == submitted  \* a slip
CountSubmitted(e) ==
    IF QueueOf(e) \in InOrder THEN [submitted EXCEPT ![QueueOf(e)] = @ + 1]
                              ELSE submitted

SubmitCommand(e) ==
    /\ IF status[e] = QUEUED /\ Command[e].kind # "sync"
       THEN /\ op' = [op EXCEPT ![e] = QUEUED]
            /\ submitted' = CountSubmitted(e)
            /\ UNCHANGED <<status, completed, signalled>>
       ELSE LET s == IF status[e] = QUEUED THEN COMPLETE ELSE FAILED IN
            /\ status' = [status EXCEPT ![e] = s]
            /\ completed' = CompletedAfter(e, s)
            /\ signalled' = TRUE
            /\ UNCHANGED <<op, submitted>>
    /\ on_doq' = IF status[e] = QUEUED THEN [on_doq EXCEPT ![e] = TRUE] ELSE on_doq
    /\ UNCHANGED <<life, attached, held, popped, num_commands, last_barrier>>

SameKernel(e, f) ==
    IsKernel(e) /\ IsKernel(f) /\ Command[e].accel = Command[f].accel
Launched(e) == op[e] # None /\ op[e] <= SUBMITTED

(* acl_fast_relaunch_kernel: behind its only parent, a launch of the same  *)
(* kernel that has reached the device.                                     *)
CanFastRelaunch(e) ==
    \E p \in Commands :
        /\ deps[e] = {p} /\ QueueOf(p) \notin InOrder
        /\ SameKernel(p, e)
        /\ status[p] <= SUBMITTED /\ Launched(p)
        /\ ~Command[e].subbuffers

ReadyOutOfOrder(e) == deps[e] = {} \/ CanFastRelaunch(e)

SubmitOutOfOrder ==
    LET q == cur
        e == new_commands[q][idx] IN
    /\ at = "submit" /\ q \notin InOrder \cup {UserQueue}
    /\ idx <= Len(new_commands[q])
    /\ IF ReadyOutOfOrder(e) /\ SubmitSucceeds(e)
       THEN /\ status[e] # QUEUED => attached[e]
            /\ SubmitCommand(e)
            /\ deps' = [deps EXCEPT ![e] = {}]
            /\ new_commands' = [new_commands EXCEPT ![q] = RemoveAt(@, idx)]
            /\ updates' = TRUE /\ UNCHANGED idx
       ELSE /\ idx' = idx + 1
            /\ UNCHANGED <<objects, num_commands, submitted, completed,
                           last_barrier, new_commands, signalled, updates>>
    /\ UNCHANGED <<inorder, commands, device, at, todo, cur, single, follows>>

(* The queue of user events submits nothing and only forgets them. *)
ForgetUserEvents ==
    /\ at = "submit" /\ cur = UserQueue /\ new_commands[cur] # <<>>
    /\ new_commands' = [new_commands EXCEPT ![cur] = <<>>]
    /\ updates' = TRUE
    /\ UNCHANGED <<objects, num_commands, submitted, inorder, commands,
                   completed, last_barrier, device, signalled, at, todo, cur,
                   idx, single, follows>>

(* In an in-order queue a kernel may follow another launch of itself that  *)
(* has reached the device, and only that one is looked at; anything else   *)
(* waits until nothing of the queue is submitted.                          *)
ParentsLaunched(e) == \A p \in deps[e] : SameKernel(p, e) /\ Launched(p)
SubbuffersInTheWay(e) ==
    Command[e].subbuffers /\ (deps[e] # {} \/ submitted[QueueOf(e)] # 0)

(* Slip: a kernel follows any kernel. *)
BehindAnyKernel(k) ==
    LET e == inorder[cur][k] IN
    /\ IsKernel(e) /\ ParentsLaunched(e) /\ ~SubbuffersInTheWay(e)
    /\ submitted[cur] # 0 => k > 1 /\ IsKernel(inorder[cur][k - 1])

ReadyInOrder(k) ==
    LET e == inorder[cur][k] IN
    IF IsKernel(e)
    THEN /\ ParentsLaunched(e) /\ ~SubbuffersInTheWay(e)
         /\ submitted[cur] # 0 => /\ k > 1
                                  /\ SameKernel(inorder[cur][k - 1], e)
                                  /\ Launched(inorder[cur][k - 1])
    ELSE submitted[cur] = 0 /\ deps[e] = {}

(* The scan goes on behind a kernel, even one for which there was no room. *)
SubmitInOrder ==
    LET q == cur
        e == inorder[q][idx] IN
    /\ at = "submit" /\ q \in InOrder /\ idx <= Len(inorder[q])
    /\ IF status[e] # QUEUED \/ on_doq[e]
       THEN /\ idx' = idx + 1
            /\ UNCHANGED <<objects, queues, signalled, updates>>
       ELSE /\ idx' = IF ReadyInOrder(idx) /\ IsKernel(e) THEN idx + 1
                      ELSE Len(inorder[q]) + 1
            /\ IF ReadyInOrder(idx) /\ SubmitSucceeds(e)
               THEN /\ SubmitCommand(e)
                    /\ updates' = TRUE
                    /\ UNCHANGED <<deps, inorder, commands, new_commands>>
               ELSE UNCHANGED <<objects, queues, signalled, updates>>
    /\ UNCHANGED <<device, at, todo, cur, single, follows>>

(* What the submissions take for granted: a command that is in error still *)
(* has its queue (assert in acl_set_execution_status), and the launch a    *)
(* kernel is to follow exists and has a device operation.                  *)
NoQueue(e) == deps[e] = {} /\ status[e] # QUEUED /\ ~attached[e]
NoParentOp(e) ==
    \E p \in Commands :
        /\ deps[e] = {p} /\ QueueOf(p) \notin InOrder /\ IsKernel(p)
        /\ status[p] <= SUBMITTED /\ op[p] = None
NoLaunchBefore(k) ==
    LET e == inorder[cur][k] IN
    /\ status[e] = QUEUED /\ ~on_doq[e] /\ IsKernel(e)
    /\ ParentsLaunched(e) /\ ~SubbuffersInTheWay(e)
    /\ submitted[cur] # 0
    /\ k > 1 => SameKernel(inorder[cur][k - 1], e) /\ op[inorder[cur][k - 1]] = None

SubmitFails ==
    /\ at = "submit" /\ cur # UserQueue
    /\ IF cur \in InOrder
       THEN idx <= Len(inorder[cur]) /\ NoLaunchBefore(idx)
       ELSE /\ idx <= Len(new_commands[cur])
            /\ NoQueue(new_commands[cur][idx]) \/ NoParentOp(new_commands[cur][idx])

Submitted ==
    /\ at = "submit" /\ Settled
    /\ idx > Len(IF cur \in InOrder THEN inorder[cur] ELSE new_commands[cur])
    /\ at' = "round" /\ cur' = UserQueue /\ idx' = 1
    /\ UNCHANGED <<objects, queues, device, signalled, todo, updates, single,
                   follows>>

----------------------------------------------------------------------------
Update ==
    \/ \E q \in Queues : UpdateQueue(q)
    \/ EndRound \/ Nudged
    \/ PopCompleted \/ PopInOrder \/ Popped
    \/ SubmitOutOfOrder \/ ForgetUserEvents \/ SubmitInOrder \/ Submitted

Host(e) ==
    \/ Enqueue(e) \/ Release(e)
    \/ \E s \in UserStatuses : SetUserEventStatus(e, s)

Device == \E e \in Commands : Start(e) \/ Run(e) \/ End(e)

Next ==
    \/ Wake \/ Update
    \/ Device
    \/ \E e \in Commands : Host(e) \/ Interrupt(e)

Spec == Init /\ [][Next]_vars

(* A thread waits in clFinish or clWaitForEvents and is woken by a signal  *)
(* (the liveness of CondVar); the update runs to its end; the device       *)
(* queue, and then the device, get to every command (the liveness of       *)
(* DeviceOpQueue).                                                         *)
FairSpec ==
    /\ Spec
    /\ SF_vars(Wake)
    /\ WF_vars(Update)
    /\ SF_vars(Device)
    /\ WF_vars(\E e \in Commands : Interrupt(e))

----------------------------------------------------------------------------
(* A command does not execute before everything it must not overtake has   *)
(* ended: its wait list, the commands before it in an in-order queue, the  *)
(* commands a marker stands for.  A transfer executes once it is with the  *)
(* device, a kernel once the launches before it on its accelerator have    *)
(* ended: a fast relaunch reaches the ring earlier, and may be announced   *)
(* as running earlier.                                                     *)
Before(e) ==
    LET r == ring[Command[e].accel] IN
    {r[j] : j \in {n \in DOMAIN r : \E k \in DOMAIN r : n < k /\ r[k] = e}}
Executes(e) ==
    /\ op[e] \in {SUBMITTED, RUNNING}
    /\ IsKernel(e) => Before(e) \subseteq ended
Begins(e) ==
    \/ ~Executes(e) /\ Executes(e)'
    \/ Command[e].kind = "sync" /\ status[e] = QUEUED /\ status'[e] = COMPLETE
Over(e) == Done(e) \/ e \in ended
StartsInOrder ==
    [][\A e \in Commands : Begins(e) => \A f \in follows'[e] : Over(f)']_vars

(* num_commands is "Number of commands in the queue": the update passes    *)
(* over a queue that counts none, so whatever it miscounts stays forever.  *)
(* Between updates the lists of a queue hold the events that were not      *)
(* popped, once each.                                                      *)
BetweenUpdates == at \in {"asleep", "round", "nudge"}
CountsItsCommands ==
    BetweenUpdates => \A q \in Queues :
        /\ num_commands[q] = Cardinality(Unpopped(q))
        /\ q \in InOrder => /\ ToSet(inorder[q]) = Unpopped(q)
                            /\ IsInjective(inorder[q])
        /\ q \notin InOrder =>
             /\ commands[q] = Unpopped(q)
             /\ ToSet(new_commands[q]) \cup ToSet(completed[q]) \subseteq commands[q]
             /\ IsInjective(new_commands[q]) /\ IsInjective(completed[q])

(* num_commands_submitted is the "Number of events submitted to            *)
(* device_op_queue" that are not complete: an in-order queue submits       *)
(* nothing but a relaunch while it is not zero.                            *)
CountsItsSubmissions ==
    \A q \in InOrder :
        submitted[q] = Cardinality({e \in Unpopped(q) : on_doq[e] /\ ~Done(e)})

(* An event that went back to the context's pool can be used for another   *)
(* command: nothing depends on it or is depended on by it, no set of its   *)
(* queue and no barrier names it, and no device operation works for it.    *)
(* (That the other lists hold only live events is in CountsItsCommands.)   *)
FreedIsForgotten ==
    \A e \in Commands : life[e] = "freed" =>
        /\ deps[e] = {} /\ Dependents(e) = {}
        /\ \A q \in Queues : e \notin commands[q] /\ last_barrier[q] # e
        /\ e \notin InUse

(* When the threads go back to sleep and no signal is pending, nothing is  *)
(* left to do: no completed event in a queue, no command that could be     *)
(* submitted.                                                              *)
NothingLeftToDo ==
    at = "asleep" /\ ~signalled =>
        \A q \in Queues :
            /\ completed[q] = <<>>
            /\ q \in InOrder /\ DoneAt(q, 1) => deps[inorder[q][1]] # {}
            /\ q \notin InOrder \cup {UserQueue} =>
                 \A e \in ToSet(new_commands[q]) : deps[e] # {} \/ ~Room
            /\ q \in InOrder =>
                 \A e \in Unpopped(q) :
                     /\ status[e] = QUEUED /\ ~on_doq[e] /\ deps[e] = {}
                     /\ \A f \in Unpopped(q) \ {e} : e \in follows[f]
                     => ~Room

(* The runtime's own assertions hold, and it follows no null pointer. *)
AssertionsHold == ~PopFails /\ ~SubmitFails

(* If the host gives every user event a status, every command it enqueued  *)
(* completes and leaves its queue (a command leaves it once, so in the end *)
(* none is left).                                                          *)
UserEvents == {e \in Commands : Command[e].kind = "user"}
CommandsFinish ==
    (\A u \in UserEvents : []<>(life[u] # "live" \/ Done(u)))
        => <>[](\A e \in Commands : life[e] = "live" => popped[e])
=============================================================================
