--------------------------- MODULE EventCallbacks ---------------------------
(***************************************************************************)
(* Callbacks of events (src/acl_event.cpp) and the updates of the queues   *)
(* that call them (src/acl_command_queue.cpp, src/acl_context.cpp).        *)
(*                                                                         *)
(* acl_event_callback gives the global lock up around every function of    *)
(* the user.  While the function runs, other threads, and the function     *)
(* itself, may call the runtime again: register callbacks, release events, *)
(* complete user events and update the very queue whose update is waiting  *)
(* for the function to return.  Each thread is a stack of activations: of  *)
(* acl_update_context, of acl_set_execution_status and of                  *)
(* acl_event_callback.  A thread has the lock while the top of its stack   *)
(* is none of the user's functions.                                        *)
(*                                                                         *)
(* One context with one in-order queue, whose commands are transfers and   *)
(* markers, and the out-of-order queue of the user events.  Transfers end  *)
(* on the device, of which the model keeps what                            *)
(* acl_post_status_to_owning_event writes.                                 *)
(***************************************************************************)
EXTENDS Integers, Sequences, SequencesExt, FiniteSets

CONSTANTS
    Threads,
    Program,        \* the commands, in the order they are enqueued
    Markers,        \* those that end at once, without the device
    UserEvents,
    Waits,          \* the user events that each command waits for
    Callbacks,      \* a callback and the node of the list that holds it:
    Callback,       \*   its event and the status it is registered for
    UsesMemory,     \* the commands that use a certain USM allocation
    Hosts,          \* what the host may do: see HostType
    None

HostType ==
    [threads : SUBSET Threads,
     depth : Nat,            \* calls of the runtime that may be nested
     callbacks : SUBSET Callbacks,
     commands : SUBSET Range(Program),
     frees : BOOLEAN,        \* it calls clMemBlockingFreeINTEL
     waits : BOOLEAN]        \* it names no event while a function that was
                             \* registered on the event runs

QUEUED == 3  SUBMITTED == 2  RUNNING == 1  COMPLETE == 0
FAILED == -1  \* what a device operation reports

Commands == Range(Program)
Events == Commands \cup UserEvents
Queues == {"inorder", "user"}
QueueOf(e) == IF e \in UserEvents THEN "user" ELSE "inorder"

ASSUME ProgramAssumption ==
    /\ IsInjective(Program) /\ Markers \subseteq Commands
    /\ UserEvents \cap Commands = {}
    /\ UsesMemory \subseteq Commands
    /\ Waits \in [Commands -> SUBSET UserEvents]
ASSUME CallbackAssumption ==
    /\ Callback \in [Callbacks ->
                       [event : Events, status : COMPLETE..SUBMITTED]]
    /\ Hosts \subseteq HostType
ASSUME NoneAssumption == None \notin Callbacks \cup Events

VARIABLES
    host,           \* what this host does, fixed
    life,           \* "new", "used" or, back in free_events, "free"
    refs,           \* the reference count
    held,           \* the host has not released the event
    status,         \* execution_status
    on_device,      \* is_on_device_op_queue
    attached,       \* command_queue is not NULL
    not_popped,
    deps,           \* depend_on
    defer_removal,
    callback_list,  \* its first node, for each event
    next,           \* of each node
    node,           \* "new", "listed" or "freed"
    called,         \* history: how often each callback was called
    inorder,        \* inorder_commands
    completed,      \* completed_commands of the user events' queue
    num_commands, submitted,   \* num_commands_submitted of the in-order queue
    waiting_for_events,        \* of the in-order queue
    stack           \* the activations of each thread

objects == <<life, refs, held, status, on_device, attached, not_popped, deps,
             defer_removal>>
lists == <<callback_list, next, node, called>>
queues == <<inorder, completed, num_commands, submitted, waiting_for_events>>
vars == <<host, objects, lists, queues, stack>>

Statuses == FAILED..QUEUED

UpdateFrame ==
    [do : {"update"}, at : {"round", "nudge", "pop", "popped", "submit", "submitted"},
     todo : SUBSET Queues,  \* queues left in this round
     cur : Queues, idx : Nat \ {0}, event : Events \cup {None},
     updates : BOOLEAN, single : BOOLEAN]  \* acl_update_queue alone
SetFrame == [do : {"set"}, event : Events, status : Statuses, notified : BOOLEAN]
WalkFrame ==
    [do : {"walk", "call"}, event : Events, status : Statuses,
     pre : Callbacks \cup {None}, cur : Callbacks \cup {None}, release : Nat]
FreeFrame ==
    [do : {"free", "sleep"}, at : {"check", "wait", "removal"}, it : Nat \ {0}]

TypeOK ==
    /\ host \in Hosts
    /\ life \in [Events -> {"new", "used", "free"}]
    /\ refs \in [Events -> Nat] /\ held \in [Events -> BOOLEAN]
    /\ status \in [Events -> Statuses] /\ on_device \in [Events -> BOOLEAN]
    /\ attached \in [Events -> BOOLEAN] /\ not_popped \in [Events -> BOOLEAN]
    /\ deps \in [Events -> SUBSET UserEvents]
    /\ defer_removal \in [Events -> BOOLEAN]
    /\ callback_list \in [Events -> Callbacks \cup {None}]
    /\ next \in [Callbacks -> Callbacks \cup {None}]
    /\ node \in [Callbacks -> {"new", "listed", "freed"}]
    /\ called \in [Callbacks -> Nat]
    /\ inorder \in Seq(Commands) /\ completed \in Seq(UserEvents)
    /\ num_commands \in [Queues -> Int] /\ submitted \in Int
    /\ waiting_for_events \in BOOLEAN
    /\ stack \in [Threads -> Seq(UpdateFrame \cup SetFrame
                                 \cup WalkFrame \cup FreeFrame)]

(* The user events exist, submitted; no command is enqueued yet. *)
Init ==
    /\ host \in Hosts
    /\ life = [e \in Events |-> IF e \in UserEvents THEN "used" ELSE "new"]
    /\ refs = [e \in Events |-> IF e \in UserEvents THEN 1 ELSE 0]
    /\ held = [e \in Events |-> e \in UserEvents]
    /\ status = [e \in Events |->
                   IF e \in UserEvents THEN SUBMITTED ELSE QUEUED]
    /\ on_device = [e \in Events |-> FALSE]
    /\ attached = [e \in Events |-> e \in UserEvents]
    /\ not_popped = [e \in Events |-> e \in UserEvents]
    /\ deps = [e \in Events |-> {}]
    /\ defer_removal = [e \in Events |-> FALSE]
    /\ callback_list = [e \in Events |-> None]
    /\ next = [c \in Callbacks |-> None]
    /\ node = [c \in Callbacks |-> "new"]
    /\ called = [c \in Callbacks |-> 0]
    /\ inorder = <<>> /\ completed = <<>>
    /\ num_commands = [q \in Queues |-> IF q = "user"
                                        THEN Cardinality(UserEvents) ELSE 0]
    /\ submitted = 0 /\ waiting_for_events = FALSE
    /\ stack = [t \in Threads |-> <<>>]

----------------------------------------------------------------------------
(* Activations                                                             *)

Done(e) == status[e] <= COMPLETE
Top(t) == Last(stack[t])
Doing(t, what) == stack[t] # <<>> /\ Top(t).do = what
AtUser(t) == stack[t] = <<>> \/ Doing(t, "call")
LockFree == \A t \in Threads : AtUser(t) \/ Doing(t, "sleep")

Become(t, f) == stack' = [stack EXCEPT ![t] = Front(@) \o f]
Call(t, f) == stack' = [stack EXCEPT ![t] = @ \o f]
Return(t) == Become(t, <<>>)

(* acl_update_context; acl_update_queue of the one queue q.                *)
UpdateOf(qs, q, single) ==
    [do |-> "update", at |-> "round", todo |-> qs, cur |-> q, idx |-> 1,
     event |-> None, updates |-> FALSE, single |-> single]
IdleUpdate == UpdateOf(Queues, "inorder", FALSE)
SetStatus(e, s) ==
    [do |-> "set", event |-> e, status |-> s, notified |-> FALSE]

(* acl_event_callback(e, s), with the head of the list it reads.           *)
WalkFrom(e, s, head) ==
    [do |-> "walk", event |-> e, status |-> s, pre |-> None,
     cur |-> IF life[e] = "used" THEN head ELSE None, release |-> 0]
Walk(e, s) == WalkFrom(e, s, callback_list[e])

----------------------------------------------------------------------------
(* acl_event_callback                                                      *)

ExactStatus(f, c) == Callback[c].status = f.status  \* a slip
Matches(f, c) == f.status < 0 \/ Callback[c].status >= f.status

(* The node is unlinked and freed before the function is called.           *)
LeavesInList(f) == UNCHANGED <<callback_list, next>>  \* a slip
Unlink(f) ==
    IF f.pre = None
    THEN callback_list' = [callback_list EXCEPT ![f.event] = next[f.cur]]
         /\ UNCHANGED next
    ELSE next' = [next EXCEPT ![f.pre] = next[f.cur]]
         /\ UNCHANGED callback_list
CallCallback(t) ==
    /\ Doing(t, "walk")
    /\ LET f == Top(t) IN
       /\ f.cur # None /\ Matches(f, f.cur)
       /\ Unlink(f)
       /\ node' = [node EXCEPT ![f.cur] = "freed"]
       /\ called' = [called EXCEPT ![f.cur] = @ + 1]
       /\ Become(t, <<[f EXCEPT !.do = "call", !.cur = next[f.cur],
                                !.release = @ + 1]>>)
    /\ UNCHANGED <<host, objects, queues>>

SkipCallback(t) ==
    /\ Doing(t, "walk")
    /\ LET f == Top(t) IN
       /\ f.cur # None /\ ~Matches(f, f.cur)
       /\ Become(t, <<[f EXCEPT !.pre = f.cur, !.cur = next[f.cur]]>>)
    /\ UNCHANGED <<host, objects, lists, queues>>

CallbackReturns(t) ==
    /\ LockFree /\ Doing(t, "call")
    /\ Become(t, <<[Top(t) EXCEPT !.do = "walk"]>>)
    /\ UNCHANGED <<host, objects, lists, queues>>

(* The references of the callbacks are released after all of them.         *)
EndWalk(t) ==
    /\ Doing(t, "walk") /\ Top(t).cur = None
    /\ refs' = [refs EXCEPT ![Top(t).event] = @ - Top(t).release]
    /\ Return(t)
    /\ UNCHANGED <<host, life, held, status, on_device, attached, not_popped,
                   deps, defer_removal, lists, queues>>

----------------------------------------------------------------------------
(* acl_set_execution_status of an event without device operation           *)

(* The callbacks run before the status is stored.                          *)
Notify(t) ==
    /\ Doing(t, "set") /\ ~Top(t).notified
    /\ LET f == Top(t) IN
         Become(t, <<[f EXCEPT !.notified = TRUE], Walk(f.event, f.status)>>)
    /\ UNCHANGED <<host, objects, lists, queues>>

(* A marker takes all statuses in turn; clSetUserEventStatus ends in       *)
(* acl_idle_update.                                                        *)
Store(t) ==
    /\ Doing(t, "set") /\ Top(t).notified
    /\ LET f == Top(t)
           e == f.event
           user == e \in UserEvents
           complete == f.status = COMPLETE
       IN /\ complete => attached[e]  \* or the process aborts
          /\ status' = [status EXCEPT ![e] = f.status]
          /\ completed' = IF complete /\ user THEN Append(completed, e)
                          ELSE completed
          /\ submitted' = IF complete /\ ~user THEN submitted - 1 ELSE submitted
          /\ Become(t, CASE ~complete -> <<SetStatus(e, f.status - 1)>>
                         [] complete /\ user -> <<IdleUpdate>>
                         [] OTHER -> <<>>)
    /\ UNCHANGED <<host, life, refs, held, on_device, attached, not_popped, deps,
                   defer_removal, lists, inorder, num_commands,
                   waiting_for_events>>

----------------------------------------------------------------------------
(* acl_update_context and acl_update_queue                                 *)

At(t, where) == Doing(t, "update") /\ Top(t).at = where
InQueue(t, where, q) == At(t, where) /\ Top(t).cur = q

(* acl_update_queue ignores an empty queue.                                *)
NextQueue(t) ==
    /\ At(t, "round")
    /\ \E q \in Top(t).todo :
         Become(t, <<[Top(t) EXCEPT
                        !.todo = @ \ {q}, !.cur = q, !.idx = 1,
                        !.at = IF num_commands[q] = 0 THEN "round" ELSE "nudge"]>>)
    /\ UNCHANGED <<host, objects, lists, queues>>

EndRound(t) ==
    /\ At(t, "round") /\ Top(t).todo = {}
    /\ LET f == Top(t) IN
         Become(t, IF f.updates /\ ~f.single
                   THEN <<[f EXCEPT !.todo = Queues, !.updates = FALSE]>>
                   ELSE <<>>)
    /\ UNCHANGED <<host, objects, lists, queues>>

(* acl_update_device_op_queue posts how far the operations of the events   *)
(* have come; no callback is called there.                                 *)
OnDevice == {e \in Commands \ Markers : on_device[e] /\ ~Done(e)
                                        /\ life[e] = "used" /\ attached[e]}
Nudge(t) ==
    /\ At(t, "nudge")
    /\ \E s \in [OnDevice -> Statuses] :
         /\ \A e \in OnDevice : s[e] <= status[e]
         /\ status' = s @@ status
         /\ submitted' = submitted
                         - Cardinality({e \in OnDevice : s[e] <= COMPLETE})
    /\ Become(t, <<[Top(t) EXCEPT !.at = "pop"]>>)
    /\ UNCHANGED <<host, life, refs, held, on_device, attached, not_popped, deps,
                   defer_removal, lists, inorder, completed, num_commands,
                   waiting_for_events>>

(* acl_maybe_delete_event(e), where Removes(e) is its result.              *)
Dependents(e) == {d \in Commands : e \in deps[d]}
Removes(e) ==
    life[e] = "used" /\ Done(e) /\ deps[e] = {} /\ Dependents(e) = {}
DeletesHeld(e) == Removes(e)  \* a slip
Deletes(e) == Removes(e) /\ refs[e] = 0
MaybeDelete(e) ==
    /\ attached' = IF Removes(e) THEN [attached EXCEPT ![e] = FALSE]
                   ELSE attached
    /\ life' = IF Deletes(e) THEN [life EXCEPT ![e] = "free"] ELSE life

(* A completed event of the in-order queue: its callbacks first.           *)
PopInOrder(t) ==
    /\ InQueue(t, "pop", "inorder")
    /\ LET f == Top(t) IN
       /\ f.idx <= Len(inorder) /\ Done(inorder[f.idx])
       /\ LET e == inorder[f.idx] IN
            Become(t, <<[f EXCEPT !.at = "popped", !.event = e],
                        Walk(e, status[e])>>)
    /\ UNCHANGED <<host, objects, lists, queues>>

(* Then it leaves the queue, unless an update that ran meanwhile has       *)
(* already popped it.                                                      *)
PopsAgain(e) == Removes(e)  \* a slip
Pops(e) == Removes(e) /\ not_popped[e]
AfterPop(f, e) ==
    [f EXCEPT !.at = "pop", !.updates = @ \/ Pops(e),
              !.idx = IF Pops(e) THEN @ ELSE @ + 1]
Erase(e, i) ==
    IF waiting_for_events
    THEN /\ defer_removal' = [defer_removal EXCEPT ![e] = TRUE]
         /\ UNCHANGED inorder
    ELSE /\ inorder' = RemoveAt(inorder, i)
         /\ UNCHANGED defer_removal
PoppedInOrder(t) ==
    /\ InQueue(t, "popped", "inorder")
    /\ LET f == Top(t)
           e == f.event
       IN /\ MaybeDelete(e)
          /\ IF Pops(e)
             THEN /\ Erase(e, f.idx)
                  /\ num_commands' = [num_commands EXCEPT !["inorder"] = @ - 1]
                  /\ not_popped' = [not_popped EXCEPT ![e] = FALSE]
             ELSE UNCHANGED <<inorder, defer_removal, num_commands, not_popped>>
          /\ Become(t, <<AfterPop(f, e)>>)
    /\ UNCHANGED <<host, refs, held, status, on_device, deps, lists, completed,
                   submitted, waiting_for_events>>

EndPops(t) ==
    /\ At(t, "pop")
    /\ LET f == Top(t) IN
         IF f.cur = "user"
         THEN completed = <<>> /\ Become(t, <<[f EXCEPT !.at = "round"]>>)
         ELSE /\ f.idx <= Len(inorder) => ~Done(inorder[f.idx])
              /\ Become(t, <<[f EXCEPT !.at = "submit"]>>)
    /\ UNCHANGED <<host, objects, lists, queues>>

(* A completed user event leaves its queue before its callbacks run.       *)
PopUser(t) ==
    /\ InQueue(t, "pop", "user") /\ completed # <<>>
    /\ LET e == Head(completed) IN
       /\ deps' = [d \in Events |-> deps[d] \ {e}]
       /\ Become(t, <<[Top(t) EXCEPT !.at = "popped", !.event = e],
                      Walk(e, status[e])>>)
    /\ completed' = Tail(completed)
    /\ UNCHANGED <<host, life, refs, held, status, on_device, attached,
                   not_popped, defer_removal, lists, inorder, num_commands,
                   submitted, waiting_for_events>>
PoppedUser(t) ==
    /\ InQueue(t, "popped", "user")
    /\ LET e == Top(t).event IN
       /\ MaybeDelete(e)
       /\ not_popped' = [not_popped EXCEPT ![e] = FALSE]
    /\ num_commands' = [num_commands EXCEPT !["user"] = @ - 1]
    /\ Become(t, <<[Top(t) EXCEPT !.at = "pop", !.updates = TRUE]>>)
    /\ UNCHANGED <<host, refs, held, status, on_device, deps, defer_removal,
                   lists, inorder, completed, submitted, waiting_for_events>>

(* The first command from idx on that is not with the device yet.          *)
Unsubmitted(i) ==
    {j \in i..Len(inorder) : status[inorder[j]] = QUEUED
                             /\ ~on_device[inorder[j]]}
Candidate(f) == inorder[Min(Unsubmitted(f.idx))]
AnyTime(f) == Unsubmitted(f.idx) # {} /\ deps[Candidate(f)] = {}  \* a slip
Submittable(f) ==
    Unsubmitted(f.idx) # {} /\ submitted = 0 /\ deps[Candidate(f)] = {}

Submit(t) ==
    /\ At(t, "submit") /\ Submittable(Top(t))
    /\ LET f == Top(t)
           e == Candidate(f)
       IN Become(t, <<[f EXCEPT !.at = "submitted", !.event = e]>>
                    \o IF e \in Markers THEN <<SetStatus(e, SUBMITTED)>> ELSE <<>>)
    /\ UNCHANGED <<host, objects, lists, queues>>
Submitted(t) ==
    /\ At(t, "submitted")
    /\ on_device' = [on_device EXCEPT ![Top(t).event] = TRUE]
    /\ submitted' = submitted + 1
    /\ Become(t, <<[Top(t) EXCEPT !.at = "round", !.updates = TRUE]>>)
    /\ UNCHANGED <<host, life, refs, held, status, attached, not_popped, deps,
                   defer_removal, lists, inorder, completed, num_commands,
                   waiting_for_events>>
NoSubmit(t) ==
    /\ At(t, "submit") /\ ~Submittable(Top(t))
    /\ Become(t, <<[Top(t) EXCEPT !.at = "round"]>>)
    /\ UNCHANGED <<host, objects, lists, queues>>

----------------------------------------------------------------------------
(* What the host calls, from its threads and from inside its callbacks     *)

Running(e, what) == \E t \in Threads : \E i \in 1..Len(stack[t]) :
    stack[t][i].do = what /\ stack[t][i].event = e
CanCall(t) ==
    /\ t \in host.threads /\ LockFree /\ AtUser(t)
    /\ Len(SelectSeq(stack[t], LAMBDA f : f.do = "call")) < host.depth
CanName(t, e) ==
    /\ CanCall(t) /\ held[e] /\ life[e] = "used"
    /\ host.waits => ~Running(e, "call")

(* An enqueue ends in acl_idle_update, that of a marker does not.  The     *)
(* host has a reference to each event the command waits for.               *)
Enqueue(t) ==
    /\ CanCall(t)
    /\ \E i \in 1..Len(Program) :
         LET e == Program[i] IN
         /\ e \in host.commands /\ life[e] = "new"
         /\ \A j \in 1..i-1 :
              Program[j] \in host.commands => life[Program[j]] # "new"
         /\ \A u \in Waits[e] : held[u]
         /\ life' = [life EXCEPT ![e] = "used"]
         /\ refs' = [refs EXCEPT ![e] = 1]
         /\ held' = [held EXCEPT ![e] = TRUE]
         /\ attached' = [attached EXCEPT ![e] = TRUE]
         /\ not_popped' = [not_popped EXCEPT ![e] = TRUE]
         /\ deps' = [deps EXCEPT ![e] = {u \in Waits[e] : ~Done(u)}]
         /\ inorder' = Append(inorder, e)
         /\ Call(t, IF e \in Markers THEN <<>> ELSE <<IdleUpdate>>)
    /\ num_commands' = [num_commands EXCEPT !["inorder"] = @ + 1]
    /\ UNCHANGED <<host, status, on_device, defer_removal, lists, completed,
                   submitted, waiting_for_events>>

(* clFlush, clFinish, clWaitForEvents: one acl_idle_update.                *)
Flush(t) ==
    /\ CanCall(t)
    /\ Call(t, <<IdleUpdate>>)
    /\ UNCHANGED <<host, objects, lists, queues>>

(* clSetEventCallback: the node is prepended, and the list walked for a    *)
(* status that has already passed.                                         *)
SetEventCallback(t) ==
    \E c \in host.callbacks :
      LET e == Callback[c].event IN
      /\ CanName(t, e) /\ node[c] = "new"
      /\ next' = [next EXCEPT ![c] = callback_list[e]]
      /\ callback_list' = [callback_list EXCEPT ![e] = c]
      /\ node' = [node EXCEPT ![c] = "listed"]
      /\ refs' = [refs EXCEPT ![e] = @ + 1]
      /\ Call(t, <<WalkFrom(e, status[e], c)>>)
      /\ UNCHANGED <<host, life, held, status, on_device, attached, not_popped,
                     deps, defer_removal, called, queues>>

(* clReleaseEvent: the last reference prods the queue that owns the event, *)
(* or returns an event that has left its queue.                            *)
ReleaseEvent(t) ==
    \E e \in Events :
      /\ CanName(t, e)
      /\ held' = [held EXCEPT ![e] = FALSE]
      /\ refs' = [refs EXCEPT ![e] = @ - 1]
      /\ CASE refs[e] > 1 -> UNCHANGED <<life, attached, stack>>
           [] refs[e] = 1 /\ not_popped[e] ->
                /\ Call(t, <<UpdateOf({QueueOf(e)}, QueueOf(e), TRUE)>>)
                /\ UNCHANGED <<life, attached>>
           [] OTHER ->
                /\ attached' = IF Removes(e) THEN [attached EXCEPT ![e] = FALSE]
                               ELSE attached
                /\ life' = IF Removes(e) THEN [life EXCEPT ![e] = "free"] ELSE life
                /\ UNCHANGED stack
      /\ UNCHANGED <<host, status, on_device, not_popped, deps, defer_removal,
                     lists, queues>>

(* clSetUserEventStatus refuses an event with a final status.              *)
SetUserEventStatus(t) ==
    \E e \in UserEvents :
      /\ CanName(t, e) /\ ~Done(e)
      /\ Call(t, <<SetStatus(e, COMPLETE)>>)
      /\ UNCHANGED <<host, objects, lists, queues>>

(* clMemBlockingFreeINTEL walks the queue and waits for the commands that  *)
(* use the memory; meanwhile no update erases from the queue.  One call at *)
(* a time.                                                                 *)
BlockingFree(t) ==
    /\ CanCall(t) /\ host.frees /\ ~waiting_for_events
    /\ waiting_for_events' = TRUE
    /\ Call(t, <<[do |-> "free", at |-> "check", it |-> 1]>>)
    /\ UNCHANGED <<host, objects, lists, inorder, completed, num_commands,
                   submitted>>

Freeing(t, where) == Doing(t, "free") /\ Top(t).at = where
FreeCheck(t) ==
    /\ Freeing(t, "check") /\ Top(t).it <= Len(inorder)
    /\ LET f == Top(t)
           e == inorder[f.it]
       IN IF status[e] # COMPLETE /\ e \in UsesMemory
          THEN Become(t, <<[f EXCEPT !.at = "wait"], IdleUpdate>>)
          ELSE Become(t, <<[f EXCEPT !.at = "removal"]>>)
    /\ UNCHANGED <<host, objects, lists, queues>>
(* clWaitForEvents sleeps without the lock and updates again, until the    *)
(* event is done.                                                          *)
FreeWait(t) ==
    /\ Freeing(t, "wait")
    /\ LET f == Top(t) IN
         Become(t, <<IF Done(inorder[f.it]) THEN [f EXCEPT !.at = "removal"]
                     ELSE [f EXCEPT !.do = "sleep"]>>)
    /\ UNCHANGED <<host, objects, lists, queues>>
FreeWake(t) ==
    /\ LockFree /\ Doing(t, "sleep")
    /\ Become(t, <<[Top(t) EXCEPT !.do = "free"], IdleUpdate>>)
    /\ UNCHANGED <<host, objects, lists, queues>>
FreeRemoval(t) ==
    /\ Freeing(t, "removal")
    /\ LET f == Top(t)
           e == inorder[f.it]
       IN IF defer_removal[e]
          THEN /\ inorder' = RemoveAt(inorder, f.it)
               /\ defer_removal' = [defer_removal EXCEPT ![e] = FALSE]
               /\ Become(t, <<[f EXCEPT !.at = "check"]>>)
          ELSE /\ Become(t, <<[f EXCEPT !.at = "check", !.it = @ + 1]>>)
               /\ UNCHANGED <<inorder, defer_removal>>
    /\ UNCHANGED <<host, life, refs, held, status, on_device, attached,
                   not_popped, deps, lists, completed, num_commands, submitted,
                   waiting_for_events>>
FreeEnds(t) ==
    /\ Freeing(t, "check") /\ Top(t).it > Len(inorder)
    /\ waiting_for_events' = FALSE
    /\ Return(t)
    /\ UNCHANGED <<host, objects, lists, inorder, completed, num_commands,
                   submitted>>

----------------------------------------------------------------------------
Next == \E t \in Threads :
    \/ CallCallback(t) \/ SkipCallback(t) \/ CallbackReturns(t) \/ EndWalk(t)
    \/ Notify(t) \/ Store(t)
    \/ NextQueue(t) \/ EndRound(t) \/ Nudge(t)
    \/ PopInOrder(t) \/ PoppedInOrder(t) \/ EndPops(t)
    \/ PopUser(t) \/ PoppedUser(t)
    \/ Submit(t) \/ Submitted(t) \/ NoSubmit(t)
    \/ Enqueue(t) \/ Flush(t) \/ SetEventCallback(t) \/ ReleaseEvent(t)
    \/ SetUserEventStatus(t)
    \/ BlockingFree(t) \/ FreeCheck(t) \/ FreeWait(t) \/ FreeWake(t)
    \/ FreeRemoval(t) \/ FreeEnds(t)

Spec == Init /\ [][Next]_vars

----------------------------------------------------------------------------
(* Properties                                                              *)

Frames(kinds) == UNION {{stack[t][i] : i \in {j \in 1..Len(stack[t]) :
                                       stack[t][j].do \in kinds}} : t \in Threads}

(* Each callback is called at most once, whichever threads update, release *)
(* and complete events while callbacks run (acl_event.cpp:427-430).  True  *)
(* of hosts with one callback for each event while something else may run; *)
(* where two are registered on an event and the runtime is called again    *)
(* inside of one of them, the walk that resumes calls what the walk inside *)
(* has called and freed.                                                   *)
CalledOnce == \A c \in Callbacks : called[c] <= 1

(* A command of the in-order queue goes to the device only after every     *)
(* earlier one has ended, also when the update that submits it was         *)
(* interrupted by a callback in which the queue was updated.               *)
Started(e) == on_device[e] \/ status[e] # QUEUED
InOrder ==
    \A i, j \in 1..Len(Program) :
      /\ i < j /\ Program[i] \in host.commands
      /\ Started(Program[j])
      => Done(Program[i])

(* Outside of clMemBlockingFreeINTEL the queue holds just the commands     *)
(* that were not popped, and counts them: no command is popped twice or    *)
(* stays behind, whoever else updated the queue during its callbacks.      *)
QueueHoldsUnpopped ==
    /\ ~waiting_for_events =>
         /\ Range(inorder) = {e \in Commands : not_popped[e]}
         /\ Len(inorder) = num_commands["inorder"]
    /\ num_commands["inorder"] = Cardinality({e \in Commands : not_popped[e]})
    /\ num_commands["user"] = Cardinality({e \in UserEvents : not_popped[e]})

(* The assertions of acl_event.cpp: an event whose completion is stored is *)
(* in its queue, the callbacks' references are there to be released, an    *)
(* event that goes back to the pool has no callback left; and nobody is    *)
(* inside a callback of an event in the pool.                              *)
AssertionsHold ==
    /\ \A t \in Threads :
         /\ Doing(t, "set") /\ Top(t).notified /\ Top(t).status = COMPLETE
              => attached[Top(t).event]
         /\ Doing(t, "walk") => refs[Top(t).event] >= Top(t).release
    /\ \A e \in Events : life[e] = "free" =>
         callback_list[e] = None /\ ~Running(e, "call")

(* An event that has left its queue, that the host has released and that   *)
(* nobody is working on is back in the pool, after all its callbacks.      *)
Reclaimed ==
    (\A t \in Threads : stack[t] = <<>>) =>
      \A e \in Events : ~not_popped[e] /\ ~held[e] => life[e] # "used"
=============================================================================
