-------------------------- MODULE MCCommandQueues --------------------------
(* Commands for CommandQueues: queue i is in order, o is not, uq is         *)
(* the queue of user events.                                                *)
EXTENDS CommandQueues

CONSTANTS k1, k2, l1, t1, x1, x2, x3, m3, b3, c3, y1, y2, y3, u, w1, w2,
          i, o, uq, a, b

Plain(q, kind, waits) ==
    [queue |-> q, kind |-> kind, accel |-> None, waits |-> waits, all |-> FALSE,
     barrier |-> FALSE, subbuffers |-> FALSE, mayFail |-> FALSE]
Kernel(q, accel, waits) == [Plain(q, "kernel", waits) EXCEPT !.accel = accel]
Marker(q) == [Plain(q, "sync", {}) EXCEPT !.all = TRUE]

MCCommand ==
       k1 :> Kernel(i, a, {})
    @@ k2 :> Kernel(i, a, {})
    @@ l1 :> Kernel(i, b, {})
    @@ t1 :> [Plain(i, "transfer", {}) EXCEPT !.mayFail = TRUE]
    @@ x1 :> Kernel(o, a, {})
    @@ x2 :> Kernel(o, a, {x1})
    @@ x3 :> Plain(o, "transfer", {k1})
    @@ m3 :> Marker(o)
    @@ b3 :> [Plain(o, "sync", {x1}) EXCEPT !.barrier = TRUE]
    @@ c3 :> Plain(o, "transfer", {x1})
    @@ y1 :> Plain(o, "transfer", {})
    @@ y2 :> [Plain(o, "transfer", {}) EXCEPT !.mayFail = TRUE]
    @@ y3 :> Plain(o, "transfer", {y1})
    @@ u  :> Plain(uq, "user", {})
    @@ w1 :> Plain(i, "transfer", {u})
    @@ w2 :> Plain(o, "transfer", {u})

MCRingSize == a :> 2 @@ b :> 1  \* k1 and k2 fill the ring of a

MCUserStatuses == {COMPLETE, -5}  \* -5: an error code of the user
NotAvailable == {INVALID}         \* CL_DEVICE_NOT_AVAILABLE is -2, too

Relaunched  == {k1, k2, l1}  \* in order: two launches of a kernel, another one
OutOfOrder  == {x1, x2, m3}  \* a fast relaunch and a marker for both
Barriers    == {x1, b3, c3}  \* a command with a wait list behind a barrier
UserEvent   == {u, w1, k1}   \* a command that a user event frees or terminates
TwoQueues   == {k1, x3, t1}  \* a dependency between queues, t1 may fail
NoRoom      == {y1, y2, y3}  \* more commands than slots, one may fail

AllWorkloads ==
    {Relaunched, OutOfOrder, Barriers, UserEvent, TwoQueues, NoRoom}
TerminatedWorkloads == {{u, w2}}
BarrierWorkloads == {{x1, b3, y1}}
InOrderWorkloads == {{u, w1}}
FullWorkloads == {{y1, y2, k1, l1}}  \* k1 finds no room, l1 does
=============================================================================
