-------------------------- MODULE MCEventCallbacks --------------------------
EXTENDS EventCallbacks

CONSTANTS t1, t2, m, x, y, u, cm, cx, cx2, cy, cu

MarkerFirst == <<m, x, y>>
MarkerBetween == <<x, m, y>>
MCWaits == m :> {u} @@ x :> {} @@ y :> {}
MCCallback ==
    cm :> [event |-> m, status |-> SUBMITTED]
    @@ cx :> [event |-> x, status |-> COMPLETE]
    @@ cx2 :> [event |-> x, status |-> RUNNING]
    @@ cy :> [event |-> y, status |-> RUNNING]
    @@ cu :> [event |-> u, status |-> COMPLETE]

Host(ts, d, cs, es, fs, w) ==
    [threads |-> ts, depth |-> d, callbacks |-> cs, commands |-> es,
     frees |-> fs, waits |-> w]
SafeHosts ==
    {Host({t1}, 1, {cm, cx, cx2, cu}, {m, x}, FALSE, FALSE),
     Host({t1, t2}, 2, {cx, cu}, {x, y}, FALSE, TRUE),
     Host({t1, t2}, 2, {cx}, {x}, TRUE, TRUE)}
(* A callback of the first command flushes the queue. *)
FlushesInside == {Host({t1}, 2, {cx}, {x, m, y}, FALSE, TRUE)}
(* Two callbacks on one event, the queue flushed inside of one. *)
TwoOnOne == {Host({t1}, 2, {cx, cx2}, {x}, FALSE, TRUE)}
(* The memory of the second of two commands is freed. *)
FreesSecond == {Host({t1}, 1, {}, {x, y}, TRUE, TRUE)}
=============================================================================
