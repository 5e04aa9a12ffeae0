----------------------------- MODULE MCKernelIf -----------------------------
(* Instances of KernelIf: a1 queues two invocations, a2 takes one at a time *)
(* and stalls on its printf buffer, a3 has the oldest registers and may be  *)
(* dumped, a4 is controlled by streaming interfaces.                        *)
EXTENDS KernelIf, TLC

CONSTANTS a1, a2, a3, a4, a5, i1, i2, i3, i4, p1, p2, q1, d1, d2, s1, s2, s3, task, range

Invocation(a, image, x, y) ==
    [accel |-> a, image |-> image, args |-> ("x" :> x @@ "y" :> y)]

MCJob ==
       i1 :> Invocation(a1, task, 1, 1)
    @@ i2 :> Invocation(a1, range, 2, 1)
    @@ i3 :> Invocation(a1, task, 2, 2)
    @@ i4 :> Invocation(a1, task, 1, 2)
    @@ p1 :> Invocation(a2, range, 1, 1)
    @@ p2 :> Invocation(a2, range, 1, 2)
    @@ q1 :> Invocation(a5, task, 1, 1)
    @@ d1 :> Invocation(a3, range, 1, 1)
    @@ d2 :> Invocation(a3, task, 2, 1)
    @@ s1 :> Invocation(a4, task, 1, 1)
    @@ s2 :> Invocation(a4, range, 2, 1)
    @@ s3 :> Invocation(a4, range, 2, 2)

MCSize == a1 :> 2 @@ a2 :> 1 @@ a3 :> 1 @@ a4 :> 3 @@ a5 :> 1
MCMaxStalls == a1 :> 0 @@ a2 :> 1 @@ a3 :> 0 @@ a4 :> 0 @@ a5 :> 2
MCMaxOvertakes == a1 :> 0 @@ a2 :> 1 @@ a3 :> 0 @@ a4 :> 0 @@ a5 :> 0
(* The device operation queue; buffers of s1 and s2 are moved while a later  *)
(* kernel is launched, all three of which a4 has room for.                   *)
QueueOrder == <<i1, i2, i3, i4, p1, p2, q1, d1, d2, s1, s2, s3>>
MCInFront ==
    [j \in Jobs |-> {k \in Jobs : \E m, n \in DOMAIN QueueOrder :
                        m < n /\ QueueOrder[m] = k /\ QueueOrder[n] = j}]
MCOvertaken == {s1, s2}
QueuedTwice == {{i1, i2}}
FourOfTwo == {{i1, i2, i3, i4}}
AllWorkloads == {{i1, i2, i3, i4}, {p1, p2}, {q1}, {d1, d2}, {s1, s2, s3}}
=============================================================================
