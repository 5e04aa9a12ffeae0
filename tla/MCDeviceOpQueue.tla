-------------------------- MODULE MCDeviceOpQueue --------------------------
(* Commands for DeviceOpQueue, and the workloads that make them contend for *)
(* a device, an accelerator, a buffer or a slot of the queue.  Device d1 is *)
(* half duplex and its accelerator runs one kernel at a time; d2 is full    *)
(* duplex and a2 has a fast relaunch depth of one; d3 may fail to program.  *)
EXTENDS DeviceOpQueue

CONSTANTS p1, q1, s1, w1, r1, u1, k2, l2, m2, r2, w2, e2, h2, n2, u2, k3, m3,
          d1, d2, d3, a1, a2, a3, b1, b2, p, q

Migrate(b) ==
    [type |-> "MEM_MIGRATION", affects |-> {}, mem |-> b,
     noTransfer |-> FALSE, mayFail |-> FALSE]
Plain(type, d, conflict) ==
    [type |-> type, affects |-> {<<d, conflict>>}, mem |-> None,
     noTransfer |-> FALSE, mayFail |-> FALSE]

Other(d, ops) ==
    [kind |-> "other", ops |-> ops, device |-> d, bin |-> None, accel |-> None,
     depth |-> 0, relaunches |-> 0, prints |-> FALSE, badBin |-> FALSE]
Write(d) ==
    Other(d, <<Plain("MEM_TRANSFER_WRITE", d, "MEM_WRITE")>>)
Read(d) == Other(d, <<Plain("MEM_TRANSFER_READ", d, "MEM_READ")>>)
Program(d, b) ==
    [Other(d, <<Plain("REPROGRAM", d, "REPROGRAM")>>)
       EXCEPT !.kind = "program", !.bin = b]
Kernel(d, accel, b, buffers) ==
    [Other(d, [n \in DOMAIN buffers |-> Migrate(buffers[n])]
                \o <<Plain("KERNEL", d, "KERNEL")>>)
       EXCEPT !.kind = "kernel", !.bin = b, !.accel = accel]

MCCommand ==
       p1 :> Kernel(d1, a1, p, <<b1>>)
    @@ q1 :> Kernel(d1, a1, q, <<>>)
    @@ s1 :> Kernel(d1, a1, p, <<>>)
    @@ w1 :> Write(d1)
    @@ r1 :> Read(d1)
    @@ u1 :> Kernel(d1, a1, p, <<b2>>)
    @@ k2 :> [Kernel(d2, a2, p, <<b1>>)
                EXCEPT !.depth = 1, !.relaunches = 1, !.prints = TRUE]
    @@ l2 :> [Kernel(d2, a2, p, <<b1>>) EXCEPT !.depth = 1, !.prints = TRUE]
    @@ m2 :> [Kernel(d2, a2, p, <<b1>>) EXCEPT !.depth = 1]
    @@ r2 :> Read(d2)
    @@ w2 :> Write(d2)
    @@ e2 :> Program(d2, q)
    @@ h2 :> Other(d2, <<[Plain("HOSTPIPE_READ", d2, "HOSTPIPE_READ")
                            EXCEPT !.mayFail = TRUE]>>)
    @@ n2 :> Other(d2, <<[Plain("MEM_TRANSFER_WRITE", d2, "MEM_WRITE")
                            EXCEPT !.noTransfer = TRUE]>>)
    @@ u2 :> Kernel(d2, a2, p, <<b1, b2>>)
    @@ k3 :> [Kernel(d3, a3, p, <<b2>>) EXCEPT !.badBin = TRUE]
    @@ m3 :> Other(d3, <<Migrate(b1), Migrate(b2)>>)

Binaries1 == {s1, q1, w1}  \* two kernels of different binaries, a transfer
Shared1   == {s1, p1}      \* two kernels of one binary and one accelerator
Relaunch2 == {k2, l2}      \* kernels that share a buffer and an accelerator
Duplex2   == {m2, r2, w2}  \* transfers both ways beside a kernel's migration
Devices12 == {p1, m2, e2}  \* kernels of two devices that share a buffer
Failing3  == {k3, m3}      \* a reprogram that may fail, a migration of two buffers
Sync2     == {w2, h2, n2}  \* a transfer beside operations that finish at once

\* The commands that are enqueued again: at least one of every workload.
ReusedCommands == {s1, p1, r2, k2, l2, k3, m3, h2, n2}

AllWorkloads ==
    {Binaries1, Shared1, Relaunch2, Duplex2, Devices12, Failing3, Sync2}
LiveWorkloads == {{k2, w2}}
MovedWorkloads == {{s1, p1, m2}}
RingWorkloads == {Shared1}
BadBinaryWorkloads == {{k3}}
SharedWorkloads == {{s1, r1, u1, u2}}
=============================================================================
