---------------------------- MODULE MCMemBlocks ----------------------------
EXTENDS MemBlocks, TLC

CONSTANTS a, b, c, D1, D2, k1, k2, k3, k4, k5, k6, m1, m2

MCSize == a :> 1 @@ b :> 2 @@ c :> 1
MCBank == a :> 0 @@ b :> 2 @@ c :> 4
(* The first unit of each device is not usable; the second bank of the     *)
(* first begins at 2.                                                      *)
MCMemory ==
    D1 :> [begin |-> 0, usable |-> 1, next |-> 5, banks |-> 2]
    @@ D2 :> [begin |-> 10, usable |-> 11, next |-> 14, banks |-> 1]

Cmd(kind, device, mems) == [kind |-> kind, device |-> device, mems |-> mems]
MCCommand ==
    k1 :> Cmd("kernel", D1, <<a, b>>)
    @@ k2 :> Cmd("kernel", D2, <<b, a>>)
    @@ k3 :> Cmd("kernel", D1, <<a, a>>)
    @@ k4 :> Cmd("kernel", D2, <<c, b>>)
    @@ k5 :> Cmd("kernel", D1, <<b, c>>)
    @@ k6 :> Cmd("kernel", D2, <<c, b, a>>)
    @@ m1 :> Cmd("migrate", D2, <<a, c>>)
    @@ m2 :> Cmd("migrate", D2, <<a, b, c>>)

MCTransfers == {<<a, D1>>, <<b, D2>>, <<c, D1>>}

(* Buffers go back and forth; a kernel too large for its device; a         *)
(* migration beside kernels; a command that is terminated.                 *)
MCWorkloads == {{k1, k2, k3}, {k1, k4, k6}, {k2, k5, m1}}
(* A migration that finds no room on its device. *)
NoRoomWorkloads == {{k4, m2}}
=============================================================================
