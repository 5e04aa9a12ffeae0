--------------------------- MODULE MCBufferCopies ---------------------------
(* A buffer of two cells: sub-buffers S and T cover one cell each, V both  *)
(* and O, which kernels only read, the first.                              *)
EXTENDS BufferCopies, TLC

CONSTANTS P, S, T, V, O, v1, v2, d1, d2

MCCover == P :> {1, 2} @@ S :> {1} @@ T :> {2} @@ V :> {1, 2} @@ O :> {1}
MCKernelArgs == {<<P>>, <<S>>, <<T>>, <<V>>, <<O>>, <<S, T>>, <<P, S>>}

Uses(s, h, ds) == [subs |-> s, does |-> h, on |-> ds]
OnEach(s, h) == {Uses(s, h, {d}) : d \in Devices}
OnAll(s, h) == {Uses(s, h, Devices)}

(* What works. *)
MCPrograms ==
    OnAll({S, T}, {}) \cup OnEach({S, V}, {"map"})
    \cup OnAll({S}, {"map"})
    \cup OnAll({}, {"map", "host_ptr", "part"})
    \cup OnAll({}, {"map", "invalidate", "read_mapped"})

(* What does not. *)
EnqueueFirst == OnAll({}, {"map", "host_ptr", "enqueue_first"})
HostPtrSubs == OnAll({S}, {"map", "host_ptr"})
ReadOnlySubs == OnAll({O}, {"map"})
InvalidatedPart == OnAll({}, {"map", "invalidate", "part"})
InvalidatedParent == OnAll({S}, {"map", "invalidate"})
ReleasedSubs == OnAll({S}, {"map", "release"})
SharedReads == OnAll({S}, {"map", "read_mapped"})
MappedParts == OnAll({S, T}, {"map", "part"})
ReadMappedParts == OnAll({}, {"map", "part", "read_mapped"})

(* What an operation may do depends on nothing in last, which is compared  *)
(* with BufferMemory when a step is taken.                                 *)
ExceptLast == <<mem, subs, maps, prog, program>>
Alike == Permutations({d1, d2})
=============================================================================
