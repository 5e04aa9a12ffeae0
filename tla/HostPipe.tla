------------------------------- MODULE HostPipe -------------------------------
(* A host pipe (acl_hostch.cpp): the queue of packets and mapped regions of *)
(* one pipe, before and after it is bound to a channel of the device.  The  *)
(* calls of the user hold m_lock; binding runs inside kernel enqueue or     *)
(* device programming and holds the global lock only.  The channel is that  *)
(* of the MMD: a stream of bytes with an acknowledge pointer.  The n-th byte *)
(* a call reserves, or the device produces, carries the number n.           *)
EXTENDS Integers, Sequences, FiniteSets, SequencesExt, FiniteSetsExt

CONSTANTS
    Directions,        \* "write": host to device; "read": device to host
    PacketSize,        \* pipe_packet_size
    Depth,             \* pipe_packet_size * pipe_max_packets
    MaxBytes,          \* bound: bytes that pass through the pipe
    MapSizes,          \* sizes the user asks to map, 0 for all there is
    HeldAcrossBinding, \* whether a region may be held while the pipe is bound
    Overlapping        \* whether binding may overlap a call of the user

ASSUME SizesAssumption ==
    /\ PacketSize \in Nat \ {0}
    /\ \E packets \in 1 .. Depth : Depth = packets * PacketSize
ASSUME BoundsAssumption == MaxBytes \in Nat /\ MapSizes \subseteq Nat
ASSUME DirectionsAssumption == Directions \subseteq {"write", "read"}

MAP == "MAP"
PACKET == "PACKET"

VARIABLES
    direction,     \* direction of the pipe of this behaviour
    binded,
    ops,           \* m_host_op_queue
    size_buffered,
    buffer,        \* contents of the channel's buffer: number of each byte
    acked,         \* bytes acknowledged to the channel
    passed,        \* bytes the device has taken, or has produced
    reserved,      \* bytes the user has written, or asked for, in all
    released,      \* numbers of those the user has given up by writing, reading or unmapping
    received,      \* bytes that reached the other end, in order
    regions,       \* mapped regions the user holds
    refused,       \* an unmap of such a region was refused
    user, binder   \* what the user's thread and the binding thread are at

channelVars == <<buffer, acked, passed>>
endVars == <<reserved, released, received, regions, refused>>
vars == <<direction, binded, ops, size_buffered, channelVars, endVars, user, binder>>

Calling == [pc |-> "idle", bound |-> FALSE]
Bytes(from, count) == [i \in 1 .. count |-> from + i]

Init ==
    /\ direction \in Directions
    /\ binded = FALSE /\ ops = <<>> /\ size_buffered = 0
    /\ buffer = [p \in 0 .. MaxBytes - 1 |-> IF direction = "read" THEN p + 1 ELSE 0]
    /\ acked = 0 /\ passed = 0
    /\ reserved = 0 /\ released = {} /\ received = <<>>
    /\ regions = {} /\ refused = FALSE
    /\ user = Calling /\ binder = "unbound"

-----------------------------------------------------------------------------
\* The channel: aocl_mmd_hostchannel_get_buffer gives the address after the
\* acknowledged bytes and the space, or the data, there is from there on.
Available ==
    IF direction = "write" THEN Depth - (acked - passed) ELSE passed - acked
BufferSize == IF binded THEN Available ELSE Depth

AckSize(size) == Min({size, Available})

\* The user's thread may call: it holds no lock, and no binding is under way.
MayCall == user.pc = "idle" /\ (Overlapping \/ binder \in {"unbound", "bound"})
Fits(size) == size_buffered + size <= BufferSize

\* memcpy into the buffer of the channel, from where on and what.
Stored(from, bytes) ==
    [p \in DOMAIN buffer |->
        IF p \in from .. from + Len(bytes) - 1 THEN bytes[p - from + 1] ELSE buffer[p]]

-----------------------------------------------------------------------------
\* clWritePipeIntelFPGA with nothing queued on a bound pipe: l_push_packet.
Push ==
    /\ MayCall /\ direction = "write"
    /\ ops = <<>> /\ binded
    /\ reserved + PacketSize <= MaxBytes
    /\ Available >= PacketSize
    /\ buffer' = Stored(acked, Bytes(reserved, PacketSize))
    /\ acked' = acked + PacketSize
    /\ reserved' = reserved + PacketSize
    /\ released' = released \cup reserved + 1 .. reserved + PacketSize
    /\ UNCHANGED <<direction, binded, ops, size_buffered, passed, received, regions, refused, user, binder>>

\* Otherwise the packet is queued: the call has looked at binded and found
\* room, and is about to copy the packet and to append the operation.
BeginWrite ==
    /\ MayCall /\ direction = "write"
    /\ ~(ops = <<>> /\ binded)
    /\ reserved + PacketSize <= MaxBytes
    /\ Fits(PacketSize)
    /\ user' = [pc |-> "write", bound |-> binded]
    /\ UNCHANGED <<direction, binded, ops, size_buffered, channelVars, endVars, binder>>

NewOp(kind, size, bound) ==
    [op |-> kind, size |-> size, sent |-> 0, number |-> reserved,
     mmd |-> IF bound THEN acked + size_buffered ELSE -1,
     host |-> direction = "write" /\ ~bound,
     filled |-> IF kind = PACKET THEN size ELSE 0]

QueueWrite ==
    LET op == NewOp(PACKET, PacketSize, user.bound) IN
    /\ user.pc = "write"
    /\ buffer' = IF user.bound THEN Stored(op.mmd, Bytes(reserved, PacketSize)) ELSE buffer
    /\ size_buffered' = size_buffered + PacketSize
    /\ ops' = Append(ops, op)
    /\ reserved' = reserved + PacketSize
    /\ released' = released \cup reserved + 1 .. reserved + PacketSize
    /\ user' = Calling
    /\ UNCHANGED <<direction, binded, acked, passed, received, regions, refused, binder>>

\* What a read copies to the user, from this address of the channel on.
Copied(from, count) == received \o [i \in 1 .. count |-> buffer[from + i - 1]]

\* clReadPipeIntelFPGA with nothing queued: the channel's own pull.
Pull ==
    /\ MayCall /\ direction = "read"
    /\ binded /\ ops = <<>>
    /\ Available >= PacketSize
    /\ received' = Copied(acked, PacketSize)
    /\ acked' = acked + PacketSize
    /\ reserved' = reserved + PacketSize
    /\ released' = released \cup reserved + 1 .. reserved + PacketSize
    /\ UNCHANGED <<direction, binded, ops, size_buffered, buffer, passed, regions, refused, user, binder>>

\* Otherwise it reads behind what is queued and queues the acknowledgement.
QueueRead ==
    LET op == NewOp(PACKET, PacketSize, TRUE) IN
    /\ MayCall /\ direction = "read"
    /\ binded /\ ops # <<>>
    /\ Fits(PacketSize)
    /\ received' = Copied(op.mmd, PacketSize)
    /\ size_buffered' = size_buffered + PacketSize
    /\ ops' = Append(ops, op)
    /\ reserved' = reserved + PacketSize
    /\ released' = released \cup reserved + 1 .. reserved + PacketSize
    /\ UNCHANGED <<direction, binded, channelVars, regions, refused, user, binder>>

\* clMapHostPipeIntelFPGA.  What is mapped for reading is read at once.
Map(requested) ==
    LET room == BufferSize - size_buffered
        size == IF requested = 0 THEN room ELSE Min({room, requested})
        op == NewOp(MAP, size, binded) IN
    /\ MayCall
    /\ binded \/ direction = "write"
    /\ room > 0
    /\ reserved + size <= MaxBytes
    /\ received' = IF direction = "read" THEN Copied(op.mmd, size) ELSE received
    /\ size_buffered' = size_buffered + size
    /\ ops' = Append(ops, op)
    /\ reserved' = reserved + size
    /\ regions' = regions \cup
         {[mmd |-> op.mmd, number |-> reserved, size |-> size, sent |-> 0]}
    /\ UNCHANGED <<direction, binded, channelVars, released, refused, user, binder>>

-----------------------------------------------------------------------------
\* clUnmapHostPipeIntelFPGA: the operation is found by its address, that in
\* the channel's buffer on a bound pipe, that in host memory otherwise.
LooksPastSent(op, region) == op.mmd + op.sent = region.mmd  \* a slip
SameBuffer(op, region) == region.mmd # -1 /\ op.mmd = region.mmd
Pointed(op, region) ==
    IF binded THEN SameBuffer(op, region)
    ELSE op.host /\ region.mmd = -1 /\ op.number = region.number

\* The user writes the part it gives up first, where its pointer leads.
Filled(region, count) ==
    IF direction = "write" /\ region.mmd # -1
    THEN Stored(region.mmd + region.sent, Bytes(region.number + region.sent, count))
    ELSE buffer

Unmapped(region, count) ==
    /\ regions' = (regions \ {region}) \cup
         (IF region.sent + count < region.size THEN {[region EXCEPT !.sent = @ + count]} ELSE {})
    /\ released' = released \cup
         region.number + region.sent + 1 .. region.number + region.sent + count

RefuseUnmap(region) ==
    /\ MayCall /\ region \in regions
    /\ \A i \in DOMAIN ops : ~Pointed(ops[i], region)
    /\ regions' = regions \ {region}
    /\ refused' = TRUE
    /\ UNCHANGED <<direction, binded, ops, size_buffered, channelVars, reserved, released, received, user, binder>>

\* A region that is not the first in the queue, or of an unbound pipe, is
\* only marked.
FirstOfAll(i) == TRUE  \* a slip
IsFirst(i) == i = 1
MarkUnmapped(region, i, count) ==
    /\ MayCall /\ region \in regions
    /\ Pointed(ops[i], region)
    /\ ~(IsFirst(i) /\ binded)
    /\ ops' = [ops EXCEPT ![i].sent = @ + count, ![i].filled = @ + count]
    /\ buffer' = Filled(region, count)
    /\ Unmapped(region, count)
    /\ UNCHANGED <<direction, binded, size_buffered, acked, passed, reserved, received, refused, user, binder>>

\* The first one is acknowledged to the channel; when it is done, what it
\* held up follows.
AckUnmapped(region, i, count) ==
    LET sent == AckSize(count)
        done == ops[i].sent + sent = ops[i].size IN
    /\ MayCall /\ region \in regions
    /\ Pointed(ops[i], region)
    /\ IsFirst(i) /\ binded /\ sent > 0
    /\ ops' = IF done THEN RemoveAt(ops, i) ELSE [ops EXCEPT ![i].sent = @ + sent]
    /\ buffer' = Filled(region, sent)
    /\ acked' = acked + sent
    /\ size_buffered' = size_buffered - sent
    /\ Unmapped(region, sent)
    /\ user' = IF done THEN [user EXCEPT !.pc = "clean"] ELSE user
    /\ UNCHANGED <<direction, binded, passed, reserved, received, refused, binder>>

Unmap ==
    \E region \in regions :
        \/ RefuseUnmap(region)
        \/ \E i \in DOMAIN ops, count \in 1 .. region.size - region.sent :
             MarkUnmapped(region, i, count) \/ AckUnmapped(region, i, count)

-----------------------------------------------------------------------------
\* l_clean_up_pending_pipe_ops, one operation at a time, by the thread of the
\* user or by the one that binds.
Cleaning == user.pc = "clean" \/ binder = "clean"
CleanedUp ==
    /\ user' = [user EXCEPT !.pc = IF @ = "clean" THEN "idle" ELSE @]
    /\ binder' = IF binder = "clean" THEN "bound" ELSE binder

\* Packets are acknowledged, waiting for the channel if need be.
FlushPacket ==
    /\ Cleaning
    /\ ops # <<>> /\ Head(ops).op = PACKET
    /\ AckSize(PacketSize) = PacketSize
    /\ acked' = acked + PacketSize
    /\ size_buffered' = size_buffered - PacketSize
    /\ ops' = Tail(ops)
    /\ UNCHANGED <<direction, binded, buffer, passed, endVars, user, binder>>

WholeOp(op) == op.size  \* a slip
SentPart(op) == op.sent

FlushMap ==
    LET op == Head(ops) IN
    /\ Cleaning
    /\ ops # <<>> /\ op.op = MAP
    /\ AckSize(SentPart(op)) = SentPart(op)
    /\ acked' = acked + SentPart(op)
    /\ size_buffered' = size_buffered - SentPart(op)
    /\ IF op.sent = op.size
       THEN ops' = Tail(ops) /\ UNCHANGED <<user, binder>>
       ELSE CleanedUp /\ UNCHANGED ops
    /\ UNCHANGED <<direction, binded, buffer, passed, endVars>>

NothingQueued ==
    /\ Cleaning /\ ops = <<>>
    /\ CleanedUp
    /\ UNCHANGED <<direction, binded, ops, size_buffered, channelVars, endVars>>

CleanUp == FlushPacket \/ FlushMap \/ NothingQueued

-----------------------------------------------------------------------------
\* acl_bind_pipe_to_channel.
Bind ==
    /\ binder = "unbound"
    /\ Overlapping \/ user.pc = "idle"
    /\ HeldAcrossBinding \/ regions = {}
    /\ binded' = TRUE
    /\ binder' = "move"
    /\ UNCHANGED <<direction, ops, size_buffered, channelVars, endVars, user>>

\* l_move_ops_from_hostbuf_to_mmdbuf: consecutive places in the buffer of the
\* channel; the host copies are freed, whoever still points to them.
AllAtTheStart(i) == 0  \* a slip
SizeBefore(i) ==
    LET sum[k \in 0 .. Len(ops)] == IF k = 0 THEN 0 ELSE sum[k - 1] + ops[k].size
    IN  sum[i - 1]
MoveOps ==
    LET place(i) == acked + SizeBefore(i)
        moved == {i \in DOMAIN ops : ops[i].host}
        mover(p) == {i \in moved : p \in place(i) .. place(i) + ops[i].filled - 1} IN
    /\ binder = "move"
    /\ ops' = [i \in DOMAIN ops |-> [ops[i] EXCEPT !.mmd = place(i), !.host = FALSE]]
    /\ buffer' = [p \in DOMAIN buffer |->
                    IF mover(p) = {} THEN buffer[p]
                    ELSE LET i == Max(mover(p)) IN ops[i].number + p - place(i) + 1]
    /\ binder' = "clean"
    /\ UNCHANGED <<direction, binded, size_buffered, acked, passed, endVars, user>>

\* The other end of the channel: the kernel takes a byte, or produces one.
Device ==
    /\ binded
    /\ \/ /\ direction = "write" /\ passed < acked
          /\ received' = Append(received, buffer[passed])
       \/ /\ direction = "read" /\ passed < acked + Depth
          /\ passed < MaxBytes
          /\ UNCHANGED received
    /\ passed' = passed + 1
    /\ UNCHANGED <<direction, binded, ops, size_buffered, buffer, acked, reserved,
                   released, regions, refused, user, binder>>

Next ==
    \/ Push \/ BeginWrite \/ QueueWrite \/ Pull \/ QueueRead
    \/ \E requested \in MapSizes : Map(requested)
    \/ Unmap
    \/ CleanUp
    \/ Bind \/ MoveOps
    \/ Device

Spec == Init /\ [][Next]_vars

-----------------------------------------------------------------------------
TypeOK ==
    /\ direction \in Directions
    /\ binded \in BOOLEAN /\ refused \in BOOLEAN
    /\ \A i \in DOMAIN ops :
        /\ ops[i].op \in {MAP, PACKET}
        /\ ops[i].size \in 1 .. Depth /\ ops[i].sent \in 0 .. ops[i].size
        /\ ops[i].mmd \in -1 .. MaxBytes - ops[i].size
    /\ size_buffered \in 0 .. Depth
    /\ acked \in 0 .. MaxBytes /\ passed \in 0 .. MaxBytes
    /\ reserved \in 0 .. MaxBytes /\ released \subseteq 1 .. reserved
    /\ user.pc \in {"idle", "write", "clean"} /\ user.bound \in BOOLEAN
    /\ binder \in {"unbound", "move", "clean", "bound"}

Quiet == user.pc = "idle" /\ binder = "bound"

(* Whatever the mix of packets and regions, and in whatever order the       *)
(* regions are given up, the channel is told of exactly the bytes up to the *)
(* first one the user still holds: none too early, none left behind.  What  *)
(* is buffered is all the rest, so that the next operation gets the next    *)
(* free place.                                                              *)
AckedIsReleased ==
    Quiet =>
        /\ acked = Cardinality({n \in 1 .. MaxBytes : 1 .. n \subseteq released})
        /\ acked + size_buffered = reserved

(* The other end receives the bytes in the order they were written or       *)
(* mapped, each once, also those written before the pipe was bound.         *)
InOrder == \A i \in DOMAIN received : received[i] = i

(* The assertions of this file: what is buffered never exceeds the space of *)
(* the channel (402, 516, 632, 263), the first operation is where the       *)
(* channel's pointer is (173, 210, 765), only a write pipe has operations   *)
(* to move (248), and safe_memcpy (537) finds room for the packet.          *)
AssertionsHold ==
    /\ user.pc # "write" /\ binder # "clean" => size_buffered <= BufferSize
    /\ Cleaning /\ binder # "move" /\ ops # <<>> => Head(ops).mmd = acked
    /\ Quiet /\ ops # <<>> => acked = Head(ops).mmd + Head(ops).sent
    /\ binder = "move" => direction = "write" \/ ops = <<>>
    /\ user.pc = "write" /\ user.bound => PacketSize <= size_buffered

(* A region the user has mapped can be unmapped with the pointer it got.    *)
RegionsUnmap == ~refused
=============================================================================
