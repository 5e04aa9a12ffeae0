--------------------------- MODULE HostPipeProofs ---------------------------
(***************************************************************************)
(* What holds of a host pipe (HostPipe) for every packet size, depth and   *)
(* stream of calls.                                                        *)
(***************************************************************************)
EXTENDS HostPipe, SequenceLemmas

(* The invariant and its parts.                                             *)
Op == [op : {MAP, PACKET}, size : Nat, sent : Nat, number : Nat, mmd : Int,
       host : BOOLEAN, filled : Nat]

TypeInv ==
    /\ direction \in {"write", "read"} /\ direction \in Directions
    /\ binded \in BOOLEAN /\ refused \in BOOLEAN
    /\ ops \in Seq(Op)
    /\ size_buffered \in Int
    /\ buffer \in [0 .. MaxBytes - 1 -> Int]
    /\ acked \in Nat /\ passed \in Nat /\ reserved \in Nat
    /\ received \in Seq(Int)
    /\ user \in [pc : {"idle", "write", "clean"}, bound : BOOLEAN]
    /\ binder \in {"unbound", "move", "clean", "bound"}

(* Before and while the operations get places in the channel's buffer; and  *)
(* bound, with no operation left that the clean-up has to flush.            *)
Unplaced == binder \in {"unbound", "move"}
Settled == binder = "bound" /\ user.pc # "clean"

(* What each thread can be at while the pipe is in which state.  A write    *)
(* under way has found room that the device can only enlarge.               *)
ModeInv ==
    /\ binded <=> binder # "unbound"
    /\ user.pc # "idle" => binder \in {"unbound", "bound"}
    /\ user.pc = "clean" => binder = "bound"
    /\ user.pc = "write" =>
         /\ direction = "write" /\ user.bound = binded
         /\ binded => ops # <<>>
         /\ reserved + PacketSize <= MaxBytes
         /\ reserved + PacketSize <= passed + Depth
    /\ ~binded => passed = 0
    /\ Unplaced => acked = 0
    /\ Unplaced /\ direction = "read" => ops = <<>>

(* What is buffered lies between the channel's pointer and the last byte    *)
(* reserved, and fits the channel.                                          *)
SpaceInv ==
    /\ acked + size_buffered = reserved
    /\ reserved <= MaxBytes /\ passed <= MaxBytes /\ acked <= reserved
    /\ direction = "write" => passed <= acked /\ reserved <= passed + Depth
    /\ direction = "read" => reserved <= passed /\ passed <= acked + Depth

(* A placed operation is where the channel will have the bytes it is        *)
(* numbered by; an unplaced one is in host memory.                          *)
OpInv(o) ==
    /\ o.size \in 1 .. Depth /\ o.sent <= o.size
    /\ o.op = PACKET => o.size = PacketSize /\ o.sent = 0
    /\ o.mmd = IF Unplaced THEN -1 ELSE o.number
    /\ o.host = Unplaced
    /\ o.host => o.filled = IF o.op = PACKET THEN o.size ELSE o.sent

(* The operations follow each other without a gap, from the channel's       *)
(* pointer to the last byte reserved.  At rest the first is a region of     *)
(* which the user still holds some: it is what holds up the others.         *)
ChainInv ==
    /\ \A i \in 1 .. Len(ops) : /\ OpInv(ops[i])
                                /\ ops[i].number + ops[i].size <= reserved
    /\ \A i, j \in 1 .. Len(ops) :
         i < j => ops[i].number + ops[i].size <= ops[j].number
    /\ \A i \in 1 .. Len(ops) - 1 :
         ops[i + 1].number = ops[i].number + ops[i].size
    /\ IF ops = <<>> THEN acked = reserved
       ELSE /\ reserved = ops[Len(ops)].number + ops[Len(ops)].size
            /\ acked = ops[1].number + (IF Settled THEN ops[1].sent ELSE 0)
            /\ Settled => ops[1].op = MAP /\ ops[1].sent < ops[1].size

(* What the user holds of an operation, and which of its bytes it has given *)
(* up or is still to give up.                                               *)
RegionOf(o) == [mmd |-> o.mmd, number |-> o.number, size |-> o.size,
                sent |-> o.sent]
Held(o) == o.op = MAP /\ o.sent < o.size
HeldBytes(o) ==
    IF o.op = MAP THEN o.number + o.sent + 1 .. o.number + o.size ELSE {}
GivenBytes(o) ==
    o.number + 1 .. o.number + (IF o.op = MAP THEN o.sent ELSE o.size)

(* The regions of the user are the unfinished operations of the queue, and  *)
(* the bytes given up all the others.                                       *)
RegionInv ==
    /\ regions = {RegionOf(ops[i]) : i \in {x \in 1 .. Len(ops) : Held(ops[x])}}
    /\ binder \in {"move", "clean"} => regions = {}
ReleasedInv ==
    released = {n \in 1 .. reserved : \A i \in 1 .. Len(ops) : n \notin HeldBytes(ops[i])}
(* What has been acknowledged, and what has been given up of a placed       *)
(* operation, is in the channel's buffer, each byte in its place.           *)
BufferInv ==
    /\ direction = "read" => \A p \in 0 .. MaxBytes - 1 : buffer[p] = p + 1
    /\ \A n \in 1 .. acked : buffer[n - 1] = n
    /\ ~Unplaced => \A i \in 1 .. Len(ops) : \A n \in GivenBytes(ops[i]) : buffer[n - 1] = n
(* What has reached the other end is the first part of the stream.          *)
ReceivedInv ==
    /\ InOrder
    /\ Len(received) = IF direction = "write" THEN passed ELSE reserved
(* The inductive invariant.                                                 *)
IInv ==
    /\ TypeInv /\ ModeInv /\ SpaceInv /\ ChainInv
    /\ RegionInv /\ ReleasedInv /\ BufferInv /\ ReceivedInv /\ ~refused

-----------------------------------------------------------------------------
(* The sizes are those of a channel of at least one packet. *)
LEMMA Sizes ==
    /\ PacketSize \in Nat /\ Depth \in Nat /\ 1 <= PacketSize /\ PacketSize <= Depth
    /\ MaxBytes \in Nat /\ MapSizes \subseteq Nat
    /\ Directions \subseteq {"write", "read"}
<1>1. PacketSize \in Nat /\ 1 <= PacketSize
  BY SizesAssumption
<1>2. PICK packets \in 1 .. Depth : Depth = packets * PacketSize
  BY SizesAssumption
<1>3. packets \in Int /\ 1 <= packets /\ Depth \in Int
  BY <1>1, <1>2
<1>4. packets * PacketSize = (packets - 1) * PacketSize + PacketSize
  BY <1>1, <1>3
<1>5. (packets - 1) * PacketSize >= 0
  BY <1>1, <1>3
<1>6. PacketSize <= Depth
  <2> DEFINE rest == (packets - 1) * PacketSize
  <2>1. rest \in Int /\ rest >= 0 /\ Depth = rest + PacketSize
    BY <1>1, <1>2, <1>3, <1>4, <1>5
  <2> HIDE DEF rest
  <2>2. QED
    BY <2>1, <1>1
<1>7. QED
  BY <1>1, <1>3, <1>6, BoundsAssumption, DirectionsAssumption

(* The smaller of two numbers. *)
LEMMA MinOfTwo ==
    ASSUME NEW a \in Int, NEW b \in Int
    PROVE  Min({a, b}) = IF a <= b THEN a ELSE b
<1> DEFINE m == IF a <= b THEN a ELSE b
<1>1. m \in {a, b} /\ \A y \in {a, b} : m <= y
  OBVIOUS
<1>2. \A x \in {a, b} : (\A y \in {a, b} : x <= y) => x = m
  OBVIOUS
<1>3. QED
  BY <1>1, <1>2 DEF Min

(* The channel acknowledges what it is asked to, as far as it can. *)
LEMMA AckSizeIs ==
    ASSUME IInv, NEW size \in Nat
    PROVE  /\ Available \in Nat
           /\ AckSize(size) = IF size <= Available THEN size ELSE Available
           /\ AckSize(size) \in Nat /\ AckSize(size) <= size
<1>1. Available \in Nat
  BY Sizes DEF IInv, TypeInv, SpaceInv, Available
<1>2. QED
  BY <1>1, MinOfTwo DEF AckSize

(* A non-empty set of positions of a list has a last one. *)
LEMMA LastOf ==
    ASSUME NEW n \in Nat, NEW S \in SUBSET (1 .. n), S # {}
    PROVE  Max(S) \in S
<1> DEFINE Bad == {k \in Nat : n - k \in S}
<1>1. PICK s \in S : TRUE
  OBVIOUS
<1>2. n - s \in Bad
  BY <1>1
<1>3. Bad \subseteq Nat /\ Bad # {}
  BY <1>2
<1> HIDE DEF Bad
<1>4. PICK k \in Bad : \A j \in Bad : ~(j < k)
  BY <1>3, LeastNatural
<1>5. k \in Nat /\ n - k \in S
  BY <1>4 DEF Bad
<1>6. ASSUME NEW y \in S PROVE n - k >= y
  <2>1. y \in 1 .. n /\ n - (n - y) = y
    BY <1>6
  <2>2. n - y \in Bad
    BY <2>1 DEF Bad
  <2>3. QED
    BY <2>1, <2>2, <1>4, <1>5
<1>7. QED
  BY <1>5, <1>6 DEF Max

(* The operations of the queue and their order. *)
LEMMA OpsFacts ==
    ASSUME IInv
    PROVE  /\ Len(ops) \in Nat /\ DOMAIN ops = 1 .. Len(ops)
           /\ \A i \in 1 .. Len(ops) : ops[i] \in Op
           /\ \A i, j \in 1 .. Len(ops) : ops[i].number = ops[j].number => i = j
           /\ ops = <<>> <=> Len(ops) = 0
           /\ ops # <<>> => 1 \in 1 .. Len(ops) /\ Head(ops) = ops[1]
<1>1. ops \in Seq(Op)
  BY DEF IInv, TypeInv
<1>2. Len(ops) \in Nat /\ DOMAIN ops = 1 .. Len(ops)
  BY <1>1, LenProperties
<1>3. \A i \in 1 .. Len(ops) : ops[i] \in Op
  BY <1>1, ElementOfSeq
<1>4. ASSUME NEW i \in 1 .. Len(ops), NEW j \in 1 .. Len(ops), i < j
      PROVE  ops[i].number # ops[j].number
  <2>1. ops[i].number \in Nat /\ ops[j].number \in Nat
        /\ ops[i].size \in Nat /\ ops[i].size >= 1
    BY <1>3, Sizes DEF Op, IInv, ChainInv, OpInv
  <2>2. ops[i].number + ops[i].size <= ops[j].number
    BY <1>4 DEF IInv, ChainInv
  <2>3. QED
    BY <2>1, <2>2
<1>5. \A i, j \in 1 .. Len(ops) : ops[i].number = ops[j].number => i = j
  <2> SUFFICES ASSUME NEW i \in 1 .. Len(ops), NEW j \in 1 .. Len(ops),
                      ops[i].number = ops[j].number
               PROVE  i = j
    OBVIOUS
  <2>1. ~(i < j) /\ ~(j < i)
    BY <1>4
  <2>2. QED
    BY <2>1, <1>2
<1>6. ops = <<>> <=> Len(ops) = 0
  BY <1>1, EmptySeq
<1>7. ops # <<>> => 1 \in 1 .. Len(ops) /\ Head(ops) = ops[1]
  BY <1>1, <1>2, <1>6
<1>8. QED
  BY <1>2, <1>3, <1>5, <1>6, <1>7

(* memcpy of consecutive bytes to their places in the channel's buffer. *)
LEMMA StoredAt ==
    ASSUME IInv, NEW from \in Nat, NEW count \in Nat
    PROVE  /\ Stored(from, Bytes(from, count)) \in [0 .. MaxBytes - 1 -> Int]
           /\ \A n \in 1 .. MaxBytes :
                buffer[n - 1] = n \/ n \in from + 1 .. from + count
                  => Stored(from, Bytes(from, count))[n - 1] = n
<1> DEFINE b == Bytes(from, count)
<1>1. b = [i \in 1 .. count |-> from + i]
  BY DEF Bytes
<1>2. b \in Seq(Int) /\ Len(b) = count /\ \A i \in 1 .. count : b[i] = from + i
  <2>1. b \in [1 .. count -> Int]
    BY <1>1
  <2>2. b \in Seq(Int) /\ Len(b) = count
    BY <2>1
  <2>3. QED
    BY <1>1, <2>2
<1> HIDE DEF b
<1>3. buffer \in [0 .. MaxBytes - 1 -> Int]
  BY DEF IInv, TypeInv
<1>4. Stored(from, b) = [p \in 0 .. MaxBytes - 1 |->
        IF p \in from .. from + count - 1 THEN b[p - from + 1] ELSE buffer[p]]
  BY <1>2, <1>3 DEF Stored
<1>5. \A p \in from .. from + count - 1 : b[p - from + 1] = p + 1
  <2> SUFFICES ASSUME NEW p \in from .. from + count - 1
               PROVE  b[p - from + 1] = p + 1
    OBVIOUS
  <2>1. p - from + 1 \in 1 .. count /\ from + (p - from + 1) = p + 1
    OBVIOUS
  <2>2. QED
    BY <2>1, <1>2
<1>6. Stored(from, b) = [p \in 0 .. MaxBytes - 1 |->
        IF p \in from .. from + count - 1 THEN p + 1 ELSE buffer[p]]
  BY <1>4, <1>5
<1>7. Stored(from, b) \in [0 .. MaxBytes - 1 -> Int]
  BY <1>6, <1>3, Sizes
<1>8. ASSUME NEW n \in 1 .. MaxBytes,
             buffer[n - 1] = n \/ n \in from + 1 .. from + count
      PROVE  Stored(from, b)[n - 1] = n
  <2>1. n - 1 \in 0 .. MaxBytes - 1 /\ (n - 1) + 1 = n
    BY Sizes
  <2>2. Stored(from, b)[n - 1] =
          IF n - 1 \in from .. from + count - 1 THEN (n - 1) + 1 ELSE buffer[n - 1]
    BY <2>1, <1>6
  <2>3. n \in from + 1 .. from + count => n - 1 \in from .. from + count - 1
    BY Sizes
  <2>4. QED
    BY <2>1, <2>2, <2>3, <1>8
<1>9. QED
  BY <1>7, <1>8 DEF b
-----------------------------------------------------------------------------
(* What a step may do to the buffer: bytes in their place stay there, and   *)
(* of the others some, given, come to theirs.                               *)
Places(given) ==
    /\ buffer' \in [0 .. MaxBytes - 1 -> Int]
    /\ \A n \in 1 .. MaxBytes : buffer[n - 1] = n \/ n \in given => buffer'[n - 1] = n

(* An operation queued behind the others, as all calls that queue one do:   *)
(* it starts where the bytes reserved so far end.                           *)
LEMMA AppendStep ==
    ASSUME IInv, NEW o \in Op,
           ops' = Append(ops, o), reserved' = reserved + o.size,
           reserved' <= MaxBytes, acked' = acked, binder' = binder,
           direction' = direction,
           binder \in {"unbound", "bound"},
           user.pc # "clean", user'.pc # "clean",
           o.number = reserved, o.sent = 0, OpInv(o),
           Settled /\ ops = <<>> => o.op = MAP,
           regions' = IF o.op = MAP THEN regions \cup {RegionOf(o)} ELSE regions,
           released' = IF o.op = MAP THEN released
                       ELSE released \cup (reserved + 1 .. reserved + o.size),
           Places(IF o.op = PACKET /\ binder = "bound" /\ direction = "write"
                  THEN reserved + 1 .. reserved + o.size ELSE {})
    PROVE  ops' \in Seq(Op) /\ ChainInv' /\ RegionInv' /\ ReleasedInv' /\ BufferInv'
<1> DEFINE n == Len(ops)
<1>0. /\ TypeInv /\ ChainInv /\ SpaceInv /\ RegionInv /\ ReleasedInv /\ BufferInv
      /\ ModeInv
  BY DEF IInv
<1>1. /\ n \in Nat /\ \A i \in 1 .. n : ops[i] \in Op
      /\ ops = <<>> <=> n = 0
      /\ \A i, j \in 1 .. n : ops[i].number = ops[j].number => i = j
  BY OpsFacts
<1>2. /\ ops' \in Seq(Op) /\ Len(ops') = n + 1 /\ ops'[n + 1] = o
      /\ \A i \in 1 .. n : ops'[i] = ops[i]
  BY <1>0 DEF TypeInv
<1>3. \A i \in 1 .. n + 1 : i \in 1 .. n \/ i = n + 1
  BY <1>1
<1>4. /\ o.op \in {MAP, PACKET} /\ o.size \in Nat /\ 1 <= o.size
      /\ reserved \in Nat /\ acked \in Nat
      /\ MAP # PACKET
  BY <1>0, Sizes DEF Op, OpInv, TypeInv, MAP, PACKET
<1>5. Unplaced' = Unplaced /\ Settled' = Settled
  BY DEF Unplaced, Settled
<1>6. \A i \in 1 .. n : /\ OpInv(ops[i]) /\ ops[i].number + ops[i].size <= reserved
                        /\ ops[i].number \in Nat /\ ops[i].size \in Nat
                        /\ ops[i].sent \in Nat /\ 1 <= ops[i].size
                        /\ ops[i].sent <= ops[i].size
  BY <1>0, <1>1, SMTT(40) DEF ChainInv, Op, OpInv
<1> HIDE DEF n
<1>7. ChainInv'
  <2>1. \A i \in 1 .. n + 1 : /\ OpInv(ops[i])' /\ ops'[i].number + ops'[i].size <= reserved'
    <3> SUFFICES ASSUME NEW i \in 1 .. n + 1
                 PROVE  OpInv(ops[i])' /\ ops'[i].number + ops'[i].size <= reserved'
      OBVIOUS
    <3>1. CASE i \in 1 .. n
      <4>1. ops'[i] = ops[i] /\ OpInv(ops[i])
        BY <3>1, <1>2, <1>6
      <4>2. OpInv(ops[i])'
        BY <4>1, <1>5 DEF OpInv
      <4>3. QED
        BY <4>1, <4>2, <3>1, <1>4, <1>6, SMTT(40)
    <3>2. CASE i = n + 1
      <4>1. OpInv(o)'
        BY <1>5 DEF OpInv
      <4>2. QED
        BY <4>1, <3>2, <1>2, <1>4
    <3>3. QED
      BY <3>1, <3>2, <1>3
  <2>2. \A i, j \in 1 .. n + 1 :
          i < j => ops'[i].number + ops'[i].size <= ops'[j].number
    <3> SUFFICES ASSUME NEW i \in 1 .. n + 1, NEW j \in 1 .. n + 1, i < j
                 PROVE  ops'[i].number + ops'[i].size <= ops'[j].number
      OBVIOUS
    <3>1. i \in 1 .. n
      <4>1. i \in Int /\ j \in Int /\ 1 <= i /\ j <= n + 1
        BY <1>1
      <4>2. QED
        BY <4>1, <1>1
    <3>2. CASE j \in 1 .. n
      <4>1. ops[i].number + ops[i].size <= ops[j].number
        BY <3>1, <3>2, <1>0 DEF ChainInv, n
      <4>2. QED
        BY <4>1, <3>1, <3>2, <1>2
    <3>3. CASE j = n + 1
      BY <3>1, <3>3, <1>2, <1>6
    <3>4. QED
      BY <3>2, <3>3, <1>3
  <2>3. \A i \in 1 .. n : ops'[i + 1].number = ops'[i].number + ops'[i].size
    <3> SUFFICES ASSUME NEW i \in 1 .. n
                 PROVE  ops'[i + 1].number = ops'[i].number + ops'[i].size
      OBVIOUS
    <3>1. CASE i = n
      <4>1. reserved = ops[n].number + ops[n].size
        BY <3>1, <1>0, <1>1 DEF ChainInv, n
      <4>2. QED
        BY <4>1, <3>1, <1>2
    <3>2. CASE i # n
      <4>1. i \in 1 .. n - 1 /\ i + 1 \in 1 .. n
        BY <3>2, <1>1
      <4>2. ops[i + 1].number = ops[i].number + ops[i].size
        BY <4>1, <1>0 DEF ChainInv, n
      <4>3. QED
        BY <4>1, <4>2, <1>2
    <3>3. QED
      BY <3>1, <3>2
  <2>4. ops' # <<>>
    BY <1>1, <1>2
  <2>5. reserved' = ops'[n + 1].number + ops'[n + 1].size
    BY <1>2
  <2>6. /\ acked' = ops'[1].number + (IF Settled' THEN ops'[1].sent ELSE 0)
        /\ Settled' => ops'[1].op = MAP /\ ops'[1].sent < ops'[1].size
    <3>1. CASE ops = <<>>
      <4>1. acked = reserved /\ n = 0 /\ ops'[1] = o
        BY <3>1, <1>0, <1>1, <1>2 DEF ChainInv
      <4>2. QED
        BY <4>1, <3>1, <1>4, <1>5
    <3>2. CASE ops # <<>>
      <4>1. 1 \in 1 .. n /\ ops'[1] = ops[1]
        BY <3>2, <1>1, <1>2
      <4>2. /\ acked = ops[1].number + (IF Settled THEN ops[1].sent ELSE 0)
            /\ Settled => ops[1].op = MAP /\ ops[1].sent < ops[1].size
        BY <3>2, <1>0 DEF ChainInv
      <4>3. QED
        BY <4>1, <4>2, <1>5
    <3>3. QED
      BY <3>1, <3>2
  <2>7. Len(ops') - 1 = n
    BY <1>1, <1>2
  <2>8. QED
    BY <2>1, <2>2, <2>3, <2>4, <2>5, <2>6, <2>7, <1>2, ZenonT(60) DEF ChainInv
<1>8. RegionInv'
  <2>1. ASSUME NEW r
        PROVE  r \in regions' <=> \E i \in 1 .. n + 1 : Held(ops'[i]) /\ r = RegionOf(ops'[i])
    <3>1. r \in regions <=> \E i \in 1 .. n : Held(ops[i]) /\ r = RegionOf(ops[i])
      BY <1>0 DEF RegionInv, n
    <3>2. Held(o) <=> o.op = MAP
      BY <1>4 DEF Held
    <3>3. r \in regions' <=> r \in regions \/ (Held(o) /\ r = RegionOf(o))
      BY <3>2
    <3>4. n + 1 \in 1 .. n + 1 /\ \A i \in 1 .. n : i \in 1 .. n + 1
      BY <1>1
    <3>5. QED
      BY <3>1, <3>3, <3>4, <1>2, <1>3
  <2>2. regions' = {RegionOf(ops'[i]) : i \in {x \in 1 .. n + 1 : Held(ops'[x])}}
    BY <2>1
  <2>3. QED
    BY <2>2, <1>2 DEF RegionInv, RegionOf, Held
<1>9. ReleasedInv'
  <2>0. HeldBytes(o) = IF o.op = MAP THEN reserved + 1 .. reserved + o.size ELSE {}
    BY <1>4 DEF HeldBytes
  <2>1. ASSUME NEW b \in 1 .. reserved'
        PROVE  b \in released' <=> \A i \in 1 .. n + 1 : b \notin HeldBytes(ops'[i])
    <3>1. b \in 1 .. reserved \/ b \in reserved + 1 .. reserved + o.size
      BY <1>4
    <3>2. (\A i \in 1 .. n + 1 : b \notin HeldBytes(ops'[i])) <=>
             (\A i \in 1 .. n : b \notin HeldBytes(ops[i])) /\ b \notin HeldBytes(o)
      <4>1. n + 1 \in 1 .. n + 1 /\ \A i \in 1 .. n : i \in 1 .. n + 1
        BY <1>1
      <4>2. QED
        BY <4>1, <1>2, <1>3
    <3>3. CASE b \in 1 .. reserved
      <4>1. b \in released <=> \A i \in 1 .. n : b \notin HeldBytes(ops[i])
        BY <3>3, <1>0 DEF ReleasedInv, n
      <4>2. b \notin reserved + 1 .. reserved + o.size
        BY <3>3, <1>4
      <4>3. QED
        BY <4>1, <4>2, <3>2, <2>0
    <3>4. CASE b \in reserved + 1 .. reserved + o.size
      <4>1. b \notin released
        BY <3>4, <1>0, <1>4 DEF ReleasedInv
      <4>2. \A i \in 1 .. n : b \notin HeldBytes(ops[i])
        BY <3>4, <1>4, <1>6 DEF HeldBytes
      <4>3. QED
        BY <4>1, <4>2, <3>2, <3>4, <2>0
    <3>5. QED
      BY <3>1, <3>3, <3>4
  <2>2. released' \subseteq 1 .. reserved'
    BY <1>0, <1>4 DEF ReleasedInv
  <2>3. released' = {b \in 1 .. reserved' : \A i \in 1 .. n + 1 : b \notin HeldBytes(ops'[i])}
    BY <2>1, <2>2
  <2>4. QED
    BY <2>3, <1>2 DEF ReleasedInv, HeldBytes
<1>10. BufferInv'
  <2>0. MaxBytes \in Nat /\ reserved <= MaxBytes /\ acked <= reserved
    BY Sizes, <1>0 DEF SpaceInv
  <2>1. direction = "read" => \A p \in 0 .. MaxBytes - 1 : buffer'[p] = p + 1
    <3> SUFFICES ASSUME direction = "read", NEW p \in 0 .. MaxBytes - 1
                 PROVE  buffer'[p] = p + 1
      OBVIOUS
    <3>1. p + 1 \in 1 .. MaxBytes /\ (p + 1) - 1 = p
      BY <2>0
    <3>2. buffer[p] = p + 1
      BY <1>0 DEF BufferInv
    <3>3. QED
      BY <3>1, <3>2 DEF Places
  <2>2. \A b \in 1 .. acked : buffer'[b - 1] = b
    BY <2>0, <1>0, <1>4 DEF BufferInv, Places
  <2>3. ASSUME ~Unplaced, NEW i \in 1 .. n + 1, NEW b \in GivenBytes(ops'[i])
        PROVE  buffer'[b - 1] = b
    <3>1. CASE i \in 1 .. n
      <4>1. b \in GivenBytes(ops[i])
        BY <3>1, <2>3, <1>2
      <4>2. buffer[b - 1] = b
        BY <4>1, <3>1, <2>3, <1>0 DEF BufferInv, n
      <4>3. b \in 1 .. MaxBytes
        <5>1. /\ ops[i].number \in Nat /\ ops[i].size \in Nat /\ ops[i].sent \in Nat
              /\ ops[i].sent <= ops[i].size /\ ops[i].number + ops[i].size <= reserved
          BY <3>1, <1>6
        <5>2. /\ b \in Int /\ ops[i].number + 1 <= b
              /\ b <= ops[i].number + ops[i].size
          BY <4>1, <5>1, SMTT(40) DEF GivenBytes
        <5>3. QED
          BY <5>1, <5>2, <1>4, <2>0, SMTT(40)
      <4>4. QED
        BY <4>2, <4>3 DEF Places
    <3>2. CASE i = n + 1
      <4>1. b \in reserved + 1 .. reserved + (IF o.op = MAP THEN 0 ELSE o.size)
        BY <3>2, <2>3, <1>2 DEF GivenBytes
      <4>2. o.op = PACKET /\ b \in reserved + 1 .. reserved + o.size /\ b \in 1 .. MaxBytes
        BY <4>1, <1>4, <2>0
      <4>3. binder = "bound"
        BY <2>3 DEF Unplaced
      <4>4. CASE direction = "write"
        BY <4>2, <4>3, <4>4 DEF Places
      <4>5. CASE direction = "read"
        <5>1. b - 1 \in 0 .. MaxBytes - 1 /\ (b - 1) + 1 = b
          BY <4>2, <2>0
        <5>2. QED
          BY <4>5, <5>1, <2>1
      <4>6. QED
        BY <4>4, <4>5, <1>0 DEF TypeInv
    <3>3. QED
      BY <3>1, <3>2, <1>3
  <2>4. QED
    BY <2>1, <2>2, <2>3, <1>2, <1>5 DEF BufferInv, GivenBytes
<1>11. QED
  BY <1>2, <1>7, <1>8, <1>9, <1>10
(* The first operation leaves the queue when all of it is acknowledged, the *)
(* part the user gives up with it in this step included.                    *)
LEMMA DropStep ==
    ASSUME IInv, ops # <<>>,
           ops' \in Seq(Op), Len(ops') = Len(ops) - 1,
           \A k \in 1 .. Len(ops) - 1 : ops'[k] = ops[k + 1],
           acked' = ops[1].number + ops[1].size, reserved' = reserved,
           direction' = direction, binder' = binder, ~Unplaced, ~Settled',
           regions' = regions \ {RegionOf(ops[1])},
           released' = released \cup HeldBytes(ops[1]),
           Places(HeldBytes(ops[1]))
    PROVE  ChainInv' /\ RegionInv' /\ ReleasedInv' /\ BufferInv'
<1> DEFINE n == Len(ops)
           f == ops[1]
<1>0. /\ TypeInv /\ ChainInv /\ SpaceInv /\ RegionInv /\ ReleasedInv /\ BufferInv
  BY DEF IInv
<1>1. /\ n \in Nat /\ \A i \in 1 .. n : ops[i] \in Op
      /\ 1 \in 1 .. n
      /\ \A i, j \in 1 .. n : ops[i].number = ops[j].number => i = j
  BY OpsFacts
<1>2. \A i \in 1 .. n : /\ OpInv(ops[i]) /\ ops[i].number + ops[i].size <= reserved
                        /\ ops[i].number \in Nat /\ ops[i].size \in Nat
                        /\ ops[i].sent \in Nat /\ 1 <= ops[i].size
                        /\ ops[i].sent <= ops[i].size
                        /\ ops[i].op \in {MAP, PACKET}
  BY <1>0, <1>1, Sizes DEF ChainInv, Op, OpInv
<1>3. /\ reserved \in Nat /\ acked \in Nat /\ reserved <= MaxBytes /\ MaxBytes \in Nat
  BY <1>0, Sizes DEF TypeInv, SpaceInv
<1>4. Unplaced' = Unplaced /\ ~Settled' /\ Len(ops') = n - 1
  BY DEF Unplaced
<1>5. \A i \in 1 .. n : i = 1 \/ (i - 1 \in 1 .. n - 1 /\ (i - 1) + 1 = i)
  BY <1>1
<1>6. \A k \in 1 .. n - 1 : k + 1 \in 1 .. n /\ k + 1 # 1 /\ k \in 1 .. n /\ ops'[k] = ops[k + 1]
  BY <1>1
<1>7. \A i, j \in 1 .. n : i < j => ops[i].number + ops[i].size <= ops[j].number
  BY <1>0 DEF ChainInv
<1>8. \A i \in 1 .. n - 1 : ops[i + 1].number = ops[i].number + ops[i].size
  BY <1>0 DEF ChainInv
<1>9. \A i \in 1 .. n : i # 1 => f.number + f.size <= ops[i].number
  <2> SUFFICES ASSUME NEW i \in 1 .. n, i # 1
               PROVE  f.number + f.size <= ops[i].number
    OBVIOUS
  <2>1. 1 < i
    OBVIOUS
  <2>2. QED
    BY <2>1, <1>1, <1>7
<1>10. acked = f.number + (IF Settled THEN f.sent ELSE 0)
  BY <1>0 DEF ChainInv
<1>11. f \in Op /\ f.number \in Nat /\ f.size \in Nat /\ f.sent \in Nat
       /\ f.sent <= f.size /\ f.number + f.size <= reserved /\ f.op \in {MAP, PACKET}
  BY <1>1, <1>2
<1> HIDE DEF n, f
<1>20. ChainInv'
  <2>1. \A k \in 1 .. n - 1 : OpInv(ops[k])' /\ ops'[k].number + ops'[k].size <= reserved'
    <3> SUFFICES ASSUME NEW k \in 1 .. n - 1
                 PROVE  OpInv(ops[k])' /\ ops'[k].number + ops'[k].size <= reserved'
      OBVIOUS
    <3>1. ops'[k] = ops[k + 1] /\ k + 1 \in 1 .. n
      BY <1>6
    <3>2. OpInv(ops[k + 1]) /\ ops[k + 1].number + ops[k + 1].size <= reserved
      BY <3>1, <1>2
    <3>3. OpInv(ops[k])'
      BY <3>1, <3>2, <1>4 DEF OpInv
    <3>4. QED
      BY <3>1, <3>2, <3>3
  <2>2. \A i, j \in 1 .. n - 1 :
          i < j => ops'[i].number + ops'[i].size <= ops'[j].number
    <3> SUFFICES ASSUME NEW i \in 1 .. n - 1, NEW j \in 1 .. n - 1, i < j
                 PROVE  ops'[i].number + ops'[i].size <= ops'[j].number
      OBVIOUS
    <3>1. i + 1 < j + 1
      OBVIOUS
    <3>2. /\ ops'[i] = ops[i + 1] /\ i + 1 \in 1 .. n
          /\ ops'[j] = ops[j + 1] /\ j + 1 \in 1 .. n
      BY <1>6
    <3>3. QED
      BY <3>1, <3>2, <1>7
  <2>3. \A k \in 1 .. (n - 1) - 1 : ops'[k + 1].number = ops'[k].number + ops'[k].size
    <3> SUFFICES ASSUME NEW k \in 1 .. (n - 1) - 1
                 PROVE  ops'[k + 1].number = ops'[k].number + ops'[k].size
      OBVIOUS
    <3>1. k \in 1 .. n - 1 /\ k + 1 \in 1 .. n - 1
      BY <1>1
    <3>2. ops'[k] = ops[k + 1] /\ ops'[k + 1] = ops[(k + 1) + 1]
      BY <3>1, <1>6
    <3>3. QED
      BY <3>1, <3>2, <1>8
  <2>4. IF ops' = <<>> THEN acked' = reserved'
        ELSE /\ reserved' = ops'[n - 1].number + ops'[n - 1].size
             /\ acked' = ops'[1].number
    <3>0. reserved = ops[n].number + ops[n].size
      BY <1>0 DEF ChainInv, n
    <3>1. ops' = <<>> <=> n - 1 = 0
      BY <1>4, EmptySeq
    <3>2. CASE n = 1
      BY <3>0, <3>1, <3>2 DEF f
    <3>3. CASE n # 1
      <4>1. 1 \in 1 .. n - 1 /\ n - 1 \in 1 .. n - 1 /\ (n - 1) + 1 = n
        BY <3>3, <1>1
      <4>2. ops'[n - 1] = ops[n] /\ ops'[1] = ops[1 + 1]
        BY <4>1, <1>6
      <4>3. ops[1 + 1].number = f.number + f.size
        BY <4>1, <1>8 DEF f
      <4>4. n - 1 # 0
        BY <4>1
      <4>5. acked' = f.number + f.size
        BY DEF f
      <4>6. QED
        BY <4>2, <4>3, <4>4, <4>5, <3>0, <3>1
    <3>4. QED
      BY <3>2, <3>3
  <2>5. ops' # <<>> => ops'[1].number \in Nat
    <3> SUFFICES ASSUME ops' # <<>> PROVE ops'[1].number \in Nat
      OBVIOUS
    <3>1. n - 1 # 0
      BY <1>4, EmptySeq
    <3>2. 1 \in 1 .. n - 1
      BY <3>1, <1>1
    <3>3. ops'[1] = ops[1 + 1] /\ 1 + 1 \in 1 .. n
      BY <3>2, <1>6
    <3>4. QED
      BY <3>3, <1>2
  <2>6. IF ops' = <<>> THEN acked' = reserved'
        ELSE /\ reserved' = ops'[Len(ops')].number + ops'[Len(ops')].size
             /\ acked' = ops'[1].number + (IF Settled' THEN ops'[1].sent ELSE 0)
             /\ Settled' => ops'[1].op = MAP /\ ops'[1].sent < ops'[1].size
    BY <2>4, <2>5, <1>4
  <2>7. /\ \A k \in 1 .. Len(ops') : OpInv(ops[k])' /\ ops'[k].number + ops'[k].size <= reserved'
        /\ \A i, j \in 1 .. Len(ops') :
             i < j => ops'[i].number + ops'[i].size <= ops'[j].number
        /\ \A k \in 1 .. Len(ops') - 1 : ops'[k + 1].number = ops'[k].number + ops'[k].size
    BY <2>1, <2>2, <2>3, <1>4
  <2>8. QED
    BY <2>6, <2>7 DEF ChainInv
<1>21. RegionInv'
  <2>1. ASSUME NEW r
        PROVE  r \in regions' <=>
                 \E k \in 1 .. n - 1 : Held(ops'[k]) /\ r = RegionOf(ops'[k])
    <3>1. r \in regions <=> \E i \in 1 .. n : Held(ops[i]) /\ r = RegionOf(ops[i])
      BY <1>0 DEF RegionInv, n
    <3>2. r \in regions' <=> r \in regions /\ r # RegionOf(f)
      BY DEF f
    <3>3. \A i \in 1 .. n : RegionOf(ops[i]) = RegionOf(f) => i = 1
      BY <1>1 DEF RegionOf, f
    <3>4. r \in regions' <=>
            \E i \in 1 .. n : i # 1 /\ Held(ops[i]) /\ r = RegionOf(ops[i])
      BY <3>1, <3>2, <3>3 DEF f
    <3>5. ASSUME NEW i \in 1 .. n, i # 1, Held(ops[i]), r = RegionOf(ops[i])
          PROVE  \E k \in 1 .. n - 1 : Held(ops'[k]) /\ r = RegionOf(ops'[k])
      <4>1. i - 1 \in 1 .. n - 1 /\ ops'[i - 1] = ops[i]
        BY <3>5, <1>5, <1>6
      <4>2. QED
        BY <3>5, <4>1
    <3>6. ASSUME NEW k \in 1 .. n - 1, Held(ops'[k]), r = RegionOf(ops'[k])
          PROVE  \E i \in 1 .. n : i # 1 /\ Held(ops[i]) /\ r = RegionOf(ops[i])
      BY <3>6, <1>6
    <3>7. QED
      BY <3>4, <3>5, <3>6
  <2>2. regions' = {RegionOf(ops'[k]) : k \in {x \in 1 .. n - 1 : Held(ops'[x])}}
    BY <2>1
  <2>3. binder \in {"move", "clean"} => regions' = {}
    BY <1>0 DEF RegionInv
  <2>4. QED
    BY <2>2, <2>3, <1>4 DEF RegionInv, RegionOf, Held
<1>22. ReleasedInv'
  <2>0. \A i \in 1 .. n : HeldBytes(ops[i]) =
          IF ops[i].op = MAP
          THEN ops[i].number + ops[i].sent + 1 .. ops[i].number + ops[i].size ELSE {}
    BY DEF HeldBytes
  <2>1. ASSUME NEW b \in 1 .. reserved
        PROVE  b \in released' <=> \A k \in 1 .. n - 1 : b \notin HeldBytes(ops'[k])
    <3>1. b \in released <=> \A i \in 1 .. n : b \notin HeldBytes(ops[i])
      BY <1>0 DEF ReleasedInv, n
    <3>2. (\A k \in 1 .. n - 1 : b \notin HeldBytes(ops'[k])) <=>
            \A i \in 1 .. n : i # 1 => b \notin HeldBytes(ops[i])
      BY <1>5, <1>6, SMTT(40)
    <3>3. CASE b \in HeldBytes(f)
      <4>1. b \in Int /\ b <= f.number + f.size
        BY <3>3, <1>11 DEF HeldBytes
      <4>2. ASSUME NEW i \in 1 .. n, i # 1 PROVE b \notin HeldBytes(ops[i])
        <5>1. f.number + f.size <= ops[i].number /\ ops[i].number \in Nat /\ ops[i].sent \in Nat
          BY <4>2, <1>2, <1>9
        <5>2. QED
          BY <5>1, <4>1, <1>11, SMTT(40) DEF HeldBytes
      <4>3. QED
        BY <4>2, <3>2, <3>3 DEF f
    <3>4. CASE b \notin HeldBytes(f)
      BY <3>1, <3>2, <3>4 DEF f
    <3>5. QED
      BY <3>3, <3>4
  <2>2. HeldBytes(f) \subseteq 1 .. reserved
    BY <1>11, <1>3 DEF HeldBytes
  <2>3. released' \subseteq 1 .. reserved
    BY <1>0, <2>2 DEF ReleasedInv, f
  <2>4. released' = {b \in 1 .. reserved : \A k \in 1 .. n - 1 : b \notin HeldBytes(ops'[k])}
    BY <2>1, <2>3
  <2>5. QED
    BY <2>4, <1>4 DEF ReleasedInv, HeldBytes
<1>23. BufferInv'
  <2>1. direction = "read" => \A p \in 0 .. MaxBytes - 1 : buffer'[p] = p + 1
    <3> SUFFICES ASSUME direction = "read", NEW p \in 0 .. MaxBytes - 1
                 PROVE  buffer'[p] = p + 1
      OBVIOUS
    <3>1. p + 1 \in 1 .. MaxBytes /\ (p + 1) - 1 = p
      BY <1>3
    <3>2. buffer[p] = p + 1
      BY <1>0 DEF BufferInv
    <3>3. QED
      BY <3>1, <3>2 DEF Places
  <2>2. ASSUME NEW b \in 1 .. acked' PROVE buffer'[b - 1] = b
    <3>1. acked' = f.number + f.size
      BY DEF f
    <3>2. b \in 1 .. MaxBytes /\ b <= f.number + f.size /\ b \in Nat /\ 1 <= b
      BY <3>1, <1>3, <1>11
    <3>3. CASE b <= acked
      <4>1. b \in 1 .. acked
        BY <3>2, <3>3, <1>3
      <4>2. buffer[b - 1] = b
        BY <4>1, <1>0 DEF BufferInv
      <4>3. QED
        BY <4>2, <3>2 DEF Places
    <3>4. CASE acked < b
      <4>1. f.number < b
        BY <3>4, <3>2, <1>10, <1>11
      <4>2. b \in GivenBytes(f) \/ b \in HeldBytes(f)
        BY <4>1, <3>2, <1>11 DEF GivenBytes, HeldBytes
      <4>3. b \in GivenBytes(f) => buffer[b - 1] = b
        BY <1>0, <1>1 DEF BufferInv, f, n
      <4>4. QED
        BY <4>2, <4>3, <3>2 DEF Places, f
    <3>5. QED
      BY <3>2, <3>3, <3>4, <1>3
  <2>3. ASSUME NEW k \in 1 .. n - 1, NEW b \in GivenBytes(ops'[k])
        PROVE  buffer'[b - 1] = b
    <3>1. k + 1 \in 1 .. n /\ b \in GivenBytes(ops[k + 1])
      BY <2>3, <1>6
    <3>2. buffer[b - 1] = b
      BY <3>1, <1>0 DEF BufferInv, n
    <3>3. b \in 1 .. MaxBytes
      <4> DEFINE e == ops[k + 1]
      <4>1. /\ e.number \in Nat /\ e.size \in Nat /\ e.sent \in Nat
            /\ e.sent <= e.size /\ e.number + e.size <= reserved
        BY <3>1, <1>2
      <4>2. b \in GivenBytes(e)
        BY <3>1
      <4> HIDE DEF e
      <4>3. /\ b \in Int /\ e.number + 1 <= b /\ b <= e.number + e.size
        BY <4>1, <4>2, SMTT(40) DEF GivenBytes
      <4>4. QED
        BY <4>1, <4>3, <1>3
    <3>4. QED
      BY <3>2, <3>3 DEF Places
  <2>4. QED
    BY <2>1, <2>2, <2>3, <1>4 DEF BufferInv, GivenBytes
<1>24. QED
  BY <1>20, <1>21, <1>22, <1>23
(* The user gives up the next part of a region: it is marked, and           *)
(* acknowledged when the region is the first and the pipe has a channel.    *)
LEMMA AdvanceStep ==
    ASSUME IInv, NEW i \in 1 .. Len(ops), NEW c \in Nat, NEW o \in Op,
           Held(ops[i]), 1 <= c, ops[i].sent + c <= ops[i].size,
           o.op = MAP, o.size = ops[i].size, o.number = ops[i].number,
           o.mmd = ops[i].mmd, o.host = ops[i].host, o.sent = ops[i].sent + c,
           o.host => o.filled = o.sent,
           ops' = [ops EXCEPT ![i] = o],
           reserved' = reserved, direction' = direction, binder' = binder,
           binder \notin {"move", "clean"},
           Settled' = Settled,
           i = 1 /\ Settled => o.sent < o.size,
           acked' = acked + (IF i = 1 /\ Settled THEN c ELSE 0),
           regions' = (regions \ {RegionOf(ops[i])}) \cup
                      (IF o.sent < o.size THEN {RegionOf(o)} ELSE {}),
           released' = released \cup (o.number + ops[i].sent + 1 .. o.number + o.sent),
           Places(IF Unplaced THEN {} ELSE o.number + ops[i].sent + 1 .. o.number + o.sent)
    PROVE  ops' \in Seq(Op) /\ ChainInv' /\ RegionInv' /\ ReleasedInv' /\ BufferInv'
<1> DEFINE n == Len(ops)
           s == ops[i].sent
<1>0. /\ TypeInv /\ ChainInv /\ SpaceInv /\ RegionInv /\ ReleasedInv /\ BufferInv
  BY DEF IInv
<1>1. /\ n \in Nat /\ \A k \in 1 .. n : ops[k] \in Op
      /\ i \in 1 .. n
      /\ \A j, k \in 1 .. n : ops[j].number = ops[k].number => j = k
  BY OpsFacts
<1>2. \A k \in 1 .. n : /\ OpInv(ops[k]) /\ ops[k].number + ops[k].size <= reserved
                        /\ ops[k].number \in Nat /\ ops[k].size \in Nat
                        /\ ops[k].sent \in Nat /\ 1 <= ops[k].size
                        /\ ops[k].sent <= ops[k].size
                        /\ ops[k].op \in {MAP, PACKET}
  BY <1>0, <1>1, Sizes, SMTT(40) DEF ChainInv, Op, OpInv
<1>3. /\ reserved \in Nat /\ acked \in Nat /\ reserved <= MaxBytes /\ MaxBytes \in Nat
  BY <1>0, Sizes DEF TypeInv, SpaceInv
<1>4. /\ ops' \in Seq(Op) /\ Len(ops') = n /\ ops'[i] = o
      /\ \A k \in 1 .. n : k # i => ops'[k] = ops[k]
  <2>1. /\ ops' \in Seq(Op) /\ Len(ops') = n
        /\ \A k \in 1 .. n : ops'[k] = IF k = i THEN o ELSE ops[k]
    BY <1>0, <1>1, ExceptSeq DEF TypeInv
  <2>2. QED
    BY <2>1, <1>1
<1>5. Unplaced' = Unplaced
  BY DEF Unplaced
<1>6. /\ s \in Nat /\ o.number \in Nat /\ o.size \in Nat /\ o.sent \in Nat
      /\ s < o.sent /\ o.sent <= o.size /\ o.number + o.size <= reserved /\ 1 <= o.size
      /\ o.sent = s + c
      /\ ops[i].op = MAP /\ MAP # PACKET
  BY <1>1, <1>2 DEF Held, MAP, PACKET
<1>7. \A k \in 1 .. n : /\ ops'[k].number = ops[k].number /\ ops'[k].size = ops[k].size
                        /\ ops'[k].op = ops[k].op
  BY <1>4, <1>6
<1>8. \A j, k \in 1 .. n : j < k => ops[j].number + ops[j].size <= ops[k].number
  BY <1>0 DEF ChainInv
<1> HIDE DEF n, s
<1>20. ChainInv'
  <2>1. \A k \in 1 .. n : OpInv(ops[k])' /\ ops'[k].number + ops'[k].size <= reserved'
    <3> SUFFICES ASSUME NEW k \in 1 .. n
                 PROVE  OpInv(ops[k])' /\ ops'[k].number + ops'[k].size <= reserved'
      OBVIOUS
    <3>1. OpInv(ops[k]) /\ ops[k].number + ops[k].size <= reserved
      BY <1>2
    <3>2. CASE k = i
      <4>1. /\ o.size \in 1 .. Depth /\ o.sent <= o.size /\ o.op # PACKET
            /\ o.mmd = (IF Unplaced THEN -1 ELSE o.number) /\ o.host = Unplaced
        BY <3>1, <3>2, <1>6 DEF OpInv
      <4>2. OpInv(ops[k])'
        BY <4>1, <3>2, <1>4, <1>5, <1>6 DEF OpInv
      <4>3. QED
        BY <4>2, <3>1, <1>7
    <3>3. CASE k # i
      <4>1. ops'[k] = ops[k]
        BY <3>3, <1>4
      <4>2. OpInv(ops[k])'
        BY <4>1, <3>1, <1>5 DEF OpInv
      <4>3. QED
        BY <4>1, <4>2, <3>1
    <3>4. QED
      BY <3>2, <3>3
  <2>2. \A j, k \in 1 .. n : j < k => ops'[j].number + ops'[j].size <= ops'[k].number
    BY <1>7, <1>8
  <2>3. \A k \in 1 .. n - 1 : ops'[k + 1].number = ops'[k].number + ops'[k].size
    <3> SUFFICES ASSUME NEW k \in 1 .. n - 1
                 PROVE  ops'[k + 1].number = ops'[k].number + ops'[k].size
      OBVIOUS
    <3>1. k \in 1 .. n /\ k + 1 \in 1 .. n
      BY <1>1
    <3>2. ops[k + 1].number = ops[k].number + ops[k].size
      BY <1>0 DEF ChainInv, n
    <3>3. QED
      BY <3>1, <3>2, <1>7
  <2>4. ops # <<>> /\ ops' # <<>> /\ n \in 1 .. n /\ 1 \in 1 .. n
    BY <1>0, <1>1, <1>4, EmptySeq DEF TypeInv, n
  <2>5. /\ reserved = ops[n].number + ops[n].size
        /\ acked = ops[1].number + (IF Settled THEN ops[1].sent ELSE 0)
        /\ Settled => ops[1].op = MAP /\ ops[1].sent < ops[1].size
    BY <2>4, <1>0 DEF ChainInv, n
  <2>6. reserved' = ops'[n].number + ops'[n].size
    BY <2>4, <2>5, <1>7
  <2>7. /\ acked' = ops'[1].number + (IF Settled' THEN ops'[1].sent ELSE 0)
        /\ Settled' => ops'[1].op = MAP /\ ops'[1].sent < ops'[1].size
    <3>1. CASE i = 1
      <4>1. ops'[1] = o /\ ops[1].sent = s /\ ops[1].number = o.number
        BY <3>1, <1>4 DEF s
      <4>2. CASE Settled
        BY <4>1, <4>2, <3>1, <2>5, <1>6, SMTT(40)
      <4>3. CASE ~Settled
        BY <4>1, <4>3, <3>1, <2>5, <1>6, <1>3
      <4>4. QED
        BY <4>2, <4>3
    <3>2. CASE i # 1
      <4>1. ops'[1] = ops[1] /\ acked' = acked
        BY <3>2, <2>4, <1>3, <1>4
      <4>2. QED
        BY <4>1, <2>5
    <3>3. QED
      BY <3>1, <3>2
  <2>8. QED
    BY <2>1, <2>2, <2>3, <2>4, <2>6, <2>7, <1>4 DEF ChainInv
<1>21. RegionInv'
  <2>1. ASSUME NEW r
        PROVE  r \in regions' <=> \E k \in 1 .. n : Held(ops'[k]) /\ r = RegionOf(ops'[k])
    <3>1. r \in regions <=> \E k \in 1 .. n : Held(ops[k]) /\ r = RegionOf(ops[k])
      BY <1>0 DEF RegionInv, n
    <3>2. Held(o) <=> o.sent < o.size
      BY DEF Held
    <3>3. r \in regions' <=> \/ r \in regions /\ r # RegionOf(ops[i])
                             \/ Held(o) /\ r = RegionOf(o)
      BY <3>2
    <3>4. \A k \in 1 .. n : RegionOf(ops[k]) = RegionOf(ops[i]) => k = i
      BY <1>1 DEF RegionOf
    <3>5. r \in regions /\ r # RegionOf(ops[i]) <=>
            \E k \in 1 .. n : k # i /\ Held(ops[k]) /\ r = RegionOf(ops[k])
      BY <3>1, <3>4
    <3>6. QED
      BY <3>3, <3>5, <1>1, <1>4
  <2>2. regions' = {RegionOf(ops'[k]) : k \in {x \in 1 .. n : Held(ops'[x])}}
    BY <2>1
  <2>3. QED
    BY <2>2, <1>4 DEF RegionInv, RegionOf, Held
<1>22. ReleasedInv'
  <2>1. ASSUME NEW b \in 1 .. reserved
        PROVE  b \in released' <=> \A k \in 1 .. n : b \notin HeldBytes(ops'[k])
    <3>1. b \in released <=> \A k \in 1 .. n : b \notin HeldBytes(ops[k])
      BY <1>0 DEF ReleasedInv, n
    <3>2. HeldBytes(ops[i]) = o.number + s + 1 .. o.number + o.size
          /\ HeldBytes(o) = o.number + o.sent + 1 .. o.number + o.size
      BY <1>6 DEF HeldBytes, s
    <3>3. (\A k \in 1 .. n : b \notin HeldBytes(ops'[k])) <=>
            (\A k \in 1 .. n : k # i => b \notin HeldBytes(ops[k])) /\ b \notin HeldBytes(o)
      BY <1>1, <1>4
    <3>4. CASE b \in HeldBytes(ops[i])
      <4>1. b \in Int /\ o.number + s < b /\ b <= o.number + o.size
        BY <3>2, <3>4, <1>6
      <4>2. ASSUME NEW k \in 1 .. n, k # i PROVE b \notin HeldBytes(ops[k])
        <5>1. /\ ops[k].number \in Nat /\ ops[k].sent \in Nat /\ ops[k].size \in Nat
          BY <1>2
        <5>2. \/ ops[k].number + ops[k].size <= o.number
              \/ o.number + o.size <= ops[k].number
          <6>1. k < i \/ i < k
            BY <4>2, <1>1
          <6>2. QED
            BY <6>1, <1>1, <1>8
        <5>3. b \in HeldBytes(ops[k]) =>
                ops[k].number < b /\ b <= ops[k].number + ops[k].size
          BY <5>1 DEF HeldBytes
        <5>4. o.number \in Nat /\ o.size \in Nat /\ s \in Nat
          BY <1>6
        <5>5. CASE ops[k].number + ops[k].size <= o.number
          BY ONLY <4>1, <5>1, <5>3, <5>4, <5>5, SMTT(40)
        <5>6. CASE o.number + o.size <= ops[k].number
          BY ONLY <4>1, <5>1, <5>3, <5>4, <5>6
        <5>7. QED
          BY <5>2, <5>5, <5>6
      <4>3. (\A k \in 1 .. n : b \notin HeldBytes(ops'[k])) <=> b \notin HeldBytes(o)
        BY <4>2, <3>3
      <4>4. b \notin released
        BY <3>1, <3>4, <1>1
      <4>5. b \notin HeldBytes(o) <=> b \in o.number + s + 1 .. o.number + o.sent
        BY <4>1, <3>2, <1>6, SMTT(40)
      <4>6. QED
        BY <4>3, <4>4, <4>5 DEF s
    <3>5. CASE b \notin HeldBytes(ops[i])
      <4>1. b \notin HeldBytes(o) /\ b \notin o.number + s + 1 .. o.number + o.sent
        <5>1. ~(o.number + s + 1 <= b /\ b <= o.number + o.size)
          BY <3>2, <3>5
        <5>2. b \in HeldBytes(o) => o.number + o.sent + 1 <= b /\ b <= o.number + o.size
          BY <3>2
        <5>3. QED
          BY <5>1, <5>2, <1>6, SMTT(40)
      <4>2. b \in released' <=> b \in released
        BY <4>1 DEF s
      <4>3. QED
        BY <4>1, <4>2, <3>1, <3>3, <3>5
    <3>6. QED
      BY <3>4, <3>5
  <2>2. released' \subseteq 1 .. reserved
    <3>1. o.number + s + 1 .. o.number + o.sent \subseteq 1 .. reserved
      BY <1>3, <1>6, SMTT(40)
    <3>2. released \subseteq 1 .. reserved
      BY <1>0 DEF ReleasedInv
    <3>3. QED
      BY <3>1, <3>2 DEF s
  <2>3. released' = {b \in 1 .. reserved : \A k \in 1 .. n : b \notin HeldBytes(ops'[k])}
    BY <2>1, <2>2
  <2>4. QED
    BY <2>3, <1>4 DEF ReleasedInv, HeldBytes
<1>23. BufferInv'
  <2>1. direction = "read" => \A p \in 0 .. MaxBytes - 1 : buffer'[p] = p + 1
    <3> SUFFICES ASSUME direction = "read", NEW p \in 0 .. MaxBytes - 1
                 PROVE  buffer'[p] = p + 1
      OBVIOUS
    <3>1. p + 1 \in 1 .. MaxBytes /\ (p + 1) - 1 = p
      BY <1>3
    <3>2. buffer[p] = p + 1
      BY <1>0 DEF BufferInv
    <3>3. QED
      BY <3>1, <3>2 DEF Places
  <2>2. ASSUME ~Unplaced, NEW k \in 1 .. n, NEW b \in GivenBytes(ops'[k])
        PROVE  buffer'[b - 1] = b /\ b \in 1 .. MaxBytes
    <3> DEFINE e == ops'[k]
    <3>1. /\ e.number \in Nat /\ e.size \in Nat /\ e.sent \in Nat
          /\ e.sent <= e.size /\ e.number + e.size <= reserved
      BY <1>2, <1>4, <1>6
    <3>2. b \in GivenBytes(e)
      BY <2>2
    <3> HIDE DEF e
    <3>3. /\ b \in Int /\ e.number + 1 <= b /\ b <= e.number + e.size
      BY <3>1, <3>2 DEF GivenBytes
    <3>4. b \in 1 .. MaxBytes
      BY <3>1, <3>3, <1>3
    <3>5. CASE k = i
      <4>1. e = o
        BY <3>5, <1>4 DEF e
      <4>2. b \in o.number + 1 .. o.number + o.sent
        BY <4>1, <3>2 DEF GivenBytes
      <4>3. GivenBytes(ops[i]) = o.number + 1 .. o.number + s
        BY <1>6 DEF GivenBytes, s
      <4>4. b \in GivenBytes(ops[i]) \/ b \in o.number + s + 1 .. o.number + o.sent
        BY <4>2, <4>3, <1>6, SMTT(40)
      <4>5. b \in GivenBytes(ops[i]) => buffer[b - 1] = b
        BY <2>2, <1>0, <1>1 DEF BufferInv, n
      <4>6. QED
        BY <4>4, <4>5, <3>4, <2>2 DEF Places, s
    <3>6. CASE k # i
      <4>1. b \in GivenBytes(ops[k])
        BY <3>6, <2>2, <1>4
      <4>2. buffer[b - 1] = b
        BY <4>1, <2>2, <1>0 DEF BufferInv, n
      <4>3. QED
        BY <4>2, <3>4 DEF Places
    <3>7. QED
      BY <3>5, <3>6
  <2>3. ASSUME NEW b \in 1 .. acked' PROVE buffer'[b - 1] = b
    <3>1. acked <= reserved
      BY <1>0 DEF SpaceInv
    <3>2. CASE b <= acked
      <4>1. b \in 1 .. acked /\ b \in 1 .. MaxBytes
        BY <3>1, <3>2, <1>3
      <4>2. QED
        BY <4>1, <1>0 DEF BufferInv, Places
    <3>3. CASE acked < b
      <4>1. i = 1 /\ Settled
        BY <3>3, <1>3
      <4>2. acked = o.number + s
        <5>1. ops # <<>>
          BY <1>0, <1>1, EmptySeq DEF TypeInv, n
        <5>2. QED
          BY <4>1, <5>1, <1>0 DEF ChainInv, s
      <4>3. b \in o.number + s + 1 .. o.number + o.sent /\ b \in 1 .. MaxBytes
        <5>1. b <= acked + c /\ b \in Nat
          BY <4>1, <1>3
        <5>2. o.number + s < b /\ b <= o.number + o.sent
          BY <4>2, <5>1, <3>3, <1>6, SMTT(40)
        <5>3. QED
          BY <5>1, <5>2, <1>3, <1>6, SMTT(40)
      <4>4. ~Unplaced
        BY <4>1 DEF Settled, Unplaced
      <4>5. QED
        BY <4>3, <4>4 DEF Places, s
    <3>4. QED
      BY <3>2, <3>3, <1>3
  <2>4. QED
    BY <2>1, <2>2, <2>3, <1>4, <1>5 DEF BufferInv, GivenBytes
<1>24. QED
  BY <1>4, <1>20, <1>21, <1>22, <1>23
(* A step that leaves the queue and the channel's pointer alone keeps what  *)
(* depends on them.                                                         *)
LEMMA KeepStep ==
    ASSUME IInv,
           UNCHANGED <<direction, ops, acked, reserved, released, regions, buffer>>,
           Settled' = Settled, Unplaced' = Unplaced,
           binder' \in {"move", "clean"} => regions = {}
    PROVE  ChainInv' /\ RegionInv' /\ ReleasedInv' /\ BufferInv'
<1>0. ChainInv /\ RegionInv /\ ReleasedInv /\ BufferInv
  BY DEF IInv
<1>1. ASSUME NEW o PROVE OpInv(o)' <=> OpInv(o)
  BY DEF OpInv
<1>2. ChainInv'
  BY <1>0, <1>1 DEF ChainInv, OpInv
<1>3. RegionInv'
  BY <1>0 DEF RegionInv, RegionOf, Held
<1>4. ReleasedInv'
  BY <1>0 DEF ReleasedInv, HeldBytes
<1>5. BufferInv'
  BY <1>0 DEF BufferInv, GivenBytes
<1>6. QED
  BY <1>2, <1>3, <1>4, <1>5

(* With nothing queued, a packet goes straight to or from the channel.      *)
LEMMA DirectStep ==
    ASSUME IInv, ops = <<>>, ops' = ops, binder' = binder,
           acked' = acked + PacketSize, reserved' = reserved + PacketSize,
           reserved' <= MaxBytes, direction' = direction, regions' = regions,
           released' = released \cup (reserved + 1 .. reserved + PacketSize),
           Places(IF direction = "write" THEN acked + 1 .. acked + PacketSize ELSE {})
    PROVE  ChainInv' /\ RegionInv' /\ ReleasedInv' /\ BufferInv'
<1>0. TypeInv /\ ChainInv /\ SpaceInv /\ RegionInv /\ ReleasedInv /\ BufferInv
  BY DEF IInv
<1>1. Len(ops) = 0 /\ Len(ops') = 0
  OBVIOUS
<1>2. acked = reserved /\ acked \in Nat /\ PacketSize \in Nat /\ MaxBytes \in Nat
  BY <1>0, Sizes DEF ChainInv, TypeInv
<1>3. ChainInv'
  <2>1. acked' = reserved'
    BY <1>2
  <2>2. 1 .. Len(ops') = {} /\ 1 .. Len(ops') - 1 = {}
    BY <1>1
  <2>3. QED
    BY <2>1, <2>2 DEF ChainInv
<1>4. RegionInv'
  <2>1. regions = {}
    BY <1>0, <1>1 DEF RegionInv
  <2>2. 1 .. Len(ops') = {}
    BY <1>1
  <2>3. QED
    BY <2>1, <2>2 DEF RegionInv
<1>5. ReleasedInv'
  <2>1. released = 1 .. reserved
    BY <1>0, <1>1 DEF ReleasedInv
  <2>2. released' = 1 .. reserved'
    BY <2>1, <1>2
  <2>3. 1 .. Len(ops') = {}
    BY <1>1
  <2>4. QED
    BY <2>2, <2>3 DEF ReleasedInv
<1>6. BufferInv'
  <2>1. direction = "read" => \A p \in 0 .. MaxBytes - 1 : buffer'[p] = p + 1
    <3> SUFFICES ASSUME direction = "read", NEW p \in 0 .. MaxBytes - 1
                 PROVE  buffer'[p] = p + 1
      OBVIOUS
    <3>1. p + 1 \in 1 .. MaxBytes /\ (p + 1) - 1 = p
      BY <1>2
    <3>2. buffer[p] = p + 1
      BY <1>0 DEF BufferInv
    <3>3. QED
      BY <3>1, <3>2 DEF Places
  <2>2. ASSUME NEW n \in 1 .. acked' PROVE buffer'[n - 1] = n
    <3>1. n \in 1 .. MaxBytes /\ (n \in 1 .. acked \/ n \in acked + 1 .. acked + PacketSize)
      BY <1>2
    <3>2. CASE n \in 1 .. acked
      BY <3>1, <3>2, <1>0 DEF BufferInv, Places
    <3>3. CASE n \in acked + 1 .. acked + PacketSize
      <4>1. CASE direction = "write"
        BY <3>1, <3>3, <4>1 DEF Places
      <4>2. CASE direction = "read"
        <5>1. n - 1 \in 0 .. MaxBytes - 1 /\ (n - 1) + 1 = n
          BY <3>1, <1>2
        <5>2. QED
          BY <5>1, <2>1, <4>2
      <4>3. QED
        BY <4>1, <4>2, <1>0 DEF TypeInv
    <3>4. QED
      BY <3>1, <3>2, <3>3
  <2>3. 1 .. Len(ops') = {}
    BY <1>1
  <2>4. QED
    BY <2>1, <2>2, <2>3 DEF BufferInv
<1>7. QED
  BY <1>3, <1>4, <1>5, <1>6

(* When the cleaning up ends, what was sent of the first region, marked     *)
(* while it waited for its turn, is acknowledged too.                       *)
LEMMA SettleStep ==
    ASSUME IInv, ~Unplaced, ~Settled, Settled',
           UNCHANGED <<direction, ops, reserved, released, regions, buffer>>,
           binder' = "bound",
           IF ops = <<>> THEN acked' = acked
           ELSE /\ ops[1].op = MAP /\ ops[1].sent < ops[1].size
                /\ acked' = acked + ops[1].sent
    PROVE  ChainInv' /\ RegionInv' /\ ReleasedInv' /\ BufferInv'
<1>0. TypeInv /\ ChainInv /\ RegionInv /\ ReleasedInv /\ BufferInv
  BY DEF IInv
<1>1. Unplaced' = Unplaced /\ Settled' = TRUE /\ Settled = FALSE
  BY DEF Unplaced, Settled
<1>2. ASSUME NEW o PROVE OpInv(o)' <=> OpInv(o)
  BY <1>1 DEF OpInv
<1>3. ops # <<>> => /\ acked = ops[1].number /\ 1 \in 1 .. Len(ops)
                    /\ ops[1].number \in Nat /\ ops[1].sent \in Nat /\ ops[1].size \in Nat
  <2> SUFFICES ASSUME ops # <<>>
               PROVE  /\ acked = ops[1].number /\ 1 \in 1 .. Len(ops)
                      /\ ops[1].number \in Nat /\ ops[1].sent \in Nat /\ ops[1].size \in Nat
    OBVIOUS
  <2>1. 1 \in 1 .. Len(ops) /\ ops[1] \in Op
    BY OpsFacts
  <2>2. acked = ops[1].number + 0
    BY <1>0 DEF ChainInv
  <2>3. QED
    BY <2>1, <2>2 DEF Op
<1>4. ChainInv'
  <2>1. ops # <<>> => /\ acked' = ops[1].number + ops[1].sent
                      /\ ops[1].op = MAP /\ ops[1].sent < ops[1].size
    BY <1>3
  <2>2. IF ops' = <<>> THEN acked' = reserved'
        ELSE /\ reserved' = ops'[Len(ops')].number + ops'[Len(ops')].size
             /\ acked' = ops'[1].number + (IF Settled' THEN ops'[1].sent ELSE 0)
             /\ Settled' => ops'[1].op = MAP /\ ops'[1].sent < ops'[1].size
    BY <2>1, <1>0 DEF ChainInv
  <2>3. /\ \A i \in 1 .. Len(ops') : OpInv(ops[i])' /\ ops'[i].number + ops'[i].size <= reserved'
        /\ \A i, j \in 1 .. Len(ops') : i < j => ops'[i].number + ops'[i].size <= ops'[j].number
        /\ \A i \in 1 .. Len(ops') - 1 : ops'[i + 1].number = ops'[i].number + ops'[i].size
    BY <1>0, <1>1, <1>2 DEF ChainInv, OpInv
  <2>4. QED
    BY <2>2, <2>3 DEF ChainInv
<1>5. RegionInv'
  BY <1>0 DEF RegionInv, RegionOf, Held
<1>6. ReleasedInv'
  BY <1>0 DEF ReleasedInv, HeldBytes
<1>7. BufferInv'
  <2>1. ASSUME NEW n \in 1 .. acked' PROVE buffer[n - 1] = n
    <3>1. CASE n \in 1 .. acked
      BY <3>1, <1>0 DEF BufferInv
    <3>2. CASE n \notin 1 .. acked
      <4>1. acked \in Nat
        BY <1>0 DEF TypeInv
      <4>2. ops # <<>>
        BY <3>2
      <4>3. n \in ops[1].number + 1 .. ops[1].number + ops[1].sent
        BY <4>1, <4>2, <3>2, <1>3
      <4>4. n \in GivenBytes(ops[1])
        BY <4>2, <4>3 DEF GivenBytes
      <4>5. QED
        BY <4>2, <4>4, <1>0, <1>3 DEF BufferInv
    <3>3. QED
      BY <3>1, <3>2
  <2>2. QED
    BY <2>1, <1>0, <1>1 DEF BufferInv, GivenBytes
<1>8. QED
  BY <1>4, <1>5, <1>6, <1>7

-----------------------------------------------------------------------------
(* What a call of the user finds. *)
LEMMA CallFacts ==
    ASSUME IInv, Overlapping = FALSE, MayCall
    PROVE  /\ user.pc = "idle" /\ user.pc # "clean" /\ binder \in {"unbound", "bound"}
           /\ binded => binder = "bound" /\ Settled /\ ~Unplaced
           /\ ~binded => Unplaced /\ ~Settled /\ acked = 0 /\ passed = 0
           /\ BufferSize \in Int /\ BufferSize <= Depth
           /\ direction = "write" => BufferSize - size_buffered = passed + Depth - reserved
           /\ direction = "read" /\ binded => BufferSize - size_buffered = passed - reserved
<1>0. TypeInv /\ ModeInv /\ SpaceInv
  BY DEF IInv
<1>1. user.pc = "idle" /\ binder \in {"unbound", "bound"}
  BY DEF MayCall
<1>2. /\ binded => binder = "bound" /\ Settled /\ ~Unplaced
      /\ ~binded => Unplaced /\ ~Settled /\ acked = 0 /\ passed = 0
  BY <1>0, <1>1 DEF ModeInv, Settled, Unplaced
<1>3. /\ acked \in Nat /\ passed \in Nat /\ reserved \in Nat /\ size_buffered \in Int
      /\ Depth \in Nat /\ acked + size_buffered = reserved
      /\ direction \in {"write", "read"}
  BY <1>0, Sizes DEF TypeInv, SpaceInv
<1>4. /\ direction = "write" => passed <= acked
      /\ direction = "read" => passed <= acked + Depth
  BY <1>0 DEF SpaceInv
<1>5. /\ BufferSize \in Int /\ BufferSize <= Depth
      /\ direction = "write" => BufferSize - size_buffered = passed + Depth - reserved
      /\ direction = "read" /\ binded => BufferSize - size_buffered = passed - reserved
  <2>1. CASE binded
    <3>1. BufferSize = IF direction = "write" THEN Depth - (acked - passed) ELSE passed - acked
      BY <2>1 DEF BufferSize, Available
    <3>2. QED
      BY <3>1, <1>3, <1>4
  <2>2. CASE ~binded
    <3>1. BufferSize = Depth /\ acked = 0 /\ passed = 0
      BY <2>2, <1>2 DEF BufferSize
    <3>2. QED
      BY <3>1, <2>2, <1>3
  <2>3. QED
    BY <2>1, <2>2
<1>6. QED
  BY <1>1, <1>2, <1>5

(* What a read copies are the bytes the device produced, in order.          *)
LEMMA CopiedInOrder ==
    ASSUME IInv, direction = "read", NEW count \in Nat, reserved + count <= MaxBytes
    PROVE  /\ Copied(reserved, count) \in Seq(Int)
           /\ Len(Copied(reserved, count)) = reserved + count
           /\ \A i \in 1 .. reserved + count : Copied(reserved, count)[i] = i
<1> DEFINE new == [i \in 1 .. count |-> buffer[reserved + i - 1]]
<1>1. /\ received \in Seq(Int) /\ Len(received) = reserved /\ reserved \in Nat
      /\ MaxBytes \in Nat
      /\ \A i \in 1 .. reserved : received[i] = i
      /\ \A p \in 0 .. MaxBytes - 1 : buffer[p] = p + 1
  <2>1. received \in Seq(Int) /\ Len(received) = reserved /\ reserved \in Nat
    BY DEF IInv, TypeInv, ReceivedInv
  <2>2. DOMAIN received = 1 .. reserved
    BY <2>1, LenProperties
  <2>3. \A i \in 1 .. reserved : received[i] = i
    BY <2>2 DEF IInv, ReceivedInv, InOrder
  <2>4. \A p \in 0 .. MaxBytes - 1 : buffer[p] = p + 1
    BY DEF IInv, BufferInv
  <2>5. QED
    BY <2>1, <2>3, <2>4, Sizes
<1>2. \A i \in 1 .. count : buffer[reserved + i - 1] = reserved + i
  <2> SUFFICES ASSUME NEW i \in 1 .. count PROVE buffer[reserved + i - 1] = reserved + i
    OBVIOUS
  <2>1. reserved + i - 1 \in 0 .. MaxBytes - 1 /\ (reserved + i - 1) + 1 = reserved + i
    BY <1>1
  <2>2. QED
    BY <2>1, <1>1
<1>3. /\ new \in Seq(Int) /\ Len(new) = count
      /\ \A i \in 1 .. count : new[i] = reserved + i
  <2>1. new = [i \in 1 .. count |-> reserved + i]
    BY <1>2
  <2>2. new \in [1 .. count -> Int]
    BY <2>1, <1>1
  <2>3. QED
    BY <2>1, <2>2
<1> HIDE DEF new
<1>4. /\ received \o new \in Seq(Int)
      /\ Len(received \o new) = reserved + count
      /\ \A i \in 1 .. reserved + count :
           (received \o new)[i] = IF i <= reserved THEN received[i] ELSE new[i - reserved]
  BY <1>1, <1>3, ConcatProperties, ZenonT(60)
<1>5. ASSUME NEW i \in 1 .. reserved + count PROVE (received \o new)[i] = i
  <2>1. CASE i <= reserved
    BY <2>1, <1>1, <1>4
  <2>2. CASE ~(i <= reserved)
    <3>1. i - reserved \in 1 .. count /\ reserved + (i - reserved) = i
      BY <2>2, <1>1
    <3>2. QED
      BY <3>1, <2>2, <1>3, <1>4
  <2>3. QED
    BY <2>1, <2>2
<1>6. QED
  BY <1>4, <1>5 DEF Copied, new
-----------------------------------------------------------------------------
(* Init, and what becomes of the invariant in each of the actions. *)
LEMMA InitInv == Init => IInv
<1> SUFFICES ASSUME Init PROVE IInv
  OBVIOUS
<1>0. MaxBytes \in Nat /\ Directions \subseteq {"write", "read"} /\ Depth \in Nat
  BY Sizes
<1>1. buffer = [p \in 0 .. MaxBytes - 1 |-> IF direction = "read" THEN p + 1 ELSE 0]
  BY DEF Init
<1>2. TypeInv
  <2>1. buffer \in [0 .. MaxBytes - 1 -> Int]
    BY <1>0, <1>1
  <2>2. ops \in Seq(Op) /\ received \in Seq(Int)
    BY DEF Init
  <2>3. user \in [pc : {"idle", "write", "clean"}, bound : BOOLEAN]
    BY DEF Init, Calling
  <2>4. /\ direction \in Directions /\ binded = FALSE /\ refused = FALSE
        /\ size_buffered = 0 /\ acked = 0 /\ passed = 0 /\ reserved = 0
        /\ binder = "unbound"
    BY DEF Init
  <2>5. direction \in {"write", "read"} /\ direction \in Directions
    BY <2>4, <1>0
  <2>6. binded \in BOOLEAN /\ refused \in BOOLEAN
    BY <2>4, Zenon
  <2>7. /\ size_buffered \in Int /\ acked \in Nat /\ passed \in Nat /\ reserved \in Nat
        /\ binder \in {"unbound", "move", "clean", "bound"}
    BY <2>4
  <2>8. QED
    BY <2>1, <2>2, <2>3, <2>5, <2>6, <2>7, Zenon DEF TypeInv
<1>3. Len(ops) = 0 /\ ops = <<>> /\ Unplaced /\ ~Settled
  BY DEF Init, Unplaced, Settled
<1>4. 1 .. Len(ops) = {} /\ 1 .. Len(ops) - 1 = {}
  BY <1>3
<1>5. ModeInv
  BY <1>3 DEF Init, ModeInv, Calling, Unplaced
<1>6. SpaceInv
  BY <1>0 DEF Init, SpaceInv
<1>7. ChainInv /\ RegionInv
  BY <1>3, <1>4 DEF Init, ChainInv, RegionInv
<1>8. ReleasedInv
  <2>1. 1 .. reserved = {}
    BY DEF Init
  <2>2. QED
    BY <2>1 DEF Init, ReleasedInv
<1>9. BufferInv
  <2>1. 1 .. acked = {}
    BY DEF Init
  <2>2. QED
    BY <1>1, <1>3, <2>1 DEF BufferInv
<1>10. ReceivedInv
  BY DEF Init, ReceivedInv, InOrder
<1>11. QED
  BY <1>2, <1>5, <1>6, <1>7, <1>8, <1>9, <1>10 DEF IInv, Init

(* A packet pushed straight into the channel takes the places of its bytes. *)
LEMMA PushInv == ASSUME IInv, Overlapping = FALSE, Push PROVE IInv'
<1>0. TypeInv /\ ModeInv /\ SpaceInv /\ ReceivedInv /\ ~refused /\ MayCall
  BY DEF IInv, Push
<1>1. /\ user.pc = "idle" /\ binder = "bound"
  BY <1>0, CallFacts DEF Push
<1>2. /\ acked \in Nat /\ reserved \in Nat /\ passed \in Nat /\ size_buffered \in Int
      /\ PacketSize \in Nat /\ Depth \in Nat /\ MaxBytes \in Nat
  BY <1>0, Sizes DEF TypeInv
<1>3. acked = reserved /\ passed <= acked /\ size_buffered = 0
  BY <1>0, <1>2 DEF IInv, ChainInv, SpaceInv, Push
<1>4. Depth - (acked - passed) >= PacketSize
  BY DEF Push, Available
<1>5. /\ UNCHANGED <<direction, binded, ops, size_buffered, passed, received, regions,
                     refused, user, binder>>
      /\ acked' = acked + PacketSize /\ reserved' = reserved + PacketSize
      /\ reserved' <= MaxBytes /\ direction = "write" /\ ops = <<>> /\ binded
      /\ released' = released \cup (reserved + 1 .. reserved + PacketSize)
      /\ buffer' = Stored(acked, Bytes(acked, PacketSize))
  BY <1>3 DEF Push
<1>6. Places(acked + 1 .. acked + PacketSize)
  BY <1>2, <1>5, StoredAt DEF Places
<1>7. TypeInv'
  BY <1>0, <1>2, <1>5, <1>6 DEF TypeInv, Places
<1>8. ModeInv'
  BY <1>0, <1>1, <1>5 DEF ModeInv, Unplaced
<1>9. SpaceInv'
  BY <1>0, <1>2, <1>3, <1>4, <1>5 DEF SpaceInv
<1>10. ChainInv' /\ RegionInv' /\ ReleasedInv' /\ BufferInv'
  BY <1>5, <1>6, DirectStep
<1>11. ReceivedInv'
  BY <1>0, <1>5 DEF ReceivedInv, InOrder
<1>12. QED
  BY <1>0, <1>5, <1>7, <1>8, <1>9, <1>10, <1>11 DEF IInv

(* A packet pulled straight out of the channel is the next of the stream.   *)
LEMMA PullInv == ASSUME IInv, Overlapping = FALSE, Pull PROVE IInv'
<1>0. TypeInv /\ ModeInv /\ SpaceInv /\ ReceivedInv /\ ~refused /\ MayCall
  BY DEF IInv, Pull
<1>1. /\ user.pc = "idle" /\ binder = "bound"
  BY <1>0, CallFacts DEF Pull
<1>2. /\ acked \in Nat /\ reserved \in Nat /\ passed \in Nat /\ size_buffered \in Int
      /\ PacketSize \in Nat /\ Depth \in Nat /\ MaxBytes \in Nat /\ passed <= MaxBytes
  BY <1>0, Sizes DEF TypeInv, SpaceInv
<1>3. acked = reserved /\ passed <= acked + Depth /\ size_buffered = 0
  BY <1>0, <1>2 DEF IInv, ChainInv, SpaceInv, Pull
<1>4. passed - acked >= PacketSize
  BY DEF Pull, Available
<1>5. /\ UNCHANGED <<direction, binded, ops, size_buffered, buffer, passed, regions,
                     refused, user, binder>>
      /\ acked' = acked + PacketSize /\ reserved' = reserved + PacketSize
      /\ direction = "read" /\ ops = <<>> /\ binded
      /\ released' = released \cup (reserved + 1 .. reserved + PacketSize)
      /\ received' = Copied(reserved, PacketSize)
  BY <1>3 DEF Pull
<1>6. reserved' <= MaxBytes /\ reserved + PacketSize <= MaxBytes
  BY <1>2, <1>3, <1>4, <1>5
<1>7. Places({})
  BY <1>0, <1>5 DEF Places, TypeInv
<1>8. /\ received' \in Seq(Int) /\ Len(received') = reserved'
      /\ \A i \in 1 .. reserved' : received'[i] = i
  BY <1>2, <1>5, <1>6, CopiedInOrder
<1>9. TypeInv'
  BY <1>0, <1>2, <1>5, <1>8 DEF TypeInv
<1>10. ModeInv'
  BY <1>0, <1>1, <1>5 DEF ModeInv, Unplaced
<1>11. SpaceInv'
  BY <1>0, <1>2, <1>3, <1>4, <1>5, <1>6 DEF SpaceInv
<1>12. ChainInv' /\ RegionInv' /\ ReleasedInv' /\ BufferInv'
  BY <1>5, <1>6, <1>7, DirectStep
<1>13. ReceivedInv'
  <2>1. DOMAIN received' = 1 .. reserved'
    BY <1>8, LenProperties
  <2>2. QED
    BY <2>1, <1>5, <1>8 DEF ReceivedInv, InOrder
<1>14. QED
  BY <1>0, <1>5, <1>9, <1>10, <1>11, <1>12, <1>13 DEF IInv

(* A write that found room has room until it queues its packet: the device  *)
(* can only make more.                                                      *)
LEMMA BeginWriteInv == ASSUME IInv, Overlapping = FALSE, BeginWrite PROVE IInv'
<1>0. TypeInv /\ ModeInv /\ SpaceInv /\ ReceivedInv /\ RegionInv /\ ~refused /\ MayCall
  BY DEF IInv, BeginWrite
<1>1. /\ user.pc = "idle" /\ binder \in {"unbound", "bound"}
      /\ direction = "write" => BufferSize - size_buffered = passed + Depth - reserved
      /\ BufferSize \in Int
  BY <1>0, CallFacts
<1>2. /\ reserved \in Nat /\ passed \in Nat /\ size_buffered \in Int
      /\ PacketSize \in Nat /\ Depth \in Nat
  BY <1>0, Sizes DEF TypeInv
<1>3. /\ UNCHANGED <<direction, binded, ops, size_buffered, channelVars, endVars, binder>>
      /\ user' = [pc |-> "write", bound |-> binded]
      /\ direction = "write" /\ ~(ops = <<>> /\ binded)
      /\ reserved + PacketSize <= MaxBytes
      /\ size_buffered + PacketSize <= BufferSize
  BY DEF BeginWrite, Fits
<1>4. reserved + PacketSize <= passed + Depth
  BY <1>1, <1>2, <1>3
<1>5. TypeInv'
  BY <1>0, <1>3 DEF TypeInv, channelVars, endVars
<1>6. ModeInv'
  BY <1>0, <1>1, <1>3, <1>4 DEF ModeInv, Unplaced, channelVars, endVars
<1>7. SpaceInv'
  BY <1>0, <1>3 DEF SpaceInv, channelVars, endVars
<1>8. ChainInv' /\ RegionInv' /\ ReleasedInv' /\ BufferInv'
  <2>1. Settled' = Settled /\ Unplaced' = Unplaced
    BY <1>1, <1>3 DEF Settled, Unplaced
  <2>2. binder' \notin {"move", "clean"}
    BY <1>1, <1>3
  <2>3. UNCHANGED <<direction, ops, acked, reserved, released, regions, buffer>>
    BY <1>3 DEF channelVars, endVars
  <2>4. QED
    BY <2>1, <2>2, <2>3, KeepStep
<1>9. ReceivedInv'
  BY <1>0, <1>3 DEF ReceivedInv, InOrder, channelVars, endVars
<1>10. QED
  BY <1>0, <1>3, <1>5, <1>6, <1>7, <1>8, <1>9 DEF IInv, endVars

(* A queued packet is stored behind what is buffered, at its bytes' places, *)
(* or kept in host memory until the pipe is bound.                          *)
LEMMA QueueWriteInv == ASSUME IInv, QueueWrite PROVE IInv'
<1>1. PICK o : o = NewOp(PACKET, PacketSize, user.bound)
  OBVIOUS
<1>2. /\ UNCHANGED <<direction, binded, acked, passed, received, regions, refused, binder>>
      /\ user.pc = "write" /\ user' = Calling
      /\ buffer' = IF user.bound THEN Stored(o.mmd, Bytes(reserved, PacketSize)) ELSE buffer
      /\ size_buffered' = size_buffered + PacketSize
      /\ ops' = Append(ops, o)
      /\ reserved' = reserved + PacketSize
      /\ released' = released \cup (reserved + 1 .. reserved + PacketSize)
  BY <1>1 DEF QueueWrite
<1>3. TypeInv /\ ModeInv /\ SpaceInv /\ ReceivedInv /\ ~refused
  BY DEF IInv
<1>4. /\ acked \in Nat /\ reserved \in Nat /\ passed \in Nat /\ size_buffered \in Int
      /\ PacketSize \in Nat /\ 1 <= PacketSize /\ PacketSize <= Depth /\ Depth \in Nat
      /\ MaxBytes \in Nat /\ acked + size_buffered = reserved /\ MAP # PACKET
  BY <1>3, Sizes DEF TypeInv, SpaceInv, MAP, PACKET
<1>5. /\ direction = "write" /\ user.bound = binded /\ binder \in {"unbound", "bound"}
      /\ binded => ops # <<>>
      /\ reserved + PacketSize <= MaxBytes /\ reserved + PacketSize <= passed + Depth
      /\ binded <=> binder = "bound" /\ binded \in BOOLEAN
      /\ ~binded => passed = 0
      /\ Unplaced <=> ~binded
      /\ Settled <=> binded
  BY <1>2, <1>3 DEF TypeInv, ModeInv, Unplaced, Settled
<1>6. o = [op |-> PACKET, size |-> PacketSize, sent |-> 0, number |-> reserved,
           mmd |-> IF binded THEN reserved ELSE -1, host |-> ~binded, filled |-> PacketSize]
  BY <1>1, <1>4, <1>5 DEF NewOp
<1>7. o \in Op
  <2>1. (IF binded THEN reserved ELSE -1) \in Int
    BY <1>4
  <2>2. QED
    BY <2>1, <1>4, <1>5, <1>6 DEF Op
<1>8. OpInv(o)
  <2>1. Unplaced = ~binded
    BY <1>5 DEF Unplaced
  <2>2. QED
    BY <2>1, <1>4, <1>5, <1>6 DEF OpInv
<1>9. /\ o.op = PACKET /\ o.size = PacketSize /\ o.sent = 0 /\ o.number = reserved
      /\ o.mmd = IF binded THEN reserved ELSE -1
  BY <1>6
<1>10. Places(IF o.op = PACKET /\ binder = "bound" /\ direction = "write"
              THEN reserved + 1 .. reserved + o.size ELSE {})
  <2>1. CASE binded
    <3>1. buffer' = Stored(reserved, Bytes(reserved, PacketSize))
      BY <2>1, <1>2, <1>5, <1>9
    <3>2. QED
      BY <2>1, <3>1, <1>4, <1>5, <1>9, StoredAt DEF Places
  <2>2. CASE ~binded
    BY <2>2, <1>2, <1>3, <1>5 DEF Places, TypeInv
  <2>3. QED
    BY <2>1, <2>2
<1>11. /\ user.pc # "clean" /\ user'.pc # "clean" /\ user'.pc = "idle"
       /\ reserved' = reserved + o.size /\ reserved' <= MaxBytes
       /\ regions' = IF o.op = MAP THEN regions \cup {RegionOf(o)} ELSE regions
       /\ released' = IF o.op = MAP THEN released
                      ELSE released \cup (reserved + 1 .. reserved + o.size)
       /\ Settled /\ ops = <<>> => o.op = MAP
  BY <1>2, <1>4, <1>5, <1>9 DEF Calling
<1>12. ops' \in Seq(Op) /\ ChainInv' /\ RegionInv' /\ ReleasedInv' /\ BufferInv'
  BY <1>2, <1>5, <1>7, <1>8, <1>9, <1>10, <1>11, AppendStep
<1>13. TypeInv'
  BY <1>2, <1>3, <1>4, <1>10, <1>12 DEF TypeInv, Places, Calling
<1>14. ModeInv'
  BY <1>2, <1>3, <1>5, <1>11 DEF ModeInv, Unplaced
<1>15. SpaceInv'
  BY <1>2, <1>3, <1>4, <1>5 DEF SpaceInv
<1>16. ReceivedInv'
  BY <1>2, <1>3, <1>5 DEF ReceivedInv, InOrder
<1>17. QED
  BY <1>2, <1>3, <1>12, <1>13, <1>14, <1>15, <1>16 DEF IInv

(* A packet read behind a mapped region is the next of the stream.          *)
LEMMA QueueReadInv == ASSUME IInv, Overlapping = FALSE, QueueRead PROVE IInv'
<1>1. PICK o : o = NewOp(PACKET, PacketSize, TRUE)
  OBVIOUS
<1>2. /\ UNCHANGED <<direction, binded, channelVars, regions, refused, user, binder>>
      /\ direction = "read" /\ binded /\ ops # <<>> /\ MayCall
      /\ size_buffered + PacketSize <= BufferSize
      /\ received' = Copied(o.mmd, PacketSize)
      /\ size_buffered' = size_buffered + PacketSize
      /\ ops' = Append(ops, o)
      /\ reserved' = reserved + PacketSize
      /\ released' = released \cup (reserved + 1 .. reserved + PacketSize)
  BY <1>1 DEF QueueRead, Fits
<1>3. TypeInv /\ ModeInv /\ SpaceInv /\ ReceivedInv /\ ~refused
  BY DEF IInv
<1>4. /\ acked \in Nat /\ reserved \in Nat /\ passed \in Nat /\ size_buffered \in Int
      /\ PacketSize \in Nat /\ 1 <= PacketSize /\ PacketSize <= Depth /\ Depth \in Nat
      /\ MaxBytes \in Nat /\ acked + size_buffered = reserved /\ MAP # PACKET
      /\ passed <= MaxBytes
  BY <1>3, Sizes DEF TypeInv, SpaceInv, MAP, PACKET
<1>5. /\ user.pc = "idle" /\ user.pc # "clean" /\ binder = "bound"
      /\ Settled /\ ~Unplaced
      /\ BufferSize \in Int /\ BufferSize - size_buffered = passed - reserved
  BY <1>2, CallFacts
<1>6. o = [op |-> PACKET, size |-> PacketSize, sent |-> 0, number |-> reserved,
           mmd |-> reserved, host |-> FALSE, filled |-> PacketSize]
  BY <1>1, <1>2, <1>4 DEF NewOp
<1>7. o \in Op
  BY <1>4, <1>6 DEF Op
<1>8. OpInv(o)
  <2>1. ~Unplaced
    BY <1>5
  <2>2. /\ o.op = PACKET /\ o.size = PacketSize /\ o.sent = 0 /\ o.mmd = o.number
        /\ o.host = FALSE
    BY <1>6
  <2>3. o.host = Unplaced
    <3>1. Unplaced = FALSE
      BY <2>1 DEF Unplaced
    <3>2. QED
      BY <2>2, <3>1
  <2>4. QED
    BY <2>1, <2>2, <2>3, <1>4 DEF OpInv
<1>9. /\ o.op = PACKET /\ o.size = PacketSize /\ o.sent = 0 /\ o.number = reserved
      /\ o.mmd = reserved
  BY <1>6
<1>10. UNCHANGED <<buffer, acked, passed>>
  BY <1>2 DEF channelVars
<1>11. Places({})
  BY <1>3, <1>10 DEF Places, TypeInv
<1>12. reserved + PacketSize <= passed
  BY <1>2, <1>4, <1>5
<1>13. /\ user'.pc # "clean"
       /\ reserved' = reserved + o.size /\ reserved' <= MaxBytes
       /\ regions' = IF o.op = MAP THEN regions \cup {RegionOf(o)} ELSE regions
       /\ released' = IF o.op = MAP THEN released
                      ELSE released \cup (reserved + 1 .. reserved + o.size)
       /\ Settled /\ ops = <<>> => o.op = MAP
       /\ Places(IF o.op = PACKET /\ binder = "bound" /\ direction = "write"
                 THEN reserved + 1 .. reserved + o.size ELSE {})
  BY <1>2, <1>4, <1>5, <1>9, <1>11, <1>12
<1>14. binder' = binder /\ direction' = direction /\ binder \in {"unbound", "bound"}
  BY <1>2, <1>5
<1>15. ops' \in Seq(Op) /\ ChainInv' /\ RegionInv' /\ ReleasedInv' /\ BufferInv'
  BY <1>2, <1>5, <1>7, <1>8, <1>9, <1>10, <1>13, <1>14, AppendStep
<1>16. /\ received' \in Seq(Int) /\ Len(received') = reserved'
       /\ \A i \in 1 .. reserved' : received'[i] = i
  BY <1>2, <1>4, <1>9, <1>12, CopiedInOrder, SMTT(40)
<1>17. TypeInv'
  BY <1>2, <1>3, <1>4, <1>10, <1>15, <1>16 DEF TypeInv
<1>18. ModeInv'
  BY <1>2, <1>3, <1>5, <1>10 DEF ModeInv, Unplaced
<1>19. SpaceInv'
  BY <1>2, <1>3, <1>4, <1>10, <1>12 DEF SpaceInv
<1>20. ReceivedInv'
  <2>1. DOMAIN received' = 1 .. reserved'
    BY <1>16, LenProperties
  <2>2. QED
    BY <2>1, <1>2, <1>16 DEF ReceivedInv, InOrder
<1>21. QED
  BY <1>2, <1>3, <1>15, <1>17, <1>18, <1>19, <1>20 DEF IInv

(* A mapped region is all or part of the room behind what is buffered; what *)
(* is mapped for reading is the next part of the stream.                    *)
LEMMA MapInv ==
    ASSUME IInv, Overlapping = FALSE, NEW requested \in MapSizes, Map(requested)
    PROVE  IInv'
<1>1. PICK size : size = IF requested = 0 THEN BufferSize - size_buffered
                         ELSE Min({BufferSize - size_buffered, requested})
  OBVIOUS
<1>2. PICK o : o = NewOp(MAP, size, binded)
  OBVIOUS
<1>3. /\ UNCHANGED <<direction, binded, channelVars, released, refused, user, binder>>
      /\ MayCall /\ (binded \/ direction = "write")
      /\ BufferSize - size_buffered > 0
      /\ reserved + size <= MaxBytes
      /\ received' = IF direction = "read" THEN Copied(o.mmd, size) ELSE received
      /\ size_buffered' = size_buffered + size
      /\ ops' = Append(ops, o)
      /\ reserved' = reserved + size
      /\ regions' = regions \cup
           {[mmd |-> o.mmd, number |-> reserved, size |-> size, sent |-> 0]}
  BY <1>1, <1>2 DEF Map
<1>4. TypeInv /\ ModeInv /\ SpaceInv /\ ReceivedInv /\ ~refused
  BY DEF IInv
<1>5. /\ acked \in Nat /\ reserved \in Nat /\ passed \in Nat /\ size_buffered \in Int
      /\ Depth \in Nat /\ requested \in Nat
      /\ MaxBytes \in Nat /\ acked + size_buffered = reserved /\ acked <= reserved
      /\ MAP # PACKET /\ direction \in {"write", "read"} /\ binded \in BOOLEAN
  BY <1>4, Sizes DEF TypeInv, SpaceInv, MAP, PACKET
<1>6. /\ user.pc = "idle" /\ user.pc # "clean" /\ binder \in {"unbound", "bound"}
      /\ binded => binder = "bound" /\ Settled /\ ~Unplaced
      /\ ~binded => Unplaced /\ ~Settled /\ acked = 0 /\ passed = 0
      /\ BufferSize \in Int /\ BufferSize <= Depth
      /\ direction = "write" => BufferSize - size_buffered = passed + Depth - reserved
      /\ direction = "read" /\ binded => BufferSize - size_buffered = passed - reserved
  BY <1>3, CallFacts
<1>7. size \in Nat /\ 1 <= size /\ size <= BufferSize - size_buffered
  <2>1. Min({BufferSize - size_buffered, requested}) =
          IF BufferSize - size_buffered <= requested
          THEN BufferSize - size_buffered ELSE requested
    BY <1>5, <1>6, MinOfTwo
  <2>2. QED
    BY <2>1, <1>1, <1>3, <1>5, <1>6
<1>8. size <= Depth
  BY <1>5, <1>6, <1>7
<1>9. /\ direction = "write" => reserved + size <= passed + Depth
      /\ direction = "read" => binded /\ reserved + size <= passed
  BY <1>3, <1>5, <1>6, <1>7
<1>10. o = [op |-> MAP, size |-> size, sent |-> 0, number |-> reserved,
            mmd |-> IF binded THEN reserved ELSE -1, host |-> ~binded, filled |-> 0]
  <2>1. (direction = "write" /\ ~binded) = ~binded
    BY <1>3, <1>5
  <2>2. QED
    BY <2>1, <1>2, <1>5 DEF NewOp
<1>11. o \in Op
  <2>1. (IF binded THEN reserved ELSE -1) \in Int
    BY <1>5
  <2>2. QED
    BY <2>1, <1>5, <1>7, <1>10 DEF Op
<1>12. OpInv(o)
  <2>1. Unplaced <=> ~binded
    BY <1>6
  <2>2. /\ o.op = MAP /\ o.size = size /\ o.sent = 0 /\ o.filled = 0
        /\ o.mmd = (IF binded THEN o.number ELSE -1) /\ o.host = ~binded
    BY <1>10
  <2>3. o.host = Unplaced
    <3>1. Unplaced = ~binded
      BY <2>1 DEF Unplaced
    <3>2. QED
      BY <2>2, <3>1
  <2>4. o.size \in 1 .. Depth /\ o.sent <= o.size /\ o.op # PACKET
    BY <2>2, <1>5, <1>7, <1>8
  <2>5. QED
    BY <2>1, <2>2, <2>3, <2>4, <1>5 DEF OpInv
<1>13. /\ o.op = MAP /\ o.size = size /\ o.sent = 0 /\ o.number = reserved
       /\ o.mmd = IF binded THEN reserved ELSE -1
  BY <1>10
<1>14. UNCHANGED <<buffer, acked, passed>>
  BY <1>3 DEF channelVars
<1>15. Places({})
  BY <1>4, <1>14 DEF Places, TypeInv
<1>16. /\ user'.pc # "clean"
       /\ reserved' = reserved + o.size /\ reserved' <= MaxBytes
       /\ regions' = IF o.op = MAP THEN regions \cup {RegionOf(o)} ELSE regions
       /\ released' = IF o.op = MAP THEN released
                      ELSE released \cup (reserved + 1 .. reserved + o.size)
       /\ Settled /\ ops = <<>> => o.op = MAP
       /\ Places(IF o.op = PACKET /\ binder = "bound" /\ direction = "write"
                 THEN reserved + 1 .. reserved + o.size ELSE {})
  BY <1>3, <1>5, <1>6, <1>13, <1>15 DEF RegionOf
<1>17. binder' = binder /\ direction' = direction
  BY <1>3
<1>18. ops' \in Seq(Op) /\ ChainInv' /\ RegionInv' /\ ReleasedInv' /\ BufferInv'
  BY <1>3, <1>6, <1>11, <1>12, <1>13, <1>14, <1>16, <1>17, AppendStep
<1>19. /\ received' \in Seq(Int)
       /\ direction = "read" => /\ Len(received') = reserved'
                                /\ \A i \in 1 .. reserved' : received'[i] = i
       /\ direction = "write" => received' = received
  <2>1. CASE direction = "read"
    <3>1. received' = Copied(reserved, size) /\ reserved' = reserved + size
      BY <2>1, <1>3, <1>9, <1>13
    <3>2. QED
      BY <2>1, <3>1, <1>3, <1>7, CopiedInOrder
  <2>2. CASE direction = "write"
    BY <2>2, <1>3, <1>4 DEF TypeInv
  <2>3. QED
    BY <2>1, <2>2, <1>5
<1>20. TypeInv'
  BY <1>3, <1>4, <1>5, <1>7, <1>14, <1>18, <1>19 DEF TypeInv
<1>21. ModeInv'
  BY <1>3, <1>4, <1>6, <1>9, <1>14 DEF ModeInv, Unplaced
<1>22. SpaceInv'
  BY <1>3, <1>4, <1>5, <1>7, <1>9, <1>14 DEF SpaceInv
<1>23. ReceivedInv'
  <2>1. CASE direction = "read"
    <3>1. DOMAIN received' = 1 .. reserved'
      BY <2>1, <1>19, LenProperties
    <3>2. QED
      BY <2>1, <3>1, <1>17, <1>19 DEF ReceivedInv, InOrder
  <2>2. CASE direction = "write"
    BY <2>2, <1>4, <1>14, <1>17, <1>19 DEF ReceivedInv, InOrder
  <2>3. QED
    BY <2>1, <2>2, <1>5
<1>24. QED
  BY <1>3, <1>4, <1>18, <1>20, <1>21, <1>22, <1>23 DEF IInv
(* A region the user holds is that of one operation, which its pointer      *)
(* finds, and no other.                                                     *)
LEMMA PointedFacts ==
    ASSUME IInv, Overlapping = FALSE, MayCall, NEW region \in regions
    PROVE  \E j \in 1 .. Len(ops) :
             /\ Held(ops[j]) /\ region = RegionOf(ops[j]) /\ Pointed(ops[j], region)
             /\ \A i \in 1 .. Len(ops) : Pointed(ops[i], region) => i = j
<1>0. TypeInv /\ ChainInv /\ RegionInv
  BY DEF IInv
<1>1. PICK j \in 1 .. Len(ops) : Held(ops[j]) /\ region = RegionOf(ops[j])
  BY <1>0 DEF RegionInv
<1>2. /\ \A i \in 1 .. Len(ops) : ops[i] \in Op /\ OpInv(ops[i])
      /\ \A i, k \in 1 .. Len(ops) : ops[i].number = ops[k].number => i = k
  BY <1>0, OpsFacts DEF ChainInv
<1>3. region.mmd = ops[j].mmd /\ region.number = ops[j].number
  BY <1>1 DEF RegionOf
<1>4. CASE binded
  <2>1. ~Unplaced
    BY <1>4, CallFacts
  <2>2. \A i \in 1 .. Len(ops) : ops[i].mmd = ops[i].number /\ ops[i].number \in Nat
    BY <2>1, <1>2 DEF OpInv, Op
  <2>3. region.mmd = ops[j].number /\ region.mmd # -1
    BY <2>2, <1>3
  <2>4. \A i \in 1 .. Len(ops) : Pointed(ops[i], region) <=> ops[i].number = ops[j].number
    BY <2>2, <2>3, <1>4 DEF Pointed, SameBuffer
  <2>5. QED
    BY <2>4, <1>1, <1>2
<1>5. CASE ~binded
  <2>1. Unplaced
    BY <1>5, CallFacts
  <2>2. Unplaced = TRUE
    BY <2>1 DEF Unplaced
  <2>3. ops[j].host = TRUE /\ ops[j].mmd = -1
    BY <2>2, <1>2 DEF OpInv
  <2>4. Pointed(ops[j], region)
    BY <2>3, <1>3, <1>5 DEF Pointed
  <2>5. \A i \in 1 .. Len(ops) : Pointed(ops[i], region) => ops[i].number = ops[j].number
    BY <1>3, <1>5 DEF Pointed
  <2>6. QED
    BY <2>4, <2>5, <1>1, <1>2
<1>6. QED
  BY <1>4, <1>5

(* The queue holds an operation for every region the user holds.            *)
LEMMA NeverRefused ==
    ASSUME IInv, Overlapping = FALSE, NEW region \in regions PROVE ~RefuseUnmap(region)
<1> SUFFICES ASSUME RefuseUnmap(region) PROVE FALSE
  OBVIOUS
<1>1. MayCall /\ \A i \in DOMAIN ops : ~Pointed(ops[i], region)
  BY DEF RefuseUnmap
<1>2. DOMAIN ops = 1 .. Len(ops)
  BY OpsFacts
<1>3. QED
  BY <1>1, <1>2, PointedFacts

(* The user writes what it gives up to the place of those bytes.            *)
LEMMA FilledPlaces ==
    ASSUME IInv, NEW i \in 1 .. Len(ops), Held(ops[i]), NEW count \in Nat,
           1 <= count, ops[i].sent + count <= ops[i].size,
           buffer' = Filled(RegionOf(ops[i]), count)
    PROVE  Places(IF Unplaced THEN {}
                  ELSE ops[i].number + ops[i].sent + 1 ..
                       ops[i].number + ops[i].sent + count)
<1> DEFINE from == ops[i].number + ops[i].sent
<1>0. TypeInv /\ ChainInv /\ BufferInv /\ SpaceInv
  BY DEF IInv
<1>1. /\ ops[i].number \in Nat /\ ops[i].sent \in Nat /\ OpInv(ops[i])
      /\ from \in Nat /\ MaxBytes \in Nat /\ from + count <= MaxBytes
      /\ reserved \in Nat
  <2>1. ops[i] \in Op /\ OpInv(ops[i]) /\ ops[i].number + ops[i].size <= reserved
    BY <1>0, OpsFacts DEF ChainInv
  <2>2. reserved <= MaxBytes /\ reserved \in Nat /\ MaxBytes \in Nat
    BY <1>0, Sizes DEF SpaceInv, TypeInv
  <2>3. QED
    BY <2>1, <2>2, SMTT(40) DEF Op
<1>2. /\ RegionOf(ops[i]).mmd = ops[i].mmd /\ RegionOf(ops[i]).sent = ops[i].sent
      /\ RegionOf(ops[i]).number = ops[i].number
  BY DEF RegionOf
<1>3. CASE Unplaced
  <2>1. ops[i].mmd = -1
    BY <1>1, <1>3 DEF OpInv
  <2>2. buffer' = buffer
    BY <2>1, <1>2 DEF Filled
  <2>3. QED
    BY <2>2, <1>0, <1>3 DEF Places, TypeInv
<1>4. CASE ~Unplaced
  <2>1. ops[i].mmd = ops[i].number /\ ops[i].mmd # -1
    BY <1>1, <1>4 DEF OpInv
  <2>2. CASE direction = "write"
    <3>1. buffer' = Stored(from, Bytes(from, count))
      BY <2>1, <2>2, <1>2 DEF Filled
    <3> HIDE DEF from
    <3>2. Places(from + 1 .. from + count)
      <4>1. /\ Stored(from, Bytes(from, count)) \in [0 .. MaxBytes - 1 -> Int]
            /\ \A n \in 1 .. MaxBytes :
                 buffer[n - 1] = n \/ n \in from + 1 .. from + count
                   => Stored(from, Bytes(from, count))[n - 1] = n
        BY <1>1, StoredAt
      <4>2. QED
        BY <3>1, <4>1 DEF Places
    <3>3. QED
      BY <3>2, <1>4 DEF from
  <2>3. CASE direction # "write"
    <3>1. buffer' = buffer
      BY <2>3 DEF Filled
    <3>2. \A n \in 1 .. MaxBytes : buffer[n - 1] = n
      <4> SUFFICES ASSUME NEW n \in 1 .. MaxBytes PROVE buffer[n - 1] = n
        OBVIOUS
      <4>1. n - 1 \in 0 .. MaxBytes - 1 /\ (n - 1) + 1 = n
        BY <1>1
      <4>2. QED
        BY <4>1, <2>3, <1>0 DEF BufferInv, TypeInv
    <3>3. QED
      BY <3>1, <3>2, <1>0 DEF Places, TypeInv
  <2>4. QED
    BY <2>2, <2>3
<1>5. QED
  BY <1>3, <1>4

(* An operation of which more is given up. *)
LEMMA GivenUp ==
    ASSUME NEW e \in Op, NEW c \in Nat
    PROVE  LET o == [e EXCEPT !.sent = e.sent + c, !.filled = e.filled + c]
           IN  /\ o \in Op /\ o.op = e.op /\ o.size = e.size /\ o.number = e.number
               /\ o.mmd = e.mmd /\ o.host = e.host /\ o.sent = e.sent + c
               /\ o.filled = e.filled + c
<1>1. e.sent + c \in Nat /\ e.filled + c \in Nat
  BY DEF Op
<1>2. QED
  BY <1>1 DEF Op

(* Giving up a part of a region behind others, or of an unbound pipe, only  *)
(* marks it.                                                                *)
LEMMA MarkUnmappedInv ==
    ASSUME IInv, Overlapping = FALSE, NEW region \in regions, NEW i \in DOMAIN ops,
           NEW count \in 1 .. region.size - region.sent, MarkUnmapped(region, i, count)
    PROVE  IInv'
<1>0. TypeInv /\ ModeInv /\ SpaceInv /\ ReceivedInv /\ ChainInv /\ ~refused
  BY DEF IInv
<1>1. PICK o : o = [ops[i] EXCEPT !.sent = ops[i].sent + count,
                                  !.filled = ops[i].filled + count]
  OBVIOUS
<1>2. /\ MayCall /\ Pointed(ops[i], region) /\ ~(i = 1 /\ binded)
      /\ ops' = [ops EXCEPT ![i].sent = @ + count, ![i].filled = @ + count]
      /\ buffer' = Filled(region, count)
      /\ regions' = (regions \ {region}) \cup
           (IF region.sent + count < region.size
            THEN {[region EXCEPT !.sent = @ + count]} ELSE {})
      /\ released' = released \cup
           (region.number + region.sent + 1 .. region.number + region.sent + count)
      /\ UNCHANGED <<direction, binded, size_buffered, acked, passed, reserved, received,
                     refused, user, binder>>
  BY DEF MarkUnmapped, Unmapped, IsFirst
<1>3. DOMAIN ops = 1 .. Len(ops)
  BY OpsFacts
<1>4. i \in 1 .. Len(ops) /\ Held(ops[i]) /\ region = RegionOf(ops[i])
  BY <1>2, <1>3, PointedFacts
<1>5. ops[i] \in Op /\ OpInv(ops[i])
  BY <1>0, <1>4, OpsFacts DEF ChainInv
<1>6. /\ ops[i].op = MAP /\ ops[i].sent \in Nat /\ ops[i].size \in Nat /\ count \in Nat
      /\ 1 <= count /\ ops[i].sent + count <= ops[i].size /\ ops[i].filled \in Nat
      /\ MAP # PACKET
      /\ region.sent = ops[i].sent /\ region.size = ops[i].size
      /\ region.number = ops[i].number /\ region.mmd = ops[i].mmd
  BY <1>4, <1>5 DEF Held, RegionOf, Op, MAP, PACKET
<1>7. /\ o \in Op /\ o.op = MAP /\ o.size = ops[i].size /\ o.number = ops[i].number
      /\ o.mmd = ops[i].mmd /\ o.host = ops[i].host /\ o.sent = ops[i].sent + count
      /\ o.filled = ops[i].filled + count
  BY <1>1, <1>5, <1>6, GivenUp, ZenonT(60)
<1>8. o.host => o.filled = o.sent
  BY <1>5, <1>6, <1>7 DEF OpInv
<1>9. ops' = [ops EXCEPT ![i] = o]
  BY <1>1, <1>2, <1>5, <1>6 DEF Op
<1>10. regions' = (regions \ {RegionOf(ops[i])}) \cup
                  (IF o.sent < o.size THEN {RegionOf(o)} ELSE {})
  <2>1. RegionOf(o) = [region EXCEPT !.sent = region.sent + count]
    BY <1>4, <1>6, <1>7 DEF RegionOf
  <2>2. QED
    BY <2>1, <1>2, <1>4, <1>6, <1>7
<1>11. released' = released \cup (o.number + ops[i].sent + 1 .. o.number + o.sent)
  <2>1. o.number + o.sent = region.number + region.sent + count
    BY <1>5, <1>6, <1>7 DEF Op
  <2>2. QED
    BY <2>1, <1>2, <1>6, <1>7
<1>12. Places(IF Unplaced THEN {} ELSE o.number + ops[i].sent + 1 .. o.number + o.sent)
  <2>1. o.number + o.sent = ops[i].number + ops[i].sent + count
    BY <1>5, <1>6, <1>7 DEF Op
  <2>2. QED
    BY <2>1, <1>2, <1>4, <1>6, <1>7, FilledPlaces
<1>13. /\ user.pc = "idle" /\ binder \in {"unbound", "bound"} /\ acked \in Nat
       /\ binded => Settled
       /\ ~binded => ~Settled
  BY <1>0, <1>2, CallFacts DEF TypeInv
<1>14. Settled' = Settled
  BY <1>2 DEF Settled
<1>15. /\ ~(i = 1 /\ Settled) /\ binder \notin {"move", "clean"}
       /\ acked' = acked + (IF i = 1 /\ Settled THEN count ELSE 0)
  BY <1>2, <1>13
<1>16. reserved' = reserved /\ direction' = direction /\ binder' = binder
  BY <1>2
<1>17. ops' \in Seq(Op) /\ ChainInv' /\ RegionInv' /\ ReleasedInv' /\ BufferInv'
  BY <1>4, <1>6, <1>7, <1>8, <1>9, <1>10, <1>11, <1>12, <1>14, <1>15, <1>16, AdvanceStep
<1>18. TypeInv'
  BY <1>0, <1>2, <1>12, <1>17 DEF TypeInv, Places
<1>19. ModeInv'
  BY <1>0, <1>2, <1>13 DEF ModeInv, Unplaced
<1>20. SpaceInv'
  BY <1>0, <1>2 DEF SpaceInv
<1>21. ReceivedInv'
  BY <1>0, <1>2 DEF ReceivedInv, InOrder
<1>22. QED
  BY <1>0, <1>2, <1>17, <1>18, <1>19, <1>20, <1>21 DEF IInv
(* Acknowledging bytes that are reserved leaves room for the rest.          *)
LEMMA AdvancedSpace ==
    ASSUME TypeInv, SpaceInv, NEW c \in Nat, acked + c <= reserved,
           acked' = acked + c, size_buffered' = size_buffered - c,
           UNCHANGED <<direction, passed, reserved>>
    PROVE  SpaceInv'
<1>1. /\ acked \in Nat /\ reserved \in Nat /\ passed \in Nat /\ size_buffered \in Int
      /\ Depth \in Nat
  BY Sizes DEF TypeInv
<1>2. acked' + size_buffered' = reserved /\ acked <= acked' /\ acked' <= reserved
  BY <1>1 DEF SpaceInv
<1>3. QED
  BY <1>1, <1>2 DEF SpaceInv

(* Nobody is in the middle of a call that queues. *)
LEMMA ModeKept ==
    ASSUME ModeInv, ~Unplaced, user.pc # "write",
           UNCHANGED <<direction, binded, passed, user, binder>>
    PROVE  ModeInv'
<1>1. ~Unplaced'
  BY DEF Unplaced
<1>2. QED
  BY <1>1 DEF ModeInv

(* Giving up a part of the first region moves the channel's pointer on, by  *)
(* as much as the channel takes.                                            *)
LEMMA AckUnmappedInv ==
    ASSUME IInv, Overlapping = FALSE, NEW region \in regions, NEW i \in DOMAIN ops,
           NEW count \in 1 .. region.size - region.sent, AckUnmapped(region, i, count)
    PROVE  IInv'
<1>0. TypeInv /\ ModeInv /\ SpaceInv /\ ReceivedInv /\ ChainInv /\ ~refused
  BY DEF IInv
<1>1. PICK s : s = AckSize(count)
  OBVIOUS
<1>2. /\ MayCall /\ Pointed(ops[i], region) /\ i = 1 /\ binded /\ s > 0
      /\ ops' = IF ops[1].sent + s = ops[1].size THEN RemoveAt(ops, 1)
                ELSE [ops EXCEPT ![1].sent = @ + s]
      /\ buffer' = Filled(region, s)
      /\ acked' = acked + s /\ size_buffered' = size_buffered - s
      /\ regions' = (regions \ {region}) \cup
           (IF region.sent + s < region.size
            THEN {[region EXCEPT !.sent = @ + s]} ELSE {})
      /\ released' = released \cup
           (region.number + region.sent + 1 .. region.number + region.sent + s)
      /\ user' = IF ops[1].sent + s = ops[1].size THEN [user EXCEPT !.pc = "clean"] ELSE user
      /\ UNCHANGED <<direction, binded, passed, reserved, received, refused, binder>>
  BY <1>1 DEF AckUnmapped, Unmapped, IsFirst
<1>3. DOMAIN ops = 1 .. Len(ops)
  BY OpsFacts
<1>4. 1 \in 1 .. Len(ops) /\ Held(ops[1]) /\ region = RegionOf(ops[1])
  BY <1>2, <1>3, PointedFacts
<1>5. ops[1] \in Op /\ OpInv(ops[1]) /\ ops # <<>>
      /\ ops[1].number + ops[1].size <= reserved
  <2>1. ops # <<>>
    BY <1>4, OpsFacts
  <2>2. QED
    BY <2>1, <1>0, <1>4, OpsFacts DEF ChainInv
<1>6. /\ ops[1].op = MAP /\ ops[1].sent \in Nat /\ ops[1].size \in Nat /\ count \in Nat
      /\ ops[1].number \in Nat /\ ops[1].filled \in Nat
      /\ ops[1].sent + count <= ops[1].size
      /\ region.sent = ops[1].sent /\ region.size = ops[1].size
      /\ region.number = ops[1].number /\ region.mmd = ops[1].mmd
  BY <1>4, <1>5 DEF Held, RegionOf, Op
<1>7. s \in Nat /\ 1 <= s /\ ops[1].sent + s <= ops[1].size
  <2>1. s \in Nat /\ s <= count
    BY <1>1, <1>6, AckSizeIs
  <2>2. QED
    BY <2>1, <1>2, <1>6
<1>8. /\ user.pc = "idle" /\ binder = "bound" /\ Settled /\ ~Unplaced
  BY <1>2, CallFacts
<1>9. acked = ops[1].number + ops[1].sent
  BY <1>0, <1>5, <1>8 DEF ChainInv
<1>10. Places(ops[1].number + ops[1].sent + 1 .. ops[1].number + ops[1].sent + s)
  BY <1>2, <1>4, <1>7, <1>8, FilledPlaces
<1>11. ops' \in Seq(Op) /\ ChainInv' /\ RegionInv' /\ ReleasedInv' /\ BufferInv'
  <2>1. CASE ops[1].sent + s = ops[1].size
    <3>1. /\ ops' \in Seq(Op) /\ Len(ops') = Len(ops) - 1
          /\ \A k \in 1 .. Len(ops) - 1 : ops'[k] = ops[k + 1]
      <4>1. ops \in Seq(Op) /\ Len(ops) \in Nat
        BY <1>0, LenProperties DEF TypeInv
      <4>2. /\ RemoveAt(ops, 1) \in Seq(Op) /\ Len(RemoveAt(ops, 1)) = Len(ops) - 1
            /\ \A k \in 1 .. Len(ops) - 1 :
                 RemoveAt(ops, 1)[k] = IF k < 1 THEN ops[k] ELSE ops[k + 1]
        BY <4>1, <1>4, RemoveAtProperties
      <4>3. QED
        BY <4>1, <4>2, <2>1, <1>2
    <3>2. acked' = ops[1].number + ops[1].size
      BY <2>1, <1>2, <1>6, <1>7, <1>9
    <3>3. regions' = regions \ {RegionOf(ops[1])}
      BY <2>1, <1>2, <1>4, <1>6
    <3>4. HeldBytes(ops[1]) =
            ops[1].number + ops[1].sent + 1 .. ops[1].number + ops[1].sent + s
      <4>1. ops[1].number + ops[1].sent + s = ops[1].number + ops[1].size
        BY <2>1, <1>6, <1>7
      <4>2. QED
        BY <4>1, <1>6 DEF HeldBytes
    <3>5. released' = released \cup HeldBytes(ops[1])
      BY <3>4, <1>2, <1>6
    <3>6. Places(HeldBytes(ops[1]))
      BY <3>4, <1>10
    <3>7. ~Settled'
      BY <2>1, <1>0, <1>2 DEF Settled, TypeInv
    <3>8. reserved' = reserved /\ direction' = direction /\ binder' = binder
      BY <1>2
    <3>9. QED
      BY <3>1, <3>2, <3>3, <3>5, <3>6, <3>7, <3>8, <1>5, <1>8, DropStep
  <2>2. CASE ops[1].sent + s # ops[1].size
    <3>1. PICK o : o = [ops[1] EXCEPT !.sent = ops[1].sent + s]
      OBVIOUS
    <3>2. /\ o \in Op /\ o.op = MAP /\ o.size = ops[1].size /\ o.number = ops[1].number
          /\ o.mmd = ops[1].mmd /\ o.host = ops[1].host /\ o.sent = ops[1].sent + s
      <4>1. ops[1].sent + s \in Nat
        BY <1>6, <1>7
      <4>2. QED
        BY <4>1, <3>1, <1>5, <1>6 DEF Op
    <3>3. o.host = FALSE
      <4>1. Unplaced = FALSE
        BY <1>8 DEF Unplaced
      <4>2. QED
        BY <4>1, <3>2, <1>5 DEF OpInv
    <3>4. ops' = [ops EXCEPT ![1] = o]
      BY <3>1, <2>2, <1>2
    <3>5. o.sent < o.size /\ o.number + o.sent = ops[1].number + ops[1].sent + s
      BY <3>2, <2>2, <1>6, <1>7
    <3>6. regions' = (regions \ {RegionOf(ops[1])}) \cup
                     (IF o.sent < o.size THEN {RegionOf(o)} ELSE {})
      <4>1. RegionOf(o) = [region EXCEPT !.sent = region.sent + s]
        <5>1. region = [mmd |-> o.mmd, number |-> o.number, size |-> o.size,
                        sent |-> ops[1].sent]
          BY <3>2, <1>4 DEF RegionOf
        <5>2. RegionOf(o) = [mmd |-> o.mmd, number |-> o.number, size |-> o.size,
                             sent |-> ops[1].sent + s]
          BY <3>2 DEF RegionOf
        <5>3. QED
          BY <5>1, <5>2
      <4>2. region.sent + s < region.size
        BY <3>2, <3>5, <1>6
      <4>3. QED
        BY <4>1, <4>2, <3>5, <1>2, <1>4
    <3>7. released' = released \cup (o.number + ops[1].sent + 1 .. o.number + o.sent)
      BY <3>2, <3>5, <1>2, <1>6
    <3>8. Places(IF Unplaced THEN {} ELSE o.number + ops[1].sent + 1 .. o.number + o.sent)
      BY <3>2, <3>5, <1>8, <1>10
    <3>9. Settled' = Settled
      BY <2>2, <1>2 DEF Settled
    <3>10. /\ reserved' = reserved /\ direction' = direction /\ binder' = binder
           /\ binder \notin {"move", "clean"}
           /\ acked' = acked + (IF 1 = 1 /\ Settled THEN s ELSE 0)
      BY <1>2, <1>8
    <3>11. QED
      BY <3>2, <3>3, <3>4, <3>5, <3>6, <3>7, <3>8, <3>9, <3>10, <1>4, <1>6, <1>7,
         AdvanceStep
  <2>3. QED
    BY <2>1, <2>2
<1>12. acked' \in Nat /\ size_buffered' \in Int /\ acked' <= reserved
       /\ acked' + size_buffered' = reserved
  <2>1. /\ acked \in Nat /\ size_buffered \in Int /\ reserved \in Nat
        /\ acked + size_buffered = reserved
    BY <1>0 DEF TypeInv, SpaceInv
  <2>2. acked' = acked + s /\ size_buffered' = size_buffered - s
    BY <1>2
  <2>3. acked + s <= ops[1].number + ops[1].size
    BY <1>6, <1>7, <1>9
  <2>4. QED
    BY <2>1, <2>2, <2>3, <1>5, <1>6, <1>7
<1>13. user' \in [pc : {"idle", "write", "clean"}, bound : BOOLEAN]
       /\ user'.pc \in {"idle", "clean"}
  BY <1>0, <1>2, <1>8 DEF TypeInv
<1>14. TypeInv'
  BY <1>0, <1>2, <1>10, <1>11, <1>12, <1>13 DEF TypeInv, Places
<1>15. ModeInv'
  BY <1>0, <1>2, <1>8, <1>13 DEF ModeInv, Unplaced
<1>16. SpaceInv'
  <2>1. /\ acked \in Nat /\ passed \in Nat /\ Depth \in Nat /\ acked' = acked + s
        /\ passed' = passed /\ reserved' = reserved /\ direction' = direction
    BY <1>0, <1>2, Sizes DEF TypeInv
  <2>2. acked <= acked' /\ acked + Depth <= acked' + Depth
    BY <2>1, <1>7
  <2>3. QED
    BY <2>1, <2>2, <1>0, <1>12 DEF SpaceInv
<1>17. ReceivedInv'
  BY <1>0, <1>2 DEF ReceivedInv, InOrder
<1>18. QED
  BY <1>0, <1>2, <1>11, <1>14, <1>15, <1>16, <1>17 DEF IInv

(* Who cleans up finds the pipe bound and its operations moved.             *)
LEMMA CleanFacts ==
    ASSUME IInv, Cleaning
    PROVE  /\ binded /\ binder \in {"clean", "bound"} /\ ~Unplaced /\ ~Settled
           /\ user.pc \in {"idle", "clean"}
           /\ ops # <<>> => /\ acked = ops[1].number /\ 1 \in 1 .. Len(ops)
                            /\ ops[1] \in Op /\ OpInv(ops[1]) /\ Head(ops) = ops[1]
                            /\ ops[1].number + ops[1].size <= reserved
<1>0. TypeInv /\ ModeInv /\ ChainInv
  BY DEF IInv
<1>1. /\ binded /\ binder \in {"clean", "bound"} /\ ~Unplaced /\ ~Settled
      /\ user.pc \in {"idle", "clean"}
  BY <1>0 DEF ModeInv, TypeInv, Cleaning, Unplaced, Settled
<1>2. ASSUME ops # <<>>
      PROVE  /\ acked = ops[1].number /\ 1 \in 1 .. Len(ops)
             /\ ops[1] \in Op /\ OpInv(ops[1]) /\ Head(ops) = ops[1]
             /\ ops[1].number + ops[1].size <= reserved
  <2>1. 1 \in 1 .. Len(ops) /\ ops[1] \in Op /\ Head(ops) = ops[1]
    BY <1>2, OpsFacts
  <2>2. acked = ops[1].number + 0
    BY <1>0, <1>1, <1>2 DEF ChainInv
  <2>3. QED
    BY <2>1, <2>2, <1>0 DEF ChainInv, Op
<1>3. QED
  BY <1>1, <1>2

(* The first operation, none of which the user holds, leaves the queue when *)
(* the rest of it is acknowledged.                                          *)
LEMMA FlushStep ==
    ASSUME IInv, Cleaning, ops # <<>>, ~Held(ops[1]), HeldBytes(ops[1]) = {},
           ops' = Tail(ops), acked' = acked + ops[1].size,
           size_buffered' = size_buffered - ops[1].size,
           UNCHANGED <<direction, binded, buffer, passed, endVars, user, binder>>
    PROVE  IInv'
<1>0. TypeInv /\ ModeInv /\ SpaceInv /\ ReceivedInv /\ ChainInv /\ RegionInv /\ ~refused
  BY DEF IInv
<1>1. /\ binded /\ binder \in {"clean", "bound"} /\ ~Unplaced /\ ~Settled
      /\ user.pc \in {"idle", "clean"}
      /\ acked = ops[1].number /\ 1 \in 1 .. Len(ops)
      /\ ops[1] \in Op /\ ops[1].number + ops[1].size <= reserved
  BY CleanFacts
<1>2. /\ ops[1].number \in Nat /\ ops[1].size \in Nat
      /\ reserved \in Nat /\ passed \in Nat /\ size_buffered \in Int
  BY <1>0, <1>1 DEF Op, TypeInv
<1>3. /\ ops' \in Seq(Op) /\ Len(ops') = Len(ops) - 1
      /\ \A k \in 1 .. Len(ops) - 1 : ops'[k] = ops[k + 1]
  <2>1. ops \in Seq(Op) /\ Len(ops) \in Nat
    BY <1>0, LenProperties DEF TypeInv
  <2>2. QED
    BY <2>1, HeadTailProperties
<1>4. UNCHANGED <<direction, binded, buffer, passed, reserved, released, received,
                  regions, refused, user, binder>>
  BY DEF endVars
<1>5. RegionOf(ops[1]) \notin regions
  <2>1. \A k \in 1 .. Len(ops) : RegionOf(ops[k]) = RegionOf(ops[1]) => k = 1
    BY <1>1, OpsFacts DEF RegionOf
  <2>2. QED
    BY <2>1, <1>0 DEF RegionInv
<1>6. /\ acked' = ops[1].number + ops[1].size /\ ~Settled'
      /\ regions' = regions \ {RegionOf(ops[1])}
      /\ released' = released \cup HeldBytes(ops[1])
      /\ Places(HeldBytes(ops[1]))
  BY <1>0, <1>1, <1>4, <1>5 DEF Settled, Places, TypeInv
<1>7. reserved' = reserved /\ direction' = direction /\ binder' = binder
  BY <1>4
<1>8. ChainInv' /\ RegionInv' /\ ReleasedInv' /\ BufferInv'
  BY <1>1, <1>3, <1>6, <1>7, DropStep
<1>9. TypeInv'
  <2>1. acked' \in Nat /\ size_buffered' \in Int
    BY <1>1, <1>2, SMTT(40)
  <2>2. QED
    BY <2>1, <1>0, <1>3, <1>4 DEF TypeInv
<1>10. ModeInv'
  <2>1. user.pc # "write"
    BY <1>1
  <2>2. QED
    BY <2>1, <1>0, <1>1, <1>4, ModeKept
<1>11. SpaceInv'
  BY <1>0, <1>1, <1>2, <1>4, AdvancedSpace
<1>12. ReceivedInv'
  BY <1>0, <1>4 DEF ReceivedInv, InOrder
<1>13. QED
  BY <1>0, <1>4, <1>8, <1>9, <1>10, <1>11, <1>12 DEF IInv

(* A packet behind a finished region is acknowledged whole.                 *)
LEMMA FlushPacketInv == ASSUME IInv, FlushPacket PROVE IInv'
<1>1. Cleaning /\ ops # <<>> /\ Head(ops).op = PACKET
  BY DEF FlushPacket
<1>2. ops[1] \in Op /\ OpInv(ops[1]) /\ Head(ops) = ops[1] /\ MAP # PACKET
  BY <1>1, CleanFacts DEF MAP, PACKET
<1>3. ops[1].op = PACKET /\ ops[1].size = PacketSize
  BY <1>1, <1>2 DEF OpInv
<1>4. ~Held(ops[1]) /\ HeldBytes(ops[1]) = {}
  BY <1>2, <1>3 DEF Held, HeldBytes
<1>5. /\ ops' = Tail(ops) /\ acked' = acked + ops[1].size
      /\ size_buffered' = size_buffered - ops[1].size
      /\ UNCHANGED <<direction, binded, buffer, passed, endVars, user, binder>>
  BY <1>3 DEF FlushPacket
<1>6. QED
  BY <1>1, <1>4, <1>5, FlushStep

(* The cleaning up ends: the pipe is in order again. *)
LEMMA SettleInv ==
    ASSUME IInv, Cleaning, CleanedUp, NEW c \in Nat,
           UNCHANGED <<direction, binded, ops, buffer, passed, endVars>>,
           acked' = acked + c, size_buffered' = size_buffered - c,
           IF ops = <<>> THEN c = 0
           ELSE ops[1].op = MAP /\ ops[1].sent < ops[1].size /\ c = ops[1].sent
    PROVE  IInv'
<1>0. TypeInv /\ ModeInv /\ SpaceInv /\ ReceivedInv /\ ~refused
  BY DEF IInv
<1>1. /\ binded /\ binder \in {"clean", "bound"} /\ ~Unplaced /\ ~Settled
      /\ user.pc \in {"idle", "clean"}
      /\ ops # <<>> => /\ acked = ops[1].number /\ ops[1] \in Op
                       /\ ops[1].number + ops[1].size <= reserved
  BY CleanFacts
<1>2. UNCHANGED <<direction, binded, ops, buffer, passed, reserved, released, received,
                  regions, refused>>
  BY DEF endVars
<1>3. /\ binder' = "bound" /\ user'.pc = "idle"
      /\ user' \in [pc : {"idle", "write", "clean"}, bound : BOOLEAN]
  BY <1>0, <1>1 DEF CleanedUp, TypeInv
<1>4. Settled'
  BY <1>3 DEF Settled
<1>5. acked \in Nat /\ reserved \in Nat /\ passed \in Nat /\ size_buffered \in Int
      /\ acked <= reserved
  BY <1>0 DEF TypeInv, SpaceInv
<1>6. acked' <= reserved
  <2>1. CASE ops = <<>>
    BY <2>1, <1>5
  <2>2. CASE ops # <<>>
    BY <2>2, <1>1, <1>5 DEF Op
  <2>3. QED
    BY <2>1, <2>2
<1>7. IF ops = <<>> THEN acked' = acked
      ELSE /\ ops[1].op = MAP /\ ops[1].sent < ops[1].size
           /\ acked' = acked + ops[1].sent
  BY <1>5
<1>8. ChainInv' /\ RegionInv' /\ ReleasedInv' /\ BufferInv'
  BY <1>1, <1>2, <1>3, <1>4, <1>7, SettleStep
<1>9. TypeInv'
  BY <1>0, <1>2, <1>3, <1>5 DEF TypeInv
<1>10. ModeInv'
  BY <1>0, <1>1, <1>2, <1>3 DEF ModeInv, Unplaced
<1>11. SpaceInv'
  BY <1>0, <1>2, <1>5, <1>6, Sizes, SMTT(40) DEF SpaceInv
<1>12. ReceivedInv'
  BY <1>0, <1>2 DEF ReceivedInv, InOrder
<1>13. QED
  BY <1>0, <1>2, <1>8, <1>9, <1>10, <1>11, <1>12 DEF IInv

(* Of a region the part already given up is acknowledged; if that is not    *)
(* all of it the cleaning ends there.                                       *)
LEMMA FlushMapInv == ASSUME IInv, FlushMap PROVE IInv'
<1>1. /\ Cleaning /\ ops # <<>> /\ Head(ops).op = MAP
      /\ acked' = acked + Head(ops).sent
      /\ size_buffered' = size_buffered - Head(ops).sent
      /\ IF Head(ops).sent = Head(ops).size
         THEN ops' = Tail(ops) /\ UNCHANGED <<user, binder>>
         ELSE CleanedUp /\ UNCHANGED ops
      /\ UNCHANGED <<direction, binded, buffer, passed, endVars>>
  BY DEF FlushMap, SentPart
<1>2. ops[1] \in Op /\ OpInv(ops[1]) /\ Head(ops) = ops[1]
  BY <1>1, CleanFacts
<1>3. /\ ops[1].op = MAP /\ ops[1].sent \in Nat /\ ops[1].size \in Nat
      /\ ops[1].number \in Nat /\ ops[1].sent <= ops[1].size
  BY <1>1, <1>2, Sizes DEF OpInv, Op
<1>4. CASE ops[1].sent = ops[1].size
  <2>1. ~Held(ops[1]) /\ HeldBytes(ops[1]) = {}
    BY <1>3, <1>4 DEF Held, HeldBytes
  <2>2. /\ ops' = Tail(ops) /\ acked' = acked + ops[1].size
        /\ size_buffered' = size_buffered - ops[1].size
        /\ UNCHANGED <<direction, binded, buffer, passed, endVars, user, binder>>
    BY <1>1, <1>2, <1>4
  <2>3. QED
    BY <1>1, <2>1, <2>2, FlushStep
<1>5. CASE ops[1].sent # ops[1].size
  <2>1. CleanedUp /\ UNCHANGED <<direction, binded, ops, buffer, passed, endVars>>
        /\ acked' = acked + ops[1].sent /\ size_buffered' = size_buffered - ops[1].sent
    BY <1>1, <1>2, <1>5
  <2>2. ops[1].sent < ops[1].size
    BY <1>3, <1>5
  <2>3. QED
    BY <1>1, <1>3, <2>1, <2>2, SettleInv
<1>6. QED
  BY <1>4, <1>5

(* With nothing left the cleaning ends.                                     *)
LEMMA NothingQueuedInv == ASSUME IInv, NothingQueued PROVE IInv'
<1>1. /\ Cleaning /\ ops = <<>> /\ CleanedUp
      /\ UNCHANGED <<direction, binded, ops, buffer, passed, endVars, acked, size_buffered>>
  BY DEF NothingQueued, channelVars
<1>2. acked' = acked + 0 /\ size_buffered' = size_buffered - 0
  BY <1>1 DEF IInv, TypeInv
<1>3. QED
  BY <1>1, <1>2, SettleInv

(* Binding the pipe, when nothing of it is mapped, changes no operation.    *)
LEMMA BindInv ==
    ASSUME IInv, HeldAcrossBinding = FALSE, Overlapping = FALSE, Bind PROVE IInv'
<1>0. TypeInv /\ ModeInv /\ SpaceInv /\ ReceivedInv /\ ~refused
  BY DEF IInv
<1>1. /\ binder = "unbound" /\ user.pc = "idle" /\ regions = {}
      /\ binded' = TRUE /\ binder' = "move"
      /\ UNCHANGED <<direction, ops, size_buffered, buffer, acked, passed, reserved, released,
                     received, regions, refused, user>>
  BY DEF Bind, channelVars, endVars
<1>2. /\ Unplaced = TRUE /\ Unplaced' = TRUE /\ Settled = FALSE /\ Settled' = FALSE
  BY <1>1 DEF Unplaced, Settled
<1>3. ChainInv' /\ RegionInv' /\ ReleasedInv' /\ BufferInv'
  <2>1. Settled' = Settled /\ Unplaced' = Unplaced
    BY <1>2
  <2>2. QED
    BY <1>1, <2>1, KeepStep
<1>4. TypeInv'
  BY <1>0, <1>1 DEF TypeInv
<1>5. ModeInv'
  BY <1>0, <1>1, <1>2 DEF ModeInv
<1>6. SpaceInv'
  BY <1>0, <1>1 DEF SpaceInv
<1>7. ReceivedInv'
  BY <1>0, <1>1 DEF ReceivedInv, InOrder
<1>8. QED
  BY <1>0, <1>1, <1>3, <1>4, <1>5, <1>6, <1>7 DEF IInv

(* The kernel takes the next byte that was acknowledged, and finds it in    *)
(* its place, or produces the next one into free space.                     *)
LEMMA DeviceInv == ASSUME IInv, Device PROVE IInv'
<1>0. TypeInv /\ ModeInv /\ SpaceInv /\ ReceivedInv /\ BufferInv /\ RegionInv /\ ~refused
  BY DEF IInv
<1>1. /\ binded /\ passed' = passed + 1
      /\ UNCHANGED <<direction, binded, ops, size_buffered, buffer, acked, reserved,
                     released, regions, refused, user, binder>>
      /\ \/ /\ direction = "write" /\ passed < acked
            /\ received' = Append(received, buffer[passed])
         \/ /\ direction = "read" /\ passed < acked + Depth
            /\ passed < MaxBytes
            /\ received' = received
  BY DEF Device
<1>2. /\ acked \in Nat /\ passed \in Nat /\ reserved \in Nat /\ MaxBytes \in Nat
      /\ Depth \in Nat /\ received \in Seq(Int) /\ acked <= reserved /\ reserved <= MaxBytes
  BY <1>0, Sizes DEF TypeInv, SpaceInv
<1>3. ChainInv' /\ RegionInv' /\ ReleasedInv' /\ BufferInv'
  <2>1. Settled' = Settled /\ Unplaced' = Unplaced
    BY <1>1 DEF Settled, Unplaced
  <2>2. binder' \in {"move", "clean"} => regions = {}
    BY <1>0, <1>1 DEF RegionInv
  <2>3. QED
    BY <1>1, <2>1, <2>2, KeepStep
<1>4. /\ received' \in Seq(Int) /\ InOrder'
      /\ Len(received') = IF direction = "write" THEN passed' ELSE reserved
  <2>1. CASE direction = "write"
    <3>1. received' = Append(received, buffer[passed]) /\ passed < acked
      BY <2>1, <1>1
    <3>2. Len(received) = passed /\ \A i \in 1 .. passed : received[i] = i
      <4>1. DOMAIN received = 1 .. Len(received)
        BY <1>2, LenProperties
      <4>2. QED
        BY <4>1, <2>1, <1>0 DEF ReceivedInv, InOrder
    <3>3. buffer[passed] = passed + 1
      <4>1. passed + 1 \in 1 .. acked /\ (passed + 1) - 1 = passed
        BY <3>1, <1>2
      <4>2. buffer[(passed + 1) - 1] = passed + 1
        BY <4>1, <1>0 DEF BufferInv
      <4>3. QED
        BY <4>1, <4>2
    <3>4. /\ received' \in Seq(Int) /\ Len(received') = passed + 1
          /\ \A i \in 1 .. passed : received'[i] = received[i]
          /\ received'[passed + 1] = passed + 1
      BY <3>1, <3>2, <3>3, <1>2
    <3>5. \A i \in 1 .. passed + 1 : received'[i] = i
      BY <3>2, <3>4, <1>2
    <3>6. DOMAIN received' = 1 .. passed + 1
      BY <3>4, LenProperties
    <3>7. QED
      BY <3>4, <3>5, <3>6, <2>1, <1>1 DEF InOrder
  <2>2. CASE direction # "write"
    BY <2>2, <1>0, <1>1, <1>2 DEF ReceivedInv, InOrder
  <2>3. QED
    BY <2>1, <2>2
<1>5. TypeInv'
  BY <1>0, <1>1, <1>2, <1>4 DEF TypeInv
<1>6. ModeInv'
  <2>1. reserved + PacketSize <= passed + Depth => reserved' + PacketSize <= passed' + Depth
    BY <1>1, <1>2, Sizes
  <2>2. Unplaced' <=> Unplaced
    BY <1>1 DEF Unplaced
  <2>3. /\ binded' /\ (user'.pc = "write" => binder = "bound" /\ user'.bound = binded')
        /\ user'.pc = "write" => direction' = "write" /\ ops' # <<>>
        /\ user'.pc = "write" => reserved' + PacketSize <= MaxBytes
        /\ user'.pc = "write" => reserved' + PacketSize <= passed' + Depth
    BY <1>0, <1>1, <2>1 DEF ModeInv
  <2>4. QED
    BY <1>0, <1>1, <2>2, <2>3 DEF ModeInv
<1>7. SpaceInv'
  BY <1>0, <1>1, <1>2 DEF SpaceInv, TypeInv
<1>8. ReceivedInv'
  BY <1>1, <1>4 DEF ReceivedInv
<1>9. QED
  BY <1>0, <1>1, <1>3, <1>5, <1>6, <1>7, <1>8 DEF IInv

(* The sizes of the operations before one add up to the number of bytes     *)
(* before it: an unbound pipe has no gap between its operations.            *)
LEMMA PlaceOf ==
    ASSUME IInv, binder = "move", NEW i \in 1 .. Len(ops)
    PROVE  acked + SizeBefore(i) = ops[i].number
<1> DEFINE n == Len(ops)
           Sums(f) == f = [k \in 0 .. n |-> IF k = 0 THEN 0 ELSE f[k - 1] + ops[k].size]
           sum == CHOOSE f : Sums(f)
           upTo == [k \in 0 .. n |-> IF k = 0 THEN 0 ELSE ops[k].number + ops[k].size]
<1>1. /\ n \in Nat
      /\ \A k \in 1 .. n : ops[k].number \in Nat /\ ops[k].size \in Nat
  BY OpsFacts DEF Op
<1>2. /\ acked = 0
      /\ ops # <<>> => ops[1].number = 0
      /\ \A k \in 1 .. n - 1 : ops[k + 1].number = ops[k].number + ops[k].size
  <2>1. Unplaced /\ ~Settled
    BY DEF Unplaced, Settled
  <2>2. acked = 0
    BY <2>1 DEF IInv, ModeInv
  <2>3. \A k \in 1 .. n - 1 : ops[k + 1].number = ops[k].number + ops[k].size
    BY DEF IInv, ChainInv
  <2>4. ops # <<>> => acked = ops[1].number + (IF Settled THEN ops[1].sent ELSE 0)
    BY DEF IInv, ChainInv
  <2>5. ASSUME ops # <<>> PROVE ops[1].number = 0
    <3>1. acked = ops[1].number + 0
      BY <2>4, <2>5, <2>1
    <3>2. 1 \in 1 .. n
      BY <2>5, OpsFacts
    <3>3. QED
      BY <3>1, <3>2, <2>2, <1>1
  <2>6. QED
    BY <2>2, <2>3, <2>5
<1>3. SizeBefore(i) = sum[i - 1]
  BY DEF SizeBefore
<1>4. ops # <<>>
  BY OpsFacts
<1> HIDE DEF n
<1>5. \A k \in 0 .. n : upTo[k] = IF k = 0 THEN 0 ELSE upTo[k - 1] + ops[k].size
  <2> SUFFICES ASSUME NEW k \in 0 .. n
               PROVE  upTo[k] = IF k = 0 THEN 0 ELSE upTo[k - 1] + ops[k].size
    OBVIOUS
  <2>1. CASE k = 0
    BY <2>1, <1>1
  <2>2. CASE k = 1
    BY <2>2, <1>1, <1>2, <1>4
  <2>3. CASE k \in 2 .. n
    <3>1. k - 1 \in 1 .. n - 1 /\ k - 1 \in 1 .. n /\ k \in 1 .. n /\ (k - 1) + 1 = k
      BY <2>3, <1>1
    <3>2. ops[(k - 1) + 1].number = ops[k - 1].number + ops[k - 1].size
      BY <3>1, <1>2
    <3>3. /\ upTo[k] = ops[k].number + ops[k].size
          /\ upTo[k - 1] = ops[k - 1].number + ops[k - 1].size
      BY <3>1, <2>3, <1>1
    <3>4. QED
      BY <3>1, <3>2, <3>3, <2>3, <1>1
  <2>4. k = 0 \/ k = 1 \/ k \in 2 .. n
    BY <1>1
  <2>5. QED
    BY <2>1, <2>2, <2>3, <2>4
<1>6. \A k \in 0 .. n : upTo[k] \in Nat
  <2> SUFFICES ASSUME NEW k \in 0 .. n PROVE upTo[k] \in Nat
    OBVIOUS
  <2>1. k = 0 \/ k \in 1 .. n
    BY <1>1
  <2>2. QED
    BY <2>1, <1>1
<1>7. upTo = [k \in 0 .. n |-> upTo[k]]
  OBVIOUS
<1> HIDE DEF upTo
<1>8. Sums(upTo)
  BY <1>5, <1>7
<1>9. Sums(sum)
  BY <1>8
<1> HIDE DEF sum
<1>10. \A k \in 0 .. n : sum[k] = IF k = 0 THEN 0 ELSE sum[k - 1] + ops[k].size
  BY <1>9
<1>11. \A k \in 0 .. n : sum[k] = upTo[k]
  <2> DEFINE Bad == {k \in 0 .. n : sum[k] # upTo[k]}
  <2>1. Bad \subseteq Nat
    BY <1>1
  <2>2. SUFFICES ASSUME Bad # {} PROVE FALSE
    OBVIOUS
  <2> HIDE DEF Bad
  <2>3. PICK k \in Bad : \A j \in Bad : ~(j < k)
    BY <2>1, <2>2, LeastNatural
  <2>4. k \in 0 .. n /\ sum[k] # upTo[k]
    BY <2>3 DEF Bad
  <2>5. CASE k = 0
    BY <2>4, <2>5, <1>5, <1>10
  <2>6. CASE k # 0
    <3>1. k - 1 \in 0 .. n /\ k - 1 < k
      BY <2>4, <2>6, <1>1
    <3>2. k - 1 \notin Bad
      BY <3>1, <2>3
    <3>3. sum[k - 1] = upTo[k - 1]
      BY <3>1, <3>2 DEF Bad
    <3>4. QED
      BY <2>4, <2>6, <3>3, <1>5, <1>10
  <2>7. QED
    BY <2>5, <2>6
<1>12. i \in 1 .. n /\ i - 1 \in 0 .. n /\ upTo[i] = ops[i].number + ops[i].size
  BY <1>1 DEF n, upTo
<1>13. upTo[i] = upTo[i - 1] + ops[i].size /\ upTo[i - 1] \in Nat
  BY <1>5, <1>6, <1>12, <1>1
<1>14. QED
  BY <1>1, <1>2, <1>3, <1>11, <1>12, <1>13, SMTT(40)

(* Moving the queued operations gives each its place in the channel, and    *)
(* every packet of theirs the places of its bytes.                          *)
LEMMA MoveOpsInv == ASSUME IInv, MoveOps PROVE IInv'
<1> DEFINE n == Len(ops)
           moved == {i \in DOMAIN ops : ops[i].host}
           mover(p) == {i \in moved : p \in acked + SizeBefore(i) ..
                                            acked + SizeBefore(i) + ops[i].filled - 1}
<1>0. /\ TypeInv /\ ModeInv /\ SpaceInv /\ ChainInv /\ RegionInv /\ ReleasedInv
      /\ BufferInv /\ ReceivedInv /\ ~refused
  BY DEF IInv
<1>1. /\ n \in Nat /\ DOMAIN ops = 1 .. n /\ \A i \in 1 .. n : ops[i] \in Op
      /\ ops = <<>> <=> n = 0
  BY OpsFacts
<1>2. /\ binder = "move" /\ binder' = "clean"
      /\ UNCHANGED <<direction, binded, size_buffered, acked, passed, reserved, released,
                     received, regions, refused, user>>
      /\ ops' = [i \in DOMAIN ops |->
                   [ops[i] EXCEPT !.mmd = acked + SizeBefore(i), !.host = FALSE]]
      /\ buffer' = [p \in DOMAIN buffer |->
                      IF mover(p) = {} THEN buffer[p]
                      ELSE ops[Max(mover(p))].number
                             + p - (acked + SizeBefore(Max(mover(p)))) + 1]
  BY DEF MoveOps, endVars
<1>3. /\ Unplaced = TRUE /\ Unplaced' = FALSE /\ Settled = FALSE /\ Settled' = FALSE
      /\ acked = 0 /\ user.pc \in {"idle", "clean", "write"} /\ binded
  <2>1. Unplaced = TRUE /\ Unplaced' = FALSE /\ Settled = FALSE /\ Settled' = FALSE
    <3>1. binder \in {"unbound", "move"} /\ binder # "bound"
      BY <1>2
    <3>2. binder' \notin {"unbound", "move"} /\ binder' # "bound"
      BY <1>2
    <3>3. Unplaced = TRUE
      BY <3>1 DEF Unplaced
    <3>4. Unplaced' = FALSE
      BY <3>2 DEF Unplaced
    <3>5. Settled = FALSE
      BY <3>1 DEF Settled
    <3>6. Settled' = FALSE
      BY <3>2 DEF Settled
    <3>7. QED
      BY <3>3, <3>4, <3>5, <3>6
  <2>2. acked = 0 /\ binded
    BY <2>1, <1>0, <1>2 DEF ModeInv
  <2>3. user.pc \in {"idle", "clean", "write"}
    BY <1>0 DEF TypeInv
  <2>4. QED
    BY <2>1, <2>2, <2>3
<1>4. /\ user.pc = "idle" /\ regions = {}
      /\ direction = "read" => n = 0
  BY <1>0, <1>1, <1>2, <1>3 DEF ModeInv, RegionInv
<1>5. \A i \in 1 .. n : /\ acked + SizeBefore(i) = ops[i].number
                        /\ ops[i].number \in Nat /\ ops[i].filled \in Nat
                        /\ ops[i].size \in Nat /\ ops[i].sent \in Nat
                        /\ OpInv(ops[i]) /\ ops[i].number + ops[i].size <= reserved
  BY <1>0, <1>1, <1>2, PlaceOf DEF Op, ChainInv
<1>6. moved = 1 .. n
  BY <1>1, <1>3, <1>5 DEF OpInv
<1> HIDE DEF n
<1>7. \A p : mover(p) = {i \in 1 .. n : p \in ops[i].number ..
                                             ops[i].number + ops[i].filled - 1}
  BY <1>5, <1>6
<1> HIDE DEF moved
<1>8. \A i \in 1 .. n : ops'[i] = [ops[i] EXCEPT !.mmd = ops[i].number, !.host = FALSE]
  BY <1>1, <1>2, <1>5
<1>9. ops' \in Seq(Op) /\ Len(ops') = n
  <2>1. ops' = [i \in 1 .. n |-> [ops[i] EXCEPT !.mmd = acked + SizeBefore(i), !.host = FALSE]]
    BY <1>1, <1>2
  <2>2. \A i \in 1 .. n : [ops[i] EXCEPT !.mmd = acked + SizeBefore(i), !.host = FALSE] \in Op
    <3> SUFFICES ASSUME NEW i \in 1 .. n
                 PROVE  [ops[i] EXCEPT !.mmd = acked + SizeBefore(i), !.host = FALSE] \in Op
      OBVIOUS
    <3>1. ops[i] \in Op /\ acked + SizeBefore(i) \in Int
      BY <1>1, <1>5
    <3>2. QED
      BY <3>1 DEF Op
  <2>3. ops' \in [1 .. n -> Op]
    BY <2>1, <2>2
  <2>4. QED
    BY <2>3, <1>1
<1>10. \A i \in 1 .. n :
          /\ ops'[i].op = ops[i].op /\ ops'[i].size = ops[i].size
          /\ ops'[i].sent = ops[i].sent /\ ops'[i].number = ops[i].number
          /\ ops'[i].mmd = ops[i].number /\ ops'[i].host = FALSE
  BY <1>1, <1>8, ZenonT(60) DEF Op
<1>11. ASSUME NEW p, p \in 0 .. MaxBytes - 1, mover(p) # {}
       PROVE  buffer'[p] = p + 1
  <2>1. mover(p) \in SUBSET (1 .. n)
    BY <1>7
  <2> DEFINE m == Max(mover(p))
  <2>2. m \in mover(p)
    BY <2>1, <1>1, <1>11, LastOf
  <2>3. m \in 1 .. n /\ acked + SizeBefore(m) = ops[m].number /\ ops[m].number \in Nat
    BY <2>1, <2>2, <1>5
  <2>4. buffer'[p] = ops[m].number + p - (acked + SizeBefore(m)) + 1
    BY <1>2, <1>11, <1>0 DEF TypeInv
  <2> HIDE DEF m
  <2>5. buffer'[p] = ops[m].number + p - ops[m].number + 1
    BY <2>3, <2>4
  <2>6. QED
    BY <2>3, <2>5, <1>11
<1>12. ASSUME NEW p, p \in 0 .. MaxBytes - 1, mover(p) = {}
       PROVE  buffer'[p] = buffer[p]
  BY <1>2, <1>12, <1>0 DEF TypeInv
<1> HIDE DEF mover
<1>13. ChainInv'
  <2>1. \A i \in 1 .. n : OpInv(ops[i])' /\ ops'[i].number + ops'[i].size <= reserved'
    <3> SUFFICES ASSUME NEW i \in 1 .. n
                 PROVE  OpInv(ops[i])' /\ ops'[i].number + ops'[i].size <= reserved'
      OBVIOUS
    <3>1. OpInv(ops[i]) /\ ops[i].number + ops[i].size <= reserved
      BY <1>5
    <3>2. OpInv(ops[i])'
      BY <3>1, <1>3, <1>10 DEF OpInv
    <3>3. QED
      BY <3>1, <3>2, <1>2, <1>10
  <2>2. \A i, j \in 1 .. n :
          i < j => ops'[i].number + ops'[i].size <= ops'[j].number
    BY <1>0, <1>10 DEF ChainInv, n
  <2>3. \A i \in 1 .. n - 1 : ops'[i + 1].number = ops'[i].number + ops'[i].size
    <3> SUFFICES ASSUME NEW i \in 1 .. n - 1
                 PROVE  ops'[i + 1].number = ops'[i].number + ops'[i].size
      OBVIOUS
    <3>1. i \in 1 .. n /\ i + 1 \in 1 .. n
      BY <1>1
    <3>2. ops[i + 1].number = ops[i].number + ops[i].size
      BY <1>0 DEF ChainInv, n
    <3>3. QED
      BY <3>1, <3>2, <1>10
  <2>4. CASE ops = <<>>
    <3>1. ops' = <<>>
      BY <2>4, <1>1, <1>9, EmptySeq
    <3>2. acked' = reserved'
      BY <2>4, <1>0, <1>2 DEF ChainInv
    <3>3. QED
      BY <3>1, <3>2, <2>1, <2>2, <2>3, <1>9 DEF ChainInv
  <2>5. CASE ops # <<>>
    <3>1. 1 \in 1 .. n /\ n \in 1 .. n /\ ops' # <<>>
      BY <2>5, <1>1, <1>9
    <3>2. reserved = ops[n].number + ops[n].size /\ acked = ops[1].number + 0
      BY <2>5, <1>0, <1>3 DEF ChainInv, n
    <3>3. reserved' = ops'[n].number + ops'[n].size /\ acked' = ops'[1].number + 0
      BY <3>1, <3>2, <1>2, <1>10
    <3>4. QED
      BY <3>1, <3>3, <2>1, <2>2, <2>3, <1>3, <1>9 DEF ChainInv
  <2>6. QED
    BY <2>4, <2>5
<1>14. \A i \in 1 .. n : Held(ops[i])' = FALSE
  <2> SUFFICES ASSUME NEW i \in 1 .. n PROVE Held(ops[i])' = FALSE
    OBVIOUS
  <2>1. ~Held(ops[i])
    BY <1>0, <1>4 DEF RegionInv, n
  <2>2. QED
    BY <2>1, <1>10 DEF Held
<1>15. RegionInv'
  BY <1>2, <1>4, <1>9, <1>14 DEF RegionInv
<1>16. ReleasedInv'
  <2>1. \A i \in 1 .. n : HeldBytes(ops[i])' = HeldBytes(ops[i])
    BY <1>10 DEF HeldBytes
  <2>2. QED
    BY <2>1, <1>0, <1>2, <1>9 DEF ReleasedInv, n
<1>17. BufferInv'
  <2>1. direction' = "read" => \A p \in 0 .. MaxBytes - 1 : buffer'[p] = p + 1
    BY <1>0, <1>2, <1>11, <1>12 DEF BufferInv
  <2>2. 1 .. acked' = {}
    <3>1. acked' = 0
      BY <1>2, <1>3
    <3>2. QED
      BY <3>1
  <2>3. ASSUME NEW i \in 1 .. n, NEW b \in GivenBytes(ops[i])'
        PROVE  buffer'[b - 1] = b
    <3>1. /\ OpInv(ops[i]) /\ ops[i].number \in Nat /\ ops[i].size \in Nat
          /\ ops[i].sent \in Nat /\ ops[i].op \in {MAP, PACKET} /\ MAP # PACKET
          /\ ops[i].number + ops[i].size <= reserved /\ reserved <= MaxBytes
      BY <1>0, <1>1, <1>5 DEF Op, SpaceInv, MAP, PACKET
    <3>2. /\ ops[i].filled = (IF ops[i].op = MAP THEN ops[i].sent ELSE ops[i].size)
          /\ ops[i].sent <= ops[i].size
      BY <3>1, <1>3, Sizes DEF OpInv
    <3>3. b \in ops[i].number + 1 .. ops[i].number + ops[i].filled
      BY <2>3, <3>2, <1>10 DEF GivenBytes
    <3>4. ops[i].filled \in Nat /\ ops[i].filled <= ops[i].size
      BY <3>1, <3>2
    <3>5. b - 1 \in ops[i].number .. ops[i].number + ops[i].filled - 1
      BY <3>1, <3>3, <3>4
    <3>6. b - 1 \in 0 .. MaxBytes - 1 /\ (b - 1) + 1 = b
      BY <3>1, <3>3, <3>4, <1>0, Sizes, SMTT(40) DEF TypeInv
    <3>7. i \in mover(b - 1)
      BY <3>5, <1>7
    <3>8. buffer'[b - 1] = (b - 1) + 1
      BY <3>6, <3>7, <1>11
    <3>9. QED
      BY <3>6, <3>8
  <2>4. QED
    BY <2>1, <2>2, <2>3, <1>9 DEF BufferInv
<1>18. TypeInv'
  <2>1. buffer' \in [0 .. MaxBytes - 1 -> Int]
    <3>1. DOMAIN buffer = 0 .. MaxBytes - 1 /\ \A p \in 0 .. MaxBytes - 1 : buffer[p] \in Int
      BY <1>0 DEF TypeInv
    <3>2. \A p \in 0 .. MaxBytes - 1 : buffer'[p] \in Int
      BY <3>1, <1>11, <1>12
    <3>3. buffer' = [p \in 0 .. MaxBytes - 1 |-> buffer'[p]]
      BY <3>1, <1>2
    <3>4. QED
      BY <3>2, <3>3
  <2>2. QED
    BY <2>1, <1>0, <1>2, <1>9 DEF TypeInv
<1>19. ModeInv'
  BY <1>0, <1>2, <1>3, <1>4 DEF ModeInv
<1>20. SpaceInv'
  BY <1>0, <1>2 DEF SpaceInv
<1>21. ReceivedInv'
  BY <1>0, <1>2 DEF ReceivedInv, InOrder
<1>22. QED
  BY <1>0, <1>2, <1>13, <1>15, <1>16, <1>17, <1>18, <1>19, <1>20, <1>21 DEF IInv

-----------------------------------------------------------------------------
(* Every step of the pipe keeps the invariant.                              *)
LEMMA NextInv ==
    ASSUME IInv, HeldAcrossBinding = FALSE, Overlapping = FALSE, [Next]_vars
    PROVE  IInv'
<1>1. CASE Push
  BY <1>1, PushInv
<1>2. CASE BeginWrite
  BY <1>2, BeginWriteInv
<1>3. CASE QueueWrite
  BY <1>3, QueueWriteInv
<1>4. CASE Pull
  BY <1>4, PullInv
<1>5. CASE QueueRead
  BY <1>5, QueueReadInv
<1>6. ASSUME NEW requested \in MapSizes, Map(requested)
      PROVE  IInv'
  BY <1>6, MapInv, Sizes
<1>7. CASE Unmap
  <2>1. PICK region \in regions :
          \/ RefuseUnmap(region)
          \/ \E i \in DOMAIN ops, count \in 1 .. region.size - region.sent :
               MarkUnmapped(region, i, count) \/ AckUnmapped(region, i, count)
    BY <1>7 DEF Unmap
  <2>2. ~RefuseUnmap(region)
    BY NeverRefused
  <2>3. PICK i \in DOMAIN ops, count \in 1 .. region.size - region.sent :
               MarkUnmapped(region, i, count) \/ AckUnmapped(region, i, count)
    BY <2>1, <2>2
  <2>4. CASE MarkUnmapped(region, i, count)
    BY <2>4, MarkUnmappedInv
  <2>5. CASE AckUnmapped(region, i, count)
    BY <2>5, AckUnmappedInv
  <2>6. QED
    BY <2>3, <2>4, <2>5
<1>8. CASE CleanUp
  <2>1. CASE FlushPacket
    BY <2>1, FlushPacketInv
  <2>2. CASE FlushMap
    BY <2>2, FlushMapInv
  <2>3. CASE NothingQueued
    BY <2>3, NothingQueuedInv
  <2>4. QED
    BY <1>8, <2>1, <2>2, <2>3 DEF CleanUp
<1>9. CASE Bind
  BY <1>9, BindInv
<1>10. CASE MoveOps
  BY <1>10, MoveOpsInv
<1>11. CASE Device
  BY <1>11, DeviceInv
<1>12. CASE UNCHANGED vars
  <2>1. UNCHANGED <<direction, binded, ops, size_buffered, buffer, acked, passed, reserved,
                    released, received, regions, refused, user, binder>>
    BY <1>12 DEF vars, channelVars, endVars
  <2>2. Settled' = Settled /\ Unplaced' = Unplaced
    BY <2>1 DEF Settled, Unplaced
  <2>3. binder' \in {"move", "clean"} => regions = {}
    BY <2>1 DEF IInv, RegionInv
  <2>4. ChainInv' /\ RegionInv' /\ ReleasedInv' /\ BufferInv'
    BY <2>1, <2>2, <2>3, KeepStep
  <2>5. TypeInv' /\ SpaceInv' /\ ReceivedInv' /\ ~refused'
    BY <2>1 DEF IInv, TypeInv, SpaceInv, ReceivedInv, InOrder
  <2>6. ModeInv'
    BY <2>1, <2>2 DEF IInv, ModeInv
  <2>7. QED
    BY <2>4, <2>5, <2>6 DEF IInv
<1>13. QED
  BY <1>1, <1>2, <1>3, <1>4, <1>5, <1>6, <1>7, <1>8, <1>9, <1>10, <1>11, <1>12 DEF Next

(* What the invariant says of a pipe no thread is at work on: what is       *)
(* acknowledged is what the user has given up before the first byte it      *)
(* still holds.                                                             *)
LEMMA GivenUpToFirst ==
    ASSUME IInv, Settled
    PROVE  \A n \in 1 .. MaxBytes : 1 .. n \subseteq released <=> n <= acked
<1>0. ChainInv /\ ReleasedInv /\ SpaceInv
  BY DEF IInv
<1>1. /\ acked \in Nat /\ reserved \in Nat /\ acked <= reserved
      /\ Len(ops) \in Nat /\ \A i \in 1 .. Len(ops) : ops[i] \in Op
      /\ ops # <<>> => 1 \in 1 .. Len(ops)
  BY OpsFacts DEF IInv, TypeInv, SpaceInv
<1>2. ops # <<>> => /\ acked = ops[1].number + ops[1].sent
                    /\ ops[1].op = MAP /\ ops[1].sent < ops[1].size
  BY <1>0 DEF ChainInv
<1>3. ASSUME NEW b \in 1 .. acked PROVE b \in released
  <2>1. b \in 1 .. reserved
    BY <1>1
  <2>2. ASSUME NEW i \in 1 .. Len(ops) PROVE b \notin HeldBytes(ops[i])
    <3>1. /\ ops # <<>> /\ ops[1] \in Op /\ ops[i] \in Op
          /\ 1 \in 1 .. Len(ops)
      BY <1>1, <2>2, OpsFacts
    <3>2. acked = ops[1].number + ops[1].sent /\ ops[1].sent < ops[1].size
      BY <3>1, <1>2
    <3>3. CASE i = 1
      <4>1. ~(ops[i].number + ops[i].sent + 1 <= b)
        BY <3>1, <3>2, <3>3 DEF Op
      <4>2. QED
        BY <4>1, <3>1 DEF HeldBytes, Op
    <3>4. CASE i # 1
      <4>1. ops[1].number + ops[1].size <= ops[i].number
        BY <3>1, <3>4, <1>0, <1>1 DEF ChainInv
      <4>2. ~(ops[i].number + ops[i].sent + 1 <= b)
        BY <4>1, <3>1, <3>2, SMTT(40) DEF Op
      <4>3. QED
        BY <4>2, <3>1 DEF HeldBytes, Op
    <3>5. QED
      BY <3>3, <3>4
  <2>3. QED
    BY <2>1, <2>2, <1>0 DEF ReleasedInv
<1>4. acked + 1 \notin released
  <2>1. SUFFICES ASSUME acked + 1 \in released PROVE FALSE
    OBVIOUS
  <2>2. /\ acked + 1 <= reserved
        /\ \A i \in 1 .. Len(ops) : acked + 1 \notin HeldBytes(ops[i])
    BY <2>1, <1>0, <1>1 DEF ReleasedInv
  <2>3. ops # <<>>
    BY <2>2, <1>0, <1>1 DEF ChainInv
  <2>4. /\ 1 \in 1 .. Len(ops) /\ ops[1] \in Op /\ ops[1].op = MAP
        /\ acked = ops[1].number + ops[1].sent /\ ops[1].sent < ops[1].size
    BY <2>3, <1>1, <1>2
  <2>5. acked + 1 \in ops[1].number + ops[1].sent + 1 .. ops[1].number + ops[1].size
    BY <2>4 DEF Op
  <2>6. QED
    BY <2>2, <2>4, <2>5 DEF HeldBytes
<1>5. ASSUME NEW n \in 1 .. MaxBytes
      PROVE  1 .. n \subseteq released <=> n <= acked
  <2>1. n \in Nat
    BY Sizes
  <2>2. n <= acked => 1 .. n \subseteq released
    BY <2>1, <1>1, <1>3
  <2>3. ~(n <= acked) => acked + 1 \in 1 .. n
    BY <2>1, <1>1
  <2>4. QED
    BY <2>2, <2>3, <1>4
<1>6. QED
  BY <1>5

(* The assertions of acl_hostch.cpp that hold whatever the packet size is:  *)
(* all but the one inside safe_memcpy (537).                                *)
PlaceAssertionsHold ==
    /\ user.pc # "write" /\ binder # "clean" => size_buffered <= BufferSize
    /\ Cleaning /\ binder # "move" /\ ops # <<>> => Head(ops).mmd = acked
    /\ Quiet /\ ops # <<>> => acked = Head(ops).mmd + Head(ops).sent
    /\ binder = "move" => direction = "write" \/ ops = <<>>

(* They follow from the invariant.                                          *)
LEMMA PlacesAsserted == ASSUME IInv PROVE PlaceAssertionsHold
<1>0. TypeInv /\ ModeInv /\ SpaceInv /\ ChainInv
  BY DEF IInv
<1>1. size_buffered <= BufferSize
  <2>1. /\ acked \in Nat /\ passed \in Nat /\ reserved \in Nat /\ size_buffered \in Int
        /\ Depth \in Nat /\ acked + size_buffered = reserved
        /\ direction \in {"write", "read"}
    BY <1>0, Sizes DEF TypeInv, SpaceInv
  <2>2. CASE binded
    <3>1. BufferSize = IF direction = "write" THEN Depth - (acked - passed) ELSE passed - acked
      BY <2>2 DEF BufferSize, Available
    <3>2. QED
      BY <2>1, <3>1, <1>0 DEF SpaceInv
  <2>3. CASE ~binded
    <3>1. BufferSize = Depth /\ binder = "unbound" /\ passed = 0
      BY <2>3, <1>0 DEF BufferSize, ModeInv
    <3>2. Unplaced /\ acked = 0
      BY <3>1, <1>0 DEF Unplaced, ModeInv
    <3>3. CASE direction = "write"
      BY <2>1, <3>1, <3>2, <3>3, <1>0 DEF SpaceInv
    <3>4. CASE direction = "read"
      BY <2>1, <3>1, <3>2, <3>4, <1>0 DEF ModeInv, ChainInv
    <3>5. QED
      BY <2>1, <3>3, <3>4
  <2>4. QED
    BY <2>2, <2>3
<1>2. ASSUME ops # <<>>, ~Unplaced PROVE Head(ops).mmd = ops[1].number
  <2>1. 1 \in 1 .. Len(ops) /\ Head(ops) = ops[1]
    BY <1>2, OpsFacts
  <2>2. OpInv(ops[1])
    BY <2>1, <1>0 DEF ChainInv
  <2>3. QED
    BY <2>1, <2>2, <1>2 DEF OpInv
<1>3. Cleaning /\ binder # "move" /\ ops # <<>> => Head(ops).mmd = acked
  <2>1. SUFFICES ASSUME Cleaning, ops # <<>> PROVE Head(ops).mmd = acked
    OBVIOUS
  <2>2. ~Unplaced /\ acked = ops[1].number
    BY <2>1, CleanFacts
  <2>3. QED
    BY <2>1, <2>2, <1>2
<1>4. Quiet /\ ops # <<>> => acked = Head(ops).mmd + Head(ops).sent
  <2>1. SUFFICES ASSUME Quiet, ops # <<>> PROVE acked = Head(ops).mmd + Head(ops).sent
    OBVIOUS
  <2>2. Settled /\ ~Unplaced
    BY <2>1 DEF Quiet, Settled, Unplaced
  <2>3. acked = ops[1].number + ops[1].sent /\ Head(ops) = ops[1]
    BY <2>1, <2>2, <1>0, OpsFacts DEF ChainInv
  <2>4. QED
    BY <2>1, <2>2, <2>3, <1>2
<1>5. binder = "move" => direction = "write" \/ ops = <<>>
  BY <1>0 DEF TypeInv, ModeInv, Unplaced
<1>6. QED
  BY <1>1, <1>3, <1>4, <1>5 DEF PlaceAssertionsHold

(* A packet is only queued behind a region of which at least a byte is      *)
(* still to be acknowledged: enough for packets of one byte.                *)
LEMMA CopyAsserted ==
    ASSUME IInv, PacketSize = 1, user.pc = "write", user.bound
    PROVE  PacketSize <= size_buffered
<1>0. TypeInv /\ ModeInv /\ SpaceInv /\ ChainInv
  BY DEF IInv
<1>1. binded /\ ops # <<>> /\ Settled
  <2>1. user.bound = binded /\ binder \in {"unbound", "bound"}
    BY <1>0 DEF ModeInv
  <2>2. binded
    BY <2>1
  <2>3. binder = "bound"
    BY <2>1, <2>2, <1>0 DEF ModeInv
  <2>4. QED
    BY <2>2, <2>3, <1>0 DEF ModeInv, Settled
<1>2. /\ 1 \in 1 .. Len(ops) /\ ops[1] \in Op
      /\ acked = ops[1].number + ops[1].sent /\ ops[1].sent < ops[1].size
      /\ ops[1].number + ops[1].size <= reserved
  BY <1>0, <1>1, OpsFacts DEF ChainInv
<1>3. /\ acked \in Nat /\ reserved \in Nat /\ size_buffered \in Int
      /\ acked + size_buffered = reserved
  BY <1>0 DEF TypeInv, SpaceInv
<1>4. acked + 1 <= reserved
  BY <1>2, <1>3, SMTT(40) DEF Op
<1>5. QED
  BY <1>3, <1>4

(* The type invariant in terms of the inductive one.                        *)
LEMMA TypesFollow == ASSUME IInv PROVE TypeOK
<1>0. TypeInv /\ ModeInv /\ SpaceInv /\ ChainInv
  BY DEF IInv
<1>1. /\ acked \in Nat /\ passed \in Nat /\ reserved \in Nat /\ size_buffered \in Int
      /\ Depth \in Nat /\ MaxBytes \in Nat
      /\ Len(ops) \in Nat /\ DOMAIN ops = 1 .. Len(ops)
  BY <1>0, OpsFacts, Sizes DEF TypeInv
<1>2. ASSUME NEW i \in DOMAIN ops
      PROVE  /\ ops[i].op \in {MAP, PACKET}
             /\ ops[i].size \in 1 .. Depth /\ ops[i].sent \in 0 .. ops[i].size
             /\ ops[i].mmd \in -1 .. MaxBytes - ops[i].size
  <2>1. ops[i] \in Op /\ OpInv(ops[i]) /\ ops[i].number + ops[i].size <= reserved
    BY <1>0, <1>1, OpsFacts DEF ChainInv
  <2>2. /\ ops[i].op \in {MAP, PACKET} /\ ops[i].size \in 1 .. Depth
        /\ ops[i].sent \in Nat /\ ops[i].number \in Nat /\ ops[i].sent <= ops[i].size
        /\ ops[i].mmd = -1 \/ ops[i].mmd = ops[i].number
    BY <2>1 DEF Op, OpInv
  <2>3. ops[i].number + ops[i].size <= MaxBytes
    BY <2>1, <2>2, <1>0, <1>1 DEF SpaceInv
  <2>4. QED
    BY <2>2, <2>3, <1>1
<1>3. size_buffered \in 0 .. Depth /\ acked \in 0 .. MaxBytes
      /\ passed \in 0 .. MaxBytes /\ reserved \in 0 .. MaxBytes
  BY <1>0, <1>1 DEF SpaceInv, TypeInv
<1>4. released \subseteq 1 .. reserved
  BY DEF IInv, ReleasedInv
<1>5. direction \in Directions /\ binded \in BOOLEAN /\ refused \in BOOLEAN
      /\ user.pc \in {"idle", "write", "clean"} /\ user.bound \in BOOLEAN
      /\ binder \in {"unbound", "move", "clean", "bound"}
  BY <1>0 DEF TypeInv
<1>6. QED
  BY <1>2, <1>3, <1>4, <1>5 DEF TypeOK

-----------------------------------------------------------------------------
(* The theorems are about a program that holds no mapped region while its   *)
(* pipe is bound and makes no call of its own at that time: what the runs   *)
(* assume, and without which the README shows the properties to fail.       *)

(* The inductive invariant holds in every state of a pipe.                  *)
THEOREM Invariance ==
    ASSUME HeldAcrossBinding = FALSE, Overlapping = FALSE
    PROVE  Spec => []IInv
<1>1. Init => IInv
  BY InitInv
<1>2. IInv /\ [Next]_vars => IInv'
  BY NextInv
<1>3. QED
  BY <1>1, <1>2, PTL DEF Spec

(* Every variable of the pipe has its type: no counter of bytes leaves its  *)
(* range, and no operation reaches beyond the buffer of the channel.        *)
THEOREM TypeCorrect ==
    ASSUME HeldAcrossBinding = FALSE, Overlapping = FALSE
    PROVE  Spec => []TypeOK
<1>1. IInv => TypeOK
  BY TypesFollow
<1>2. QED
  BY <1>1, Invariance, PTL

(* With no call under way, the channel has been told of exactly the bytes   *)
(* before the first one the user still holds, and the rest is what is       *)
(* counted as buffered, whatever the order regions are given up in.         *)
THEOREM AcksWhatIsReleased ==
    ASSUME HeldAcrossBinding = FALSE, Overlapping = FALSE
    PROVE  Spec => []AckedIsReleased
<1>1. ASSUME IInv, Quiet
      PROVE  /\ acked = Cardinality({n \in 1 .. MaxBytes : 1 .. n \subseteq released})
             /\ acked + size_buffered = reserved
  <2>1. Settled
    BY <1>1 DEF Quiet, Settled
  <2>2. /\ acked \in Nat /\ MaxBytes \in Nat /\ acked <= MaxBytes
        /\ acked + size_buffered = reserved
    BY <1>1, Sizes DEF IInv, TypeInv, SpaceInv
  <2>3. {n \in 1 .. MaxBytes : 1 .. n \subseteq released} = 1 .. acked
    BY <1>1, <2>1, <2>2, GivenUpToFirst
  <2>4. Cardinality(1 .. acked) = acked
    BY <2>2, FS_Interval
  <2>5. QED
    BY <2>2, <2>3, <2>4
<1>2. IInv => AckedIsReleased
  BY <1>1 DEF AckedIsReleased
<1>3. QED
  BY <1>2, Invariance, PTL

(* The other end of the channel gets the bytes in order, each once, those   *)
(* written before the pipe was bound included.                              *)
THEOREM BytesInOrder ==
    ASSUME HeldAcrossBinding = FALSE, Overlapping = FALSE
    PROVE  Spec => []InOrder
<1>1. IInv => InOrder
  BY DEF IInv, ReceivedInv
<1>2. QED
  BY <1>1, Invariance, PTL

(* The pointer a map returned is accepted by every unmap of that region.    *)
THEOREM RegionsCanBeUnmapped ==
    ASSUME HeldAcrossBinding = FALSE, Overlapping = FALSE
    PROVE  Spec => []RegionsUnmap
<1>1. IInv => RegionsUnmap
  BY DEF IInv, RegionsUnmap
<1>2. QED
  BY <1>1, Invariance, PTL

(* Space and places are as the assertions of the file say, for packets of   *)
(* any size.                                                                *)
THEOREM PlaceAssertions ==
    ASSUME HeldAcrossBinding = FALSE, Overlapping = FALSE
    PROVE  Spec => []PlaceAssertionsHold
<1>1. IInv => PlaceAssertionsHold
  BY PlacesAsserted
<1>2. QED
  BY <1>1, Invariance, PTL

(* For packets of one byte, so does safe_memcpy; with longer ones it need   *)
(* not, as the bound it is given is what is buffered, not what is free.     *)
THEOREM Assertions ==
    ASSUME HeldAcrossBinding = FALSE, Overlapping = FALSE, PacketSize = 1
    PROVE  Spec => []AssertionsHold
<1>1. IInv => PlaceAssertionsHold
  BY PlacesAsserted
<1>2. ASSUME IInv PROVE user.pc = "write" /\ user.bound => PacketSize <= size_buffered
  BY <1>2, CopyAsserted
<1>3. IInv => AssertionsHold
  BY <1>1, <1>2 DEF AssertionsHold, PlaceAssertionsHold
<1>4. QED
  BY <1>3, Invariance, PTL
=============================================================================
