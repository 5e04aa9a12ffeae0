--------------------------- MODULE MemBlocksProofs ---------------------------
(***************************************************************************)
(* What holds of MemBlocks for every set of buffers, devices and commands, *)
(* every workload and every shape of the memories: its types; the blocks   *)
(* in the region's list are in order and overlap nowhere; first fit finds  *)
(* the lowest room there is; and, as long as no migration command is       *)
(* undone, the addresses that commands were given stay good and no block   *)
(* is lost.                                                                *)
(***************************************************************************)
EXTENDS MemBlocks, SequenceLemmas, FiniteSetTheorems, SequenceTheorems,
        TLAPS

(* A block within the usable memory of its device, as large as its buffer, *)
(* and a list of such blocks in order.                                     *)
Placed(b) ==
    /\ b.next = b.begin + Size[b.mem]
    /\ Memory[b.dev].usable <= b.begin /\ b.next <= Memory[b.dev].next
Sound(r) ==
    /\ r \in Seq(Block)
    /\ \A i, j \in 1..Len(r) : i < j => r[i].next <= r[j].begin
    /\ \A i \in 1..Len(r) : Placed(r[i])

(* While a command is being enqueued there is a buffer it looks at.        *)
ArgInv ==
    \A c \in Commands :
        status[c] \in {"new", "reserving", "undoing"} => arg[c] <= NumMems(c)

IInv == TypeOK /\ ArgInv /\ BlocksDisjoint

(* The region's list is such a list.                                       *)
LEMMA SoundRegion ==
    Sound(region) <=> region \in Seq(Block) /\ BlocksDisjoint
BY DEF Sound, Placed, BlocksDisjoint

----------------------------------------------------------------------------
(* Lists of blocks. *)
LEMMA InsertSound ==
    ASSUME NEW r, Sound(r), NEW b \in Block, Placed(b), NEW k \in 0..Len(r),
           \A i \in 1..k : r[i].next <= b.begin,
           k < Len(r) => b.next <= r[k + 1].begin
    PROVE  Sound(InsertAt(r, k + 1, b))
<1> DEFINE s == InsertAt(r, k + 1, b)
<1>0. /\ r \in Seq(Block) /\ Len(r) \in Nat
      /\ \A i \in 1..Len(r) : r[i] \in Block
  BY LenProperties, ElementOfSeq DEF Sound
<1>1. k + 1 \in 1..Len(r) + 1
  BY <1>0
<1>2. /\ s \in Seq(Block) /\ Len(s) = Len(r) + 1
      /\ \A i \in 1..Len(r) + 1 :
           s[i] = IF i < k + 1 THEN r[i]
                  ELSE IF i = k + 1 THEN b ELSE r[i - 1]
  BY <1>0, <1>1, InsertAtProperties
<1> HIDE DEF s
<1>3. \A i \in 1..Len(r) : r[i].begin \in Nat /\ r[i].next \in Nat
                          /\ r[i].begin <= r[i].next
  <2> SUFFICES ASSUME NEW i \in 1..Len(r)
               PROVE  r[i].begin \in Nat /\ r[i].next \in Nat
                      /\ r[i].begin <= r[i].next
    OBVIOUS
  <2>1. r[i] \in Block /\ Placed(r[i])
    BY <1>0 DEF Sound
  <2>2. r[i].mem \in Mems /\ r[i].begin \in Nat /\ r[i].next \in Nat
    BY <2>1 DEF Block
  <2>3. Size[r[i].mem] \in Nat
    BY <2>2, SizeAssumption
  <2>4. QED
    BY <2>1, <2>2, <2>3 DEF Placed
<1>4. b.begin \in Nat /\ b.next \in Nat /\ b.begin <= b.next
  <2>1. b.mem \in Mems /\ b.begin \in Nat /\ b.next \in Nat
    BY DEF Block
  <2>2. Size[b.mem] \in Nat
    BY <2>1, SizeAssumption
  <2>3. QED
    BY <2>1, <2>2 DEF Placed
<1>5. ASSUME NEW i \in 1..Len(s)
      PROVE  Placed(s[i])
  <2>1. i \in 1..Len(r) + 1 /\ \A x \in 1..Len(r) : Placed(r[x])
    BY <1>2 DEF Sound
  <2>2. PICK x \in 1..Len(r) \cup {0} :
          s[i] = IF x = 0 THEN b ELSE r[x]
    <3>1. CASE i < k + 1
      BY <3>1, <2>1, <1>0, <1>2
    <3>2. CASE i = k + 1
      BY <3>2, <2>1, <1>0, <1>2
    <3>3. CASE i > k + 1
      <4>1. i - 1 \in 1..Len(r) /\ s[i] = r[i - 1]
        BY <3>3, <2>1, <1>0, <1>2
      <4>2. QED
        BY <4>1
    <3>4. QED
      BY <3>1, <3>2, <3>3, <2>1, <1>0
  <2>3. QED
    BY <2>1, <2>2
<1>6. ASSUME NEW i \in 1..Len(s), NEW j \in 1..Len(s), i < j
      PROVE  s[i].next <= s[j].begin
  <2>0. /\ i \in 1..Len(r) + 1 /\ j \in 1..Len(r) + 1
        /\ \A x, y \in 1..Len(r) : x < y => r[x].next <= r[y].begin
    BY <1>2 DEF Sound
  <2>1. CASE j < k + 1
    <3>1. /\ s[i] = r[i] /\ s[j] = r[j]
          /\ i \in 1..Len(r) /\ j \in 1..Len(r)
      BY <2>0, <2>1, <1>0, <1>2, <1>6
    <3>2. QED
      BY <3>1, <2>0, <1>6
  <2>2. CASE j = k + 1
    <3>1. i \in 1..k /\ s[i] = r[i] /\ s[j] = b
      BY <2>0, <2>2, <1>0, <1>1, <1>2, <1>6
    <3>2. QED
      BY <3>1
  <2>3. CASE j > k + 1
    <3>1. s[j] = r[j - 1] /\ j - 1 \in 1..Len(r) /\ k + 1 \in 1..Len(r)
      BY <2>0, <2>3, <1>0, <1>1, <1>2
    <3>2. b.next <= r[k + 1].begin
      BY <3>1, <1>0
    <3>3. r[k + 1].begin <= r[j - 1].begin
      <4>1. CASE k + 1 = j - 1
        BY <4>1, <3>1, <1>3
      <4>2. CASE k + 1 < j - 1
        <5>1. r[k + 1].next <= r[j - 1].begin
          BY <4>2, <3>1, <2>0
        <5>2. /\ r[k + 1].begin \in Nat /\ r[k + 1].next \in Nat
              /\ r[k + 1].begin <= r[k + 1].next
          BY <3>1, <1>3
        <5>3. r[j - 1].begin \in Nat
          BY <3>1, <1>3
        <5>4. QED
          BY <5>1, <5>2, <5>3, SMTT(40)
      <4>3. k \in Nat /\ j \in Nat
        BY <2>0, <1>0
      <4>4. k + 1 = j - 1 \/ k + 1 < j - 1
        BY <4>3, <2>3
      <4>5. QED
        BY <4>1, <4>2, <4>4
    <3>4. CASE i < k + 1
      <4>1. s[i] = r[i] /\ i \in 1..Len(r) /\ i < j - 1
        BY <3>4, <2>0, <2>3, <1>0, <1>2, <3>1
      <4>2. QED
        BY <4>1, <3>1, <2>0
    <3>5. CASE i = k + 1
      <4>1. s[i] = b
        BY <3>5, <2>0, <1>0, <1>2
      <4>2. QED
        BY <4>1, <3>1, <3>2, <3>3, <1>3, <1>4, SMTT(40)
    <3>6. CASE i > k + 1
      <4>1. s[i] = r[i - 1] /\ i - 1 \in 1..Len(r) /\ i - 1 < j - 1
        BY <3>6, <2>0, <1>0, <1>2, <1>6
      <4>2. QED
        BY <4>1, <3>1, <2>0
    <3>7. QED
      BY <3>4, <3>5, <3>6, <2>0, <1>0
  <2>4. QED
    BY <2>1, <2>2, <2>3, <2>0, <1>0
<1>7. QED
  BY <1>2, <1>5, <1>6 DEF Sound, s

(* A list that loses a block stays sound.                                  *)
LEMMA RemoveSound ==
    ASSUME NEW r, Sound(r), NEW i \in 1..Len(r)
    PROVE  Sound(RemoveAt(r, i))
<1> DEFINE s == RemoveAt(r, i)
<1>0. r \in Seq(Block) /\ Len(r) \in Nat
  BY LenProperties DEF Sound
<1>1. /\ s \in Seq(Block) /\ Len(s) = Len(r) - 1
      /\ \A k \in 1..Len(r) - 1 : s[k] = IF k < i THEN r[k] ELSE r[k + 1]
  BY <1>0, RemoveAtProperties
<1> HIDE DEF s
<1>2. \A k \in 1..Len(s) : Placed(s[k])
  BY <1>0, <1>1 DEF Sound
<1>3. ASSUME NEW k \in 1..Len(s), NEW l \in 1..Len(s), k < l
      PROVE  s[k].next <= s[l].begin
  <2> DEFINE x == IF k < i THEN k ELSE k + 1
             y == IF l < i THEN l ELSE l + 1
  <2>1. k \in 1..Len(r) - 1 /\ l \in 1..Len(r) - 1
    BY <1>1
  <2>2. x \in 1..Len(r) /\ y \in 1..Len(r) /\ x < y
    BY <2>1, <1>0, <1>3
  <2>3. s[k] = r[x] /\ s[l] = r[y]
    BY <2>1, <1>1
  <2> HIDE DEF x, y
  <2>4. QED
    BY <2>2, <2>3 DEF Sound
<1>4. QED
  BY <1>1, <1>2, <1>3 DEF Sound, s

----------------------------------------------------------------------------
(* The search. *)
LEMMA TryFacts ==
    ASSUME NEW m \in Mems, NEW d \in Devices
    PROVE  /\ FirstTry(m, d) \in Nat /\ Memory[d].usable \in Nat
           /\ Memory[d].usable <= FirstTry(m, d)
           /\ Memory[d].next \in Nat /\ Size[m] \in Nat
<1>1. /\ Memory[d].begin \in Nat /\ Memory[d].usable \in Nat
      /\ Memory[d].next \in Nat /\ Memory[d].banks \in Nat \ {0}
      /\ Bank[m] \in Nat /\ Size[m] \in Nat
  BY SizeAssumption
<1>2. BankSize(d) \in Int
  BY <1>1 DEF BankSize
<1>3. (Bank[m] - 1) % Memory[d].banks \in Int
  BY <1>1
<1>4. BankBegin(m, d) \in Int
  BY <1>1, <1>2, <1>3 DEF BankBegin
<1>5. QED
  BY <1>1, <1>4 DEF FirstTry

(* A gap that is found lies behind the blocks before it and ends before    *)
(* the next.                                                               *)
LEMMA GapFacts ==
    ASSUME region \in Seq(Block), NEW m \in Mems, NEW d \in Devices,
           NEW g \in FirstGap(m, d)
    PROVE  /\ g[1] \in 0..Len(region) /\ g[2] \in Nat
           /\ Memory[d].usable <= g[2]
           /\ \A i \in 1..g[1] : region[i].next <= g[2]
           /\ FitsBefore(m, d, g[1], g[2])
<1>1. PICK first \in {FirstTry(m, d), Memory[d].usable} : g \in Gaps(m, d, first)
  BY DEF FirstGap, GapsToUse
<1>2. first \in Nat /\ Memory[d].usable <= first
  BY TryFacts
<1>3. PICK k \in 0..Len(region) : \E a \in Reached(first, k) :
        /\ g = <<k, a>>
        /\ IsCandidate(first, k, a) /\ FitsBefore(m, d, k, a)
  BY <1>1 DEF Gaps
<1>a. PICK a \in Reached(first, k) :
        /\ g = <<k, a>>
        /\ IsCandidate(first, k, a) /\ FitsBefore(m, d, k, a)
  BY <1>3
<1>4. a \in Nat
  <2>1. \A i \in 1..Len(region) : region[i] \in Block
    BY ElementOfSeq
  <2>2. \A i \in 1..Len(region) : region[i].next \in Nat
    BY <2>1 DEF Block
  <2>3. Len(region) \in Nat
    BY LenProperties
  <2>4. \A i \in 1..k : region[i].next \in Nat
    BY <2>2, <2>3
  <2>5. QED
    BY <1>2, <2>4 DEF Reached
<1>5. Memory[d].usable <= a
  BY <1>2, <1>a, <1>4, TryFacts DEF IsCandidate
<1>6. QED
  BY <1>a, <1>4, <1>5 DEF IsCandidate

(* A block put where the search says keeps the list sound, ...             *)
LEMMA LinkSound ==
    ASSUME Sound(region), NEW m \in Mems, NEW d \in Devices,
           NEW g \in FirstGap(m, d), Link(m, d, g)
    PROVE  BlockAt(m, d, g) \in Block /\ Sound(region')
<1> DEFINE b == BlockAt(m, d, g)
<1>0. region \in Seq(Block)
  BY DEF Sound
<1>1. /\ g[1] \in 0..Len(region) /\ g[2] \in Nat
      /\ Memory[d].usable <= g[2]
      /\ \A i \in 1..g[1] : region[i].next <= g[2]
      /\ FitsBefore(m, d, g[1], g[2])
  BY <1>0, GapFacts
<1>2. b \in Block
  BY <1>1, TryFacts DEF BlockAt, Block
<1>3. b.mem = m /\ b.dev = d /\ b.begin = g[2] /\ b.next = g[2] + Size[m]
  BY DEF BlockAt
<1> HIDE DEF b
<1>4. Placed(b)
  BY <1>1, <1>3 DEF Placed, FitsBefore
<1>5. g[1] < Len(region) => b.next <= region[g[1] + 1].begin
  BY <1>1, <1>3 DEF FitsBefore
<1>6. \A i \in 1..g[1] : region[i].next <= b.begin
  BY <1>1, <1>3
<1>7. Sound(InsertAt(region, g[1] + 1, b))
  BY <1>1, <1>2, <1>4, <1>5, <1>6, InsertSound
<1>8. QED
  BY <1>2, <1>7 DEF Link, b

(* ... as does taking a block out.                                         *)
LEMMA UnlinkSound ==
    ASSUME Sound(region), NEW b, Unlink(b)
    PROVE  Sound(region')
BY RemoveSound DEF Unlink

----------------------------------------------------------------------------
(* The buffer a command looks at. *)
LEMMA MemFacts ==
    ASSUME TypeOK, NEW c \in Commands
    PROVE  /\ Device(c) \in Devices
           /\ NumMems(c) \in Nat \ {0}
           /\ arg[c] \in Nat \ {0}
           /\ arg[c] <= NumMems(c) => MemOf(c) \in Mems
           /\ ToSet(Command[c].mems) \subseteq Mems
<1>1. Command[c] \in CommandType
  BY CommandAssumption
<1>2. /\ Command[c].device \in Devices
      /\ Command[c].mems \in Seq(Mems) /\ Command[c].mems # <<>>
  BY <1>1 DEF CommandType
<1>3. Len(Command[c].mems) \in Nat \ {0}
  BY <1>2, EmptySeq, LenProperties
<1>4. \A i \in 1..Len(Command[c].mems) : Command[c].mems[i] \in Mems
  BY <1>2, ElementOfSeq
<1>5. arg[c] \in Nat \ {0}
  BY DEF TypeOK
<1>6. QED
  BY <1>2, <1>3, <1>4, <1>5 DEF Device, NumMems, MemOf, ToSet

(* Every step keeps the list sound. *)
LEMMA RegionStep ==
    ASSUME IInv, [Next]_vars
    PROVE  region' \in Seq(Block) /\ BlocksDisjoint'
<1>0. Sound(region)
  BY SoundRegion DEF IInv, TypeOK
<1>1. ASSUME UNCHANGED region
      PROVE  Sound(region')
  BY <1>0, <1>1
<1>2. ASSUME NEW m \in Mems, Create(m)
      PROVE  Sound(region')
  BY <1>1, <1>2 DEF Create
<1>3. ASSUME NEW m \in Mems, Release(m)
      PROVE  Sound(region')
  BY <1>0, <1>3, UnlinkSound DEF Release
<1>4. ASSUME NEW m \in Mems, NEW d \in Devices, Bind(m, d)
      PROVE  Sound(region')
  BY <1>0, <1>1, <1>4, LinkSound DEF Bind
<1>5. ASSUME NEW c \in Commands, Reserve(c)
      PROVE  Sound(region')
  <2>1. MemOf(c) \in Mems /\ Device(c) \in Devices
    BY <1>5, MemFacts DEF IInv, ArgInv, Reserve
  <2>2. QED
    BY <1>0, <1>5, <2>1, LinkSound DEF Reserve
<1>6. ASSUME NEW c \in Commands, GiveBack(c)
      PROVE  Sound(region')
  BY <1>0, <1>1, <1>6, UnlinkSound DEF GiveBack
<1>7. ASSUME NEW c \in Commands, MigrateAndMove(c)
      PROVE  Sound(region')
  BY <1>0, <1>1, <1>7, UnlinkSound DEF MigrateAndMove
<1>8. ASSUME NEW c \in Commands,
             \/ Enqueue(c) \/ UseReservation(c) \/ RefuseKernel(c)
             \/ RefuseMigration(c) \/ Terminate(c) \/ MigrateInPlace(c)
             \/ Launch(c) \/ Finish(c)
      PROVE  Sound(region')
  BY <1>1, <1>8 DEF Enqueue, UseReservation, RefuseKernel, RefuseMigration,
                    Terminate, MigrateInPlace, Launch, Finish
<1>9. ASSUME UNCHANGED vars
      PROVE  Sound(region')
  BY <1>1, <1>9 DEF vars
<1>10. ASSUME Next
       PROVE  Sound(region')
  <2>1. CASE \E m \in Mems :
               Create(m) \/ Release(m) \/ \E d \in Devices : Bind(m, d)
    BY <2>1, <1>2, <1>3, <1>4
  <2>2. CASE \E c \in Commands :
               \/ Enqueue(c) \/ UseReservation(c) \/ Reserve(c)
               \/ RefuseKernel(c) \/ RefuseMigration(c) \/ GiveBack(c)
               \/ Terminate(c) \/ MigrateInPlace(c) \/ MigrateAndMove(c)
               \/ Launch(c) \/ Finish(c)
    BY <2>2, <1>5, <1>6, <1>7, <1>8
  <2>3. QED
    BY <2>1, <2>2, <1>10 DEF Next
<1>11. Sound(region')
  BY <1>9, <1>10
<1>12. region' \in Seq(Block)
  BY <1>11 DEF Sound
<1>13. /\ \A i, j \in 1..Len(region') :
            i < j => region'[i].next <= region'[j].begin
       /\ \A i \in 1..Len(region') : Placed(region'[i])
  BY <1>11 DEF Sound
<1>14. BlocksDisjoint'
  BY <1>13 DEF Placed, BlocksDisjoint
<1>15. QED
  BY <1>12, <1>14

(* One cell of a table changes. *)
LEMMA TableUpdate ==
    ASSUME NEW S, NEW table \in [Mems -> [Devices -> S]],
           NEW m \in Mems, NEW d \in Devices, NEW v \in S
    PROVE  [table EXCEPT ![m][d] = v] \in [Mems -> [Devices -> S]]
<1>1. [table[m] EXCEPT ![d] = v] \in [Devices -> S]
  OBVIOUS
<1>2. [table EXCEPT ![m] = [table[m] EXCEPT ![d] = v]]
        \in [Mems -> [Devices -> S]]
  BY <1>1
<1>3. [table EXCEPT ![m][d] = v]
        = [table EXCEPT ![m] = [table[m] EXCEPT ![d] = v]]
  OBVIOUS
<1>4. QED
  BY <1>2, <1>3

(* A count goes up or down by one.                                         *)
LEMMA CountUpdate ==
    ASSUME TypeOK, NEW m \in Mems, NEW d \in Devices,
           \/ count' = [count EXCEPT ![m][d] = @ + 1]
           \/ count' = [count EXCEPT ![m][d] = @ - 1]
    PROVE  count' \in [Mems -> [Devices -> Int]]
<1>1. count \in [Mems -> [Devices -> Int]] /\ count[m][d] \in Int
  BY DEF TypeOK
<1>2. count[m][d] + 1 \in Int /\ count[m][d] - 1 \in Int
  BY <1>1
<1>3. CASE count' = [count EXCEPT ![m][d] = @ + 1]
  <2>1. count' = [count EXCEPT ![m][d] = count[m][d] + 1]
    BY <1>3
  <2>2. QED
    BY <1>1, <1>2, <2>1, TableUpdate
<1>4. CASE count' = [count EXCEPT ![m][d] = @ - 1]
  <2>1. count' = [count EXCEPT ![m][d] = count[m][d] - 1]
    BY <1>4
  <2>2. QED
    BY <1>1, <1>2, <2>1, TableUpdate
<1>5. QED
  BY <1>3, <1>4

(* A reservation is made or given up.                                      *)
LEMMA ReservedUpdate ==
    ASSUME TypeOK, NEW m \in Mems, NEW d \in Devices,
           NEW b \in Block \cup {NoBlock},
           reserved' = [reserved EXCEPT ![m][d] = b]
    PROVE  reserved' \in [Mems -> [Devices -> Block \cup {NoBlock}]]
BY TableUpdate DEF TypeOK

(* Every step keeps the types, ... *)
LEMMA TypeStep ==
    ASSUME IInv, [Next]_vars
    PROVE  TypeOK'
<1>0. TypeOK /\ region' \in Seq(Block)
  BY RegionStep DEF IInv
<1>1. \A x \in Mems, d \in Devices : \A g \in FirstGap(x, d) :
        BlockAt(x, d, g) \in Block
  <2> SUFFICES ASSUME NEW x \in Mems, NEW d \in Devices,
                      NEW g \in FirstGap(x, d)
               PROVE  BlockAt(x, d, g) \in Block
    OBVIOUS
  <2>1. g[2] \in Nat
    BY <1>0, GapFacts DEF TypeOK
  <2>2. g[2] + Size[x] \in Nat
    BY <2>1, TryFacts
  <2>3. QED
    BY <2>1, <2>2 DEF BlockAt, Block
<1>2. ASSUME NEW m \in Mems, Create(m) \/ Release(m)
      PROVE  TypeOK'
  <2>1. CASE Create(m)
    <3>1. /\ [d \in Devices |-> NoBlock] \in [Devices -> Block \cup {NoBlock}]
          /\ [d \in Devices |-> 0] \in [Devices -> Int]
      OBVIOUS
    <3>2. reserved' \in [Mems -> [Devices -> Block \cup {NoBlock}]]
      BY <1>0, <2>1, <3>1 DEF TypeOK, Create
    <3>3. count' \in [Mems -> [Devices -> Int]]
      BY <1>0, <2>1, <3>1 DEF TypeOK, Create
    <3>4. block' \in [Mems -> Block \cup {NoBlock}]
      BY <1>0, <2>1 DEF TypeOK, Create
    <3>5. live' \in SUBSET Mems /\ UNCHANGED <<status, arg, newly, image, leaky>>
      BY <1>0, <2>1 DEF TypeOK, Create, commands
    <3>6. QED
      BY <1>0, <3>2, <3>3, <3>4, <3>5 DEF TypeOK
  <2>2. CASE Release(m)
    <3>1. /\ live' \in SUBSET Mems
          /\ UNCHANGED <<reserved, count, block, status, arg, newly, image,
                         leaky>>
      BY <1>0, <2>2 DEF TypeOK, Release, commands
    <3>2. QED
      BY <1>0, <3>1 DEF TypeOK
  <2>3. QED
    BY <1>2, <2>1, <2>2
<1>3. ASSUME NEW m \in Mems, NEW d \in Devices, Bind(m, d)
      PROVE  TypeOK'
  <2>1. UNCHANGED <<count, live, status, arg, newly, image, leaky>>
    BY <1>3 DEF Bind, commands
  <2>2. CASE reserved[m][d] # NoBlock
    <3>1. /\ block' = [block EXCEPT ![m] = reserved[m][d]]
          /\ UNCHANGED reserved
      BY <1>3, <2>2 DEF Bind
    <3>2. reserved[m][d] \in Block \cup {NoBlock}
      BY <1>0 DEF TypeOK
    <3>3. QED
      BY <1>0, <2>1, <3>1, <3>2 DEF TypeOK
  <2>3. CASE reserved[m][d] = NoBlock
    <3>1. PICK g \in FirstGap(m, d) :
            /\ block' = [block EXCEPT ![m] = BlockAt(m, d, g)]
            /\ reserved' = [reserved EXCEPT ![m][d] = BlockAt(m, d, g)]
      BY <1>3, <2>3 DEF Bind
    <3>2. BlockAt(m, d, g) \in Block
      BY <1>1
    <3>3. reserved' \in [Mems -> [Devices -> Block \cup {NoBlock}]]
      BY <1>0, <3>1, <3>2, ReservedUpdate
    <3>4. block' \in [Mems -> Block \cup {NoBlock}]
      BY <1>0, <3>1, <3>2 DEF TypeOK
    <3>5. QED
      BY <1>0, <2>1, <3>3, <3>4 DEF TypeOK
  <2>4. QED
    BY <2>2, <2>3
<1>4. ASSUME NEW c \in Commands, NEW b \in Block, Promise(c, b),
             MemOf(c) \in Mems, Device(c) \in Devices
      PROVE  /\ count' \in [Mems -> [Devices -> Int]]
             /\ block' \in [Mems -> Block \cup {NoBlock}]
             /\ live' \in SUBSET Mems /\ leaky' \in SUBSET Mems
             /\ status' \in [Commands -> Statuses]
             /\ arg' \in [Commands -> Nat \ {0}]
             /\ image' \in [Commands -> Seq(Block)]
  <2>1. image' \in [Commands -> Seq(Block)]
    <3>1. image[c] \in Seq(Block) /\ Append(image[c], b) \in Seq(Block)
      BY <1>0, AppendProperties DEF TypeOK
    <3>2. image' = [image EXCEPT ![c] = Append(image[c], b)]
      BY <1>4 DEF Promise
    <3>3. QED
      BY <1>0, <3>1, <3>2 DEF TypeOK
  <2>2. count' \in [Mems -> [Devices -> Int]]
    BY <1>0, <1>4, CountUpdate DEF Promise
  <2>3. UNCHANGED <<block, live, leaky>>
    BY <1>4 DEF Promise
  <2>4. /\ status' \in [Commands -> Statuses]
        /\ arg' \in [Commands -> Nat \ {0}]
    <3>1. arg[c] \in Nat \ {0} /\ arg[c] + 1 \in Nat \ {0} /\ "queued" \in Statuses
      BY <1>0 DEF TypeOK, Statuses
    <3>2. CASE arg[c] < NumMems(c)
      <4>1. arg' = [arg EXCEPT ![c] = arg[c] + 1] /\ status' = status
        BY <1>4, <3>2 DEF Promise
      <4>2. QED
        BY <1>0, <3>1, <4>1 DEF TypeOK
    <3>3. CASE ~(arg[c] < NumMems(c))
      <4>1. /\ arg' = [arg EXCEPT ![c] = 1]
            /\ status' = [status EXCEPT ![c] = "queued"]
        BY <1>4, <3>3 DEF Promise
      <4>2. QED
        BY <1>0, <3>1, <4>1 DEF TypeOK
    <3>4. QED
      BY <3>2, <3>3
  <2>5. QED
    BY <1>0, <2>1, <2>2, <2>3, <2>4 DEF TypeOK
<1>5. ASSUME NEW c \in Commands, UseReservation(c)
      PROVE  TypeOK'
  <2>1. MemOf(c) \in Mems /\ Device(c) \in Devices
    BY <1>0, <1>5, MemFacts DEF IInv, ArgInv, UseReservation
  <2>2. reserved[MemOf(c)][Device(c)] \in Block
    BY <1>0, <1>5, <2>1 DEF TypeOK, UseReservation
  <2>3. Promise(c, reserved[MemOf(c)][Device(c)])
    BY <1>5 DEF UseReservation
  <2>4. UNCHANGED <<reserved, newly>>
    BY <1>5 DEF UseReservation
  <2>5. QED
    BY <1>0, <1>4, <2>1, <2>2, <2>3, <2>4 DEF TypeOK
<1>6. ASSUME NEW c \in Commands, Reserve(c)
      PROVE  TypeOK'
  <2>1. MemOf(c) \in Mems /\ Device(c) \in Devices /\ arg[c] \in Nat
    BY <1>0, <1>6, MemFacts DEF IInv, ArgInv, Reserve
  <2>2. PICK g \in FirstGap(MemOf(c), Device(c)) :
          /\ reserved' = [reserved EXCEPT ![MemOf(c)][Device(c)] =
                                          BlockAt(MemOf(c), Device(c), g)]
          /\ Promise(c, BlockAt(MemOf(c), Device(c), g))
    BY <1>6 DEF Reserve
  <2>3. BlockAt(MemOf(c), Device(c), g) \in Block
    BY <1>1, <2>1
  <2>4. reserved' \in [Mems -> [Devices -> Block \cup {NoBlock}]]
    BY <1>0, <2>1, <2>2, <2>3, ReservedUpdate
  <2>5. newly' \in [Commands -> SUBSET Nat]
    <3>1. newly' = [newly EXCEPT ![c] = newly[c] \cup {arg[c]}]
      BY <1>6 DEF Reserve
    <3>2. QED
      BY <1>0, <2>1, <3>1 DEF TypeOK
  <2>6. QED
    BY <1>0, <1>4, <2>1, <2>2, <2>3, <2>4, <2>5 DEF TypeOK
<1>7. ASSUME NEW c \in Commands, RefuseKernel(c) \/ Terminate(c)
      PROVE  TypeOK'
  <2>1. /\ status' \in [Commands -> Statuses]
        /\ UNCHANGED <<reserved, count, block, live, arg, newly, image>>
    BY <1>0, <1>7 DEF TypeOK, RefuseKernel, Terminate, Statuses
  <2>2. leaky' = leaky \cup ToSet(Command[c].mems)
    BY <1>7 DEF RefuseKernel, Terminate
  <2>3. leaky' \in SUBSET Mems
    BY <1>0, <2>2, MemFacts DEF TypeOK
  <2>4. QED
    BY <1>0, <2>1, <2>3 DEF TypeOK
<1>8. ASSUME NEW c \in Commands,
             Enqueue(c) \/ RefuseMigration(c) \/ Launch(c) \/ Finish(c)
      PROVE  TypeOK'
  <2>1. CASE RefuseMigration(c)
    BY <1>0, <2>1 DEF TypeOK, RefuseMigration, Statuses
  <2>2. CASE Enqueue(c) \/ Launch(c) \/ Finish(c)
    BY <1>0, <2>2 DEF TypeOK, Enqueue, Launch, Finish, Statuses
  <2>3. QED
    BY <1>8, <2>1, <2>2
<1>9. ASSUME NEW c \in Commands, GiveBack(c)
      PROVE  TypeOK'
  <2>1. MemOf(c) \in Mems /\ Device(c) \in Devices
    BY <1>0, <1>9, MemFacts DEF IInv, ArgInv, GiveBack
  <2>2. count' \in [Mems -> [Devices -> Int]]
    BY <1>0, <1>9, <2>1, CountUpdate DEF GiveBack
  <2>3. reserved' \in [Mems -> [Devices -> Block \cup {NoBlock}]]
    <3>1. \/ reserved' = [reserved EXCEPT ![MemOf(c)][Device(c)] = NoBlock]
          \/ reserved' = reserved
      BY <1>9 DEF GiveBack
    <3>2. QED
      BY <1>0, <2>1, <3>1, ReservedUpdate DEF TypeOK
  <2>4. status' \in [Commands -> Statuses] /\ arg' \in [Commands -> Nat \ {0}]
    <3>1. arg[c] \in Nat \ {0} /\ arg[c] + 1 \in Nat \ {0} /\ "refused" \in Statuses
      BY <1>0 DEF TypeOK, Statuses
    <3>2. CASE arg[c] < NumMems(c)
      <4>1. arg' = [arg EXCEPT ![c] = arg[c] + 1] /\ status' = status
        BY <1>9, <3>2 DEF GiveBack
      <4>2. QED
        BY <1>0, <3>1, <4>1 DEF TypeOK
    <3>3. CASE ~(arg[c] < NumMems(c))
      <4>1. arg' = arg /\ status' = [status EXCEPT ![c] = "refused"]
        BY <1>9, <3>3 DEF GiveBack
      <4>2. QED
        BY <1>0, <3>1, <4>1 DEF TypeOK
    <3>4. QED
      BY <3>2, <3>3
  <2>5. UNCHANGED <<block, live, newly, image, leaky>>
    BY <1>9 DEF GiveBack
  <2>6. QED
    BY <1>0, <2>2, <2>3, <2>4, <2>5 DEF TypeOK
<1>10. ASSUME NEW c \in Commands, MigrateInPlace(c) \/ MigrateAndMove(c)
       PROVE  TypeOK'
  <2>1. MemOf(c) \in Mems /\ Device(c) \in Devices
    BY <1>0, <1>10, MemFacts DEF MigrateInPlace, MigrateAndMove, Migrating
  <2>2. count' \in [Mems -> [Devices -> Int]]
    BY <1>0, <1>10, <2>1, CountUpdate DEF MigrateInPlace, MigrateAndMove
  <2>3. block' \in [Mems -> Block \cup {NoBlock}]
    <3>1. block' = [block EXCEPT ![MemOf(c)] = reserved[MemOf(c)][Device(c)]]
      BY <1>10 DEF MigrateInPlace, MigrateAndMove
    <3>2. reserved[MemOf(c)][Device(c)] \in Block \cup {NoBlock}
      BY <1>0, <2>1 DEF TypeOK
    <3>3. QED
      BY <1>0, <3>1, <3>2 DEF TypeOK
  <2>4. reserved' \in [Mems -> [Devices -> Block \cup {NoBlock}]]
    <3>1. CASE MigrateInPlace(c)
      BY <1>0, <3>1 DEF TypeOK, MigrateInPlace
    <3>2. CASE MigrateAndMove(c)
      <4>1. \/ reserved' = [reserved EXCEPT
                              ![MemOf(c)][block[MemOf(c)].dev] = NoBlock]
            \/ reserved' = reserved
        BY <3>2 DEF MigrateAndMove
      <4>2. block[MemOf(c)] \in Block
        BY <1>0, <2>1, <3>2 DEF TypeOK, MigrateAndMove
      <4>3. block[MemOf(c)].dev \in Devices
        BY <4>2 DEF Block
      <4>4. QED
        BY <1>0, <2>1, <4>1, <4>3, ReservedUpdate DEF TypeOK
    <3>3. QED
      BY <1>10, <3>1, <3>2
  <2>5. AfterMigration(c)
    BY <1>10 DEF MigrateInPlace, MigrateAndMove
  <2>6. /\ status' \in [Commands -> Statuses]
        /\ arg' \in [Commands -> Nat \ {0}]
        /\ UNCHANGED <<live, newly, image, leaky>>
    BY <1>0, <2>5 DEF TypeOK, AfterMigration, Statuses
  <2>7. QED
    BY <1>0, <2>2, <2>3, <2>4, <2>6 DEF TypeOK
<1>11. CASE UNCHANGED vars
  BY <1>0, <1>11 DEF TypeOK, vars
<1>12. CASE Next
  BY <1>2, <1>3, <1>5, <1>6, <1>7, <1>8, <1>9, <1>10, <1>12 DEF Next
<1>13. QED
  BY <1>11, <1>12

(* ... and the place in the list of buffers. *)
LEMMA ArgStep ==
    ASSUME IInv, [Next]_vars
    PROVE  ArgInv'
<1>0. TypeOK /\ ArgInv
  BY DEF IInv
<1>1. \A c \in Commands : arg[c] \in Nat \ {0} /\ NumMems(c) \in Nat \ {0}
  BY <1>0, MemFacts
<1>2. ASSUME UNCHANGED <<arg, status>>
      PROVE  ArgInv'
  BY <1>0, <1>2 DEF ArgInv, NumMems
<1>3. ASSUME NEW c \in Commands,
             \A x \in Commands : x # c => status'[x] = status[x]
                                          /\ arg'[x] = arg[x],
             arg'[c] <= NumMems(c)
      PROVE  ArgInv'
  <2> SUFFICES ASSUME NEW x \in Commands,
                      status'[x] \in {"new", "reserving", "undoing"}
               PROVE  arg'[x] <= NumMems(x)
    BY DEF ArgInv, NumMems
  <2>1. CASE x # c
    BY <1>0, <1>3, <2>1 DEF ArgInv
  <2>2. CASE x = c
    BY <1>3, <2>2
  <2>3. QED
    BY <2>1, <2>2
<1>4. ASSUME NEW c \in Commands,
             NEW t \in Statuses \ {"new", "reserving", "undoing"},
             status[c] \notin {"new", "reserving", "undoing"},
             status' = status \/ status' = [status EXCEPT ![c] = t],
             \A x \in Commands : x # c => arg'[x] = arg[x]
      PROVE  ArgInv'
  <2> SUFFICES ASSUME NEW x \in Commands,
                      status'[x] \in {"new", "reserving", "undoing"}
               PROVE  arg'[x] <= NumMems(x)
    BY DEF ArgInv, NumMems
  <2>1. x # c
    BY <1>0, <1>4 DEF TypeOK
  <2>2. QED
    BY <1>0, <1>4, <2>1 DEF ArgInv, TypeOK
<1>5. ASSUME NEW m \in Mems,
             Create(m) \/ Release(m) \/ \E d \in Devices : Bind(m, d)
      PROVE  ArgInv'
  BY <1>2, <1>5 DEF Create, Release, Bind, commands
<1>6. ASSUME NEW c \in Commands, Enqueue(c)
      PROVE  ArgInv'
  BY <1>0, <1>3, <1>6 DEF Enqueue, TypeOK, ArgInv
<1>7. ASSUME NEW c \in Commands, NEW b, Promise(c, b), status[c] = "reserving"
      PROVE  ArgInv'
  <2>1. arg[c] <= NumMems(c) /\ arg[c] \in Nat /\ NumMems(c) \in Nat \ {0}
    BY <1>0, <1>1, <1>7 DEF ArgInv
  <2>2. arg'[c] <= NumMems(c)
    BY <1>0, <1>7, <2>1 DEF Promise, TypeOK
  <2>3. \A x \in Commands : x # c => status'[x] = status[x]
                                     /\ arg'[x] = arg[x]
    BY <1>0, <1>7 DEF Promise, TypeOK
  <2>4. QED
    BY <1>3, <2>2, <2>3
<1>8. ASSUME NEW c \in Commands, UseReservation(c) \/ Reserve(c)
      PROVE  ArgInv'
  BY <1>7, <1>8 DEF UseReservation, Reserve
<1>9. ASSUME NEW c \in Commands,
             RefuseKernel(c) \/ RefuseMigration(c) \/ GiveBack(c)
      PROVE  ArgInv'
  <2>1. arg[c] <= NumMems(c) /\ arg[c] \in Nat /\ NumMems(c) \in Nat \ {0}
    BY <1>0, <1>1, <1>9 DEF ArgInv, RefuseKernel, RefuseMigration, GiveBack
  <2>2. arg'[c] <= NumMems(c)
    BY <1>0, <1>9, <2>1
       DEF RefuseKernel, RefuseMigration, GiveBack, TypeOK
  <2>3. \A x \in Commands : x # c => status'[x] = status[x]
                                     /\ arg'[x] = arg[x]
    BY <1>0, <1>9 DEF RefuseKernel, RefuseMigration, GiveBack, TypeOK
  <2>4. QED
    BY <1>3, <2>2, <2>3
<1>10. ASSUME NEW c \in Commands, Terminate(c) \/ Launch(c) \/ Finish(c)
       PROVE  ArgInv'
  BY <1>4, <1>10 DEF Terminate, Launch, Finish, Statuses
<1>11. ASSUME NEW c \in Commands, MigrateInPlace(c) \/ MigrateAndMove(c)
       PROVE  ArgInv'
  <2>1. AfterMigration(c) /\ status[c] = "queued"
    BY <1>11 DEF MigrateInPlace, MigrateAndMove, Migrating
  <2>2. QED
    BY <1>0, <1>4, <2>1 DEF AfterMigration, Statuses, TypeOK
<1>12. CASE UNCHANGED vars
  BY <1>2, <1>12 DEF vars
<1>13. CASE Next
  BY <1>5, <1>6, <1>8, <1>9, <1>10, <1>11, <1>13 DEF Next
<1>14. QED
  BY <1>12, <1>13

(* The invariant holds at first ...                                        *)
LEMMA InitInv == Init => IInv
<1> SUFFICES ASSUME Init
             PROVE  IInv
  OBVIOUS
<1>1. region = <<>> /\ Len(region) = 0 /\ region \in Seq(Block)
  BY DEF Init
<1>2. BlocksDisjoint
  BY <1>1 DEF BlocksDisjoint
<1>3. status \in [Commands -> Statuses]
  BY DEF Init, Statuses
<1>4. image \in [Commands -> Seq(Block)]
  BY DEF Init
<1>5. TypeOK
  BY <1>1, <1>3, <1>4 DEF Init, TypeOK
<1>6. ArgInv
  BY <1>5, MemFacts DEF Init, ArgInv
<1>7. QED
  BY <1>2, <1>5, <1>6 DEF IInv

(* ... and always.                                                         *)
LEMMA Invariance == Spec => []IInv
<1>1. IInv /\ [Next]_vars => IInv'
  <2> SUFFICES ASSUME IInv, [Next]_vars
               PROVE  IInv'
    OBVIOUS
  <2>1. BlocksDisjoint'
    BY RegionStep
  <2>2. QED
    BY <2>1, TypeStep, ArgStep DEF IInv
<1>2. QED
  BY InitInv, <1>1, PTL DEF Spec

(* The types of MemBlocks. *)
THEOREM TypeCorrect == Spec => []TypeOK
<1>1. IInv => TypeOK
  BY DEF IInv
<1>2. QED
  BY Invariance, <1>1, PTL

(* First fit never hands out memory that is taken: the blocks of the       *)
(* region are in order and disjoint, whatever is reserved, refused, moved, *)
(* given back and released (acl_allocate_block, remove_mem_block_linked_list).*)
THEOREM DisjointBlocks == Spec => []BlocksDisjoint
<1>1. IInv => BlocksDisjoint
  BY DEF IInv
<1>2. QED
  BY Invariance, <1>1, PTL

----------------------------------------------------------------------------
(* First fit.  What the walk over the list finds is the lowest address at  *)
(* which the buffer overlaps no block.                                     *)
LEMMA RegionFacts ==
    ASSUME Sound(region)
    PROVE  /\ Len(region) \in Nat
           /\ \A i \in 1..Len(region) :
                /\ region[i].begin \in Nat /\ region[i].next \in Nat
                /\ region[i].begin < region[i].next
           /\ \A i, j \in 1..Len(region) :
                i < j => region[i].next <= region[j].begin
<1>1. /\ Len(region) \in Nat
      /\ \A i \in 1..Len(region) : region[i] \in Block /\ Placed(region[i])
      /\ \A i, j \in 1..Len(region) :
           i < j => region[i].next <= region[j].begin
  BY LenProperties, ElementOfSeq DEF Sound
<1>2. ASSUME NEW i \in 1..Len(region)
      PROVE  /\ region[i].begin \in Nat /\ region[i].next \in Nat
             /\ region[i].begin < region[i].next
  <2>1. /\ region[i].mem \in Mems
        /\ region[i].begin \in Nat /\ region[i].next \in Nat
        /\ region[i].next = region[i].begin + Size[region[i].mem]
    BY <1>1 DEF Block, Placed
  <2>2. Size[region[i].mem] \in Nat \ {0}
    BY <2>1, SizeAssumption
  <2>3. QED
    BY <2>1, <2>2
<1>3. QED
  BY <1>1, <1>2

(* Where m can be placed at a gap nothing is in the way. *)
LEMMA GapIsFree ==
    ASSUME Sound(region), NEW m \in Mems, NEW d \in Devices, NEW first \in Nat,
           NEW g \in Gaps(m, d, first)
    PROVE  /\ g[1] \in 0..Len(region) /\ g[2] \in FreeFrom(m, d, first)
           /\ g[2] \in Reached(first, g[1])
           /\ IsCandidate(first, g[1], g[2])
<1>1. PICK k \in 0..Len(region) : \E a \in Reached(first, k) :
        /\ g = <<k, a>>
        /\ IsCandidate(first, k, a) /\ FitsBefore(m, d, k, a)
  BY DEF Gaps
<1>2. PICK a \in Reached(first, k) :
        /\ g = <<k, a>>
        /\ IsCandidate(first, k, a) /\ FitsBefore(m, d, k, a)
  BY <1>1
<1>3. /\ Len(region) \in Nat
      /\ \A i \in 1..Len(region) :
           /\ region[i].begin \in Nat /\ region[i].next \in Nat
           /\ region[i].begin < region[i].next
      /\ \A i, j \in 1..Len(region) :
           i < j => region[i].next <= region[j].begin
  BY RegionFacts
<1>4. k \in Nat /\ \A i \in 1..k : i \in 1..Len(region)
  BY <1>3
<1>5. a \in Nat
  BY <1>2, <1>3, <1>4 DEF Reached
<1>6. /\ Memory[d].next \in Nat /\ Size[m] \in Nat
      /\ first <= a /\ \A i \in 1..k : region[i].next <= a
      /\ a + Size[m] <= Memory[d].next
      /\ k < Len(region) => a + Size[m] <= region[k + 1].begin
  BY <1>2, TryFacts DEF IsCandidate, FitsBefore
<1>7. a \in first..Memory[d].next - Size[m]
  BY <1>5, <1>6
<1>8. ASSUME NEW i \in 1..Len(region)
      PROVE  region[i].next <= a \/ a + Size[m] <= region[i].begin
  <2>1. CASE i <= k
    BY <2>1, <1>4, <1>6
  <2>2. CASE i = k + 1
    BY <2>2, <1>3, <1>4, <1>6
  <2>3. CASE i > k + 1
    <3>1. /\ k + 1 \in 1..Len(region) /\ k < Len(region) /\ k + 1 < i
      BY <2>3, <1>3, <1>4
    <3>2. region[k + 1].next <= region[i].begin
      BY <3>1, <1>3
    <3>3. /\ region[k + 1].begin \in Nat /\ region[k + 1].next \in Nat
          /\ region[k + 1].begin < region[k + 1].next
          /\ region[i].begin \in Nat
      BY <3>1, <1>3
    <3>4. QED
      BY <3>1, <3>2, <3>3, <1>5, <1>6, SMTT(60)
  <2>4. QED
    BY <2>1, <2>2, <2>3, <1>4
<1>9. a \in FreeFrom(m, d, first)
  BY <1>7, <1>8 DEF FreeFrom
<1>10. g[1] = k /\ g[2] = a
  BY <1>2
<1>11. QED
  BY <1>2, <1>9, <1>10

(* Where nothing is in the way there is a gap no higher. *)
LEMMA FreeHasGap ==
    ASSUME Sound(region), NEW m \in Mems, NEW d \in Devices, NEW first \in Nat,
           NEW x \in FreeFrom(m, d, first)
    PROVE  \E g \in Gaps(m, d, first) : g[2] <= x
<1>1. /\ Len(region) \in Nat
      /\ \A i \in 1..Len(region) :
           /\ region[i].begin \in Nat /\ region[i].next \in Nat
           /\ region[i].begin < region[i].next
      /\ \A i, j \in 1..Len(region) :
           i < j => region[i].next <= region[j].begin
  BY RegionFacts
<1>2. /\ Memory[d].next \in Nat /\ Size[m] \in Nat
      /\ x \in Nat /\ first <= x /\ x + Size[m] <= Memory[d].next
      /\ \A i \in 1..Len(region) :
           region[i].next <= x \/ x + Size[m] <= region[i].begin
  BY TryFacts DEF FreeFrom
<1> DEFINE Behind(k) == \A i \in k + 1..Len(region) : x + Size[m] <= region[i].begin
           T == {k \in 0..Len(region) : Behind(k)}
<1>3. PICK k \in T : \A n \in T : ~(n < k)
  <2>1. Len(region) \in T
    BY <1>1
  <2>2. T \subseteq Nat
    OBVIOUS
  <2> HIDE DEF T
  <2>3. QED
    BY <2>1, <2>2, LeastNatural
<1>4. k \in 0..Len(region) /\ k \in Nat /\ Behind(k)
  BY <1>1
<1>5. \A i \in 1..k : region[i].next <= x
  <2> SUFFICES ASSUME NEW i \in 1..k PROVE region[i].next <= x
    OBVIOUS
  <2>1. k \in 1..Len(region) /\ k - 1 \in 0..Len(region) /\ k - 1 < k
    BY <1>1, <1>4
  <2>2. ~Behind(k - 1)
    <3>1. k - 1 \notin T
      <4> HIDE DEF T
      <4> QED
        BY <1>3, <2>1
    <3>2. QED
      BY <3>1, <2>1
  <2>3. PICK j \in (k - 1) + 1..Len(region) : ~(x + Size[m] <= region[j].begin)
    BY <2>2
  <2>4. j = k
    <3>1. j \in Nat /\ k <= j /\ j <= Len(region)
      BY <2>1, <2>3, <1>1
    <3>2. ~(j \in k + 1..Len(region))
      BY <2>3, <1>4
    <3>3. QED
      BY <3>1, <3>2, <1>1, <1>4
  <2>5. region[k].next <= x
    BY <2>1, <2>3, <2>4, <1>2
  <2>6. CASE i = k
    BY <2>5, <2>6
  <2>7. CASE i < k
    <3>1. i \in 1..Len(region) /\ region[i].next <= region[k].begin
      BY <2>1, <2>7, <1>1
    <3>2. QED
      BY <3>1, <2>1, <2>5, <1>1, <1>2, SMTT(40)
  <2>8. QED
    BY <2>1, <2>6, <2>7
<1> DEFINE a == IF k # 0 /\ first <= region[k].next THEN region[k].next ELSE first
<1>6. a \in Reached(first, k)
  BY <1>4 DEF Reached
<1>7. a \in Nat /\ first <= a /\ a <= x
  BY <1>1, <1>2, <1>4, <1>5
<1>8. ASSUME NEW i \in 1..k PROVE region[i].next <= a
  <2>1. k \in 1..Len(region) /\ i \in 1..Len(region)
    BY <1>1, <1>4
  <2>2. region[i].next <= region[k].next
    <3>1. CASE i = k
      BY <3>1, <2>1, <1>1
    <3>2. CASE i < k
      BY <3>2, <2>1, <1>1
    <3>3. QED
      BY <3>1, <3>2, <2>1
  <2>3. /\ region[i].next \in Nat /\ region[k].next \in Nat /\ k # 0
    BY <2>1, <1>1
  <2>4. QED
    BY <2>2, <2>3
<1>9. a + Size[m] <= Memory[d].next
  BY <1>2, <1>7
<1>10. k < Len(region) => a + Size[m] <= region[k + 1].begin
  <2> SUFFICES ASSUME k < Len(region) PROVE a + Size[m] <= region[k + 1].begin
    OBVIOUS
  <2>1. k + 1 \in k + 1..Len(region) /\ k + 1 \in 1..Len(region)
    BY <1>1, <1>4
  <2>2. x + Size[m] <= region[k + 1].begin /\ region[k + 1].begin \in Nat
    BY <2>1, <1>1, <1>4
  <2>3. QED
    BY <2>2, <1>2, <1>7, SMTT(40)
<1> HIDE DEF a, T
<1>11. <<k, a>> \in Gaps(m, d, first)
  BY <1>4, <1>6, <1>7, <1>8, <1>9, <1>10 DEF Gaps, IsCandidate, FitsBefore
<1>12. <<k, a>>[2] <= x
  BY <1>7
<1>13. QED
  BY <1>11, <1>12

(* The first gap has the lowest address. *)
LEMMA GapsInOrder ==
    ASSUME Sound(region), NEW m \in Mems, NEW d \in Devices, NEW first \in Nat,
           NEW g \in Gaps(m, d, first), NEW h \in Gaps(m, d, first),
           g[1] <= h[1]
    PROVE  g[2] <= h[2]
<1>1. /\ g[1] \in 0..Len(region) /\ g[2] \in Reached(first, g[1])
      /\ h[1] \in 0..Len(region) /\ IsCandidate(first, h[1], h[2])
  BY GapIsFree
<1>2. first <= h[2] /\ \A i \in 1..h[1] : region[i].next <= h[2]
  BY <1>1 DEF IsCandidate
<1>3. Len(region) \in Nat
  BY RegionFacts
<1>4. CASE g[2] = first
  BY <1>2, <1>4
<1>5. CASE \E i \in 1..g[1] : g[2] = region[i].next
  <2>1. PICK i \in 1..g[1] : g[2] = region[i].next
    BY <1>5
  <2>2. i \in 1..h[1]
    BY <1>1, <1>3
  <2>3. QED
    BY <2>1, <2>2, <1>2
<1>6. QED
  BY <1>1, <1>4, <1>5 DEF Reached

(* So the first gap from an address on is at the lowest free address.      *)
LEMMA FirstIsLowest ==
    ASSUME Sound(region), NEW m \in Mems, NEW d \in Devices, NEW first \in Nat
    PROVE  LET gaps == Gaps(m, d, first)
               free == FreeFrom(m, d, first)
           IN  /\ gaps = {} <=> free = {}
               /\ {g[2] : g \in {x \in gaps : \A h \in gaps : x[1] <= h[1]}}
                    = Lowest(free)
<1> DEFINE gaps == Gaps(m, d, first)
           free == FreeFrom(m, d, first)
           F == {x \in gaps : \A h \in gaps : x[1] <= h[1]}
<1>1. \A g \in gaps : g[1] \in Nat /\ g[2] \in free
  BY GapIsFree, RegionFacts
<1>2. \A x \in free : \E g \in gaps : g[2] <= x
  BY FreeHasGap
<1>3. \A g, h \in gaps : g[1] <= h[1] => g[2] <= h[2]
  BY GapsInOrder
<1>4. \A x \in free : x \in Nat
  BY TryFacts DEF FreeFrom
<1> HIDE DEF gaps, free
<1>5. gaps = {} <=> free = {}
  BY <1>1, <1>2
<1>6. ASSUME NEW g \in F PROVE g[2] \in Lowest(free)
  <2>1. g \in gaps /\ \A h \in gaps : g[1] <= h[1]
    OBVIOUS
  <2>2. ASSUME NEW x \in free PROVE g[2] <= x
    <3>1. PICK h \in gaps : h[2] <= x
      BY <1>2
    <3>2. g[2] <= h[2]
      BY <1>3, <2>1
    <3>3. g[2] \in Nat /\ h[2] \in Nat /\ x \in Nat
      BY <1>1, <1>4, <2>1
    <3>4. QED
      BY <3>1, <3>2, <3>3
  <2>3. QED
    BY <1>1, <2>1, <2>2 DEF Lowest
<1>7. ASSUME NEW a \in Lowest(free) PROVE \E g \in F : g[2] = a
  <2>1. a \in free /\ \A x \in free : a <= x
    BY DEF Lowest
  <2> DEFINE T == {g[1] : g \in gaps}
  <2>2. T # {} /\ T \subseteq Nat
    BY <1>1, <1>2, <2>1
  <2>3. PICK n \in T : \A k \in T : ~(k < n)
    <3> HIDE DEF T
    <3> QED
      BY <2>2, LeastNatural
  <2>4. PICK g \in gaps : g[1] = n
    BY <2>3
  <2>5. ASSUME NEW h \in gaps PROVE g[1] <= h[1]
    <3>1. h[1] \in T /\ g[1] \in Nat /\ h[1] \in Nat
      BY <1>1, <2>4
    <3>2. ~(h[1] < n)
      <4> HIDE DEF T
      <4> QED
        BY <2>3, <3>1
    <3>3. QED
      BY <2>4, <3>1, <3>2
  <2>6. g \in F
    BY <2>4, <2>5
  <2>7. g[2] \in free /\ \A x \in free : g[2] <= x
    BY <1>6, <2>6 DEF Lowest
  <2>8. g[2] = a
    BY <2>1, <2>7, <1>4
  <2>9. QED
    BY <2>6, <2>8
<1>8. {g[2] : g \in F} = Lowest(free)
  BY <1>6, <1>7
<1>9. QED
  BY <1>5, <1>8 DEF gaps, free

(* First fit finds the lowest free address from the preferred bank on, or  *)
(* else the lowest of the device, and gives up only when there is none:    *)
(* one pass over the list in the order of addresses is enough              *)
(* (acl_allocate_block, l_get_working_range).                              *)
THEOREM FindsTheLowestRoom == Spec => []FirstFitFindsRoom
<1>1. IInv => FirstFitFindsRoom
  <2> SUFFICES ASSUME IInv, NEW m \in Mems, NEW d \in Devices
               PROVE  LET preferred == FreeFrom(m, d, FirstTry(m, d))
                          free == IF preferred # {} THEN preferred
                                  ELSE FreeFrom(m, d, Memory[d].usable)
                      IN {g[2] : g \in FirstGap(m, d)} = Lowest(free)
    BY DEF FirstFitFindsRoom
  <2>1. Sound(region)
    BY SoundRegion DEF IInv, TypeOK
  <2>2. FirstTry(m, d) \in Nat /\ Memory[d].usable \in Nat
    BY TryFacts
  <2> DEFINE Is(first) ==
        /\ Gaps(m, d, first) = {} <=> FreeFrom(m, d, first) = {}
        /\ {g[2] : g \in {x \in Gaps(m, d, first) :
                            \A h \in Gaps(m, d, first) : x[1] <= h[1]}}
             = Lowest(FreeFrom(m, d, first))
  <2>3. Is(FirstTry(m, d)) /\ Is(Memory[d].usable)
    BY <2>1, <2>2, FirstIsLowest
  <2>4. CASE FreeFrom(m, d, FirstTry(m, d)) # {}
    BY <2>3, <2>4 DEF FirstGap, GapsToUse
  <2>5. CASE FreeFrom(m, d, FirstTry(m, d)) = {}
    BY <2>3, <2>5 DEF FirstGap, GapsToUse
  <2>6. QED
    BY <2>4, <2>5
<1>2. QED
  BY Invariance, <1>1, PTL

----------------------------------------------------------------------------
(* Promises.  For every buffer and device, the commands that were promised *)
(* a block there and have not yet used it, each with the number of the     *)
(* buffer in its list.                                                     *)
Promises(m, d) ==
    {p \in Commands \X Nat : /\ p[2] \in Promised(p[1])
                             /\ Command[p[1]].mems[p[2]] = m
                             /\ Device(p[1]) = d}

(* As long as no migration command finds its device without room.  One     *)
(* that does takes a count off objects it had not reached (GiveBack), and  *)
(* the accounting is wrong from then on.                                   *)
NoneUndone == \A c \in Commands : status[c] # "undoing"

(* n counts S, or more than S if not exact. *)
Counted(S, n, exact) ==
    /\ IsFiniteSet(S) /\ n \in Int
    /\ Cardinality(S) <= n
    /\ exact => Cardinality(S) = n

LiveInv ==
    \A c \in Commands : Unfinished(c) => ToSet(Command[c].mems) \subseteq live
ImageInv ==
    \A c \in Commands :
        /\ status[c] = "new" => arg[c] = 1 /\ image[c] = <<>>
        /\ status[c] = "reserving" => Len(image[c]) = arg[c] - 1
        /\ status[c] = "queued" => Len(image[c]) = NumMems(c)

(* A reservation is a block of that buffer on that device, and a buffer is *)
(* where it has a reservation.                                             *)
PlaceInv ==
    \A m \in Mems :
        /\ \A d \in Devices : reserved[m][d] # NoBlock =>
             /\ reserved[m][d].mem = m /\ reserved[m][d].dev = d
             /\ m \in live => reserved[m][d] \in ToSet(region)
        /\ block[m] # NoBlock =>
             block[m].mem = m /\ reserved[m][block[m].dev] = block[m]

(* reserved_allocations_count is the number of promises, or more for a     *)
(* buffer of a command that was refused or terminated.                     *)
CountInv ==
    \A m \in Mems, d \in Devices :
        /\ Counted(Promises(m, d), count[m][d], m \notin leaky)
        /\ reserved[m][d] = NoBlock => count[m][d] = 0

KeptInv ==
    LiveInv /\ ImageInv /\ PlaceInv /\ CountInv /\ PromiseKept /\ NoBlockLost

(* Counting. *)
LEMMA CountedAdd ==
    ASSUME NEW S, NEW n, NEW e, Counted(S, n, e), NEW x, x \notin S
    PROVE  Counted(S \cup {x}, n + 1, e)
<1>1. /\ IsFiniteSet(S) /\ n \in Int /\ Cardinality(S) <= n
      /\ e => Cardinality(S) = n
  BY DEF Counted
<1>2. Cardinality(S) \in Nat
  BY <1>1, FS_CardinalityType
<1>3. IsFiniteSet(S \cup {x}) /\ Cardinality(S \cup {x}) = Cardinality(S) + 1
  BY <1>1, FS_AddElement
<1>4. n + 1 \in Int /\ Cardinality(S \cup {x}) <= n + 1
  BY <1>1, <1>2, <1>3
<1>5. ASSUME e PROVE Cardinality(S \cup {x}) = n + 1
  BY <1>1, <1>3, <1>5
<1>6. QED
  BY <1>3, <1>4, <1>5 DEF Counted

(* One member less, one off the count.                                     *)
LEMMA CountedRemove ==
    ASSUME NEW S, NEW n, NEW e, Counted(S, n, e), NEW x \in S
    PROVE  Counted(S \ {x}, n - 1, e)
<1>1. /\ IsFiniteSet(S) /\ n \in Int /\ Cardinality(S) <= n
      /\ e => Cardinality(S) = n
  BY DEF Counted
<1>2. Cardinality(S) \in Nat
  BY <1>1, FS_CardinalityType
<1>3. IsFiniteSet(S \ {x}) /\ Cardinality(S \ {x}) = Cardinality(S) - 1
  BY <1>1, FS_RemoveElement
<1>4. n - 1 \in Int /\ Cardinality(S \ {x}) <= n - 1
  BY <1>1, <1>2, <1>3
<1>5. ASSUME e PROVE Cardinality(S \ {x}) = n - 1
  BY <1>1, <1>3, <1>5
<1>6. QED
  BY <1>3, <1>4, <1>5 DEF Counted

(* A count that is not lowered with its set is no longer exact.            *)
LEMMA CountedFewer ==
    ASSUME NEW S, NEW n, NEW e, Counted(S, n, e), NEW T, T \subseteq S
    PROVE  Counted(T, n, FALSE)
<1>1. IsFiniteSet(S) /\ n \in Int /\ Cardinality(S) <= n
  BY DEF Counted
<1>2. IsFiniteSet(T) /\ Cardinality(T) <= Cardinality(S)
  BY <1>1, FS_Subset
<1>3. Cardinality(S) \in Nat /\ Cardinality(T) \in Nat
  BY <1>1, <1>2, FS_CardinalityType
<1>4. QED
  BY <1>1, <1>2, <1>3 DEF Counted

(* A count is never negative; where it is zero there is no promise, and    *)
(* where it is exact and positive there is one.                            *)
LEMMA CountedZero ==
    ASSUME NEW S, NEW n, NEW e, Counted(S, n, e)
    PROVE  /\ n \in Nat
           /\ n <= 0 => S = {}
           /\ e /\ ~(n <= 0) => S # {}
<1>1. /\ IsFiniteSet(S) /\ n \in Int /\ Cardinality(S) <= n
      /\ e => Cardinality(S) = n
  BY DEF Counted
<1>2. /\ Cardinality(S) \in Nat
      /\ Cardinality(S) = 0 <=> S = {}
  BY <1>1, FS_CardinalityType, FS_EmptySet
<1>3. n \in Nat
  BY <1>1, <1>2
<1>4. n <= 0 => Cardinality(S) = 0
  BY <1>1, <1>2
<1>5. e /\ ~(n <= 0) => Cardinality(S) # 0
  <2> SUFFICES ASSUME e, ~(n <= 0) PROVE Cardinality(S) # 0
    OBVIOUS
  <2>1. Cardinality(S) = n
    BY <1>1
  <2>2. QED
    BY <2>1, <1>3
<1>6. QED
  BY <1>2, <1>3, <1>4, <1>5

(* Blocks in the list. *)
LEMMA LinkMembers ==
    ASSUME Sound(region), NEW m \in Mems, NEW d \in Devices,
           NEW g \in FirstGap(m, d), Link(m, d, g)
    PROVE  ToSet(region') = ToSet(region) \cup {BlockAt(m, d, g)}
<1>1. region \in Seq(Block) /\ BlockAt(m, d, g) \in Block
  BY LinkSound DEF Sound
<1>2. g[1] \in 0..Len(region) /\ Len(region) \in Nat
  BY <1>1, GapFacts, LenProperties
<1>3. g[1] + 1 \in 1..Len(region) + 1
  BY <1>2
<1>4. QED
  BY <1>1, <1>3, InsertMembers DEF Link

(* A block occurs once: taken out, it is gone.                             *)
LEMMA UnlinkMembers ==
    ASSUME Sound(region), NEW b, Unlink(b)
    PROVE  ToSet(region') = ToSet(region) \ {b}
<1>1. region \in Seq(Block)
  BY DEF Sound
<1>2. IsInjective(region)
  <2>1. \A i, j \in 1..Len(region) : region[i] = region[j] => i = j
    BY RegionFacts
  <2>2. QED
    BY <1>1, <2>1, InjectiveIf
<1>3. CASE b \notin ToSet(region) /\ UNCHANGED region
  BY <1>3
<1>4. CASE \E i \in 1..Len(region) :
             region[i] = b /\ region' = RemoveAt(region, i)
  BY <1>1, <1>2, <1>4, RemoveMembers
<1>5. QED
  BY <1>3, <1>4 DEF Unlink

(* What a command was promised, by its status. *)
LEMMA PromisedIs ==
    ASSUME NEW c \in Commands
    PROVE  /\ status[c] = "reserving" => Promised(c) = 1..arg[c] - 1
           /\ status[c] = "queued" => Promised(c) = arg[c]..NumMems(c)
           /\ status[c] \notin {"reserving", "undoing", "queued"}
                => Promised(c) = {}
           /\ status'[c] = "reserving" => Promised(c)' = 1..arg'[c] - 1
           /\ status'[c] = "queued" => Promised(c)' = arg'[c]..NumMems(c)
           /\ status'[c] \notin {"reserving", "undoing", "queued"}
                => Promised(c)' = {}
BY DEF Promised, NumMems

(* A command that does not change keeps its promises.                      *)
LEMMA PromisedKept ==
    ASSUME NEW c \in Commands, status'[c] = status[c], arg'[c] = arg[c],
           image'[c] = image[c]
    PROVE  Promised(c)' = Promised(c)
BY DEF Promised, NumMems

(* A promise is of an unfinished command, which has an address for it.     *)
LEMMA PromiseFacts ==
    ASSUME TypeOK, ArgInv, ImageInv, NoneUndone, NEW c \in Commands,
           NEW i \in Promised(c)
    PROVE  /\ i \in 1..NumMems(c) /\ i \in Nat
           /\ Command[c].mems[i] \in Mems
           /\ Command[c].mems[i] \in ToSet(Command[c].mems)
           /\ Device(c) \in Devices
           /\ Unfinished(c) /\ status[c] \in {"reserving", "queued"}
           /\ i \in 1..Len(image[c]) /\ image[c][i] \in Block
<1>1. /\ NumMems(c) \in Nat \ {0} /\ arg[c] \in Nat \ {0}
      /\ Device(c) \in Devices
  BY MemFacts
<1>2. Command[c].mems \in Seq(Mems)
  BY CommandAssumption DEF CommandType
<1>3. image[c] \in Seq(Block)
  BY DEF TypeOK
<1>4. /\ status[c] \in {"reserving", "queued"}
      /\ i \in 1..NumMems(c) /\ i \in 1..Len(image[c])
  <2>1. CASE status[c] = "reserving"
    BY <1>1, <2>1, PromisedIs DEF ArgInv, ImageInv
  <2>2. CASE status[c] = "queued"
    BY <1>1, <2>2, PromisedIs DEF ImageInv
  <2>3. QED
    BY <2>1, <2>2, PromisedIs DEF NoneUndone
<1>5. image[c][i] \in Block
  BY <1>3, <1>4, ElementOfSeq
<1>6. /\ Command[c].mems[i] \in Mems
      /\ Command[c].mems[i] \in ToSet(Command[c].mems)
  BY <1>2, <1>4, PositionsOf DEF NumMems
<1>7. QED
  BY <1>1, <1>4, <1>5, <1>6 DEF Unfinished

(* How the promises of a buffer and a device change with those of the      *)
(* commands.                                                               *)
LEMMA SamePromises ==
    ASSUME \A c \in Commands : Promised(c)' = Promised(c),
           NEW m, NEW d
    PROVE  Promises(m, d)' = Promises(m, d)
BY DEF Promises, Device

(* A command is promised one block more, ...                               *)
LEMMA MorePromises ==
    ASSUME NEW c \in Commands, NEW i \in Nat, i \notin Promised(c),
           Promised(c)' = Promised(c) \cup {i},
           \A x \in Commands : x # c => Promised(x)' = Promised(x),
           NEW m, NEW d
    PROVE  /\ m = Command[c].mems[i] /\ d = Device(c) =>
                /\ Promises(m, d)' = Promises(m, d) \cup {<<c, i>>}
                /\ <<c, i>> \notin Promises(m, d)
           /\ ~(m = Command[c].mems[i] /\ d = Device(c)) =>
                Promises(m, d)' = Promises(m, d)
<1>1. ASSUME NEW p \in Commands \X Nat
      PROVE  p[2] \in Promised(p[1])' <=>
               p[2] \in Promised(p[1]) \/ p = <<c, i>>
  <2>1. PICK x \in Commands, n \in Nat : p = <<x, n>>
    OBVIOUS
  <2>2. n \in Promised(x)' <=> n \in Promised(x) \/ (x = c /\ n = i)
    OBVIOUS
  <2>3. QED
    BY <2>1, <2>2
<1>2. <<c, i>> \in Commands \X Nat
  OBVIOUS
<1>3. \A p : p \in Promises(m, d)' <=>
        \/ p \in Promises(m, d)
        \/ p = <<c, i>> /\ m = Command[c].mems[i] /\ d = Device(c)
  BY <1>1, <1>2 DEF Promises, Device
<1>4. <<c, i>> \notin Promises(m, d)
  BY DEF Promises
<1>5. QED
  BY <1>3, <1>4

(* ... one less, ...                                                       *)
LEMMA OnePromiseLess ==
    ASSUME NEW c \in Commands, NEW i \in Nat, i \in Promised(c),
           Promised(c)' = Promised(c) \ {i},
           \A x \in Commands : x # c => Promised(x)' = Promised(x),
           NEW m, NEW d
    PROVE  /\ m = Command[c].mems[i] /\ d = Device(c) =>
                /\ Promises(m, d)' = Promises(m, d) \ {<<c, i>>}
                /\ <<c, i>> \in Promises(m, d)
           /\ ~(m = Command[c].mems[i] /\ d = Device(c)) =>
                Promises(m, d)' = Promises(m, d)
<1>1. ASSUME NEW p \in Commands \X Nat
      PROVE  p[2] \in Promised(p[1])' <=>
               p[2] \in Promised(p[1]) /\ p # <<c, i>>
  <2>1. PICK x \in Commands, n \in Nat : p = <<x, n>>
    OBVIOUS
  <2>2. n \in Promised(x)' <=> n \in Promised(x) /\ ~(x = c /\ n = i)
    OBVIOUS
  <2>3. QED
    BY <2>1, <2>2
<1>2. <<c, i>> \in Commands \X Nat
  OBVIOUS
<1>3. \A p : p \in Promises(m, d)' <=> p \in Promises(m, d) /\ p # <<c, i>>
  BY <1>1, <1>2 DEF Promises, Device
<1>4. <<c, i>> \in Promises(m, d) <=> m = Command[c].mems[i] /\ d = Device(c)
  BY <1>2 DEF Promises
<1>5. QED
  BY <1>3, <1>4

(* ... or none any longer.                                                 *)
LEMMA NoPromisesLeft ==
    ASSUME NEW c \in Commands, Promised(c)' = {},
           \A x \in Commands : x # c => Promised(x)' = Promised(x),
           \A i \in Promised(c) : Command[c].mems[i] \in ToSet(Command[c].mems),
           NEW m, NEW d
    PROVE  /\ Promises(m, d)' \subseteq Promises(m, d)
           /\ m \notin ToSet(Command[c].mems) =>
                Promises(m, d)' = Promises(m, d)
<1>1. ASSUME NEW p \in Commands \X Nat
      PROVE  p[2] \in Promised(p[1])' <=>
               p[2] \in Promised(p[1]) /\ p[1] # c
  <2>1. PICK x \in Commands, n \in Nat : p = <<x, n>>
    OBVIOUS
  <2>2. n \in Promised(x)' <=> n \in Promised(x) /\ x # c
    OBVIOUS
  <2>3. QED
    BY <2>1, <2>2
<1>2. \A p : p \in Promises(m, d)' <=> p \in Promises(m, d) /\ p[1] # c
  BY <1>1 DEF Promises, Device
<1>3. ASSUME NEW p \in Promises(m, d), p[1] = c
      PROVE  m \in ToSet(Command[c].mems)
  BY <1>3 DEF Promises
<1>4. QED
  BY <1>2, <1>3

----------------------------------------------------------------------------
(* Promises are kept. *)
LEMMA PromisedPlace ==
    ASSUME IInv, KeptInv, NoneUndone, NEW c \in Commands,
           NEW i \in Promised(c)
    PROVE  LET m == Command[c].mems[i]  d == Device(c) IN
             /\ m \in Mems /\ d \in Devices /\ m \in live
             /\ Unfinished(c) /\ Uses(c, m)
             /\ image[c][i] = reserved[m][d] /\ image[c][i] \in Block
             /\ image[c][i].mem = m /\ image[c][i].dev = d
             /\ image[c][i] \in ToSet(region)
             /\ <<c, i>> \in Promises(m, d)
             /\ i \in Nat /\ i \in 1..Len(image[c])
<1> DEFINE m == Command[c].mems[i]
           d == Device(c)
<1>1. /\ i \in 1..NumMems(c) /\ i \in Nat
      /\ m \in Mems /\ m \in ToSet(Command[c].mems) /\ d \in Devices
      /\ Unfinished(c) /\ i \in 1..Len(image[c]) /\ image[c][i] \in Block
  BY PromiseFacts DEF IInv, KeptInv
<1>2. reserved[m][d] = image[c][i] /\ image[c][i] \in ToSet(region)
  BY DEF KeptInv, PromiseKept
<1>3. image[c][i] # NoBlock
  BY <1>1, BlockAssumption
<1>4. m \in live
  BY <1>1 DEF KeptInv, LiveInv
<1>5. image[c][i].mem = m /\ image[c][i].dev = d
  BY <1>1, <1>2, <1>3 DEF KeptInv, PlaceInv
<1>6. <<c, i>> \in Promises(m, d)
  BY <1>1 DEF Promises
<1>7. QED
  BY <1>1, <1>2, <1>4, <1>5, <1>6 DEF Uses

(* The buffers of unfinished commands exist, ... *)
LEMMA LiveStep ==
    ASSUME IInv, LiveInv, [Next]_vars
    PROVE  LiveInv'
<1> SUFFICES ASSUME NEW x \in Commands, Unfinished(x)'
             PROVE  ToSet(Command[x].mems) \subseteq live'
  BY DEF LiveInv
<1>0. TypeOK
  BY DEF IInv
<1>1. ASSUME Unfinished(x), live \subseteq live'
      PROVE  ToSet(Command[x].mems) \subseteq live'
  BY <1>1 DEF LiveInv
<1>2. ASSUME NEW m \in Mems, Create(m) \/ \E d \in Devices : Bind(m, d)
      PROVE  ToSet(Command[x].mems) \subseteq live'
  BY <1>1, <1>2 DEF Create, Bind, commands, Unfinished
<1>3. ASSUME NEW m \in Mems, Release(m)
      PROVE  ToSet(Command[x].mems) \subseteq live'
  <2>1. Unfinished(x) /\ ~Uses(x, m)
    BY <1>3 DEF Release, commands, Unfinished
  <2>2. ToSet(Command[x].mems) \subseteq live /\ m \notin ToSet(Command[x].mems)
    BY <2>1 DEF LiveInv, Uses
  <2>3. QED
    BY <1>3, <2>2 DEF Release
<1>4. ASSUME NEW c \in Commands, Enqueue(c)
      PROVE  ToSet(Command[x].mems) \subseteq live'
  <2>1. CASE x = c
    BY <1>4, <2>1 DEF Enqueue
  <2>2. CASE x # c
    BY <1>0, <1>1, <1>4, <2>2 DEF Enqueue, Unfinished, TypeOK
  <2>3. QED
    BY <2>1, <2>2
<1>5. ASSUME NEW c \in Commands,
             \/ UseReservation(c) \/ Reserve(c)
             \/ RefuseKernel(c) \/ RefuseMigration(c) \/ GiveBack(c)
             \/ Terminate(c) \/ MigrateInPlace(c) \/ MigrateAndMove(c)
             \/ Launch(c) \/ Finish(c)
      PROVE  ToSet(Command[x].mems) \subseteq live'
  <2>1. /\ live' = live /\ Unfinished(c)
        /\ \A y \in Commands \ {c} : status'[y] = status[y]
    <3>1. CASE UseReservation(c) \/ Reserve(c)
      BY <1>0, <3>1 DEF UseReservation, Reserve, Promise, Unfinished, TypeOK
    <3>2. CASE RefuseKernel(c) \/ RefuseMigration(c) \/ GiveBack(c) \/ Terminate(c)
      BY <1>0, <3>2
         DEF RefuseKernel, RefuseMigration, GiveBack, Terminate, Unfinished, TypeOK
    <3>3. CASE MigrateInPlace(c) \/ MigrateAndMove(c)
      BY <1>0, <3>3
         DEF MigrateInPlace, MigrateAndMove, Migrating, AfterMigration,
             Unfinished, TypeOK
    <3>4. CASE Launch(c) \/ Finish(c)
      BY <1>0, <3>4 DEF Launch, Finish, Unfinished, TypeOK
    <3>5. QED
      BY <1>5, <3>1, <3>2, <3>3, <3>4
  <2>2. Unfinished(x)
    BY <2>1 DEF Unfinished
  <2>3. QED
    BY <1>1, <2>1, <2>2
<1>6. CASE UNCHANGED vars
  BY <1>1, <1>6 DEF vars, Unfinished
<1>7. CASE Next
  BY <1>2, <1>3, <1>4, <1>5, <1>7 DEF Next
<1>8. QED
  BY <1>6, <1>7

(* ... and a command has an address for every buffer it has looked at. *)
LEMMA ImageStep ==
    ASSUME IInv, ImageInv, [Next]_vars
    PROVE  ImageInv'
<1> DEFINE P(x, s, a, f) == /\ s = "new" => a = 1 /\ f = <<>>
                            /\ s = "reserving" => Len(f) = a - 1
                            /\ s = "queued" => Len(f) = NumMems(x)
<1>0. TypeOK /\ \A x \in Commands : P(x, status[x], arg[x], image[x])
  BY DEF IInv, ImageInv
<1>1. ASSUME NEW c \in Commands, P(c, status'[c], arg'[c], image'[c]),
             \A x \in Commands : x # c =>
               status'[x] = status[x] /\ arg'[x] = arg[x] /\ image'[x] = image[x]
      PROVE  ImageInv'
  <2>1. \A x \in Commands : P(x, status'[x], arg'[x], image'[x])
    BY <1>0, <1>1
  <2>2. QED
    BY <2>1 DEF ImageInv, NumMems
<1>2. ASSUME UNCHANGED <<status, arg, image>>
      PROVE  ImageInv'
  BY <1>2 DEF ImageInv, NumMems
<1>3. ASSUME NEW m \in Mems,
             Create(m) \/ Release(m) \/ \E d \in Devices : Bind(m, d)
      PROVE  ImageInv'
  BY <1>2, <1>3 DEF Create, Release, Bind, commands
<1>4. ASSUME NEW c \in Commands, NEW s,
             status' = [status EXCEPT ![c] = s],
             s \notin {"new", "reserving", "queued"},
             UNCHANGED image, arg' = arg \/ \E a : arg' = [arg EXCEPT ![c] = a]
      PROVE  ImageInv'
  <2>1. P(c, status'[c], arg'[c], image'[c])
    BY <1>0, <1>4 DEF TypeOK
  <2>2. \A x \in Commands : x # c =>
          status'[x] = status[x] /\ arg'[x] = arg[x] /\ image'[x] = image[x]
    BY <1>0, <1>4 DEF TypeOK
  <2>3. QED
    BY <1>1, <2>1, <2>2
<1>5. ASSUME NEW c \in Commands, Enqueue(c)
      PROVE  ImageInv'
  <2>1. P(c, status'[c], arg'[c], image'[c])
    BY <1>0, <1>5 DEF Enqueue, TypeOK
  <2>2. \A x \in Commands : x # c =>
          status'[x] = status[x] /\ arg'[x] = arg[x] /\ image'[x] = image[x]
    BY <1>0, <1>5 DEF Enqueue, TypeOK
  <2>3. QED
    BY <1>1, <2>1, <2>2
<1>6. ASSUME NEW c \in Commands, UseReservation(c) \/ Reserve(c)
      PROVE  ImageInv'
  <2>1. PICK b : Promise(c, b)
    BY <1>6 DEF UseReservation, Reserve
  <2>2. status[c] = "reserving" /\ arg[c] \in Nat /\ image[c] \in Seq(Block)
    BY <1>0, <1>6 DEF UseReservation, Reserve, TypeOK
  <2>3. /\ arg[c] <= NumMems(c) /\ NumMems(c) \in Nat
        /\ Len(image[c]) = arg[c] - 1
    BY <1>0, <2>2, MemFacts DEF IInv, ArgInv
  <2>4. Len(Append(image[c], b)) = arg[c]
    BY <2>2, <2>3
  <2>5. image'[c] = Append(image[c], b)
    BY <1>0, <2>1 DEF Promise, TypeOK
  <2>6. P(c, status'[c], arg'[c], image'[c])
    <3>1. CASE arg[c] < NumMems(c)
      <4>1. status'[c] = "reserving" /\ arg'[c] = arg[c] + 1
        BY <1>0, <2>1, <2>2, <3>1 DEF Promise, TypeOK
      <4>2. QED
        BY <2>2, <2>4, <2>5, <4>1
    <3>2. CASE ~(arg[c] < NumMems(c))
      <4>1. status'[c] = "queued" /\ arg[c] = NumMems(c)
        BY <1>0, <2>1, <2>2, <2>3, <3>2 DEF Promise, TypeOK
      <4>2. QED
        BY <2>4, <2>5, <4>1
    <3>3. QED
      BY <3>1, <3>2
  <2>7. \A x \in Commands : x # c =>
          status'[x] = status[x] /\ arg'[x] = arg[x] /\ image'[x] = image[x]
    BY <1>0, <2>1 DEF Promise, TypeOK
  <2>8. QED
    BY <1>1, <2>6, <2>7
<1>7. ASSUME NEW c \in Commands,
             RefuseKernel(c) \/ RefuseMigration(c) \/ Terminate(c)
             \/ Launch(c) \/ Finish(c)
      PROVE  ImageInv'
  BY <1>4, <1>7 DEF RefuseKernel, RefuseMigration, Terminate, Launch, Finish
<1>8. ASSUME NEW c \in Commands, GiveBack(c)
      PROVE  ImageInv'
  <2>1. P(c, status'[c], arg'[c], image'[c])
    BY <1>0, <1>8 DEF GiveBack, TypeOK
  <2>2. \A x \in Commands : x # c =>
          status'[x] = status[x] /\ arg'[x] = arg[x] /\ image'[x] = image[x]
    BY <1>0, <1>8 DEF GiveBack, TypeOK
  <2>3. QED
    BY <1>1, <2>1, <2>2
<1>9. ASSUME NEW c \in Commands, MigrateInPlace(c) \/ MigrateAndMove(c)
      PROVE  ImageInv'
  <2>1. AfterMigration(c) /\ status[c] = "queued"
    BY <1>9 DEF MigrateInPlace, MigrateAndMove, Migrating
  <2>2. status'[c] \in {"queued", "done"} /\ image'[c] = image[c]
    BY <1>0, <2>1 DEF AfterMigration, TypeOK
  <2>3. P(c, status'[c], arg'[c], image'[c])
    BY <1>0, <2>1, <2>2
  <2>4. \A x \in Commands : x # c =>
          status'[x] = status[x] /\ arg'[x] = arg[x] /\ image'[x] = image[x]
    BY <1>0, <2>1 DEF AfterMigration, TypeOK
  <2>5. QED
    BY <1>1, <2>3, <2>4
<1>10. CASE UNCHANGED vars
  BY <1>2, <1>10 DEF vars
<1>11. CASE Next
  BY <1>3, <1>5, <1>6, <1>7, <1>8, <1>9, <1>11 DEF Next
<1>12. QED
  BY <1>10, <1>11

(* A buffer is promised a block: one it had, or a new one. *)
LEMMA PromiseStep ==
    ASSUME IInv, KeptInv, NoneUndone,
           NEW c \in Commands, status[c] = "reserving",
           NEW b \in Block, b.mem = MemOf(c), b.dev = Device(c),
           reserved[MemOf(c)][Device(c)] \in {NoBlock, b},
           reserved' = [reserved EXCEPT ![MemOf(c)][Device(c)] = b],
           ToSet(region') = ToSet(region) \cup {b},
           Promise(c, b)
    PROVE  PlaceInv' /\ CountInv' /\ PromiseKept' /\ NoBlockLost'
<1> DEFINE m0 == MemOf(c)
           d0 == Device(c)
           i0 == arg[c]
<1>0. TypeOK
  BY DEF IInv
<1>1. /\ m0 \in Mems /\ d0 \in Devices
      /\ i0 \in Nat /\ 1 <= i0 /\ i0 <= NumMems(c) /\ NumMems(c) \in Nat
      /\ m0 = Command[c].mems[i0] /\ ToSet(Command[c].mems) \subseteq Mems
  BY <1>0, MemFacts DEF IInv, ArgInv, MemOf
<1>2. m0 \in live
  <2>1. m0 \in ToSet(Command[c].mems)
    <3>1. Command[c].mems \in Seq(Mems)
      BY CommandAssumption DEF CommandType
    <3>2. i0 \in 1..Len(Command[c].mems)
      BY <1>1 DEF NumMems
    <3>3. QED
      BY <1>1, <3>1, <3>2, PositionsOf
  <2>2. QED
    BY <2>1 DEF KeptInv, LiveInv, Unfinished
<1>3. b # NoBlock
  BY BlockAssumption
<1>4. /\ image[c] \in Seq(Block) /\ Len(image[c]) = i0 - 1
      /\ image'[c] = Append(image[c], b)
      /\ \A x \in Commands : x # c => image'[x] = image[x]
  BY <1>0 DEF TypeOK, KeptInv, ImageInv, Promise
<1>5. /\ image'[c][i0] = b
      /\ \A i \in 1..Len(image[c]) : image'[c][i] = image[c][i]
  BY <1>1, <1>4
<1>6. /\ i0 \notin Promised(c) /\ Promised(c)' = Promised(c) \cup {i0}
      /\ \A x \in Commands : x # c => Promised(x)' = Promised(x)
  <2>1. Promised(c) = 1..i0 - 1
    BY PromisedIs
  <2>2. Promised(c)' = 1..i0
    <3>1. CASE i0 < NumMems(c)
      <4>1. status'[c] = "reserving" /\ arg'[c] = i0 + 1
        BY <1>0, <3>1 DEF Promise, TypeOK
      <4>2. Promised(c)' = 1..(i0 + 1) - 1
        BY <4>1, PromisedIs
      <4>3. (i0 + 1) - 1 = i0
        BY <1>1
      <4>4. QED
        BY <4>2, <4>3
    <3>2. CASE ~(i0 < NumMems(c))
      <4>1. status'[c] = "queued" /\ arg'[c] = 1 /\ NumMems(c) = i0
        BY <1>0, <1>1, <3>2 DEF Promise, TypeOK
      <4>2. QED
        BY <4>1, PromisedIs
    <3>3. QED
      BY <3>1, <3>2
  <2>3. \A x \in Commands : x # c => Promised(x)' = Promised(x)
    <3> SUFFICES ASSUME NEW x \in Commands, x # c
                 PROVE  Promised(x)' = Promised(x)
      OBVIOUS
    <3>1. status'[x] = status[x] /\ arg'[x] = arg[x] /\ image'[x] = image[x]
      BY <1>0 DEF Promise, TypeOK
    <3>2. QED
      BY <3>1, PromisedKept
  <2>4. i0 \notin 1..i0 - 1 /\ 1..i0 = (1..i0 - 1) \cup {i0}
    BY <1>1, SMTT(40)
  <2>5. QED
    BY <2>1, <2>2, <2>3, <2>4
<1>7. /\ reserved'[m0][d0] = b /\ count'[m0][d0] = count[m0][d0] + 1
      /\ \A m \in Mems, d \in Devices : ~(m = m0 /\ d = d0) =>
           reserved'[m][d] = reserved[m][d] /\ count'[m][d] = count[m][d]
  BY <1>0, <1>1 DEF Promise, TypeOK
<1>8. live' = live /\ block' = block /\ leaky' = leaky
  BY DEF Promise
<1> HIDE DEF m0, d0, i0
<1>9. PlaceInv'
  <2> SUFFICES ASSUME NEW m \in Mems
               PROVE  /\ \A d \in Devices : reserved'[m][d] # NoBlock =>
                           /\ reserved'[m][d].mem = m /\ reserved'[m][d].dev = d
                           /\ m \in live' => reserved'[m][d] \in ToSet(region')
                      /\ block'[m] # NoBlock =>
                           /\ block'[m].mem = m
                           /\ reserved'[m][block'[m].dev] = block'[m]
    BY DEF PlaceInv
  <2>1. /\ \A d \in Devices : reserved[m][d] # NoBlock =>
             /\ reserved[m][d].mem = m /\ reserved[m][d].dev = d
             /\ m \in live => reserved[m][d] \in ToSet(region)
        /\ block[m] # NoBlock =>
             block[m].mem = m /\ reserved[m][block[m].dev] = block[m]
    BY DEF KeptInv, PlaceInv
  <2>2. ASSUME NEW d \in Devices, reserved'[m][d] # NoBlock
        PROVE  /\ reserved'[m][d].mem = m /\ reserved'[m][d].dev = d
               /\ m \in live' => reserved'[m][d] \in ToSet(region')
    <3>1. CASE m = m0 /\ d = d0
      BY <3>1, <1>7 DEF m0, d0
    <3>2. CASE ~(m = m0 /\ d = d0)
      BY <2>1, <2>2, <3>2, <1>7, <1>8
    <3>3. QED
      BY <3>1, <3>2
  <2>3. ASSUME block'[m] # NoBlock
        PROVE  block'[m].mem = m /\ reserved'[m][block'[m].dev] = block'[m]
    <3>1. block[m] # NoBlock /\ block[m].dev \in Devices
      BY <1>0, <1>8, <2>3 DEF TypeOK, Block
    <3>2. reserved[m][block[m].dev] = block[m]
      BY <2>1, <3>1
    <3>3. reserved'[m][block[m].dev] = block[m]
      <4>1. CASE m = m0 /\ block[m].dev = d0
        BY <3>1, <3>2, <4>1, <1>7 DEF m0, d0
      <4>2. CASE ~(m = m0 /\ block[m].dev = d0)
        BY <3>1, <3>2, <4>2, <1>7
      <4>3. QED
        BY <4>1, <4>2
    <3>4. QED
      BY <2>1, <3>1, <3>3, <1>8
  <2>4. QED
    BY <2>2, <2>3
<1>10. CountInv'
  <2> SUFFICES ASSUME NEW m \in Mems, NEW d \in Devices
               PROVE  /\ Counted(Promises(m, d)', count'[m][d], m \notin leaky)
                      /\ reserved'[m][d] = NoBlock => count'[m][d] = 0
    BY <1>8 DEF CountInv, Counted
  <2>1. /\ Counted(Promises(m, d), count[m][d], m \notin leaky)
        /\ reserved[m][d] = NoBlock => count[m][d] = 0
    BY DEF KeptInv, CountInv
  <2>2. /\ m = Command[c].mems[i0] /\ d = Device(c) =>
             /\ Promises(m, d)' = Promises(m, d) \cup {<<c, i0>>}
             /\ <<c, i0>> \notin Promises(m, d)
        /\ ~(m = Command[c].mems[i0] /\ d = Device(c)) =>
             Promises(m, d)' = Promises(m, d)
    BY <1>1, <1>6, MorePromises
  <2>3. CASE m = m0 /\ d = d0
    <3>1. /\ Promises(m, d)' = Promises(m, d) \cup {<<c, i0>>}
          /\ <<c, i0>> \notin Promises(m, d)
      BY <2>2, <2>3, <1>1 DEF d0
    <3>2. Counted(Promises(m, d) \cup {<<c, i0>>}, count[m][d] + 1, m \notin leaky)
      BY <2>1, <3>1, CountedAdd
    <3>3. QED
      BY <2>3, <3>1, <3>2, <1>3, <1>7
  <2>4. CASE ~(m = m0 /\ d = d0)
    <3>1. Promises(m, d)' = Promises(m, d)
      BY <2>2, <2>4, <1>1 DEF d0
    <3>2. QED
      BY <2>1, <2>4, <3>1, <1>7
  <2>5. QED
    BY <2>3, <2>4
<1>11. ASSUME NEW x \in Commands, NEW i \in Promised(x)
       PROVE  /\ i \in Promised(x)' /\ image'[x][i] = image[x][i]
              /\ reserved'[Command[x].mems[i]][Device(x)] = image'[x][i]
              /\ image'[x][i] \in ToSet(region')
  <2> DEFINE m == Command[x].mems[i]
             d == Device(x)
  <2>1. /\ m \in Mems /\ d \in Devices /\ image[x][i] \in Block
        /\ image[x][i] = reserved[m][d] /\ image[x][i] \in ToSet(region)
        /\ i \in 1..Len(image[x])
    BY <1>11, PromisedPlace
  <2>2. i \in Promised(x)' /\ image'[x][i] = image[x][i]
    <3>1. CASE x = c
      BY <2>1, <3>1, <1>5, <1>6
    <3>2. CASE x # c
      BY <3>2, <1>4, <1>6
    <3>3. QED
      BY <3>1, <3>2
  <2>3. reserved'[m][d] = reserved[m][d]
    <3>1. CASE m = m0 /\ d = d0
      BY <2>1, <3>1, <1>7, BlockAssumption DEF m0, d0
    <3>2. CASE ~(m = m0 /\ d = d0)
      BY <2>1, <3>2, <1>7
    <3>3. QED
      BY <3>1, <3>2
  <2>4. QED
    BY <2>1, <2>2, <2>3
<1>12. PromiseKept'
  <2> SUFFICES ASSUME NEW x \in Commands, NEW i \in Promised(x)'
               PROVE  /\ reserved'[Command[x].mems[i]][Device(x)] = image'[x][i]
                      /\ image'[x][i] \in ToSet(region')
    BY DEF PromiseKept, Device
  <2>1. CASE i \in Promised(x)
    BY <1>11, <2>1
  <2>2. CASE i \notin Promised(x)
    <3>1. x = c /\ i = i0
      BY <2>2, <1>6
    <3>2. QED
      BY <3>1, <1>1, <1>5, <1>7 DEF d0
  <2>3. QED
    BY <2>1, <2>2
<1>13. NoBlockLost'
  <2> SUFFICES ASSUME NEW k \in ToSet(region'), k.mem \notin leaky'
               PROVE  /\ k.mem \in live' /\ reserved'[k.mem][k.dev] = k
                      /\ \/ block'[k.mem] = k
                         \/ \E x \in Commands : \E i \in Promised(x)' :
                              image'[x][i] = k
    BY DEF NoBlockLost
  <2>1. CASE k = b
    <3>1. k.mem \in live' /\ reserved'[k.mem][k.dev] = k
      BY <2>1, <1>2, <1>7, <1>8 DEF m0, d0
    <3>2. i0 \in Promised(c)' /\ image'[c][i0] = k
      BY <2>1, <1>5, <1>6
    <3>3. QED
      BY <3>1, <3>2
  <2>2. CASE k # b
    <3>1. k \in ToSet(region) /\ k.mem \notin leaky
      BY <2>2, <1>8
    <3>2. /\ k.mem \in live /\ reserved[k.mem][k.dev] = k
          /\ \/ block[k.mem] = k
             \/ \E x \in Commands : \E i \in Promised(x) : image[x][i] = k
      BY <3>1 DEF KeptInv, NoBlockLost
    <3>3. k \in Block
      <4>1. region \in Seq(Block)
        BY <1>0 DEF TypeOK
      <4>2. QED
        BY <3>1, <4>1, PositionsOf, ElementOfSeq
    <3>4. k.mem \in Mems /\ k.dev \in Devices /\ k # NoBlock
      BY <3>3, BlockAssumption DEF Block
    <3>5. ~(k.mem = m0 /\ k.dev = d0)
      BY <2>2, <3>2, <3>4 DEF m0, d0
    <3>6. reserved'[k.mem][k.dev] = k
      BY <3>2, <3>4, <3>5, <1>7
    <3>7. \/ block'[k.mem] = k
          \/ \E x \in Commands : \E i \in Promised(x)' : image'[x][i] = k
      <4>1. CASE block[k.mem] = k
        BY <4>1, <1>8
      <4>2. CASE \E x \in Commands : \E i \in Promised(x) : image[x][i] = k
        BY <4>2, <1>11
      <4>3. QED
        BY <3>2, <4>1, <4>2
    <3>8. QED
      BY <3>2, <3>6, <3>7, <1>8
  <2>3. QED
    BY <2>1, <2>2
<1>14. QED
  BY <1>9, <1>10, <1>12, <1>13

(* What is in the list is a block.                                         *)
LEMMA BlockOf ==
    ASSUME TypeOK, NEW k \in ToSet(region)
    PROVE  k \in Block /\ k.mem \in Mems /\ k.dev \in Devices /\ k # NoBlock
<1>1. region \in Seq(Block)
  BY DEF TypeOK
<1>2. k \in Block
  BY <1>1, PositionsOf
<1>3. QED
  BY <1>2, BlockAssumption DEF Block

(* A command has brought a buffer to the block it was promised.  The block *)
(* the buffer came from stays reserved if another command was promised it, *)
(* and leaves the list otherwise.                                          *)
BroughtFrom(m, d) ==
    IF /\ block[m] \notin {NoBlock, reserved[m][d]}
       /\ NobodyNeeds(m, block[m].dev)
    THEN /\ Unlink(block[m])
         /\ reserved' = [reserved EXCEPT ![m][block[m].dev] = NoBlock]
    ELSE UNCHANGED <<region, reserved>>

(* That keeps all promises and loses no block.                             *)
LEMMA BroughtStep ==
    ASSUME IInv, KeptInv, NoneUndone,
           NEW c \in Commands, status[c] = "queued", arg[c] <= NumMems(c),
           reserved[MemOf(c)][Device(c)] # NoBlock,
           count' = [count EXCEPT ![MemOf(c)][Device(c)] = @ - 1],
           block' = [block EXCEPT ![MemOf(c)] = reserved[MemOf(c)][Device(c)]],
           BroughtFrom(MemOf(c), Device(c)),
           AfterMigration(c)
    PROVE  PlaceInv' /\ CountInv' /\ PromiseKept' /\ NoBlockLost'
<1> DEFINE m0 == MemOf(c)
           d0 == Device(c)
           i0 == arg[c]
           from == block[m0].dev
           Freed == /\ block[m0] \notin {NoBlock, reserved[m0][d0]}
                    /\ NobodyNeeds(m0, from)
           new == reserved[m0][d0]
<1>0. TypeOK
  BY DEF IInv
<1>1. /\ m0 \in Mems /\ d0 \in Devices
      /\ i0 \in Nat /\ 1 <= i0 /\ i0 <= NumMems(c) /\ NumMems(c) \in Nat
      /\ m0 = Command[c].mems[i0]
  BY <1>0, MemFacts DEF MemOf
<1>2. /\ i0 \in Promised(c) /\ Promised(c)' = Promised(c) \ {i0}
      /\ \A x \in Commands : x # c => Promised(x)' = Promised(x)
  <2>1. Promised(c) = i0..NumMems(c)
    BY PromisedIs
  <2>2. Promised(c)' = i0 + 1..NumMems(c)
    <3>1. CASE i0 = NumMems(c) /\ ~IsKernel(c)
      <4>1. status'[c] = "done"
        BY <1>0, <3>1 DEF AfterMigration, TypeOK
      <4>2. Promised(c)' = {}
        BY <4>1, PromisedIs
      <4>3. i0 + 1..NumMems(c) = {}
        BY <1>1, <3>1
      <4>4. QED
        BY <4>2, <4>3
    <3>2. CASE ~(i0 = NumMems(c) /\ ~IsKernel(c))
      <4>1. status'[c] = "queued" /\ arg'[c] = i0 + 1
        BY <1>0, <3>2 DEF AfterMigration, TypeOK
      <4>2. QED
        BY <4>1, PromisedIs
    <3>3. QED
      BY <3>1, <3>2
  <2>3. \A x \in Commands : x # c => Promised(x)' = Promised(x)
    <3> SUFFICES ASSUME NEW x \in Commands, x # c
                 PROVE  Promised(x)' = Promised(x)
      OBVIOUS
    <3>1. status'[x] = status[x] /\ arg'[x] = arg[x] /\ image'[x] = image[x]
      BY <1>0 DEF AfterMigration, TypeOK
    <3>2. QED
      BY <3>1, PromisedKept
  <2>4. i0 \in i0..NumMems(c) /\ i0 + 1..NumMems(c) = (i0..NumMems(c)) \ {i0}
    BY <1>1
  <2>5. QED
    BY <2>1, <2>2, <2>3, <2>4
<1>3. image' = image /\ live' = live /\ leaky' = leaky
  BY SMTT(40) DEF AfterMigration
<1>4. /\ count'[m0][d0] = count[m0][d0] - 1
      /\ \A m \in Mems, d \in Devices : ~(m = m0 /\ d = d0) =>
           count'[m][d] = count[m][d]
  BY <1>0, <1>1 DEF TypeOK
<1>5. /\ block'[m0] = new
      /\ \A m \in Mems : m # m0 => block'[m] = block[m]
  BY <1>0, <1>1 DEF TypeOK
<1>6. \A m \in Mems :
        /\ \A d \in Devices : reserved[m][d] # NoBlock =>
             /\ reserved[m][d].mem = m /\ reserved[m][d].dev = d
             /\ m \in live => reserved[m][d] \in ToSet(region)
        /\ block[m] # NoBlock =>
             block[m].mem = m /\ reserved[m][block[m].dev] = block[m]
  BY SMTT(40) DEF KeptInv, PlaceInv
<1>7. new.mem = m0 /\ new.dev = d0 /\ new # NoBlock
  BY <1>1, <1>6
<1>8. \A m \in Mems, d \in Devices :
        /\ Counted(Promises(m, d), count[m][d], m \notin leaky)
        /\ reserved[m][d] = NoBlock => count[m][d] = 0
  BY DEF KeptInv, CountInv
<1>9. ASSUME Freed
      PROVE  /\ from \in Devices /\ from # d0
             /\ reserved[m0][from] = block[m0] /\ block[m0].mem = m0
             /\ Promises(m0, from) = {} /\ count[m0][from] = 0
             /\ reserved'[m0][from] = NoBlock
             /\ \A m \in Mems, d \in Devices : ~(m = m0 /\ d = from) =>
                  reserved'[m][d] = reserved[m][d]
             /\ ToSet(region') = ToSet(region) \ {block[m0]}
  <2>1. from \in Devices
    BY <1>0, <1>1, <1>9, Zenon DEF TypeOK, Block
  <2>2. reserved[m0][from] = block[m0] /\ block[m0].mem = m0
    BY <1>1, <1>6, <1>9, Zenon
  <2>3. from # d0
    BY <1>9, <2>2, Zenon
  <2>4. /\ count[m0][from] <= 0
        /\ Counted(Promises(m0, from), count[m0][from], m0 \notin leaky)
    BY <1>1, <1>8, <1>9, <2>1, Zenon DEF NobodyNeeds
  <2>5. Promises(m0, from) = {} /\ count[m0][from] = 0
    BY <2>4, CountedZero
  <2>6. /\ Unlink(block[m0])
        /\ reserved' = [reserved EXCEPT ![m0][from] = NoBlock]
    BY <1>9 DEF BroughtFrom
  <2>7. Sound(region)
    BY SoundRegion DEF IInv, TypeOK
  <2>8. ToSet(region') = ToSet(region) \ {block[m0]}
    BY <2>6, <2>7, UnlinkMembers, Zenon
  <2>9. /\ reserved'[m0][from] = NoBlock
        /\ \A m \in Mems, d \in Devices : ~(m = m0 /\ d = from) =>
             reserved'[m][d] = reserved[m][d]
    BY <1>0, <1>1, <2>1, <2>6, Zenon DEF TypeOK
  <2>10. QED
    BY <2>1, <2>2, <2>3, <2>5, <2>8, <2>9, Zenon
<1>10. ASSUME ~Freed
       PROVE  region' = region /\ reserved' = reserved
  BY <1>10 DEF BroughtFrom
<1> HIDE DEF m0, d0, i0, from, Freed, new
(* What is still promised is still there. *)
<1>11. ASSUME NEW x \in Commands, NEW i \in Promised(x)
       PROVE  /\ reserved'[Command[x].mems[i]][Device(x)] = image[x][i]
              /\ image[x][i] \in ToSet(region')
  <2> DEFINE m == Command[x].mems[i]
             d == Device(x)
  <2>1. /\ m \in Mems /\ d \in Devices
        /\ image[x][i] = reserved[m][d]
        /\ image[x][i].mem = m /\ image[x][i].dev = d
        /\ image[x][i] \in ToSet(region)
        /\ <<x, i>> \in Promises(m, d)
    BY <1>11, PromisedPlace
  <2>2. CASE Freed
    <3>1. ~(m = m0 /\ d = from)
      BY <1>9, <2>1, <2>2
    <3>2. image[x][i] # block[m0]
      BY <1>9, <2>1, <2>2, <3>1 DEF from
    <3>3. QED
      BY <1>9, <2>1, <2>2, <3>1, <3>2
  <2>3. CASE ~Freed
    BY <1>10, <2>1, <2>3
  <2>4. QED
    BY <2>2, <2>3
<1>12. PromiseKept'
  <2> SUFFICES ASSUME NEW x \in Commands, NEW i \in Promised(x)'
               PROVE  /\ reserved'[Command[x].mems[i]][Device(x)] = image'[x][i]
                      /\ image'[x][i] \in ToSet(region')
    BY DEF PromiseKept, Device
  <2>1. i \in Promised(x)
    BY <1>2
  <2>2. QED
    BY <2>1, <1>3, <1>11
<1>13. reserved'[m0][d0] = new /\ new \in ToSet(region')
  <2>1. image[c][i0] = new
    BY <1>1, <1>2, PromisedPlace DEF new, d0
  <2>2. QED
    BY <2>1, <1>1, <1>2, <1>11 DEF d0
<1>14. PlaceInv'
  <2> SUFFICES ASSUME NEW m \in Mems
               PROVE  /\ \A d \in Devices : reserved'[m][d] # NoBlock =>
                           /\ reserved'[m][d].mem = m /\ reserved'[m][d].dev = d
                           /\ m \in live' => reserved'[m][d] \in ToSet(region')
                      /\ block'[m] # NoBlock =>
                           /\ block'[m].mem = m
                           /\ reserved'[m][block'[m].dev] = block'[m]
    BY DEF PlaceInv
  <2>1. ASSUME NEW d \in Devices, reserved'[m][d] # NoBlock
        PROVE  /\ reserved'[m][d].mem = m /\ reserved'[m][d].dev = d
               /\ m \in live' => reserved'[m][d] \in ToSet(region')
    <3>1. CASE Freed
      <4>1. ~(m = m0 /\ d = from)
        BY <1>9, <2>1, <3>1
      <4>2. reserved'[m][d] = reserved[m][d]
        BY <1>9, <3>1, <4>1
      <4>3. reserved[m][d].mem = m /\ reserved[m][d].dev = d
        BY <1>6, <2>1, <4>2
      <4>4. reserved[m][d] # block[m0]
        BY <1>9, <3>1, <4>1, <4>3 DEF from
      <4>5. QED
        BY <1>3, <1>6, <1>9, <2>1, <3>1, <4>2, <4>3, <4>4
    <3>2. CASE ~Freed
      BY <1>3, <1>6, <1>10, <2>1, <3>2
    <3>3. QED
      BY <3>1, <3>2
  <2>2. ASSUME block'[m] # NoBlock
        PROVE  block'[m].mem = m /\ reserved'[m][block'[m].dev] = block'[m]
    <3>1. CASE m = m0
      BY <3>1, <1>5, <1>7, <1>13
    <3>2. CASE m # m0
      <4>1. block'[m] = block[m] /\ block[m].dev \in Devices
        BY <1>0, <1>5, <2>2, <3>2 DEF TypeOK, Block
      <4>2. block[m].mem = m /\ reserved[m][block[m].dev] = block[m]
        BY <1>6, <2>2, <4>1
      <4>3. reserved'[m][block[m].dev] = reserved[m][block[m].dev]
        BY <1>9, <1>10, <3>2, <4>1
      <4>4. QED
        BY <4>1, <4>2, <4>3
    <3>3. QED
      BY <3>1, <3>2
  <2>3. QED
    BY <2>1, <2>2
<1>15. CountInv'
  <2> SUFFICES ASSUME NEW m \in Mems, NEW d \in Devices
               PROVE  /\ Counted(Promises(m, d)', count'[m][d], m \notin leaky)
                      /\ reserved'[m][d] = NoBlock => count'[m][d] = 0
    BY <1>3 DEF CountInv, Counted
  <2>1. /\ Counted(Promises(m, d), count[m][d], m \notin leaky)
        /\ reserved[m][d] = NoBlock => count[m][d] = 0
    BY <1>8
  <2>2. /\ m = Command[c].mems[i0] /\ d = Device(c) =>
             /\ Promises(m, d)' = Promises(m, d) \ {<<c, i0>>}
             /\ <<c, i0>> \in Promises(m, d)
        /\ ~(m = Command[c].mems[i0] /\ d = Device(c)) =>
             Promises(m, d)' = Promises(m, d)
    BY <1>1, <1>2, OnePromiseLess
  <2>3. CASE m = m0 /\ d = d0
    <3>1. /\ Promises(m, d)' = Promises(m, d) \ {<<c, i0>>}
          /\ <<c, i0>> \in Promises(m, d)
      BY <2>2, <2>3, <1>1 DEF d0
    <3>2. Counted(Promises(m, d) \ {<<c, i0>>}, count[m][d] - 1, m \notin leaky)
      BY <2>1, <3>1, CountedRemove
    <3>3. QED
      BY <2>3, <3>1, <3>2, <1>4, <1>7, <1>13
  <2>4. CASE ~(m = m0 /\ d = d0)
    <3>1. Promises(m, d)' = Promises(m, d) /\ count'[m][d] = count[m][d]
      BY <2>2, <2>4, <1>1, <1>4 DEF d0
    <3>2. reserved'[m][d] = NoBlock => count[m][d] = 0
      <4>1. CASE Freed /\ m = m0 /\ d = from
        BY <4>1, <1>9
      <4>2. CASE ~(Freed /\ m = m0 /\ d = from)
        BY <4>2, <1>9, <1>10, <2>1
      <4>3. QED
        BY <4>1, <4>2
    <3>3. QED
      BY <2>1, <3>1, <3>2
  <2>5. QED
    BY <2>3, <2>4
<1>16. NoBlockLost'
  <2> SUFFICES ASSUME NEW k \in ToSet(region'), k.mem \notin leaky'
               PROVE  /\ k.mem \in live' /\ reserved'[k.mem][k.dev] = k
                      /\ \/ block'[k.mem] = k
                         \/ \E x \in Commands : \E i \in Promised(x)' :
                              image'[x][i] = k
    BY DEF NoBlockLost
  <2>1. k \in ToSet(region) /\ k.mem \notin leaky /\ (Freed => k # block[m0])
    BY <1>3, <1>9, <1>10
  <2>2. k \in Block /\ k.mem \in Mems /\ k.dev \in Devices /\ k # NoBlock
    BY <1>0, <2>1, BlockOf
  <2>3. /\ k.mem \in live /\ reserved[k.mem][k.dev] = k
        /\ \/ block[k.mem] = k
           \/ \E x \in Commands : \E i \in Promised(x) : image[x][i] = k
    BY <2>1 DEF KeptInv, NoBlockLost
  <2>4. reserved'[k.mem][k.dev] = k
    <3>1. CASE Freed
      <4>1. ~(k.mem = m0 /\ k.dev = from)
        BY <1>9, <2>1, <2>3, <3>1
      <4>2. QED
        BY <1>9, <2>2, <2>3, <3>1, <4>1
    <3>2. CASE ~Freed
      BY <1>10, <2>3, <3>2
    <3>3. QED
      BY <3>1, <3>2
  <2>5. ASSUME NEW x \in Commands, NEW i \in Promised(x), image[x][i] = k, k # new
        PROVE  \E y \in Commands : \E j \in Promised(y)' : image'[y][j] = k
    <3>1. ~(x = c /\ i = i0)
      BY <1>1, <2>5, PromisedPlace, ZenonT(60) DEF new, d0
    <3>2. i \in Promised(x)'
      BY <1>2, <2>5, <3>1
    <3>3. QED
      BY <1>3, <2>5, <3>2
  <2>6. CASE k = new
    BY <1>3, <1>5, <1>7, <2>3, <2>4, <2>6
  <2>7. CASE k # new /\ block[k.mem] # k
    BY <1>3, <2>3, <2>4, <2>5, <2>7
  <2>8. CASE k # new /\ block[k.mem] = k /\ k.mem # m0
    BY <1>3, <1>5, <2>2, <2>3, <2>4, <2>8
  <2>9. CASE k # new /\ block[m0] = k /\ k.mem = m0
    <3>1. ~Freed /\ block[m0] \notin {NoBlock, new} /\ k.dev = from
      BY <2>1, <2>2, <2>9 DEF from
    <3>2. ~(count[m0][from] <= 0)
      BY <3>1 DEF Freed, NobodyNeeds, from, new
    <3>3. Counted(Promises(m0, from), count[m0][from], TRUE)
      <4>1. (m0 \notin leaky) = TRUE
        BY <2>1, <2>9
      <4>2. Counted(Promises(m0, from), count[m0][from], m0 \notin leaky)
        BY <1>1, <1>8, <2>2, <3>1
      <4>3. QED
        BY <4>1, <4>2
    <3>4. Promises(m0, from) # {}
      BY <3>2, <3>3, CountedZero
    <3>5. PICK p \in Promises(m0, from) : TRUE
      BY <3>4
    <3>6. PICK x \in Commands, i \in Nat : p = <<x, i>>
      BY <3>5 DEF Promises
    <3>7. /\ i \in Promised(x) /\ Command[x].mems[i] = m0 /\ Device(x) = from
      BY <3>5, <3>6 DEF Promises
    <3>8. image[x][i] = reserved[m0][from]
      BY <3>7, PromisedPlace
    <3>9. image[x][i] = k
      BY <2>3, <2>9, <3>1, <3>8
    <3>10. QED
      BY <1>3, <2>3, <2>4, <2>5, <2>9, <3>7, <3>9
  <2>10. QED
    BY <2>6, <2>7, <2>8, <2>9
<1>17. QED
  BY <1>12, <1>14, <1>15, <1>16

(* Nothing changes for the blocks. *)
LEMMA SameBlocks ==
    ASSUME KeptInv, UNCHANGED <<region, reserved, count, block, live, leaky,
                               image>>,
           \A x \in Commands : Promised(x)' = Promised(x)
    PROVE  PlaceInv' /\ CountInv' /\ PromiseKept' /\ NoBlockLost'
<1>1. PlaceInv'
  BY DEF KeptInv, PlaceInv
<1>2. \A m \in Mems, d \in Devices : Promises(m, d)' = Promises(m, d)
  BY SamePromises
<1>3. CountInv'
  BY <1>2 DEF KeptInv, CountInv, Counted
<1>4. PromiseKept'
  BY DEF KeptInv, PromiseKept, Device
<1>5. NoBlockLost'
  BY DEF KeptInv, NoBlockLost
<1>6. QED
  BY <1>1, <1>3, <1>4, <1>5

(* A command that was promised blocks ends without using them. *)
LEMMA DropStep ==
    ASSUME IInv, KeptInv, NoneUndone, NEW c \in Commands,
           Promised(c)' = {},
           \A x \in Commands : x # c => Promised(x)' = Promised(x),
           UNCHANGED <<region, reserved, count, block, live, image>>,
           leaky' = leaky \cup ToSet(Command[c].mems)
    PROVE  PlaceInv' /\ CountInv' /\ PromiseKept' /\ NoBlockLost'
<1>0. TypeOK
  BY DEF IInv
<1>1. PlaceInv'
  BY DEF KeptInv, PlaceInv
<1>2. CountInv'
  <2> SUFFICES ASSUME NEW m \in Mems, NEW d \in Devices
               PROVE  /\ Counted(Promises(m, d)', count[m][d], m \notin leaky')
                      /\ reserved[m][d] = NoBlock => count[m][d] = 0
    BY DEF CountInv, Counted
  <2>1. /\ Counted(Promises(m, d), count[m][d], m \notin leaky)
        /\ reserved[m][d] = NoBlock => count[m][d] = 0
    BY DEF KeptInv, CountInv
  <2>2. \A i \in Promised(c) : Command[c].mems[i] \in ToSet(Command[c].mems)
    BY PromisedPlace DEF Uses
  <2>3. /\ Promises(m, d)' \subseteq Promises(m, d)
        /\ m \notin ToSet(Command[c].mems) => Promises(m, d)' = Promises(m, d)
    BY <2>2, NoPromisesLeft
  <2>4. CASE m \in ToSet(Command[c].mems)
    <3>1. Counted(Promises(m, d)', count[m][d], FALSE)
      BY <2>1, <2>3, CountedFewer
    <3>2. (m \notin leaky') = FALSE
      BY <2>4
    <3>3. QED
      BY <2>1, <3>1, <3>2
  <2>5. CASE m \notin ToSet(Command[c].mems)
    <3>1. Promises(m, d)' = Promises(m, d) /\ (m \notin leaky') = (m \notin leaky)
      BY <2>3, <2>5
    <3>2. QED
      BY <2>1, <3>1
  <2>6. QED
    BY <2>4, <2>5
<1>3. \A x \in Commands : Promised(x)' \subseteq Promised(x)
  OBVIOUS
<1>4. PromiseKept'
  BY <1>3 DEF KeptInv, PromiseKept, Device
<1>5. NoBlockLost'
  <2> SUFFICES ASSUME NEW k \in ToSet(region), k.mem \notin leaky'
               PROVE  /\ k.mem \in live /\ reserved[k.mem][k.dev] = k
                      /\ \/ block[k.mem] = k
                         \/ \E x \in Commands : \E i \in Promised(x)' :
                              image[x][i] = k
    BY DEF NoBlockLost
  <2>1. k.mem \notin leaky /\ k.mem \notin ToSet(Command[c].mems)
    OBVIOUS
  <2>2. /\ k.mem \in live /\ reserved[k.mem][k.dev] = k
        /\ \/ block[k.mem] = k
           \/ \E x \in Commands : \E i \in Promised(x) : image[x][i] = k
    BY <2>1 DEF KeptInv, NoBlockLost
  <2>3. ASSUME NEW x \in Commands, NEW i \in Promised(x), image[x][i] = k
        PROVE  i \in Promised(x)'
    <3>1. Uses(x, k.mem)
      BY <2>3, PromisedPlace, ZenonT(60)
    <3>2. x # c
      BY <2>1, <3>1 DEF Uses
    <3>3. QED
      BY <2>3, <3>2
  <2>4. QED
    BY <2>2, <2>3
<1>6. QED
  BY <1>1, <1>2, <1>4, <1>5

(* A new buffer has no block, and no command uses it yet.                  *)
LEMMA CreateStep ==
    ASSUME IInv, KeptInv, NoneUndone, NEW m0 \in Mems, Create(m0)
    PROVE  PlaceInv' /\ CountInv' /\ PromiseKept' /\ NoBlockLost'
<1>0. TypeOK
  BY DEF IInv
<1>1. /\ m0 \notin live /\ live' = live \cup {m0}
      /\ region' = region /\ leaky' = leaky /\ image' = image
      /\ status' = status /\ arg' = arg
  BY DEF Create, commands
<1>2. /\ \A d \in Devices : reserved'[m0][d] = NoBlock /\ count'[m0][d] = 0
      /\ block'[m0] = NoBlock
      /\ \A m \in Mems : m # m0 => /\ reserved'[m] = reserved[m]
                                   /\ count'[m] = count[m]
                                   /\ block'[m] = block[m]
  BY <1>0 DEF Create, TypeOK
<1>3. \A x \in Commands : Promised(x)' = Promised(x)
  BY <1>1, PromisedKept
<1>4. \A x \in Commands : \A i \in Promised(x) :
        Command[x].mems[i] \in Mems \ {m0}
  BY <1>1, PromisedPlace
<1>5. PlaceInv'
  <2> SUFFICES ASSUME NEW m \in Mems
               PROVE  /\ \A d \in Devices : reserved'[m][d] # NoBlock =>
                           /\ reserved'[m][d].mem = m /\ reserved'[m][d].dev = d
                           /\ m \in live' => reserved'[m][d] \in ToSet(region')
                      /\ block'[m] # NoBlock =>
                           /\ block'[m].mem = m
                           /\ reserved'[m][block'[m].dev] = block'[m]
    BY DEF PlaceInv
  <2>1. CASE m = m0
    BY <1>2, <2>1
  <2>2. CASE m # m0
    BY <1>1, <1>2, <2>2 DEF KeptInv, PlaceInv
  <2>3. QED
    BY <2>1, <2>2
<1>6. CountInv'
  <2> SUFFICES ASSUME NEW m \in Mems, NEW d \in Devices
               PROVE  /\ Counted(Promises(m, d)', count'[m][d], m \notin leaky)
                      /\ reserved'[m][d] = NoBlock => count'[m][d] = 0
    BY <1>1 DEF CountInv, Counted
  <2>1. Promises(m, d)' = Promises(m, d)
    BY <1>3, SamePromises
  <2>2. CASE m = m0
    <3>1. Promises(m, d) = {}
      BY <1>4, <2>2 DEF Promises
    <3>2. IsFiniteSet({}) /\ Cardinality({}) = 0
      BY FS_EmptySet
    <3>3. Counted({}, 0, m \notin leaky)
      BY <3>2 DEF Counted
    <3>4. QED
      BY <1>2, <2>1, <2>2, <3>1, <3>3
  <2>3. CASE m # m0
    BY <1>2, <2>1, <2>3 DEF KeptInv, CountInv
  <2>4. QED
    BY <2>2, <2>3
<1>7. PromiseKept'
  <2> SUFFICES ASSUME NEW x \in Commands, NEW i \in Promised(x)
               PROVE  /\ reserved'[Command[x].mems[i]][Device(x)] = image[x][i]
                      /\ image[x][i] \in ToSet(region)
    BY <1>1, <1>3 DEF PromiseKept, Device
  <2>1. reserved'[Command[x].mems[i]] = reserved[Command[x].mems[i]]
    BY <1>2, <1>4
  <2>2. QED
    BY <2>1 DEF KeptInv, PromiseKept
<1>8. NoBlockLost'
  <2> SUFFICES ASSUME NEW k \in ToSet(region), k.mem \notin leaky
               PROVE  /\ k.mem \in live' /\ reserved'[k.mem][k.dev] = k
                      /\ \/ block'[k.mem] = k
                         \/ \E x \in Commands : \E i \in Promised(x)' :
                              image'[x][i] = k
    BY <1>1 DEF NoBlockLost
  <2>1. /\ k.mem \in live /\ reserved[k.mem][k.dev] = k
        /\ \/ block[k.mem] = k
           \/ \E x \in Commands : \E i \in Promised(x) : image[x][i] = k
    BY DEF KeptInv, NoBlockLost
  <2>2. k.mem \in Mems /\ k.mem # m0
    BY <1>0, <1>1, <2>1, BlockOf
  <2>3. QED
    BY <1>1, <1>2, <1>3, <2>1, <2>2
<1>9. QED
  BY <1>5, <1>6, <1>7, <1>8

(* No unfinished command uses a buffer that is released. *)
LEMMA ReleaseStep ==
    ASSUME IInv, KeptInv, NoneUndone, NEW m0 \in Mems, Release(m0)
    PROVE  PlaceInv' /\ CountInv' /\ PromiseKept' /\ NoBlockLost'
<1>0. TypeOK /\ Sound(region)
  BY SoundRegion DEF IInv, TypeOK
<1>1. /\ live' = live \ {m0} /\ Unlink(block[m0])
      /\ reserved' = reserved /\ count' = count /\ block' = block
      /\ leaky' = leaky /\ image' = image /\ status' = status /\ arg' = arg
      /\ \A x \in Commands : Uses(x, m0) => ~Unfinished(x)
  BY DEF Release, commands
<1>2. ToSet(region') = ToSet(region) \ {block[m0]}
  BY <1>0, <1>1, UnlinkMembers
<1>3. \A x \in Commands : Promised(x)' = Promised(x)
  BY <1>1, PromisedKept
<1>4. \A m \in Mems :
        /\ \A d \in Devices : reserved[m][d] # NoBlock =>
             /\ reserved[m][d].mem = m /\ reserved[m][d].dev = d
             /\ m \in live => reserved[m][d] \in ToSet(region)
        /\ block[m] # NoBlock =>
             block[m].mem = m /\ reserved[m][block[m].dev] = block[m]
  BY DEF KeptInv, PlaceInv
<1>5. \A x \in Commands : \A i \in Promised(x) :
        image[x][i].mem # m0 /\ image[x][i] # block[m0]
  <2> SUFFICES ASSUME NEW x \in Commands, NEW i \in Promised(x)
               PROVE  image[x][i].mem # m0 /\ image[x][i] # block[m0]
    OBVIOUS
  <2>1. /\ Unfinished(x) /\ Uses(x, Command[x].mems[i])
        /\ image[x][i].mem = Command[x].mems[i] /\ image[x][i] \in Block
    BY PromisedPlace
  <2>2. image[x][i].mem # m0
    BY <1>1, <2>1
  <2>3. QED
    BY <1>4, <2>1, <2>2, BlockAssumption
<1>6. PlaceInv'
  <2> SUFFICES ASSUME NEW m \in Mems
               PROVE  /\ \A d \in Devices : reserved[m][d] # NoBlock =>
                           /\ reserved[m][d].mem = m /\ reserved[m][d].dev = d
                           /\ m \in live' => reserved[m][d] \in ToSet(region')
                      /\ block[m] # NoBlock =>
                           block[m].mem = m /\ reserved[m][block[m].dev] = block[m]
    BY <1>1 DEF PlaceInv
  <2>1. ASSUME NEW d \in Devices, reserved[m][d] # NoBlock, m \in live'
        PROVE  reserved[m][d] \in ToSet(region')
    <3>1. m \in live /\ m # m0
      BY <1>1, <2>1
    <3>2. reserved[m][d] \in ToSet(region) /\ reserved[m][d].mem = m
      BY <1>4, <2>1, <3>1
    <3>3. reserved[m][d] # NoBlock /\ reserved[m][d] # block[m0]
      BY <1>4, <2>1, <3>1, <3>2
    <3>4. QED
      BY <1>2, <3>2, <3>3
  <2>2. QED
    BY <1>4, <2>1
<1>7. CountInv'
  <2>1. \A m \in Mems, d \in Devices : Promises(m, d)' = Promises(m, d)
    BY <1>3, SamePromises
  <2>2. QED
    BY <1>1, <2>1 DEF KeptInv, CountInv, Counted
<1>8. PromiseKept'
  <2> SUFFICES ASSUME NEW x \in Commands, NEW i \in Promised(x)
               PROVE  /\ reserved[Command[x].mems[i]][Device(x)] = image[x][i]
                      /\ image[x][i] \in ToSet(region')
    BY <1>1, <1>3 DEF PromiseKept, Device
  <2>1. QED
    BY <1>2, <1>5 DEF KeptInv, PromiseKept
<1>9. NoBlockLost'
  <2> SUFFICES ASSUME NEW k \in ToSet(region'), k.mem \notin leaky
               PROVE  /\ k.mem \in live' /\ reserved[k.mem][k.dev] = k
                      /\ \/ block[k.mem] = k
                         \/ \E x \in Commands : \E i \in Promised(x) :
                              image[x][i] = k
    BY <1>1, <1>3 DEF NoBlockLost
  <2>1. k \in ToSet(region) /\ k # block[m0]
    BY <1>2
  <2>2. /\ k.mem \in live /\ reserved[k.mem][k.dev] = k
        /\ \/ block[k.mem] = k
           \/ \E x \in Commands : \E i \in Promised(x) : image[x][i] = k
    BY <2>1 DEF KeptInv, NoBlockLost
  <2>3. k.mem # m0
    BY <1>5, <2>1, <2>2
  <2>4. QED
    BY <1>1, <2>2, <2>3
<1>10. QED
  BY <1>6, <1>7, <1>8, <1>9

(* A transfer places a buffer that no command has placed. *)
LEMMA BindStep ==
    ASSUME IInv, KeptInv, NoneUndone, NEW m0 \in Mems, NEW d0 \in Devices,
           Bind(m0, d0)
    PROVE  PlaceInv' /\ CountInv' /\ PromiseKept' /\ NoBlockLost'
<1>0. TypeOK /\ Sound(region)
  BY SoundRegion DEF IInv, TypeOK
<1>1. /\ m0 \in live /\ block[m0] = NoBlock
      /\ live' = live /\ count' = count
      /\ leaky' = leaky /\ image' = image /\ status' = status /\ arg' = arg
  BY DEF Bind, commands
<1>2. PICK b \in Block :
        /\ b.mem = m0 /\ b.dev = d0
        /\ reserved[m0][d0] \in {NoBlock, b}
        /\ reserved'[m0][d0] = b
        /\ block' = [block EXCEPT ![m0] = b]
        /\ ToSet(region') = ToSet(region) \cup {b}
        /\ \A m \in Mems, d \in Devices : ~(m = m0 /\ d = d0) =>
             reserved'[m][d] = reserved[m][d]
  <2>1. CASE /\ reserved[m0][d0] # NoBlock
             /\ block' = [block EXCEPT ![m0] = reserved[m0][d0]]
             /\ UNCHANGED <<region, reserved>>
    <3>1. reserved[m0][d0] \in Block
      BY <1>0, <2>1 DEF TypeOK
    <3>2. /\ reserved[m0][d0].mem = m0 /\ reserved[m0][d0].dev = d0
          /\ reserved[m0][d0] \in ToSet(region)
      BY <1>1, <2>1 DEF KeptInv, PlaceInv
    <3>3. ToSet(region') = ToSet(region) \cup {reserved[m0][d0]}
      BY <2>1, <3>2
    <3>4. QED
      BY <2>1, <3>1, <3>2, <3>3
  <2>2. CASE /\ reserved[m0][d0] = NoBlock
             /\ \E g \in FirstGap(m0, d0) :
                  /\ Link(m0, d0, g)
                  /\ block' = [block EXCEPT ![m0] = BlockAt(m0, d0, g)]
                  /\ reserved' = [reserved EXCEPT ![m0][d0] = BlockAt(m0, d0, g)]
    <3>1. PICK g \in FirstGap(m0, d0) :
            /\ Link(m0, d0, g)
            /\ block' = [block EXCEPT ![m0] = BlockAt(m0, d0, g)]
            /\ reserved' = [reserved EXCEPT ![m0][d0] = BlockAt(m0, d0, g)]
      BY <2>2
    <3>2. PICK b : b = BlockAt(m0, d0, g)
      OBVIOUS
    <3>3. b \in Block /\ ToSet(region') = ToSet(region) \cup {b}
      BY <1>0, <3>1, <3>2, LinkSound, LinkMembers
    <3>4. b.mem = m0 /\ b.dev = d0
      BY <3>2 DEF BlockAt
    <3>5. /\ reserved'[m0][d0] = b
          /\ \A m \in Mems, d \in Devices : ~(m = m0 /\ d = d0) =>
               reserved'[m][d] = reserved[m][d]
      BY <1>0, <3>1, <3>2 DEF TypeOK
    <3>6. QED
      BY <2>2, <3>1, <3>2, <3>3, <3>4, <3>5
  <2>3. QED
    BY <2>1, <2>2 DEF Bind
<1>3. /\ block'[m0] = b /\ b # NoBlock
      /\ \A m \in Mems : m # m0 => block'[m] = block[m]
  BY <1>0, <1>2, BlockAssumption DEF TypeOK
<1>4. \A x \in Commands : Promised(x)' = Promised(x)
  BY <1>1, PromisedKept
<1>5. \A m \in Mems :
        /\ \A d \in Devices : reserved[m][d] # NoBlock =>
             /\ reserved[m][d].mem = m /\ reserved[m][d].dev = d
             /\ m \in live => reserved[m][d] \in ToSet(region)
        /\ block[m] # NoBlock =>
             block[m].mem = m /\ reserved[m][block[m].dev] = block[m]
  BY DEF KeptInv, PlaceInv
<1>6. \A m \in Mems, d \in Devices :
        reserved[m][d] # NoBlock => reserved'[m][d] = reserved[m][d]
  BY <1>2
<1>7. PlaceInv'
  <2> SUFFICES ASSUME NEW m \in Mems
               PROVE  /\ \A d \in Devices : reserved'[m][d] # NoBlock =>
                           /\ reserved'[m][d].mem = m /\ reserved'[m][d].dev = d
                           /\ m \in live' => reserved'[m][d] \in ToSet(region')
                      /\ block'[m] # NoBlock =>
                           /\ block'[m].mem = m
                           /\ reserved'[m][block'[m].dev] = block'[m]
    BY DEF PlaceInv
  <2>1. ASSUME NEW d \in Devices, reserved'[m][d] # NoBlock
        PROVE  /\ reserved'[m][d].mem = m /\ reserved'[m][d].dev = d
               /\ m \in live' => reserved'[m][d] \in ToSet(region')
    <3>1. CASE m = m0 /\ d = d0
      BY <1>2, <3>1
    <3>2. CASE ~(m = m0 /\ d = d0)
      BY <1>1, <1>2, <1>5, <2>1, <3>2
    <3>3. QED
      BY <3>1, <3>2
  <2>2. ASSUME block'[m] # NoBlock
        PROVE  block'[m].mem = m /\ reserved'[m][block'[m].dev] = block'[m]
    <3>1. CASE m = m0
      BY <1>2, <1>3, <3>1
    <3>2. CASE m # m0
      <4>1. block'[m] = block[m] /\ block[m].dev \in Devices
        BY <1>0, <1>3, <2>2, <3>2 DEF TypeOK, Block
      <4>2. QED
        BY <1>2, <1>5, <2>2, <3>2, <4>1
    <3>3. QED
      BY <3>1, <3>2
  <2>3. QED
    BY <2>1, <2>2
<1>8. CountInv'
  <2> SUFFICES ASSUME NEW m \in Mems, NEW d \in Devices
               PROVE  /\ Counted(Promises(m, d)', count[m][d], m \notin leaky)
                      /\ reserved'[m][d] = NoBlock => count[m][d] = 0
    BY <1>1 DEF CountInv, Counted
  <2>1. Promises(m, d)' = Promises(m, d)
    BY <1>4, SamePromises
  <2>2. reserved'[m][d] = NoBlock => reserved[m][d] = NoBlock
    BY <1>6
  <2>3. QED
    BY <2>1, <2>2 DEF KeptInv, CountInv
<1>9. PromiseKept'
  <2> SUFFICES ASSUME NEW x \in Commands, NEW i \in Promised(x)
               PROVE  /\ reserved'[Command[x].mems[i]][Device(x)] = image[x][i]
                      /\ image[x][i] \in ToSet(region')
    BY <1>1, <1>4 DEF PromiseKept, Device
  <2>1. /\ Command[x].mems[i] \in Mems /\ Device(x) \in Devices
        /\ image[x][i] = reserved[Command[x].mems[i]][Device(x)]
        /\ image[x][i] \in Block /\ image[x][i] \in ToSet(region)
    BY PromisedPlace
  <2>2. image[x][i] # NoBlock
    BY <2>1, BlockAssumption
  <2>3. QED
    BY <1>2, <1>6, <2>1, <2>2
<1>10. NoBlockLost'
  <2> SUFFICES ASSUME NEW k \in ToSet(region'), k.mem \notin leaky
               PROVE  /\ k.mem \in live /\ reserved'[k.mem][k.dev] = k
                      /\ \/ block'[k.mem] = k
                         \/ \E x \in Commands : \E i \in Promised(x) :
                              image[x][i] = k
    BY <1>1, <1>4 DEF NoBlockLost
  <2>1. CASE k = b
    BY <1>1, <1>2, <1>3, <2>1
  <2>2. CASE k # b
    <3>1. k \in ToSet(region)
      BY <1>2, <2>2
    <3>2. /\ k.mem \in live /\ reserved[k.mem][k.dev] = k
          /\ \/ block[k.mem] = k
             \/ \E x \in Commands : \E i \in Promised(x) : image[x][i] = k
      BY <3>1 DEF KeptInv, NoBlockLost
    <3>3. k.mem \in Mems /\ k.dev \in Devices /\ k # NoBlock
      BY <1>0, <3>1, BlockOf
    <3>4. reserved'[k.mem][k.dev] = k
      BY <1>6, <3>2, <3>3
    <3>5. block[k.mem] = k => block'[k.mem] = k
      BY <1>1, <1>3, <3>3
    <3>6. QED
      BY <3>2, <3>4, <3>5
  <2>3. QED
    BY <2>1, <2>2
<1>11. QED
  BY <1>7, <1>8, <1>9, <1>10

(* Every step but those of a migration that is undone keeps the promises.  *)
LEMMA BlocksStep ==
    ASSUME IInv, KeptInv, NoneUndone, NoneUndone', [Next]_vars
    PROVE  PlaceInv' /\ CountInv' /\ PromiseKept' /\ NoBlockLost'
<1> DEFINE Goal == PlaceInv' /\ CountInv' /\ PromiseKept' /\ NoBlockLost'
<1>0. TypeOK /\ Sound(region)
  BY SoundRegion DEF IInv, TypeOK
<1>1. ASSUME NEW m \in Mems, Create(m) \/ Release(m)
      PROVE  Goal
  BY <1>1, CreateStep, ReleaseStep
<1>2. ASSUME NEW m \in Mems, NEW d \in Devices, Bind(m, d)
      PROVE  Goal
  BY <1>2, BindStep
<1>3. ASSUME UNCHANGED <<region, reserved, count, block, live, leaky, image>>,
             NEW c \in Commands, Promised(c)' = Promised(c),
             \A x \in Commands : x # c => status'[x] = status[x] /\ arg'[x] = arg[x]
      PROVE  Goal
  <2>1. \A x \in Commands : Promised(x)' = Promised(x)
    <3> SUFFICES ASSUME NEW x \in Commands, x # c
                 PROVE  Promised(x)' = Promised(x)
      BY <1>3
    <3>1. status'[x] = status[x] /\ arg'[x] = arg[x] /\ image'[x] = image[x]
      BY <1>3
    <3>2. QED
      BY <3>1, PromisedKept
  <2>2. QED
    BY <1>3, <2>1, SameBlocks
<1>4. ASSUME NEW c \in Commands, Enqueue(c)
      PROVE  Goal
  <2>1. status[c] = "new" /\ status'[c] = "reserving" /\ arg'[c] = arg[c]
    BY <1>0, <1>4 DEF Enqueue, TypeOK
  <2>2. arg[c] = 1
    BY <2>1 DEF KeptInv, ImageInv
  <2>3. Promised(c) = {} /\ Promised(c)' = 1..arg'[c] - 1
    BY <2>1, PromisedIs
  <2>4. Promised(c)' = Promised(c)
    BY <2>1, <2>2, <2>3
  <2>5. /\ UNCHANGED <<region, reserved, count, block, live, leaky, image>>
        /\ \A x \in Commands : x # c => status'[x] = status[x] /\ arg'[x] = arg[x]
    BY <1>0, <1>4 DEF Enqueue, TypeOK
  <2>6. QED
    BY <1>3, <2>4, <2>5
<1>5. ASSUME NEW c \in Commands, Launch(c) \/ Finish(c)
      PROVE  Goal
  <2>1. \/ /\ status[c] = "queued" /\ status'[c] = "launched"
           /\ arg[c] > NumMems(c)
        \/ status[c] = "launched" /\ status'[c] = "done"
    BY <1>0, <1>5 DEF Launch, Finish, TypeOK
  <2>2. arg[c] \in Nat /\ NumMems(c) \in Nat
    BY <1>0, MemFacts
  <2>3. arg[c] > NumMems(c) => arg[c]..NumMems(c) = {}
    BY <2>2
  <2>4. Promised(c)' = Promised(c)
    BY <2>1, <2>3, PromisedIs
  <2>5. /\ UNCHANGED <<region, reserved, count, block, live, leaky, image>>
        /\ \A x \in Commands : x # c => status'[x] = status[x] /\ arg'[x] = arg[x]
    BY <1>0, <1>5 DEF Launch, Finish, TypeOK
  <2>6. QED
    BY <1>3, <2>4, <2>5
<1>6. ASSUME NEW c \in Commands, UseReservation(c)
      PROVE  Goal
  <2> DEFINE m == MemOf(c)
             d == Device(c)
  <2>1. m \in Mems /\ d \in Devices
    BY <1>0, <1>6, MemFacts DEF IInv, ArgInv, UseReservation
  <2>2. PICK b : b = reserved[m][d]
    OBVIOUS
  <2>3. /\ status[c] = "reserving" /\ Promise(c, b) /\ b \in Block
        /\ region' = region /\ reserved' = reserved
    BY <1>0, <1>6, <2>1, <2>2 DEF UseReservation, TypeOK
  <2>4. b # NoBlock
    BY <2>3, BlockAssumption
  <2>5. m \in live
    <3>1. m \in ToSet(Command[c].mems)
      <4>1. Command[c].mems \in Seq(Mems)
        BY CommandAssumption DEF CommandType
      <4>2. arg[c] \in 1..Len(Command[c].mems)
        BY <1>0, <2>3, MemFacts DEF IInv, ArgInv, NumMems
      <4>3. QED
        BY <4>1, <4>2, PositionsOf DEF MemOf
    <3>2. QED
      BY <2>3, <3>1 DEF KeptInv, LiveInv, Unfinished
  <2>6. b.mem = m /\ b.dev = d /\ b \in ToSet(region)
    BY <2>1, <2>2, <2>4, <2>5 DEF KeptInv, PlaceInv
  <2>7. reserved' = [reserved EXCEPT ![m][d] = b]
    BY <1>0, <2>1, <2>2, <2>3 DEF TypeOK
  <2>8. ToSet(region') = ToSet(region) \cup {b}
    BY <2>3, <2>6
  <2>9. reserved[m][d] \in {NoBlock, b}
    BY <2>2
  <2>10. QED
    BY <2>3, <2>6, <2>7, <2>8, <2>9, PromiseStep
<1>7. ASSUME NEW c \in Commands, Reserve(c)
      PROVE  Goal
  <2> DEFINE m == MemOf(c)
             d == Device(c)
  <2>1. m \in Mems /\ d \in Devices /\ status[c] = "reserving"
    BY <1>0, <1>7, MemFacts DEF IInv, ArgInv, Reserve
  <2>2. reserved[m][d] = NoBlock
    BY <1>7 DEF Reserve
  <2>3. PICK g \in FirstGap(m, d) :
          /\ Link(m, d, g)
          /\ reserved' = [reserved EXCEPT ![m][d] = BlockAt(m, d, g)]
          /\ Promise(c, BlockAt(m, d, g))
    BY <1>7 DEF Reserve
  <2>4. PICK b : b = BlockAt(m, d, g)
    OBVIOUS
  <2>5. b \in Block /\ ToSet(region') = ToSet(region) \cup {b}
    BY <1>0, <2>1, <2>3, <2>4, LinkSound, LinkMembers
  <2>6. b.mem = m /\ b.dev = d
    BY <2>4 DEF BlockAt
  <2>7. /\ reserved' = [reserved EXCEPT ![m][d] = b] /\ Promise(c, b)
        /\ reserved[m][d] \in {NoBlock, b}
    BY <2>2, <2>3, <2>4
  <2>8. QED
    BY <2>1, <2>5, <2>6, <2>7, PromiseStep
<1>8. ASSUME NEW c \in Commands, RefuseKernel(c) \/ Terminate(c)
      PROVE  Goal
  <2>1. /\ status'[c] \in {"refused", "done"}
        /\ UNCHANGED <<region, reserved, count, block, live, arg, image>>
        /\ leaky' = leaky \cup ToSet(Command[c].mems)
        /\ \A x \in Commands : x # c => status'[x] = status[x]
    BY <1>0, <1>8 DEF RefuseKernel, Terminate, TypeOK
  <2>2. Promised(c)' = {}
    BY <2>1, PromisedIs
  <2>3. \A x \in Commands : x # c => Promised(x)' = Promised(x)
    BY <2>1, PromisedKept
  <2>4. QED
    BY <2>1, <2>2, <2>3, DropStep
<1>9. ASSUME NEW c \in Commands, MigrateInPlace(c) \/ MigrateAndMove(c)
      PROVE  Goal
  <2> DEFINE m == MemOf(c)
             d == Device(c)
  <2>1. /\ status[c] = "queued" /\ arg[c] <= NumMems(c)
        /\ reserved[m][d] # NoBlock
        /\ count' = [count EXCEPT ![m][d] = @ - 1]
        /\ block' = [block EXCEPT ![m] = reserved[m][d]]
        /\ AfterMigration(c)
    BY <1>9 DEF MigrateInPlace, MigrateAndMove, Migrating
  <2>2. BroughtFrom(m, d)
    <3>1. CASE MigrateInPlace(c)
      BY <3>1 DEF MigrateInPlace, BroughtFrom
    <3>2. CASE MigrateAndMove(c)
      <4>1. m \in Mems
        BY <1>0, <2>1, MemFacts
      <4>2. block[m] \notin {NoBlock, reserved[m][d]}
        BY <3>2 DEF MigrateAndMove
      <4>3. reserved[m][block[m].dev] = block[m]
        BY <4>1, <4>2 DEF KeptInv, PlaceInv
      <4>4. IF NobodyNeeds(m, block[m].dev)
            THEN /\ Unlink(reserved[m][block[m].dev])
                 /\ reserved' = [reserved EXCEPT ![m][block[m].dev] = NoBlock]
            ELSE UNCHANGED <<region, reserved>>
        BY <3>2 DEF MigrateAndMove
      <4>5. QED
        BY <4>2, <4>3, <4>4 DEF BroughtFrom
    <3>3. QED
      BY <1>9, <3>1, <3>2
  <2>3. QED
    BY <2>1, <2>2, BroughtStep
<1>10. ASSUME NEW c \in Commands, RefuseMigration(c) \/ GiveBack(c)
       PROVE  Goal
  <2>1. status[c] = "undoing" \/ status'[c] = "undoing"
    BY <1>0, <1>10 DEF RefuseMigration, GiveBack, TypeOK
  <2>2. QED
    BY <2>1 DEF NoneUndone
<1>11. CASE UNCHANGED vars
  <2>1. UNCHANGED <<region, reserved, count, block, live, status, arg, image,
                    leaky>>
    BY <1>11 DEF vars
  <2>2. \A x \in Commands : Promised(x)' = Promised(x)
    BY <2>1, PromisedKept
  <2>3. QED
    BY <2>1, <2>2, SameBlocks
<1>12. CASE Next
  <2>1. CASE \E m \in Mems :
               Create(m) \/ Release(m) \/ \E d \in Devices : Bind(m, d)
    BY <2>1, <1>1, <1>2
  <2>2. CASE \E c \in Commands :
               \/ Enqueue(c) \/ UseReservation(c) \/ Reserve(c)
               \/ RefuseKernel(c) \/ RefuseMigration(c) \/ GiveBack(c)
               \/ Terminate(c) \/ MigrateInPlace(c) \/ MigrateAndMove(c)
               \/ Launch(c) \/ Finish(c)
    BY <2>2, <1>4, <1>5, <1>6, <1>7, <1>8, <1>9, <1>10
  <2>3. QED
    BY <2>1, <2>2, <1>12 DEF Next
<1>13. QED
  BY <1>11, <1>12

(* At first there are neither promises nor blocks.                         *)
LEMMA InitKept == Init => KeptInv
<1> SUFFICES ASSUME Init
             PROVE  KeptInv
  OBVIOUS
<1>1. PICK w \in Workloads :
        status = [c \in Commands |-> IF c \in w THEN "new" ELSE "absent"]
  BY DEF Init
<1>2. \A c \in Commands : status[c] \in {"new", "absent"}
  BY <1>1
<1>3. \A c \in Commands : Promised(c) = {}
  BY <1>2, PromisedIs
<1>4. LiveInv /\ ImageInv /\ PlaceInv
  BY <1>2 DEF Init, LiveInv, Unfinished, ImageInv, PlaceInv
<1>5. CountInv
  <2> SUFFICES ASSUME NEW m \in Mems, NEW d \in Devices
               PROVE  Counted(Promises(m, d), count[m][d], m \notin leaky)
                      /\ count[m][d] = 0
    BY DEF CountInv
  <2>1. Promises(m, d) = {}
    BY <1>3 DEF Promises
  <2>2. IsFiniteSet({}) /\ Cardinality({}) = 0
    BY FS_EmptySet
  <2>3. count[m][d] = 0
    BY DEF Init
  <2>4. Counted({}, 0, m \notin leaky)
    BY <2>2 DEF Counted
  <2>5. QED
    BY <2>1, <2>3, <2>4
<1>6. PromiseKept
  BY <1>3 DEF PromiseKept
<1>7. ToSet(region) = {}
  <2>1. region = <<>>
    BY DEF Init
  <2>2. QED
    BY <2>1 DEF ToSet
<1>8. NoBlockLost
  BY <1>7 DEF NoBlockLost
<1>9. QED
  BY <1>4, <1>5, <1>6, <1>8 DEF KeptInv

(* The promises are kept as long as no migration is undone.                *)
LEMMA KeptInvariance == Spec /\ []NoneUndone => []KeptInv
<1>1. IInv /\ KeptInv /\ NoneUndone /\ NoneUndone' /\ [Next]_vars => KeptInv'
  <2> SUFFICES ASSUME IInv, KeptInv, NoneUndone, NoneUndone', [Next]_vars
               PROVE  KeptInv'
    OBVIOUS
  <2>1. LiveInv' /\ ImageInv'
    BY LiveStep, ImageStep DEF KeptInv
  <2>2. QED
    BY <2>1, BlocksStep DEF KeptInv
<1>2. QED
  BY InitKept, Invariance, <1>1, PTL DEF Spec

(* The address a command was given when it was enqueued stays good until   *)
(* the command has used it (acl_mem_migrate_buffer frees the block a       *)
(* buffer leaves only when reserved_allocations_count says nobody counts   *)
(* on it), unless a migration command finds its device without room.       *)
THEOREM AddressesStayGood == Spec /\ []NoneUndone => []PromiseKept
<1>1. KeptInv => PromiseKept
  BY DEF KeptInv
<1>2. QED
  BY KeptInvariance, <1>1, PTL

(* As long, no block is lost: every block in the list is where its buffer  *)
(* is or was promised to a command; the buffers of commands that were      *)
(* refused or terminated are excepted.                                     *)
THEOREM BlocksAreNotLost == Spec /\ []NoneUndone => []NoBlockLost
<1>1. KeptInv => NoBlockLost
  BY DEF KeptInv
<1>2. QED
  BY KeptInvariance, <1>1, PTL

(* As long, the assertions of acl_reserve_buffer_block and                 *)
(* acl_mem_migrate_buffer hold.                                            *)
THEOREM AssertionsAreMet == Spec /\ []NoneUndone => []AssertionsHold
<1>1. IInv /\ KeptInv /\ NoneUndone => AssertionsHold
  <2> SUFFICES ASSUME IInv, KeptInv, NoneUndone, NEW c \in Commands
               PROVE  /\ status[c] = "reserving" =>
                           \/ reserved[MemOf(c)][Device(c)] # NoBlock
                           \/ count[MemOf(c)][Device(c)] = 0
                      /\ status[c] = "queued" /\ arg[c] <= NumMems(c)
                           => reserved[MemOf(c)][Device(c)] # NoBlock
    BY DEF AssertionsHold
  <2>0. TypeOK
    BY DEF IInv
  <2>1. ASSUME status[c] = "reserving", reserved[MemOf(c)][Device(c)] = NoBlock
        PROVE  count[MemOf(c)][Device(c)] = 0
    <3>1. MemOf(c) \in Mems /\ Device(c) \in Devices
      BY <2>0, <2>1, MemFacts DEF IInv, ArgInv
    <3>2. QED
      BY <2>1, <3>1 DEF KeptInv, CountInv
  <2>2. ASSUME status[c] = "queued", arg[c] <= NumMems(c)
        PROVE  reserved[MemOf(c)][Device(c)] # NoBlock
    <3>1. Promised(c) = arg[c]..NumMems(c)
      BY <2>2, PromisedIs
    <3>2. arg[c] \in Nat /\ NumMems(c) \in Nat
      BY <2>0, MemFacts
    <3>3. arg[c] \in Promised(c)
      BY <2>2, <3>1, <3>2
    <3>4. reserved[MemOf(c)][Device(c)] \in Block
      BY <3>3, PromisedPlace DEF MemOf
    <3>5. QED
      BY <3>4, BlockAssumption
  <2>3. QED
    BY <2>1, <2>2
<1>2. QED
  BY KeptInvariance, Invariance, <1>1, PTL

(* In particular when only kernels are enqueued, whatever is refused or    *)
(* terminated.                                                             *)
THEOREM KernelsKeepTheirBlocks ==
    ASSUME \A c \in Commands : IsKernel(c)
    PROVE  Spec => [](PromiseKept /\ NoBlockLost)
<1>1. Init => NoneUndone
  BY DEF Init, NoneUndone
<1>2. IInv /\ NoneUndone /\ [Next]_vars => NoneUndone'
  <2> SUFFICES ASSUME IInv, NoneUndone, [Next]_vars, NEW x \in Commands
               PROVE  status'[x] # "undoing"
    BY DEF NoneUndone
  <2>0. TypeOK /\ status[x] # "undoing"
    BY DEF IInv, NoneUndone
  <2>1. CASE \E m \in Mems :
               Create(m) \/ Release(m) \/ \E d \in Devices : Bind(m, d)
    BY <2>0, <2>1 DEF Create, Release, Bind, commands
  <2>2. ASSUME NEW c \in Commands,
               \/ Enqueue(c) \/ UseReservation(c) \/ Reserve(c)
               \/ RefuseKernel(c) \/ RefuseMigration(c) \/ GiveBack(c)
               \/ Terminate(c) \/ MigrateInPlace(c) \/ MigrateAndMove(c)
               \/ Launch(c) \/ Finish(c)
        PROVE  status'[x] # "undoing"
    <3>1. CASE UseReservation(c) \/ Reserve(c)
      BY <2>0, <3>1 DEF UseReservation, Reserve, Promise, TypeOK
    <3>2. CASE RefuseMigration(c) \/ GiveBack(c)
      BY <3>2 DEF RefuseMigration, GiveBack, NoneUndone
    <3>3. CASE MigrateInPlace(c) \/ MigrateAndMove(c)
      BY <2>0, <3>3 DEF MigrateInPlace, MigrateAndMove, AfterMigration, TypeOK
    <3>4. CASE \/ Enqueue(c) \/ RefuseKernel(c) \/ Terminate(c)
               \/ Launch(c) \/ Finish(c)
      BY <2>0, <3>4 DEF Enqueue, RefuseKernel, Terminate, Launch, Finish, TypeOK
    <3>5. QED
      BY <2>2, <3>1, <3>2, <3>3, <3>4
  <2>3. CASE UNCHANGED vars
    BY <2>0, <2>3 DEF vars
  <2>4. QED
    BY <2>1, <2>2, <2>3 DEF Next
<1>3. Spec => []NoneUndone
  BY <1>1, <1>2, Invariance, PTL DEF Spec
<1>4. QED
  BY <1>3, AddressesStayGood, BlocksAreNotLost, PTL
=============================================================================
