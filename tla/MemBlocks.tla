------------------------------ MODULE MemBlocks ------------------------------
(***************************************************************************)
(* Where buffers live on the devices: the blocks of the platform's global  *)
(* memory region and their reservation (src/acl_mem.cpp, src/acl_kernel.cpp,*)
(* src/acl_device_op.cpp).                                                 *)
(*                                                                         *)
(* When a command is enqueued, a block is reserved on its device for each  *)
(* buffer it will use, and the address goes into the kernel's image; the   *)
(* buffer is moved there when the command reaches the device, perhaps much *)
(* later.  reserved_allocations_count says how many commands still count   *)
(* on a reservation; a block that a buffer has moved away from is freed    *)
(* when nobody does.  One list holds the blocks of all devices in the      *)
(* order of their addresses, the device being part of the address; a block *)
(* is found by first fit, from the buffer's preferred bank on and then     *)
(* from the beginning of the device's memory.                              *)
(*                                                                         *)
(* Sizes and addresses count units of ACL_MEM_ALIGN; a device has one      *)
(* memory system.                                                          *)
(***************************************************************************)
EXTENDS Integers, Sequences, SequencesExt, FiniteSets

CONSTANTS
    Mems, Devices, Commands,
    NoBlock,     \* NULL, or the empty block of an allocation_deferred buffer
    Command,     \* what a command is: see CommandType
    Workloads,   \* sets of commands that are enqueued together
    Terminable,  \* commands whose dependency may fail before they start
    Transfers,   \* the pairs of a buffer and a device that transfers name
    Size,        \* of each buffer
    Bank,        \* bank_id of each buffer, 0 for none
    Memory       \* of each device: its range, the begin of the usable part
                 \* of it, and its number of banks

CommandType == [kind : {"kernel", "migrate"}, device : Devices,
                mems : Seq(Mems) \ {<<>>}]

ASSUME CommandAssumption == Command \in [Commands -> CommandType]
ASSUME SetsAssumption ==
    /\ Workloads \subseteq SUBSET Commands /\ Terminable \subseteq Commands
    /\ Transfers \subseteq Mems \X Devices
ASSUME SizeAssumption ==
    /\ Size \in [Mems -> Nat \ {0}]
    /\ Bank \in [Mems -> Nat]
    /\ Memory \in [Devices -> [begin : Nat, usable : Nat, next : Nat,
                               banks : Nat \ {0}]]

Block == [mem : Mems, dev : Devices, begin : Nat, next : Nat]
ASSUME BlockAssumption == NoBlock \notin Block

VARIABLES
    region,    \* the list of blocks, first_block first
    reserved,  \* reserved_allocations of each buffer, per device
    count,     \* reserved_allocations_count
    block,     \* block_allocation of each buffer
    live,      \* the buffers that exist
    status,    \* of each command, see Statuses
    arg,       \* the next of its buffers to reserve, give back or migrate
    newly,     \* needs_release_on_fail: the buffers it reserved itself
    image,     \* the block each of its buffers was promised
    leaky      \* history: buffers of commands that were refused or terminated

vars == <<region, reserved, count, block, live, status, arg, newly, image,
          leaky>>
commands == <<status, arg, newly, image>>

(* A command is being enqueued while the lock is held ("reserving", or     *)
(* "undoing" when it failed), then waits, then runs.                       *)
Statuses == {"new", "reserving", "undoing", "queued", "launched", "done",
             "refused", "absent"}

TypeOK ==
    /\ region \in Seq(Block)
    /\ reserved \in [Mems -> [Devices -> Block \cup {NoBlock}]]
    /\ count \in [Mems -> [Devices -> Int]]
    /\ block \in [Mems -> Block \cup {NoBlock}]
    /\ live \in SUBSET Mems
    /\ status \in [Commands -> Statuses]
    /\ arg \in [Commands -> Nat \ {0}]
    /\ newly \in [Commands -> SUBSET Nat]
    /\ image \in [Commands -> Seq(Block)]
    /\ leaky \in SUBSET Mems

IsKernel(c) == Command[c].kind = "kernel"
Device(c) == Command[c].device
NumMems(c) == Len(Command[c].mems)
MemOf(c) == Command[c].mems[arg[c]]
Uses(c, m) == m \in ToSet(Command[c].mems)

(* The scoped lock of the API calls. *)
LockFree == \A c \in Commands : status[c] \notin {"reserving", "undoing"}
Unfinished(c) == status[c] \in {"reserving", "undoing", "queued", "launched"}

Init ==
    /\ region = <<>>
    /\ reserved = [m \in Mems |-> [d \in Devices |-> NoBlock]]
    /\ count = [m \in Mems |-> [d \in Devices |-> 0]]
    /\ block = [m \in Mems |-> NoBlock]
    /\ live = Mems
    /\ \E w \in Workloads :
         status = [c \in Commands |-> IF c \in w THEN "new" ELSE "absent"]
    /\ arg = [c \in Commands |-> 1]
    /\ newly = [c \in Commands |-> {}]
    /\ image = [c \in Commands |-> <<>>]
    /\ leaky = {}

----------------------------------------------------------------------------
(* acl_allocate_block *)

BankSize(d) == (Memory[d].next - Memory[d].begin) \div Memory[d].banks
BankBegin(m, d) ==
    Memory[d].begin + ((Bank[m] - 1) % Memory[d].banks) * BankSize(d)

(* initial_try of l_get_working_range. *)
FirstTry(m, d) ==
    IF Bank[m] > 0 /\ BankBegin(m, d) > Memory[d].usable
    THEN BankBegin(m, d) ELSE Memory[d].usable

(* The walk over the list that begins at first has passed k blocks: the    *)
(* candidate now begins at one of these addresses, the highest of them.    *)
Reached(first, k) == {first} \cup {region[i].next : i \in 1..k}
IsCandidate(first, k, a) ==
    /\ a \in Reached(first, k)
    /\ first <= a /\ \A i \in 1..k : region[i].next <= a

FitsAtEnd(m, d, k, a) == a + Size[m] <= Memory[d].next  \* a slip
FitsBefore(m, d, k, a) ==
    /\ a + Size[m] <= Memory[d].next
    /\ k < Len(region) => a + Size[m] <= region[k + 1].begin

(* The gaps of the list with room for m, each with the address.            *)
Gaps(m, d, first) ==
    UNION {{<<k, a>> : a \in {x \in Reached(first, k) :
                                 /\ IsCandidate(first, k, x)
                                 /\ FitsBefore(m, d, k, x)}} :
              k \in 0..Len(region)}

PreferredOnly(m, d) == Gaps(m, d, FirstTry(m, d))  \* a slip
GapsToUse(m, d) ==
    LET preferred == Gaps(m, d, FirstTry(m, d)) IN
      IF preferred # {} THEN preferred ELSE Gaps(m, d, Memory[d].usable)

(* The first of them, or none. *)
FirstGap(m, d) ==
    LET gaps == GapsToUse(m, d) IN
      {g \in gaps : \A h \in gaps : g[1] <= h[1]}

HasRoom(m, d) == FirstGap(m, d) # {}

BlockAt(m, d, g) ==
    [mem |-> m, dev |-> d, begin |-> g[2], next |-> g[2] + Size[m]]
Link(m, d, g) == region' = InsertAt(region, g[1] + 1, BlockAt(m, d, g))

(* remove_mem_block_linked_list: nothing happens to a block that is not in *)
(* the list.                                                               *)
Unlink(b) ==
    \/ \E i \in 1..Len(region) : region[i] = b /\ region' = RemoveAt(region, i)
    \/ b \notin ToSet(region) /\ UNCHANGED region

----------------------------------------------------------------------------
(* The user creates and releases buffers.  A kernel does not retain its    *)
(* buffers: the user keeps them until their commands have finished.        *)
Create(m) ==
    /\ LockFree /\ m \notin live
    /\ live' = live \cup {m}
    /\ reserved' = [reserved EXCEPT ![m] = [d \in Devices |-> NoBlock]]
    /\ count' = [count EXCEPT ![m] = [d \in Devices |-> 0]]
    /\ block' = [block EXCEPT ![m] = NoBlock]
    /\ UNCHANGED <<region, commands, leaky>>

(* Only the block the buffer is in leaves the list. *)
Release(m) ==
    /\ LockFree /\ m \in live
    /\ \A c \in Commands : Uses(c, m) => ~Unfinished(c)
    /\ live' = live \ {m}
    /\ Unlink(block[m])
    /\ UNCHANGED <<reserved, count, block, commands, leaky>>

(* acl_bind_buffer_to_device: a read, a write or a map of a buffer that no *)
(* command has placed yet gives it a block on the device of the queue.     *)
Bind(m, d) ==
    /\ LockFree /\ m \in live /\ block[m] = NoBlock
    /\ <<m, d>> \in Transfers
    /\ \/ /\ reserved[m][d] # NoBlock
          /\ block' = [block EXCEPT ![m] = reserved[m][d]]
          /\ UNCHANGED <<region, reserved>>
       \/ /\ reserved[m][d] = NoBlock
          /\ \E g \in FirstGap(m, d) :
               /\ Link(m, d, g)
               /\ block' = [block EXCEPT ![m] = BlockAt(m, d, g)]
               /\ reserved' = [reserved EXCEPT ![m][d] = BlockAt(m, d, g)]
    /\ UNCHANGED <<count, live, commands, leaky>>

----------------------------------------------------------------------------
(* The enqueue of a kernel (l_copy_and_adjust_arguments_for_device) or of  *)
(* a migration (clEnqueueMigrateMemObjects): one step for each buffer.     *)
Enqueue(c) ==
    /\ LockFree /\ status[c] = "new"
    /\ ToSet(Command[c].mems) \subseteq live
    /\ status' = [status EXCEPT ![c] = "reserving"]
    /\ UNCHANGED <<region, reserved, count, block, live, arg, newly, image,
                   leaky>>

(* The buffer of c that is looked at is promised block b. *)
Promise(c, b) ==
    /\ count' = [count EXCEPT ![MemOf(c)][Device(c)] = @ + 1]
    /\ image' = [image EXCEPT ![c] = Append(@, b)]
    /\ IF arg[c] < NumMems(c)
       THEN arg' = [arg EXCEPT ![c] = @ + 1] /\ UNCHANGED status
       ELSE /\ arg' = [arg EXCEPT ![c] = 1]
            /\ status' = [status EXCEPT ![c] = "queued"]
    /\ UNCHANGED <<block, live, leaky>>

UseReservation(c) ==
    /\ status[c] = "reserving"
    /\ reserved[MemOf(c)][Device(c)] # NoBlock
    /\ Promise(c, reserved[MemOf(c)][Device(c)])
    /\ UNCHANGED <<region, reserved, newly>>

(* acl_reserve_buffer_block, which asserts that the count is zero. *)
Reserve(c) ==
    LET m == MemOf(c)  d == Device(c) IN
      /\ status[c] = "reserving"
      /\ reserved[m][d] = NoBlock /\ count[m][d] = 0
      /\ \E g \in FirstGap(m, d) :
           /\ Link(m, d, g)
           /\ reserved' = [reserved EXCEPT ![m][d] = BlockAt(m, d, g)]
           /\ Promise(c, BlockAt(m, d, g))
      /\ newly' = [newly EXCEPT ![c] = @ \cup {arg[c]}]

(* There is no room.  The kernel is not enqueued, and keeps the count and  *)
(* the block of the buffers before this one ("Could result in a memory     *)
(* leak").                                                                 *)
RefuseKernel(c) ==
    /\ status[c] = "reserving" /\ IsKernel(c)
    /\ reserved[MemOf(c)][Device(c)] = NoBlock
    /\ ~HasRoom(MemOf(c), Device(c))
    /\ status' = [status EXCEPT ![c] = "refused"]
    /\ leaky' = leaky \cup ToSet(Command[c].mems)
    /\ UNCHANGED <<region, reserved, count, block, live, arg, newly, image>>

(* A migration gives back what it reserved itself ...                      *)
RefuseMigration(c) ==
    /\ status[c] = "reserving" /\ ~IsKernel(c)
    /\ reserved[MemOf(c)][Device(c)] = NoBlock
    /\ ~HasRoom(MemOf(c), Device(c))
    /\ status' = [status EXCEPT ![c] = "undoing"]
    /\ arg' = [arg EXCEPT ![c] = 1]
    /\ UNCHANGED <<region, reserved, count, block, live, newly, image, leaky>>

(* ... and takes one off the count of every object, of those it had not    *)
(* reached too.                                                            *)
GiveBack(c) ==
    LET m == MemOf(c)  d == Device(c) IN
      /\ status[c] = "undoing"
      /\ count' = [count EXCEPT ![m][d] = @ - 1]
      /\ IF arg[c] \in newly[c]
         THEN /\ Unlink(reserved[m][d])
              /\ reserved' = [reserved EXCEPT ![m][d] = NoBlock]
         ELSE UNCHANGED <<region, reserved>>
      /\ IF arg[c] < NumMems(c)
         THEN arg' = [arg EXCEPT ![c] = @ + 1] /\ UNCHANGED status
         ELSE /\ status' = [status EXCEPT ![c] = "refused"]
              /\ UNCHANGED arg
      /\ UNCHANGED <<block, live, newly, image, leaky>>

(* A dependency failed: the command ends before it was submitted.  Nothing *)
(* takes back its reservations.                                            *)
Terminate(c) ==
    /\ LockFree /\ c \in Terminable
    /\ status[c] = "queued" /\ arg[c] = 1
    /\ status' = [status EXCEPT ![c] = "done"]
    /\ leaky' = leaky \cup ToSet(Command[c].mems)
    /\ UNCHANGED <<region, reserved, count, block, live, arg, newly, image>>

----------------------------------------------------------------------------
(* The operations on the device, in the order of the group. *)

(* l_is_mem_in_use: a launched kernel has the block the buffer is in, or   *)
(* the block it would move to.                                             *)
InUse(m, d) ==
    \E k \in Commands :
        /\ status[k] = "launched"
        /\ \E x \in ToSet(Command[k].mems) : block[x] \in {block[m], reserved[m][d]}

(* The next buffer of c may be moved; the user orders a migration of its   *)
(* own behind the kernels that use the buffer.                             *)
MayMove(c) ==
    IF IsKernel(c) THEN ~InUse(MemOf(c), Device(c))
    ELSE \A k \in Commands : status[k] = "launched" => ~Uses(k, MemOf(c))

AfterMigration(c) ==
    /\ arg' = [arg EXCEPT ![c] = @ + 1]
    /\ status' = IF arg[c] = NumMems(c) /\ ~IsKernel(c)
                 THEN [status EXCEPT ![c] = "done"] ELSE status
    /\ UNCHANGED <<live, newly, image, leaky>>

Migrating(c) == LockFree /\ status[c] = "queued" /\ arg[c] <= NumMems(c)

(* acl_mem_migrate_buffer: the buffer has no place yet, or is in place. *)
MigrateInPlace(c) ==
    LET m == MemOf(c)  d == Device(c) IN
      /\ Migrating(c)
      /\ reserved[m][d] # NoBlock
      /\ block[m] \in {NoBlock, reserved[m][d]}
      /\ block' = [block EXCEPT ![m] = reserved[m][d]]
      /\ count' = [count EXCEPT ![m][d] = @ - 1]
      /\ UNCHANGED <<region, reserved>>
      /\ AfterMigration(c)

AlmostFree(m, d) == count[m][d] <= 1  \* a slip
NeverFree(m, d) == FALSE  \* a slip
NobodyNeeds(m, d) == count[m][d] <= 0

(* It moves to its reserved block; the block it leaves is freed unless a   *)
(* command still counts on it.                                             *)
MigrateAndMove(c) ==
    LET m == MemOf(c)  d == Device(c)  from == block[m].dev IN
      /\ Migrating(c)
      /\ reserved[m][d] # NoBlock
      /\ block[m] \notin {NoBlock, reserved[m][d]}
      /\ MayMove(c)
      /\ count' = [count EXCEPT ![m][d] = @ - 1]
      /\ block' = [block EXCEPT ![m] = reserved[m][d]]
      /\ IF NobodyNeeds(m, from)
         THEN /\ Unlink(reserved[m][from])
              /\ reserved' = [reserved EXCEPT ![m][from] = NoBlock]
         ELSE UNCHANGED <<region, reserved>>
      /\ AfterMigration(c)

Launch(c) ==
    /\ LockFree /\ status[c] = "queued" /\ IsKernel(c) /\ arg[c] > NumMems(c)
    /\ status' = [status EXCEPT ![c] = "launched"]
    /\ UNCHANGED <<region, reserved, count, block, live, arg, newly, image,
                   leaky>>

Finish(c) ==
    /\ LockFree /\ status[c] = "launched"
    /\ status' = [status EXCEPT ![c] = "done"]
    /\ UNCHANGED <<region, reserved, count, block, live, arg, newly, image,
                   leaky>>

Next ==
    \/ \E m \in Mems : Create(m) \/ Release(m) \/ \E d \in Devices : Bind(m, d)
    \/ \E c \in Commands :
         \/ Enqueue(c) \/ UseReservation(c) \/ Reserve(c)
         \/ RefuseKernel(c) \/ RefuseMigration(c) \/ GiveBack(c)
         \/ Terminate(c) \/ MigrateInPlace(c) \/ MigrateAndMove(c)
         \/ Launch(c) \/ Finish(c)

Spec == Init /\ [][Next]_vars

----------------------------------------------------------------------------
(* The list of blocks is in the order of the addresses and no two blocks   *)
(* overlap; each lies in the usable memory of its device.  First fit       *)
(* relies on the order (acl_mem.cpp:4654, "stored in allocated-address     *)
(* order").                                                                *)
BlocksDisjoint ==
    /\ \A i, j \in 1..Len(region) : i < j => region[i].next <= region[j].begin
    /\ \A i \in 1..Len(region) :
         /\ region[i].next = region[i].begin + Size[region[i].mem]
         /\ Memory[region[i].dev].usable <= region[i].begin
         /\ region[i].next <= Memory[region[i].dev].next

(* The buffers of c that it has been promised and that have not yet been   *)
(* brought there, by their number in its list.                             *)
Promised(c) ==
    CASE status[c] = "reserving" -> 1..arg[c] - 1
      [] status[c] = "undoing"   -> arg[c]..Len(image[c])
      [] status[c] = "queued"    -> arg[c]..NumMems(c)
      [] OTHER                   -> {}

(* The address in the image of a kernel stays good: as long as a command   *)
(* has not brought a buffer to its device, the block it was promised there *)
(* when it was enqueued is reserved for that buffer and in the list,       *)
(* wherever the buffer is taken in the meantime and whatever other         *)
(* commands are refused or terminated.                                     *)
PromiseKept ==
    \A c \in Commands : \A i \in Promised(c) :
        /\ reserved[Command[c].mems[i]][Device(c)] = image[c][i]
        /\ image[c][i] \in ToSet(region)

(* Once their commands are finished, buffers take the memory of one block  *)
(* each and released buffers none: a block in the list is where its buffer *)
(* is, or some command was promised it and has not yet used it.  Buffers   *)
(* of commands that were refused or terminated are excepted.               *)
NoBlockLost ==
    \A b \in ToSet(region) : b.mem \notin leaky =>
        /\ b.mem \in live /\ reserved[b.mem][b.dev] = b
        /\ \/ block[b.mem] = b
           \/ \E c \in Commands : \E i \in Promised(c) : image[c][i] = b

(* The assertions of acl_reserve_buffer_block and acl_mem_migrate_buffer   *)
(* (acl_mem.cpp:4758-4760, 5782): a block is reserved only where nobody    *)
(* counts on one, and a buffer is brought only to a block that is reserved.*)
AssertionsHold ==
    \A c \in Commands :
        /\ status[c] = "reserving" /\ reserved[MemOf(c)][Device(c)] = NoBlock
             => count[MemOf(c)][Device(c)] = 0
        /\ status[c] = "queued" /\ arg[c] <= NumMems(c)
             => reserved[MemOf(c)][Device(c)] # NoBlock

(* What first fit should find: the lowest address from the preferred bank  *)
(* on at which m overlaps no block, or the lowest of the device when there *)
(* is none; it gives up only when there is no room at all.                 *)
FreeFrom(m, d, first) ==
    {a \in first..Memory[d].next - Size[m] :
        \A i \in 1..Len(region) :
            region[i].next <= a \/ a + Size[m] <= region[i].begin}
Lowest(S) == {a \in S : \A x \in S : a <= x}
FirstFitFindsRoom ==
    \A m \in Mems, d \in Devices :
        LET preferred == FreeFrom(m, d, FirstTry(m, d))
            free == IF preferred # {} THEN preferred
                    ELSE FreeFrom(m, d, Memory[d].usable)
        IN {g[2] : g \in FirstGap(m, d)} = Lowest(free)
=============================================================================
