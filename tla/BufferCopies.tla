---------------------------- MODULE BufferCopies ----------------------------
(***************************************************************************)
(* Where the contents of a buffer are (src/acl_mem.cpp): on the host, in   *)
(* the block of the buffer on a device, or, when it has sub-buffers, in a  *)
(* block of one of them, for every sub-buffer has a block of its own.      *)
(*                                                                         *)
(* One bit of each object, writable_copy_on_host, says where its contents  *)
(* are.  Before an object is used, the objects it overlaps are brought to  *)
(* the host if theirs are on a device ("auto mapped"), and an auto mapped  *)
(* object is copied back to its block before it is used there.  A buffer   *)
(* may also be mapped by the user, moved to another device, or saved and   *)
(* restored when its device is programmed.                                 *)
(*                                                                         *)
(* The model is of one buffer in device global memory with its host        *)
(* backing store, which its sub-buffers share.  Commands are those of a    *)
(* program that orders the ones that touch the same cells, so each is one  *)
(* step when it executes; programming a device takes many.  Enqueueing a   *)
(* command is a step of its own where it changes something (Bind).  What   *)
(* else a program does or does not do is in Programs.                      *)
(***************************************************************************)
EXTENDS Integers, Sequences, SequencesExt

CONSTANTS
    Buffers, Parent,   \* the buffer and its sub-buffers, and which it is
    ReadOnly,          \* sub-buffers created with CL_MEM_READ_ONLY
    Cells, Cover,      \* the cells of each object
    Values,
    Undefined,         \* what memory holds before it is written, or when lost
    Devices, NoDevice,
    KernelArgs,        \* the lists of objects that kernels have as arguments
    Programs           \* see ProgramType

(* Which sub-buffers a program makes, which devices it uses, and what it   *)
(* does beside the plain use of the objects:                               *)
(*   map             map and unmap objects                                 *)
(*   host_ptr        create the buffer with CL_MEM_COPY_HOST_PTR           *)
(*   enqueue_first   and enqueue a read, write, copy or map of it before   *)
(*                   a kernel that uses it has run                         *)
(*   part            map, read and write parts of an object                *)
(*   invalidate      map with CL_MAP_WRITE_INVALIDATE_REGION               *)
(*   read_mapped     read what is mapped for reading                       *)
(*   release         release a sub-buffer that a kernel or a write has     *)
(*                   used since the rest of the buffer was                 *)
Habits == {"map", "host_ptr", "enqueue_first", "part", "invalidate",
           "read_mapped", "release"}
ProgramType ==
    [subs : SUBSET (Buffers \ {Parent}), on : SUBSET Devices,
     does : SUBSET Habits]

ASSUME BuffersAssumption ==
    /\ Parent \in Buffers /\ ReadOnly \subseteq Buffers \ {Parent}
    /\ Cover \in [Buffers -> (SUBSET Cells) \ {{}}] /\ Cover[Parent] = Cells
    /\ NoDevice \notin Devices
ASSUME ArgsAssumption == KernelArgs \subseteq Seq(Buffers)
ASSUME ProgramsAssumption == Programs \subseteq ProgramType

VARIABLES
    mem,      \* the objects and their copies, see MemType
    subs,     \* the list next_sub of the buffer, the newest first
    maps,     \* the mappings of each object the user holds
    prog,     \* a device being programmed
    program,  \* what the program does
    last      \* what the last access read and wrote, as in BufferMemory

vars == <<mem, subs, maps, prog, program, last>>

Known == Values \cup {Undefined}
MapKinds == {"read", "write", "invalidate"}

(* host is the backing store, dev the contents of the block an object is   *)
(* in; a block it has left counts as lost.  count is mapping_count, a      *)
(* cl_uint of which only zero matters: -1 stands for 2^32-1.               *)
MemType ==
    [host : [Cells -> Known], dev : [Buffers -> [Cells -> Known]],
     place : [Buffers -> Devices \cup {NoDevice}],  \* NoDevice: deferred
     onHost : [Buffers -> BOOLEAN],                 \* writable_copy_on_host
     auto : [Buffers -> BOOLEAN],                   \* auto_mapped
     pending : BOOLEAN,       \* mem_cpy_host_ptr_pending of the buffer
     count : [Buffers -> Int]]

(* The shape of the state; prog.todo are the objects still to save or to    *)
(* restore.                                                                *)
TypeOK ==
    /\ mem \in MemType
    /\ subs \in Seq(Buffers \ {Parent})
    /\ maps \in [Buffers -> SUBSET (MapKinds \X SUBSET Cells)]
    /\ prog \in [stage : {"none", "save", "restore"},
                 device : Devices \cup {NoDevice}, todo : SUBSET Buffers]
    /\ program \in Programs
    /\ last \in [read : SUBSET (Cells \X Known),
                 wrote : SUBSET (Cells \X Known)]

Does(habit) == habit \in program.does
Exists(b) == b = Parent \/ b \in ToSet(subs)
Overlap(a, b) == Cover[a] \cap Cover[b] # {}
IsSubOrParent(b) == b # Parent \/ subs # <<>>   \* acl_is_sub_or_parent_buffer
Idle == prog.stage = "none"

Nothing == [c \in Cells |-> Undefined]
NoAccess == [read |-> {}, wrote |-> {}]

(* m after Op was done to each element of s in turn. *)
ForEach(Op(_, _), m, s) ==
    LET after[i \in 0..Len(s)] == IF i = 0 THEN m ELSE Op(after[i - 1], s[i])
    IN after[Len(s)]

(* f with the cells C of g. *)
Paste(f, C, g) == [c \in Cells |-> IF c \in C THEN g[c] ELSE f[c]]

Init ==
    /\ program \in Programs
    /\ \E v \in Values :
         mem = [host |-> IF Does("host_ptr") THEN [c \in Cells |-> v]
                         ELSE Nothing,
                dev |-> [b \in Buffers |-> Nothing],
                place |-> [b \in Buffers |-> NoDevice],
                onHost |-> [b \in Buffers |-> b = Parent /\ Does("host_ptr")],
                auto |-> [b \in Buffers |-> FALSE],
                pending |-> Does("host_ptr"),
                count |-> [b \in Buffers |-> 0]]
    /\ subs = <<>>
    /\ maps = [b \in Buffers |-> {}]
    /\ prog = [stage |-> "none", device |-> NoDevice, todo |-> {}]
    /\ last = NoAccess

----------------------------------------------------------------------------
(* l_mem_transfer_buffer_explicitly, by the type of the command; m is the  *)
(* record mem before it.                                                   *)

(* sync_subbuffers of b: the objects that overlap it and whose contents    *)
(* are on a device are mapped.  The buffer itself comes first.             *)
MapsOther(m, b, o) ==
    Overlap(o, b) /\ ~m.onHost[o] /\ o \notin ReadOnly
ContentsOnly(m, b, o) ==   \* a slip: forgets to say where they are now
    IF MapsOther(m, b, o) THEN [m EXCEPT !.host = Paste(@, Cover[o], m.dev[o])] ELSE m
SyncOne(m, b, o) ==
    IF MapsOther(m, b, o)
    THEN [m EXCEPT !.host = Paste(@, Cover[o], m.dev[o]),
                   !.onHost[o] = TRUE, !.auto[o] = TRUE]
    ELSE m
Descendants(b) == subs   \* a slip: not the buffer itself
Others(b) == (IF b = Parent THEN <<>> ELSE <<Parent>>) \o subs
Synced(m, b) ==
    IF IsSubOrParent(b)
    THEN ForEach(LAMBDA n, o : SyncOne(n, b, o), m, Others(b)) ELSE m

(* CL_COMMAND_UNMAP_MEM_OBJECT: the host copy goes to the block if it is   *)
(* the writable one; the mapping is counted unless the runtime made it.    *)
Unmapped(m, b, automatic) ==
    LET s == IF m.onHost[b] /\ m.auto[b] THEN Synced(m, b) ELSE m
        n == IF automatic THEN s.count[b] ELSE s.count[b] - 1
    IN [s EXCEPT !.dev[b] = IF m.onHost[b] THEN Paste(@, Cover[b], s.host)
                            ELSE @,
                 !.auto[b] = FALSE,
                 !.count[b] = n,
                 !.onHost[b] = IF n = 0 THEN FALSE ELSE @]

(* b as the source of a transfer: a sub-buffer that can only be read is    *)
(* always taken from the host.                                             *)
AsSource(m, b) ==
    IF m.onHost[b] THEN Synced(m, b)
    ELSE IF b \in ReadOnly THEN [Synced(m, b) EXCEPT !.onHost[b] = TRUE]
    ELSE m
Source(m, b) == IF m.onHost[b] THEN m.host ELSE m.dev[b]

(* ... and as its destination, where the cells C get those of g.           *)
AsDestination(m, b) ==
    IF m.auto[b] THEN Unmapped(Synced(m, b), b, TRUE) ELSE m
Stored(m, b, C, g) ==
    IF m.onHost[b] THEN [m EXCEPT !.host = Paste(@, C, g)]
    ELSE [m EXCEPT !.dev[b] = Paste(@, C, g)]

(* CL_COMMAND_MAP_BUFFER: the whole object goes to the host, unless the    *)
(* mapping invalidates.                                                    *)
Mapped(m, b, k) ==
    LET s == AsSource(m, b)
        t == IF k = "invalidate" THEN m
             ELSE [s EXCEPT !.host = Paste(@, Cover[b], Source(s, b))]
    IN [t EXCEPT !.count[b] = @ + 1,
                 !.onHost[b] = IF k = "read" THEN @ ELSE TRUE]

(* acl_bind_buffer_to_device: the first transfer of an object is enqueued. *)
(* With CL_MEM_COPY_HOST_PTR its contents go to the block by an unmap      *)
(* command, which is not an automatic one and is waited for.               *)
Bound(m, b, d) ==
    IF m.place[b] # NoDevice THEN m
    ELSE LET n == [m EXCEPT !.place[b] = d] IN
           IF IsSubOrParent(b)
           THEN [n EXCEPT !.auto[b] = TRUE, !.onHost[b] = TRUE]
           ELSE IF Does("host_ptr") /\ n.onHost[b]
           THEN [Unmapped(n, b, FALSE) EXCEPT !.pending = FALSE]
           ELSE n

(* acl_mem_migrate_buffer *)
Migrated(m, b, d) ==
    LET n == IF m.place[b] = NoDevice THEN [m EXCEPT !.place[b] = d] ELSE m
        s == IF n.auto[b] THEN Unmapped(n, b, TRUE) ELSE n
    IN IF s.place[b] # d
       THEN [s EXCEPT !.place[b] = d,
                      !.dev[b] = IF s.onHost[b] THEN Paste(@, Cover[b], s.host)
                                 ELSE @]
       ELSE IF b = Parent /\ s.pending
       THEN [s EXCEPT !.dev[b] = Paste(@, Cover[b], s.host),
                      !.pending = FALSE, !.onHost[b] = FALSE]
       ELSE s

----------------------------------------------------------------------------
(* What the program must not do (OpenCL 1.2, 5.4.3).                       *)

MappedCells(kinds) ==
    UNION {x[2] : x \in {y \in UNION {maps[b] : b \in Buffers} : y[1] \in kinds}}
MayRead(C) ==
    C \cap MappedCells(IF Does("read_mapped") THEN {"write", "invalidate"}
                       ELSE MapKinds) = {}
MayWrite(C) == C \cap MappedCells(MapKinds) = {}

MayMap(b, k, R) ==
    \A a \in Buffers : \A x \in maps[a] : x[2] \cap R # {} =>
        k = "read" /\ x[1] = "read" /\ (a = b \/ Does("read_mapped"))

Regions(b) == IF Does("part") THEN (SUBSET Cover[b]) \ {{}} ELSE {Cover[b]}

(* A transfer of b was enqueued and may execute. *)
MayTransfer(b) == Idle /\ Exists(b) /\ mem.place[b] # NoDevice

----------------------------------------------------------------------------
(* Operations: each says what it reads and writes.                         *)

Pairs(C, g) == {<<c, g[c]>> : c \in C}
Reads(C, g) == [NoAccess EXCEPT !.read = Pairs(C, g)]
Writes(C, g) == [NoAccess EXCEPT !.wrote = Pairs(C, g)]
Fill(v) == [c \in Cells |-> v]

(* clCreateSubBuffer: a sub-buffer starts on the host. *)
CreateSub(s) ==
    /\ Idle /\ s \in program.subs /\ ~Exists(s)
    /\ subs' = <<s>> \o subs
    /\ mem' = [mem EXCEPT !.dev[s] = Nothing, !.place[s] = NoDevice,
                          !.onHost[s] = TRUE, !.auto[s] = TRUE, !.count[s] = 0]
    /\ last' = NoAccess
    /\ UNCHANGED <<maps, prog, program>>

(* clReleaseMemObject: the block goes, with what it holds. *)
ReleaseSub(s) ==
    /\ Idle /\ maps[s] = {}
    /\ mem.onHost[s] \/ Does("release")
    /\ \E i \in 1..Len(subs) : subs[i] = s /\ subs' = RemoveAt(subs, i)
    /\ last' = NoAccess
    /\ UNCHANGED <<mem, maps, prog, program>>

(* A read, write, copy or map of b is enqueued on a queue of d, while the  *)
(* commands enqueued before may still have to execute.                     *)
Bind(b, d) ==
    /\ Idle /\ Exists(b)
    /\ b = Parent /\ mem.pending => Does("enqueue_first")
    /\ mem' = Bound(mem, b, d)
    /\ last' = NoAccess
    /\ UNCHANGED <<subs, maps, prog, program>>

ReadBuffer(b, R) ==
    LET n == AsSource(mem, b) IN
    /\ MayTransfer(b) /\ MayRead(R)
    /\ mem' = n
    /\ last' = Reads(R, Source(n, b))
    /\ UNCHANGED <<subs, maps, prog, program>>

WriteBuffer(b, R, v) ==
    /\ MayTransfer(b) /\ MayWrite(R)
    /\ mem' = Stored(AsDestination(mem, b), b, R, Fill(v))
    /\ last' = Writes(R, Fill(v))
    /\ UNCHANGED <<subs, maps, prog, program>>

(* Cell x of a goes to cell y of b. *)
CopyBuffer(a, x, b, y) ==
    LET m == AsSource(mem, a)
        n == AsDestination(m, b)
        v == (IF m.onHost[a] THEN n.host ELSE n.dev[a])[x]
    IN /\ MayTransfer(a) /\ MayTransfer(b) /\ x # y
       /\ {x} \in Regions(a) /\ {y} \in Regions(b)
       /\ MayRead({x}) /\ MayWrite({y})
       /\ mem' = Stored(n, b, {y}, Fill(v))
       /\ last' = [read |-> {<<x, v>>}, wrote |-> {<<y, v>>}]
       /\ UNCHANGED <<subs, maps, prog, program>>

MapBuffer(b, k, R) ==
    LET n == Mapped(mem, b, k) IN
    /\ Does("map") /\ MayTransfer(b) /\ <<k, R>> \notin maps[b]
    /\ k = "invalidate" => Does("invalidate")
    /\ MayMap(b, k, R)
    /\ mem' = n
    /\ maps' = [maps EXCEPT ![b] = @ \cup {<<k, R>>}]
    /\ last' = IF k = "invalidate" THEN Writes(R, n.host) ELSE NoAccess
    /\ UNCHANGED <<subs, prog, program>>

UnmapBuffer(b, x) ==
    /\ Idle
    /\ mem' = Unmapped(mem, b, FALSE)
    /\ maps' = [maps EXCEPT ![b] = @ \ {x}]
    /\ last' = NoAccess
    /\ UNCHANGED <<subs, prog, program>>

(* The host uses the pointer of a mapping. *)
Load(x) ==
    /\ last' = Reads(x[2], mem.host)
    /\ UNCHANGED <<mem, subs, maps, prog, program>>

Store(x, v) ==
    /\ x[1] # "read"
    /\ mem' = [mem EXCEPT !.host = Paste(@, x[2], Fill(v))]
    /\ last' = Writes(x[2], Fill(v))
    /\ UNCHANGED <<subs, maps, prog, program>>

(* A kernel with these arguments runs on d; it writes v in the objects W.  *)
(* Submitting it says that a buffer with CL_MEM_COPY_HOST_PTR is on the    *)
(* device, its migrations then see to that.                                *)
Submitted(m, args) ==
    IF Does("host_ptr") /\ ~IsSubOrParent(Parent) /\ Parent \in ToSet(args)
    THEN [m EXCEPT !.onHost[Parent] = FALSE] ELSE m
KernelMem(args, d) ==
    ForEach(LAMBDA m, b : Migrated(m, b, d), Submitted(mem, args), args)

CellsOf(B) == UNION {Cover[b] : b \in B}
MayRun(args, W) ==
    /\ Idle
    /\ \A b \in ToSet(args) : Exists(b)
    /\ W \subseteq ToSet(args) \ ReadOnly
    /\ W # {} => \A a, b \in ToSet(args) : a # b => ~Overlap(a, b)
    /\ MayRead(CellsOf(ToSet(args))) /\ MayWrite(CellsOf(W))

Kernel(args, W, v, d) ==
    LET n == KernelMem(args, d) IN
    /\ MayRun(args, W)
    /\ mem' = [n EXCEPT !.dev =
                 [b \in Buffers |-> IF b \in W THEN Paste(@[b], Cover[b], Fill(v))
                                    ELSE @[b]]]
    /\ last' = [read  |-> UNION {Pairs(Cover[b], n.dev[b]) : b \in ToSet(args)},
                wrote |-> Pairs(CellsOf(W), Fill(v))]
    /\ UNCHANGED <<subs, maps, prog, program>>

(* clEnqueueMigrateMemObjects *)
MigrateCommand(b, d) ==
    /\ Idle /\ Exists(b) /\ MayRead(Cover[b])
    /\ mem' = Migrated(mem, b, d)
    /\ last' = NoAccess
    /\ UNCHANGED <<subs, maps, prog, program>>

----------------------------------------------------------------------------
(* Device d is programmed and loses what its memory holds: every object    *)
(* with contents there is read to the host before and written back after.  *)
(* Other commands wait; the host may use its mappings meanwhile.           *)

On(d) == {b \in Buffers : Exists(b) /\ mem.place[b] = d}
Preserved(b) == ~(b = Parent /\ mem.pending) /\ ~mem.onHost[b]

StartReprogram(d) ==
    /\ Idle
    /\ prog' = [stage |-> "save", device |-> d, todo |-> On(d)]
    /\ last' = NoAccess
    /\ UNCHANGED <<mem, subs, maps, program>>

(* acl_copy_device_buffers_to_host_before_programming, one object *)
SaveBuffer(b) ==
    LET n == AsSource(mem, b) IN
    /\ prog.stage = "save" /\ b \in prog.todo
    /\ prog' = [prog EXCEPT !.todo = @ \ {b}]
    /\ mem' = IF Preserved(b)
              THEN [n EXCEPT !.host = Paste(@, Cover[b], Source(n, b))]
              ELSE mem
    /\ last' = NoAccess
    /\ UNCHANGED <<subs, maps, program>>

ProgramDevice ==
    /\ prog.stage = "save" /\ prog.todo = {}
    /\ prog' = [prog EXCEPT !.stage = "restore", !.todo = On(prog.device)]
    /\ mem' = [mem EXCEPT !.dev = [b \in Buffers |->
                 IF b \in On(prog.device) THEN Nothing ELSE @[b]]]
    /\ last' = NoAccess
    /\ UNCHANGED <<subs, maps, program>>

(* acl_copy_device_buffers_from_host_after_programming, one object *)
RestoreBuffer(b) ==
    /\ prog.stage = "restore" /\ b \in prog.todo
    /\ prog' = [prog EXCEPT !.todo = @ \ {b}]
    /\ mem' = IF Preserved(b)
              THEN Stored(AsDestination(mem, b), b, Cover[b], mem.host)
              ELSE mem
    /\ last' = NoAccess
    /\ UNCHANGED <<subs, maps, program>>

EndReprogram ==
    /\ prog.stage = "restore" /\ prog.todo = {}
    /\ prog' = [stage |-> "none", device |-> NoDevice, todo |-> {}]
    /\ last' = NoAccess
    /\ UNCHANGED <<mem, subs, maps, program>>

----------------------------------------------------------------------------
Transfer ==
    \E b \in Buffers : \E R \in Regions(b) :
        \/ ReadBuffer(b, R)
        \/ \E v \in Values : WriteBuffer(b, R, v)
        \/ \E k \in MapKinds : MapBuffer(b, k, R)

Copy ==
    \E a, b \in Buffers :
        \E x \in Cover[a], y \in Cover[b] : CopyBuffer(a, x, b, y)

UseMapping ==
    \E b \in Buffers : \E x \in maps[b] :
        \/ UnmapBuffer(b, x)
        \/ Load(x)
        \/ \E v \in Values : Store(x, v)

RunKernel ==
    \E args \in KernelArgs, v \in Values, d \in program.on :
        \E W \in SUBSET ToSet(args) : Kernel(args, W, v, d)

Reprogram ==
    \/ \E d \in program.on : StartReprogram(d)
    \/ \E b \in Buffers : SaveBuffer(b) \/ RestoreBuffer(b)
    \/ ProgramDevice
    \/ EndReprogram

Next ==
    \/ \E s \in Buffers : CreateSub(s) \/ ReleaseSub(s)
    \/ \E b \in Buffers, d \in program.on : Bind(b, d)
    \/ Transfer
    \/ Copy
    \/ UseMapping
    \/ RunKernel
    \/ \E b \in Buffers, d \in program.on : MigrateCommand(b, d)
    \/ Reprogram

Spec == Init /\ [][Next]_vars

----------------------------------------------------------------------------
(* Properties *)

OnDevice(b) ==
    Exists(b) /\ b \notin ReadOnly /\ mem.place[b] # NoDevice /\ ~mem.onHost[b]

(* Two objects that share cells never both have their writable contents on *)
(* a device, whatever order sub-buffers are made, used, mapped, moved and  *)
(* released in ("there can only be one active writable copy on any device  *)
(* at a time", acl_mem.cpp:6282).                                          *)
OneLiveCopy ==
    \A a, b \in Buffers :
        (a # b /\ Overlap(a, b)) => ~(OnDevice(a) /\ OnDevice(b))

(* The value of cell c: in a block, unless that one was just wiped and is  *)
(* not yet written back, or on the host.                                   *)
Owners(c) ==
    {b \in Buffers : OnDevice(b) /\ c \in Cover[b]
        /\ ~(prog.stage = "restore" /\ b \in prog.todo)}
Live(c) ==
    IF Owners(c) = {} THEN mem.host[c]
    ELSE mem.dev[CHOOSE b \in Owners(c) : TRUE][c]

Memory == INSTANCE BufferMemory WITH contents <- [c \in Cells |-> Live(c)]

(* All the copies together behave like one memory: what a kernel, a        *)
(* transfer or the host through a mapping reads is what was last written,  *)
(* and no map, unmap, migration, synchronisation of sub-buffers or         *)
(* programming of a device changes it.                                     *)
RefinesMemory == Memory!Spec
=============================================================================
