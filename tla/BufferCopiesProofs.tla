------------------------- MODULE BufferCopiesProofs -------------------------
(***************************************************************************)
(* What holds of BufferCopies for every buffer and its sub-buffers, every  *)
(* set of cells they cover, of devices and of kernels: its types; and, as  *)
(* far as programs keep to the habits named here, that no two objects that *)
(* overlap have their contents on a device, and that all the copies        *)
(* together behave as BufferMemory says.                                   *)
(***************************************************************************)
EXTENDS BufferCopies, SequenceLemmas, FiniteSetTheorems, TLAPS

(* Programs whose sub-buffers never have two live copies: a buffer with    *)
(* sub-buffers has no host pointer, is not read where it is mapped, and is *)
(* mapped as a whole.                                                      *)
Undivided(p) ==
    p.subs # {} => /\ {"host_ptr", "read_mapped"} \cap p.does = {}
                   /\ ~({"map", "part"} \subseteq p.does)

(* Programs for which the copies also agree.                               *)
Orderly(p) ==
    /\ Undivided(p)
    /\ p.subs # {} => /\ p.subs \cap ReadOnly = {}
                      /\ {"invalidate", "release"} \cap p.does = {}
    /\ ~({"host_ptr", "enqueue_first"} \subseteq p.does)
    /\ ~({"invalidate", "part"} \subseteq p.does)
    /\ ~({"read_mapped", "part"} \subseteq p.does)

(* The mappings are counted right.                                         *)
Regular(p) ==
    Undivided(p) /\ ~({"host_ptr", "enqueue_first"} \subseteq p.does)

Objects == {b \in Buffers : Exists(b)}

----------------------------------------------------------------------------
(* The invariant, of the objects S, the record m, the mappings M and the   *)
(* program p.                                                              *)

(* The contents of b are on a device, or not written anywhere yet.         *)
Away(m, b) == ~m.onHost[b] /\ ~(b = Parent /\ m.pending)

MapsSound(S, M, p) ==
    /\ \A b \in Buffers : IsFiniteSet(M[b])
    /\ \A b \in Buffers : \A x \in M[b] :
          /\ b \in S /\ "map" \in p.does
          /\ x[2] # {} /\ x[2] \subseteq Cover[b]
          /\ "part" \notin p.does => x[2] = Cover[b]
    /\ \A a, b \in Buffers : (a # b /\ Overlap(a, b)) => (M[a] = {} \/ M[b] = {})

(* Where the objects are: one that the runtime brought to the host is      *)
(* there; one is on the host only if the runtime brought it or the user    *)
(* mapped it; and of two that overlap one is on the host, both if the user *)
(* mapped one that the runtime did not bring.                              *)
Counted(S, m, M) == \A b \in S : m.count[b] = Cardinality(M[b])
AutoOnHost(S, m, p) == \A b \in S : m.auto[b] => m.onHost[b] /\ p.subs # {}
WhyOnHost(S, m, M) ==
    \A b \in S \ ReadOnly : m.onHost[b] =>
       M[b] # {} \/ m.auto[b] \/ (b = Parent /\ m.pending)
MappedPlaced(S, m, M) == \A b \in S : M[b] # {} => m.place[b] # NoDevice
PendingUnused(m, M, p) ==
    m.pending => /\ m.place[Parent] = NoDevice /\ M[Parent] = {}
                 /\ "host_ptr" \in p.does
OneAway(S, m, M) ==
    \A a, b \in S \ ReadOnly : (a # b /\ Overlap(a, b)) =>
       /\ m.onHost[a] \/ m.onHost[b]
       /\ (M[b] # {} /\ ~m.auto[b]) => m.onHost[a]

Sound(S, m, M, p) ==
    /\ Counted(S, m, M)
    /\ AutoOnHost(S, m, p)
    /\ WhyOnHost(S, m, M)
    /\ MappedPlaced(S, m, M)
    /\ PendingUnused(m, M, p)
    /\ OneAway(S, m, M)

(* What they hold is f, except on the devices where W are to be restored.  *)
Agree(S, m, M, W, f) ==
    /\ \A b \in S : Away(m, b) =>
          /\ b \notin W => \A c \in Cover[b] : m.dev[b][c] = f[c]
          /\ m.place[b] = NoDevice => \A c \in Cover[b] : m.host[c] = f[c]
    /\ \A c \in Cells :
          (\A b \in S : Away(m, b) /\ c \in Cover[b] => b \in W)
            => m.host[c] = f[c]
    /\ \A b \in S : \A x \in M[b] : \A c \in x[2] : m.host[c] = f[c]

(* In orderly programs a mapped object is alone on the host, and one that  *)
(* is read while mapped is on the host for one mapping only.               *)
MapsAlone(S, m, M, p) ==
    /\ \A a, b \in S : (a # b /\ Overlap(a, b) /\ M[b] # {}) => m.onHost[a]
    /\ \A b \in S : \A x \in M[b] : x[1] # "read" => m.onHost[b]
    /\ ("read_mapped" \in p.does /\ m.onHost[Parent] /\ M[Parent] # {})
          => \E x \in M[Parent] : M[Parent] = {x} /\ x[1] # "read"

Structure ==
    /\ ToSet(subs) \subseteq program.subs
    /\ prog.todo \subseteq Objects
    /\ prog.stage = "none" => prog.todo = {}
    /\ Regular(program) => /\ MapsSound(Objects, maps, program)
                           /\ Sound(Objects, mem, maps, program)

(* While the device of q is programmed: what is saved already, or is to be *)
(* restored, is on the host.                                               *)
Wiped(q) == IF q.stage = "restore" THEN q.todo ELSE {}
Saved(S, m, q, f) ==
    /\ q.stage # "none" => q.device \in Devices
    /\ \A b \in S :
          /\ Away(m, b)
          /\ \/ q.stage = "save" /\ m.place[b] = q.device /\ b \notin q.todo
             \/ b \in Wiped(q)
          => \A c \in Cover[b] : m.host[c] = f[c]

Coherence(S, m, M, q, p, f) ==
    /\ Agree(S, m, M, Wiped(q), f)
    /\ MapsAlone(S, m, M, p)
    /\ Saved(S, m, q, f)

Contents == [c \in Cells |-> Live(c)]
Coherent ==
    Orderly(program) => Coherence(Objects, mem, maps, prog, program, Contents)

----------------------------------------------------------------------------
(* Types. *)

LEMMA SyncOneType ==
    ASSUME NEW m \in MemType, NEW b \in Buffers, NEW o \in Buffers
    PROVE  SyncOne(m, b, o) \in MemType
<1>1. Paste(m.host, Cover[o], m.dev[o]) \in [Cells -> Known]
  BY DEF MemType, Paste
<1>2. QED
  BY <1>1 DEF SyncOne, MemType

(* The objects of s are brought to the host one after the other, as Synced *)
(* does with Others(b).                                                    *)
SyncAll(m, b, s) == ForEach(LAMBDA n, o : SyncOne(n, b, o), m, s)

LEMMA SyncedIs ==
    ASSUME NEW m, NEW b
    PROVE  Synced(m, b) = IF IsSubOrParent(b) THEN SyncAll(m, b, Others(b))
                          ELSE m
  BY Zenon DEF Synced, SyncAll, ForEach

LEMMA SyncSteps ==
    ASSUME NEW m \in MemType, NEW b \in Buffers, NEW s \in Seq(Buffers)
    PROVE  \E g \in [0..Len(s) -> MemType] :
              /\ g[0] = m
              /\ \A i \in 1..Len(s) : g[i] = SyncOne(g[i - 1], b, s[i])
              /\ SyncAll(m, b, s) = g[Len(s)]
<1> DEFINE N == Len(s)
           f == [x \in (1..N) \X MemType |-> SyncOne(x[2], b, s[x[1]])]
<1>1. N \in Nat /\ \A i \in 1..N : s[i] \in Buffers
  OBVIOUS
<1>2. f \in [(1..N) \X MemType -> MemType]
  BY <1>1, SyncOneType
<1>3. PICK g : IsRun(g, MemType, m, N, f)
  <2> HIDE DEF f, N
  <2> QED
    BY <1>1, <1>2, RecursionExists
<1>4. g \in [0..N -> MemType] /\ g[0] = m
  BY <1>3 DEF IsRun
<1>5. ASSUME NEW i \in 1..N PROVE g[i] = SyncOne(g[i - 1], b, s[i])
  <2>1. i - 1 \in 0..N
    BY <1>1
  <2>2. <<i, g[i - 1]>> \in (1..N) \X MemType
    BY <2>1, <1>4
  <2>3. g[i] = f[<<i, g[i - 1]>>]
    BY <1>3 DEF IsRun
  <2>4. QED
    BY <2>2, <2>3
<1> DEFINE Def(h) == h = [i \in 0..N |-> IF i = 0 THEN m
                                         ELSE SyncOne(h[i - 1], b, s[i])]
           after == CHOOSE h : Def(h)
<1>6. Def(g)
  BY <1>1, <1>4, <1>5
<1>7. Def(after)
  <2> HIDE DEF Def
  <2> QED
    BY <1>6
<1>8. SyncAll(m, b, s) = after[N]
  BY DEF SyncAll, ForEach
<1> HIDE DEF after
<1> DEFINE Bad == {i \in 0..N : after[i] # g[i]}
<1>9. Bad = {}
  <2> SUFFICES ASSUME Bad # {} PROVE FALSE
    OBVIOUS
  <2>1. PICK i \in Bad : \A j \in Bad : ~(j < i)
    <3>1. Bad \subseteq Nat
      OBVIOUS
    <3> HIDE DEF Bad
    <3> QED
      BY <3>1, LeastNatural
  <2>2. CASE i = 0
    BY <2>2, <1>7, <1>4, <1>1
  <2>3. CASE i # 0
    <3>1. i \in 1..N /\ i - 1 \in 0..N /\ i - 1 < i
      BY <2>3, <1>1
    <3>2. after[i - 1] = g[i - 1]
      <4>1. i - 1 \notin Bad
        <5> HIDE DEF Bad
        <5> QED
          BY <2>1, <3>1
      <4>2. QED
        BY <4>1, <3>1
    <3>3. after[i] = SyncOne(after[i - 1], b, s[i])
      BY <1>7, <3>1
    <3>4. QED
      BY <3>1, <3>2, <3>3, <1>5
  <2>4. QED
    BY <2>2, <2>3
<1>10. after[N] = g[N]
  BY <1>9, <1>1
<1>11. QED
  BY <1>4, <1>5, <1>8, <1>10

SubsType == subs \in Seq(Buffers \ {Parent})

LEMMA OthersMembers ==
    ASSUME SubsType, NEW b \in Buffers
    PROVE  /\ Others(b) \in Seq(Buffers)
           /\ ToSet(Others(b)) =
                ToSet(subs) \cup (IF b = Parent THEN {} ELSE {Parent})
           /\ ToSet(subs) \subseteq Buffers \ {Parent}
<1>1. ToSet(subs) \subseteq Buffers \ {Parent}
  BY SetOf DEF SubsType
<1>2. /\ <<>> \in Seq(Buffers) /\ ToSet(<<>>) = {}
      /\ <<Parent>> \in Seq(Buffers) /\ ToSet(<<Parent>>) = {Parent}
  <2>1. ToSet(<<Parent>>) = {Parent} /\ ToSet(<<>>) = {}
    BY DEF ToSet
  <2>2. QED
    BY <2>1, BuffersAssumption
<1>3. subs \in Seq(Buffers)
  BY DEF SubsType
<1>4. ASSUME NEW t \in Seq(Buffers)
      PROVE  t \o subs \in Seq(Buffers)
             /\ ToSet(t \o subs) = ToSet(t) \cup ToSet(subs)
  BY <1>3, ConcatMembers
<1>5. QED
  BY <1>1, <1>2, <1>4 DEF Others

LEMMA PasteType ==
    ASSUME NEW f \in [Cells -> Known], NEW g \in [Cells -> Known], NEW C
    PROVE  /\ Paste(f, C, g) \in [Cells -> Known]
           /\ \A c \in Cells : Paste(f, C, g)[c] = IF c \in C THEN g[c] ELSE f[c]
  BY DEF Paste

LEMMA MemFields ==
    ASSUME NEW m \in MemType
    PROVE  /\ m.host \in [Cells -> Known]
           /\ m.dev \in [Buffers -> [Cells -> Known]]
           /\ \A b \in Buffers : m.dev[b] \in [Cells -> Known]
           /\ m.place \in [Buffers -> Devices \cup {NoDevice}]
           /\ m.onHost \in [Buffers -> BOOLEAN]
           /\ m.auto \in [Buffers -> BOOLEAN]
           /\ m.pending \in BOOLEAN
           /\ m.count \in [Buffers -> Int]
<1>1. m.dev \in [Buffers -> [Cells -> Known]]
  BY DEF MemType
<1>2. \A b \in Buffers : m.dev[b] \in [Cells -> Known]
  BY <1>1
<1>3. QED
  BY <1>1, <1>2 DEF MemType

(* A change of one field leaves the others as they are.                    *)
LEMMA SetHost ==
    ASSUME NEW m \in MemType, NEW x \in [Cells -> Known]
    PROVE  LET r == [m EXCEPT !.host = x] IN
           /\ r \in MemType
           /\ r.host = x
           /\ r.dev = m.dev /\ r.place = m.place /\ r.onHost = m.onHost
           /\ r.auto = m.auto /\ r.pending = m.pending /\ r.count = m.count
  BY DEF MemType

LEMMA SetDev ==
    ASSUME NEW m \in MemType, NEW b \in Buffers, NEW x \in [Cells -> Known]
    PROVE  LET r == [m EXCEPT !.dev[b] = x] IN
           /\ r \in MemType
           /\ r.dev = [m.dev EXCEPT ![b] = x]
           /\ r.host = m.host /\ r.place = m.place /\ r.onHost = m.onHost
           /\ r.auto = m.auto /\ r.pending = m.pending /\ r.count = m.count
  BY DEF MemType

LEMMA SetPlace ==
    ASSUME NEW m \in MemType, NEW b \in Buffers, NEW x \in Devices \cup {NoDevice}
    PROVE  LET r == [m EXCEPT !.place[b] = x] IN
           /\ r \in MemType
           /\ r.place = [m.place EXCEPT ![b] = x]
           /\ r.host = m.host /\ r.dev = m.dev /\ r.onHost = m.onHost
           /\ r.auto = m.auto /\ r.pending = m.pending /\ r.count = m.count
  BY DEF MemType

LEMMA SetOnHost ==
    ASSUME NEW m \in MemType, NEW b \in Buffers, NEW x \in BOOLEAN
    PROVE  LET r == [m EXCEPT !.onHost[b] = x] IN
           /\ r \in MemType
           /\ r.onHost = [m.onHost EXCEPT ![b] = x]
           /\ r.host = m.host /\ r.dev = m.dev /\ r.place = m.place
           /\ r.auto = m.auto /\ r.pending = m.pending /\ r.count = m.count
  BY DEF MemType

LEMMA SetAuto ==
    ASSUME NEW m \in MemType, NEW b \in Buffers, NEW x \in BOOLEAN
    PROVE  LET r == [m EXCEPT !.auto[b] = x] IN
           /\ r \in MemType
           /\ r.auto = [m.auto EXCEPT ![b] = x]
           /\ r.host = m.host /\ r.dev = m.dev /\ r.place = m.place
           /\ r.onHost = m.onHost /\ r.pending = m.pending /\ r.count = m.count
  BY DEF MemType

LEMMA SetPending ==
    ASSUME NEW m \in MemType, NEW x \in BOOLEAN
    PROVE  LET r == [m EXCEPT !.pending = x] IN
           /\ r \in MemType
           /\ r.pending = x
           /\ r.host = m.host /\ r.dev = m.dev /\ r.place = m.place
           /\ r.onHost = m.onHost /\ r.auto = m.auto /\ r.count = m.count
  BY DEF MemType

LEMMA SetCount ==
    ASSUME NEW m \in MemType, NEW b \in Buffers, NEW x \in Int
    PROVE  LET r == [m EXCEPT !.count[b] = x] IN
           /\ r \in MemType
           /\ r.count = [m.count EXCEPT ![b] = x]
           /\ r.host = m.host /\ r.dev = m.dev /\ r.place = m.place
           /\ r.onHost = m.onHost /\ r.auto = m.auto /\ r.pending = m.pending
  BY DEF MemType

LEMMA SetOnHostTrue ==
    ASSUME NEW m \in MemType, NEW b \in Buffers
    PROVE  LET r == [m EXCEPT !.onHost[b] = TRUE] IN
           /\ r \in MemType
           /\ r.onHost = [m.onHost EXCEPT ![b] = TRUE]
           /\ r.host = m.host /\ r.dev = m.dev /\ r.place = m.place
           /\ r.auto = m.auto /\ r.pending = m.pending /\ r.count = m.count
  BY DEF MemType

LEMMA SetOnHostFalse ==
    ASSUME NEW m \in MemType, NEW b \in Buffers
    PROVE  LET r == [m EXCEPT !.onHost[b] = FALSE] IN
           /\ r \in MemType
           /\ r.onHost = [m.onHost EXCEPT ![b] = FALSE]
           /\ r.host = m.host /\ r.dev = m.dev /\ r.place = m.place
           /\ r.auto = m.auto /\ r.pending = m.pending /\ r.count = m.count
  BY DEF MemType

LEMMA SetAutoTrue ==
    ASSUME NEW m \in MemType, NEW b \in Buffers
    PROVE  LET r == [m EXCEPT !.auto[b] = TRUE] IN
           /\ r \in MemType
           /\ r.auto = [m.auto EXCEPT ![b] = TRUE]
           /\ r.host = m.host /\ r.dev = m.dev /\ r.place = m.place
           /\ r.onHost = m.onHost /\ r.pending = m.pending /\ r.count = m.count
  BY DEF MemType

LEMMA SyncedType ==
    ASSUME SubsType, NEW m \in MemType, NEW b \in Buffers
    PROVE  Synced(m, b) \in MemType
<1>1. Others(b) \in Seq(Buffers) /\ Len(Others(b)) \in 0..Len(Others(b))
  BY OthersMembers
<1>2. SyncAll(m, b, Others(b)) \in MemType
  BY <1>1, SyncSteps
<1>3. QED
  BY <1>2, SyncedIs

(* Unmapped(m, b, automatic), where s is m with the objects b overlaps on  *)
(* the host.                                                               *)
BeforeUnmap(m, b) == IF m.onHost[b] /\ m.auto[b] THEN Synced(m, b) ELSE m
CountAfter(s, b, automatic) ==
    IF automatic THEN s.count[b] ELSE s.count[b] - 1

LEMMA UnmappedFields ==
    ASSUME SubsType, NEW m \in MemType, NEW b \in Buffers,
           NEW automatic \in BOOLEAN
    PROVE  LET s == BeforeUnmap(m, b)
               n == CountAfter(s, b, automatic)
               u == Unmapped(m, b, automatic)
           IN /\ s \in MemType /\ u \in MemType /\ n \in Int
              /\ u.host = s.host /\ u.place = s.place /\ u.pending = s.pending
              /\ u.dev = [s.dev EXCEPT ![b] =
                            IF m.onHost[b] THEN Paste(s.dev[b], Cover[b], s.host)
                            ELSE s.dev[b]]
              /\ u.auto = [s.auto EXCEPT ![b] = FALSE]
              /\ u.count = [s.count EXCEPT ![b] = n]
              /\ u.onHost = [s.onHost EXCEPT ![b] =
                               IF n = 0 THEN FALSE ELSE s.onHost[b]]
<1> DEFINE s == BeforeUnmap(m, b)
           n == CountAfter(s, b, automatic)
           D == IF m.onHost[b] THEN Paste(s.dev[b], Cover[b], s.host) ELSE s.dev[b]
           r == [s EXCEPT !.dev[b] = D]
           q == [r EXCEPT !.auto[b] = FALSE]
           p == [q EXCEPT !.count[b] = n]
           u == [p EXCEPT !.onHost[b] = IF n = 0 THEN FALSE ELSE @]
<1>1. s \in MemType
  BY SyncedType DEF BeforeUnmap
<1>2. Unmapped(m, b, automatic) = u
  BY DEF Unmapped, BeforeUnmap, CountAfter
<1> HIDE DEF s
<1>3. D \in [Cells -> Known]
  <2>1. s.dev[b] \in [Cells -> Known] /\ s.host \in [Cells -> Known]
    BY <1>1, MemFields
  <2>2. QED
    BY <2>1, PasteType
<1>4. n \in Int
  <2>1. s.count[b] \in Int /\ automatic \in BOOLEAN
    BY <1>1, MemFields
  <2>2. CASE automatic
    BY <2>1, <2>2 DEF CountAfter
  <2>3. CASE ~automatic
    <3>1. n = s.count[b] - 1
      BY <2>3 DEF CountAfter
    <3>2. QED
      BY <2>1, <3>1
  <2>4. QED
    BY <2>2, <2>3
<1> HIDE DEF D, n
<1>5. /\ r \in MemType /\ r.dev = [s.dev EXCEPT ![b] = D]
      /\ r.host = s.host /\ r.place = s.place /\ r.onHost = s.onHost
      /\ r.auto = s.auto /\ r.pending = s.pending /\ r.count = s.count
  BY <1>1, <1>3, SetDev
<1> HIDE DEF r
<1>6. /\ q \in MemType /\ q.auto = [r.auto EXCEPT ![b] = FALSE]
      /\ q.host = r.host /\ q.dev = r.dev /\ q.place = r.place
      /\ q.onHost = r.onHost /\ q.pending = r.pending /\ q.count = r.count
  BY <1>5, SetAuto
<1> HIDE DEF q
<1>7. /\ p \in MemType /\ p.count = [q.count EXCEPT ![b] = n]
      /\ p.host = q.host /\ p.dev = q.dev /\ p.place = q.place
      /\ p.onHost = q.onHost /\ p.auto = q.auto /\ p.pending = q.pending
  BY <1>4, <1>6, SetCount
<1> HIDE DEF p
<1>8. /\ u \in MemType
      /\ u.onHost = [p.onHost EXCEPT ![b] = IF n = 0 THEN FALSE ELSE p.onHost[b]]
      /\ u.host = p.host /\ u.dev = p.dev /\ u.place = p.place
      /\ u.auto = p.auto /\ u.pending = p.pending /\ u.count = p.count
  <2>1. CASE n = 0
    <3>1. u = [p EXCEPT !.onHost[b] = FALSE]
      BY <2>1
    <3>2. QED
      BY <1>7, <2>1, <3>1, SetOnHostFalse
  <2>2. CASE n # 0
    <3>1. u = [p EXCEPT !.onHost[b] = p.onHost[b]]
      BY <2>2
    <3>2. p.onHost[b] \in BOOLEAN
      BY <1>7, MemFields
    <3>3. QED
      BY <1>7, <2>2, <3>1, <3>2, SetOnHost
  <2>3. QED
    BY <2>1, <2>2
<1> HIDE DEF u
<1>9. QED
  <2>1. /\ u.host = s.host /\ u.place = s.place /\ u.pending = s.pending
        /\ u.dev = [s.dev EXCEPT ![b] = D]
        /\ u.auto = [s.auto EXCEPT ![b] = FALSE]
        /\ u.count = [s.count EXCEPT ![b] = n]
    BY <1>5, <1>6, <1>7, <1>8
  <2>2. p.onHost = s.onHost
    BY <1>5, <1>6, <1>7
  <2>3. u.onHost = [s.onHost EXCEPT ![b] =
                      IF n = 0 THEN FALSE ELSE s.onHost[b]]
    BY <1>8, <2>2
  <2>4. QED
    BY <1>1, <1>2, <1>4, <1>8, <2>1, <2>3 DEF D, n, s

LEMMA UnmappedType ==
    ASSUME SubsType, NEW m \in MemType, NEW b \in Buffers,
           NEW automatic \in BOOLEAN
    PROVE  Unmapped(m, b, automatic) \in MemType
  BY UnmappedFields

LEMMA AsSourceType ==
    ASSUME SubsType, NEW m \in MemType, NEW b \in Buffers
    PROVE  AsSource(m, b) \in MemType
<1>1. Synced(m, b) \in MemType
  BY SyncedType
<1>2. [Synced(m, b) EXCEPT !.onHost[b] = TRUE] \in MemType
  BY <1>1, SetOnHost
<1>3. QED
  BY <1>1, <1>2 DEF AsSource

LEMMA SourceType ==
    ASSUME NEW m \in MemType, NEW b \in Buffers
    PROVE  Source(m, b) \in [Cells -> Known]
  BY MemFields DEF Source

LEMMA AsDestinationType ==
    ASSUME SubsType, NEW m \in MemType, NEW b \in Buffers
    PROVE  AsDestination(m, b) \in MemType
  BY SyncedType, UnmappedType DEF AsDestination

LEMMA StoredType ==
    ASSUME NEW m \in MemType, NEW b \in Buffers, NEW C,
           NEW g \in [Cells -> Known]
    PROVE  Stored(m, b, C, g) \in MemType
<1>1. m.host \in [Cells -> Known] /\ m.dev[b] \in [Cells -> Known]
  BY MemFields
<1>2. /\ Paste(m.host, C, g) \in [Cells -> Known]
      /\ Paste(m.dev[b], C, g) \in [Cells -> Known]
  BY <1>1, PasteType
<1>3. [m EXCEPT !.host = Paste(@, C, g)] \in MemType
  BY <1>2, SetHost
<1>4. [m EXCEPT !.dev[b] = Paste(@, C, g)] \in MemType
  BY <1>2, SetDev
<1>5. QED
  BY <1>3, <1>4 DEF Stored

(* What Mapped(m, b, k) makes of m: t is m with the contents of b brought. *)
BeforeMap(m, b, k) ==
    LET s == AsSource(m, b)
    IN IF k = "invalidate" THEN m
       ELSE [s EXCEPT !.host = Paste(@, Cover[b], Source(s, b))]

LEMMA MappedFields ==
    ASSUME SubsType, NEW m \in MemType, NEW b \in Buffers, NEW k
    PROVE  LET t == BeforeMap(m, b, k)
               u == Mapped(m, b, k)
           IN /\ t \in MemType /\ u \in MemType
              /\ u.host = t.host /\ u.dev = t.dev /\ u.place = t.place
              /\ u.auto = t.auto /\ u.pending = t.pending
              /\ u.count[b] = t.count[b] + 1
              /\ u.onHost[b] <=> (k # "read" \/ t.onHost[b])
              /\ \A x \in Buffers : x # b => /\ u.onHost[x] = t.onHost[x]
                                             /\ u.count[x] = t.count[x]
<1> DEFINE s == AsSource(m, b)
           t == BeforeMap(m, b, k)
           p == [t EXCEPT !.count[b] = @ + 1]
           u == [p EXCEPT !.onHost[b] = IF k = "read" THEN @ ELSE TRUE]
<1>1. Mapped(m, b, k) = u
  BY DEF Mapped, BeforeMap
<1>2. s \in MemType
  BY AsSourceType
<1>3. t \in MemType
  <2>1. t = IF k = "invalidate" THEN m
            ELSE [s EXCEPT !.host = Paste(@, Cover[b], Source(s, b))]
    BY DEF BeforeMap
  <2> HIDE DEF s, t
  <2>2. s.host \in [Cells -> Known] /\ Source(s, b) \in [Cells -> Known]
    BY <1>2, MemFields, SourceType
  <2>3. Paste(s.host, Cover[b], Source(s, b)) \in [Cells -> Known]
    BY <2>2, PasteType
  <2>4. [s EXCEPT !.host = Paste(@, Cover[b], Source(s, b))] \in MemType
    BY <1>2, <2>3, SetHost
  <2>5. QED
    BY <2>1, <2>4
<1> HIDE DEF t
<1>4. t.count[b] + 1 \in Int
  <2>1. t.count[b] \in Int
    BY <1>3, MemFields
  <2>2. QED
    BY <2>1
<1>5. /\ p \in MemType /\ p.count = [t.count EXCEPT ![b] = t.count[b] + 1]
      /\ p.host = t.host /\ p.dev = t.dev /\ p.place = t.place
      /\ p.onHost = t.onHost /\ p.auto = t.auto /\ p.pending = t.pending
  BY <1>3, <1>4, SetCount
<1> HIDE DEF p
<1>6. /\ u \in MemType
      /\ u.onHost = [p.onHost EXCEPT ![b] = IF k = "read" THEN p.onHost[b]
                                            ELSE TRUE]
      /\ u.host = p.host /\ u.dev = p.dev /\ u.place = p.place
      /\ u.auto = p.auto /\ u.pending = p.pending /\ u.count = p.count
  <2>1. CASE k # "read"
    <3>1. u = [p EXCEPT !.onHost[b] = TRUE]
      BY <2>1
    <3>2. QED
      BY <1>5, <2>1, <3>1, SetOnHostTrue
  <2>2. CASE k = "read"
    <3>1. u = [p EXCEPT !.onHost[b] = p.onHost[b]]
      BY <2>2
    <3>2. p.onHost[b] \in BOOLEAN
      BY <1>5, MemFields
    <3>3. QED
      BY <1>5, <2>2, <3>1, <3>2, SetOnHost
  <2>3. QED
    BY <2>1, <2>2
<1> HIDE DEF u
<1>7. /\ u.onHost[b] <=> (k # "read" \/ t.onHost[b])
      /\ \A x \in Buffers : x # b => u.onHost[x] = t.onHost[x]
  <2>1. t.onHost \in [Buffers -> BOOLEAN]
    BY <1>3, MemFields
  <2>2. CASE k = "read"
    BY <1>5, <1>6, <2>1, <2>2
  <2>3. CASE k # "read"
    BY <1>5, <1>6, <2>1, <2>3
  <2>4. QED
    BY <2>2, <2>3
<1>8. u.count[b] = t.count[b] + 1 /\ \A x \in Buffers : x # b => u.count[x] = t.count[x]
  <2>1. t.count \in [Buffers -> Int]
    BY <1>3, MemFields
  <2>2. QED
    BY <1>5, <1>6, <2>1
<1>9. QED
  BY <1>1, <1>3, <1>5, <1>6, <1>7, <1>8 DEF t

LEMMA MappedType ==
    ASSUME SubsType, NEW m \in MemType, NEW b \in Buffers, NEW k
    PROVE  Mapped(m, b, k) \in MemType
  BY MappedFields

LEMMA BoundType ==
    ASSUME SubsType, NEW m \in MemType, NEW b \in Buffers, NEW d \in Devices
    PROVE  Bound(m, b, d) \in MemType
<1> DEFINE n == [m EXCEPT !.place[b] = d]
           r == [n EXCEPT !.auto[b] = TRUE]
<1>1. n \in MemType
  BY SetPlace
<1> HIDE DEF n
<1>2. r \in MemType
  BY <1>1, SetAuto
<1>3. [r EXCEPT !.onHost[b] = TRUE] \in MemType
  <2> HIDE DEF r
  <2> QED
    BY <1>2, SetOnHost
<1>4. [Unmapped(n, b, FALSE) EXCEPT !.pending = FALSE] \in MemType
  <2>1. Unmapped(n, b, FALSE) \in MemType
    BY <1>1, UnmappedType
  <2>2. QED
    BY <2>1, SetPending
<1>5. QED
  BY <1>1, <1>3, <1>4 DEF Bound, n

(* Migrated(m, b, d) in steps: b has a place; it is not auto mapped; it is *)
(* where it should be.                                                     *)
Placed(m, b, d) == IF m.place[b] = NoDevice THEN [m EXCEPT !.place[b] = d] ELSE m
Freed(m, b, d) ==
    LET n == Placed(m, b, d) IN IF n.auto[b] THEN Unmapped(n, b, TRUE) ELSE n

LEMMA PlacedFields ==
    ASSUME NEW m \in MemType, NEW b \in Buffers, NEW d \in Devices
    PROVE  LET n == Placed(m, b, d)
           IN /\ n \in MemType
              /\ n.place = [m.place EXCEPT ![b] = IF m.place[b] = NoDevice THEN d
                                                  ELSE m.place[b]]
              /\ n.host = m.host /\ n.dev = m.dev /\ n.onHost = m.onHost
              /\ n.auto = m.auto /\ n.pending = m.pending /\ n.count = m.count
<1>1. m.place \in [Buffers -> Devices \cup {NoDevice}]
  BY MemFields
<1>2. CASE m.place[b] = NoDevice
  BY <1>2, SetPlace DEF Placed
<1>3. CASE m.place[b] # NoDevice
  <2>1. m.place = [m.place EXCEPT ![b] = m.place[b]]
    BY <1>1
  <2>2. QED
    BY <1>3, <2>1 DEF Placed
<1>4. QED
  BY <1>2, <1>3

(* f and g differ at b at most.                                            *)
Elsewhere(f, g, b) == \A x \in Buffers : x # b => f[x] = g[x]

LEMMA FreedType ==
    ASSUME SubsType, NEW m \in MemType, NEW b \in Buffers, NEW d \in Devices
    PROVE  Freed(m, b, d) \in MemType
<1>1. Placed(m, b, d) \in MemType
  BY PlacedFields
<1>2. Unmapped(Placed(m, b, d), b, TRUE) \in MemType
  BY <1>1, UnmappedType
<1>3. QED
  BY <1>1, <1>2 DEF Freed

(* The last step.  s is on the device, or copied there.                    *)
LEMMA MigratedFields ==
    ASSUME SubsType, NEW m \in MemType, NEW b \in Buffers, NEW d \in Devices
    PROVE  LET s == Freed(m, b, d)
               u == Migrated(m, b, d)
               D == Paste(s.dev[b], Cover[b], s.host)
               moves == s.place[b] # d
               first == b = Parent /\ s.pending
           IN /\ s \in MemType /\ u \in MemType
              /\ u.host = s.host /\ u.auto = s.auto /\ u.count = s.count
              /\ u.place[b] = d /\ Elsewhere(u.place, s.place, b)
              /\ Elsewhere(u.dev, s.dev, b) /\ Elsewhere(u.onHost, s.onHost, b)
              /\ moves => /\ u.dev[b] = IF s.onHost[b] THEN D ELSE s.dev[b]
                          /\ u.onHost = s.onHost /\ u.pending = s.pending
              /\ (~moves /\ first) => /\ u.dev[b] = D
                                      /\ ~u.onHost[b] /\ ~u.pending
              /\ (~moves /\ ~first) => u = s
<1> DEFINE s == Freed(m, b, d)
           u == Migrated(m, b, d)
           D == Paste(s.dev[b], Cover[b], s.host)
           p1 == [s EXCEPT !.place[b] = d]
           u1 == [p1 EXCEPT !.dev[b] = IF s.onHost[b] THEN Paste(@, Cover[b], s.host)
                                       ELSE @]
           p2 == [s EXCEPT !.dev[b] = Paste(@, Cover[b], s.host)]
           q2 == [p2 EXCEPT !.pending = FALSE]
           u2 == [q2 EXCEPT !.onHost[b] = FALSE]
<1>1. u = IF s.place[b] # d THEN u1
          ELSE IF b = Parent /\ s.pending THEN u2 ELSE s
  BY DEF Migrated, Freed, Placed
<1>2. s \in MemType
  BY FreedType
<1> HIDE DEF s, u
<1>3. D \in [Cells -> Known] /\ s.dev[b] \in [Cells -> Known]
  <2>1. s.dev[b] \in [Cells -> Known] /\ s.host \in [Cells -> Known]
    BY <1>2, MemFields
  <2>2. QED
    BY <2>1, PasteType
<1>4. /\ p1 \in MemType /\ p1.place = [s.place EXCEPT ![b] = d]
      /\ p1.host = s.host /\ p1.dev = s.dev /\ p1.onHost = s.onHost
      /\ p1.auto = s.auto /\ p1.pending = s.pending /\ p1.count = s.count
  BY <1>2, SetPlace
<1> HIDE DEF p1
<1>5. u1 = [p1 EXCEPT !.dev[b] = IF s.onHost[b] THEN D ELSE s.dev[b]]
  BY <1>4
<1> HIDE DEF u1, D
<1>6. /\ u1 \in MemType
      /\ u1.dev = [p1.dev EXCEPT ![b] = IF s.onHost[b] THEN D ELSE s.dev[b]]
      /\ u1.host = p1.host /\ u1.place = p1.place /\ u1.onHost = p1.onHost
      /\ u1.auto = p1.auto /\ u1.pending = p1.pending /\ u1.count = p1.count
  <2>1. (IF s.onHost[b] THEN D ELSE s.dev[b]) \in [Cells -> Known]
    BY <1>3
  <2>2. QED
    BY <1>4, <1>5, <2>1, SetDev
<1>7. /\ p2 \in MemType /\ p2.dev = [s.dev EXCEPT ![b] = D]
      /\ p2.host = s.host /\ p2.place = s.place /\ p2.onHost = s.onHost
      /\ p2.auto = s.auto /\ p2.pending = s.pending /\ p2.count = s.count
  BY <1>2, <1>3, SetDev DEF D
<1> HIDE DEF p2
<1>8. /\ q2 \in MemType /\ q2.pending = FALSE
      /\ q2.host = p2.host /\ q2.dev = p2.dev /\ q2.place = p2.place
      /\ q2.onHost = p2.onHost /\ q2.auto = p2.auto /\ q2.count = p2.count
  BY <1>7 DEF MemType
<1> HIDE DEF q2
<1>9. /\ u2 \in MemType /\ u2.onHost = [q2.onHost EXCEPT ![b] = FALSE]
      /\ u2.host = q2.host /\ u2.dev = q2.dev /\ u2.place = q2.place
      /\ u2.auto = q2.auto /\ u2.pending = q2.pending /\ u2.count = q2.count
  BY <1>8, SetOnHostFalse
<1> HIDE DEF u2
<1>10. ASSUME s.place[b] # d
       PROVE  /\ u \in MemType
              /\ u.host = s.host /\ u.auto = s.auto /\ u.count = s.count
              /\ u.place = [s.place EXCEPT ![b] = d]
              /\ u.dev = [s.dev EXCEPT ![b] = IF s.onHost[b] THEN D ELSE s.dev[b]]
              /\ u.onHost = s.onHost /\ u.pending = s.pending
  <2>1. u = u1
    BY <1>1, <1>10
  <2>2. QED
    BY <1>4, <1>6, <2>1
<1>11. ASSUME s.place[b] = d, b = Parent /\ s.pending
       PROVE  /\ u \in MemType
              /\ u.host = s.host /\ u.auto = s.auto /\ u.count = s.count
              /\ u.place = s.place /\ u.dev = [s.dev EXCEPT ![b] = D]
              /\ ~u.onHost[b] /\ ~u.pending
              /\ \A x \in Buffers : x # b => u.onHost[x] = s.onHost[x]
  <2>1. u = u2
    BY <1>1, <1>11
  <2>2. s.onHost \in [Buffers -> BOOLEAN]
    BY <1>2, MemFields
  <2>3. ~u.onHost[b] /\ \A x \in Buffers : x # b => u.onHost[x] = s.onHost[x]
    BY <1>7, <1>8, <1>9, <2>1, <2>2
  <2>4. QED
    BY <1>7, <1>8, <1>9, <2>1, <2>3
<1>12. ASSUME s.place[b] = d, ~(b = Parent /\ s.pending) PROVE u = s
  BY <1>1, <1>12
<1>13. u \in MemType /\ u.host = s.host /\ u.auto = s.auto /\ u.count = s.count
  BY <1>2, <1>10, <1>11, <1>12
<1>14. /\ s.place \in [Buffers -> Devices \cup {NoDevice}]
       /\ s.dev \in [Buffers -> [Cells -> Known]]
  BY <1>2, MemFields
<1>15. /\ u.place[b] = d /\ Elsewhere(u.place, s.place, b)
       /\ Elsewhere(u.dev, s.dev, b) /\ Elsewhere(u.onHost, s.onHost, b)
       /\ s.place[b] # d => u.dev[b] = IF s.onHost[b] THEN D ELSE s.dev[b]
       /\ (s.place[b] = d /\ b = Parent /\ s.pending) => u.dev[b] = D
  <2>1. CASE s.place[b] # d
    BY <1>10, <1>14, <2>1 DEF Elsewhere
  <2>2. CASE s.place[b] = d /\ b = Parent /\ s.pending
    BY <1>11, <1>14, <2>2 DEF Elsewhere
  <2>3. CASE s.place[b] = d /\ ~(b = Parent /\ s.pending)
    BY <1>12, <2>3 DEF Elsewhere
  <2>4. QED
    BY <2>1, <2>2, <2>3
<1>16. QED
  BY <1>2, <1>10, <1>11, <1>12, <1>13, <1>15 DEF u, s, D

LEMMA MigratedType ==
    ASSUME SubsType, NEW m \in MemType, NEW b \in Buffers, NEW d \in Devices
    PROVE  Migrated(m, b, d) \in MemType
  BY MigratedFields

(* The migrations of a kernel, one after the other.                        *)
MigrateAll(m, s, d) == ForEach(LAMBDA n, b : Migrated(n, b, d), m, s)

LEMMA KernelMemIs ==
    ASSUME NEW args, NEW d
    PROVE  KernelMem(args, d) = MigrateAll(Submitted(mem, args), args, d)
  BY Zenon DEF KernelMem, MigrateAll, ForEach

LEMMA MigrateSteps ==
    ASSUME SubsType, NEW m \in MemType, NEW d \in Devices, NEW s \in Seq(Buffers)
    PROVE  \E g \in [0..Len(s) -> MemType] :
              /\ g[0] = m
              /\ \A i \in 1..Len(s) : g[i] = Migrated(g[i - 1], s[i], d)
              /\ MigrateAll(m, s, d) = g[Len(s)]
<1> DEFINE N == Len(s)
           f == [x \in (1..N) \X MemType |-> Migrated(x[2], s[x[1]], d)]
<1>1. N \in Nat /\ \A i \in 1..N : s[i] \in Buffers
  OBVIOUS
<1>2. f \in [(1..N) \X MemType -> MemType]
  BY <1>1, MigratedType
<1>3. PICK g : IsRun(g, MemType, m, N, f)
  <2> HIDE DEF f, N
  <2> QED
    BY <1>1, <1>2, RecursionExists
<1>4. g \in [0..N -> MemType] /\ g[0] = m
  BY <1>3 DEF IsRun
<1>5. ASSUME NEW i \in 1..N PROVE g[i] = Migrated(g[i - 1], s[i], d)
  <2>1. i - 1 \in 0..N
    BY <1>1
  <2>2. <<i, g[i - 1]>> \in (1..N) \X MemType
    BY <2>1, <1>4
  <2>3. g[i] = f[<<i, g[i - 1]>>]
    BY <1>3 DEF IsRun
  <2>4. QED
    BY <2>2, <2>3
<1> DEFINE Def(h) == h = [i \in 0..N |-> IF i = 0 THEN m
                                         ELSE Migrated(h[i - 1], s[i], d)]
           after == CHOOSE h : Def(h)
<1>6. Def(g)
  BY <1>1, <1>4, <1>5
<1>7. Def(after)
  <2> HIDE DEF Def
  <2> QED
    BY <1>6
<1>8. MigrateAll(m, s, d) = after[N]
  BY DEF MigrateAll, ForEach
<1> HIDE DEF after
<1> DEFINE Bad == {i \in 0..N : after[i] # g[i]}
<1>9. Bad = {}
  <2> SUFFICES ASSUME Bad # {} PROVE FALSE
    OBVIOUS
  <2>1. PICK i \in Bad : \A j \in Bad : ~(j < i)
    <3>1. Bad \subseteq Nat
      OBVIOUS
    <3> HIDE DEF Bad
    <3> QED
      BY <3>1, LeastNatural
  <2>2. CASE i = 0
    BY <2>2, <1>7, <1>4, <1>1
  <2>3. CASE i # 0
    <3>1. i \in 1..N /\ i - 1 \in 0..N /\ i - 1 < i
      BY <2>3, <1>1
    <3>2. after[i - 1] = g[i - 1]
      <4>1. i - 1 \notin Bad
        <5> HIDE DEF Bad
        <5> QED
          BY <2>1, <3>1
      <4>2. QED
        BY <4>1, <3>1
    <3>3. after[i] = Migrated(after[i - 1], s[i], d)
      BY <1>7, <3>1
    <3>4. QED
      BY <3>1, <3>2, <3>3, <1>5
  <2>4. QED
    BY <2>2, <2>3
<1>10. after[N] = g[N]
  BY <1>9, <1>1
<1>11. QED
  BY <1>4, <1>5, <1>8, <1>10

LEMMA SubmittedType ==
    ASSUME NEW m \in MemType, NEW args
    PROVE  Submitted(m, args) \in MemType
<1>1. [m EXCEPT !.onHost[Parent] = FALSE] \in MemType
  BY BuffersAssumption, SetOnHostFalse
<1>2. QED
  BY <1>1 DEF Submitted

LEMMA KernelMemType ==
    ASSUME SubsType, mem \in MemType, NEW args \in Seq(Buffers), NEW d \in Devices
    PROVE  KernelMem(args, d) \in MemType
<1>1. Submitted(mem, args) \in MemType
  BY SubmittedType
<1>2. MigrateAll(Submitted(mem, args), args, d) \in MemType
  <2>1. PICK g \in [0..Len(args) -> MemType] :
               MigrateAll(Submitted(mem, args), args, d) = g[Len(args)]
    BY <1>1, MigrateSteps
  <2>2. Len(args) \in 0..Len(args)
    OBVIOUS
  <2>3. QED
    BY <2>1, <2>2
<1>3. QED
  BY <1>2, KernelMemIs

----------------------------------------------------------------------------
(* TypeOK is an invariant.                                                 *)

LastType ==
    [read : SUBSET (Cells \X Known), wrote : SUBSET (Cells \X Known)]
ProgType == [stage : {"none", "save", "restore"},
             device : Devices \cup {NoDevice}, todo : SUBSET Buffers]

LEMMA PairsType ==
    ASSUME NEW C \in SUBSET Cells, NEW g \in [Cells -> Known]
    PROVE  /\ Pairs(C, g) \in SUBSET (Cells \X Known)
           /\ Reads(C, g) \in LastType /\ Writes(C, g) \in LastType
<1>1. Pairs(C, g) \in SUBSET (Cells \X Known)
  BY DEF Pairs
<1>2. QED
  BY <1>1 DEF Reads, Writes, NoAccess, LastType

LEMMA SmallTypes ==
    /\ NoAccess \in LastType
    /\ \A v \in Values : Fill(v) \in [Cells -> Known]
    /\ Nothing \in [Cells -> Known]
    /\ \A b \in Buffers : Cover[b] \in SUBSET Cells
    /\ \A b \in Buffers : \A R \in Regions(b) : R \in SUBSET Cells /\ R \subseteq Cover[b]
    /\ Parent \in Buffers
<1>1. NoAccess \in LastType
  BY DEF NoAccess, LastType
<1>2. \A v \in Values : Fill(v) \in [Cells -> Known]
  BY DEF Fill, Known
<1>3. Nothing \in [Cells -> Known]
  BY DEF Nothing, Known
<1>4. \A b \in Buffers : Cover[b] \in SUBSET Cells
  BY BuffersAssumption
<1>5. ASSUME NEW b \in Buffers, NEW R \in Regions(b)
      PROVE  R \in SUBSET Cells /\ R \subseteq Cover[b]
  <2>1. CASE Does("part")
    BY <1>4, <2>1 DEF Regions
  <2>2. CASE ~Does("part")
    BY <1>4, <2>2 DEF Regions
  <2>3. QED
    BY <2>1, <2>2
<1>6. QED
  BY <1>1, <1>2, <1>3, <1>4, <1>5, BuffersAssumption

LEMMA ProgramOn ==
    ASSUME TypeOK
    PROVE  /\ SubsType /\ mem \in MemType /\ prog \in ProgType /\ last \in LastType
           /\ program.on \subseteq Devices /\ program.subs \subseteq Buffers \ {Parent}
           /\ program \in Programs
           /\ maps \in [Buffers -> SUBSET (MapKinds \X SUBSET Cells)]
  BY ProgramsAssumption DEF TypeOK, SubsType, ProgramType, ProgType, LastType

LEMMA InitType == Init => TypeOK
<1> SUFFICES ASSUME Init PROVE TypeOK
  OBVIOUS
<1> DEFINE H == Does("host_ptr")
<1>1. PICK v \in Values :
         mem = [host |-> IF Does("host_ptr") THEN [c \in Cells |-> v] ELSE Nothing,
                dev |-> [b \in Buffers |-> Nothing],
                place |-> [b \in Buffers |-> NoDevice],
                onHost |-> [b \in Buffers |-> b = Parent /\ Does("host_ptr")],
                auto |-> [b \in Buffers |-> FALSE],
                pending |-> Does("host_ptr"),
                count |-> [b \in Buffers |-> 0]]
  BY DEF Init
<1>2. [c \in Cells |-> v] \in [Cells -> Known] /\ Nothing \in [Cells -> Known]
  BY SmallTypes DEF Known
<1>3. mem \in MemType
  <2>1. mem.host \in [Cells -> Known]
    BY <1>1, <1>2
  <2>2. /\ [b \in Buffers |-> Nothing] \in [Buffers -> [Cells -> Known]]
        /\ [b \in Buffers |-> NoDevice] \in [Buffers -> Devices \cup {NoDevice}]
        /\ [b \in Buffers |-> 0] \in [Buffers -> Int]
        /\ [b \in Buffers |-> FALSE] \in [Buffers -> BOOLEAN]
    BY <1>2
  <2>3. [b \in Buffers |-> b = Parent /\ H] \in [Buffers -> BOOLEAN]
    OBVIOUS
  <2>4. H \in BOOLEAN
    BY DEF Does
  <2>5. QED
    BY <1>1, <2>1, <2>2, <2>3, <2>4 DEF MemType
<1>4. subs \in Seq(Buffers \ {Parent}) /\ program \in Programs
  BY DEF Init
<1>5. maps \in [Buffers -> SUBSET (MapKinds \X SUBSET Cells)]
  BY DEF Init
<1>6. prog \in ProgType /\ last \in LastType
  BY SmallTypes DEF Init, ProgType
<1>7. QED
  BY <1>3, <1>4, <1>5, <1>6 DEF TypeOK, ProgType, LastType

LEMMA TypeFrom ==
    ASSUME mem' \in MemType, SubsType',
           maps' \in [Buffers -> SUBSET (MapKinds \X SUBSET Cells)],
           prog' \in ProgType, program' \in Programs, last' \in LastType
    PROVE  TypeOK'
  BY DEF TypeOK, SubsType, ProgType, LastType

LEMMA CommandTypes ==
    ASSUME TypeOK, NEW b \in Buffers, NEW R \in Regions(b)
    PROVE  /\ ReadBuffer(b, R) => TypeOK'
           /\ \A v \in Values : WriteBuffer(b, R, v) => TypeOK'
           /\ \A k \in MapKinds : MapBuffer(b, k, R) => TypeOK'
<1> USE ProgramOn, SmallTypes
<1>1. R \in SUBSET Cells
  OBVIOUS
<1>2. mem \in MemType
  BY DEF TypeOK
<1>3. ASSUME ReadBuffer(b, R) PROVE TypeOK'
  <2> DEFINE n == AsSource(mem, b)
  <2>1. n \in MemType
    BY <1>2, AsSourceType
  <2>2. mem' = n /\ last' = Reads(R, Source(n, b))
        /\ UNCHANGED <<subs, maps, prog, program>>
    BY <1>3 DEF ReadBuffer
  <2> HIDE DEF n
  <2>3. last' \in LastType
    BY <1>1, <2>1, <2>2, SourceType, PairsType
  <2>4. QED
    BY <2>1, <2>2, <2>3, TypeFrom DEF SubsType
<1>4. ASSUME NEW v \in Values, WriteBuffer(b, R, v) PROVE TypeOK'
  <2>1. AsDestination(mem, b) \in MemType
    BY <1>2, AsDestinationType
  <2>2. mem' \in MemType
    BY <1>4, <2>1, StoredType DEF WriteBuffer
  <2>3. last' \in LastType
    BY <1>1, <1>4, PairsType DEF WriteBuffer
  <2>4. QED
    BY <1>4, <2>2, <2>3, TypeFrom DEF WriteBuffer, SubsType
<1>5. ASSUME NEW k \in MapKinds, MapBuffer(b, k, R) PROVE TypeOK'
  <2> DEFINE n == Mapped(mem, b, k)
  <2>1. n \in MemType
    BY <1>2, MappedType
  <2>2. /\ mem' = n /\ maps' = [maps EXCEPT ![b] = @ \cup {<<k, R>>}]
        /\ last' = IF k = "invalidate" THEN Writes(R, n.host) ELSE NoAccess
        /\ UNCHANGED <<subs, prog, program>>
    BY <1>5 DEF MapBuffer
  <2> HIDE DEF n
  <2>3. n.host \in [Cells -> Known]
    BY <2>1, MemFields
  <2>4. last' \in LastType
    <3>1. Writes(R, n.host) \in LastType
      BY <1>1, <2>3, PairsType
    <3>2. QED
      BY <2>2, <3>1
  <2>5. maps' \in [Buffers -> SUBSET (MapKinds \X SUBSET Cells)]
    BY <1>1, <2>2
  <2>6. QED
    BY <2>1, <2>2, <2>4, <2>5, TypeFrom DEF SubsType
<1>6. QED
  BY <1>3, <1>4, <1>5

LEMMA CopyType ==
    ASSUME TypeOK, NEW a \in Buffers, NEW b \in Buffers,
           NEW x \in Cover[a], NEW y \in Cover[b], CopyBuffer(a, x, b, y)
    PROVE  TypeOK'
<1> USE ProgramOn, SmallTypes
<1> DEFINE m == AsSource(mem, a)
           n == AsDestination(m, b)
           v == (IF m.onHost[a] THEN n.host ELSE n.dev[a])[x]
<1>1. x \in Cells /\ y \in Cells
  OBVIOUS
<1>2. m \in MemType
  BY AsSourceType DEF TypeOK
<1>3. /\ mem' = Stored(n, b, {y}, Fill(v))
      /\ last' = [read |-> {<<x, v>>}, wrote |-> {<<y, v>>}]
      /\ UNCHANGED <<subs, maps, prog, program>>
  BY DEF CopyBuffer
<1> HIDE DEF m
<1>4. n \in MemType
  BY <1>2, AsDestinationType
<1> HIDE DEF n
<1>5. v \in Known
  <2>1. n.host \in [Cells -> Known] /\ n.dev[a] \in [Cells -> Known]
    BY <1>4, MemFields
  <2>2. QED
    BY <1>1, <2>1
<1> HIDE DEF v
<1>6. Fill(v) \in [Cells -> Known]
  BY <1>5 DEF Fill
<1>7. mem' \in MemType
  BY <1>3, <1>4, <1>6, StoredType
<1>8. last' \in LastType
  BY <1>1, <1>3, <1>5 DEF LastType
<1>9. QED
  BY <1>3, <1>7, <1>8, TypeFrom DEF SubsType

LEMMA MappingTypes ==
    ASSUME TypeOK, NEW b \in Buffers, NEW x \in maps[b]
    PROVE  /\ UnmapBuffer(b, x) => TypeOK'
           /\ Load(x) => TypeOK'
           /\ \A v \in Values : Store(x, v) => TypeOK'
<1> USE ProgramOn, SmallTypes
<1>1. x[2] \in SUBSET Cells
  BY DEF MapKinds
<1>2. mem.host \in [Cells -> Known]
  BY MemFields
<1>3. ASSUME UnmapBuffer(b, x) PROVE TypeOK'
  <2>1. mem' \in MemType
    BY <1>3, UnmappedType DEF UnmapBuffer
  <2>2. maps' \in [Buffers -> SUBSET (MapKinds \X SUBSET Cells)]
    BY <1>3 DEF UnmapBuffer
  <2>3. QED
    BY <1>3, <2>1, <2>2, TypeFrom DEF UnmapBuffer, SubsType
<1>4. ASSUME Load(x) PROVE TypeOK'
  BY <1>1, <1>2, <1>4, PairsType, TypeFrom DEF Load, SubsType
<1>5. ASSUME NEW v \in Values, Store(x, v) PROVE TypeOK'
  <2>1. Paste(mem.host, x[2], Fill(v)) \in [Cells -> Known]
    BY <1>2, PasteType
  <2>2. mem' \in MemType
    BY <1>5, <2>1, SetHost DEF Store
  <2>3. QED
    BY <1>1, <1>5, <2>2, PairsType, TypeFrom DEF Store, SubsType
<1>6. QED
  BY <1>3, <1>4, <1>5

LEMMA KernelType ==
    ASSUME TypeOK, NEW args \in KernelArgs, NEW v \in Values, NEW d \in program.on,
           NEW W \in SUBSET ToSet(args), Kernel(args, W, v, d)
    PROVE  TypeOK'
<1> USE ProgramOn, SmallTypes
<1> DEFINE n == KernelMem(args, d)
           D == [b \in Buffers |-> IF b \in W THEN Paste(n.dev[b], Cover[b], Fill(v))
                                   ELSE n.dev[b]]
<1>1. d \in Devices /\ args \in Seq(Buffers) /\ ToSet(args) \subseteq Buffers
  <2>1. args \in Seq(Buffers)
    BY ArgsAssumption
  <2>2. QED
    BY <2>1, SetOf
<1>2. n \in MemType
  BY <1>1, KernelMemType
<1>3. /\ mem' = [n EXCEPT !.dev =
                   [b \in Buffers |-> IF b \in W THEN Paste(@[b], Cover[b], Fill(v))
                                      ELSE @[b]]]
      /\ last' = [read  |-> UNION {Pairs(Cover[b], n.dev[b]) : b \in ToSet(args)},
                  wrote |-> Pairs(CellsOf(W), Fill(v))]
      /\ UNCHANGED <<subs, maps, prog, program>>
  BY DEF Kernel
<1> HIDE DEF n
<1>4. \A b \in Buffers : n.dev[b] \in [Cells -> Known]
  BY <1>2, MemFields
<1>5. D \in [Buffers -> [Cells -> Known]]
  BY <1>4, PasteType
<1>6. mem' \in MemType
  <2>1. mem' = [n EXCEPT !.dev = D]
    BY <1>3
  <2> HIDE DEF D
  <2>2. QED
    BY <1>2, <1>5, <2>1 DEF MemType
<1>7. last' \in LastType
  <2>1. \A b \in ToSet(args) :
           Pairs(Cover[b], n.dev[b]) \in SUBSET (Cells \X Known)
    BY <1>1, <1>4, PairsType
  <2>2. UNION {Pairs(Cover[b], n.dev[b]) : b \in ToSet(args)}
          \in SUBSET (Cells \X Known)
    BY <2>1
  <2>3. CellsOf(W) \in SUBSET Cells
    BY <1>1 DEF CellsOf
  <2>4. Pairs(CellsOf(W), Fill(v)) \in SUBSET (Cells \X Known)
    BY <2>3, PairsType
  <2>5. QED
    BY <1>3, <2>2, <2>4 DEF LastType
<1>8. QED
  BY <1>3, <1>6, <1>7, TypeFrom DEF SubsType

LEMMA ReprogramTypes ==
    ASSUME TypeOK
    PROVE  /\ \A d \in program.on : StartReprogram(d) => TypeOK'
           /\ \A b \in Buffers : SaveBuffer(b) => TypeOK'
           /\ \A b \in Buffers : RestoreBuffer(b) => TypeOK'
           /\ ProgramDevice => TypeOK'
           /\ EndReprogram => TypeOK'
<1> USE ProgramOn, SmallTypes
<1>1. \A d : On(d) \subseteq Buffers
  BY DEF On
<1>2. ASSUME NEW d \in program.on, StartReprogram(d) PROVE TypeOK'
  <2>1. prog' \in ProgType
    BY <1>1, <1>2 DEF StartReprogram, ProgType
  <2>2. QED
    BY <1>2, <2>1, TypeFrom DEF StartReprogram, SubsType
<1>3. \A b : [prog EXCEPT !.todo = @ \ {b}] \in ProgType
  BY DEF ProgType
<1>4. ASSUME NEW b \in Buffers, SaveBuffer(b) PROVE TypeOK'
  <2> DEFINE n == AsSource(mem, b)
  <2>1. n \in MemType
    BY AsSourceType
  <2>2. mem' = IF Preserved(b)
               THEN [n EXCEPT !.host = Paste(@, Cover[b], Source(n, b))] ELSE mem
    BY <1>4 DEF SaveBuffer
  <2> HIDE DEF n
  <2>3. n.host \in [Cells -> Known] /\ Source(n, b) \in [Cells -> Known]
    BY <2>1, MemFields, SourceType
  <2>4. Paste(n.host, Cover[b], Source(n, b)) \in [Cells -> Known]
    BY <2>3, PasteType
  <2>5. mem' \in MemType
    BY <2>1, <2>2, <2>4, SetHost
  <2>6. QED
    BY <1>3, <1>4, <2>5, TypeFrom DEF SaveBuffer, SubsType
<1>5. ASSUME NEW b \in Buffers, RestoreBuffer(b) PROVE TypeOK'
  <2>1. AsDestination(mem, b) \in MemType /\ mem.host \in [Cells -> Known]
    BY AsDestinationType, MemFields
  <2>2. Stored(AsDestination(mem, b), b, Cover[b], mem.host) \in MemType
    BY <2>1, StoredType
  <2>3. QED
    BY <1>3, <1>5, <2>2, TypeFrom DEF RestoreBuffer, SubsType
<1>6. ASSUME ProgramDevice PROVE TypeOK'
  <2> DEFINE D == [b \in Buffers |-> IF b \in On(prog.device) THEN Nothing
                                     ELSE mem.dev[b]]
  <2>1. \A b \in Buffers : mem.dev[b] \in [Cells -> Known]
    BY MemFields
  <2>2. D \in [Buffers -> [Cells -> Known]]
    BY <2>1
  <2>3. mem' = [mem EXCEPT !.dev = D]
    BY <1>6 DEF ProgramDevice
  <2> HIDE DEF D
  <2>4. mem' \in MemType
    BY <2>2, <2>3 DEF MemType
  <2>5. prog' \in ProgType
    BY <1>1, <1>6 DEF ProgramDevice, ProgType
  <2>6. QED
    BY <1>6, <2>4, <2>5, TypeFrom DEF ProgramDevice, SubsType
<1>7. ASSUME EndReprogram PROVE TypeOK'
  <2>1. prog' \in ProgType
    BY <1>7 DEF EndReprogram, ProgType
  <2>2. QED
    BY <1>7, <2>1, TypeFrom DEF EndReprogram, SubsType
<1>8. QED
  BY <1>2, <1>4, <1>5, <1>6, <1>7

(* CreateSub(s) makes s as new.                                            *)
LEMMA CreatedFields ==
    ASSUME TypeOK, NEW s \in Buffers, CreateSub(s)
    PROVE  /\ mem' \in MemType
           /\ mem'.host = mem.host /\ mem'.pending = mem.pending
           /\ mem'.dev = [mem.dev EXCEPT ![s] = Nothing]
           /\ mem'.place = [mem.place EXCEPT ![s] = NoDevice]
           /\ mem'.onHost = [mem.onHost EXCEPT ![s] = TRUE]
           /\ mem'.auto = [mem.auto EXCEPT ![s] = TRUE]
           /\ mem'.count = [mem.count EXCEPT ![s] = 0]
<1> DEFINE m1 == [mem EXCEPT !.dev[s] = Nothing]
           m2 == [m1 EXCEPT !.place[s] = NoDevice]
           m3 == [m2 EXCEPT !.onHost[s] = TRUE]
           m4 == [m3 EXCEPT !.auto[s] = TRUE]
           m5 == [m4 EXCEPT !.count[s] = 0]
<1>1. mem' = m5
  BY DEF CreateSub
<1>2. /\ m1 \in MemType /\ m1.dev = [mem.dev EXCEPT ![s] = Nothing]
      /\ m1.host = mem.host /\ m1.place = mem.place /\ m1.onHost = mem.onHost
      /\ m1.auto = mem.auto /\ m1.pending = mem.pending /\ m1.count = mem.count
  BY ProgramOn, SmallTypes, SetDev
<1> HIDE DEF m1
<1>3. /\ m2 \in MemType /\ m2.place = [m1.place EXCEPT ![s] = NoDevice]
      /\ m2.host = m1.host /\ m2.dev = m1.dev /\ m2.onHost = m1.onHost
      /\ m2.auto = m1.auto /\ m2.pending = m1.pending /\ m2.count = m1.count
  BY <1>2, SetPlace
<1> HIDE DEF m2
<1>4. /\ m3 \in MemType /\ m3.onHost = [m2.onHost EXCEPT ![s] = TRUE]
      /\ m3.host = m2.host /\ m3.dev = m2.dev /\ m3.place = m2.place
      /\ m3.auto = m2.auto /\ m3.pending = m2.pending /\ m3.count = m2.count
  BY <1>3, SetOnHostTrue
<1> HIDE DEF m3
<1>5. /\ m4 \in MemType /\ m4.auto = [m3.auto EXCEPT ![s] = TRUE]
      /\ m4.host = m3.host /\ m4.dev = m3.dev /\ m4.place = m3.place
      /\ m4.onHost = m3.onHost /\ m4.pending = m3.pending /\ m4.count = m3.count
  BY <1>4, SetAutoTrue
<1> HIDE DEF m4
<1>6. /\ m5 \in MemType /\ m5.count = [m4.count EXCEPT ![s] = 0]
      /\ m5.host = m4.host /\ m5.dev = m4.dev /\ m5.place = m4.place
      /\ m5.onHost = m4.onHost /\ m5.auto = m4.auto /\ m5.pending = m4.pending
  BY <1>5, SetCount
<1> HIDE DEF m5
<1>7. QED
  BY <1>1, <1>2, <1>3, <1>4, <1>5, <1>6

LEMMA SubTypes ==
    ASSUME TypeOK, NEW s \in Buffers
    PROVE  /\ CreateSub(s) => TypeOK'
           /\ ReleaseSub(s) => TypeOK'
<1> USE ProgramOn, SmallTypes
<1>1. ASSUME CreateSub(s) PROVE TypeOK'
  <2>1. s \in Buffers \ {Parent} /\ subs' = <<s>> \o subs
    BY <1>1 DEF CreateSub
  <2>2. subs' \in Seq(Buffers \ {Parent})
    BY <2>1 DEF SubsType
  <2>3. mem' \in MemType
    BY <1>1, CreatedFields
  <2>4. QED
    BY <1>1, <2>2, <2>3, TypeFrom DEF CreateSub, SubsType
<1>2. ASSUME ReleaseSub(s) PROVE TypeOK'
  <2>1. PICK i \in 1..Len(subs) : subs' = RemoveAt(subs, i)
    BY <1>2 DEF ReleaseSub
  <2>2. subs' \in Seq(Buffers \ {Parent})
    BY <2>1, RemoveAtProperties DEF SubsType
  <2>3. QED
    BY <1>2, <2>2, TypeFrom DEF ReleaseSub, SubsType
<1>3. QED
  BY <1>1, <1>2

(* The objects, their copies and the mappings have the shape TypeOK says,  *)
(* whatever programs do.                                                   *)
THEOREM TypeCorrect == Spec => []TypeOK
<1>1. Init => TypeOK
  BY InitType
<1>2. ASSUME TypeOK, [Next]_vars PROVE TypeOK'
  <2>1. CASE UNCHANGED vars
    <3>1. TypeOK' = TypeOK
      BY <2>1 DEF vars, TypeOK
    <3>2. QED
      BY <1>2, <3>1
  <2>2. CASE \E s \in Buffers : CreateSub(s) \/ ReleaseSub(s)
    BY <1>2, <2>2, SubTypes
  <2>3. CASE Transfer
    BY <1>2, <2>3, CommandTypes DEF Transfer
  <2>4. CASE Copy
    BY <1>2, <2>4, CopyType DEF Copy
  <2>5. CASE UseMapping
    BY <1>2, <2>5, MappingTypes DEF UseMapping
  <2>6. CASE RunKernel
    BY <1>2, <2>6, KernelType DEF RunKernel
  <2>7. ASSUME NEW b \in Buffers, NEW d \in program.on,
               MigrateCommand(b, d) \/ Bind(b, d)
        PROVE  TypeOK'
    <3>1. mem' \in MemType
      <4>1. d \in Devices /\ mem \in MemType
        BY <1>2, ProgramOn DEF TypeOK
      <4>2. Migrated(mem, b, d) \in MemType /\ Bound(mem, b, d) \in MemType
        BY <1>2, <4>1, ProgramOn, MigratedType, BoundType
      <4>3. QED
        BY <2>7, <4>2 DEF MigrateCommand, Bind
    <3>2. QED
      BY <1>2, <2>7, <3>1, ProgramOn, SmallTypes, TypeFrom
         DEF MigrateCommand, Bind, SubsType
  <2>8. CASE Reprogram
    BY <1>2, <2>8, ReprogramTypes DEF Reprogram
  <2>9. QED
    BY <1>2, <2>1, <2>2, <2>3, <2>4, <2>5, <2>6, <2>7, <2>8 DEF Next
<1>3. QED
  BY <1>1, <1>2, PTL DEF Spec

----------------------------------------------------------------------------
(* What Synced does: s is m with the objects T brought to the host.        *)
SyncedTo(m, s, T) ==
    /\ s.dev = m.dev /\ s.place = m.place /\ s.pending = m.pending
    /\ s.count = m.count
    /\ \A x \in Buffers : s.onHost[x] <=> (m.onHost[x] \/ x \in T)
    /\ \A x \in Buffers : s.auto[x] <=> (m.auto[x] \/ x \in T)
    /\ \A c \in Cells :
          \/ s.host[c] = m.host[c] /\ \A o \in T : c \notin Cover[o]
          \/ \E o \in T : c \in Cover[o] /\ s.host[c] = m.dev[o][c]

LEMMA SyncOneTo ==
    ASSUME NEW m \in MemType, NEW n \in MemType, NEW T \in SUBSET Buffers,
           SyncedTo(m, n, T), NEW b \in Buffers, NEW o \in Buffers
    PROVE  SyncedTo(m, SyncOne(n, b, o),
                    IF MapsOther(m, b, o) THEN T \cup {o} ELSE T)
<1>1. CASE MapsOther(m, b, o) /\ o \notin T
  <2> DEFINE P == Paste(n.host, Cover[o], n.dev[o])
             n1 == [n EXCEPT !.host = P]
             n2 == [n1 EXCEPT !.onHost[o] = TRUE]
             n3 == [n2 EXCEPT !.auto[o] = TRUE]
  <2>1. MapsOther(n, b, o)
    BY <1>1 DEF MapsOther, SyncedTo
  <2>2. SyncOne(n, b, o) = n3
    BY <2>1 DEF SyncOne
  <2>3. n.host \in [Cells -> Known] /\ n.dev[o] \in [Cells -> Known]
    BY MemFields
  <2>4. /\ P \in [Cells -> Known]
        /\ \A c \in Cells : P[c] = IF c \in Cover[o] THEN n.dev[o][c] ELSE n.host[c]
    BY <2>3, PasteType
  <2> HIDE DEF P
  <2>5. /\ n1 \in MemType /\ n1.host = P
        /\ n1.dev = n.dev /\ n1.place = n.place /\ n1.onHost = n.onHost
        /\ n1.auto = n.auto /\ n1.pending = n.pending /\ n1.count = n.count
    BY <2>4, SetHost
  <2> HIDE DEF n1
  <2>6. /\ n2 \in MemType /\ n2.onHost = [n1.onHost EXCEPT ![o] = TRUE]
        /\ n2.host = n1.host /\ n2.dev = n1.dev /\ n2.place = n1.place
        /\ n2.auto = n1.auto /\ n2.pending = n1.pending /\ n2.count = n1.count
    BY <2>5, SetOnHostTrue
  <2> HIDE DEF n2
  <2>7. /\ n3.auto = [n2.auto EXCEPT ![o] = TRUE]
        /\ n3.host = n2.host /\ n3.dev = n2.dev /\ n3.place = n2.place
        /\ n3.onHost = n2.onHost /\ n3.pending = n2.pending /\ n3.count = n2.count
    BY <2>6, SetAutoTrue
  <2> HIDE DEF n3
  <2>8. n.onHost \in [Buffers -> BOOLEAN] /\ n.auto \in [Buffers -> BOOLEAN]
    BY MemFields
  <2>9. /\ n3.dev = n.dev /\ n3.place = n.place /\ n3.pending = n.pending
        /\ n3.count = n.count /\ n3.host = P
        /\ n3.onHost = [n.onHost EXCEPT ![o] = TRUE]
        /\ n3.auto = [n.auto EXCEPT ![o] = TRUE]
    BY <2>5, <2>6, <2>7
  <2> DEFINE U == T \cup {o}
  <2>10. ASSUME NEW x \in Buffers
         PROVE  /\ n3.onHost[x] <=> (m.onHost[x] \/ x \in U)
                /\ n3.auto[x] <=> (m.auto[x] \/ x \in U)
    <3>1. CASE x = o
      <4>1. n3.onHost[x] /\ n3.auto[x]
        BY <2>8, <2>9, <3>1
      <4>2. QED
        BY <3>1, <4>1
    <3>2. CASE x # o
      <4>1. n3.onHost[x] = n.onHost[x] /\ n3.auto[x] = n.auto[x]
        BY <2>8, <2>9, <3>2
      <4>2. QED
        BY <3>2, <4>1 DEF SyncedTo
    <3>3. QED
      BY <3>1, <3>2
  <2>11. ASSUME NEW c \in Cells
         PROVE  \/ n3.host[c] = m.host[c] /\ \A q \in U : c \notin Cover[q]
                \/ \E q \in U : c \in Cover[q] /\ n3.host[c] = m.dev[q][c]
    <3>1. CASE c \in Cover[o]
      BY <2>4, <2>9, <3>1 DEF SyncedTo
    <3>2. CASE c \notin Cover[o]
      BY <2>4, <2>9, <3>2 DEF SyncedTo
    <3>3. QED
      BY <3>1, <3>2
  <2>12. n3.dev = m.dev /\ n3.place = m.place /\ n3.pending = m.pending
         /\ n3.count = m.count
    BY <2>9 DEF SyncedTo
  <2>13. SyncedTo(m, n3, U)
    BY <2>10, <2>11, <2>12 DEF SyncedTo
  <2>14. QED
    BY <1>1, <2>2, <2>13
<1>2. CASE ~MapsOther(m, b, o) \/ o \in T
  <2>1. ~MapsOther(n, b, o)
    BY <1>2 DEF MapsOther, SyncedTo
  <2>2. SyncOne(n, b, o) = n
    BY <2>1 DEF SyncOne
  <2>3. (IF MapsOther(m, b, o) THEN T \cup {o} ELSE T) = T
    BY <1>2
  <2>4. QED
    BY <2>2, <2>3
<1>3. QED
  BY <1>1, <1>2

Brought(m, b) ==
    IF IsSubOrParent(b)
    THEN {o \in ToSet(Others(b)) : MapsOther(m, b, o)} ELSE {}

LEMMA SyncedWhat ==
    ASSUME SubsType, NEW m \in MemType, NEW b \in Buffers
    PROVE  /\ Synced(m, b) \in MemType
           /\ Brought(m, b) \subseteq Buffers
           /\ SyncedTo(m, Synced(m, b), Brought(m, b))
<1> DEFINE s == Others(b)
           N == Len(s)
<1>1. s \in Seq(Buffers) /\ N \in Nat /\ \A i \in 1..N : s[i] \in Buffers
  <2>1. s \in Seq(Buffers)
    BY OthersMembers
  <2>2. QED
    BY <2>1
<1>2. SyncedTo(m, m, {})
  BY DEF SyncedTo
<1>3. Brought(m, b) \subseteq Buffers
  <2>1. ToSet(s) \subseteq Buffers
    BY <1>1, SetOf
  <2>2. QED
    BY <2>1 DEF Brought
<1>4. CASE ~IsSubOrParent(b)
  <2>1. Synced(m, b) = m /\ Brought(m, b) = {}
    BY <1>4, SyncedIs DEF Brought
  <2>2. QED
    BY <1>2, <2>1
<1>5. CASE IsSubOrParent(b)
  <2>1. PICK g \in [0..N -> MemType] :
           /\ g[0] = m
           /\ \A i \in 1..N : g[i] = SyncOne(g[i - 1], b, s[i])
           /\ SyncAll(m, b, s) = g[N]
    BY <1>1, SyncSteps
  <2> DEFINE T(i) == {o \in Buffers : MapsOther(m, b, o)
                                       /\ \E k \in 1..i : s[k] = o}
             Bad == {i \in 0..N : ~SyncedTo(m, g[i], T(i))}
  <2>2. Bad = {}
    <3> SUFFICES ASSUME Bad # {} PROVE FALSE
      OBVIOUS
    <3>1. PICK i \in Bad : \A j \in Bad : ~(j < i)
      <4>1. Bad \subseteq Nat
        OBVIOUS
      <4> HIDE DEF Bad
      <4> QED
        BY <4>1, LeastNatural
    <3>2. i \in 0..N /\ ~SyncedTo(m, g[i], T(i))
      OBVIOUS
    <3>3. CASE i = 0
      <4>1. T(i) = {}
        BY <3>3
      <4>2. QED
        BY <1>2, <2>1, <3>2, <3>3, <4>1
    <3>4. CASE i # 0
      <4>1. i \in 1..N /\ i - 1 \in 0..N /\ i - 1 < i
        BY <3>2, <3>4, <1>1
      <4>2. SyncedTo(m, g[i - 1], T(i - 1))
        <5>1. i - 1 \notin Bad
          <6> HIDE DEF Bad
          <6> QED
            BY <3>1, <4>1
        <5>2. QED
          BY <5>1, <4>1
      <4>3. s[i] \in Buffers /\ g[i - 1] \in MemType /\ T(i - 1) \in SUBSET Buffers
        BY <1>1, <2>1, <4>1
      <4>4. T(i) = IF MapsOther(m, b, s[i]) THEN T(i - 1) \cup {s[i]} ELSE T(i - 1)
        <5>1. 1..i = (1..(i - 1)) \cup {i}
          BY <1>1, <4>1
        <5>2. QED
          BY <4>3, <5>1
      <4>5. SyncedTo(m, SyncOne(g[i - 1], b, s[i]),
                     IF MapsOther(m, b, s[i]) THEN T(i - 1) \cup {s[i]}
                     ELSE T(i - 1))
        <5> HIDE DEF T
        <5> QED
          BY <4>2, <4>3, SyncOneTo
      <4>6. SyncedTo(m, g[i], T(i))
        <5> HIDE DEF T
        <5> QED
          BY <2>1, <4>1, <4>4, <4>5
      <4>7. QED
        BY <3>2, <4>6
    <3>5. QED
      BY <3>3, <3>4
  <2>3. SyncedTo(m, g[N], T(N))
    BY <2>2, <1>1
  <2>4. T(N) = Brought(m, b)
    <3>1. \A o : o \in ToSet(s) <=> \E k \in 1..N : s[k] = o
      BY <1>1, SetOf
    <3>2. QED
      BY <1>1, <1>5, <3>1 DEF Brought
  <2>5. Synced(m, b) = g[N]
    BY <1>5, <2>1, SyncedIs
  <2>6. g[N] \in MemType
    BY <1>1, <2>1
  <2> HIDE DEF T, N
  <2>7. QED
    BY <1>3, <2>3, <2>4, <2>5, <2>6
<1>6. QED
  BY <1>4, <1>5

----------------------------------------------------------------------------
(* The operations keep the objects sound.                                  *)

Context ==
    /\ SubsType /\ Regular(program)
    /\ ToSet(subs) \subseteq program.subs
    /\ program.subs \subseteq Buffers \ {Parent}
MapsType(M) == M \in [Buffers -> SUBSET (MapKinds \X SUBSET Cells)]
Whole(m, M) ==
    /\ m \in MemType /\ MapsType(M)
    /\ MapsSound(Objects, M, program) /\ Sound(Objects, m, M, program)

LEMMA ObjectsAre ==
    ASSUME Context
    PROVE  /\ Objects = ToSet(subs) \cup {Parent}
           /\ Objects \subseteq Buffers /\ Parent \in Objects
           /\ \A a, b \in Objects : a # b => program.subs # {}
           /\ \A b \in Objects : IsSubOrParent(b) => program.subs # {}
           /\ \A a, b \in Objects : a # b =>
                 IsSubOrParent(b) /\ a \in ToSet(Others(b))
<1>1. ToSet(subs) \subseteq Buffers \ {Parent} /\ Parent \in Buffers
  BY SetOf, SmallTypes DEF Context, SubsType
<1>2. Objects = ToSet(subs) \cup {Parent}
  BY <1>1 DEF Objects, Exists
<1>3. \A b \in Objects : b # Parent => b \in program.subs
  BY <1>2 DEF Context
<1>4. subs # <<>> => program.subs # {}
  <2>1. ASSUME subs # <<>> PROVE subs[1] \in ToSet(subs)
    <3>1. 1 \in 1..Len(subs)
      BY <2>1 DEF Context, SubsType
    <3>2. QED
      BY <3>1, SetOf DEF Context, SubsType
  <2>2. QED
    BY <2>1 DEF Context
<1>5. ASSUME NEW a \in Objects, NEW b \in Objects, a # b
      PROVE  IsSubOrParent(b) /\ a \in ToSet(Others(b))
  <2>1. ToSet(Others(b)) = ToSet(subs) \cup (IF b = Parent THEN {} ELSE {Parent})
    BY <1>1, <1>2, OthersMembers DEF Context
  <2>2. CASE b = Parent
    <3>1. a \in ToSet(subs)
      BY <1>2, <1>5, <2>2
    <3>2. subs # <<>>
      BY <3>1 DEF ToSet
    <3>3. QED
      BY <2>1, <3>1, <3>2 DEF IsSubOrParent
  <2>3. CASE b # Parent
    BY <1>2, <2>1, <2>3 DEF IsSubOrParent
  <2>4. QED
    BY <2>2, <2>3
<1>6. QED
  BY <1>1, <1>2, <1>3, <1>4, <1>5 DEF IsSubOrParent

(* The contents of objects are no part of what Sound says.                 *)
LEMMA SoundSame ==
    ASSUME NEW S, NEW m, NEW n, NEW M, NEW p, Sound(S, m, M, p),
           n.place = m.place, n.onHost = m.onHost, n.auto = m.auto,
           n.pending = m.pending, n.count = m.count
    PROVE  Sound(S, n, M, p)
<1>1. Counted(S, n, M) /\ AutoOnHost(S, n, p)
  BY DEF Sound, Counted, AutoOnHost
<1>2. WhyOnHost(S, n, M) /\ MappedPlaced(S, n, M)
  BY DEF Sound, WhyOnHost, MappedPlaced
<1>3. PendingUnused(n, M, p) /\ OneAway(S, n, M)
  BY DEF Sound, PendingUnused, OneAway
<1>4. QED
  BY <1>1, <1>2, <1>3 DEF Sound

LEMMA BroughtIs ==
    ASSUME Context, NEW m \in MemType, NEW b \in Objects,
           m.onHost[b] \/ b \in ReadOnly
    PROVE  /\ b \notin Brought(m, b)
           /\ \A o \in Brought(m, b) : ~m.onHost[o] /\ o \in Objects \ ReadOnly
                                       /\ Overlap(o, b) /\ program.subs # {}
           /\ \A a \in Objects \ ReadOnly :
                 (a # b /\ Overlap(a, b) /\ ~m.onHost[a]) => a \in Brought(m, b)
<1>1. ToSet(Others(b)) \subseteq Objects
  <2>1. b \in Buffers
    BY ObjectsAre
  <2>2. ToSet(Others(b)) \subseteq ToSet(subs) \cup {Parent}
    BY <2>1, OthersMembers DEF Context
  <2>3. QED
    BY <2>2, ObjectsAre
<1>2. b \notin Brought(m, b)
  BY DEF Brought, MapsOther
<1>3. ASSUME NEW o \in Brought(m, b)
      PROVE  ~m.onHost[o] /\ o \in Objects \ ReadOnly /\ Overlap(o, b)
             /\ program.subs # {}
  BY <1>1, ObjectsAre DEF Brought, MapsOther
<1>4. ASSUME NEW a \in Objects \ ReadOnly, a # b, Overlap(a, b), ~m.onHost[a]
      PROVE  a \in Brought(m, b)
  BY <1>4, ObjectsAre DEF Brought, MapsOther
<1>5. QED
  BY <1>2, <1>3, <1>4

LEMMA SyncedSound ==
    ASSUME Context, NEW m, NEW M, Whole(m, M), NEW b \in Objects,
           m.onHost[b] \/ b \in ReadOnly
    PROVE  LET s == Synced(m, b) IN
           /\ Whole(s, M)
           /\ \A a \in Objects \ ReadOnly :
                 (a # b /\ Overlap(a, b)) => s.onHost[a]
           /\ s.onHost[b] = m.onHost[b] /\ s.auto[b] = m.auto[b]
           /\ \A a \in Objects : m.onHost[a] => s.onHost[a]
<1> DEFINE s == Synced(m, b)
           T == Brought(m, b)
<1>1. /\ m \in MemType /\ MapsType(M) /\ MapsSound(Objects, M, program)
      /\ Sound(Objects, m, M, program) /\ b \in Buffers /\ SubsType
      /\ Objects \subseteq Buffers
  BY ObjectsAre DEF Whole, Context
<1>2. s \in MemType /\ T \subseteq Buffers /\ SyncedTo(m, s, T)
  BY <1>1, SyncedWhat
<1>3. /\ b \notin T
      /\ \A o \in T : ~m.onHost[o] /\ o \in Objects \ ReadOnly
                      /\ Overlap(o, b) /\ program.subs # {}
      /\ \A a \in Objects \ ReadOnly :
            (a # b /\ Overlap(a, b) /\ ~m.onHost[a]) => a \in T
  BY <1>1, BroughtIs
<1> HIDE DEF s, T
<1>4. /\ s.place = m.place /\ s.pending = m.pending /\ s.count = m.count
      /\ \A x \in Objects : s.onHost[x] <=> (m.onHost[x] \/ x \in T)
      /\ \A x \in Objects : s.auto[x] <=> (m.auto[x] \/ x \in T)
  BY <1>1, <1>2 DEF SyncedTo
<1>5. Counted(Objects, s, M) /\ AutoOnHost(Objects, s, program)
  BY <1>1, <1>3, <1>4 DEF Sound, Counted, AutoOnHost
<1>6. WhyOnHost(Objects, s, M) /\ MappedPlaced(Objects, s, M)
  BY <1>1, <1>4 DEF Sound, WhyOnHost, MappedPlaced
<1>7. PendingUnused(s, M, program)
  BY <1>1, <1>4 DEF Sound, PendingUnused
<1>8. OneAway(Objects, s, M)
  BY <1>1, <1>4 DEF Sound, OneAway
<1>9. Whole(s, M)
  BY <1>1, <1>2, <1>5, <1>6, <1>7, <1>8 DEF Whole, Sound
<1>10. s.onHost[b] = m.onHost[b] /\ s.auto[b] = m.auto[b]
  <2>1. /\ s.onHost[b] \in BOOLEAN /\ m.onHost[b] \in BOOLEAN
        /\ s.auto[b] \in BOOLEAN /\ m.auto[b] \in BOOLEAN
    BY <1>1, <1>2, MemFields
  <2>2. QED
    BY <1>3, <1>4, <2>1
<1>11. QED
  BY <1>3, <1>4, <1>9, <1>10 DEF s

(* Nothing that overlaps b is mapped.                                      *)
Unused(b, M) == \A a \in Buffers : Overlap(a, b) => M[a] = {}

LEMMA UnusedItself ==
    ASSUME NEW b \in Buffers, NEW M, Unused(b, M)
    PROVE  M[b] = {}
<1>1. Overlap(b, b)
  BY BuffersAssumption DEF Overlap
<1>2. QED
  BY <1>1 DEF Unused

(* The runtime takes an object off the host that it brought there.         *)
AutoUnmapped(m, b) == Unmapped(m, b, TRUE)

LEMMA AutoUnmapFields ==
    ASSUME Context, NEW m \in MemType, NEW M, Whole(m, M), NEW b \in Objects,
           m.auto[b], M[b] = {}
    PROVE  LET s == Synced(m, b)
               u == AutoUnmapped(m, b)
           IN /\ s \in MemType /\ u \in MemType
              /\ u.host = s.host /\ u.place = m.place /\ u.pending = m.pending
              /\ u.count = m.count
              /\ u.dev[b] = Paste(m.dev[b], Cover[b], s.host)
              /\ ~u.auto[b] /\ ~u.onHost[b]
              /\ \A x \in Buffers : x # b => /\ u.onHost[x] = s.onHost[x]
                                           /\ u.auto[x] = s.auto[x]
                                           /\ u.dev[x] = m.dev[x]
              /\ m.onHost[b] /\ program.subs # {}
<1> DEFINE s == Synced(m, b)
           u == AutoUnmapped(m, b)
           n == CountAfter(s, b, TRUE)
<1>1. /\ m \in MemType /\ b \in Buffers /\ SubsType
      /\ Sound(Objects, m, M, program)
  BY ObjectsAre DEF Whole, Context
<1>2. m.onHost[b] /\ program.subs # {} /\ m.count[b] = Cardinality(M[b])
  BY <1>1 DEF Sound, AutoOnHost, Counted
<1>3. s \in MemType /\ s.dev = m.dev /\ s.place = m.place
      /\ s.pending = m.pending /\ s.count = m.count
  BY <1>1, SyncedWhat DEF SyncedTo
<1>4. BeforeUnmap(m, b) = s
  BY <1>2 DEF BeforeUnmap
<1>5. n = 0
  BY <1>2, <1>3, FS_EmptySet DEF CountAfter
<1> HIDE DEF s, u, n
<1>6. /\ u \in MemType
      /\ u.host = s.host /\ u.place = s.place /\ u.pending = s.pending
      /\ u.dev = [s.dev EXCEPT ![b] = IF m.onHost[b]
                                      THEN Paste(s.dev[b], Cover[b], s.host)
                                      ELSE s.dev[b]]
      /\ u.auto = [s.auto EXCEPT ![b] = FALSE]
      /\ u.count = [s.count EXCEPT ![b] = n]
      /\ u.onHost = [s.onHost EXCEPT ![b] = IF n = 0 THEN FALSE ELSE s.onHost[b]]
  <2>1. TRUE \in BOOLEAN
    OBVIOUS
  <2>2. QED
    BY <1>1, <1>4, <2>1, UnmappedFields DEF u, n, AutoUnmapped
<1>7. u.count = m.count
  <2>1. m.count \in [Buffers -> Int] /\ m.count[b] = 0
    BY <1>1, <1>2, MemFields, FS_EmptySet
  <2>2. QED
    BY <1>3, <1>5, <1>6, <2>1
<1>8. /\ ~u.auto[b] /\ ~u.onHost[b]
      /\ \A x \in Buffers : x # b => /\ u.onHost[x] = s.onHost[x]
                                   /\ u.auto[x] = s.auto[x]
  <2>1. s.onHost \in [Buffers -> BOOLEAN] /\ s.auto \in [Buffers -> BOOLEAN]
    BY <1>3, MemFields
  <2>2. QED
    BY <1>1, <1>5, <1>6, <2>1
<1>9. /\ u.dev[b] = Paste(m.dev[b], Cover[b], s.host)
      /\ \A x \in Buffers : x # b => u.dev[x] = m.dev[x]
  <2>1. m.dev \in [Buffers -> [Cells -> Known]]
    BY <1>1, MemFields
  <2>2. QED
    BY <1>1, <1>2, <1>3, <1>6, <2>1
<1>10. QED
  BY <1>2, <1>3, <1>6, <1>7, <1>8, <1>9 DEF s, u

LEMMA AutoUnmapSound ==
    ASSUME Context, NEW m, NEW M, Whole(m, M), NEW b \in Objects,
           m.auto[b], Unused(b, M)
    PROVE  LET u == AutoUnmapped(m, b) IN
           /\ Whole(u, M)
           /\ ~u.onHost[b] /\ ~u.auto[b]
           /\ \A a \in Objects \ ReadOnly :
                 (a # b /\ Overlap(a, b)) => u.onHost[a]
<1> DEFINE s == Synced(m, b)
           u == AutoUnmapped(m, b)
<1>1. /\ m \in MemType /\ b \in Buffers /\ MapsType(M) /\ M[b] = {}
      /\ MapsSound(Objects, M, program) /\ Objects \subseteq Buffers
  BY ObjectsAre, UnusedItself DEF Whole
<1>2. /\ s \in MemType /\ u \in MemType
      /\ u.host = s.host /\ u.place = m.place /\ u.pending = m.pending
      /\ u.count = m.count
      /\ ~u.auto[b] /\ ~u.onHost[b]
      /\ \A x \in Buffers : x # b => u.onHost[x] = s.onHost[x]
                                     /\ u.auto[x] = s.auto[x]
      /\ m.onHost[b] /\ program.subs # {}
  BY <1>1, AutoUnmapFields
<1>3. /\ Whole(s, M)
      /\ \A a \in Objects \ ReadOnly : (a # b /\ Overlap(a, b)) => s.onHost[a]
  BY <1>2, SyncedSound
<1>4. s.place = m.place /\ s.pending = m.pending /\ s.count = m.count
  BY <1>1, SyncedWhat DEF SyncedTo, Context
<1> HIDE DEF s, u
<1>5. Sound(Objects, s, M, program)
  BY <1>3 DEF Whole
<1>7. /\ ~u.onHost[b] /\ ~u.auto[b]
      /\ \A x \in Objects : x # b => u.onHost[x] = s.onHost[x]
                                     /\ u.auto[x] = s.auto[x]
  BY <1>1, <1>2
<1>8. Counted(Objects, u, M) /\ MappedPlaced(Objects, u, M)
      /\ PendingUnused(u, M, program)
  BY <1>2, <1>4, <1>5 DEF Sound, Counted, MappedPlaced, PendingUnused
<1>9. AutoOnHost(Objects, u, program) /\ WhyOnHost(Objects, u, M)
  BY <1>2, <1>4, <1>5, <1>7 DEF Sound, AutoOnHost, WhyOnHost
<1>10. OneAway(Objects, u, M)
  <2> SUFFICES ASSUME NEW x \in Objects \ ReadOnly, NEW y \in Objects \ ReadOnly,
                      x # y, Overlap(x, y)
               PROVE  /\ u.onHost[x] \/ u.onHost[y]
                      /\ (M[y] # {} /\ ~u.auto[y]) => u.onHost[x]
    BY DEF OneAway
  <2>1. Overlap(y, x)
    BY DEF Overlap
  <2>2. CASE x = b
    <3>1. s.onHost[y] /\ M[y] = {}
      BY <1>1, <1>3, <2>1, <2>2 DEF Unused
    <3>2. QED
      BY <1>7, <2>2, <3>1
  <2>3. CASE y = b
    <3>1. s.onHost[x]
      BY <1>3, <2>3
    <3>2. QED
      BY <1>1, <1>7, <2>3, <3>1
  <2>4. CASE x # b /\ y # b
    BY <1>5, <1>7, <2>4 DEF Sound, OneAway
  <2>5. QED
    BY <2>2, <2>3, <2>4
<1>11. Whole(u, M)
  BY <1>1, <1>2, <1>8, <1>9, <1>10 DEF Whole, Sound
<1>12. \A a \in Objects \ ReadOnly : (a # b /\ Overlap(a, b)) => u.onHost[a]
  BY <1>3, <1>7
<1>13. QED
  BY <1>7, <1>11, <1>12 DEF u

(* The user gives up mapping x of b.                                       *)
UserUnmapped(m, b) == Unmapped(m, b, FALSE)

LEMMA UserUnmapSound ==
    ASSUME Context, NEW m, NEW M, Whole(m, M), NEW b \in Objects, NEW x \in M[b]
    PROVE  LET u == UserUnmapped(m, b)
               K == [M EXCEPT ![b] = @ \ {x}]
           IN /\ Whole(u, K)
              /\ ~u.auto[b] /\ (u.onHost[b] <=> m.onHost[b] /\ K[b] # {})
<1> DEFINE s == BeforeUnmap(m, b)
           u == UserUnmapped(m, b)
           n == CountAfter(s, b, FALSE)
           K == [M EXCEPT ![b] = M[b] \ {x}]
<1>1. /\ m \in MemType /\ b \in Buffers /\ MapsType(M)
      /\ MapsSound(Objects, M, program) /\ Objects \subseteq Buffers
      /\ Sound(Objects, m, M, program)
  BY ObjectsAre DEF Whole
<1>2. /\ Whole(s, M) /\ s.onHost[b] = m.onHost[b] /\ s.auto[b] = m.auto[b]
      /\ m.auto[b] => \A a \in Objects \ ReadOnly :
                         (a # b /\ Overlap(a, b)) => s.onHost[a]
      /\ s.count = m.count /\ s.place = m.place /\ s.pending = m.pending
  <2>1. m.auto[b] => m.onHost[b]
    BY <1>1 DEF Sound, AutoOnHost
  <2>2. CASE m.auto[b]
    <3>1. s = Synced(m, b)
      BY <2>1, <2>2 DEF BeforeUnmap
    <3> HIDE DEF s
    <3>2. s.count = m.count /\ s.place = m.place /\ s.pending = m.pending
      BY <1>1, <3>1, SyncedWhat DEF SyncedTo, Context
    <3>3. QED
      BY <2>1, <2>2, <3>1, <3>2, SyncedSound
  <2>3. CASE ~m.auto[b]
    BY <2>3 DEF BeforeUnmap
  <2>4. QED
    BY <2>2, <2>3
<1>3. /\ s \in MemType /\ u \in MemType /\ n \in Int
      /\ u.place = s.place /\ u.pending = s.pending
      /\ u.auto = [s.auto EXCEPT ![b] = FALSE]
      /\ u.count = [s.count EXCEPT ![b] = n]
      /\ u.onHost = [s.onHost EXCEPT ![b] = IF n = 0 THEN FALSE ELSE s.onHost[b]]
  <2>1. FALSE \in BOOLEAN
    OBVIOUS
  <2>2. QED
    BY <1>1, <2>1, UnmappedFields DEF Context, UserUnmapped
<1>4. n = Cardinality(M[b]) - 1
  BY <1>1, <1>2 DEF CountAfter, Sound, Counted
<1> HIDE DEF s, u, n
<1>5. /\ IsFiniteSet(K[b]) /\ n = Cardinality(K[b]) /\ (n = 0 <=> K[b] = {})
  <2>1. IsFiniteSet(M[b]) /\ K[b] = M[b] \ {x}
    BY <1>1 DEF MapsSound, MapsType
  <2>2. IsFiniteSet(K[b]) /\ Cardinality(K[b]) = Cardinality(M[b]) - 1
    BY <2>1, FS_RemoveElement
  <2>3. QED
    BY <1>4, <2>2, FS_EmptySet
<1>6. /\ MapsType(K) /\ \A a \in Buffers : K[a] \subseteq M[a]
      /\ \A a \in Buffers : a # b => K[a] = M[a]
  BY <1>1 DEF MapsType
<1> HIDE DEF K
<1>7. MapsSound(Objects, K, program)
  <2>1. \A a \in Buffers : IsFiniteSet(K[a])
    BY <1>1, <1>5, <1>6 DEF MapsSound
  <2>2. \A a \in Buffers : \A z \in K[a] :
          /\ a \in Objects /\ "map" \in program.does
          /\ z[2] # {} /\ z[2] \subseteq Cover[a]
          /\ "part" \notin program.does => z[2] = Cover[a]
    BY <1>1, <1>6 DEF MapsSound
  <2>3. \A a, c \in Buffers : (a # c /\ Overlap(a, c)) => (K[a] = {} \/ K[c] = {})
    BY <1>1, <1>6 DEF MapsSound
  <2>4. QED
    BY <2>1, <2>2, <2>3 DEF MapsSound
<1>8. Sound(Objects, s, M, program)
  BY <1>2 DEF Whole
<1>9. /\ s.onHost \in [Buffers -> BOOLEAN] /\ s.auto \in [Buffers -> BOOLEAN]
      /\ s.count \in [Buffers -> Int]
  BY <1>3, MemFields
<1>10. /\ ~u.auto[b] /\ (u.onHost[b] <=> m.onHost[b] /\ n # 0)
       /\ u.count[b] = n
       /\ \A a \in Objects : a # b => u.onHost[a] = s.onHost[a]
                /\ u.auto[a] = s.auto[a] /\ u.count[a] = s.count[a]
  <2>1. CASE n = 0
    BY <1>1, <1>2, <1>3, <1>9, <2>1
  <2>2. CASE n # 0
    BY <1>1, <1>2, <1>3, <1>9, <2>2
  <2>3. QED
    BY <2>1, <2>2
<1>11. Counted(Objects, u, K)
  BY <1>1, <1>5, <1>6, <1>8, <1>10 DEF Sound, Counted
<1>12. MappedPlaced(Objects, u, K)
  BY <1>1, <1>3, <1>6, <1>8 DEF Sound, MappedPlaced
<1>13. PendingUnused(u, K, program)
  <2>1. Parent \in Buffers
    BY SmallTypes
  <2>2. QED
    BY <1>3, <1>6, <1>8, <2>1 DEF Sound, PendingUnused
<1>14. AutoOnHost(Objects, u, program)
  BY <1>8, <1>10 DEF Sound, AutoOnHost
<1>15. WhyOnHost(Objects, u, K)
  BY <1>1, <1>3, <1>5, <1>6, <1>8, <1>10 DEF Sound, WhyOnHost
<1>16. OneAway(Objects, u, K)
  <2> SUFFICES ASSUME NEW y \in Objects \ ReadOnly, NEW z \in Objects \ ReadOnly,
                      y # z, Overlap(y, z)
               PROVE  /\ u.onHost[y] \/ u.onHost[z]
                      /\ (K[z] # {} /\ ~u.auto[z]) => u.onHost[y]
    BY DEF OneAway
  <2>0. M[b] # {} /\ Overlap(z, y) /\ y \in Buffers /\ z \in Buffers
    BY <1>1 DEF Overlap
  <2>1. \A a \in Objects \ ReadOnly :
           (a # b /\ Overlap(a, b) /\ b \notin ReadOnly) => s.onHost[a] /\ M[a] = {}
    BY <1>1, <1>2, <1>8, <2>0 DEF MapsSound, Sound, OneAway
  <2>2. CASE y = b
    <3>1. s.onHost[z] /\ K[z] = {}
      BY <1>6, <2>0, <2>1, <2>2
    <3>2. QED
      BY <1>10, <2>2, <3>1
  <2>3. CASE z = b
    <3>1. s.onHost[y]
      BY <2>1, <2>3
    <3>2. QED
      BY <1>10, <2>3, <3>1
  <2>4. CASE y # b /\ z # b
    BY <1>6, <1>8, <1>10, <2>0, <2>4 DEF Sound, OneAway
  <2>5. QED
    BY <2>2, <2>3, <2>4
<1>17. Whole(u, K)
  BY <1>3, <1>6, <1>7, <1>11, <1>12, <1>13, <1>14, <1>15, <1>16 DEF Whole, Sound
<1>18. QED
  BY <1>5, <1>10, <1>17 DEF u, K

(* An object is the source of a transfer.                                  *)
LEMMA AsSourceSound ==
    ASSUME Context, NEW m, NEW M, Whole(m, M), NEW b \in Objects
    PROVE  LET s == AsSource(m, b) IN
           /\ Whole(s, M)
           /\ (m.onHost[b] \/ b \in ReadOnly) =>
                 \A a \in Objects \ ReadOnly :
                    (a # b /\ Overlap(a, b)) => s.onHost[a]
           /\ b \notin ReadOnly => s.onHost[b] = m.onHost[b] /\ s.auto[b] = m.auto[b]
<1> DEFINE s == Synced(m, b)
           r == [s EXCEPT !.onHost[b] = TRUE]
<1>1. CASE ~m.onHost[b] /\ b \notin ReadOnly
  BY <1>1 DEF AsSource
<1>2. CASE m.onHost[b] \/ b \in ReadOnly
  <2>1. /\ Whole(s, M)
        /\ \A a \in Objects \ ReadOnly :
              (a # b /\ Overlap(a, b)) => s.onHost[a]
        /\ s.onHost[b] = m.onHost[b] /\ s.auto[b] = m.auto[b]
    BY <1>2, SyncedSound
  <2>2. CASE m.onHost[b]
    BY <2>1, <2>2 DEF AsSource
  <2>3. CASE ~m.onHost[b]
    <3>1. b \in Buffers /\ s \in MemType /\ Sound(Objects, s, M, program)
          /\ Objects \subseteq Buffers
      BY <2>1, ObjectsAre DEF Whole
    <3>2. AsSource(m, b) = r /\ b \in ReadOnly
      BY <1>2, <2>3 DEF AsSource
    <3> HIDE DEF s
    <3>3. /\ r \in MemType /\ r.onHost = [s.onHost EXCEPT ![b] = TRUE]
          /\ r.place = s.place /\ r.auto = s.auto
          /\ r.pending = s.pending /\ r.count = s.count
      BY <3>1, SetOnHostTrue
    <3>4. s.onHost \in [Buffers -> BOOLEAN]
      BY <3>1, MemFields
    <3> HIDE DEF r
    <3>5. r.onHost[b] /\ \A a \in Objects : a # b => r.onHost[a] = s.onHost[a]
      BY <3>1, <3>3, <3>4
    <3>6. Counted(Objects, r, M) /\ AutoOnHost(Objects, r, program)
      BY <3>1, <3>3, <3>5 DEF Sound, Counted, AutoOnHost
    <3>7. WhyOnHost(Objects, r, M) /\ MappedPlaced(Objects, r, M)
      BY <3>1, <3>2, <3>3, <3>5 DEF Sound, WhyOnHost, MappedPlaced
    <3>8. PendingUnused(r, M, program) /\ OneAway(Objects, r, M)
      BY <3>1, <3>2, <3>3, <3>5 DEF Sound, PendingUnused, OneAway
    <3>9. Whole(r, M)
      BY <2>1, <3>3, <3>6, <3>7, <3>8 DEF Whole, Sound
    <3>10. QED
      BY <2>1, <3>2, <3>5, <3>9
  <2>4. QED
    BY <2>2, <2>3
<1>3. QED
  BY <1>1, <1>2

(* ... and the destination.                                                *)
LEMMA AsDestinationSound ==
    ASSUME Context, NEW m, NEW M, Whole(m, M), NEW b \in Objects,
           m.auto[b] => Unused(b, M)
    PROVE  Whole(AsDestination(m, b), M)
<1>1. CASE m.auto[b]
  <2>1. m.onHost[b]
    BY <1>1, ObjectsAre DEF Whole, Sound, AutoOnHost
  <2>2. Whole(Synced(m, b), M) /\ Synced(m, b).auto[b]
    BY <1>1, <2>1, SyncedSound
  <2>3. Whole(AutoUnmapped(Synced(m, b), b), M)
    BY <1>1, <2>2, AutoUnmapSound
  <2>4. QED
    BY <1>1, <2>3 DEF AsDestination, AutoUnmapped
<1>2. CASE ~m.auto[b]
  BY <1>2 DEF AsDestination
<1>3. QED
  BY <1>1, <1>2

LEMMA StoredSound ==
    ASSUME Context, NEW m, NEW M, Whole(m, M), NEW b \in Objects, NEW C,
           NEW g \in [Cells -> Known]
    PROVE  Whole(Stored(m, b, C, g), M)
<1>1. m \in MemType /\ b \in Buffers /\ Sound(Objects, m, M, program)
  BY ObjectsAre DEF Whole
<1>2. m.host \in [Cells -> Known] /\ m.dev[b] \in [Cells -> Known]
  BY <1>1, MemFields
<1>3. /\ Paste(m.host, C, g) \in [Cells -> Known]
      /\ Paste(m.dev[b], C, g) \in [Cells -> Known]
  BY <1>2, PasteType
<1> DEFINE u == Stored(m, b, C, g)
<1>4. /\ u \in MemType /\ u.place = m.place /\ u.onHost = m.onHost
      /\ u.auto = m.auto /\ u.pending = m.pending /\ u.count = m.count
  <2>1. CASE m.onHost[b]
    <3>1. u = [m EXCEPT !.host = Paste(m.host, C, g)]
      BY <2>1 DEF Stored
    <3> HIDE DEF u
    <3>2. QED
      BY <1>1, <1>3, <3>1, SetHost
  <2>2. CASE ~m.onHost[b]
    <3>1. u = [m EXCEPT !.dev[b] = Paste(m.dev[b], C, g)]
      BY <2>2 DEF Stored
    <3> HIDE DEF u
    <3>2. QED
      BY <1>1, <1>3, <3>1, SetDev
  <2>3. QED
    BY <2>1, <2>2
<1> HIDE DEF u
<1>5. Sound(Objects, u, M, program)
  BY <1>1, <1>4, SoundSame
<1>6. QED
  BY <1>4, <1>5 DEF Whole, u

(* The first transfer of an object is enqueued.  Of the objects with a     *)
(* host pointer only a mapped one could be on the host here.               *)
LEMMA BoundFields ==
    ASSUME Context, NEW m, NEW M, Whole(m, M), NEW b \in Objects,
           NEW d \in Devices, ~(b = Parent /\ m.pending)
    PROVE  LET u == Bound(m, b, d) IN
           /\ u \in MemType
           /\ u.host = m.host /\ u.dev = m.dev /\ u.pending = m.pending
           /\ u.count = m.count /\ u.place[b] # NoDevice
           /\ \A a \in Buffers : a # b => /\ u.place[a] = m.place[a]
                                          /\ u.onHost[a] = m.onHost[a]
                                          /\ u.auto[a] = m.auto[a]
           /\ m.place[b] # NoDevice => u = m
           /\ (m.place[b] = NoDevice /\ IsSubOrParent(b)) => u.onHost[b] /\ u.auto[b]
           /\ ~IsSubOrParent(b) => /\ u.onHost[b] = m.onHost[b]
                                   /\ u.auto[b] = m.auto[b]
<1>1. /\ m \in MemType /\ b \in Buffers /\ Sound(Objects, m, M, program)
      /\ NoDevice \notin Devices
  BY ObjectsAre, BuffersAssumption DEF Whole
<1>2. CASE m.place[b] # NoDevice
  <2>1. Bound(m, b, d) = m
    BY <1>2 DEF Bound
  <2>2. QED
    BY <1>1, <1>2, <2>1
<1>3. CASE m.place[b] = NoDevice
  <2> DEFINE n == [m EXCEPT !.place[b] = d]
             r == [n EXCEPT !.auto[b] = TRUE]
             q == [r EXCEPT !.onHost[b] = TRUE]
  <2>1. /\ n \in MemType /\ n.place = [m.place EXCEPT ![b] = d]
        /\ n.host = m.host /\ n.dev = m.dev /\ n.onHost = m.onHost
        /\ n.auto = m.auto /\ n.pending = m.pending /\ n.count = m.count
    BY <1>1, SetPlace
  <2>2. Bound(m, b, d) = IF IsSubOrParent(b) THEN q
                         ELSE IF Does("host_ptr") /\ n.onHost[b]
                         THEN [UserUnmapped(n, b) EXCEPT !.pending = FALSE]
                         ELSE n
    BY <1>3 DEF Bound, UserUnmapped
  <2> HIDE DEF n
  <2>3. m.place \in [Buffers -> Devices \cup {NoDevice}]
        /\ m.onHost \in [Buffers -> BOOLEAN] /\ m.auto \in [Buffers -> BOOLEAN]
    BY <1>1, MemFields
  <2>4. /\ n.place[b] # NoDevice
        /\ \A a \in Buffers : a # b => n.place[a] = m.place[a]
    BY <1>1, <2>1, <2>3
  <2>5. CASE IsSubOrParent(b)
    <3>1. /\ r \in MemType /\ r.auto = [n.auto EXCEPT ![b] = TRUE]
          /\ r.host = n.host /\ r.dev = n.dev /\ r.place = n.place
          /\ r.onHost = n.onHost /\ r.pending = n.pending /\ r.count = n.count
      BY <1>1, <2>1, SetAutoTrue
    <3> HIDE DEF r
    <3>2. /\ q \in MemType /\ q.onHost = [r.onHost EXCEPT ![b] = TRUE]
          /\ q.host = r.host /\ q.dev = r.dev /\ q.place = r.place
          /\ q.auto = r.auto /\ q.pending = r.pending /\ q.count = r.count
      BY <1>1, <3>1, SetOnHostTrue
    <3> HIDE DEF q
    <3>3. /\ q.host = m.host /\ q.dev = m.dev /\ q.pending = m.pending
          /\ q.count = m.count /\ q.place = n.place
      BY <2>1, <3>1, <3>2
    <3>4. /\ q.onHost[b] /\ q.auto[b]
          /\ \A a \in Buffers : a # b => /\ q.onHost[a] = m.onHost[a]
                                         /\ q.auto[a] = m.auto[a]
      BY <1>1, <2>1, <2>3, <3>1, <3>2
    <3>5. Bound(m, b, d) = q
      BY <2>2, <2>5
    <3>6. QED
      BY <1>3, <2>4, <2>5, <3>2, <3>3, <3>4, <3>5
  <2>6. CASE ~IsSubOrParent(b)
    <3>1. b = Parent
      BY <2>6 DEF IsSubOrParent
    <3>2. ~(Does("host_ptr") /\ n.onHost[b])
      <4>1. M[b] = {}
        BY <1>1, <1>3 DEF Sound, MappedPlaced
      <4>2. m.onHost[b] => m.auto[b]
        BY <1>1, <3>1, <4>1, BuffersAssumption DEF Sound, WhyOnHost
      <4>3. m.auto[b] => program.subs # {}
        BY <1>1 DEF Sound, AutoOnHost
      <4>4. Does("host_ptr") => program.subs = {}
        BY DEF Context, Regular, Undivided, Does
      <4>5. QED
        BY <2>1, <4>2, <4>3, <4>4
    <3>3. Bound(m, b, d) = n
      BY <2>2, <2>6, <3>2
    <3>4. QED
      BY <1>3, <2>1, <2>4, <2>6, <3>3
  <2>7. QED
    BY <2>5, <2>6
<1>4. QED
  BY <1>2, <1>3

LEMMA BoundSound ==
    ASSUME Context, NEW m, NEW M, Whole(m, M), NEW b \in Objects,
           NEW d \in Devices, ~(b = Parent /\ m.pending)
    PROVE  Whole(Bound(m, b, d), M)
<1> DEFINE u == Bound(m, b, d)
<1>1. /\ m \in MemType /\ b \in Buffers /\ MapsType(M)
      /\ MapsSound(Objects, M, program) /\ Objects \subseteq Buffers
      /\ Sound(Objects, m, M, program) /\ Parent \in Buffers
      /\ IsSubOrParent(b) => program.subs # {}
  BY ObjectsAre, BuffersAssumption DEF Whole
<1>2. /\ u \in MemType /\ u.pending = m.pending /\ u.count = m.count
      /\ u.place[b] # NoDevice
      /\ \A a \in Buffers : a # b => /\ u.place[a] = m.place[a]
                                     /\ u.onHost[a] = m.onHost[a]
                                     /\ u.auto[a] = m.auto[a]
      /\ m.place[b] # NoDevice => u = m
      /\ (m.place[b] = NoDevice /\ IsSubOrParent(b)) => u.onHost[b] /\ u.auto[b]
      /\ ~IsSubOrParent(b) => /\ u.onHost[b] = m.onHost[b]
                              /\ u.auto[b] = m.auto[b]
  BY <1>1, BoundFields
<1> HIDE DEF u
<1>3. /\ u.onHost[b] => m.onHost[b] \/ u.auto[b]
      /\ u.auto[b] => (m.auto[b] \/ (program.subs # {} /\ u.onHost[b]))
      /\ m.onHost[b] => u.onHost[b]
      /\ m.auto[b] => u.auto[b]
  <2>1. CASE m.place[b] # NoDevice
    <3>1. u = m
      BY <1>2, <2>1
    <3>2. QED
      BY <3>1
  <2>2. CASE m.place[b] = NoDevice /\ IsSubOrParent(b)
    <3>1. u.onHost[b] /\ u.auto[b] /\ program.subs # {}
      BY <1>1, <1>2, <2>2
    <3>2. QED
      BY <3>1
  <2>3. CASE ~IsSubOrParent(b)
    <3>1. u.onHost[b] = m.onHost[b] /\ u.auto[b] = m.auto[b]
      BY <1>2, <2>3
    <3>2. QED
      BY <3>1
  <2>4. QED
    BY <2>1, <2>2, <2>3
<1>4. Counted(Objects, u, M)
  BY <1>1, <1>2 DEF Sound, Counted
<1>5. AutoOnHost(Objects, u, program)
  BY <1>1, <1>2, <1>3 DEF Sound, AutoOnHost
<1>6. WhyOnHost(Objects, u, M)
  BY <1>1, <1>2, <1>3 DEF Sound, WhyOnHost
<1>7. MappedPlaced(Objects, u, M)
  BY <1>1, <1>2 DEF Sound, MappedPlaced
<1>8. PendingUnused(u, M, program)
  BY <1>1, <1>2 DEF Sound, PendingUnused
<1>9. \A a \in Objects : (m.onHost[a] => u.onHost[a]) /\ (m.auto[a] => u.auto[a])
  BY <1>1, <1>2, <1>3
<1>10. OneAway(Objects, u, M)
  BY <1>1, <1>9 DEF Sound, OneAway
<1>11. QED
  BY <1>1, <1>2, <1>4, <1>5, <1>6, <1>7, <1>8, <1>10 DEF Whole, Sound, u

(* What is not mapped in the cells C of b is not mapped at all.            *)
LEMMA UnusedFrom ==
    ASSUME Context, MapsSound(Objects, maps, program), program.subs # {},
           NEW b \in Objects, NEW C, MayRead(C) \/ MayWrite(C),
           C \subseteq Cover[b], "part" \notin program.does => C = Cover[b],
           TypeOK
    PROVE  Unused(b, maps)
<1>1. MayWrite(C)
  BY DEF MayRead, MayWrite, Context, Regular, Undivided, Does
<1>2. ASSUME NEW a \in Buffers, Overlap(a, b), maps[a] # {} PROVE FALSE
  <2>1. PICK x \in maps[a] : TRUE
    BY <1>2
  <2>2. "map" \in program.does /\ ("part" \notin program.does => x[2] = Cover[a])
    BY <2>1 DEF MapsSound
  <2>3. x[2] = Cover[a] /\ C = Cover[b]
    BY <2>2 DEF Context, Regular, Undivided
  <2>4. x \in MapKinds \X SUBSET Cells
    BY <2>1 DEF TypeOK
  <2>5. x[2] \subseteq MappedCells(MapKinds)
    BY <2>1, <2>4 DEF MappedCells
  <2>6. QED
    BY <1>1, <1>2, <2>3, <2>5 DEF MayWrite, Overlap
<1>3. QED
  BY <1>2 DEF Unused

(* The user maps R of b.                                                   *)
LEMMA MapsMore ==
    ASSUME Context, TypeOK, MapsSound(Objects, maps, program),
           NEW b \in Objects, NEW k \in MapKinds, NEW R \in Regions(b),
           MayMap(b, k, R), "map" \in program.does
    PROVE  LET K == [maps EXCEPT ![b] = @ \cup {<<k, R>>}] IN
           /\ MapsType(K) /\ MapsSound(Objects, K, program)
           /\ R # {} /\ R \subseteq Cover[b]
<1> DEFINE K == [maps EXCEPT ![b] = maps[b] \cup {<<k, R>>}]
<1>1. /\ b \in Buffers /\ maps \in [Buffers -> SUBSET (MapKinds \X SUBSET Cells)]
      /\ R # {} /\ R \subseteq Cover[b] /\ ("part" \notin program.does => R = Cover[b])
      /\ Cover[b] \subseteq Cells /\ Objects \subseteq Buffers
  <2>1. b \in Buffers /\ Objects \subseteq Buffers
    BY ObjectsAre
  <2>2. Cover[b] \subseteq Cells /\ Cover[b] # {}
    BY <2>1, BuffersAssumption
  <2>3. R # {} /\ R \subseteq Cover[b] /\ ("part" \notin program.does => R = Cover[b])
    <3>1. CASE Does("part")
      <4>1. R \in (SUBSET Cover[b]) \ {{}}
        BY <3>1 DEF Regions
      <4>2. QED
        BY <3>1, <4>1 DEF Does
    <3>2. CASE ~Does("part")
      <4>1. R \in {Cover[b]}
        BY <3>2 DEF Regions
      <4>2. QED
        BY <2>2, <4>1
    <3>3. QED
      BY <3>1, <3>2
  <2>4. QED
    BY <2>1, <2>2, <2>3 DEF TypeOK
<1>2. /\ K[b] = maps[b] \cup {<<k, R>>} /\ MapsType(K)
      /\ \A a \in Buffers : a # b => K[a] = maps[a]
  BY <1>1 DEF MapsType
<1> HIDE DEF K
<1>3. \A a \in Buffers : IsFiniteSet(K[a])
  <2>1. IsFiniteSet(maps[b])
    BY <1>1 DEF MapsSound
  <2>3. IsFiniteSet(K[b])
    BY <1>2, <2>1, FS_AddElement
  <2>2. QED
    BY <1>2, <2>3 DEF MapsSound
<1>4. \A a \in Buffers : \A x \in K[a] :
         /\ a \in Objects /\ "map" \in program.does
         /\ x[2] # {} /\ x[2] \subseteq Cover[a]
         /\ "part" \notin program.does => x[2] = Cover[a]
  BY <1>1, <1>2 DEF MapsSound
<1>5. ASSUME NEW a \in Buffers, a # b, Overlap(a, b) PROVE maps[a] = {}
  <2> SUFFICES ASSUME NEW x \in maps[a] PROVE FALSE
    OBVIOUS
  <2>1. a \in Objects /\ ("part" \notin program.does => x[2] = Cover[a])
    BY DEF MapsSound
  <2>2. program.subs # {}
    BY <1>5, <2>1, ObjectsAre
  <2>3. "part" \notin program.does /\ ~Does("read_mapped")
    BY <2>2 DEF Context, Regular, Undivided, Does
  <2>4. x[2] \cap R # {}
    BY <1>1, <1>5, <2>1, <2>3 DEF Overlap
  <2>5. QED
    BY <1>1, <1>5, <2>3, <2>4 DEF MayMap
<1>6. \A a, c \in Buffers : (a # c /\ Overlap(a, c)) => (K[a] = {} \/ K[c] = {})
  <2> SUFFICES ASSUME NEW a \in Buffers, NEW c \in Buffers, a # c, Overlap(a, c)
               PROVE  K[a] = {} \/ K[c] = {}
    OBVIOUS
  <2>1. Overlap(c, a)
    BY DEF Overlap
  <2>2. CASE a = b \/ c = b
    BY <1>2, <1>5, <2>1, <2>2
  <2>3. CASE a # b /\ c # b
    BY <1>2, <2>3 DEF MapsSound
  <2>4. QED
    BY <2>2, <2>3
<1>7. QED
  BY <1>1, <1>2, <1>3, <1>4, <1>6 DEF MapsSound, K

LEMMA MappedSound ==
    ASSUME Context, TypeOK, NEW m, Whole(m, maps), NEW b \in Objects,
           NEW k \in MapKinds, NEW R \in Regions(b), MayMap(b, k, R),
           "map" \in program.does, <<k, R>> \notin maps[b],
           m.place[b] # NoDevice, ~(b = Parent /\ m.pending)
    PROVE  Whole(Mapped(m, b, k), [maps EXCEPT ![b] = @ \cup {<<k, R>>}])
<1> DEFINE t == BeforeMap(m, b, k)
           s == AsSource(m, b)
           u == Mapped(m, b, k)
           K == [maps EXCEPT ![b] = maps[b] \cup {<<k, R>>}]
<1>1. /\ m \in MemType /\ b \in Buffers /\ MapsType(maps)
      /\ MapsSound(Objects, maps, program) /\ Objects \subseteq Buffers
      /\ Sound(Objects, m, maps, program) /\ Parent \in Buffers /\ SubsType
  BY ObjectsAre, BuffersAssumption DEF Whole, Context
<1>2. /\ MapsType(K) /\ MapsSound(Objects, K, program)
      /\ K[b] = maps[b] \cup {<<k, R>>}
      /\ \A a \in Buffers : a # b => K[a] = maps[a]
  <2>1. K[b] = maps[b] \cup {<<k, R>>} /\ \A a \in Buffers : a # b => K[a] = maps[a]
    BY <1>1 DEF MapsType
  <2>2. MapsType(K) /\ MapsSound(Objects, K, program)
    BY <1>1, MapsMore
  <2>3. QED
    BY <2>1, <2>2
<1> HIDE DEF K
<1>3. /\ t \in MemType /\ u \in MemType
      /\ u.place = t.place /\ u.auto = t.auto /\ u.pending = t.pending
      /\ u.count[b] = t.count[b] + 1
      /\ u.onHost[b] <=> (k # "read" \/ t.onHost[b])
      /\ \A x \in Buffers : x # b => /\ u.onHost[x] = t.onHost[x]
                                     /\ u.count[x] = t.count[x]
  <2>1. SubsType /\ m \in MemType /\ b \in Buffers
    BY <1>1
  <2> HIDE DEF t, u
  <2>2. QED
    BY <2>1, MappedFields DEF t, u
<1>4. /\ Whole(s, maps)
      /\ (m.onHost[b] \/ b \in ReadOnly) =>
            \A a \in Objects \ ReadOnly : (a # b /\ Overlap(a, b)) => s.onHost[a]
      /\ b \notin ReadOnly => s.onHost[b] = m.onHost[b] /\ s.auto[b] = m.auto[b]
      /\ s.place = m.place /\ s.pending = m.pending
  <2>1. s.place = m.place /\ s.pending = m.pending
    <3> DEFINE y == Synced(m, b)
               r == [y EXCEPT !.onHost[b] = TRUE]
    <3>1. y \in MemType /\ y.place = m.place /\ y.pending = m.pending
      BY <1>1, SyncedWhat DEF SyncedTo
    <3>2. s = m \/ s = y \/ s = r
      BY DEF AsSource
    <3> HIDE DEF y, s
    <3>3. r.place = y.place /\ r.pending = y.pending
      BY <1>1, <3>1, SetOnHostTrue
    <3>4. QED
      BY <3>1, <3>2, <3>3
  <2>2. QED
    BY <2>1, AsSourceSound
<1>5. \/ k # "invalidate" /\ t.place = s.place /\ t.onHost = s.onHost
         /\ t.auto = s.auto /\ t.pending = s.pending /\ t.count = s.count
      \/ k = "invalidate" /\ t = m
  <2> DEFINE P == Paste(s.host, Cover[b], Source(s, b))
             r == [s EXCEPT !.host = P]
  <2>1. t = IF k = "invalidate" THEN m ELSE r
    BY DEF BeforeMap
  <2>2. s \in MemType
    BY <1>4 DEF Whole
  <2> HIDE DEF s
  <2>3. P \in [Cells -> Known]
    <3>1. s.host \in [Cells -> Known] /\ Source(s, b) \in [Cells -> Known]
      BY <1>1, <2>2, MemFields, SourceType
    <3>2. QED
      BY <3>1, PasteType
  <2> HIDE DEF P
  <2>4. /\ r.place = s.place /\ r.onHost = s.onHost
        /\ r.auto = s.auto /\ r.pending = s.pending /\ r.count = s.count
    BY <2>2, <2>3, SetHost
  <2> HIDE DEF r, t
  <2>5. QED
    BY <2>1, <2>4
<1>6. Sound(Objects, s, maps, program)
  BY <1>4 DEF Whole
<1> HIDE DEF s, t, u
<1>7. Sound(Objects, t, maps, program) /\ t.place = m.place /\ t.pending = m.pending
  BY <1>1, <1>4, <1>5, <1>6, SoundSame
<1>8. /\ t.count \in [Buffers -> Int] /\ t.onHost \in [Buffers -> BOOLEAN]
  BY <1>3, MemFields
<1>9. /\ u.count[b] = t.count[b] + 1
      /\ u.onHost[b] <=> (k # "read" \/ t.onHost[b])
      /\ \A a \in Objects : a # b => u.onHost[a] = t.onHost[a]
                                     /\ u.count[a] = t.count[a]
  BY <1>1, <1>3, <1>8
<1>10. Counted(Objects, u, K)
  <2>1. Cardinality(K[b]) = Cardinality(maps[b]) + 1
    <3>1. IsFiniteSet(maps[b])
      BY <1>1 DEF MapsSound
    <3>2. QED
      BY <1>2, <3>1, FS_AddElement
  <2>2. QED
    BY <1>1, <1>2, <1>7, <1>9, <2>1 DEF Sound, Counted
<1>11. AutoOnHost(Objects, u, program)
  BY <1>3, <1>7, <1>9 DEF Sound, AutoOnHost
<1>12. WhyOnHost(Objects, u, K)
  <2>1. K[b] # {}
    BY <1>2
  <2>2. QED
    BY <1>1, <1>2, <1>3, <1>7, <1>9, <2>1 DEF Sound, WhyOnHost
<1>13. MappedPlaced(Objects, u, K)
  BY <1>1, <1>2, <1>3, <1>7 DEF Sound, MappedPlaced
<1>14. PendingUnused(u, K, program)
  BY <1>1, <1>2, <1>3, <1>7 DEF Sound, PendingUnused
<1>15. OneAway(Objects, u, K)
  <2>1. ASSUME NEW a \in Objects \ ReadOnly, a # b, Overlap(a, b),
               b \notin ReadOnly, ~t.auto[b]
        PROVE  t.onHost[a]
    <3>1. t.onHost[b] => (k # "invalidate" \/ maps[b] # {})
      <4>1. k = "invalidate" => t = m
        BY <1>5
      <4>2. QED
        BY <1>1, <2>1, <4>1 DEF Sound, WhyOnHost
    <3>2. ~t.onHost[b] => t.onHost[a]
      BY <1>7, <2>1 DEF Sound, OneAway
    <3>3. maps[b] # {} => t.onHost[a]
      BY <1>7, <2>1 DEF Sound, OneAway
    <3>4. (k # "invalidate" /\ t.onHost[b]) => t.onHost[a]
      BY <1>4, <1>5, <2>1
    <3>5. QED
      BY <3>1, <3>2, <3>3, <3>4
  <2> SUFFICES ASSUME NEW x \in Objects \ ReadOnly, NEW y \in Objects \ ReadOnly,
                      x # y, Overlap(x, y)
               PROVE  /\ u.onHost[x] \/ u.onHost[y]
                      /\ (K[y] # {} /\ ~u.auto[y]) => u.onHost[x]
    BY DEF OneAway
  <2>2. \A a \in Objects : t.onHost[a] => u.onHost[a]
    BY <1>9
  <2>3. t.onHost[x] \/ t.onHost[y]
    BY <1>7 DEF Sound, OneAway
  <2>4. CASE y = b
    BY <1>3, <2>1, <2>2, <2>3, <2>4
  <2>5. CASE y # b
    BY <1>1, <1>2, <1>3, <1>7, <2>2, <2>3, <2>5 DEF Sound, OneAway
  <2>6. QED
    BY <2>4, <2>5
<1>16. QED
  BY <1>2, <1>3, <1>10, <1>11, <1>12, <1>13, <1>14, <1>15 DEF Whole, Sound, u, K

(* b is moved to d.                                                        *)
LEMMA MigratedSound ==
    ASSUME Context, NEW m, NEW M, Whole(m, M), NEW b \in Objects,
           NEW d \in Devices, m.auto[b] => Unused(b, M)
    PROVE  Whole(Migrated(m, b, d), M)
<1> DEFINE n == Placed(m, b, d)
           s == Freed(m, b, d)
           u == Migrated(m, b, d)
<1>1. /\ m \in MemType /\ b \in Buffers /\ MapsType(M) /\ SubsType
      /\ MapsSound(Objects, M, program) /\ Objects \subseteq Buffers
      /\ Sound(Objects, m, M, program) /\ Parent \in Buffers
      /\ NoDevice \notin Devices
  BY ObjectsAre, BuffersAssumption DEF Whole, Context
<1>2. /\ n \in MemType
      /\ n.place = [m.place EXCEPT ![b] = IF m.place[b] = NoDevice THEN d
                                          ELSE m.place[b]]
      /\ n.onHost = m.onHost
      /\ n.auto = m.auto /\ n.pending = m.pending /\ n.count = m.count
  BY <1>1, PlacedFields
<1>3. s = IF n.auto[b] THEN AutoUnmapped(n, b) ELSE n
  BY DEF Freed, AutoUnmapped
<1>4. /\ s \in MemType /\ u \in MemType /\ u.auto = s.auto /\ u.count = s.count
      /\ u.place[b] = d /\ Elsewhere(u.place, s.place, b)
      /\ Elsewhere(u.onHost, s.onHost, b)
  BY <1>1, MigratedFields
<1>10. s.place[b] # d => u.onHost = s.onHost /\ u.pending = s.pending
  BY <1>1, MigratedFields
<1>11. (s.place[b] = d /\ b = Parent /\ s.pending) => ~u.onHost[b] /\ ~u.pending
  BY <1>1, MigratedFields
<1>12. (s.place[b] = d /\ ~(b = Parent /\ s.pending)) => u = s
  BY <1>1, MigratedFields
<1> HIDE DEF n, s, u
<1>5. m.place \in [Buffers -> Devices \cup {NoDevice}]
  BY <1>1, MemFields
<1>6. n.place[b] # NoDevice /\ \A a \in Buffers : a # b => n.place[a] = m.place[a]
  BY <1>1, <1>2, <1>5
<1>7. CASE b = Parent /\ m.pending
  <2>1. /\ m.place[b] = NoDevice /\ M[b] = {} /\ program.subs = {}
    BY <1>1, <1>7 DEF Sound, PendingUnused, Context, Regular, Undivided
  <2>2. Objects = {b} /\ ~m.auto[b]
    BY <1>1, <1>7, <2>1, ObjectsAre DEF Sound, AutoOnHost
  <2>3. s = n /\ n.place[b] = d
    BY <1>1, <1>2, <1>3, <1>5, <2>1, <2>2
  <2>4. ~u.onHost[b] /\ ~u.pending /\ u.auto = n.auto /\ u.count = n.count
    BY <1>2, <1>4, <1>7, <1>11, <2>3
  <2>5. Counted(Objects, u, M) /\ AutoOnHost(Objects, u, program)
    BY <1>1, <1>2, <2>2, <2>4 DEF Sound, Counted, AutoOnHost
  <2>6. WhyOnHost(Objects, u, M) /\ MappedPlaced(Objects, u, M)
    BY <2>1, <2>2, <2>4 DEF WhyOnHost, MappedPlaced
  <2>7. PendingUnused(u, M, program) /\ OneAway(Objects, u, M)
    BY <2>2, <2>4 DEF PendingUnused, OneAway
  <2>8. QED
    BY <1>1, <1>4, <2>5, <2>6, <2>7 DEF Whole, Sound, u
<1>8. CASE ~(b = Parent /\ m.pending)
  <2>1. Sound(Objects, n, M, program)
    <3>1. Counted(Objects, n, M) /\ AutoOnHost(Objects, n, program)
      BY <1>1, <1>2 DEF Sound, Counted, AutoOnHost
    <3>2. WhyOnHost(Objects, n, M)
      BY <1>1, <1>2 DEF Sound, WhyOnHost
    <3>3. MappedPlaced(Objects, n, M)
      BY <1>1, <1>6 DEF Sound, MappedPlaced
    <3>4. PendingUnused(n, M, program)
      BY <1>1, <1>2, <1>6, <1>8 DEF Sound, PendingUnused
    <3>5. OneAway(Objects, n, M)
      BY <1>1, <1>2 DEF Sound, OneAway
    <3>6. QED
      BY <3>1, <3>2, <3>3, <3>4, <3>5 DEF Sound
  <2>2. Whole(n, M)
    BY <1>1, <1>2, <2>1 DEF Whole
  <2>3. Whole(s, M) /\ s.place = n.place /\ s.pending = n.pending
    <3>1. CASE n.auto[b]
      <4>1. Unused(b, M) /\ s = AutoUnmapped(n, b)
        BY <1>2, <1>3, <3>1
      <4>2. M[b] = {}
        BY <1>1, <4>1, UnusedItself
      <4>3. QED
        BY <1>2, <2>2, <3>1, <4>1, <4>2, AutoUnmapFields, AutoUnmapSound
    <3>2. CASE ~n.auto[b]
      BY <1>3, <2>2, <3>2
    <3>3. QED
      BY <3>1, <3>2
  <2>4. Sound(Objects, s, M, program)
    BY <2>3 DEF Whole
  <2>5. CASE s.place[b] # d
    <3>1. /\ u.onHost = s.onHost
          /\ u.pending = s.pending /\ u.auto = s.auto /\ u.count = s.count
      BY <1>4, <1>10, <2>5
    <3>3. u.place[b] # NoDevice /\ \A a \in Buffers : a # b => u.place[a] = s.place[a]
      BY <1>1, <1>4 DEF Elsewhere
    <3>4. Counted(Objects, u, M) /\ AutoOnHost(Objects, u, program)
      BY <2>4, <3>1 DEF Sound, Counted, AutoOnHost
    <3>5. WhyOnHost(Objects, u, M)
      BY <2>4, <3>1 DEF Sound, WhyOnHost
    <3>6. MappedPlaced(Objects, u, M)
      BY <1>1, <2>4, <3>3 DEF Sound, MappedPlaced
    <3>7. PendingUnused(u, M, program)
      BY <1>1, <1>2, <1>8, <2>3, <2>4, <3>1, <3>3 DEF Sound, PendingUnused
    <3>8. OneAway(Objects, u, M)
      BY <2>4, <3>1 DEF Sound, OneAway
    <3>9. QED
      BY <1>1, <1>4, <3>4, <3>5, <3>6, <3>7, <3>8 DEF Whole, Sound, u
  <2>6. CASE s.place[b] = d
    <3>1. u = s
      BY <1>2, <1>8, <1>12, <2>3, <2>6
    <3>2. QED
      BY <2>3, <3>1 DEF u
  <2>7. QED
    BY <2>5, <2>6
<1>9. QED
  BY <1>7, <1>8

LEMMA SubmittedSound ==
    ASSUME Context, NEW m, NEW M, Whole(m, M), NEW args
    PROVE  Whole(Submitted(m, args), M)
<1>1. /\ m \in MemType /\ Sound(Objects, m, M, program) /\ Parent \in Buffers
      /\ Parent \in Objects
  BY ObjectsAre, BuffersAssumption DEF Whole
<1> DEFINE u == [m EXCEPT !.onHost[Parent] = FALSE]
<1>2. /\ u \in MemType /\ ~u.onHost[Parent]
      /\ u.place = m.place /\ u.auto = m.auto
      /\ u.pending = m.pending /\ u.count = m.count
  <2>1. /\ u \in MemType /\ u.onHost = [m.onHost EXCEPT ![Parent] = FALSE]
        /\ u.place = m.place /\ u.auto = m.auto
        /\ u.pending = m.pending /\ u.count = m.count
    BY <1>1, SetOnHostFalse
  <2> HIDE DEF u
  <2>2. m.onHost \in [Buffers -> BOOLEAN]
    BY <1>1, MemFields
  <2>3. QED
    BY <1>1, <2>1, <2>2
<1> HIDE DEF u
<1>3. CASE Does("host_ptr")
  <2>1. program.subs = {} /\ Objects = {Parent}
    BY <1>1, <1>3, ObjectsAre DEF Context, Regular, Undivided, Does
  <2>2. Counted(Objects, u, M) /\ AutoOnHost(Objects, u, program)
    BY <1>1, <1>2, <2>1 DEF Sound, Counted, AutoOnHost
  <2>3. WhyOnHost(Objects, u, M) /\ MappedPlaced(Objects, u, M)
    BY <1>1, <1>2, <2>1 DEF Sound, WhyOnHost, MappedPlaced
  <2>4. PendingUnused(u, M, program) /\ OneAway(Objects, u, M)
    BY <1>1, <1>2, <2>1 DEF Sound, PendingUnused, OneAway
  <2>5. Whole(u, M)
    BY <1>2, <2>2, <2>3, <2>4 DEF Whole, Sound
  <2>6. QED
    BY <2>5 DEF Submitted, u
<1>4. CASE ~Does("host_ptr")
  BY <1>4 DEF Submitted
<1>5. QED
  BY <1>3, <1>4

LEMMA KernelMemSound ==
    ASSUME Context, TypeOK, Whole(mem, maps), NEW args \in KernelArgs,
           NEW d \in Devices, \A b \in ToSet(args) : Exists(b),
           MayRead(CellsOf(ToSet(args)))
    PROVE  Whole(KernelMem(args, d), maps)
<1>1. args \in Seq(Buffers) /\ SubsType
  BY ArgsAssumption DEF Context
<1> DEFINE N == Len(args)
           m == Submitted(mem, args)
<1>2. N \in Nat /\ \A i \in 1..N : args[i] \in Objects
  <2>1. \A i \in 1..N : args[i] \in ToSet(args) /\ args[i] \in Buffers
    BY <1>1, SetOf
  <2>2. QED
    BY <1>1, <2>1 DEF Objects
<1>3. ASSUME program.subs # {}, NEW b \in ToSet(args) PROVE Unused(b, maps)
  <2>1. b \in Objects /\ MapsSound(Objects, maps, program)
    BY <1>1, SetOf DEF Objects, Whole
  <2>2. MayRead(Cover[b])
    BY DEF MayRead, CellsOf
  <2>3. QED
    BY <1>3, <2>1, <2>2, UnusedFrom
<1>4. m \in MemType /\ Whole(m, maps)
  BY SubmittedSound DEF Whole
<1> HIDE DEF m
<1>5. PICK g \in [0..N -> MemType] :
         /\ g[0] = m
         /\ \A i \in 1..N : g[i] = Migrated(g[i - 1], args[i], d)
         /\ MigrateAll(m, args, d) = g[N]
  BY <1>1, <1>4, MigrateSteps
<1> DEFINE Bad == {i \in 0..N : ~Whole(g[i], maps)}
<1>6. Bad = {}
  <2> SUFFICES ASSUME Bad # {} PROVE FALSE
    OBVIOUS
  <2>1. PICK i \in Bad : \A j \in Bad : ~(j < i)
    <3>1. Bad \subseteq Nat
      BY <1>2
    <3> HIDE DEF Bad
    <3> QED
      BY <3>1, LeastNatural
  <2>2. i \in 0..N /\ ~Whole(g[i], maps)
    OBVIOUS
  <2>3. CASE i = 0
    BY <1>4, <1>5, <2>2, <2>3
  <2>4. CASE i # 0
    <3>1. i \in 1..N /\ i - 1 \in 0..N /\ i - 1 < i
      BY <1>2, <2>2, <2>4
    <3>2. Whole(g[i - 1], maps)
      <4>1. i - 1 \notin Bad
        <5> HIDE DEF Bad
        <5> QED
          BY <2>1, <3>1
      <4>2. QED
        BY <3>1, <4>1
    <3>3. args[i] \in Objects /\ args[i] \in ToSet(args)
      BY <1>1, <1>2, <3>1, SetOf
    <3>4. g[i - 1].auto[args[i]] => Unused(args[i], maps)
      <4>1. g[i - 1].auto[args[i]] => program.subs # {}
        BY <3>2, <3>3 DEF Whole, Sound, AutoOnHost
      <4>2. QED
        BY <1>3, <3>3, <4>1
    <3>5. Whole(Migrated(g[i - 1], args[i], d), maps)
      BY <3>2, <3>3, <3>4, MigratedSound
    <3>6. QED
      BY <1>5, <2>2, <3>1, <3>5
  <2>5. QED
    BY <2>3, <2>4
<1>7. Whole(g[N], maps)
  BY <1>2, <1>6
<1>8. KernelMem(args, d) = g[N]
  BY <1>5, KernelMemIs DEF m
<1>9. QED
  BY <1>7, <1>8

----------------------------------------------------------------------------
(* Every step keeps the objects sound.                                     *)

LEMMA ContextFrom ==
    ASSUME TypeOK, Structure, Regular(program)
    PROVE  Context /\ Whole(mem, maps)
<1>1. Context
  BY ProgramOn DEF Structure, Context
<1>2. Whole(mem, maps)
  BY ProgramOn DEF Structure, Whole, MapsType
<1>3. QED
  BY <1>1, <1>2

LEMMA StructureFrom ==
    ASSUME Structure, UNCHANGED <<subs, program>>,
           prog'.todo \subseteq Objects, prog'.stage = "none" => prog'.todo = {},
           Regular(program) => Whole(mem', maps')
    PROVE  Structure'
<1>1. Objects' = Objects
  BY DEF Objects, Exists
<1>2. Regular(program') => /\ MapsSound(Objects', maps', program')
                           /\ Sound(Objects', mem', maps', program')
  BY <1>1 DEF Whole
<1>3. ToSet(subs') \subseteq program'.subs
  BY DEF Structure
<1>4. Structure' = /\ ToSet(subs') \subseteq program'.subs
                   /\ prog'.todo \subseteq Objects'
                   /\ prog'.stage = "none" => prog'.todo = {}
                   /\ Regular(program') =>
                        /\ MapsSound(Objects', maps', program')
                        /\ Sound(Objects', mem', maps', program')
  BY DEF Structure
<1>5. QED
  BY <1>1, <1>2, <1>3, <1>4

LEMMA RegionsAre ==
    ASSUME NEW b \in Buffers, NEW R \in Regions(b)
    PROVE  R # {} /\ R \subseteq Cover[b] /\ ("part" \notin program.does => R = Cover[b])
<1>1. Cover[b] # {}
  BY BuffersAssumption
<1>2. CASE Does("part")
  <2>1. R \in (SUBSET Cover[b]) \ {{}}
    BY <1>2 DEF Regions
  <2>2. QED
    BY <1>2, <2>1 DEF Does
<1>3. CASE ~Does("part")
  <2>1. R \in {Cover[b]}
    BY <1>3 DEF Regions
  <2>2. QED
    BY <1>1, <2>1
<1>4. QED
  BY <1>2, <1>3

(* An object used in a transfer has its contents already.                  *)
LEMMA TransferFacts ==
    ASSUME Context, Whole(mem, maps), NEW b \in Buffers, MayTransfer(b)
    PROVE  b \in Objects /\ ~(b = Parent /\ mem.pending)
<1>1. b \in Objects
  BY DEF MayTransfer, Objects
<1>2. mem.pending => mem.place[Parent] = NoDevice
  BY DEF Whole, Sound, PendingUnused
<1>3. QED
  BY <1>1, <1>2 DEF MayTransfer

LEMMA BindFacts ==
    ASSUME Context, Whole(mem, maps), NEW b \in Buffers, NEW d \in program.on,
           Bind(b, d)
    PROVE  b \in Objects /\ ~(b = Parent /\ mem.pending)
<1>1. b \in Objects
  BY DEF Bind, Objects
<1>2. ASSUME b = Parent, mem.pending PROVE FALSE
  <2>1. "host_ptr" \in program.does
    BY <1>2 DEF Whole, Sound, PendingUnused
  <2>2. "enqueue_first" \in program.does
    BY <1>2 DEF Bind, Does
  <2>3. QED
    BY <2>1, <2>2 DEF Context, Regular
<1>3. QED
  BY <1>1, <1>2

LEMMA BindSound ==
    ASSUME TypeOK, Structure, NEW b \in Buffers, NEW d \in program.on, Bind(b, d)
    PROVE  Structure'
<1>1. mem' = Bound(mem, b, d) /\ UNCHANGED <<subs, maps, prog, program>>
  BY DEF Bind
<1>2. ASSUME Regular(program) PROVE Whole(mem', maps')
  <2>1. Context /\ Whole(mem, maps) /\ d \in Devices
    BY <1>2, ContextFrom, ProgramOn
  <2>2. b \in Objects /\ ~(b = Parent /\ mem.pending)
    BY <2>1, BindFacts
  <2>3. QED
    BY <1>1, <2>1, <2>2, BoundSound
<1>3. QED
  BY <1>1, <1>2, StructureFrom DEF Structure

LEMMA TransferSound ==
    ASSUME TypeOK, Structure, NEW b \in Buffers, NEW R \in Regions(b)
    PROVE  /\ ReadBuffer(b, R) => Structure'
           /\ \A v \in Values : WriteBuffer(b, R, v) => Structure'
           /\ \A k \in MapKinds : MapBuffer(b, k, R) => Structure'
<1>2. ASSUME Regular(program), MayTransfer(b)
      PROVE  /\ Context /\ b \in Objects /\ Whole(mem, maps)
             /\ ~(b = Parent /\ mem.pending) /\ mem.place[b] # NoDevice
  <2>1. Context /\ Whole(mem, maps)
    BY <1>2, ContextFrom
  <2>2. QED
    BY <1>2, <2>1, TransferFacts DEF MayTransfer
<1>3. ASSUME ReadBuffer(b, R) PROVE Structure'
  <2>1. MayTransfer(b) /\ mem' = AsSource(mem, b) /\ UNCHANGED <<subs, maps, prog, program>>
    BY <1>3 DEF ReadBuffer
  <2>2. Regular(program) => Whole(mem', maps')
    BY <1>2, <2>1, AsSourceSound
  <2>3. QED
    BY <2>1, <2>2, StructureFrom DEF Structure
<1>4. ASSUME NEW v \in Values, WriteBuffer(b, R, v) PROVE Structure'
  <2>1. /\ MayTransfer(b) /\ MayWrite(R)
        /\ mem' = Stored(AsDestination(mem, b), b, R, Fill(v))
        /\ UNCHANGED <<subs, maps, prog, program>>
    BY <1>4 DEF WriteBuffer
  <2>2. ASSUME Regular(program) PROVE Whole(mem', maps')
    <3>1. Context /\ b \in Objects /\ Whole(mem, maps)
      BY <1>2, <2>1, <2>2
    <3>2. mem.auto[b] => Unused(b, maps)
      <4>1. mem.auto[b] => program.subs # {}
        BY <3>1 DEF Whole, Sound, AutoOnHost
      <4>2. MapsSound(Objects, maps, program)
        BY <3>1 DEF Whole
      <4>3. QED
        BY <2>1, <3>1, <4>1, <4>2, RegionsAre, UnusedFrom
    <3>3. Whole(AsDestination(mem, b), maps)
      BY <3>1, <3>2, AsDestinationSound
    <3>4. Fill(v) \in [Cells -> Known]
      BY SmallTypes
    <3>5. Whole(mem', maps)
      BY <2>1, <3>1, <3>3, <3>4, StoredSound
    <3>6. QED
      BY <2>1, <3>5
  <2>3. QED
    BY <2>1, <2>2, StructureFrom DEF Structure
<1>5. ASSUME NEW k \in MapKinds, MapBuffer(b, k, R) PROVE Structure'
  <2>1. /\ MayTransfer(b) /\ MayMap(b, k, R) /\ "map" \in program.does
        /\ <<k, R>> \notin maps[b]
        /\ mem' = Mapped(mem, b, k) /\ maps' = [maps EXCEPT ![b] = @ \cup {<<k, R>>}]
        /\ UNCHANGED <<subs, prog, program>>
    BY <1>5 DEF MapBuffer, Does
  <2>2. Regular(program) => Whole(mem', maps')
    BY <1>2, <2>1, MappedSound
  <2>3. QED
    BY <2>1, <2>2, StructureFrom DEF Structure
<1>6. QED
  BY <1>3, <1>4, <1>5

LEMMA CopySound ==
    ASSUME TypeOK, Structure, NEW a \in Buffers, NEW b \in Buffers,
           NEW x \in Cover[a], NEW y \in Cover[b], CopyBuffer(a, x, b, y)
    PROVE  Structure'
<1> DEFINE m == AsSource(mem, a)
           n == AsDestination(m, b)
           v == (IF m.onHost[a] THEN n.host ELSE n.dev[a])[x]
<1>1. /\ MayTransfer(a) /\ MayTransfer(b) /\ {y} \in Regions(b) /\ MayWrite({y})
      /\ mem' = Stored(n, b, {y}, Fill(v))
      /\ UNCHANGED <<subs, maps, prog, program>>
  BY DEF CopyBuffer
<1>2. x \in Cells
  BY SmallTypes
<1> HIDE DEF m, n, v
<1>3. ASSUME Regular(program) PROVE Whole(mem', maps')
  <2>1. Context /\ Whole(mem, maps) /\ mem \in MemType
    BY <1>3, ContextFrom DEF Whole
  <2>2. /\ a \in Objects /\ ~(a = Parent /\ mem.pending)
        /\ b \in Objects /\ ~(b = Parent /\ mem.pending)
    BY <1>1, <2>1, TransferFacts
  <2>5. Whole(m, maps)
    BY <2>1, <2>2, AsSourceSound DEF m
  <2>6. m.auto[b] => Unused(b, maps)
    <3>1. m.auto[b] => program.subs # {}
      BY <2>2, <2>5 DEF Whole, Sound, AutoOnHost
    <3>2. MapsSound(Objects, maps, program)
      BY <2>1 DEF Whole
    <3>3. QED
      BY <1>1, <2>1, <2>2, <3>1, <3>2, RegionsAre, UnusedFrom
  <2>7. Whole(n, maps)
    BY <2>1, <2>2, <2>5, <2>6, AsDestinationSound DEF n
  <2>8. Fill(v) \in [Cells -> Known]
    <3>1. n.host \in [Cells -> Known] /\ n.dev[a] \in [Cells -> Known]
      BY <2>7, MemFields DEF Whole
    <3>2. v \in Known
      BY <1>2, <3>1 DEF v
    <3>3. QED
      BY <3>2 DEF Fill
  <2>9. Whole(mem', maps)
    BY <1>1, <2>1, <2>2, <2>7, <2>8, StoredSound
  <2>10. QED
    BY <1>1, <2>9
<1>4. QED
  BY <1>1, <1>3, StructureFrom DEF Structure

LEMMA MappingsSound ==
    ASSUME TypeOK, Structure, NEW b \in Buffers, NEW x \in maps[b]
    PROVE  /\ UnmapBuffer(b, x) => Structure'
           /\ Load(x) => Structure'
           /\ \A v \in Values : Store(x, v) => Structure'
<1>1. ASSUME Regular(program)
      PROVE  Context /\ Whole(mem, maps) /\ mem \in MemType /\ b \in Objects
  <2>1. Context /\ Whole(mem, maps)
    BY <1>1, ContextFrom
  <2>2. QED
    BY <2>1 DEF Whole, MapsSound
<1>2. ASSUME UnmapBuffer(b, x) PROVE Structure'
  <2>1. /\ mem' = UserUnmapped(mem, b) /\ maps' = [maps EXCEPT ![b] = @ \ {x}]
        /\ UNCHANGED <<subs, prog, program>>
    BY <1>2 DEF UnmapBuffer, UserUnmapped
  <2>2. Regular(program) => Whole(mem', maps')
    BY <1>1, <2>1, UserUnmapSound
  <2>3. QED
    BY <2>1, <2>2, StructureFrom DEF Structure
<1>3. ASSUME Load(x) PROVE Structure'
  BY <1>1, <1>3, StructureFrom DEF Load, Structure
<1>4. ASSUME NEW v \in Values, Store(x, v) PROVE Structure'
  <2>1. /\ mem' = [mem EXCEPT !.host = Paste(@, x[2], Fill(v))]
        /\ UNCHANGED <<subs, maps, prog, program>>
    BY <1>4 DEF Store
  <2>2. ASSUME Regular(program) PROVE Whole(mem', maps')
    <3> DEFINE P == Paste(mem.host, x[2], Fill(v))
    <3>1. Whole(mem, maps) /\ mem \in MemType
      BY <1>1, <2>2
    <3>2. P \in [Cells -> Known]
      BY <3>1, MemFields, SmallTypes, PasteType
    <3>3. mem' = [mem EXCEPT !.host = P]
      BY <2>1
    <3> HIDE DEF P
    <3>4. /\ mem' \in MemType /\ mem'.place = mem.place
          /\ mem'.onHost = mem.onHost /\ mem'.auto = mem.auto
          /\ mem'.pending = mem.pending /\ mem'.count = mem.count
      BY <3>1, <3>2, <3>3, SetHost
    <3>5. Sound(Objects, mem', maps, program)
      BY <3>1, <3>4, SoundSame DEF Whole
    <3>6. QED
      BY <2>1, <3>1, <3>4, <3>5 DEF Whole
  <2>3. QED
    BY <2>1, <2>2, StructureFrom DEF Structure
<1>5. QED
  BY <1>2, <1>3, <1>4

LEMMA KernelSound ==
    ASSUME TypeOK, Structure, NEW args \in KernelArgs, NEW v \in Values,
           NEW d \in program.on, NEW W \in SUBSET ToSet(args),
           Kernel(args, W, v, d)
    PROVE  Structure'
<1> DEFINE n == KernelMem(args, d)
           D == [b \in Buffers |-> IF b \in W THEN Paste(n.dev[b], Cover[b], Fill(v))
                                   ELSE n.dev[b]]
<1>1. /\ MayRun(args, W) /\ mem' = [n EXCEPT !.dev = D]
      /\ UNCHANGED <<subs, maps, prog, program>>
  BY DEF Kernel
<1> HIDE DEF n
<1>2. ASSUME Regular(program) PROVE Whole(mem', maps')
  <2>1. Context /\ Whole(mem, maps) /\ d \in Devices
    BY <1>2, ContextFrom, ProgramOn
  <2>2. Whole(n, maps) /\ n \in MemType /\ Sound(Objects, n, maps, program)
    BY <1>1, <2>1, KernelMemSound DEF MayRun, n, Whole
  <2>3. D \in [Buffers -> [Cells -> Known]]
    <3>1. \A b \in Buffers : n.dev[b] \in [Cells -> Known]
      BY <2>2, MemFields
    <3>2. QED
      BY <3>1, PasteType, SmallTypes
  <2> HIDE DEF D
  <2>4. /\ mem' \in MemType /\ mem'.place = n.place /\ mem'.onHost = n.onHost
        /\ mem'.auto = n.auto /\ mem'.pending = n.pending /\ mem'.count = n.count
    BY <1>1, <2>2, <2>3 DEF MemType
  <2>5. Sound(Objects, mem', maps, program)
    BY <2>2, <2>4, SoundSame
  <2>6. QED
    BY <1>1, <2>2, <2>4, <2>5 DEF Whole
<1>3. QED
  BY <1>1, <1>2, StructureFrom DEF Structure

LEMMA MigrateSound ==
    ASSUME TypeOK, Structure, NEW b \in Buffers, NEW d \in program.on,
           MigrateCommand(b, d)
    PROVE  Structure'
<1>1. /\ Exists(b) /\ MayRead(Cover[b]) /\ mem' = Migrated(mem, b, d)
      /\ UNCHANGED <<subs, maps, prog, program>>
  BY DEF MigrateCommand
<1>2. ASSUME Regular(program) PROVE Whole(mem', maps')
  <2>1. Context /\ Whole(mem, maps) /\ d \in Devices /\ b \in Objects
    BY <1>1, <1>2, ContextFrom, ProgramOn DEF Objects
  <2>2. mem.auto[b] => program.subs # {}
    BY <2>1 DEF Whole, Sound, AutoOnHost
  <2>3. MapsSound(Objects, maps, program)
    BY <2>1 DEF Whole
  <2>4. mem.auto[b] => Unused(b, maps)
    BY <1>1, <2>1, <2>2, <2>3, UnusedFrom
  <2>5. QED
    BY <1>1, <2>1, <2>4, MigratedSound
<1>3. QED
  BY <1>1, <1>2, StructureFrom DEF Structure

LEMMA ReprogramSound ==
    ASSUME TypeOK, Structure
    PROVE  /\ \A d \in program.on : StartReprogram(d) => Structure'
           /\ \A b \in Buffers : SaveBuffer(b) => Structure'
           /\ \A b \in Buffers : RestoreBuffer(b) => Structure'
           /\ ProgramDevice => Structure'
           /\ EndReprogram => Structure'
<1>1. \A d : On(d) \subseteq Objects
  BY DEF On, Objects
<1>2. Regular(program) => Context /\ Whole(mem, maps) /\ mem \in MemType
  BY ContextFrom DEF Whole
<1>3. ASSUME NEW d \in program.on, StartReprogram(d) PROVE Structure'
  <2>1. prog'.todo \subseteq Objects /\ prog'.stage # "none"
    BY <1>1, <1>3 DEF StartReprogram
  <2>2. QED
    BY <1>2, <1>3, <2>1, StructureFrom DEF StartReprogram
<1>4. ASSUME NEW b \in Buffers, SaveBuffer(b) PROVE Structure'
  <2> DEFINE n == AsSource(mem, b)
             P == Paste(n.host, Cover[b], Source(n, b))
  <2>1. /\ prog.stage = "save" /\ b \in prog.todo
        /\ prog' = [prog EXCEPT !.todo = @ \ {b}]
        /\ mem' = IF Preserved(b) THEN [n EXCEPT !.host = P] ELSE mem
        /\ UNCHANGED <<subs, maps, program>>
    BY <1>4 DEF SaveBuffer
  <2>2. b \in Objects /\ prog'.todo \subseteq Objects /\ prog'.stage = "save"
    BY <2>1, ProgramOn DEF Structure, ProgType
  <2> HIDE DEF n
  <2>3. ASSUME Regular(program) PROVE Whole(mem', maps')
    <3>1. Context /\ Whole(n, maps) /\ Whole(mem, maps)
      BY <1>2, <2>2, <2>3, AsSourceSound DEF n
    <3>2. n \in MemType /\ Sound(Objects, n, maps, program)
      BY <3>1 DEF Whole
    <3>3. P \in [Cells -> Known]
      BY <3>2, MemFields, SourceType, PasteType
    <3> HIDE DEF P
    <3> DEFINE r == [n EXCEPT !.host = P]
    <3>4. /\ r \in MemType /\ r.place = n.place
          /\ r.onHost = n.onHost /\ r.auto = n.auto
          /\ r.pending = n.pending /\ r.count = n.count
      BY <3>2, <3>3, SetHost
    <3>5. mem' = IF Preserved(b) THEN r ELSE mem
      BY <2>1
    <3> HIDE DEF r
    <3>6. Whole(r, maps)
      BY <3>1, <3>2, <3>4, SoundSame DEF Whole
    <3>7. QED
      BY <2>1, <3>1, <3>5, <3>6
  <2>4. QED
    BY <2>1, <2>2, <2>3, StructureFrom
<1>5. ASSUME NEW b \in Buffers, RestoreBuffer(b) PROVE Structure'
  <2>1. /\ prog.stage = "restore" /\ b \in prog.todo
        /\ prog' = [prog EXCEPT !.todo = @ \ {b}]
        /\ mem' = IF Preserved(b)
                  THEN Stored(AsDestination(mem, b), b, Cover[b], mem.host)
                  ELSE mem
        /\ UNCHANGED <<subs, maps, program>>
    BY <1>5 DEF RestoreBuffer
  <2>2. b \in Objects /\ prog'.todo \subseteq Objects /\ prog'.stage = "restore"
    BY <2>1, ProgramOn DEF Structure, ProgType
  <2>3. ASSUME Regular(program), Preserved(b) PROVE Whole(mem', maps')
    <3>1. Context /\ Whole(mem, maps) /\ ~mem.onHost[b] /\ mem.host \in [Cells -> Known]
      BY <1>2, <2>3, MemFields DEF Preserved
    <3>2. ~mem.auto[b]
      BY <2>2, <3>1 DEF Whole, Sound, AutoOnHost
    <3>3. mem' = Stored(mem, b, Cover[b], mem.host)
      BY <2>1, <2>3, <3>2 DEF AsDestination
    <3>4. QED
      BY <2>1, <2>2, <3>1, <3>3, StoredSound
  <2>4. QED
    BY <1>2, <2>1, <2>2, <2>3, StructureFrom
<1>6. ASSUME ProgramDevice PROVE Structure'
  <2> DEFINE D == [b \in Buffers |-> IF b \in On(prog.device) THEN Nothing
                                     ELSE mem.dev[b]]
  <2>1. /\ prog' = [prog EXCEPT !.stage = "restore", !.todo = On(prog.device)]
        /\ mem' = [mem EXCEPT !.dev = D] /\ UNCHANGED <<subs, maps, program>>
    BY <1>6 DEF ProgramDevice
  <2>2. prog'.todo \subseteq Objects /\ prog'.stage = "restore"
    BY <1>1, <2>1, ProgramOn DEF ProgType
  <2>3. ASSUME Regular(program) PROVE Whole(mem', maps')
    <3>1. Whole(mem, maps) /\ mem \in MemType /\ Sound(Objects, mem, maps, program)
      BY <1>2, <2>3 DEF Whole
    <3>2. D \in [Buffers -> [Cells -> Known]]
      BY <3>1, MemFields, SmallTypes
    <3> HIDE DEF D
    <3>3. /\ mem' \in MemType /\ mem'.place = mem.place
          /\ mem'.onHost = mem.onHost /\ mem'.auto = mem.auto
          /\ mem'.pending = mem.pending /\ mem'.count = mem.count
      BY <2>1, <3>1, <3>2 DEF MemType
    <3>4. Sound(Objects, mem', maps, program)
      BY <3>1, <3>3, SoundSame
    <3>5. QED
      BY <2>1, <3>1, <3>3, <3>4 DEF Whole
  <2>4. QED
    BY <2>1, <2>2, <2>3, StructureFrom
<1>7. ASSUME EndReprogram PROVE Structure'
  <2>1. prog'.todo = {}
    BY <1>7 DEF EndReprogram
  <2>2. QED
    BY <1>2, <1>7, <2>1, StructureFrom DEF EndReprogram
<1>8. QED
  BY <1>3, <1>4, <1>5, <1>6, <1>7

(* A sub-buffer is made, or goes; none of them is mapped then.             *)
LEMMA Made ==
    ASSUME TypeOK, NEW s \in Buffers, CreateSub(s)
    PROVE  /\ s # Parent /\ ToSet(subs') = {s} \cup ToSet(subs)
           /\ Objects' = Objects \cup {s} /\ s \notin Objects
<1>0. subs \in Seq(Buffers \ {Parent})
  BY ProgramOn DEF SubsType
<1>1. /\ s \in program.subs /\ ~Exists(s) /\ subs' = <<s>> \o subs
  BY DEF CreateSub
<1>2. s # Parent /\ <<s>> \in Seq(Buffers \ {Parent})
  BY <1>1 DEF Exists
<1>3. ToSet(<<s>>) = {s}
  BY DEF ToSet
<1>4. ToSet(subs') = {s} \cup ToSet(subs)
  <2>1. \A t \in Seq(Buffers \ {Parent}) :
           ToSet(t \o subs) = ToSet(t) \cup ToSet(subs)
    BY <1>0, ConcatMembers
  <2>2. ToSet(<<s>> \o subs) = ToSet(<<s>>) \cup ToSet(subs)
    BY <1>2, <2>1
  <2>3. QED
    BY <1>1, <1>3, <2>2
<1>5. Objects' = Objects \cup {s} /\ s \notin Objects
  BY <1>1, <1>4 DEF Objects, Exists
<1>6. QED
  BY <1>2, <1>4, <1>5

LEMMA Gone ==
    ASSUME TypeOK, NEW s \in Buffers, ReleaseSub(s)
    PROVE  /\ s # Parent /\ s \in Objects /\ ToSet(subs') \subseteq ToSet(subs)
           /\ Objects' \subseteq Objects /\ Objects \ {s} \subseteq Objects'
           /\ Parent \in Objects'
<1>0. subs \in Seq(Buffers \ {Parent}) /\ Parent \in Buffers
  BY ProgramOn, SmallTypes DEF SubsType
<1>2. PICK i \in 1..Len(subs) : subs[i] = s /\ subs' = RemoveAt(subs, i)
  BY DEF ReleaseSub
<1>3. /\ Len(subs) \in Nat /\ Len(subs') = Len(subs) - 1
      /\ subs' \in Seq(Buffers \ {Parent})
      /\ \A k \in 1..Len(subs) - 1 :
            subs'[k] = IF k < i THEN subs[k] ELSE subs[k + 1]
  <2>1. Len(subs) \in Nat
    BY <1>0
  <2>2. /\ RemoveAt(subs, i) \in Seq(Buffers \ {Parent})
        /\ Len(RemoveAt(subs, i)) = Len(subs) - 1
        /\ \A k \in 1..Len(subs) - 1 :
              RemoveAt(subs, i)[k] = IF k < i THEN subs[k] ELSE subs[k + 1]
    BY <1>0, RemoveAtProperties
  <2>3. QED
    BY <1>2, <2>1, <2>2
<1>4. ToSet(subs') \subseteq ToSet(subs)
  <2> SUFFICES ASSUME NEW b \in ToSet(subs') PROVE b \in ToSet(subs)
    OBVIOUS
  <2>1. PICK k \in 1..Len(subs') : subs'[k] = b
    BY <1>3, SetOf
  <2>2. \E j \in 1..Len(subs) : subs[j] = b
    BY <1>3, <2>1
  <2>3. QED
    BY <1>0, <2>2, SetOf
<1>5. ToSet(subs) \ {s} \subseteq ToSet(subs')
  <2> SUFFICES ASSUME NEW b \in ToSet(subs), b # s PROVE b \in ToSet(subs')
    OBVIOUS
  <2>1. PICK j \in 1..Len(subs) : subs[j] = b
    BY <1>0, SetOf
  <2> DEFINE k == IF j < i THEN j ELSE j - 1
  <2>2. j # i /\ k \in 1..Len(subs')
    BY <1>2, <1>3, <2>1
  <2>3. subs'[k] = b
    BY <1>3, <2>1, <2>2
  <2> HIDE DEF k
  <2>4. \E l \in 1..Len(subs') : subs'[l] = b
    BY <2>2, <2>3
  <2>5. QED
    BY <1>3, <2>4, SetOf
<1>6. s # Parent
  BY <1>0, <1>2
<1>7. /\ Objects' \subseteq Objects /\ Objects \ {s} \subseteq Objects'
      /\ Parent \in Objects'
  BY <1>0, <1>4, <1>5, <1>6 DEF Objects, Exists
<1>8. s \in Objects
  BY <1>0, <1>2, SetOf DEF Objects, Exists
<1>9. QED
  BY <1>4, <1>6, <1>7, <1>8

LEMMA SubsSound ==
    ASSUME TypeOK, Structure, NEW s \in Buffers
    PROVE  /\ CreateSub(s) => Structure'
           /\ ReleaseSub(s) => Structure'
<1>0. /\ subs \in Seq(Buffers \ {Parent}) /\ Objects \subseteq Buffers
      /\ Parent \in Buffers
  BY ProgramOn, SmallTypes DEF SubsType, Objects
<1>1. ASSUME CreateSub(s) PROVE Structure'
  <2>1. /\ s \in program.subs /\ ~Exists(s) /\ subs' = <<s>> \o subs
        /\ prog.stage = "none" /\ UNCHANGED <<maps, prog, program>>
    BY <1>1 DEF CreateSub, Idle
  <2>2. s # Parent /\ ToSet(subs') = {s} \cup ToSet(subs)
    BY <1>1, Made
  <2>5. Objects' = Objects \cup {s} /\ s \notin Objects
    BY <1>1, Made
  <2>6. ASSUME Regular(program)
        PROVE  MapsSound(Objects', maps, program) /\ Sound(Objects', mem', maps, program)
    <3>1. /\ Whole(mem, maps) /\ mem \in MemType /\ Sound(Objects, mem, maps, program)
          /\ MapsSound(Objects, maps, program)
      BY <2>6, ContextFrom DEF Whole
    <3>2. maps[s] = {}
      BY <2>5, <3>1 DEF MapsSound
    <3>3. /\ mem'.pending = mem.pending
          /\ mem'.place = [mem.place EXCEPT ![s] = NoDevice]
          /\ mem'.onHost = [mem.onHost EXCEPT ![s] = TRUE]
          /\ mem'.auto = [mem.auto EXCEPT ![s] = TRUE]
          /\ mem'.count = [mem.count EXCEPT ![s] = 0]
      BY <1>1, CreatedFields
    <3>4. /\ mem.place \in [Buffers -> Devices \cup {NoDevice}]
          /\ mem.onHost \in [Buffers -> BOOLEAN] /\ mem.auto \in [Buffers -> BOOLEAN]
          /\ mem.count \in [Buffers -> Int]
      BY <3>1, MemFields
    <3>5. /\ mem'.onHost[s] /\ mem'.auto[s] /\ mem'.count[s] = 0
          /\ \A b \in Buffers : b # s =>
                /\ mem'.place[b] = mem.place[b] /\ mem'.onHost[b] = mem.onHost[b]
                /\ mem'.auto[b] = mem.auto[b] /\ mem'.count[b] = mem.count[b]
      BY <3>3, <3>4
    <3>6. MapsSound(Objects', maps, program)
      BY <2>5, <3>1 DEF MapsSound
    <3>7. Counted(Objects', mem', maps) /\ AutoOnHost(Objects', mem', program)
      BY <1>0, <2>1, <2>5, <3>1, <3>2, <3>5, FS_EmptySet DEF Sound, Counted, AutoOnHost
    <3>8. WhyOnHost(Objects', mem', maps) /\ MappedPlaced(Objects', mem', maps)
      BY <1>0, <2>5, <3>1, <3>2, <3>3, <3>5 DEF Sound, WhyOnHost, MappedPlaced
    <3>9. PendingUnused(mem', maps, program)
      BY <1>0, <2>2, <3>1, <3>3, <3>5 DEF Sound, PendingUnused
    <3>10. OneAway(Objects', mem', maps)
      <4> SUFFICES ASSUME NEW a \in Objects' \ ReadOnly, NEW b \in Objects' \ ReadOnly,
                          a # b, Overlap(a, b)
                   PROVE  /\ mem'.onHost[a] \/ mem'.onHost[b]
                          /\ (maps[b] # {} /\ ~mem'.auto[b]) => mem'.onHost[a]
        BY DEF OneAway
      <4>1. CASE a = s \/ b = s
        BY <3>2, <3>5, <4>1
      <4>2. CASE a # s /\ b # s
        BY <1>0, <2>5, <3>1, <3>5, <4>2 DEF Sound, OneAway
      <4>3. QED
        BY <4>1, <4>2
    <3>11. QED
      BY <3>6, <3>7, <3>8, <3>9, <3>10 DEF Sound
  <2>7. ToSet(subs') \subseteq program'.subs /\ prog'.todo \subseteq Objects'
        /\ (prog'.stage = "none" => prog'.todo = {})
    BY <2>1, <2>2, <2>5 DEF Structure
  <2>8. QED
    BY <2>1, <2>6, <2>7 DEF Structure
<1>2. ASSUME ReleaseSub(s) PROVE Structure'
  <2>1. /\ maps[s] = {} /\ prog.stage = "none"
        /\ UNCHANGED <<mem, maps, prog, program>>
    BY <1>2 DEF ReleaseSub, Idle
  <2>4. ToSet(subs') \subseteq ToSet(subs)
    BY <1>2, Gone
  <2>7. /\ Objects' \subseteq Objects /\ Objects \ {s} \subseteq Objects'
        /\ Parent \in Objects'
    BY <1>2, Gone
  <2>8. ASSUME Regular(program)
        PROVE  MapsSound(Objects', maps, program) /\ Sound(Objects', mem, maps, program)
    <3>1. Sound(Objects, mem, maps, program) /\ MapsSound(Objects, maps, program)
      BY <2>8, ContextFrom DEF Whole
    <3>2. MapsSound(Objects', maps, program)
      BY <2>1, <2>7, <3>1 DEF MapsSound
    <3>3. Counted(Objects', mem, maps) /\ AutoOnHost(Objects', mem, program)
      BY <2>7, <3>1 DEF Sound, Counted, AutoOnHost
    <3>4. WhyOnHost(Objects', mem, maps) /\ MappedPlaced(Objects', mem, maps)
      BY <2>7, <3>1 DEF Sound, WhyOnHost, MappedPlaced
    <3>5. OneAway(Objects', mem, maps)
      BY <2>7, <3>1 DEF Sound, OneAway
    <3>6. QED
      BY <3>1, <3>2, <3>3, <3>4, <3>5 DEF Sound
  <2>9. ToSet(subs') \subseteq program'.subs /\ prog'.todo \subseteq Objects'
        /\ (prog'.stage = "none" => prog'.todo = {})
    BY <2>1, <2>4 DEF Structure
  <2>10. QED
    BY <2>1, <2>8, <2>9 DEF Structure
<1>3. QED
  BY <1>1, <1>2

LEMMA StructureInit == Init => Structure
<1> SUFFICES ASSUME Init PROVE Structure
  OBVIOUS
<1>1. TypeOK
  BY InitType
<1>2. subs = <<>> /\ ToSet(subs) = {} /\ maps = [b \in Buffers |-> {}]
      /\ prog.todo = {}
  BY DEF Init, ToSet
<1>3. Objects = {Parent}
  BY <1>2, SmallTypes DEF Objects, Exists
<1>4. /\ \A b \in Buffers : mem.count[b] = 0 /\ ~mem.auto[b]
      /\ mem.place[Parent] = NoDevice
      /\ mem.onHost[Parent] => mem.pending
      /\ mem.pending => Does("host_ptr")
  <2>1. PICK v \in Values :
           mem = [host |-> IF Does("host_ptr") THEN [c \in Cells |-> v] ELSE Nothing,
                  dev |-> [b \in Buffers |-> Nothing],
                  place |-> [b \in Buffers |-> NoDevice],
                  onHost |-> [b \in Buffers |-> b = Parent /\ Does("host_ptr")],
                  auto |-> [b \in Buffers |-> FALSE],
                  pending |-> Does("host_ptr"),
                  count |-> [b \in Buffers |-> 0]]
    BY DEF Init
  <2>2. /\ mem.place = [b \in Buffers |-> NoDevice]
        /\ mem.onHost = [b \in Buffers |-> b = Parent /\ Does("host_ptr")]
        /\ mem.auto = [b \in Buffers |-> FALSE]
        /\ mem.pending = Does("host_ptr") /\ mem.count = [b \in Buffers |-> 0]
    BY <2>1
  <2>3. \A b \in Buffers : mem.count[b] = 0 /\ ~mem.auto[b]
    BY <2>2
  <2>4. mem.place[Parent] = NoDevice /\ (mem.onHost[Parent] => Does("host_ptr"))
    BY <2>2, SmallTypes
  <2>5. QED
    BY <2>2, <2>3, <2>4
<1>5. MapsSound(Objects, maps, program)
  BY <1>2, FS_EmptySet DEF MapsSound
<1>6. Counted(Objects, mem, maps) /\ AutoOnHost(Objects, mem, program)
  BY <1>2, <1>3, <1>4, SmallTypes, FS_EmptySet DEF Counted, AutoOnHost
<1>7. WhyOnHost(Objects, mem, maps) /\ MappedPlaced(Objects, mem, maps)
  BY <1>2, <1>3, <1>4, SmallTypes DEF WhyOnHost, MappedPlaced
<1>8. PendingUnused(mem, maps, program) /\ OneAway(Objects, mem, maps)
  BY <1>2, <1>3, <1>4, SmallTypes DEF PendingUnused, OneAway, Does
<1>9. QED
  BY <1>2, <1>5, <1>6, <1>7, <1>8 DEF Structure, Sound

LEMMA StructureStep ==
    ASSUME TypeOK, Structure, [Next]_vars
    PROVE  Structure'
<1>1. CASE UNCHANGED vars
  BY <1>1 DEF vars, Structure, Objects, Exists
<1>2. CASE \E s \in Buffers : CreateSub(s) \/ ReleaseSub(s)
  BY <1>2, SubsSound
<1>3. CASE Transfer
  BY <1>3, TransferSound DEF Transfer
<1>4. CASE Copy
  BY <1>4, CopySound DEF Copy
<1>5. CASE UseMapping
  BY <1>5, MappingsSound DEF UseMapping
<1>6. CASE RunKernel
  BY <1>6, KernelSound DEF RunKernel
<1>7. CASE \E b \in Buffers, d \in program.on : MigrateCommand(b, d) \/ Bind(b, d)
  BY <1>7, MigrateSound, BindSound
<1>8. CASE Reprogram
  BY <1>8, ReprogramSound DEF Reprogram
<1>9. QED
  BY <1>1, <1>2, <1>3, <1>4, <1>5, <1>6, <1>7, <1>8 DEF Next

(* In programs that keep to it, two objects that share cells never both    *)
(* have their contents on a device (acl_mem.cpp:6282).                     *)
THEOREM NeverTwoLiveCopies ==
    ASSUME \A p \in Programs : Undivided(p)
    PROVE  Spec => []OneLiveCopy
<1>1. ASSUME TypeOK, Structure PROVE OneLiveCopy
  <2> SUFFICES ASSUME NEW a \in Buffers, NEW b \in Buffers, a # b, Overlap(a, b),
                      OnDevice(a), OnDevice(b)
               PROVE  FALSE
    BY DEF OneLiveCopy
  <2>1. a \in Objects \ ReadOnly /\ b \in Objects \ ReadOnly
        /\ ~mem.onHost[a] /\ ~mem.onHost[b]
    BY DEF OnDevice, Objects
  <2>2. program.subs # {}
    BY <1>1, <2>1, SmallTypes DEF Objects, Exists, Structure
  <2>3. Regular(program)
    BY <1>1, <2>2 DEF Regular, Undivided, TypeOK
  <2>4. Sound(Objects, mem, maps, program)
    BY <1>1, <2>3 DEF Structure
  <2>5. QED
    BY <2>1, <2>4 DEF Sound, OneAway
<1>2. Init => TypeOK /\ Structure
  BY InitType, StructureInit
<1>3. TypeOK /\ Structure /\ [Next]_vars => Structure'
  BY StructureStep
<1>4. Spec => []TypeOK
  BY TypeCorrect
<1>5. QED
  BY <1>1, <1>2, <1>3, <1>4, PTL DEF Spec

----------------------------------------------------------------------------
(* The operations of orderly programs keep the copies in agreement.  f is  *)
(* what the objects hold.                                                  *)

Ordered == Context /\ Orderly(program)
Good(m, M, W, f) ==
    /\ Whole(m, M)
    /\ Agree(Objects, m, M, W, f)
    /\ MapsAlone(Objects, m, M, program)

LEMMA OrderedFacts ==
    ASSUME Ordered
    PROVE  /\ Context /\ Objects \cap ReadOnly = {} /\ Objects \subseteq Buffers
           /\ \A a, b \in Objects : a # b => program.subs # {}
           /\ program.subs # {} =>
                 {"host_ptr", "read_mapped", "invalidate", "release"}
                    \cap program.does = {}
<1>1. Objects = ToSet(subs) \cup {Parent} /\ Objects \subseteq Buffers
      /\ \A a, b \in Objects : a # b => program.subs # {}
  BY ObjectsAre DEF Ordered
<1>2. program.subs \cap ReadOnly = {}
  BY DEF Ordered, Orderly
<1>3. Parent \notin ReadOnly
  BY BuffersAssumption
<1>4. Objects \cap ReadOnly = {}
  BY <1>1, <1>2, <1>3 DEF Ordered, Context
<1>5. QED
  BY <1>1, <1>4 DEF Ordered, Orderly, Undivided

(* Only a buffer without sub-buffers can have a copy pending.              *)
LEMMA PendingAlone ==
    ASSUME Ordered, NEW m, NEW M, Whole(m, M), NEW b \in Objects
    PROVE  /\ m.pending => Objects = {Parent} /\ program.subs = {}
           /\ \A a \in Objects : a # b => (Away(m, a) <=> ~m.onHost[a])
           /\ m.auto[b] => /\ m.onHost[b] /\ program.subs # {} /\ ~m.pending
<1>1. Sound(Objects, m, M, program) /\ Parent \in Objects
  BY ObjectsAre DEF Whole, Ordered
<1>2. m.pending => program.subs = {}
  BY <1>1, OrderedFacts DEF Sound, PendingUnused
<1>3. m.pending => Objects = {Parent}
  BY <1>1, <1>2, OrderedFacts
<1>4. \A a \in Objects : a # b => (Away(m, a) <=> ~m.onHost[a])
  BY <1>3 DEF Away
<1>5. m.auto[b] => /\ m.onHost[b] /\ program.subs # {} /\ ~m.pending
  BY <1>1, <1>2 DEF Sound, AutoOnHost
<1>6. QED
  BY <1>2, <1>3, <1>4, <1>5

(* What is on the host with all it overlaps is right there.                *)
LEMMA HostRight ==
    ASSUME Ordered, NEW m, NEW M, NEW W, NEW f, Good(m, M, W, f),
           NEW b \in Objects, ~Away(m, b),
           \A a \in Objects : (a # b /\ Overlap(a, b)) => m.onHost[a]
    PROVE  \A c \in Cover[b] : m.host[c] = f[c]
<1> SUFFICES ASSUME NEW c \in Cover[b] PROVE m.host[c] = f[c]
  OBVIOUS
<1>1. c \in Cells
  BY OrderedFacts, BuffersAssumption
<1>2. ASSUME NEW x \in Objects, Away(m, x), c \in Cover[x] PROVE x \in W
  BY <1>2 DEF Overlap, Away
<1>3. QED
  BY <1>1, <1>2 DEF Good, Agree

LEMMA SyncedGood ==
    ASSUME Ordered, NEW m, NEW M, NEW f, Good(m, M, {}, f),
           NEW b \in Objects, m.onHost[b]
    PROVE  LET s == Synced(m, b) IN
           /\ Good(s, M, {}, f)
           /\ \A c \in Cover[b] : s.host[c] = f[c]
           /\ \A c \in Cells : s.host[c] = m.host[c] \/ s.host[c] = f[c]
           /\ \A x \in Objects : ~Overlap(x, b) => s.onHost[x] = m.onHost[x]
<1> DEFINE s == Synced(m, b)
           T == Brought(m, b)
<1>1. /\ m \in MemType /\ b \in Buffers /\ SubsType /\ Context /\ Whole(m, M)
      /\ Objects \subseteq Buffers /\ Agree(Objects, m, M, {}, f)
      /\ MapsAlone(Objects, m, M, program)
      /\ Objects \cap ReadOnly = {}
  BY OrderedFacts DEF Good, Whole, Ordered, Context
<1>2. s \in MemType /\ SyncedTo(m, s, T)
  BY <1>1, SyncedWhat
<1>3. /\ b \notin T
      /\ \A o \in T : ~m.onHost[o] /\ o \in Objects /\ Overlap(o, b)
  BY <1>1, BroughtIs
<1>4. /\ Whole(s, M) /\ s.onHost[b]
      /\ \A a \in Objects \ ReadOnly : (a # b /\ Overlap(a, b)) => s.onHost[a]
  BY <1>1, SyncedSound
<1> HIDE DEF s, T
<1>5. /\ s.dev = m.dev /\ s.place = m.place /\ s.pending = m.pending
      /\ \A x \in Objects : s.onHost[x] <=> (m.onHost[x] \/ x \in T)
      /\ \A c \in Cells :
            \/ s.host[c] = m.host[c] /\ \A o \in T : c \notin Cover[o]
            \/ \E o \in T : c \in Cover[o] /\ s.host[c] = m.dev[o][c]
  BY <1>1, <1>2 DEF SyncedTo
<1>6. \A o \in T : Away(m, o) /\ \A c \in Cover[o] : m.dev[o][c] = f[c]
  BY <1>1, <1>3, PendingAlone DEF Agree
<1>7. \A c \in Cells :
         \/ s.host[c] = m.host[c] /\ \A o \in T : c \notin Cover[o]
         \/ s.host[c] = f[c]
  BY <1>5, <1>6
<1>8. \A x \in Objects : Away(s, x) <=> (Away(m, x) /\ x \notin T)
  BY <1>5 DEF Away
<1>9. \A x \in Buffers : Cover[x] \subseteq Cells
  BY BuffersAssumption
<1>10. Agree(Objects, s, M, {}, f)
  <2>1. ASSUME NEW x \in Objects, Away(s, x)
        PROVE  /\ \A c \in Cover[x] : s.dev[x][c] = f[c]
               /\ s.place[x] = NoDevice => \A c \in Cover[x] : s.host[c] = f[c]
    BY <1>1, <1>5, <1>7, <1>8, <1>9, <2>1 DEF Agree
  <2>2. ASSUME NEW c \in Cells,
               \A x \in Objects : Away(s, x) /\ c \in Cover[x] => x \in {}
        PROVE  s.host[c] = f[c]
    <3>1. CASE \A o \in T : c \notin Cover[o]
      <4>1. \A x \in Objects : Away(m, x) /\ c \in Cover[x] => x \in {}
        BY <1>8, <2>2, <3>1
      <4>2. m.host[c] = f[c]
        BY <1>1, <4>1 DEF Agree
      <4>3. QED
        BY <1>7, <4>2
    <3>2. CASE ~(\A o \in T : c \notin Cover[o])
      BY <1>7, <3>2
    <3>3. QED
      BY <3>1, <3>2
  <2>3. ASSUME NEW x \in Objects, NEW y \in M[x], NEW c \in y[2]
        PROVE  s.host[c] = f[c]
    <3>1. y[2] \subseteq Cells
      BY <1>1, <1>9 DEF Whole, MapsSound
    <3>2. m.host[c] = f[c]
      BY <1>1 DEF Agree
    <3>3. QED
      BY <1>7, <3>1, <3>2
  <2>4. QED
    BY <2>1, <2>2, <2>3 DEF Agree
<1>11. MapsAlone(Objects, s, M, program)
  <2>1. T # {} => program.subs # {}
    BY <1>3, OrderedFacts
  <2>2. Parent \in Objects
    BY <1>1, ObjectsAre
  <2>3. ASSUME "read_mapped" \in program.does, s.onHost[Parent], M[Parent] # {}
        PROVE  \E x \in M[Parent] : M[Parent] = {x} /\ x[1] # "read"
    <3>1. T = {}
      BY <2>1, <2>3, OrderedFacts
    <3>2. m.onHost[Parent]
      BY <1>5, <2>2, <2>3, <3>1
    <3>3. QED
      BY <1>1, <2>3, <3>2 DEF MapsAlone
  <2>4. QED
    BY <1>1, <1>5, <2>3 DEF MapsAlone
<1>12. Good(s, M, {}, f)
  BY <1>4, <1>10, <1>11 DEF Good
<1>13. \A c \in Cover[b] : s.host[c] = f[c]
  <2>1. ~Away(s, b) /\ \A a \in Objects : (a # b /\ Overlap(a, b)) => s.onHost[a]
    BY <1>1, <1>4 DEF Away
  <2>2. QED
    BY <1>12, <2>1, HostRight
<1>14. \A x \in Objects : ~Overlap(x, b) => s.onHost[x] = m.onHost[x]
  <2>1. s.onHost \in [Buffers -> BOOLEAN] /\ m.onHost \in [Buffers -> BOOLEAN]
    BY <1>1, <1>2, MemFields
  <2>2. QED
    BY <1>1, <1>3, <1>5, <2>1
<1>15. QED
  BY <1>7, <1>12, <1>13, <1>14 DEF s

LEMMA AutoUnmapGood ==
    ASSUME Ordered, NEW m, NEW M, NEW f, Good(m, M, {}, f),
           NEW b \in Objects, m.auto[b], Unused(b, M)
    PROVE  LET u == AutoUnmapped(m, b) IN
           /\ Good(u, M, {}, f) /\ Away(u, b) /\ ~u.auto[b]
           /\ \A c \in Cells : u.host[c] = m.host[c] \/ u.host[c] = f[c]
           /\ Elsewhere(u.dev, m.dev, b)
           /\ u.place = m.place /\ u.pending = m.pending
           /\ \A x \in Objects : ~Overlap(x, b) => u.onHost[x] = m.onHost[x]
<1> DEFINE s == Synced(m, b)
           u == AutoUnmapped(m, b)
<1>1. /\ m \in MemType /\ b \in Buffers /\ Context /\ Whole(m, M)
      /\ Objects \subseteq Buffers /\ Objects \cap ReadOnly = {}
      /\ M[b] = {}
  BY OrderedFacts, UnusedItself DEF Good, Whole
<1>2. /\ s \in MemType
      /\ u.host = s.host /\ u.place = m.place /\ u.pending = m.pending
      /\ u.dev[b] = Paste(m.dev[b], Cover[b], s.host)
      /\ ~u.auto[b] /\ ~u.onHost[b]
      /\ \A x \in Buffers : x # b => /\ u.onHost[x] = s.onHost[x]
                                   /\ u.auto[x] = s.auto[x]
                                   /\ u.dev[x] = m.dev[x]
      /\ m.onHost[b] /\ program.subs # {}
  BY <1>1, AutoUnmapFields
<1>3. /\ Good(s, M, {}, f) /\ \A c \in Cover[b] : s.host[c] = f[c]
      /\ \A c \in Cells : s.host[c] = m.host[c] \/ s.host[c] = f[c]
      /\ \A x \in Objects : ~Overlap(x, b) => s.onHost[x] = m.onHost[x]
  BY <1>2, SyncedGood
<1>4. /\ Whole(u, M)
      /\ \A a \in Objects \ ReadOnly : (a # b /\ Overlap(a, b)) => u.onHost[a]
  BY <1>1, AutoUnmapSound
<1>5. s.dev = m.dev /\ s.place = m.place /\ s.pending = m.pending
  BY <1>1, SyncedWhat DEF SyncedTo, Context
<1> HIDE DEF s, u
<1>6. ~m.pending
  BY <1>1, PendingAlone
<1>7. \A c \in Cover[b] : u.dev[b][c] = f[c]
  <2>1. m.dev[b] \in [Cells -> Known] /\ s.host \in [Cells -> Known]
    BY <1>1, <1>2, MemFields
  <2>2. Cover[b] \subseteq Cells
    BY <1>1, BuffersAssumption
  <2>3. QED
    BY <1>2, <1>3, <2>1, <2>2, PasteType
<1>8. /\ Agree(Objects, s, M, {}, f) /\ MapsAlone(Objects, s, M, program)
      /\ MapsSound(Objects, M, program)
  BY <1>3 DEF Good, Whole
<1>9. \A x \in Objects : x # b => (Away(u, x) <=> Away(s, x))
  BY <1>1, <1>2, <1>5 DEF Away
<1>10. Away(u, b)
  BY <1>2, <1>6 DEF Away
<1>11. Agree(Objects, u, M, {}, f)
  <2>1. ASSUME NEW x \in Objects, Away(u, x)
        PROVE  /\ \A c \in Cover[x] : u.dev[x][c] = f[c]
               /\ u.place[x] = NoDevice => \A c \in Cover[x] : u.host[c] = f[c]
    <3>1. CASE x = b
      BY <1>2, <1>3, <1>7, <3>1
    <3>2. CASE x # b
      BY <1>1, <1>2, <1>5, <1>8, <1>9, <2>1, <3>2 DEF Agree
    <3>3. QED
      BY <3>1, <3>2
  <2>2. ASSUME NEW c \in Cells,
               \A x \in Objects : Away(u, x) /\ c \in Cover[x] => x \in {}
        PROVE  u.host[c] = f[c]
    <3>1. \A x \in Objects : Away(s, x) /\ c \in Cover[x] => x \in {}
      BY <1>9, <1>10, <2>2
    <3>2. QED
      BY <1>2, <1>8, <3>1 DEF Agree
  <2>3. QED
    BY <1>2, <1>8, <2>1, <2>2 DEF Agree
<1>12. MapsAlone(Objects, u, M, program)
  <2>1. ASSUME NEW a \in Objects, NEW z \in Objects, a # z, Overlap(a, z), M[z] # {}
        PROVE  u.onHost[a]
    <3>1. a # b
      BY <1>1, <2>1 DEF Unused, Overlap
    <3>2. QED
      BY <1>1, <1>2, <1>8, <2>1, <3>1 DEF MapsAlone
  <2>2. ASSUME NEW z \in Objects, NEW x \in M[z], x[1] # "read" PROVE u.onHost[z]
    BY <1>1, <1>2, <1>8, <2>2 DEF MapsAlone
  <2>3. "read_mapped" \notin program.does
    BY <1>2, OrderedFacts
  <2>4. QED
    BY <2>1, <2>2, <2>3 DEF MapsAlone
<1>13. Good(u, M, {}, f)
  BY <1>4, <1>11, <1>12 DEF Good
<1>14. \A x \in Objects : ~Overlap(x, b) => u.onHost[x] = m.onHost[x]
  <2>1. Overlap(b, b)
    BY <1>1, BuffersAssumption DEF Overlap
  <2>2. QED
    BY <1>1, <1>2, <1>3, <2>1
<1>15. QED
  BY <1>1, <1>2, <1>3, <1>10, <1>13, <1>14 DEF u, Elsewhere

LEMMA UserUnmapGood ==
    ASSUME Ordered, NEW m, NEW M, NEW f, Good(m, M, {}, f),
           NEW b \in Objects, NEW x \in M[b]
    PROVE  Good(UserUnmapped(m, b), [M EXCEPT ![b] = @ \ {x}], {}, f)
<1> DEFINE s == BeforeUnmap(m, b)
           u == UserUnmapped(m, b)
           n == CountAfter(s, b, FALSE)
           K == [M EXCEPT ![b] = M[b] \ {x}]
<1>1. /\ m \in MemType /\ b \in Buffers /\ Context /\ Whole(m, M) /\ SubsType
      /\ Objects \subseteq Buffers /\ Objects \cap ReadOnly = {}
      /\ MapsType(M) /\ MapsSound(Objects, M, program)
      /\ Sound(Objects, m, M, program)
  BY OrderedFacts DEF Good, Whole, Ordered, Context
<1>2. Good(s, M, {}, f) /\ s.onHost[b] = m.onHost[b] /\ s.pending = m.pending
  <2>1. m.auto[b] => m.onHost[b]
    BY <1>1 DEF Sound, AutoOnHost
  <2>2. CASE m.auto[b]
    <3>1. s = Synced(m, b)
      BY <2>1, <2>2 DEF BeforeUnmap
    <3> HIDE DEF s
    <3>2. s.pending = m.pending
      BY <1>1, <3>1, SyncedWhat DEF SyncedTo
    <3>3. s.onHost[b] = m.onHost[b]
      BY <1>1, <2>1, <2>2, <3>1, SyncedSound
    <3>4. Good(s, M, {}, f)
      BY <2>1, <2>2, <3>1, SyncedGood
    <3>5. QED
      BY <3>2, <3>3, <3>4
  <2>3. CASE ~m.auto[b]
    BY <2>3 DEF BeforeUnmap
  <2>4. QED
    BY <2>2, <2>3
<1>3. /\ s \in MemType /\ u \in MemType
      /\ u.host = s.host /\ u.place = s.place /\ u.pending = s.pending
      /\ u.dev = [s.dev EXCEPT ![b] = IF m.onHost[b]
                                      THEN Paste(s.dev[b], Cover[b], s.host)
                                      ELSE s.dev[b]]
      /\ u.onHost = [s.onHost EXCEPT ![b] = IF n = 0 THEN FALSE ELSE s.onHost[b]]
  <2>1. FALSE \in BOOLEAN
    OBVIOUS
  <2>2. QED
    BY <1>1, <2>1, UnmappedFields DEF UserUnmapped
<1>4. Whole(u, K) /\ (u.onHost[b] <=> m.onHost[b] /\ K[b] # {})
  BY <1>1, UserUnmapSound
<1>5. K[b] = M[b] \ {x} /\ \A a \in Buffers : a # b => K[a] = M[a]
  BY <1>1 DEF MapsType
<1> HIDE DEF s, u, n, K
<1>6. /\ s.onHost \in [Buffers -> BOOLEAN] /\ s.dev \in [Buffers -> [Cells -> Known]]
      /\ s.host \in [Cells -> Known]
  BY <1>3, MemFields
<1>7. /\ \A a \in Buffers : a # b => u.onHost[a] = s.onHost[a] /\ u.dev[a] = s.dev[a]
      /\ u.dev[b] = IF m.onHost[b] THEN Paste(s.dev[b], Cover[b], s.host)
                    ELSE s.dev[b]
  BY <1>1, <1>3, <1>6
<1>8. /\ Agree(Objects, s, M, {}, f) /\ MapsAlone(Objects, s, M, program)
      /\ Sound(Objects, s, M, program)
  BY <1>2 DEF Good, Whole
<1>9. ~(b = Parent /\ m.pending)
  BY <1>1 DEF Sound, PendingUnused
<1>10. m.onHost[b] => \A c \in Cover[b] : s.host[c] = f[c]
  <2>1. M[b] # {} /\ (m.onHost[b] => ~Away(s, b))
    BY <1>2 DEF Away
  <2>2. \A a \in Objects : (a # b /\ Overlap(a, b)) => s.onHost[a]
    BY <1>8, <2>1 DEF MapsAlone
  <2>3. QED
    BY <1>2, <2>1, <2>2, HostRight
<1>11. m.onHost[b] => \A c \in Cover[b] : u.dev[b][c] = f[c]
  <2>1. Cover[b] \subseteq Cells
    BY <1>1, BuffersAssumption
  <2>2. QED
    BY <1>1, <1>6, <1>7, <1>10, <2>1, PasteType
<1>12. /\ \A a \in Objects : a # b => (Away(u, a) <=> Away(s, a))
       /\ Away(s, b) => Away(u, b)
       /\ ~m.onHost[b] => Away(s, b)
  BY <1>1, <1>2, <1>3, <1>4, <1>7, <1>9 DEF Away
<1>13. Agree(Objects, u, K, {}, f)
  <2>1. ASSUME NEW a \in Objects, Away(u, a)
        PROVE  /\ \A c \in Cover[a] : u.dev[a][c] = f[c]
               /\ u.place[a] = NoDevice => \A c \in Cover[a] : u.host[c] = f[c]
    <3>1. CASE a = b /\ m.onHost[b]
      BY <1>3, <1>10, <1>11, <3>1
    <3>2. CASE a = b /\ ~m.onHost[b]
      BY <1>3, <1>7, <1>8, <1>12, <3>2 DEF Agree
    <3>3. CASE a # b
      BY <1>1, <1>3, <1>7, <1>8, <1>12, <2>1, <3>3 DEF Agree
    <3>4. QED
      BY <3>1, <3>2, <3>3
  <2>2. ASSUME NEW c \in Cells,
               \A a \in Objects : Away(u, a) /\ c \in Cover[a] => a \in {}
        PROVE  u.host[c] = f[c]
    <3>1. \A a \in Objects : Away(s, a) /\ c \in Cover[a] => a \in {}
      BY <1>12, <2>2
    <3>2. QED
      BY <1>3, <1>8, <3>1 DEF Agree
  <2>3. \A a \in Objects : \A y \in K[a] : y \in M[a]
    BY <1>1, <1>5
  <2>4. QED
    BY <1>3, <1>8, <2>1, <2>2, <2>3 DEF Agree
<1>14. MapsAlone(Objects, u, K, program)
  <2>1. ASSUME NEW a \in Objects, NEW z \in Objects, a # z, Overlap(a, z), K[z] # {}
        PROVE  u.onHost[a]
    <3>1. M[z] # {} /\ s.onHost[a]
      BY <1>1, <1>5, <1>8, <2>1 DEF MapsAlone
    <3>2. a # b
      BY <1>1, <2>1, <3>1 DEF MapsSound
    <3>3. QED
      BY <1>1, <1>7, <3>1, <3>2
  <2>2. ASSUME NEW z \in Objects, NEW y \in K[z], y[1] # "read" PROVE u.onHost[z]
    <3>1. y \in M[z] /\ s.onHost[z]
      BY <1>1, <1>5, <1>8, <2>2 DEF MapsAlone
    <3>2. CASE z = b
      BY <1>2, <1>4, <3>1, <3>2
    <3>3. CASE z # b
      BY <1>1, <1>7, <3>1, <3>3
    <3>4. QED
      BY <3>2, <3>3
  <2>3. ASSUME "read_mapped" \in program.does, u.onHost[Parent], K[Parent] # {}
        PROVE  \E y \in K[Parent] : K[Parent] = {y} /\ y[1] # "read"
    <3>1. Parent \in Objects
      BY <1>1, ObjectsAre
    <3>2. b = Parent
      BY <2>3, <3>1, OrderedFacts
    <3>3. s.onHost[Parent] /\ M[Parent] # {}
      BY <1>2, <1>4, <2>3, <3>2
    <3>4. PICK y \in M[Parent] : M[Parent] = {y}
      BY <1>8, <2>3, <3>3 DEF MapsAlone
    <3>5. K[Parent] = {}
      BY <1>5, <3>2, <3>4
    <3>6. QED
      BY <2>3, <3>5
  <2>4. QED
    BY <2>1, <2>2, <2>3 DEF MapsAlone
<1>15. QED
  BY <1>4, <1>13, <1>14 DEF Good, u, K

LEMMA AsSourceGood ==
    ASSUME Ordered, NEW m, NEW M, NEW f, Good(m, M, {}, f),
           NEW b \in Objects, ~(b = Parent /\ m.pending)
    PROVE  LET s == AsSource(m, b) IN
           /\ Good(s, M, {}, f) /\ s.place = m.place /\ s.pending = m.pending
           /\ s.onHost[b] = m.onHost[b]
           /\ \A c \in Cover[b] : Source(s, b)[c] = f[c]
<1>1. b \notin ReadOnly /\ m \in MemType /\ SubsType /\ b \in Buffers /\ Context
      /\ Whole(m, M)
  BY OrderedFacts DEF Good, Whole, Ordered, Context
<1>2. CASE m.onHost[b]
  <2> DEFINE s == Synced(m, b)
  <2>1. AsSource(m, b) = s
    BY <1>2 DEF AsSource
  <2>2. s.place = m.place /\ s.pending = m.pending
    BY <1>1, SyncedWhat DEF SyncedTo
  <2>3. s.onHost[b] = m.onHost[b]
    BY <1>1, <1>2, SyncedSound
  <2>4. Good(s, M, {}, f) /\ \A c \in Cover[b] : s.host[c] = f[c]
    BY <1>2, SyncedGood
  <2> HIDE DEF s
  <2>5. \A c \in Cover[b] : Source(s, b)[c] = f[c]
    BY <1>2, <2>3, <2>4 DEF Source
  <2>6. QED
    BY <2>1, <2>2, <2>3, <2>4, <2>5
<1>3. CASE ~m.onHost[b]
  <2>1. AsSource(m, b) = m
    BY <1>1, <1>3 DEF AsSource
  <2>2. Away(m, b)
    BY <1>3 DEF Away
  <2>3. \A c \in Cover[b] : m.dev[b][c] = f[c]
    BY <2>2 DEF Good, Agree
  <2>4. QED
    BY <1>3, <2>1, <2>3 DEF Source
<1>4. QED
  BY <1>2, <1>3

LEMMA BoundGood ==
    ASSUME Ordered, NEW m, NEW M, NEW f, Good(m, M, {}, f), NEW b \in Objects,
           NEW d \in Devices, ~(b = Parent /\ m.pending)
    PROVE  LET u == Bound(m, b, d) IN
           /\ Good(u, M, {}, f) /\ u.pending = m.pending /\ u.host = m.host
           /\ \A a \in Objects : (a = b \/ m.place[a] # NoDevice)
                                   => u.place[a] # NoDevice
<1> DEFINE u == Bound(m, b, d)
<1>1. /\ m \in MemType /\ b \in Buffers /\ Context /\ Whole(m, M)
      /\ Objects \subseteq Buffers /\ Agree(Objects, m, M, {}, f)
      /\ MapsAlone(Objects, m, M, program)
  BY OrderedFacts DEF Good, Whole
<1>2. /\ u.host = m.host /\ u.dev = m.dev /\ u.pending = m.pending
      /\ u.place[b] # NoDevice
      /\ \A a \in Buffers : a # b => /\ u.place[a] = m.place[a]
                                     /\ u.onHost[a] = m.onHost[a]
      /\ m.place[b] # NoDevice => u = m
      /\ (m.place[b] = NoDevice /\ IsSubOrParent(b)) => u.onHost[b]
      /\ ~IsSubOrParent(b) => u.onHost[b] = m.onHost[b]
  BY <1>1, BoundFields
<1>3. Whole(u, M)
  BY <1>1, BoundSound
<1>4. IsSubOrParent(b) => program.subs # {}
  BY <1>1, ObjectsAre
<1> HIDE DEF u
<1>5. CASE m.place[b] # NoDevice
  BY <1>1, <1>2, <1>5 DEF u
<1>6. CASE m.place[b] = NoDevice
  <2>1. \A a \in Objects : m.onHost[a] => u.onHost[a]
    BY <1>1, <1>2, <1>6
  <2>2. /\ \A a \in Objects : Away(u, a) => Away(m, a)
        /\ \A a \in Objects : a # b => (Away(m, a) => Away(u, a))
    BY <1>1, <1>2, <2>1 DEF Away
  <2>3. Away(m, b) => \A c \in Cover[b] : m.host[c] = f[c]
    BY <1>1, <1>6 DEF Agree
  <2>4. Agree(Objects, u, M, {}, f)
    <3>1. ASSUME NEW a \in Objects, Away(u, a)
          PROVE  /\ \A c \in Cover[a] : u.dev[a][c] = f[c]
                 /\ u.place[a] = NoDevice => \A c \in Cover[a] : u.host[c] = f[c]
      BY <1>1, <1>2, <2>2, <3>1 DEF Agree
    <3>2. ASSUME NEW c \in Cells,
                 \A a \in Objects : Away(u, a) /\ c \in Cover[a] => a \in {}
          PROVE  u.host[c] = f[c]
      <4>1. CASE Away(m, b) /\ c \in Cover[b]
        BY <1>2, <2>3, <4>1
      <4>2. CASE ~(Away(m, b) /\ c \in Cover[b])
        BY <1>1, <1>2, <2>2, <3>2, <4>2 DEF Agree
      <4>3. QED
        BY <4>1, <4>2
    <3>3. QED
      BY <1>1, <1>2, <3>1, <3>2 DEF Agree
  <2>5. MapsAlone(Objects, u, M, program)
    <3>1. ASSUME "read_mapped" \in program.does, u.onHost[Parent], M[Parent] # {}
          PROVE  m.onHost[Parent]
      <4>1. ~IsSubOrParent(b)
        BY <1>4, <3>1, OrderedFacts
      <4>2. b = Parent
        BY <4>1 DEF IsSubOrParent
      <4>3. QED
        BY <1>2, <3>1, <4>1, <4>2
    <3>2. QED
      BY <1>1, <2>1, <3>1 DEF MapsAlone
  <2>6. QED
    BY <1>1, <1>2, <1>3, <2>4, <2>5 DEF Good, u
<1>7. QED
  BY <1>5, <1>6

LEMMA AsDestinationGood ==
    ASSUME Ordered, NEW m, NEW M, NEW f, Good(m, M, {}, f), NEW b \in Objects,
           m.auto[b] => Unused(b, M)
    PROVE  LET n == AsDestination(m, b) IN
           /\ Good(n, M, {}, f) /\ n.place = m.place /\ n.pending = m.pending
           /\ ~n.auto[b]
           /\ \A c \in Cells : n.host[c] = m.host[c] \/ n.host[c] = f[c]
           /\ Elsewhere(n.dev, m.dev, b)
           /\ ~m.onHost[b] => n = m
<1>1. /\ m \in MemType /\ b \in Buffers /\ Context /\ Whole(m, M) /\ SubsType
  BY OrderedFacts DEF Good, Whole, Ordered, Context
<1>2. CASE m.auto[b]
  <2> DEFINE s == Synced(m, b)
             n == AutoUnmapped(s, b)
  <2>1. m.onHost[b] /\ AsDestination(m, b) = n
    BY <1>1, <1>2, PendingAlone DEF AsDestination, AutoUnmapped
  <2>2. /\ Good(s, M, {}, f)
        /\ \A c \in Cells : s.host[c] = m.host[c] \/ s.host[c] = f[c]
    BY <2>1, SyncedGood
  <2>3. s.auto[b]
    BY <1>1, <1>2, <2>1, SyncedSound
  <2>4. s.dev = m.dev /\ s.place = m.place /\ s.pending = m.pending
    BY <1>1, SyncedWhat DEF SyncedTo
  <2> HIDE DEF s
  <2>5. /\ Good(n, M, {}, f) /\ ~n.auto[b]
        /\ \A c \in Cells : n.host[c] = s.host[c] \/ n.host[c] = f[c]
        /\ Elsewhere(n.dev, s.dev, b)
        /\ n.place = s.place /\ n.pending = s.pending
    BY <1>2, <2>2, <2>3, AutoUnmapGood
  <2> HIDE DEF n
  <2>6. \A c \in Cells : n.host[c] = m.host[c] \/ n.host[c] = f[c]
    BY <2>2, <2>5
  <2>7. QED
    BY <2>1, <2>4, <2>5, <2>6
<1>3. CASE ~m.auto[b]
  BY <1>3 DEF AsDestination, Elsewhere
<1>4. QED
  BY <1>2, <1>3

(* R of b becomes that of g.                                               *)
LEMMA StoredGood ==
    ASSUME Ordered, NEW m, NEW f \in [Cells -> Known], Good(m, maps, {}, f),
           TypeOK, NEW b \in Objects, ~(b = Parent /\ m.pending), ~m.auto[b],
           m.place[b] # NoDevice, NEW R, R \subseteq Cover[b], MayWrite(R),
           NEW g \in [Cells -> Known]
    PROVE  Good(Stored(m, b, R, g), maps, {}, Paste(f, R, g))
<1> DEFINE u == Stored(m, b, R, g)
           h == Paste(f, R, g)
<1>1. /\ m \in MemType /\ b \in Buffers /\ Context /\ Whole(m, maps)
      /\ Objects \subseteq Buffers /\ Objects \cap ReadOnly = {}
      /\ Agree(Objects, m, maps, {}, f) /\ MapsAlone(Objects, m, maps, program)
      /\ Sound(Objects, m, maps, program) /\ MapsSound(Objects, maps, program)
  BY OrderedFacts DEF Good, Whole
<1>2. Whole(u, maps)
  BY <1>1, StoredSound
<1>3. /\ m.host \in [Cells -> Known] /\ m.dev \in [Buffers -> [Cells -> Known]]
      /\ m.dev[b] \in [Cells -> Known]
  BY <1>1, MemFields
<1>4. /\ Paste(m.host, R, g) \in [Cells -> Known]
      /\ Paste(m.dev[b], R, g) \in [Cells -> Known]
      /\ \A c \in Cells : h[c] = IF c \in R THEN g[c] ELSE f[c]
      /\ \A c \in Cells : Paste(m.host, R, g)[c] = IF c \in R THEN g[c] ELSE m.host[c]
      /\ \A c \in Cells : Paste(m.dev[b], R, g)[c] = IF c \in R THEN g[c]
                                                     ELSE m.dev[b][c]
  BY <1>3, PasteType
<1>5. \A x \in Objects : Cover[x] \subseteq Cells
  BY <1>1, BuffersAssumption
<1> HIDE DEF h
<1>6. CASE m.onHost[b]
  <2> DEFINE P == Paste(m.host, R, g)
  <2>1. u = [m EXCEPT !.host = P]
    BY <1>6 DEF Stored
  <2> HIDE DEF u, P
  <2>2. /\ u.host = P /\ u.dev = m.dev /\ u.place = m.place
        /\ u.onHost = m.onHost /\ u.pending = m.pending
    BY <1>1, <1>4, <2>1, SetHost DEF P
  <2>3. \A c \in Cells : u.host[c] = IF c \in R THEN g[c] ELSE m.host[c]
    BY <1>4, <2>2 DEF P
  <2>4. maps[b] # {}
    BY <1>1, <1>6 DEF Sound, WhyOnHost
  <2>5. \A x \in Objects : Away(m, x) => x # b /\ ~Overlap(x, b)
    BY <1>1, <1>6, <2>4 DEF MapsAlone, Away
  <2>6. \A x \in Objects : Away(u, x) <=> Away(m, x)
    BY <2>2 DEF Away
  <2>7. \A x \in Objects : Away(m, x) => Cover[x] \cap R = {}
    BY <2>5 DEF Overlap
  <2>8. Agree(Objects, u, maps, {}, h)
    <3>1. ASSUME NEW x \in Objects, Away(u, x), NEW c \in Cover[x]
          PROVE  /\ u.dev[x][c] = h[c]
                 /\ u.place[x] = NoDevice => u.host[c] = h[c]
      <4>1. Away(m, x) /\ c \notin R /\ c \in Cells
        BY <1>5, <2>6, <2>7, <3>1
      <4>2. h[c] = f[c] /\ u.host[c] = m.host[c]
        BY <1>4, <2>3, <4>1
      <4>3. QED
        BY <1>1, <2>2, <4>1, <4>2 DEF Agree
    <3>2. ASSUME NEW c \in Cells,
                 \A x \in Objects : Away(u, x) /\ c \in Cover[x] => x \in {}
          PROVE  u.host[c] = h[c]
      <4>1. m.host[c] = f[c]
        BY <1>1, <2>6, <3>2 DEF Agree
      <4>2. QED
        BY <1>4, <2>3, <4>1
    <3>3. ASSUME NEW x \in Objects, NEW y \in maps[x], NEW c \in y[2]
          PROVE  u.host[c] = h[c]
      <4>1. m.host[c] = f[c] /\ c \in Cells
        BY <1>1, <1>5, <3>3 DEF Agree, MapsSound
      <4>2. QED
        BY <1>4, <2>3, <4>1
    <3>4. QED
      BY <3>1, <3>2, <3>3 DEF Agree
  <2>9. MapsAlone(Objects, u, maps, program)
    BY <1>1, <2>2 DEF MapsAlone
  <2>10. QED
    BY <1>2, <2>8, <2>9 DEF Good, u, h
<1>7. CASE ~m.onHost[b]
  <2> DEFINE P == Paste(m.dev[b], R, g)
  <2>1. u = [m EXCEPT !.dev[b] = P]
    BY <1>7 DEF Stored
  <2> HIDE DEF u, P
  <2>2. /\ u.host = m.host /\ u.dev = [m.dev EXCEPT ![b] = P] /\ u.place = m.place
        /\ u.onHost = m.onHost /\ u.pending = m.pending
    BY <1>1, <1>4, <2>1, SetDev DEF P
  <2>3. /\ \A c \in Cells : u.dev[b][c] = IF c \in R THEN g[c] ELSE m.dev[b][c]
        /\ \A x \in Buffers : x # b => u.dev[x] = m.dev[x]
    BY <1>1, <1>3, <1>4, <2>2 DEF P
  <2>4. Away(m, b)
    BY <1>7 DEF Away
  <2>5. \A x \in Objects : (Away(m, x) /\ x # b) => ~Overlap(x, b)
    BY <1>1, <1>7 DEF Sound, OneAway, Away
  <2>6. \A x \in Objects : Away(u, x) <=> Away(m, x)
    BY <2>2 DEF Away
  <2>7. Agree(Objects, u, maps, {}, h)
    <3>1. ASSUME NEW x \in Objects, Away(u, x), NEW c \in Cover[x]
          PROVE  /\ u.dev[x][c] = h[c]
                 /\ u.place[x] = NoDevice => u.host[c] = h[c]
      <4>1. Away(m, x) /\ c \in Cells /\ m.dev[x][c] = f[c]
        BY <1>1, <1>5, <2>6, <3>1 DEF Agree
      <4>2. CASE x = b
        BY <1>4, <2>2, <2>3, <4>1, <4>2
      <4>3. CASE x # b
        <5>1. c \notin R
          BY <2>5, <4>1, <4>3 DEF Overlap
        <5>2. h[c] = f[c] /\ u.dev[x] = m.dev[x]
          BY <1>1, <1>4, <2>3, <4>1, <4>3, <5>1
        <5>3. QED
          BY <1>1, <2>2, <4>1, <5>2 DEF Agree
      <4>4. QED
        BY <4>2, <4>3
    <3>2. ASSUME NEW c \in Cells,
                 \A x \in Objects : Away(u, x) /\ c \in Cover[x] => x \in {}
          PROVE  u.host[c] = h[c]
      <4>1. m.host[c] = f[c]
        BY <1>1, <2>6, <3>2 DEF Agree
      <4>2. c \notin R
        BY <2>4, <2>6, <3>2
      <4>3. QED
        BY <1>4, <2>2, <4>1, <4>2
    <3>3. ASSUME NEW x \in Objects, NEW y \in maps[x], NEW c \in y[2]
          PROVE  u.host[c] = h[c]
      <4>1. m.host[c] = f[c] /\ c \in Cells
        BY <1>1, <1>5, <3>3 DEF Agree, MapsSound
      <4>2. y \in MapKinds \X SUBSET Cells /\ x \in Buffers
        BY <1>1, <3>3 DEF TypeOK
      <4>3. c \in MappedCells(MapKinds)
        BY <3>3, <4>2 DEF MappedCells
      <4>4. c \notin R
        BY <4>3 DEF MayWrite
      <4>5. QED
        BY <1>4, <2>2, <4>1, <4>4
    <3>4. QED
      BY <3>1, <3>2, <3>3 DEF Agree
  <2>8. MapsAlone(Objects, u, maps, program)
    BY <1>1, <2>2 DEF MapsAlone
  <2>9. QED
    BY <1>2, <2>7, <2>8 DEF Good, u, h
<1>8. QED
  BY <1>6, <1>7

(* The user maps R of b ...                                                *)
LEMMA MappedGood ==
    ASSUME Ordered, TypeOK, NEW m, NEW f \in [Cells -> Known], Good(m, maps, {}, f),
           NEW b \in Objects, NEW k \in MapKinds, k # "invalidate",
           NEW R \in Regions(b), MayMap(b, k, R), "map" \in program.does,
           <<k, R>> \notin maps[b], m.place[b] # NoDevice, ~(b = Parent /\ m.pending)
    PROVE  Good(Mapped(m, b, k), [maps EXCEPT ![b] = @ \cup {<<k, R>>}], {}, f)
<1> DEFINE t == BeforeMap(m, b, k)
           s == AsSource(m, b)
           u == Mapped(m, b, k)
           P == Paste(s.host, Cover[b], Source(s, b))
           K == [maps EXCEPT ![b] = maps[b] \cup {<<k, R>>}]
<1>1. /\ m \in MemType /\ b \in Buffers /\ Context /\ Whole(m, maps) /\ SubsType
      /\ Objects \subseteq Buffers /\ Objects \cap ReadOnly = {}
      /\ MapsSound(Objects, maps, program) /\ MapsType(maps)
      /\ Sound(Objects, m, maps, program) /\ Parent \in Objects
  BY OrderedFacts, ObjectsAre DEF Good, Whole, Ordered, Context
<1>2. Whole(u, K)
  BY <1>1, MappedSound
<1>3. K[b] = maps[b] \cup {<<k, R>>} /\ \A a \in Buffers : a # b => K[a] = maps[a]
  BY <1>1 DEF MapsType
<1> HIDE DEF K
<1>4. /\ t \in MemType /\ u.host = t.host /\ u.dev = t.dev
      /\ u.place = t.place /\ u.pending = t.pending
      /\ u.onHost[b] <=> (k # "read" \/ t.onHost[b])
      /\ \A x \in Buffers : x # b => u.onHost[x] = t.onHost[x]
  <2>1. SubsType /\ m \in MemType /\ b \in Buffers
    BY <1>1
  <2> HIDE DEF t, u
  <2>2. QED
    BY <2>1, MappedFields DEF t, u
<1>5. /\ Good(s, maps, {}, f) /\ s.place = m.place /\ s.pending = m.pending
      /\ s.onHost[b] = m.onHost[b]
      /\ \A c \in Cover[b] : Source(s, b)[c] = f[c]
  BY AsSourceGood
<1>6. t = [s EXCEPT !.host = P]
  BY DEF BeforeMap
<1> HIDE DEF s, t, u
<1>7. /\ s \in MemType /\ Agree(Objects, s, maps, {}, f)
      /\ MapsAlone(Objects, s, maps, program) /\ Sound(Objects, s, maps, program)
  BY <1>5 DEF Good, Whole
<1>8. /\ s.host \in [Cells -> Known] /\ Source(s, b) \in [Cells -> Known]
      /\ Cover[b] \subseteq Cells
  BY <1>1, <1>7, MemFields, SourceType, BuffersAssumption
<1>9. /\ P \in [Cells -> Known]
      /\ \A c \in Cells : P[c] = IF c \in Cover[b] THEN Source(s, b)[c] ELSE s.host[c]
  BY <1>8, PasteType
<1> HIDE DEF P
<1>10. /\ t.host = P /\ t.dev = s.dev /\ t.place = s.place /\ t.onHost = s.onHost
       /\ t.pending = s.pending
  BY <1>6, <1>7, <1>9, SetHost
<1>11. /\ \A c \in Cover[b] : u.host[c] = f[c]
       /\ \A c \in Cells : u.host[c] = s.host[c] \/ u.host[c] = f[c]
  BY <1>4, <1>5, <1>8, <1>9, <1>10
<1>12. /\ \A x \in Objects : s.onHost[x] => u.onHost[x]
       /\ \A x \in Objects : x # b => (Away(s, x) => Away(u, x))
       /\ \A x \in Objects : Away(u, x) => Away(s, x)
  BY <1>1, <1>4, <1>10 DEF Away
<1>13. R \subseteq Cover[b] /\ R # {} /\ ("part" \notin program.does => R = Cover[b])
  BY <1>1, RegionsAre
<1>14. Agree(Objects, u, K, {}, f)
  <2>1. ASSUME NEW x \in Objects, Away(u, x), NEW c \in Cover[x]
        PROVE  /\ u.dev[x][c] = f[c]
               /\ u.place[x] = NoDevice => u.host[c] = f[c]
    <3>1. Away(s, x) /\ c \in Cells
      BY <1>1, <1>12, <2>1, BuffersAssumption
    <3>2. QED
      BY <1>4, <1>7, <1>10, <1>11, <2>1, <3>1 DEF Agree
  <2>2. ASSUME NEW c \in Cells,
               \A x \in Objects : Away(u, x) /\ c \in Cover[x] => x \in {}
        PROVE  u.host[c] = f[c]
    <3>1. CASE c \in Cover[b]
      BY <1>11, <3>1
    <3>2. CASE c \notin Cover[b]
      <4>1. s.host[c] = f[c]
        BY <1>7, <1>12, <2>2, <3>2 DEF Agree
      <4>2. QED
        BY <1>11, <4>1
    <3>3. QED
      BY <3>1, <3>2
  <2>3. ASSUME NEW x \in Objects, NEW y \in K[x], NEW c \in y[2]
        PROVE  u.host[c] = f[c]
    <3>1. CASE x = b /\ y = <<k, R>>
      BY <1>11, <1>13, <2>3, <3>1
    <3>2. CASE ~(x = b /\ y = <<k, R>>)
      <4>1. y \in maps[x]
        BY <1>1, <1>3, <2>3, <3>2
      <4>2. c \in Cells
        BY <1>1, <2>3, <4>1, BuffersAssumption DEF MapsSound
      <4>3. s.host[c] = f[c]
        BY <1>7, <2>3, <4>1 DEF Agree
      <4>4. QED
        BY <1>11, <4>2, <4>3
    <3>3. QED
      BY <3>1, <3>2
  <2>4. QED
    BY <2>1, <2>2, <2>3 DEF Agree
<1>15. ASSUME NEW a \in Objects, a # b, Overlap(a, b) PROVE u.onHost[a]
  <2>1. CASE m.onHost[b]
    BY <1>1, <1>12, <1>15, <2>1, AsSourceSound DEF s
  <2>2. CASE ~m.onHost[b]
    BY <1>1, <1>5, <1>7, <1>12, <1>15, <2>2 DEF Sound, OneAway
  <2>3. QED
    BY <2>1, <2>2
<1>16. MapsAlone(Objects, u, K, program)
  <2>1. ASSUME NEW a \in Objects, NEW z \in Objects, a # z, Overlap(a, z), K[z] # {}
        PROVE  u.onHost[a]
    <3>1. CASE z = b
      BY <1>15, <2>1, <3>1
    <3>2. CASE z # b
      BY <1>1, <1>3, <1>7, <1>12, <2>1, <3>2 DEF MapsAlone
    <3>3. QED
      BY <3>1, <3>2
  <2>2. ASSUME NEW z \in Objects, NEW y \in K[z], y[1] # "read" PROVE u.onHost[z]
    <3>1. CASE z = b /\ y = <<k, R>>
      BY <1>4, <2>2, <3>1
    <3>2. CASE ~(z = b /\ y = <<k, R>>)
      <4>1. y \in maps[z]
        BY <1>1, <1>3, <2>2, <3>2
      <4>2. QED
        BY <1>7, <1>12, <2>2, <4>1 DEF MapsAlone
    <3>3. QED
      BY <3>1, <3>2
  <2>3. ASSUME "read_mapped" \in program.does, u.onHost[Parent]
        PROVE  \E y \in K[Parent] : K[Parent] = {y} /\ y[1] # "read"
    <3>1. b = Parent /\ program.subs = {}
      BY <1>1, <2>3, OrderedFacts
    <3>2. "part" \notin program.does
      BY <2>3 DEF Ordered, Orderly
    <3>3. \A x \in maps[b] : k = "read" /\ x[1] = "read"
      <4>1. ASSUME NEW x \in maps[b] PROVE x[2] \cap R # {}
        BY <1>1, <1>13, <3>2 DEF MapsSound
      <4>2. QED
        BY <1>1, <4>1 DEF MayMap
    <3>4. CASE maps[b] = {}
      <4>1. K[b] = {<<k, R>>}
        BY <1>3, <3>4
      <4>2. ~m.auto[b]
        BY <1>1, <3>1 DEF Sound, AutoOnHost
      <4>3. ~m.onHost[b]
        BY <1>1, <3>4, <4>2 DEF Sound, WhyOnHost
      <4>4. k # "read"
        BY <1>4, <1>5, <1>10, <2>3, <3>1, <4>3
      <4>5. QED
        BY <3>1, <4>1, <4>4
    <3>5. CASE maps[b] # {}
      <4>1. s.onHost[b]
        BY <1>4, <1>10, <2>3, <3>1, <3>3, <3>5
      <4>2. \E y \in maps[b] : y[1] # "read"
        BY <1>7, <2>3, <3>1, <3>5, <4>1 DEF MapsAlone
      <4>3. QED
        BY <3>3, <4>2
    <3>6. QED
      BY <3>4, <3>5
  <2>4. QED
    BY <2>1, <2>2, <2>3 DEF MapsAlone
<1>17. QED
  BY <1>2, <1>14, <1>16 DEF Good, u, K

(* ... or says that it writes all of it: b has no sub-buffers, and holds   *)
(* what the host copy does.                                                *)
LEMMA InvalidatedGood ==
    ASSUME Ordered, TypeOK, NEW m, NEW f, Good(m, maps, {}, f),
           NEW b \in Objects, NEW R \in Regions(b), MayMap(b, "invalidate", R),
           "map" \in program.does, "invalidate" \in program.does,
           <<"invalidate", R>> \notin maps[b], m.place[b] # NoDevice,
           ~(b = Parent /\ m.pending)
    PROVE  LET u == Mapped(m, b, "invalidate") IN
           /\ Good(u, [maps EXCEPT ![b] = @ \cup {<<"invalidate", R>>}], {}, m.host)
           /\ u.host = m.host /\ R = Cells
<1> DEFINE t == BeforeMap(m, b, "invalidate")
           u == Mapped(m, b, "invalidate")
           K == [maps EXCEPT ![b] = maps[b] \cup {<<"invalidate", R>>}]
<1>0. "invalidate" \in MapKinds
  BY DEF MapKinds
<1>1. /\ m \in MemType /\ b \in Buffers /\ Context /\ Whole(m, maps) /\ SubsType
      /\ Objects \subseteq Buffers /\ MapsSound(Objects, maps, program)
      /\ MapsType(maps) /\ Parent \in Objects
  BY OrderedFacts, ObjectsAre DEF Good, Whole, Ordered, Context
<1>2. Whole(u, K)
  BY <1>0, <1>1, MappedSound
<1>3. K[b] = maps[b] \cup {<<"invalidate", R>>}
  BY <1>1 DEF MapsType
<1> HIDE DEF K
<1>4. u.host = t.host /\ u.onHost[b]
  <2>1. SubsType /\ m \in MemType /\ b \in Buffers
    BY <1>1
  <2> HIDE DEF t, u
  <2>2. QED
    BY <2>1, MappedFields DEF t, u
<1>5. t = m
  BY DEF BeforeMap
<1> HIDE DEF t, u
<1>6. program.subs = {} /\ Objects = {b} /\ b = Parent
  BY <1>1, OrderedFacts
<1>7. "part" \notin program.does
  BY DEF Ordered, Orderly
<1>8. R = Cover[b] /\ R = Cells
  BY <1>1, <1>6, <1>7, RegionsAre, BuffersAssumption
<1>9. maps[b] = {}
  <2> SUFFICES ASSUME NEW x \in maps[b] PROVE FALSE
    OBVIOUS
  <2>1. x[2] = Cover[b] /\ x[2] # {}
    BY <1>1, <1>7 DEF MapsSound
  <2>2. QED
    BY <1>1, <1>8, <2>1 DEF MayMap
<1>10. Agree(Objects, u, K, {}, m.host)
  <2>1. \A x \in Objects : ~Away(u, x)
    BY <1>4, <1>6 DEF Away
  <2>2. QED
    BY <1>4, <1>5, <2>1 DEF Agree
<1>11. MapsAlone(Objects, u, K, program)
  BY <1>3, <1>4, <1>6, <1>9 DEF MapsAlone
<1>12. QED
  BY <1>2, <1>4, <1>5, <1>8, <1>10, <1>11 DEF Good, u, K

(* What may be read is not on the host for the user.                       *)
LEMMA ReadableAway ==
    ASSUME Ordered, TypeOK, NEW m, NEW f, Good(m, maps, {}, f), NEW b \in Objects,
           ~m.auto[b], ~(b = Parent /\ m.pending), MayRead(Cover[b])
    PROVE  Away(m, b)
<1> SUFFICES ASSUME m.onHost[b] PROVE FALSE
  BY DEF Away
<1>1. /\ Sound(Objects, m, maps, program) /\ MapsSound(Objects, maps, program)
      /\ MapsAlone(Objects, m, maps, program) /\ MapsType(maps)
      /\ b \in Buffers /\ b \notin ReadOnly
  BY OrderedFacts DEF Good, Whole
<1>2. maps[b] # {}
  BY <1>1 DEF Sound, WhyOnHost
<1>3. ASSUME NEW x \in maps[b]
      PROVE  x[1] \in MapKinds /\ x[2] # {} /\ x[2] \subseteq Cover[b]
  BY <1>1 DEF MapsType, MapsSound
<1>4. ASSUME NEW x \in maps[b], NEW kinds, x[1] \in kinds
      PROVE  Cover[b] \cap MappedCells(kinds) # {}
  <2>1. x[2] \subseteq MappedCells(kinds)
    BY <1>1, <1>4 DEF MappedCells
  <2>2. QED
    BY <1>3, <2>1
<1>5. CASE "read_mapped" \notin program.does
  BY <1>2, <1>3, <1>4, <1>5 DEF MayRead, Does
<1>6. CASE "read_mapped" \in program.does
  <2>1. b = Parent
    BY <1>6, OrderedFacts, ObjectsAre
  <2>2. PICK x \in maps[b] : x[1] # "read"
    BY <1>1, <1>2, <1>6, <2>1 DEF MapsAlone
  <2>3. x[1] \in {"write", "invalidate"}
    BY <1>3, <2>2 DEF MapKinds
  <2>4. QED
    BY <1>4, <1>6, <2>3 DEF MayRead, Does
<1>7. QED
  BY <1>5, <1>6

LEMMA PlacedGood ==
    ASSUME Ordered, NEW m, NEW M, NEW f, Good(m, M, {}, f), NEW b \in Objects,
           NEW d \in Devices, ~(b = Parent /\ m.pending)
    PROVE  Good(Placed(m, b, d), M, {}, f)
<1> DEFINE n == Placed(m, b, d)
<1>1. /\ m \in MemType /\ b \in Buffers /\ Context /\ MapsType(M)
      /\ MapsSound(Objects, M, program) /\ Sound(Objects, m, M, program)
      /\ Objects \subseteq Buffers /\ NoDevice \notin Devices
      /\ Agree(Objects, m, M, {}, f) /\ MapsAlone(Objects, m, M, program)
  BY OrderedFacts, BuffersAssumption DEF Good, Whole
<1>2. /\ n \in MemType
      /\ n.place = [m.place EXCEPT ![b] = IF m.place[b] = NoDevice THEN d
                                          ELSE m.place[b]]
      /\ n.host = m.host /\ n.dev = m.dev /\ n.onHost = m.onHost
      /\ n.auto = m.auto /\ n.pending = m.pending /\ n.count = m.count
  BY <1>1, PlacedFields
<1> HIDE DEF n
<1>3. m.place \in [Buffers -> Devices \cup {NoDevice}]
  BY <1>1, MemFields
<1>4. \A x \in Buffers : /\ x # b => n.place[x] = m.place[x]
                         /\ m.place[x] # NoDevice => n.place[x] # NoDevice
  BY <1>1, <1>2, <1>3
<1>5. n.place[b] # NoDevice
  BY <1>1, <1>2, <1>3
<1>6. Counted(Objects, n, M) /\ AutoOnHost(Objects, n, program)
  BY <1>1, <1>2 DEF Sound, Counted, AutoOnHost
<1>7. WhyOnHost(Objects, n, M) /\ MappedPlaced(Objects, n, M)
  BY <1>1, <1>2, <1>4 DEF Sound, WhyOnHost, MappedPlaced
<1>8. PendingUnused(n, M, program) /\ OneAway(Objects, n, M)
  BY <1>1, <1>2, <1>4, BuffersAssumption DEF Sound, PendingUnused, OneAway
<1>9. Whole(n, M)
  BY <1>1, <1>2, <1>6, <1>7, <1>8 DEF Whole, Sound
<1>10. \A x \in Objects : Away(n, x) <=> Away(m, x)
  BY <1>2 DEF Away
<1>11. Agree(Objects, n, M, {}, f)
  BY <1>1, <1>2, <1>4, <1>10 DEF Agree
<1>12. MapsAlone(Objects, n, M, program)
  BY <1>1, <1>2 DEF MapsAlone
<1>13. QED
  BY <1>9, <1>11, <1>12 DEF Good, n

LEMMA FreedGood ==
    ASSUME Ordered, NEW m, NEW M, NEW f, Good(m, M, {}, f), NEW b \in Objects,
           NEW d \in Devices, ~(b = Parent /\ m.pending),
           m.auto[b] => Unused(b, M)
    PROVE  LET s == Freed(m, b, d) IN
           /\ Good(s, M, {}, f) /\ ~s.auto[b] /\ s.pending = m.pending
           /\ Elsewhere(s.dev, m.dev, b) /\ Elsewhere(s.place, m.place, b)
           /\ s.place[b] # NoDevice
           /\ \A x \in Objects : ~Overlap(x, b) => s.onHost[x] = m.onHost[x]
<1> DEFINE n == Placed(m, b, d)
           s == Freed(m, b, d)
<1>1. m \in MemType /\ b \in Buffers /\ NoDevice \notin Devices
  BY OrderedFacts, BuffersAssumption DEF Good, Whole
<1>2. /\ n.place = [m.place EXCEPT ![b] = IF m.place[b] = NoDevice THEN d
                                          ELSE m.place[b]]
      /\ n.dev = m.dev /\ n.onHost = m.onHost
      /\ n.auto = m.auto /\ n.pending = m.pending
  BY <1>1, PlacedFields
<1>3. s = IF n.auto[b] THEN AutoUnmapped(n, b) ELSE n
  BY DEF Freed, AutoUnmapped
<1>4. Good(n, M, {}, f)
  BY PlacedGood
<1> HIDE DEF n, s
<1>5. m.place \in [Buffers -> Devices \cup {NoDevice}]
  BY <1>1, MemFields
<1>6. Elsewhere(n.place, m.place, b) /\ n.place[b] # NoDevice
  BY <1>1, <1>2, <1>5 DEF Elsewhere
<1>7. CASE n.auto[b]
  <2>1. s = AutoUnmapped(n, b) /\ Unused(b, M)
    BY <1>2, <1>3, <1>7
  <2>2. /\ Good(s, M, {}, f) /\ ~s.auto[b] /\ Elsewhere(s.dev, n.dev, b)
        /\ s.place = n.place /\ s.pending = n.pending
        /\ \A x \in Objects : ~Overlap(x, b) => s.onHost[x] = n.onHost[x]
    BY <1>4, <1>7, <2>1, AutoUnmapGood
  <2>3. QED
    BY <1>2, <1>6, <2>2 DEF s
<1>8. CASE ~n.auto[b]
  BY <1>2, <1>3, <1>4, <1>6, <1>8 DEF s, Elsewhere
<1>9. QED
  BY <1>7, <1>8

(* An object that may be read is on the device once it was sent there.     *)
LEMMA MigratedGood ==
    ASSUME Ordered, TypeOK, NEW m, NEW f, Good(m, maps, {}, f), NEW b \in Objects,
           NEW d \in Devices, m.auto[b] => Unused(b, maps), MayRead(Cover[b])
    PROVE  LET u == Migrated(m, b, d) IN
           /\ Good(u, maps, {}, f) /\ Away(u, b) /\ u.place[b] = d
           /\ Elsewhere(u.dev, m.dev, b) /\ Elsewhere(u.place, m.place, b)
           /\ \A x \in Objects : ~Overlap(x, b) => u.onHost[x] = m.onHost[x]
<1> DEFINE s == Freed(m, b, d)
           u == Migrated(m, b, d)
           D == Paste(s.dev[b], Cover[b], s.host)
<1>1. /\ m \in MemType /\ b \in Buffers /\ Context /\ SubsType
      /\ MapsType(maps) /\ NoDevice \notin Devices /\ Parent \in Objects
      /\ Objects \subseteq Buffers /\ Sound(Objects, m, maps, program)
      /\ Agree(Objects, m, maps, {}, f) /\ Whole(m, maps)
  BY OrderedFacts, ObjectsAre, BuffersAssumption DEF Good, Whole, Ordered, Context
<1>2. Whole(u, maps)
  BY <1>1, MigratedSound
<1>3. /\ u.place[b] = d /\ Elsewhere(u.place, s.place, b)
      /\ Elsewhere(u.dev, s.dev, b) /\ Elsewhere(u.onHost, s.onHost, b)
      /\ u.host = s.host /\ u.auto = s.auto
  BY <1>1, MigratedFields
<1>4. s.place[b] # d => /\ u.dev[b] = IF s.onHost[b] THEN D ELSE s.dev[b]
                        /\ u.onHost = s.onHost /\ u.pending = s.pending
  BY <1>1, MigratedFields
<1>5. (s.place[b] = d /\ b = Parent /\ s.pending) =>
         u.dev[b] = D /\ ~u.onHost[b] /\ ~u.pending
  BY <1>1, MigratedFields
<1>6. (s.place[b] = d /\ ~(b = Parent /\ s.pending)) => u = s
  BY <1>1, MigratedFields
<1>7. CASE b = Parent /\ m.pending
  <2>1. Objects = {b} /\ ~m.auto[b]
    BY <1>1, <1>7, PendingAlone
  <2>2. m.place[b] = NoDevice /\ maps[b] = {}
    BY <1>1, <1>7 DEF Sound, PendingUnused
  <2> DEFINE n == Placed(m, b, d)
  <2>3. /\ n.place = [m.place EXCEPT ![b] = IF m.place[b] = NoDevice THEN d
                                          ELSE m.place[b]]
        /\ n.host = m.host /\ n.dev = m.dev /\ n.onHost = m.onHost
        /\ n.auto = m.auto /\ n.pending = m.pending
    BY <1>1, PlacedFields
  <2>4. s = IF n.auto[b] THEN AutoUnmapped(n, b) ELSE n
    BY DEF Freed, AutoUnmapped
  <2> HIDE DEF n, s, u
  <2>5. s = n
    BY <2>1, <2>3, <2>4
  <2>6. m.place \in [Buffers -> Devices \cup {NoDevice}] /\ m.host \in [Cells -> Known]
        /\ m.dev[b] \in [Cells -> Known] /\ Cover[b] = Cells
    BY <1>1, <1>7, MemFields, BuffersAssumption
  <2>7. s.place[b] = d /\ Elsewhere(s.place, m.place, b)
    BY <1>1, <2>2, <2>3, <2>5, <2>6 DEF Elsewhere
  <2>8. u.dev[b] = D /\ ~u.onHost[b] /\ ~u.pending /\ u.host = m.host
    BY <1>3, <1>5, <1>7, <2>3, <2>5, <2>7
  <2>9. \A c \in Cells : m.host[c] = f[c]
    BY <1>1, <1>7, <2>1 DEF Agree, Away
  <2>10. \A c \in Cells : D[c] = m.host[c]
    BY <2>3, <2>5, <2>6, PasteType
  <2> HIDE DEF D
  <2>11. Agree(Objects, u, maps, {}, f)
    BY <1>1, <1>3, <2>1, <2>2, <2>6, <2>8, <2>9, <2>10 DEF Agree
  <2>12. MapsAlone(Objects, u, maps, program)
    BY <1>7, <2>1, <2>2 DEF MapsAlone
  <2>13. Away(u, b)
    BY <2>8 DEF Away
  <2>14. Elsewhere(u.dev, m.dev, b) /\ Elsewhere(u.place, m.place, b)
    BY <1>3, <2>3, <2>5, <2>7 DEF Elsewhere
  <2>15. Overlap(b, b)
    BY <1>1, BuffersAssumption DEF Overlap
  <2>16. QED
    BY <1>2, <1>3, <2>1, <2>11, <2>12, <2>13, <2>14, <2>15 DEF Good, u
<1>8. CASE ~(b = Parent /\ m.pending)
  <2>1. /\ Good(s, maps, {}, f) /\ ~s.auto[b] /\ s.pending = m.pending
        /\ Elsewhere(s.dev, m.dev, b) /\ Elsewhere(s.place, m.place, b)
        /\ s.place[b] # NoDevice
        /\ \A x \in Objects : ~Overlap(x, b) => s.onHost[x] = m.onHost[x]
    BY <1>8, FreedGood
  <2> HIDE DEF s, u, D
  <2>2. /\ u.onHost = s.onHost /\ u.pending = s.pending
        /\ s.onHost[b] \/ u.dev[b] = s.dev[b]
    BY <1>4, <1>6, <1>8, <2>1
  <2>3. Agree(Objects, s, maps, {}, f) /\ MapsAlone(Objects, s, maps, program)
    BY <2>1 DEF Good
  <2>4. \A x \in Objects : /\ Away(u, x) <=> Away(s, x)
                           /\ Away(u, x) => u.dev[x] = s.dev[x]
                           /\ u.place[x] = NoDevice => s.place[x] = NoDevice
    BY <1>1, <1>3, <2>2 DEF Away, Elsewhere
  <2>5. Agree(Objects, u, maps, {}, f)
    BY <1>3, <2>3, <2>4 DEF Agree
  <2>6. MapsAlone(Objects, u, maps, program)
    BY <2>2, <2>3 DEF MapsAlone
  <2>7. Good(u, maps, {}, f)
    BY <1>2, <2>5, <2>6 DEF Good
  <2>8. Away(u, b)
    BY <1>3, <1>8, <2>1, <2>2, <2>7, ReadableAway
  <2>9. Elsewhere(u.dev, m.dev, b) /\ Elsewhere(u.place, m.place, b)
    BY <1>3, <2>1 DEF Elsewhere
  <2>10. QED
    BY <1>3, <2>1, <2>2, <2>7, <2>8, <2>9 DEF u
<1>9. QED
  BY <1>7, <1>8

LEMMA SubmittedGood ==
    ASSUME Ordered, TypeOK, NEW m, NEW f, Good(m, maps, {}, f), NEW args,
           MayRead(CellsOf(ToSet(args)))
    PROVE  Good(Submitted(m, args), maps, {}, f)
<1> DEFINE u == Submitted(m, args)
           r == [m EXCEPT !.onHost[Parent] = FALSE]
<1>1. /\ m \in MemType /\ Parent \in Buffers /\ Context /\ Parent \in Objects
      /\ Sound(Objects, m, maps, program) /\ Whole(m, maps)
      /\ Agree(Objects, m, maps, {}, f) /\ MapsAlone(Objects, m, maps, program)
  BY OrderedFacts, ObjectsAre, BuffersAssumption DEF Good, Whole
<1>2. Whole(u, maps)
  BY <1>1, SubmittedSound
<1>3. CASE Does("host_ptr") /\ ~IsSubOrParent(Parent) /\ Parent \in ToSet(args)
  <2>1. program.subs = {} /\ Objects = {Parent} /\ ~m.auto[Parent]
    BY <1>1, <1>3, OrderedFacts, ObjectsAre, PendingAlone DEF Does
  <2>2. u = r
    BY <1>3 DEF Submitted
  <2>3. /\ u.onHost = [m.onHost EXCEPT ![Parent] = FALSE]
        /\ u.host = m.host /\ u.dev = m.dev /\ u.place = m.place
        /\ u.pending = m.pending
    BY <1>1, <2>2, SetOnHostFalse
  <2>4. m.onHost \in [Buffers -> BOOLEAN]
    BY <1>1, MemFields
  <2>5. CASE m.pending
    <3>1. \A x \in Objects : Away(u, x) <=> Away(m, x)
      BY <2>1, <2>3, <2>5 DEF Away
    <3>2. maps[Parent] = {}
      BY <1>1, <2>5 DEF Sound, PendingUnused
    <3> HIDE DEF u, r
    <3>3. Agree(Objects, u, maps, {}, f)
      BY <1>1, <2>3, <3>1 DEF Agree
    <3>4. MapsAlone(Objects, u, maps, program)
      BY <2>1, <3>2 DEF MapsAlone
    <3>5. QED
      BY <1>2, <3>3, <3>4 DEF Good, u
  <2>6. CASE ~m.pending
    <3>1. MayRead(Cover[Parent])
      BY <1>3 DEF MayRead, CellsOf
    <3>2. ~m.onHost[Parent]
      BY <1>1, <2>1, <2>6, <3>1, ReadableAway DEF Away
    <3>3. Away(u, Parent) /\ Away(m, Parent)
      BY <1>1, <2>3, <2>4, <2>6, <3>2 DEF Away
    <3>4. \A x \in Objects : Away(u, x) <=> Away(m, x)
      BY <2>1, <3>3
    <3>5. ~u.onHost[Parent]
      BY <3>3 DEF Away
    <3> HIDE DEF u, r
    <3>6. Agree(Objects, u, maps, {}, f)
      BY <1>1, <2>3, <3>4 DEF Agree
    <3>7. MapsAlone(Objects, u, maps, program)
      BY <1>1, <2>1, <3>2, <3>5 DEF MapsAlone
    <3>8. QED
      BY <1>2, <3>6, <3>7 DEF Good, u
  <2>7. QED
    BY <2>5, <2>6
<1>4. CASE ~(Does("host_ptr") /\ ~IsSubOrParent(Parent) /\ Parent \in ToSet(args))
  BY <1>4 DEF Submitted
<1>5. QED
  BY <1>3, <1>4

(* The objects B, of A, were sent to d and hold f there; if those of A do  *)
(* not overlap they are all still there.                                   *)
Apart(A) == \A a, b \in A : a # b => ~Overlap(a, b)
Sent(m, A, B, d, f) ==
    /\ \A b \in B : m.place[b] = d /\ \A c \in Cover[b] : m.dev[b][c] = f[c]
    /\ Apart(A) => \A b \in B : Away(m, b)

LEMMA SentMore ==
    ASSUME Ordered, TypeOK, NEW m, NEW f, Good(m, maps, {}, f), NEW b \in Objects,
           NEW d \in Devices, m.auto[b] => Unused(b, maps), MayRead(Cover[b]),
           NEW A \in SUBSET Objects, NEW B \in SUBSET A, b \in A, Sent(m, A, B, d, f)
    PROVE  LET u == Migrated(m, b, d) IN
           Good(u, maps, {}, f) /\ Sent(u, A, B \cup {b}, d, f)
<1> DEFINE u == Migrated(m, b, d)
<1>1. /\ Good(u, maps, {}, f) /\ Away(u, b) /\ u.place[b] = d
      /\ Elsewhere(u.dev, m.dev, b) /\ Elsewhere(u.place, m.place, b)
      /\ \A x \in Objects : ~Overlap(x, b) => u.onHost[x] = m.onHost[x]
  BY MigratedGood
<1> HIDE DEF u
<1>2. Agree(Objects, u, maps, {}, f) /\ Objects \subseteq Buffers
      /\ Whole(m, maps) /\ Whole(u, maps)
  BY <1>1, OrderedFacts DEF Good
<1>3. \A c \in Cover[b] : u.dev[b][c] = f[c]
  BY <1>1, <1>2 DEF Agree
<1>4. ASSUME NEW x \in B \cup {b}
      PROVE  u.place[x] = d /\ \A c \in Cover[x] : u.dev[x][c] = f[c]
  BY <1>1, <1>2, <1>3, <1>4 DEF Sent, Elsewhere
<1>5. ASSUME Apart(A), NEW x \in B \cup {b} PROVE Away(u, x)
  <2>1. CASE x = b
    BY <1>1, <2>1
  <2>2. CASE x # b
    <3>1. Away(m, x) /\ ~Overlap(x, b)
      BY <1>5, <2>2 DEF Sent, Apart
    <3>2. (Away(m, x) <=> ~m.onHost[x]) /\ (Away(u, x) <=> ~u.onHost[x])
      BY <1>2, <2>2, PendingAlone
    <3>3. QED
      BY <1>1, <1>5, <3>1, <3>2
  <2>3. QED
    BY <2>1, <2>2
<1>6. QED
  BY <1>1, <1>4, <1>5 DEF Sent, u

LEMMA KernelMemGood ==
    ASSUME Ordered, TypeOK, NEW f, Good(mem, maps, {}, f), NEW args \in KernelArgs,
           NEW d \in Devices, \A b \in ToSet(args) : Exists(b),
           MayRead(CellsOf(ToSet(args)))
    PROVE  LET n == KernelMem(args, d)
               A == ToSet(args)
           IN Good(n, maps, {}, f) /\ A \subseteq Objects /\ Sent(n, A, A, d, f)
<1>1. args \in Seq(Buffers) /\ SubsType /\ Context
  BY ArgsAssumption DEF Ordered, Context
<1> DEFINE N == Len(args)
           A == ToSet(args)
           m == Submitted(mem, args)
           B(i) == {args[j] : j \in 1..i}
<1>2. N \in Nat /\ (\A i \in 1..N : args[i] \in A) /\ A \subseteq Objects
  <2>1. \A i \in 1..N : args[i] \in ToSet(args) /\ args[i] \in Buffers
    BY <1>1, SetOf
  <2>2. ToSet(args) \subseteq Buffers
    BY <1>1, SetOf
  <2>3. QED
    BY <1>1, <2>1, <2>2 DEF Objects
<1>3. B(N) = A /\ B(0) = {}
  <2>1. A = {args[j] : j \in 1..N}
    BY <1>1, SetOf
  <2>2. QED
    BY <2>1
<1>4. ASSUME program.subs # {}, NEW b \in A PROVE Unused(b, maps)
  <2>1. b \in Objects /\ MapsSound(Objects, maps, program)
    BY <1>2 DEF Good, Whole
  <2>2. MayRead(Cover[b])
    BY DEF MayRead, CellsOf
  <2>3. QED
    BY <1>1, <1>4, <2>1, <2>2, UnusedFrom
<1>5. m \in MemType /\ Good(m, maps, {}, f)
  BY SubmittedGood DEF Good, Whole
<1> HIDE DEF m
<1>6. PICK g \in [0..N -> MemType] :
         /\ g[0] = m
         /\ \A i \in 1..N : g[i] = Migrated(g[i - 1], args[i], d)
         /\ MigrateAll(m, args, d) = g[N]
  BY <1>1, <1>5, MigrateSteps
<1> DEFINE Fine(i) == Good(g[i], maps, {}, f) /\ Sent(g[i], A, B(i), d, f)
           Bad == {i \in 0..N : ~Fine(i)}
<1>7. Bad = {}
  <2> SUFFICES ASSUME Bad # {} PROVE FALSE
    OBVIOUS
  <2>1. PICK i \in Bad : \A j \in Bad : ~(j < i)
    <3>1. Bad \subseteq Nat
      BY <1>2
    <3> HIDE DEF Bad
    <3> QED
      BY <3>1, LeastNatural
  <2>2. i \in 0..N /\ ~Fine(i)
    OBVIOUS
  <2>3. CASE i = 0
    <3>1. Sent(m, A, {}, d, f)
      BY DEF Sent
    <3>2. QED
      BY <1>3, <1>5, <1>6, <2>2, <2>3, <3>1
  <2>4. CASE i # 0
    <3>1. i \in 1..N /\ i - 1 \in 0..N /\ i - 1 < i
      BY <1>2, <2>2, <2>4
    <3>2. Fine(i - 1)
      <4>1. i - 1 \notin Bad
        <5> HIDE DEF Bad
        <5> QED
          BY <2>1, <3>1
      <4>2. QED
        BY <3>1, <4>1
    <3>3. args[i] \in A /\ args[i] \in Objects
      BY <1>2, <3>1
    <3>4. B(i) = B(i - 1) \cup {args[i]} /\ B(i - 1) \subseteq A
      <4>1. 1..i = (1..(i - 1)) \cup {i} /\ 1..(i - 1) \subseteq 1..N
        BY <1>2, <3>1
      <4>2. QED
        BY <1>2, <4>1
    <3> HIDE DEF A, B, Bad
    <3>5. g[i - 1].auto[args[i]] => Unused(args[i], maps)
      <4>1. Whole(g[i - 1], maps)
        BY <3>2 DEF Good
      <4>2. g[i - 1].auto[args[i]] => program.subs # {}
        BY <3>3, <4>1, PendingAlone
      <4>3. QED
        BY <1>4, <3>3, <4>2
    <3>6. MayRead(Cover[args[i]])
      BY <3>3 DEF MayRead, CellsOf, A
    <3>7. Good(g[i - 1], maps, {}, f) /\ Sent(g[i - 1], A, B(i - 1), d, f)
      BY <3>2
    <3>8. LET u == Migrated(g[i - 1], args[i], d) IN
          Good(u, maps, {}, f) /\ Sent(u, A, B(i - 1) \cup {args[i]}, d, f)
      BY <1>2, <3>3, <3>4, <3>5, <3>6, <3>7, SentMore
    <3>9. QED
      BY <1>6, <2>2, <3>1, <3>4, <3>8
  <2>5. QED
    BY <2>3, <2>4
<1>8. Good(g[N], maps, {}, f) /\ Sent(g[N], A, A, d, f)
  <2>1. N \in 0..N /\ N \notin Bad
    BY <1>2, <1>7
  <2>2. Fine(N)
    BY <2>1
  <2>3. QED
    BY <1>3, <2>2
<1>9. KernelMem(args, d) = g[N]
  BY <1>6, KernelMemIs DEF m
<1>10. QED
  BY <1>2, <1>8, <1>9

(* The kernel writes v in the objects W.                                   *)
LEMMA KernelWriteGood ==
    ASSUME Ordered, TypeOK, NEW n, NEW f \in [Cells -> Known], Good(n, maps, {}, f),
           NEW A \in SUBSET Objects, NEW d \in Devices, Sent(n, A, A, d, f),
           NEW W \in SUBSET A, W # {} => Apart(A), MayWrite(CellsOf(W)),
           NEW v \in Values
    PROVE  LET D == [b \in Buffers |-> IF b \in W THEN Paste(n.dev[b], Cover[b], Fill(v))
                                       ELSE n.dev[b]]
           IN Good([n EXCEPT !.dev = D], maps, {}, Paste(f, CellsOf(W), Fill(v)))
<1> DEFINE D == [b \in Buffers |-> IF b \in W THEN Paste(n.dev[b], Cover[b], Fill(v))
                                   ELSE n.dev[b]]
           u == [n EXCEPT !.dev = D]
           h == Paste(f, CellsOf(W), Fill(v))
<1>1. /\ n \in MemType /\ Context /\ Whole(n, maps) /\ NoDevice \notin Devices
      /\ Objects \subseteq Buffers /\ Objects \cap ReadOnly = {}
      /\ Agree(Objects, n, maps, {}, f) /\ MapsAlone(Objects, n, maps, program)
      /\ Sound(Objects, n, maps, program) /\ MapsSound(Objects, maps, program)
      /\ MapsType(maps)
  BY OrderedFacts, BuffersAssumption DEF Good, Whole
<1>2. Fill(v) \in [Cells -> Known] /\ \A c \in Cells : Fill(v)[c] = v
  BY DEF Fill, Known
<1>3. \A b \in Buffers : n.dev[b] \in [Cells -> Known] /\ Cover[b] \subseteq Cells
  BY <1>1, MemFields, BuffersAssumption
<1>4. /\ D \in [Buffers -> [Cells -> Known]]
      /\ \A b \in Buffers : b \notin W => D[b] = n.dev[b]
      /\ \A b \in W : \A c \in Cover[b] : D[b][c] = v
  <2>1. \A b \in Buffers : /\ Paste(n.dev[b], Cover[b], Fill(v)) \in [Cells -> Known]
                           /\ \A c \in Cover[b] :
                                Paste(n.dev[b], Cover[b], Fill(v))[c] = v
    BY <1>2, <1>3, PasteType
  <2>2. W \subseteq Buffers
    BY <1>1
  <2>3. QED
    BY <1>3, <2>1, <2>2
<1>5. \A c \in Cells : h[c] = IF c \in CellsOf(W) THEN v ELSE f[c]
  BY <1>2, PasteType
<1> HIDE DEF D, h
<1>6. /\ u \in MemType /\ u.dev = D /\ u.host = n.host /\ u.place = n.place
      /\ u.onHost = n.onHost /\ u.auto = n.auto /\ u.pending = n.pending
      /\ u.count = n.count
  BY <1>1, <1>4 DEF MemType
<1> HIDE DEF u
<1>7. Sound(Objects, u, maps, program)
  BY <1>1, <1>6, SoundSame
<1>8. Whole(u, maps)
  BY <1>1, <1>6, <1>7 DEF Whole
<1>9. \A x \in Objects : Away(u, x) <=> Away(n, x)
  BY <1>6 DEF Away
<1>10. \A x \in W : Away(n, x) /\ n.place[x] # NoDevice
  BY <1>1 DEF Sent
<1>11. ASSUME NEW x \in Objects, x \notin W, Away(n, x)
       PROVE  Cover[x] \cap CellsOf(W) = {}
  <2>1. ASSUME NEW w \in W PROVE ~Overlap(x, w)
    BY <1>1, <1>10, <1>11, <2>1 DEF Sound, OneAway, Away
  <2>2. QED
    BY <2>1 DEF CellsOf, Overlap
<1>12. Agree(Objects, u, maps, {}, h)
  <2>1. ASSUME NEW x \in Objects, Away(u, x), NEW c \in Cover[x]
        PROVE  /\ u.dev[x][c] = h[c]
               /\ u.place[x] = NoDevice => u.host[c] = h[c]
    <3>1. Away(n, x) /\ c \in Cells /\ n.dev[x][c] = f[c] /\ x \in Buffers
      BY <1>1, <1>3, <1>9, <2>1 DEF Agree
    <3>2. CASE x \in W
      <4>1. c \in CellsOf(W)
        BY <3>2 DEF CellsOf
      <4>2. QED
        BY <1>4, <1>5, <1>6, <1>10, <3>1, <3>2, <4>1
    <3>3. CASE x \notin W
      <4>1. c \notin CellsOf(W)
        BY <1>11, <3>1, <3>3
      <4>2. h[c] = f[c] /\ u.dev[x] = n.dev[x]
        BY <1>4, <1>5, <1>6, <3>1, <3>3, <4>1
      <4>3. QED
        BY <1>1, <1>6, <3>1, <4>2 DEF Agree
    <3>4. QED
      BY <3>2, <3>3
  <2>2. ASSUME NEW c \in Cells,
               \A x \in Objects : Away(u, x) /\ c \in Cover[x] => x \in {}
        PROVE  u.host[c] = h[c]
    <3>1. n.host[c] = f[c]
      BY <1>1, <1>9, <2>2 DEF Agree
    <3>2. c \notin CellsOf(W)
      BY <1>9, <1>10, <2>2 DEF CellsOf
    <3>3. QED
      BY <1>5, <1>6, <3>1, <3>2
  <2>3. ASSUME NEW x \in Objects, NEW y \in maps[x], NEW c \in y[2]
        PROVE  u.host[c] = h[c]
    <3>1. n.host[c] = f[c] /\ c \in Cells
      BY <1>1, <1>3, <2>3 DEF Agree, MapsSound
    <3>2. y \in MapKinds \X SUBSET Cells /\ x \in Buffers
      BY <1>1, <2>3 DEF MapsType
    <3>3. c \in MappedCells(MapKinds)
      BY <2>3, <3>2 DEF MappedCells
    <3>4. c \notin CellsOf(W)
      BY <3>3 DEF MayWrite
    <3>5. QED
      BY <1>5, <1>6, <3>1, <3>4
  <2>4. QED
    BY <2>1, <2>2, <2>3 DEF Agree
<1>13. MapsAlone(Objects, u, maps, program)
  BY <1>1, <1>6 DEF MapsAlone
<1>14. QED
  BY <1>8, <1>12, <1>13 DEF Good, u, D, h

----------------------------------------------------------------------------
(* The memory that the copies make up.                                     *)

OwnersIn(S, m, W, c) ==
    {b \in S : /\ b \notin ReadOnly /\ m.place[b] # NoDevice /\ ~m.onHost[b]
               /\ c \in Cover[b] /\ b \notin W}
OneOf(S) == CHOOSE b \in S : TRUE
LiveIn(m, O, c) == IF O = {} THEN m.host[c] ELSE m.dev[OneOf(O)][c]
ContentsIn(S, m, W) == [c \in Cells |-> LiveIn(m, OwnersIn(S, m, W, c), c)]

LEMMA ContentsAre ==
    /\ Contents = ContentsIn(Objects, mem, Wiped(prog))
    /\ Contents' = ContentsIn(Objects', mem', Wiped(prog'))
<1>1. \A c : Owners(c) = OwnersIn(Objects, mem, Wiped(prog), c)
  BY DEF Owners, OwnersIn, OnDevice, Objects, Wiped
<1>2. \A c : Owners(c)' = OwnersIn(Objects', mem', Wiped(prog'), c)
  BY DEF Owners, OwnersIn, OnDevice, Objects, Exists, Wiped
<1>3. \A c : Live(c) = LiveIn(mem, Owners(c), c)
  BY DEF Live, LiveIn, OneOf
<1>4. \A c : Live(c)' = LiveIn(mem', Owners(c)', c)
  BY DEF Live, LiveIn, OneOf
<1>5. Contents = ContentsIn(Objects, mem, Wiped(prog))
  BY <1>1, <1>3 DEF Contents, ContentsIn
<1>6. Contents' = ContentsIn(Objects', mem', Wiped(prog'))
  BY <1>2, <1>4 DEF Contents, ContentsIn
<1>7. QED
  BY <1>5, <1>6

LEMMA AgreeContents ==
    ASSUME NEW S \in SUBSET Buffers, S \cap ReadOnly = {}, NEW m, NEW M, NEW W,
           NEW f \in [Cells -> Known], Agree(S, m, M, W, f),
           m.pending => m.place[Parent] = NoDevice
    PROVE  ContentsIn(S, m, W) = f
<1> DEFINE O(c) == OwnersIn(S, m, W, c)
           h == ContentsIn(S, m, W)
<1>1. ASSUME NEW c \in Cells PROVE h[c] = f[c]
  <2>1. h[c] = IF O(c) = {} THEN m.host[c] ELSE m.dev[OneOf(O(c))][c]
    BY DEF ContentsIn, LiveIn
  <2>2. CASE O(c) # {}
    <3>1. PICK b \in O(c) : b = OneOf(O(c))
      BY <2>2 DEF OneOf
    <3>2. /\ b \in S /\ m.place[b] # NoDevice /\ ~m.onHost[b] /\ c \in Cover[b]
          /\ b \notin W
      BY <3>1 DEF OwnersIn
    <3>3. Away(m, b)
      BY <3>2 DEF Away
    <3>4. m.dev[b][c] = f[c]
      BY <3>2, <3>3 DEF Agree
    <3>5. QED
      BY <2>1, <2>2, <3>1, <3>4
  <2>3. CASE O(c) = {}
    <3>1. \A b \in S : (Away(m, b) /\ c \in Cover[b]) => b \in W \/ m.place[b] = NoDevice
      BY <2>3 DEF OwnersIn, Away
    <3>2. m.host[c] = f[c]
      BY <3>1 DEF Agree
    <3>3. QED
      BY <2>1, <2>3, <3>2
  <2>4. QED
    BY <2>2, <2>3
<1>2. h = [c \in Cells |-> h[c]] /\ f = [c \in Cells |-> f[c]]
  BY DEF ContentsIn
<1> HIDE DEF h
<1>3. h = f
  BY <1>1, <1>2
<1>4. QED
  BY <1>3 DEF h

LEMMA ContentsFrom ==
    ASSUME TypeOK, Structure, Orderly(program), NEW f \in [Cells -> Known],
           Coherence(Objects, mem, maps, prog, program, f)
    PROVE  Contents = f
<1>1. Regular(program)
  BY DEF Orderly, Regular
<1>2. Context /\ Whole(mem, maps) /\ Ordered
  BY <1>1, ContextFrom DEF Ordered
<1>3. Objects \in SUBSET Buffers /\ Objects \cap ReadOnly = {}
  BY <1>2, OrderedFacts
<1>4. mem.pending => mem.place[Parent] = NoDevice
  BY <1>2 DEF Whole, Sound, PendingUnused
<1>5. Agree(Objects, mem, maps, Wiped(prog), f)
  BY DEF Coherence
<1>6. QED
  BY <1>3, <1>4, <1>5, AgreeContents, ContentsAre

LEMMA ContentsThen ==
    ASSUME TypeOK', Structure', Orderly(program'), NEW f \in [Cells -> Known],
           Coherence(Objects', mem', maps', prog', program', f)
    PROVE  Contents' = f
<1>1. Regular(program')
  BY DEF Orderly, Regular
<1>2. /\ ToSet(subs') \subseteq program'.subs
      /\ program'.subs \subseteq Buffers \ {Parent}
      /\ program'.subs \cap ReadOnly = {} \/ program'.subs = {}
      /\ PendingUnused(mem', maps', program')
  BY <1>1, ProgramsAssumption DEF Structure, Sound, TypeOK, ProgramType, Orderly
<1>3. Objects' \in SUBSET Buffers /\ Objects' \cap ReadOnly = {}
  BY <1>2, BuffersAssumption DEF Objects, Exists
<1>4. mem'.pending => mem'.place[Parent] = NoDevice
  BY <1>2 DEF PendingUnused
<1>5. Agree(Objects', mem', maps', Wiped(prog'), f)
  BY DEF Coherence
<1>6. QED
  BY <1>3, <1>4, <1>5, AgreeContents, ContentsAre

(* A step reads R of what the memory holds and writes W of g; the copies   *)
(* then hold that.                                                         *)
Result(f, R, W, g) ==
    /\ last' = [read |-> Pairs(R, f), wrote |-> Pairs(W, g)]
    /\ Coherence(Objects', mem', maps', prog', program', Paste(f, W, g))
Steps(f) == \E R, W \in SUBSET Cells, g \in [Cells -> Known] : Result(f, R, W, g)

LEMMA MemorySteps ==
    ASSUME TypeOK, Structure, Coherent, TypeOK', Structure', Orderly(program),
           Orderly(program'), Contents \in [Cells -> Known], NEW f, f = Contents,
           Steps(f)
    PROVE  Coherent' /\ Memory!Next
<1>1. PICK R \in SUBSET Cells, W \in SUBSET Cells, g \in [Cells -> Known] :
         Result(f, R, W, g)
  BY DEF Steps
<1> DEFINE h == Paste(f, W, g)
<1>2. h \in [Cells -> Known]
  BY PasteType
<1>3. /\ last' = [read |-> Pairs(R, f), wrote |-> Pairs(W, g)]
      /\ Coherence(Objects', mem', maps', prog', program', h)
  BY <1>1 DEF Result
<1>4. Contents' = h
  BY <1>2, <1>3, ContentsThen
<1>5. Coherent'
  BY <1>3, <1>4 DEF Coherent
<1> DEFINE written == [c \in W |-> g[c]]
<1>6. written \in [W -> Known]
  OBVIOUS
<1>7. Pairs(W, g) = {<<c, written[c]>> : c \in W}
  BY DEF Pairs
<1>8. Contents' = [c \in Cells |-> IF c \in W THEN written[c] ELSE f[c]]
  BY <1>4 DEF Paste
<1>9. \E w \in [W -> Known] :
         /\ last' = [read |-> {<<c, Contents[c]>> : c \in R},
                     wrote |-> {<<c, w[c]>> : c \in W}]
         /\ Contents' = [c \in Cells |-> IF c \in W THEN w[c] ELSE Contents[c]]
  <2> HIDE DEF written
  <2> QED
    BY <1>3, <1>6, <1>7, <1>8 DEF Pairs
<1>10. Memory!Access(R, W)
  BY <1>9 DEF Memory!Access, Memory!Known, Known, Contents
<1>11. QED
  BY <1>5, <1>10 DEF Memory!Next

(* The operations in those terms.                                          *)
LEMMA Accesses ==
    ASSUME NEW f, NEW g, NEW h, NEW C
    PROVE  /\ Reads(C, g) = [read |-> Pairs(C, g), wrote |-> Pairs({}, h)]
           /\ Writes(C, g) = [read |-> Pairs({}, f), wrote |-> Pairs(C, g)]
           /\ NoAccess = [read |-> Pairs({}, f), wrote |-> Pairs({}, h)]
           /\ (\A c \in C : g[c] = h[c]) => Pairs(C, g) = Pairs(C, h)
<1>1. \A x : Pairs({}, x) = {}
  BY DEF Pairs
<1>2. (\A c \in C : g[c] = h[c]) => Pairs(C, g) = Pairs(C, h)
  BY DEF Pairs
<1>3. QED
  BY <1>1, <1>2 DEF Reads, Writes, NoAccess

LEMMA PasteNothing ==
    ASSUME NEW f \in [Cells -> Known], NEW g
    PROVE  Paste(f, {}, g) = f
  BY DEF Paste

LEMMA GoodNow ==
    ASSUME TypeOK, Structure, Orderly(program), NEW f,
           Coherence(Objects, mem, maps, prog, program, f)
    PROVE  /\ Ordered /\ Context /\ Whole(mem, maps)
           /\ Good(mem, maps, Wiped(prog), f)
           /\ Idle => Good(mem, maps, {}, f)
<1>1. Regular(program)
  BY DEF Orderly, Regular
<1>2. Context /\ Whole(mem, maps) /\ Ordered
  BY <1>1, ContextFrom DEF Ordered
<1>3. Good(mem, maps, Wiped(prog), f)
  BY <1>2 DEF Good, Coherence
<1>4. Idle => Wiped(prog) = {}
  BY DEF Idle, Wiped
<1>5. QED
  BY <1>2, <1>3, <1>4

(* A command is done when no device is being programmed.                   *)
LEMMA CommandSteps ==
    ASSUME Idle, UNCHANGED <<subs, prog, program>>, NEW f,
           NEW R \in SUBSET Cells, NEW W \in SUBSET Cells, NEW g \in [Cells -> Known],
           last' = [read |-> Pairs(R, f), wrote |-> Pairs(W, g)],
           Good(mem', maps', {}, Paste(f, W, g))
    PROVE  Steps(f)
<1> DEFINE h == Paste(f, W, g)
<1> HIDE DEF h
<1>1. Objects' = Objects /\ prog' = prog /\ program' = program
  BY DEF Objects, Exists
<1>2. Wiped(prog') = {} /\ prog'.stage = "none"
  BY <1>1 DEF Idle, Wiped
<1>3. Agree(Objects, mem', maps', {}, h) /\ MapsAlone(Objects, mem', maps', program)
  BY DEF Good, h
<1>4. Saved(Objects', mem', prog', h)
  BY <1>2 DEF Saved
<1>5. Coherence(Objects', mem', maps', prog', program', h)
  BY <1>1, <1>2, <1>3, <1>4 DEF Coherence
<1>6. QED
  BY <1>5 DEF Steps, Result, h

LEMMA QuietSteps ==
    ASSUME Idle, UNCHANGED <<subs, prog, program>>, NEW f \in [Cells -> Known],
           last' = NoAccess, Good(mem', maps', {}, f)
    PROVE  Steps(f)
<1>1. last' = [read |-> Pairs({}, f), wrote |-> Pairs({}, f)]
  BY Accesses
<1>2. Good(mem', maps', {}, Paste(f, {}, f))
  BY PasteNothing
<1>3. {} \in SUBSET Cells
  OBVIOUS
<1>4. QED
  BY <1>1, <1>2, <1>3, CommandSteps

LEMMA BindSteps ==
    ASSUME TypeOK, Structure, Orderly(program), NEW f \in [Cells -> Known],
           Coherence(Objects, mem, maps, prog, program, f),
           NEW b \in Buffers, NEW d \in program.on, Bind(b, d)
    PROVE  Steps(f)
<1>1. /\ Idle /\ mem' = Bound(mem, b, d) /\ last' = NoAccess
      /\ UNCHANGED <<subs, maps, prog, program>>
  BY DEF Bind
<1>2. /\ Ordered /\ Context /\ Whole(mem, maps) /\ Good(mem, maps, {}, f)
      /\ d \in Devices
  BY <1>1, GoodNow, ProgramOn
<1>3. b \in Objects /\ ~(b = Parent /\ mem.pending)
  BY <1>2, BindFacts
<1>4. Good(Bound(mem, b, d), maps, {}, f)
  BY <1>2, <1>3, BoundGood
<1>5. QED
  BY <1>1, <1>4, QuietSteps

LEMMA TransferSteps ==
    ASSUME TypeOK, Structure, Orderly(program), NEW f \in [Cells -> Known],
           Coherence(Objects, mem, maps, prog, program, f),
           NEW b \in Buffers, NEW R \in Regions(b)
    PROVE  /\ ReadBuffer(b, R) => Steps(f)
           /\ \A v \in Values : WriteBuffer(b, R, v) => Steps(f)
           /\ \A k \in MapKinds : MapBuffer(b, k, R) => Steps(f)
<1>1. R \in SUBSET Cells /\ R \subseteq Cover[b] /\ {} \in SUBSET Cells
  BY SmallTypes
<1>2. ASSUME MayTransfer(b)
      PROVE  /\ Ordered /\ Context /\ b \in Objects /\ Good(mem, maps, {}, f) /\ Idle
             /\ ~(b = Parent /\ mem.pending) /\ mem.place[b] # NoDevice
  <2>1. Idle /\ Ordered /\ Context /\ Whole(mem, maps) /\ Good(mem, maps, {}, f)
    BY <1>2, GoodNow DEF MayTransfer
  <2>2. QED
    BY <1>2, <2>1, TransferFacts DEF MayTransfer
<1>3. ASSUME ReadBuffer(b, R) PROVE Steps(f)
  <2> DEFINE n == AsSource(mem, b)
  <2>1. /\ MayTransfer(b) /\ mem' = n /\ last' = Reads(R, Source(n, b))
        /\ UNCHANGED <<subs, maps, prog, program>>
    BY <1>3 DEF ReadBuffer
  <2>2. Good(n, maps, {}, f) /\ \A c \in Cover[b] : Source(n, b)[c] = f[c]
    BY <1>2, <2>1, AsSourceGood
  <2>3. Pairs(R, Source(n, b)) = Pairs(R, f)
    BY <1>1, <2>2, Accesses
  <2> HIDE DEF n
  <2>4. last' = [read |-> Pairs(R, f), wrote |-> Pairs({}, f)]
    BY <2>1, <2>3, Accesses
  <2>5. Good(mem', maps', {}, Paste(f, {}, f))
    BY <2>1, <2>2, PasteNothing
  <2>6. QED
    BY <1>1, <1>2, <2>1, <2>4, <2>5, CommandSteps
<1>4. ASSUME NEW v \in Values, WriteBuffer(b, R, v) PROVE Steps(f)
  <2> DEFINE n == AsDestination(mem, b)
             g == Fill(v)
  <2>1. /\ MayTransfer(b) /\ MayWrite(R) /\ mem' = Stored(n, b, R, g)
        /\ last' = Writes(R, g) /\ UNCHANGED <<subs, maps, prog, program>>
    BY <1>4 DEF WriteBuffer
  <2>2. mem.auto[b] => Unused(b, maps)
    <3>1. Whole(mem, maps) /\ MapsSound(Objects, maps, program)
      BY <1>2, <2>1 DEF Good, Whole
    <3>2. mem.auto[b] => program.subs # {}
      BY <1>2, <2>1, <3>1, PendingAlone
    <3>3. QED
      BY <1>2, <2>1, <3>1, <3>2, RegionsAre, UnusedFrom
  <2>3. Good(n, maps, {}, f) /\ ~n.auto[b] /\ n.place = mem.place /\ n.pending = mem.pending
    BY <1>2, <2>1, <2>2, AsDestinationGood
  <2>4. g \in [Cells -> Known]
    BY SmallTypes
  <2> HIDE DEF n, g
  <2>5. Good(mem', maps', {}, Paste(f, R, g))
    BY <1>1, <1>2, <2>1, <2>3, <2>4, StoredGood
  <2>6. last' = [read |-> Pairs({}, f), wrote |-> Pairs(R, g)]
    BY <2>1, Accesses
  <2>7. QED
    BY <1>1, <1>2, <2>1, <2>4, <2>5, <2>6, CommandSteps
<1>5. ASSUME NEW k \in MapKinds, MapBuffer(b, k, R) PROVE Steps(f)
  <2> DEFINE n == Mapped(mem, b, k)
             K == [maps EXCEPT ![b] = @ \cup {<<k, R>>}]
  <2>1. /\ MayTransfer(b) /\ MayMap(b, k, R) /\ "map" \in program.does
        /\ <<k, R>> \notin maps[b] /\ (k = "invalidate" => "invalidate" \in program.does)
        /\ mem' = n /\ maps' = K
        /\ last' = IF k = "invalidate" THEN Writes(R, n.host) ELSE NoAccess
        /\ UNCHANGED <<subs, prog, program>>
    BY <1>5 DEF MapBuffer, Does
  <2>2. CASE k # "invalidate"
    <3>1. Good(n, K, {}, f)
      BY <1>2, <2>1, <2>2, MappedGood
    <3> HIDE DEF n, K
    <3>2. QED
      BY <1>2, <2>1, <2>2, <3>1, QuietSteps
  <2>3. CASE k = "invalidate"
    <3> DEFINE g == mem.host
    <3>0. /\ MayMap(b, "invalidate", R) /\ <<"invalidate", R>> \notin maps[b]
          /\ "invalidate" \in program.does
          /\ n = Mapped(mem, b, "invalidate")
          /\ K = [maps EXCEPT ![b] = @ \cup {<<"invalidate", R>>}]
      BY <2>1, <2>3
    <3>1. Good(n, K, {}, g) /\ n.host = g /\ R = Cells
      <4> HIDE DEF n, K
      <4>1. /\ Ordered /\ Good(mem, maps, {}, f) /\ b \in Objects
            /\ ~(b = Parent /\ mem.pending) /\ mem.place[b] # NoDevice
            /\ "map" \in program.does
        BY <1>2, <2>1
      <4>2. LET u == Mapped(mem, b, "invalidate") IN
            /\ Good(u, [maps EXCEPT ![b] = @ \cup {<<"invalidate", R>>}], {}, mem.host)
            /\ u.host = mem.host /\ R = Cells
        <5>1. R = Cells
          BY <3>0, <4>1, InvalidatedGood
        <5>2. Mapped(mem, b, "invalidate").host = mem.host
          BY <3>0, <4>1, InvalidatedGood
        <5>3. Good(Mapped(mem, b, "invalidate"), [maps EXCEPT ![b] = @ \cup {<<"invalidate", R>>}], {}, mem.host)
          BY <3>0, <4>1, InvalidatedGood
        <5>4. QED
          BY <5>1, <5>2, <5>3
      <4>3. QED
        BY <3>0, <4>2
    <3>2. g \in [Cells -> Known]
      BY <1>2, <2>1, MemFields DEF Good, Whole
    <3> HIDE DEF n, K, g
    <3>3. Paste(f, R, g) = g
      BY <3>1, <3>2 DEF Paste
    <3>4. last' = [read |-> Pairs({}, f), wrote |-> Pairs(R, g)]
      BY <2>1, <2>3, <3>1, Accesses
    <3>5. QED
      BY <1>1, <1>2, <2>1, <3>1, <3>2, <3>3, <3>4, CommandSteps
  <2>4. QED
    BY <2>2, <2>3
<1>6. QED
  BY <1>3, <1>4, <1>5

LEMMA CopySteps ==
    ASSUME TypeOK, Structure, Orderly(program), NEW f \in [Cells -> Known],
           Coherence(Objects, mem, maps, prog, program, f),
           NEW a \in Buffers, NEW b \in Buffers,
           NEW x \in Cover[a], NEW y \in Cover[b], CopyBuffer(a, x, b, y)
    PROVE  Steps(f)
<1> DEFINE m == AsSource(mem, a)
           n == AsDestination(m, b)
           v == (IF m.onHost[a] THEN n.host ELSE n.dev[a])[x]
           g == Fill(v)
<1>1. /\ MayTransfer(a) /\ MayTransfer(b) /\ {y} \in Regions(b) /\ MayWrite({y})
      /\ mem' = Stored(n, b, {y}, g)
      /\ last' = [read |-> {<<x, v>>}, wrote |-> {<<y, v>>}]
      /\ UNCHANGED <<subs, maps, prog, program>>
  BY DEF CopyBuffer
<1>2. /\ x \in Cells /\ y \in Cells
      /\ {x} \in SUBSET Cells /\ {y} \in SUBSET Cells /\ {y} \subseteq Cover[b]
  BY SmallTypes
<1>3. Idle /\ Ordered /\ Context /\ Whole(mem, maps) /\ Good(mem, maps, {}, f)
  BY <1>1, GoodNow DEF MayTransfer
<1>4. /\ a \in Objects /\ ~(a = Parent /\ mem.pending)
      /\ b \in Objects /\ ~(b = Parent /\ mem.pending)
  BY <1>1, <1>3, TransferFacts
<1>6. mem.place[b] # NoDevice
  BY <1>1 DEF MayTransfer
<1> HIDE DEF m, n, v, g
<1>7. /\ Good(m, maps, {}, f) /\ m.place = mem.place /\ m.pending = mem.pending
      /\ \A c \in Cover[a] : Source(m, a)[c] = f[c]
  BY <1>3, <1>4, AsSourceGood DEF m
<1>8. m.auto[b] => Unused(b, maps)
  <2>1. Whole(m, maps) /\ MapsSound(Objects, maps, program)
    BY <1>7 DEF Good, Whole
  <2>2. m.auto[b] => program.subs # {}
    BY <1>3, <1>4, <2>1, PendingAlone
  <2>3. QED
    BY <1>1, <1>3, <1>4, <2>1, <2>2, RegionsAre, UnusedFrom
<1>9. /\ Good(n, maps, {}, f) /\ n.place = m.place /\ n.pending = m.pending
      /\ ~n.auto[b] /\ Elsewhere(n.dev, m.dev, b) /\ (~m.onHost[b] => n = m)
      /\ \A c \in Cells : n.host[c] = m.host[c] \/ n.host[c] = f[c]
  BY <1>3, <1>4, <1>7, <1>8, AsDestinationGood DEF n
<1>10. v = f[x]
  <2>1. CASE m.onHost[a]
    BY <1>2, <1>7, <1>9, <2>1 DEF v, Source
  <2>2. CASE ~m.onHost[a]
    <3>1. n.dev[a] = m.dev[a]
      BY <1>9, <2>2 DEF Elsewhere
    <3>2. QED
      BY <1>7, <2>2, <3>1 DEF v, Source
  <2>3. QED
    BY <2>1, <2>2
<1>11. g \in [Cells -> Known] /\ \A c \in Cells : g[c] = v
  BY <1>2, <1>10 DEF g, Fill
<1>12. Good(mem', maps', {}, Paste(f, {y}, g))
  BY <1>1, <1>2, <1>3, <1>4, <1>6, <1>7, <1>9, <1>11, StoredGood
<1>13. last' = [read |-> Pairs({x}, f), wrote |-> Pairs({y}, g)]
  <2>1. Pairs({x}, f) = {<<x, v>>} /\ Pairs({y}, g) = {<<y, v>>}
    BY <1>2, <1>10, <1>11 DEF Pairs
  <2>2. QED
    BY <1>1, <2>1
<1>14. QED
  BY <1>1, <1>2, <1>3, <1>11, <1>12, <1>13, CommandSteps

LEMMA MappingSteps ==
    ASSUME TypeOK, Structure, Orderly(program), NEW f \in [Cells -> Known],
           Coherence(Objects, mem, maps, prog, program, f),
           NEW b \in Buffers, NEW x \in maps[b]
    PROVE  /\ UnmapBuffer(b, x) => Steps(f)
           /\ Load(x) => Steps(f)
           /\ \A v \in Values : Store(x, v) => Steps(f)
<1>1. /\ Ordered /\ Context /\ Whole(mem, maps) /\ mem \in MemType
      /\ MapsSound(Objects, maps, program) /\ Objects \subseteq Buffers
      /\ Idle => Good(mem, maps, {}, f)
  BY GoodNow, OrderedFacts DEF Whole
<1>2. b \in Objects /\ x[2] \subseteq Cover[b] /\ x[2] \in SUBSET Cells
      /\ {} \in SUBSET Cells
  BY <1>1, BuffersAssumption DEF MapsSound
<1>3. /\ Agree(Objects, mem, maps, Wiped(prog), f) /\ Saved(Objects, mem, prog, f)
      /\ MapsAlone(Objects, mem, maps, program)
  BY DEF Coherence
<1>4. ASSUME UnmapBuffer(b, x) PROVE Steps(f)
  <2>1. /\ Idle /\ mem' = UserUnmapped(mem, b)
        /\ maps' = [maps EXCEPT ![b] = @ \ {x}]
        /\ last' = NoAccess /\ UNCHANGED <<subs, prog, program>>
    BY <1>4 DEF UnmapBuffer, UserUnmapped
  <2>2. Good(UserUnmapped(mem, b), [maps EXCEPT ![b] = @ \ {x}], {}, f)
    BY <1>1, <1>2, <2>1, UserUnmapGood
  <2>3. Good(mem', maps', {}, f)
    BY <2>1, <2>2
  <2>4. QED
    BY <2>1, <2>3, QuietSteps
<1>5. ASSUME Load(x) PROVE Steps(f)
  <2>1. last' = Reads(x[2], mem.host) /\ UNCHANGED <<mem, subs, maps, prog, program>>
    BY <1>5 DEF Load
  <2>2. \A c \in x[2] : mem.host[c] = f[c]
    BY <1>2, <1>3 DEF Agree
  <2>3. Pairs(x[2], mem.host) = Pairs(x[2], f)
    BY <2>2, Accesses
  <2>4. last' = [read |-> Pairs(x[2], f), wrote |-> Pairs({}, f)]
    BY <2>1, <2>3, Accesses
  <2>5. Objects' = Objects
    BY <2>1 DEF Objects, Exists
  <2>6. Coherence(Objects', mem', maps', prog', program', Paste(f, {}, f))
    BY <2>1, <2>5, PasteNothing
  <2>7. QED
    BY <1>2, <2>4, <2>6 DEF Steps, Result
<1>6. ASSUME NEW v \in Values, Store(x, v) PROVE Steps(f)
  <2> DEFINE g == Fill(v)
             R == x[2]
             P == Paste(mem.host, R, g)
             h == Paste(f, R, g)
  <2>1. /\ x[1] # "read" /\ mem' = [mem EXCEPT !.host = P] /\ last' = Writes(R, g)
        /\ UNCHANGED <<subs, maps, prog, program>>
    BY <1>6 DEF Store
  <2>2. g \in [Cells -> Known] /\ mem.host \in [Cells -> Known]
    BY <1>1, SmallTypes, MemFields
  <2>3. /\ P \in [Cells -> Known] /\ h \in [Cells -> Known]
        /\ \A c \in Cells : P[c] = IF c \in R THEN g[c] ELSE mem.host[c]
        /\ \A c \in Cells : h[c] = IF c \in R THEN g[c] ELSE f[c]
    BY <2>2, PasteType
  <2> HIDE DEF g, P, h
  <2>4. /\ mem'.host = P /\ mem'.dev = mem.dev /\ mem'.place = mem.place
        /\ mem'.onHost = mem.onHost /\ mem'.pending = mem.pending
    BY <1>1, <2>1, <2>3, SetHost
  <2>5. mem.onHost[b] /\ \A y \in Objects : (y # b /\ Overlap(y, b)) => mem.onHost[y]
    BY <1>2, <1>3, <2>1 DEF MapsAlone
  <2>6. ASSUME NEW y \in Objects, Away(mem, y) PROVE Cover[y] \cap R = {}
    BY <1>2, <2>5, <2>6 DEF Away, Overlap
  <2>7. \A y \in Objects : Away(mem', y) <=> Away(mem, y)
    BY <2>4 DEF Away
  <2>8. \A y \in Objects : Cover[y] \subseteq Cells
    BY <1>1, BuffersAssumption
  <2>9. \A c \in Cells : mem.host[c] = f[c] => P[c] = h[c]
    BY <2>3
  <2>10. Agree(Objects, mem', maps, Wiped(prog), h)
    <3>1. ASSUME NEW y \in Objects, Away(mem', y), NEW c \in Cover[y]
          PROVE  /\ y \notin Wiped(prog) => mem'.dev[y][c] = h[c]
                 /\ mem'.place[y] = NoDevice => mem'.host[c] = h[c]
      <4>1. Away(mem, y) /\ c \notin R /\ c \in Cells /\ h[c] = f[c]
        BY <2>3, <2>6, <2>7, <2>8, <3>1
      <4>2. QED
        BY <1>3, <2>4, <2>9, <3>1, <4>1 DEF Agree
    <3>2. ASSUME NEW c \in Cells,
                 \A y \in Objects : Away(mem', y) /\ c \in Cover[y] => y \in Wiped(prog)
          PROVE  mem'.host[c] = h[c]
      <4>1. mem.host[c] = f[c]
        BY <1>3, <2>7, <3>2 DEF Agree
      <4>2. QED
        BY <2>4, <2>9, <4>1
    <3>3. ASSUME NEW y \in Objects, NEW z \in maps[y], NEW c \in z[2]
          PROVE  mem'.host[c] = h[c]
      <4>1. mem.host[c] = f[c] /\ c \in Cells
        BY <1>1, <1>3, <2>8, <3>3 DEF Agree, MapsSound
      <4>2. QED
        BY <2>4, <2>9, <4>1
    <3>4. QED
      BY <3>1, <3>2, <3>3 DEF Agree
  <2>11. MapsAlone(Objects, mem', maps, program)
    BY <1>3, <2>4 DEF MapsAlone
  <2>12. Saved(Objects, mem', prog, h)
    BY <1>3, <2>4, <2>7, <2>8, <2>9 DEF Saved
  <2>13. Objects' = Objects
    BY <2>1 DEF Objects, Exists
  <2>14. Coherence(Objects', mem', maps', prog', program', h)
    BY <2>1, <2>10, <2>11, <2>12, <2>13 DEF Coherence
  <2>15. last' = [read |-> Pairs({}, f), wrote |-> Pairs(R, g)]
    BY <2>1, Accesses
  <2>16. QED
    BY <1>2, <2>2, <2>14, <2>15 DEF Steps, Result, h
<1>7. QED
  BY <1>4, <1>5, <1>6

LEMMA KernelSteps ==
    ASSUME TypeOK, Structure, Orderly(program), NEW f \in [Cells -> Known],
           Coherence(Objects, mem, maps, prog, program, f),
           NEW args \in KernelArgs, NEW v \in Values, NEW d \in program.on,
           NEW W \in SUBSET ToSet(args), Kernel(args, W, v, d)
    PROVE  Steps(f)
<1> DEFINE n == KernelMem(args, d)
           A == ToSet(args)
           g == Fill(v)
           D == [b \in Buffers |-> IF b \in W THEN Paste(n.dev[b], Cover[b], Fill(v))
                                   ELSE n.dev[b]]
           h == Paste(f, CellsOf(W), g)
<1>1. /\ MayRun(args, W) /\ mem' = [n EXCEPT !.dev = D]
      /\ last' = [read  |-> UNION {Pairs(Cover[b], n.dev[b]) : b \in A},
                  wrote |-> Pairs(CellsOf(W), g)]
      /\ UNCHANGED <<subs, maps, prog, program>>
  BY DEF Kernel
<1>2. /\ Idle /\ (\A b \in A : Exists(b)) /\ W \subseteq A
      /\ (W # {} => Apart(A)) /\ MayRead(CellsOf(A)) /\ MayWrite(CellsOf(W))
  BY <1>1 DEF MayRun, Apart
<1>3. d \in Devices /\ Ordered /\ Good(mem, maps, {}, f) /\ Objects \subseteq Buffers
  BY <1>2, ProgramOn, GoodNow, OrderedFacts
<1>4. Good(n, maps, {}, f) /\ A \subseteq Objects /\ Sent(n, A, A, d, f)
  BY <1>2, <1>3, KernelMemGood
<1> HIDE DEF n, A
<1>5. Good([n EXCEPT !.dev = D], maps, {}, h)
  BY <1>2, <1>3, <1>4, KernelWriteGood
<1>6. UNION {Pairs(Cover[b], n.dev[b]) : b \in A} = Pairs(CellsOf(A), f)
  <2>1. ASSUME NEW b \in A PROVE Pairs(Cover[b], n.dev[b]) = Pairs(Cover[b], f)
    <3>1. \A c \in Cover[b] : n.dev[b][c] = f[c]
      BY <1>4 DEF Sent
    <3>2. QED
      BY <3>1, Accesses
  <2>2. UNION {Pairs(Cover[b], f) : b \in A} = Pairs(CellsOf(A), f)
    BY DEF Pairs, CellsOf
  <2>3. {Pairs(Cover[b], n.dev[b]) : b \in A} = {Pairs(Cover[b], f) : b \in A}
    BY <2>1
  <2>4. QED
    BY <2>2, <2>3
<1>7. CellsOf(A) \in SUBSET Cells /\ CellsOf(W) \in SUBSET Cells
  BY <1>2, <1>3, <1>4, SmallTypes DEF CellsOf
<1>8. g \in [Cells -> Known]
  BY SmallTypes
<1> HIDE DEF D, g
<1>9. Good(mem', maps', {}, h)
  BY <1>1, <1>5
<1>10. last' = [read |-> Pairs(CellsOf(A), f), wrote |-> Pairs(CellsOf(W), g)]
  BY <1>1, <1>6
<1>11. QED
  BY <1>1, <1>2, <1>7, <1>8, <1>9, <1>10, CommandSteps

LEMMA MigrateCommandSteps ==
    ASSUME TypeOK, Structure, Orderly(program), NEW f \in [Cells -> Known],
           Coherence(Objects, mem, maps, prog, program, f),
           NEW b \in Buffers, NEW d \in program.on, MigrateCommand(b, d)
    PROVE  Steps(f)
<1>1. /\ Idle /\ Exists(b) /\ MayRead(Cover[b]) /\ mem' = Migrated(mem, b, d)
      /\ last' = NoAccess /\ UNCHANGED <<subs, maps, prog, program>>
  BY DEF MigrateCommand
<1>2. /\ d \in Devices /\ Ordered /\ Context /\ Good(mem, maps, {}, f)
      /\ b \in Objects /\ Whole(mem, maps) /\ MapsSound(Objects, maps, program)
  BY <1>1, ProgramOn, GoodNow DEF Objects, Whole
<1>3. mem.auto[b] => Unused(b, maps)
  <2>1. mem.auto[b] => program.subs # {}
    BY <1>2, PendingAlone
  <2>2. QED
    BY <1>1, <1>2, <2>1, UnusedFrom
<1>4. Good(mem', maps', {}, f)
  BY <1>1, <1>2, <1>3, MigratedGood
<1>5. QED
  BY <1>1, <1>4, QuietSteps

LEMMA SubSteps ==
    ASSUME TypeOK, Structure, Orderly(program), NEW f \in [Cells -> Known],
           Coherence(Objects, mem, maps, prog, program, f), NEW s \in Buffers
    PROVE  /\ CreateSub(s) => Steps(f)
           /\ ReleaseSub(s) => Steps(f)
<1>1. /\ Ordered /\ Context /\ Whole(mem, maps) /\ mem \in MemType
      /\ Sound(Objects, mem, maps, program)
      /\ MapsSound(Objects, maps, program) /\ Objects \subseteq Buffers
      /\ (program.subs # {} =>
            {"host_ptr", "read_mapped", "invalidate", "release"}
               \cap program.does = {})
  BY GoodNow, OrderedFacts DEF Whole
<1>2. /\ Agree(Objects, mem, maps, Wiped(prog), f)
      /\ MapsAlone(Objects, mem, maps, program)
  BY DEF Coherence
<1>3. ASSUME Idle, prog' = prog, last' = NoAccess,
             Agree(Objects', mem', maps', {}, f),
             MapsAlone(Objects', mem', maps', program')
      PROVE  Steps(f)
  <2>1. Wiped(prog') = {} /\ prog'.stage = "none" /\ {} \in SUBSET Cells
    BY <1>3 DEF Idle, Wiped
  <2>2. Saved(Objects', mem', prog', f)
    BY <2>1 DEF Saved
  <2>3. Coherence(Objects', mem', maps', prog', program', Paste(f, {}, f))
    BY <1>3, <2>1, <2>2, PasteNothing DEF Coherence
  <2>4. last' = [read |-> Pairs({}, f), wrote |-> Pairs({}, f)]
    BY <1>3, Accesses
  <2>5. QED
    BY <2>1, <2>3, <2>4 DEF Steps, Result
<1>4. ASSUME CreateSub(s) PROVE Steps(f)
  <2>1. /\ Idle /\ s \in program.subs /\ last' = NoAccess
        /\ UNCHANGED <<maps, prog, program>>
    BY <1>4 DEF CreateSub
  <2>2. s # Parent /\ Objects' = Objects \cup {s} /\ s \notin Objects
    BY <1>4, Made
  <2>3. /\ mem'.host = mem.host /\ mem'.pending = mem.pending
        /\ mem'.dev = [mem.dev EXCEPT ![s] = Nothing]
        /\ mem'.place = [mem.place EXCEPT ![s] = NoDevice]
        /\ mem'.onHost = [mem.onHost EXCEPT ![s] = TRUE]
    BY <1>4, CreatedFields
  <2>4. /\ mem.place \in [Buffers -> Devices \cup {NoDevice}]
        /\ mem.onHost \in [Buffers -> BOOLEAN]
        /\ mem.dev \in [Buffers -> [Cells -> Known]]
    BY <1>1, MemFields
  <2>5. /\ mem'.onHost[s]
        /\ \A b \in Buffers : b # s =>
              /\ mem'.place[b] = mem.place[b] /\ mem'.onHost[b] = mem.onHost[b]
              /\ mem'.dev[b] = mem.dev[b]
    BY <2>3, <2>4
  <2>6. \A b \in Objects : Away(mem', b) <=> Away(mem, b)
    BY <1>1, <2>2, <2>3, <2>5 DEF Away
  <2>7. ~Away(mem', s) /\ maps[s] = {}
    BY <1>1, <2>2, <2>5 DEF Away, MapsSound
  <2>8. Wiped(prog) = {}
    BY <2>1 DEF Idle, Wiped
  <2>9. Agree(Objects', mem', maps, {}, f)
    <3>1. ASSUME NEW b \in Objects', Away(mem', b), NEW c \in Cover[b]
          PROVE  /\ mem'.dev[b][c] = f[c]
                 /\ mem'.place[b] = NoDevice => mem'.host[c] = f[c]
      <4>1. b \in Objects /\ b # s /\ Away(mem, b) /\ b \in Buffers
        BY <1>1, <2>2, <2>6, <2>7, <3>1
      <4>2. QED
        BY <1>2, <2>3, <2>5, <2>8, <3>1, <4>1 DEF Agree
    <3>2. ASSUME NEW c \in Cells,
                 \A b \in Objects' : Away(mem', b) /\ c \in Cover[b] => b \in {}
          PROVE  mem'.host[c] = f[c]
      <4>1. \A b \in Objects : Away(mem, b) /\ c \in Cover[b] => b \in {}
        BY <2>2, <2>6, <3>2
      <4>2. QED
        BY <1>2, <2>3, <2>8, <4>1 DEF Agree
    <3>3. ASSUME NEW b \in Objects', NEW x \in maps[b], NEW c \in x[2]
          PROVE  mem'.host[c] = f[c]
      <4>1. b \in Objects
        BY <2>2, <2>7, <3>3
      <4>2. QED
        BY <1>2, <2>3, <3>3, <4>1 DEF Agree
    <3>4. QED
      BY <3>1, <3>2, <3>3 DEF Agree
  <2>10. MapsAlone(Objects', mem', maps, program)
    <3>1. ASSUME NEW a \in Objects', NEW b \in Objects', a # b, Overlap(a, b),
                 maps[b] # {}
          PROVE  mem'.onHost[a]
      <4>1. b \in Objects
        BY <2>2, <2>7, <3>1
      <4>2. CASE a = s
        BY <2>5, <4>2
      <4>3. CASE a # s
        BY <1>1, <1>2, <2>2, <2>5, <3>1, <4>1, <4>3 DEF MapsAlone
      <4>4. QED
        BY <4>2, <4>3
    <3>2. ASSUME NEW b \in Objects', NEW x \in maps[b], x[1] # "read"
          PROVE  mem'.onHost[b]
      <4>1. b \in Objects /\ b # s
        BY <2>2, <2>7, <3>2
      <4>2. QED
        BY <1>1, <1>2, <2>5, <3>2, <4>1 DEF MapsAlone
    <3>3. "read_mapped" \notin program.does
      BY <1>1, <2>1
    <3>4. QED
      BY <3>1, <3>2, <3>3 DEF MapsAlone
  <2>11. QED
    BY <1>3, <2>1, <2>9, <2>10
<1>5. ASSUME ReleaseSub(s) PROVE Steps(f)
  <2>1. /\ Idle /\ maps[s] = {} /\ (mem.onHost[s] \/ "release" \in program.does)
        /\ last' = NoAccess /\ UNCHANGED <<mem, maps, prog, program>>
    BY <1>5 DEF ReleaseSub, Does
  <2>2. /\ s # Parent /\ s \in Objects /\ Objects' \subseteq Objects
        /\ Objects \ {s} \subseteq Objects'
    BY <1>5, Gone
  <2>3. program.subs # {}
    BY <1>1, <2>2, ObjectsAre
  <2>4. ~Away(mem, s)
    BY <1>1, <2>1, <2>3 DEF Away
  <2>5. Wiped(prog) = {}
    BY <2>1 DEF Idle, Wiped
  <2>6. Agree(Objects', mem, maps, {}, f)
    BY <1>2, <2>2, <2>4, <2>5 DEF Agree
  <2>7. MapsAlone(Objects', mem, maps, program)
    BY <1>2, <2>2 DEF MapsAlone
  <2>8. QED
    BY <1>3, <2>1, <2>6, <2>7
<1>6. QED
  BY <1>4, <1>5

LEMMA ReprogramSteps ==
    ASSUME TypeOK, Structure, Orderly(program), NEW f \in [Cells -> Known],
           Coherence(Objects, mem, maps, prog, program, f)
    PROVE  /\ \A d \in program.on : StartReprogram(d) => Steps(f)
           /\ \A b \in Buffers : SaveBuffer(b) => Steps(f)
           /\ \A b \in Buffers : RestoreBuffer(b) => Steps(f)
           /\ ProgramDevice => Steps(f)
           /\ EndReprogram => Steps(f)
<1>1. /\ Ordered /\ Context /\ Whole(mem, maps) /\ mem \in MemType
      /\ Sound(Objects, mem, maps, program)
      /\ MapsSound(Objects, maps, program) /\ Objects \subseteq Buffers
      /\ Objects \cap ReadOnly = {}
  BY GoodNow, OrderedFacts DEF Whole
<1>2. /\ Agree(Objects, mem, maps, Wiped(prog), f)
      /\ MapsAlone(Objects, mem, maps, program) /\ Saved(Objects, mem, prog, f)
  BY DEF Coherence
<1>3. prog \in ProgType /\ prog.todo \subseteq Objects
      /\ (prog.stage = "none" => prog.todo = {})
  BY ProgramOn DEF Structure
<1>4. /\ mem.host \in [Cells -> Known] /\ mem.dev \in [Buffers -> [Cells -> Known]]
      /\ \A b \in Objects : Cover[b] \subseteq Cells
  BY <1>1, MemFields, BuffersAssumption
<1>5. ASSUME UNCHANGED <<subs, maps, program>>, last' = NoAccess,
             Agree(Objects, mem', maps, Wiped(prog'), f),
             MapsAlone(Objects, mem', maps, program), Saved(Objects, mem', prog', f)
      PROVE  Steps(f)
  <2>1. Objects' = Objects /\ {} \in SUBSET Cells
    BY <1>5 DEF Objects, Exists
  <2>2. Coherence(Objects', mem', maps', prog', program', Paste(f, {}, f))
    BY <1>5, <2>1, PasteNothing DEF Coherence
  <2>3. last' = [read |-> Pairs({}, f), wrote |-> Pairs({}, f)]
    BY <1>5, Accesses
  <2>4. QED
    BY <2>1, <2>2, <2>3 DEF Steps, Result
<1>6. ASSUME NEW d \in program.on, StartReprogram(d) PROVE Steps(f)
  <2>1. /\ prog.stage = "none" /\ last' = NoAccess
        /\ prog' = [stage |-> "save", device |-> d, todo |-> On(d)]
        /\ UNCHANGED <<mem, subs, maps, program>>
    BY <1>6 DEF StartReprogram, Idle
  <2>2. d \in Devices
    BY ProgramOn
  <2>3. Wiped(prog) = {} /\ Wiped(prog') = {}
    BY <2>1 DEF Wiped
  <2>4. \A b \in Objects : mem.place[b] = d => b \in On(d)
    BY DEF Objects, On
  <2>5. Saved(Objects, mem', prog', f)
    BY <2>1, <2>2, <2>3, <2>4 DEF Saved
  <2>6. QED
    BY <1>2, <1>5, <2>1, <2>3, <2>5
<1>7. ASSUME NEW b \in Buffers, SaveBuffer(b) PROVE Steps(f)
  <2> DEFINE n == AsSource(mem, b)
             P == Paste(n.host, Cover[b], Source(n, b))
             r == [n EXCEPT !.host = P]
  <2>1. /\ prog.stage = "save" /\ b \in prog.todo
        /\ prog' = [prog EXCEPT !.todo = @ \ {b}]
        /\ mem' = IF Preserved(b) THEN r ELSE mem
        /\ last' = NoAccess /\ UNCHANGED <<subs, maps, program>>
    BY <1>7 DEF SaveBuffer
  <2>2. /\ b \in Objects /\ prog'.stage = "save" /\ prog'.todo = prog.todo \ {b}
        /\ prog'.device = prog.device
    BY <1>3, <2>1 DEF ProgType
  <2>3. Wiped(prog) = {} /\ Wiped(prog') = {}
    BY <2>1, <2>2 DEF Wiped
  <2>4. Preserved(b) <=> Away(mem, b)
    BY DEF Preserved, Away
  <2>5. CASE Away(mem, b)
    <3>1. n = mem /\ Source(n, b) = mem.dev[b]
      BY <1>1, <2>2, <2>5 DEF AsSource, Source, Away
    <3>2. P = Paste(mem.host, Cover[b], mem.dev[b])
      BY <3>1
    <3>3. \A c \in Cover[b] : mem.dev[b][c] = f[c]
      BY <1>2, <2>2, <2>3, <2>5 DEF Agree
    <3>4. /\ P \in [Cells -> Known]
          /\ \A c \in Cells : P[c] = IF c \in Cover[b] THEN mem.dev[b][c] ELSE mem.host[c]
      BY <1>4, <3>2, PasteType
    <3>5. mem' = [mem EXCEPT !.host = P]
      BY <2>1, <2>4, <2>5, <3>1
    <3> HIDE DEF n, P, r
    <3>6. /\ mem'.host = P /\ mem'.dev = mem.dev /\ mem'.place = mem.place
          /\ mem'.onHost = mem.onHost /\ mem'.pending = mem.pending
      BY <1>1, <3>4, <3>5, SetHost
    <3>7. /\ \A c \in Cells : mem.host[c] = f[c] => mem'.host[c] = f[c]
          /\ \A c \in Cover[b] : mem'.host[c] = f[c]
      BY <1>4, <2>2, <3>3, <3>4, <3>6
    <3>8. \A x \in Objects : Away(mem', x) <=> Away(mem, x)
      BY <3>6 DEF Away
    <3>9. Agree(Objects, mem', maps, {}, f)
      <4>1. ASSUME NEW x \in Objects, Away(mem', x), NEW c \in Cover[x]
            PROVE  /\ mem'.dev[x][c] = f[c]
                   /\ mem'.place[x] = NoDevice => mem'.host[c] = f[c]
        BY <1>2, <1>4, <2>3, <3>6, <3>7, <3>8, <4>1 DEF Agree
      <4>2. ASSUME NEW c \in Cells,
                   \A x \in Objects : Away(mem', x) /\ c \in Cover[x] => x \in {}
            PROVE  mem'.host[c] = f[c]
        BY <1>2, <2>3, <3>7, <3>8, <4>2 DEF Agree
      <4>3. ASSUME NEW x \in Objects, NEW y \in maps[x], NEW c \in y[2]
            PROVE  mem'.host[c] = f[c]
        <5>1. mem.host[c] = f[c] /\ c \in Cells
          BY <1>1, <1>2, <1>4, <4>3 DEF Agree, MapsSound
        <5>2. QED
          BY <3>7, <5>1
      <4>4. QED
        BY <4>1, <4>2, <4>3 DEF Agree
    <3>10. MapsAlone(Objects, mem', maps, program)
      BY <1>2, <3>6 DEF MapsAlone
    <3>11. Saved(Objects, mem', prog', f)
      <4>1. ASSUME NEW x \in Objects, Away(mem', x), mem'.place[x] = prog'.device,
                   x \notin prog'.todo
            PROVE  \A c \in Cover[x] : mem'.host[c] = f[c]
        <5>1. CASE x = b
          BY <3>7, <5>1
        <5>2. CASE x # b
          <6>1. \A c \in Cover[x] : mem.host[c] = f[c]
            BY <1>2, <2>1, <2>2, <3>6, <3>8, <4>1, <5>2 DEF Saved
          <6>2. QED
            BY <1>4, <3>7, <6>1
        <5>3. QED
          BY <5>1, <5>2
      <4>2. prog'.device \in Devices
        BY <1>2, <2>1, <2>2 DEF Saved
      <4>3. QED
        BY <2>2, <2>3, <4>1, <4>2 DEF Saved
    <3>12. QED
      BY <1>5, <2>1, <2>3, <3>9, <3>10, <3>11
  <2>6. CASE ~Away(mem, b)
    <3>1. mem' = mem
      BY <2>1, <2>4, <2>6
    <3> HIDE DEF n, P, r
    <3>2. Saved(Objects, mem', prog', f)
      BY <1>2, <2>1, <2>2, <2>3, <2>6, <3>1 DEF Saved
    <3>3. QED
      BY <1>2, <1>5, <2>1, <2>3, <3>1, <3>2
  <2>7. QED
    BY <2>5, <2>6
<1>8. ASSUME NEW b \in Buffers, RestoreBuffer(b) PROVE Steps(f)
  <2>1. /\ prog.stage = "restore" /\ b \in prog.todo
        /\ prog' = [prog EXCEPT !.todo = @ \ {b}]
        /\ mem' = IF Preserved(b)
                  THEN Stored(AsDestination(mem, b), b, Cover[b], mem.host)
                  ELSE mem
        /\ last' = NoAccess /\ UNCHANGED <<subs, maps, program>>
    BY <1>8 DEF RestoreBuffer
  <2>2. /\ b \in Objects /\ prog'.stage = "restore" /\ prog'.todo = prog.todo \ {b}
        /\ prog'.device = prog.device
    BY <1>3, <2>1 DEF ProgType
  <2>3. Wiped(prog) = prog.todo /\ Wiped(prog') = prog.todo \ {b}
    BY <2>1, <2>2 DEF Wiped
  <2>4. Preserved(b) <=> Away(mem, b)
    BY DEF Preserved, Away
  <2>5. CASE Away(mem, b)
    <3> DEFINE P == Paste(mem.dev[b], Cover[b], mem.host)
    <3>1. ~mem.onHost[b] /\ ~mem.auto[b]
      BY <1>1, <2>2, <2>5 DEF Away, Sound, AutoOnHost
    <3>2. mem' = [mem EXCEPT !.dev[b] = P]
      BY <2>1, <2>4, <2>5, <3>1 DEF AsDestination, Stored
    <3>3. /\ P \in [Cells -> Known]
          /\ \A c \in Cells : P[c] = IF c \in Cover[b] THEN mem.host[c] ELSE mem.dev[b][c]
      BY <1>1, <1>4, <2>2, PasteType
    <3> HIDE DEF P
    <3>4. /\ mem'.host = mem.host /\ mem'.dev = [mem.dev EXCEPT ![b] = P]
          /\ mem'.place = mem.place
          /\ mem'.onHost = mem.onHost /\ mem'.pending = mem.pending
      BY <1>1, <3>2, <3>3, SetDev
    <3>5. \A c \in Cover[b] : mem.host[c] = f[c]
      BY <1>2, <2>1, <2>2, <2>3, <2>5 DEF Saved
    <3>6. /\ \A c \in Cover[b] : mem'.dev[b][c] = f[c]
          /\ \A x \in Buffers : x # b => mem'.dev[x] = mem.dev[x]
      BY <1>4, <2>2, <3>3, <3>4, <3>5
    <3>7. \A x \in Objects : Away(mem', x) <=> Away(mem, x)
      BY <3>4 DEF Away
    <3>8. Agree(Objects, mem', maps, Wiped(prog'), f)
      <4>1. ASSUME NEW x \in Objects, Away(mem', x), NEW c \in Cover[x]
            PROVE  /\ x \notin Wiped(prog') => mem'.dev[x][c] = f[c]
                   /\ mem'.place[x] = NoDevice => mem'.host[c] = f[c]
        <5>1. CASE x = b
          BY <3>4, <3>5, <3>6, <4>1, <5>1
        <5>2. CASE x # b
          BY <1>1, <1>2, <2>3, <3>4, <3>6, <3>7, <4>1, <5>2 DEF Agree
        <5>3. QED
          BY <5>1, <5>2
      <4>2. ASSUME NEW c \in Cells,
                   \A x \in Objects :
                      Away(mem', x) /\ c \in Cover[x] => x \in Wiped(prog')
            PROVE  mem'.host[c] = f[c]
        <5>1. \A x \in Objects : Away(mem, x) /\ c \in Cover[x] => x \in Wiped(prog)
          BY <2>3, <3>7, <4>2
        <5>2. QED
          BY <1>2, <3>4, <5>1 DEF Agree
      <4>3. \A x \in Objects : \A y \in maps[x] : \A c \in y[2] : mem'.host[c] = f[c]
        BY <1>2, <3>4 DEF Agree
      <4>4. QED
        BY <4>1, <4>2, <4>3 DEF Agree
    <3>9. MapsAlone(Objects, mem', maps, program)
      BY <1>2, <3>4 DEF MapsAlone
    <3>10. Saved(Objects, mem', prog', f)
      BY <1>2, <2>1, <2>2, <2>3, <3>4, <3>7 DEF Saved
    <3>11. QED
      BY <1>5, <2>1, <3>8, <3>9, <3>10
  <2>6. CASE ~Away(mem, b)
    <3>1. mem' = mem
      BY <2>1, <2>4, <2>6
    <3>2. Agree(Objects, mem', maps, Wiped(prog'), f)
      BY <1>2, <2>3, <2>6, <3>1 DEF Agree
    <3>3. Saved(Objects, mem', prog', f)
      BY <1>2, <2>1, <2>2, <2>3, <3>1 DEF Saved
    <3>4. QED
      BY <1>2, <1>5, <2>1, <3>1, <3>2, <3>3
  <2>7. QED
    BY <2>5, <2>6
<1>9. ASSUME ProgramDevice PROVE Steps(f)
  <2> DEFINE D == [b \in Buffers |-> IF b \in On(prog.device) THEN Nothing
                                     ELSE mem.dev[b]]
  <2>1. /\ prog.stage = "save" /\ prog.todo = {}
        /\ prog' = [prog EXCEPT !.stage = "restore", !.todo = On(prog.device)]
        /\ mem' = [mem EXCEPT !.dev = D]
        /\ last' = NoAccess /\ UNCHANGED <<subs, maps, program>>
    BY <1>9 DEF ProgramDevice
  <2>2. /\ prog'.stage = "restore" /\ prog'.todo = On(prog.device)
        /\ prog'.device = prog.device /\ prog.device \in Devices
    BY <1>2, <1>3, <2>1 DEF ProgType, Saved
  <2>3. Wiped(prog) = {} /\ Wiped(prog') = On(prog.device)
    BY <2>1, <2>2 DEF Wiped
  <2>4. D \in [Buffers -> [Cells -> Known]]
    BY <1>4, SmallTypes
  <2>5. \A x \in Buffers : x \notin On(prog.device) => D[x] = mem.dev[x]
    OBVIOUS
  <2> HIDE DEF D
  <2>6. /\ mem'.dev = D /\ mem'.host = mem.host /\ mem'.place = mem.place
        /\ mem'.onHost = mem.onHost /\ mem'.pending = mem.pending
    BY <1>1, <2>1, <2>4 DEF MemType
  <2>7. \A x \in Objects : Away(mem', x) <=> Away(mem, x)
    BY <2>6 DEF Away
  <2>8. ASSUME NEW x \in On(prog.device), Away(mem, x)
        PROVE  x \in Objects /\ \A c \in Cover[x] : mem.host[c] = f[c]
    <3>1. x \in Objects /\ mem.place[x] = prog.device
      BY DEF On, Objects
    <3>2. QED
      BY <1>2, <2>1, <2>8, <3>1 DEF Saved
  <2>9. Agree(Objects, mem', maps, Wiped(prog'), f)
    <3>1. ASSUME NEW x \in Objects, Away(mem', x), NEW c \in Cover[x]
          PROVE  /\ x \notin Wiped(prog') => mem'.dev[x][c] = f[c]
                 /\ mem'.place[x] = NoDevice => mem'.host[c] = f[c]
      BY <1>1, <1>2, <2>3, <2>5, <2>6, <2>7, <3>1 DEF Agree
    <3>2. ASSUME NEW c \in Cells,
                 \A x \in Objects :
                    Away(mem', x) /\ c \in Cover[x] => x \in Wiped(prog')
          PROVE  mem'.host[c] = f[c]
      <4>1. CASE \E x \in Objects : Away(mem, x) /\ c \in Cover[x]
        BY <2>3, <2>6, <2>7, <2>8, <3>2, <4>1
      <4>2. CASE ~\E x \in Objects : Away(mem, x) /\ c \in Cover[x]
        BY <1>2, <2>6, <4>2 DEF Agree
      <4>3. QED
        BY <4>1, <4>2
    <3>3. \A x \in Objects : \A y \in maps[x] : \A c \in y[2] : mem'.host[c] = f[c]
      BY <1>2, <2>6 DEF Agree
    <3>4. QED
      BY <3>1, <3>2, <3>3 DEF Agree
  <2>10. MapsAlone(Objects, mem', maps, program)
    BY <1>2, <2>6 DEF MapsAlone
  <2>11. Saved(Objects, mem', prog', f)
    <3>1. ASSUME NEW x \in Objects, Away(mem', x), x \in Wiped(prog')
          PROVE  \A c \in Cover[x] : mem'.host[c] = f[c]
      BY <2>3, <2>6, <2>7, <2>8, <3>1
    <3>2. prog'.stage # "save" /\ prog'.device \in Devices
      BY <2>2
    <3>3. ASSUME NEW x \in Objects,
                 Away(mem', x),
                 \/ /\ prog'.stage = "save" /\ mem'.place[x] = prog'.device
                    /\ x \notin prog'.todo
                 \/ x \in Wiped(prog')
          PROVE  \A c \in Cover[x] : mem'.host[c] = f[c]
      <4>1. Away(mem', x) /\ x \in Wiped(prog')
        BY <3>2, <3>3
      <4>2. QED
        BY <3>1, <4>1
    <3>4. prog'.stage # "none" => prog'.device \in Devices
      BY <3>2
    <3>5. QED
      BY <3>3, <3>4 DEF Saved
  <2>12. QED
    BY <1>5, <2>1, <2>9, <2>10, <2>11
<1>10. ASSUME EndReprogram PROVE Steps(f)
  <2>1. /\ prog.stage = "restore" /\ prog.todo = {} /\ last' = NoAccess
        /\ prog' = [stage |-> "none", device |-> NoDevice, todo |-> {}]
        /\ UNCHANGED <<mem, subs, maps, program>>
    BY <1>10 DEF EndReprogram
  <2>2. Wiped(prog) = {} /\ Wiped(prog') = {} /\ prog'.stage = "none"
    BY <2>1 DEF Wiped
  <2>3. Saved(Objects, mem', prog', f)
    BY <2>2 DEF Saved
  <2>4. QED
    BY <1>2, <1>5, <2>1, <2>2, <2>3
<1>11. QED
  BY <1>6, <1>7, <1>8, <1>9, <1>10

----------------------------------------------------------------------------
(* The refinement. *)

LEMMA ContentsType ==
    ASSUME TypeOK
    PROVE  Contents \in [Cells -> Known]
<1>1. mem \in MemType
  BY DEF TypeOK
<1>2. mem.host \in [Cells -> Known] /\ mem.dev \in [Buffers -> [Cells -> Known]]
  BY <1>1 DEF MemType
<1>3. ASSUME NEW c \in Cells PROVE Live(c) \in Known
  <2>1. CASE Owners(c) = {}
    BY <1>2, <2>1 DEF Live
  <2>2. CASE Owners(c) # {}
    <3>1. PICK b \in Buffers : b = OneOf(Owners(c))
      <4>1. PICK x : x \in Owners(c)
        BY <2>2
      <4>2. OneOf(Owners(c)) \in Owners(c)
        BY <4>1 DEF OneOf
      <4>3. QED
        BY <4>2 DEF Owners
    <3>2. Live(c) = mem.dev[b][c]
      BY <2>2, <3>1 DEF Live, OneOf
    <3>3. QED
      BY <1>2, <3>2
  <2>3. QED
    BY <2>1, <2>2
<1>4. QED
  BY <1>3 DEF Contents

(* The buffer is created with the contents of the host copy. *)
LEMMA CoherentInit ==
    ASSUME Init, Orderly(program)
    PROVE  Coherent /\ Memory!Init
<1>1. TypeOK /\ Structure
  BY InitType, StructureInit
<1>2. /\ subs = <<>> /\ maps = [b \in Buffers |-> {}] /\ last = NoAccess
      /\ prog = [stage |-> "none", device |-> NoDevice, todo |-> {}]
  BY DEF Init
<1>3. Objects = {Parent} /\ Parent \in Buffers
  BY <1>2, SmallTypes DEF Objects, Exists, ToSet
<1>4. PICK v \in Values :
         mem = [host |-> IF Does("host_ptr") THEN [c \in Cells |-> v] ELSE Nothing,
                dev |-> [b \in Buffers |-> Nothing],
                place |-> [b \in Buffers |-> NoDevice],
                onHost |-> [b \in Buffers |-> b = Parent /\ Does("host_ptr")],
                auto |-> [b \in Buffers |-> FALSE],
                pending |-> Does("host_ptr"),
                count |-> [b \in Buffers |-> 0]]
  BY DEF Init
<1>5. /\ mem.host = IF Does("host_ptr") THEN [c \in Cells |-> v] ELSE Nothing
      /\ mem.dev[Parent] = Nothing
      /\ mem.onHost[Parent] <=> Does("host_ptr")
      /\ mem.pending <=> Does("host_ptr")
  BY <1>3, <1>4
<1> DEFINE f == mem.host
<1>6. f \in [Cells -> Known] /\ f \in {[c \in Cells |-> k] : k \in Known}
  BY <1>5 DEF Nothing, Known
<1>7. Away(mem, Parent) => mem.dev[Parent] = f
  BY <1>5 DEF Away
<1>8. \A b \in Objects : maps[b] = {}
  BY <1>2, <1>3
<1>9. Wiped(prog) = {} /\ prog.stage = "none"
  BY <1>2 DEF Wiped
<1> HIDE DEF f
<1>10. Agree(Objects, mem, maps, Wiped(prog), f)
  BY <1>3, <1>7, <1>8 DEF Agree, f
<1>11. MapsAlone(Objects, mem, maps, program)
  BY <1>3, <1>8 DEF MapsAlone
<1>12. Saved(Objects, mem, prog, f)
  BY <1>9 DEF Saved
<1>13. Coherence(Objects, mem, maps, prog, program, f)
  BY <1>10, <1>11, <1>12 DEF Coherence
<1>14. Contents = f
  BY <1>1, <1>6, <1>13, ContentsFrom
<1>15. Memory!Init
  BY <1>2, <1>6, <1>14 DEF Memory!Init, Memory!Known, Memory!NoAccess, Known,
                           NoAccess, Contents
<1>16. QED
  BY <1>13, <1>14, <1>15 DEF Coherent

LEMMA StepsOfNext ==
    ASSUME TypeOK, Structure, Orderly(program), NEW f \in [Cells -> Known],
           Coherence(Objects, mem, maps, prog, program, f), Next
    PROVE  Steps(f)
<1>1. ASSUME NEW s \in Buffers, CreateSub(s) \/ ReleaseSub(s) PROVE Steps(f)
  BY <1>1, SubSteps
<1>2. CASE Transfer
  BY <1>2, TransferSteps DEF Transfer
<1>3. CASE Copy
  BY <1>3, CopySteps DEF Copy
<1>4. CASE UseMapping
  BY <1>4, MappingSteps DEF UseMapping
<1>5. CASE RunKernel
  BY <1>5, KernelSteps DEF RunKernel
<1>6. ASSUME NEW b \in Buffers, NEW d \in program.on, MigrateCommand(b, d)
      PROVE  Steps(f)
  BY <1>6, MigrateCommandSteps
<1>7. CASE Reprogram
  BY <1>7, ReprogramSteps DEF Reprogram
<1>8. ASSUME NEW b \in Buffers, NEW d \in program.on, Bind(b, d)
      PROVE  Steps(f)
  BY <1>8, BindSteps
<1>9. QED
  BY <1>1, <1>2, <1>3, <1>4, <1>5, <1>6, <1>7, <1>8 DEF Next

LEMMA CoherentStep ==
    ASSUME TypeOK, Structure, Coherent, TypeOK', Structure', [Next]_vars,
           Orderly(program), Orderly(program')
    PROVE  Coherent' /\ [Memory!Next]_<<[c \in Cells |-> Live(c)], last>>
<1>1. CASE UNCHANGED vars
  <2>1. Contents' = Contents
    BY <1>1 DEF vars, Contents, Live, Owners, OnDevice, Exists
  <2>2. Coherent'
    BY <1>1, <2>1 DEF vars, Coherent, Objects, Exists
  <2>3. QED
    BY <1>1, <2>1, <2>2 DEF vars, Contents
<1>2. CASE Next
  <2>1. /\ Contents \in [Cells -> Known]
        /\ Coherence(Objects, mem, maps, prog, program, Contents)
    BY ContentsType DEF Coherent
  <2>2. Steps(Contents)
    BY <1>2, <2>1, StepsOfNext
  <2>3. QED
    BY <2>1, <2>2, MemorySteps
<1>3. QED
  BY <1>1, <1>2

(* In orderly programs all the copies together are one memory: transfers,  *)
(* kernels and the host through its mappings read what was last written,   *)
(* and what the runtime does on its own (bind an object when a transfer is *)
(* enqueued, synchronise sub-buffers, move, save and restore an object)    *)
(* changes nothing (acl_mem.cpp).                                          *)
THEOREM CopiesAreOneMemory ==
    ASSUME \A p \in Programs : Orderly(p)
    PROVE  Spec => RefinesMemory
<1>1. TypeOK => Orderly(program)
  BY DEF TypeOK
<1>2. TypeOK' => Orderly(program')
  BY DEF TypeOK
<1>3. Init => TypeOK /\ Structure /\ Coherent /\ Memory!Init
  BY <1>1, InitType, StructureInit, CoherentInit
<1>4. TypeOK /\ Structure /\ [Next]_vars => Structure'
  BY StructureStep
<1>5. TypeOK /\ Structure /\ Coherent /\ TypeOK' /\ Structure' /\ [Next]_vars
        => Coherent' /\ [Memory!Next]_<<[c \in Cells |-> Live(c)], last>>
  BY <1>1, <1>2, CoherentStep
<1>6. Spec => []TypeOK
  BY TypeCorrect
<1>7. QED
  BY <1>3, <1>4, <1>5, <1>6, PTL DEF Spec, RefinesMemory, Memory!Spec
=============================================================================
