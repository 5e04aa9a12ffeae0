--------------------------- MODULE KernelIfProofs ---------------------------
(* Proofs about the kernel interface, for every number of accelerators, ring *)
(* size, workload and interleaving of the two threads: types, the entry a     *)
(* launch writes is free, every kernel starts with its own registers, the     *)
(* rings implement first-in first-out queues, the handler looks for the next  *)
(* completion at the right entry, and no stalled kernel is forgotten.         *)
EXTENDS KernelIf, FiniteSetTheorems, TLAPS

(* The n-th entry of a ring from a first one on, and a ring that holds the   *)
(* sequence q from there on and nothing else.                                *)
Slot(size, first, n) ==
    IF first + n < size THEN first + n ELSE first + n - size

Layout(ring, first, size, q) ==
    /\ Len(q) <= size
    /\ \A n \in 1 .. Len(q) : ring[Slot(size, first, n - 1)] = q[n]
    /\ \A n \in Len(q) + 1 .. size : ring[Slot(size, first, n - 1)] = NoJob

(* Steps of the host that launch and of the handler that deliver finishes;   *)
(* an invocation that is in the ring but not started, or not yet at front.   *)
Launches == {"image", "enter", "announce", "start"}
Delivers == {"retire", "complete", "advance", "next"}
Entered(a) == host.pc \in {"announce", "start"} /\ AccelOf[host.job] = a
Unannounced(a) == host.pc = "announce" /\ AccelOf[host.job] = a
One(p) == IF p THEN 1 ELSE 0

(* Finishes of an accelerator that the handler has still to deliver: those   *)
(* in the counter and those it has read off it.                              *)
Waiting(a) ==
    IF a \in Csr181
    THEN IF irq.accel = a /\ irq.pc = "complete" THEN 0 ELSE done[a]
    ELSE done[a] + (IF irq.accel # a \/ irq.pc \notin Delivers THEN 0
                    ELSE IF irq.pc = "retire" THEN irq.finishes
                    ELSE irq.finishes - 1)

(* The host thread: where a launch writes, and whose store is on its way. *)
HostInv ==
    /\ host.pc # "idle" => host.job \in Jobs
    /\ host.pc \in Launches => host.next =
         IF host.pc = "start" THEN front[AccelOf[host.job]]
         ELSE NextIndex(AccelOf[host.job], front[AccelOf[host.job]])
    /\ unseen # NoJob => host.pc \in {"announce", "start"} /\ unseen = host.job

(* The handler: while it delivers finishes it is at the entry behind back. *)
IrqInv ==
    /\ irq.pc \in {"pend", "flag", "clear"} => irq.job \in Jobs
    /\ irq.pc \in Delivers =>
         /\ irq.next = NextIndex(irq.accel, back[irq.accel])
         /\ irq.finishes > 0
         /\ irq.accel \in Csr181 => irq.finishes = 1

(* The ring of an accelerator in use: it holds a sequence from the oldest    *)
(* entry on, front is at its end, and nothing is finished, running or about  *)
(* to be started that it does not hold.                                      *)
RingUp(a) ==
    /\ Held(a) \in Seq(Jobs)
    /\ Layout(Cells(a), Oldest(a), Size[a], Held(a))
    /\ NextIndex(a, front[a]) =
         Slot(Size[a], Oldest(a), Len(Held(a)) - One(Unannounced(a)))
    /\ Waiting(a) + Len(hw[a]) + One(Entered(a)) <= Len(Held(a))
    /\ irq.accel = a /\ irq.pc = "retire" => Waiting(a) > 0
    /\ Entered(a) => Held(a)[Len(Held(a))] = host.job
    /\ unseen # NoJob /\ AccelOf[unseen] = a => job_ids[a][host.next] = NoJob

(* The ring of an accelerator that was reset by force, for good. *)
RingDown(a) ==
    /\ todo = {}
    /\ host.pc \in Launches => AccelOf[host.job] # a
    /\ \A i \in DOMAIN job_ids[a] : job_ids[a][i] = NoJob
    /\ hw[a] = <<>> /\ done[a] = 0

RingInv == \A a \in Accels : RingUp(a) \/ RingDown(a)

(* The invocations in a queue are in flight on its accelerator, each is in   *)
(* it once, and there are no more than the accelerator takes.                *)
QueueInv ==
    \A a \in Accels :
        /\ Len(Queue(a)) <= Size[a]
        /\ \A m \in 1 .. Len(Queue(a)) : Queue(a)[m] \in InFlight(a) \ todo
        /\ \A m, n \in 1 .. Len(Queue(a)) : m # n => Queue(a)[m] # Queue(a)[n]

(* An invocation still to be launched has not been touched. *)
TodoInv ==
    /\ \A j \in todo : exec[j] = QUEUED
    /\ host.pc \in Launches => host.job \notin todo

(* The invocations of a behaviour are one of the workloads; those of an      *)
(* accelerator that were launched are in front of those still to be launched *)
(* in the device operation queue, but for those that were overtaken.         *)
OrderInv ==
    \E w \in Workloads :
        /\ todo \subseteq w
        /\ \A a \in Accels : InFlight(a) \subseteq w \ todo
        /\ \A j \in todo, k \in w \ todo :
             AccelOf[j] = AccelOf[k] => k \in InFront[j] \/ j \in Overtaken

(* What is cached of the registers is what they hold. *)
CacheInv ==
    \A a \in Accels :
        /\ a \notin Streaming \cup Csr181 => image_cache[a] = cra[a].image
        /\ a \notin Csr181 => arg_cache[a] \in {Unset, cra[a].args}
        /\ host.pc \in {"enter", "announce", "start"} /\ AccelOf[host.job] = a =>
             /\ a \notin Streaming => cra[a].image = Job[host.job].image
             /\ cra[a].args = Job[host.job].args

(* The inductive invariant. *)
IInv == TypeOK /\ HostInv /\ IrqInv /\ RingInv /\ QueueInv /\ TodoInv /\ CacheInv

(* What the handler will deliver, what the accelerator is to run and what is *)
(* entered but not started is together what the ring holds, in this order.   *)
CountUp(a) ==
    /\ Waiting(a) + Len(hw[a]) + One(Entered(a)) = Len(Held(a))
    /\ \A i \in 1 .. Len(hw[a]) : hw[a][i].job = Held(a)[Waiting(a) + i]
    /\ irq.accel = a /\ irq.pc = "complete" => irq.job # NoJob

(* It refines the inequality of RingUp. *)
CountInv == \A a \in Accels : RingDown(a) \/ CountUp(a)

-----------------------------------------------------------------------------
(* Rings as sequences.                                                       *)

(* Counting on from an entry of a ring of a given size. *)
LEMMA SlotFacts ==
    ASSUME NEW size \in Nat \ {0}, NEW first \in 0 .. size - 1
    PROVE  /\ \A n \in 0 .. size : /\ Slot(size, first, n) \in 0 .. size - 1
                                   /\ (first + n) % size = Slot(size, first, n)
           /\ \A m, n \in 0 .. size - 1 :
                Slot(size, first, m) = Slot(size, first, n) => m = n
           /\ \A i \in 0 .. size - 1 : \E n \in 0 .. size - 1 :
                Slot(size, first, n) = i
<1>1. \A x \in 0 .. size - 1 : x % size = x
  BY SMT
<1>2. \A x \in size .. 2 * size - 1 : x % size = x - size
  BY SMT
<1>3. ASSUME NEW n \in 0 .. size
      PROVE  /\ Slot(size, first, n) \in 0 .. size - 1
             /\ (first + n) % size = Slot(size, first, n)
  <2>1. CASE first + n < size
    BY <2>1, <1>1 DEF Slot
  <2>2. CASE first + n >= size
    BY <2>2, <1>2 DEF Slot
  <2> QED BY <2>1, <2>2
<1>4. ASSUME NEW i \in 0 .. size - 1
      PROVE  \E n \in 0 .. size - 1 : Slot(size, first, n) = i
  <2>1. CASE i >= first
    <3>1. i - first \in 0 .. size - 1 /\ Slot(size, first, i - first) = i
      BY <2>1 DEF Slot
    <3> QED BY <3>1
  <2>2. CASE i < first
    <3>1. /\ i + size - first \in 0 .. size - 1
          /\ Slot(size, first, i + size - first) = i
      BY <2>2 DEF Slot
    <3> QED BY <3>1
  <2> QED BY <2>1, <2>2
<1> QED BY <1>3, <1>4 DEF Slot

(* A ring whose used entries follow each other from the first on holds the   *)
(* sequence of them, as the refinement reads it off the ring.                *)
LEMMA EntriesAre ==
    ASSUME NEW size \in Nat \ {0}, NEW first \in 0 .. size - 1,
           NEW ring \in [0 .. size - 1 -> Jobs \cup {NoJob}],
           NEW q \in Seq(Jobs), Layout(ring, first, size, q)
    PROVE  Entries(ring, first, size) = q
<1> DEFINE used == {i \in 0 .. size - 1 : ring[i] # NoJob}
           f == [n \in 1 .. Len(q) |-> Slot(size, first, n - 1)]
<1>1. Len(q) \in Nat /\ Len(q) <= size
  BY DEF Layout
<1>2. \A n \in 1 .. Len(q) : ring[Slot(size, first, n - 1)] = q[n] /\ q[n] \in Jobs
  BY DEF Layout
<1>3. \A n \in 1 .. Len(q) : f[n] \in used
  <2> SUFFICES ASSUME NEW n \in 1 .. Len(q) PROVE f[n] \in used
    OBVIOUS
  <2>1. n - 1 \in 0 .. size
    BY <1>1
  <2>2. Slot(size, first, n - 1) \in 0 .. size - 1
    BY <2>1 DEF Slot
  <2> QED BY <2>2, <1>2, JobAssumption
<1>4. \A m, n \in 1 .. Len(q) : f[m] = f[n] => m = n
  <2> SUFFICES ASSUME NEW m \in 1 .. Len(q), NEW n \in 1 .. Len(q), f[m] = f[n]
               PROVE  m = n
    OBVIOUS
  <2>1. m - 1 \in 0 .. size - 1 /\ n - 1 \in 0 .. size - 1
    BY <1>1
  <2>2. Slot(size, first, m - 1) = Slot(size, first, n - 1)
    OBVIOUS
  <2>3. m - 1 = n - 1
    BY <2>1, <2>2 DEF Slot
  <2> QED BY <2>3
<1>5. \A i \in used : \E n \in 1 .. Len(q) : f[n] = i
  <2> SUFFICES ASSUME NEW i \in used PROVE \E n \in 1 .. Len(q) : f[n] = i
    OBVIOUS
  <2>1. PICK n \in 0 .. size - 1 : Slot(size, first, n) = i
    BY SlotFacts
  <2>2. n + 1 \in 1 .. size /\ (n + 1) - 1 = n
    OBVIOUS
  <2>3. n + 1 \in 1 .. Len(q)
    <3> SUFFICES ASSUME n + 1 \in Len(q) + 1 .. size PROVE FALSE
      BY <1>1, <2>2
    <3>1. ring[Slot(size, first, (n + 1) - 1)] = NoJob
      BY DEF Layout
    <3> QED BY <3>1, <2>1, <2>2
  <2> QED BY <2>1, <2>2, <2>3
<1>6. f \in Bijection(1 .. Len(q), used)
  BY <1>3, <1>4, <1>5 DEF Bijection, Injection, Surjection, IsInjective
<1>7. Cardinality(used) = Len(q)
  <2>1. ExistsBijection(1 .. Len(q), used)
    BY <1>6 DEF ExistsBijection
  <2>2. IsFiniteSet(1 .. Len(q)) /\ Cardinality(1 .. Len(q)) = Len(q)
    <3>1. 1 \in Int /\ Len(q) \in Int
      BY <1>1
    <3>2. /\ IsFiniteSet(1 .. Len(q))
          /\ Cardinality(1 .. Len(q)) = IF 1 > Len(q) THEN 0 ELSE Len(q) - 1 + 1
      BY ONLY <3>1, FS_Interval
    <3> QED BY ONLY <1>1, <3>2
  <2> HIDE DEF used
  <2> QED BY <2>1, <2>2, FS_Bijection
<1>8. \A n \in 1 .. Len(q) : ring[(first + n - 1) % size] = q[n]
  <2> SUFFICES ASSUME NEW n \in 1 .. Len(q)
               PROVE  ring[(first + n - 1) % size] = q[n]
    OBVIOUS
  <2>1. n - 1 \in 0 .. size /\ first + n - 1 = first + (n - 1)
    BY <1>1
  <2>2. (first + (n - 1)) % size = Slot(size, first, n - 1)
    BY <2>1, SlotFacts
  <2> QED BY <2>1, <2>2, <1>2
<1>9. Entries(ring, first, size) = [n \in 1 .. Len(q) |-> ring[(first + n - 1) % size]]
  BY <1>7 DEF Entries
<1>10. q = [n \in 1 .. Len(q) |-> q[n]]
  OBVIOUS
<1> HIDE DEF used, f
<1> QED BY <1>8, <1>9, <1>10

(* An invocation entered behind the newest. *)
LEMMA EnterLayout ==
    ASSUME NEW size \in Nat \ {0}, NEW first \in 0 .. size - 1,
           NEW ring \in [0 .. size - 1 -> Jobs \cup {NoJob}],
           NEW q \in Seq(Jobs), Layout(ring, first, size, q),
           Len(q) < size, NEW j \in Jobs
    PROVE  /\ ring[Slot(size, first, Len(q))] = NoJob
           /\ Layout([ring EXCEPT ![Slot(size, first, Len(q))] = j],
                     first, size, Append(q, j))
<1> DEFINE at == Slot(size, first, Len(q))
<1>1. Len(q) \in 0 .. size - 1 /\ at \in 0 .. size - 1
  BY DEF Slot
<1>2. ring[at] = NoJob
  <2>1. Len(q) + 1 \in Len(q) + 1 .. size /\ (Len(q) + 1) - 1 = Len(q)
    OBVIOUS
  <2> QED BY <2>1 DEF Layout
<1>3. \A n \in 1 .. size : n - 1 # Len(q) => Slot(size, first, n - 1) # at
  <2> SUFFICES ASSUME NEW n \in 1 .. size, n - 1 # Len(q)
               PROVE  Slot(size, first, n - 1) # at
    OBVIOUS
  <2>1. n - 1 \in 0 .. size - 1
    OBVIOUS
  <2> QED BY <2>1, <1>1 DEF Slot
<1>4. \A n \in 1 .. size : Slot(size, first, n - 1) \in 0 .. size - 1
  BY DEF Slot
<1> DEFINE new == [ring EXCEPT ![at] = j]
<1>5. ASSUME NEW n \in 1 .. Len(q) + 1
      PROVE  new[Slot(size, first, n - 1)] = Append(q, j)[n]
  <2>1. CASE n = Len(q) + 1
    BY <2>1, <1>1
  <2>2. CASE n \in 1 .. Len(q)
    <3>1. ring[Slot(size, first, n - 1)] = q[n]
      BY <2>2 DEF Layout
    <3>2. Slot(size, first, n - 1) # at /\ Slot(size, first, n - 1) \in 0 .. size - 1
      BY <2>2, <1>3, <1>4
    <3> QED BY <3>1, <3>2, <2>2
  <2> QED BY <2>1, <2>2
<1>6. ASSUME NEW n \in Len(q) + 2 .. size
      PROVE  new[Slot(size, first, n - 1)] = NoJob
  <2>1. ring[Slot(size, first, n - 1)] = NoJob
    BY DEF Layout
  <2>2. Slot(size, first, n - 1) # at /\ Slot(size, first, n - 1) \in 0 .. size - 1
    BY <1>3, <1>4
  <2> QED BY <2>1, <2>2
<1>7. Len(Append(q, j)) = Len(q) + 1
  OBVIOUS
<1> HIDE DEF new, at
<1>8. Layout(new, first, size, Append(q, j))
  <2>1. \A n \in 1 .. Len(Append(q, j)) : new[Slot(size, first, n - 1)] = Append(q, j)[n]
    BY <1>5, <1>7
  <2>2. \A n \in Len(Append(q, j)) + 1 .. size : new[Slot(size, first, n - 1)] = NoJob
    BY <1>6, <1>7
  <2> QED BY <2>1, <2>2, <1>7 DEF Layout
<1> QED BY <1>2, <1>8 DEF new, at

(* The oldest invocation taken out. *)
LEMMA RetireLayout ==
    ASSUME NEW size \in Nat \ {0}, NEW first \in 0 .. size - 1,
           NEW ring \in [0 .. size - 1 -> Jobs \cup {NoJob}],
           NEW q \in Seq(Jobs), Layout(ring, first, size, q), Len(q) > 0
    PROVE  /\ ring[first] = Head(q)
           /\ Slot(size, first, 1) \in 0 .. size - 1
           /\ Layout([ring EXCEPT ![first] = NoJob],
                     Slot(size, first, 1), size, Tail(q))
<1> DEFINE next == Slot(size, first, 1)
           new == [ring EXCEPT ![first] = NoJob]
<1>1. next \in 0 .. size - 1 /\ Slot(size, first, 0) = first
  BY DEF Slot
<1>2. \A n \in 1 .. size : Slot(size, next, n - 1) = IF n = size THEN first ELSE Slot(size, first, n)
  BY <1>1 DEF Slot
<1>3. \A n \in 1 .. size - 1 : Slot(size, first, n) # first /\ Slot(size, first, n) \in 0 .. size - 1
  BY DEF Slot
<1>4. ring[first] = q[1]
  BY <1>1 DEF Layout
<1>5. Len(Tail(q)) = Len(q) - 1 /\ Len(q) <= size /\ \A n \in 1 .. Len(q) - 1 : Tail(q)[n] = q[n + 1]
  BY DEF Layout
<1>6. ASSUME NEW n \in 1 .. Len(q) - 1
      PROVE  new[Slot(size, next, n - 1)] = Tail(q)[n]
  <2>1. Slot(size, next, n - 1) = Slot(size, first, n) /\ Slot(size, first, n) # first
        /\ Slot(size, first, n) \in 0 .. size - 1
    BY <1>2, <1>3, <1>5
  <2>2. n + 1 \in 1 .. Len(q) /\ (n + 1) - 1 = n
    OBVIOUS
  <2>3. ring[Slot(size, first, n)] = q[n + 1]
    BY <2>2 DEF Layout
  <2> QED BY <2>1, <2>3, <1>5
<1>7. ASSUME NEW n \in Len(q) .. size
      PROVE  new[Slot(size, next, n - 1)] = NoJob
  <2>1. CASE n = size
    BY <2>1, <1>2
  <2>2. CASE n < size
    <3>1. Slot(size, next, n - 1) = Slot(size, first, n) /\ Slot(size, first, n) # first
          /\ Slot(size, first, n) \in 0 .. size - 1
      BY <1>2, <1>3, <1>5, <2>2
    <3>2. n + 1 \in Len(q) + 1 .. size /\ (n + 1) - 1 = n
      BY <2>2
    <3>3. ring[Slot(size, first, n)] = NoJob
      BY <3>2 DEF Layout
    <3> QED BY <3>1, <3>3
  <2> QED BY <2>1, <2>2
<1> HIDE DEF new, next
<1>8. Layout(new, next, size, Tail(q))
  BY <1>5, <1>6, <1>7 DEF Layout
<1> QED BY <1>1, <1>4, <1>8 DEF new, next

(* A ring in which every entry is free. *)
LEMMA EmptyLayout ==
    ASSUME NEW size \in Nat \ {0}, NEW first \in 0 .. size - 1,
           NEW ring \in [0 .. size - 1 -> Jobs \cup {NoJob}],
           \A i \in 0 .. size - 1 : ring[i] = NoJob
    PROVE  Layout(ring, first, size, <<>>)
<1>1. \A n \in 1 .. size : Slot(size, first, n - 1) \in 0 .. size - 1
  BY DEF Slot
<1> QED BY <1>1 DEF Layout

(* A sequence without repetitions is not longer than a set it draws from. *)
LEMMA LengthBound ==
    ASSUME NEW S, IsFiniteSet(S), NEW q, NEW n \in Nat,
           \A i \in 1 .. n : q[i] \in S,
           \A i, k \in 1 .. n : i # k => q[i] # q[k]
    PROVE  n <= Cardinality(S)
<1> DEFINE f == [i \in 1 .. n |-> q[i]]
<1>1. f \in Injection(1 .. n, S)
  BY DEF Injection, IsInjective
<1>2. Cardinality(1 .. n) = n
  BY FS_Interval
<1> HIDE DEF f
<1> QED BY <1>1, <1>2, FS_Injection

-----------------------------------------------------------------------------
(* Types.                                                                    *)

(* What the theorems below assume of the constants, and the code does not    *)
(* enforce: nothing is launched after a forced reset, and the entry past the *)
(* end of a ring holds no operation; no accelerator has both the oldest      *)
(* register map and streaming control; an accelerator of which an invocation *)
(* is overtaken has entries for all it is given; one of the oldest register  *)
(* map takes one invocation at a time.                                       *)
ResetsComeLast == ~LaunchAfterReset /\ Stray \subseteq {NoJob}
StreamingIsNewer == Csr181 \cap Streaming = {}
OvertakenHaveRoom ==
    \A w \in Workloads, a \in Accels :
        LET own == {j \in w : AccelOf[j] = a} IN
        own \cap Overtaken = {} \/ Cardinality(own) <= Size[a]
OldestMapTakesOne == \A a \in Csr181 : Size[a] = 1

(* The index after an entry of a ring, or after none, is one of the ring. *)
LEMMA NextIndexType ==
    ASSUME NEW a \in Accels, NEW i \in -1 .. Size[a] - 1
    PROVE  /\ NextIndex(a, i) \in 0 .. Size[a] - 1
           /\ NextIndex(a, i) = Slot(Size[a], i, 1)
           /\ NextIndex(a, i) \in Nat
BY SizeAssumption DEF NextIndex, Slot

(* The registers a launch leaves hold its own arguments, although only those *)
(* that differ from the cached ones are written.                             *)
LEMMA WrittenArgs ==
    ASSUME TypeOK, CacheInv, NEW j \in Jobs, NEW a \in Accels, a \notin Csr181
    PROVE  ChangedArgs(cra[a].args, arg_cache[a], Job[j].args) = Job[j].args
<1>1. arg_cache[a] = Unset \/ arg_cache[a] = cra[a].args
  BY DEF CacheInv
<1>2. Job[j].args = [w \in DOMAIN Job[j].args |-> Job[j].args[w]]
  BY JobAssumption
<1>3. CASE arg_cache[a] = Unset
  BY <1>3 DEF ChangedArgs
<1>4. CASE arg_cache[a] # Unset /\ arg_cache[a] = cra[a].args
  <2>1. ChangedArgs(cra[a].args, arg_cache[a], Job[j].args)
          = [w \in DOMAIN Job[j].args |-> Job[j].args[w]]
    BY <1>4 DEF ChangedArgs
  <2> QED BY <2>1, <1>2
<1> QED BY <1>1, <1>3, <1>4

(* A status only goes down. *)
LEMMA LoweredType ==
    ASSUME NEW st \in [Jobs -> FAILED .. QUEUED], NEW j \in Jobs \cup {NoJob},
           NEW to \in FAILED .. QUEUED
    PROVE  /\ Lowered(st, j, to) \in [Jobs -> FAILED .. QUEUED]
           /\ \A k \in Jobs : k # j => Lowered(st, j, to)[k] = st[k]
           /\ j \in Jobs => Lowered(st, j, to)[j] = IF st[j] > to THEN to ELSE st[j]
BY JobAssumption DEF Lowered, FAILED, QUEUED

(* The accelerator of an invocation. *)
LEMMA AccelOfType ==
    \A j \in Jobs : AccelOf[j] \in Accels /\ AccelOf[j] = Job[j].accel
BY JobAssumption DEF AccelOf

(* The initial state is typed. *)
LEMMA InitType == Init => TypeOK
<1> SUFFICES ASSUME Init PROVE TypeOK
  OBVIOUS
<1>1. (CHOOSE a \in Accels : TRUE) \in Accels
  BY SizeAssumption
<1>2. todo \subseteq Jobs
  BY WorkloadsAssumption DEF Init
<1>3. \A a \in Accels : Size[a] \in Nat \ {0}
  BY SizeAssumption
<1>4. [image |-> DefaultImage, args |-> Unset] \in Registers
  BY DEF Registers, Images
<1>5. exec \in [Jobs -> FAILED .. QUEUED]
  BY DEF Init, FAILED, QUEUED
<1>6. \A a \in Accels : /\ job_ids[a] \in [0 .. Size[a] - 1 -> Jobs \cup {NoJob}]
                         /\ front[a] \in -1 .. Size[a] - 1
                         /\ back[a] \in -1 .. Size[a] - 1
  BY <1>3 DEF Init
<1>7. /\ hw \in [Accels -> Seq([job : Jobs, regs : Registers])]
      /\ cra \in [Accels -> Registers]
      /\ image_cache \in [Accels -> Images]
  <2> DEFINE T == [job : Jobs, regs : Registers]
  <2>1. hw = [a \in Accels |-> <<>>]
    BY DEF Init
  <2> HIDE DEF T
  <2>2. hw \in [Accels -> Seq(T)]
    BY <2>1
  <2>3. cra \in [Accels -> Registers] /\ image_cache \in [Accels -> Images]
    BY <1>4 DEF Init, Images
  <2> QED BY <2>2, <2>3 DEF T
<1>8. host \in [pc : {"idle", "image", "enter", "announce", "start",
                     "dumped", "resume", "unstall"},
               job : Jobs \cup {NoJob}, next : Nat, csr : BOOLEAN]
  BY DEF Init, HostIdle
<1>9. irq \in [pc : {"idle", "pend", "flag", "clear",
                    "retire", "complete", "advance", "next"},
              accel : Accels, next : Nat, finishes : Nat,
              job : Jobs \cup {NoJob}]
  BY <1>1 DEF Init, IrqIdle
<1> QED BY <1>2, <1>5, <1>6, <1>7, <1>8, <1>9 DEF Init, TypeOK

(* Every step keeps the types. *)
LEMMA TypeStep ==
    ASSUME TypeOK, HostInv, IrqInv, CacheInv, [Next]_vars
    PROVE  TypeOK'
<1> USE AccelOfType
<1>0. \A a \in Accels, i \in Int : i \in -1 .. Size[a] - 1 => NextIndex(a, i) \in 0 .. Size[a] - 1 /\ NextIndex(a, i) \in Nat
  BY NextIndexType
<1>s. \A a \in Accels : Size[a] \in Nat \ {0}
  BY SizeAssumption
<1>l. \A j \in Jobs \cup {NoJob}, to \in {RUNNING, COMPLETE, FAILED} :
        Lowered(exec, j, to) \in [Jobs -> FAILED .. QUEUED]
  <2>1. exec \in [Jobs -> FAILED .. QUEUED]
    BY DEF TypeOK
  <2>2. \A to \in {RUNNING, COMPLETE, FAILED} : to \in FAILED .. QUEUED
    BY DEF RUNNING, COMPLETE, FAILED, QUEUED
  <2> QED BY <2>1, <2>2, LoweredType
<1>1. ASSUME NEW j \in Jobs, Launch(j) PROVE TypeOK'
  <2>1. host' = [HostIdle EXCEPT !.pc = "image", !.job = j,
                                !.next = NextIndex(AccelOf[j], front[AccelOf[j]])]
    BY <1>1 DEF Launch
  <2>2. NextIndex(AccelOf[j], front[AccelOf[j]]) \in Nat
    BY <1>0 DEF TypeOK
  <2>3. exec' = [exec EXCEPT ![j] = SUBMITTED] /\ exec' \in [Jobs -> FAILED .. QUEUED]
    BY <1>1 DEF Launch, TypeOK, FAILED, QUEUED, SUBMITTED
  <2>4. todo' \subseteq Jobs
    BY <1>1 DEF Launch, TypeOK
  <2> QED BY <1>1, <2>1, <2>2, <2>3, <2>4, ZenonT(60)
          DEF Launch, TypeOK, HostIdle, ringVars, cacheVars, hwVars
<1>2. CASE WriteImage
  <2> DEFINE j == host.job
             a == AccelOf[j]
  <2>1. j \in Jobs /\ a \in Accels
    BY <1>2 DEF WriteImage, HostInv
  <2>2. cra[a] \in Registers /\ Job[j].args \in {Unset} \cup {Job[i].args : i \in Jobs}
        /\ Job[j].image \in Images
    BY <2>1 DEF TypeOK, Images
  <2>3. PICK image, args :
          /\ cra' = [cra EXCEPT ![a] = [image |-> image, args |-> args]]
          /\ image \in {cra[a].image, Job[j].image}
          /\ args = Job[j].args
    BY <1>2, <2>1, WrittenArgs DEF WriteImage
  <2>4. [image |-> image, args |-> args] \in Registers
    BY <2>2, <2>3 DEF Registers
  <2>5. cra' \in [Accels -> Registers]
    BY <2>1, <2>3, <2>4 DEF TypeOK
  <2>6. host' = [host EXCEPT !.pc = "enter"]
    BY <1>2 DEF WriteImage
  <2>7. image_cache' \in [Accels -> Images] /\ DOMAIN arg_cache' = Accels
    <3>1. CachedImage(a) \in Images
      BY <2>1, <2>2 DEF CachedImage, TypeOK
    <3>2. /\ image_cache' = [image_cache EXCEPT ![a] = CachedImage(a)]
          /\ \/ arg_cache' = arg_cache
             \/ arg_cache' = [arg_cache EXCEPT ![a] = Job[j].args]
      BY <1>2 DEF WriteImage
    <3>3. image_cache \in [Accels -> Images] /\ DOMAIN arg_cache = Accels
      BY DEF TypeOK
    <3> QED BY <3>1, <3>2, <3>3
  <2> QED BY <1>2, <2>5, <2>6, <2>7 DEF WriteImage, TypeOK, opVars, ringVars, hwVars
<1>3. CASE EnterRing
  BY <1>3 DEF EnterRing, TypeOK, opVars, cacheVars, hwVars
<1>4. CASE StoreSeen
  <2>1. unseen \in Jobs /\ AccelOf[unseen] \in Accels
    BY <1>4 DEF StoreSeen, TypeOK
  <2>2. DOMAIN job_ids' = Accels
        /\ \A a \in Accels : job_ids'[a] \in [0 .. Size[a] - 1 -> Jobs \cup {NoJob}]
    BY <1>4, <2>1 DEF StoreSeen, TypeOK
  <2> QED BY <1>4, <2>2 DEF StoreSeen, TypeOK, opVars, cacheVars, hwVars
<1>5. CASE Announce
  <2>1. host.job \in Jobs /\ host.next \in 0 .. Size[AccelOf[host.job]] - 1
    BY <1>5, <1>0, SMTT(40) DEF Announce, HostInv, Launches, TypeOK
  <2>2. exec' \in [Jobs -> FAILED .. QUEUED]
    BY <1>5, <2>1, <1>l DEF Announce, TypeOK
  <2>3. /\ front' \in [Accels -> Int]
        /\ \A a \in Accels : front'[a] \in -1 .. Size[a] - 1
    <3>1. front' = [front EXCEPT ![AccelOf[host.job]] = host.next]
      BY <1>5 DEF Announce
    <3>2. host.next \in Int /\ host.next \in -1 .. Size[AccelOf[host.job]] - 1
      BY <2>1, <1>s
    <3>3. front \in [Accels -> Int] /\ \A a \in Accels : front[a] \in -1 .. Size[a] - 1
      BY DEF TypeOK
    <3> QED BY <3>1, <3>2, <3>3
  <2> QED BY <1>5, <2>2, <2>3 DEF Announce, TypeOK, cacheVars, hwVars
<1>6. CASE WriteStart
  <2>1. host.job \in Jobs /\ AccelOf[host.job] \in Accels
    BY <1>6 DEF WriteStart, HostInv
  <2>2. [job |-> host.job, regs |-> cra[AccelOf[host.job]]] \in [job : Jobs, regs : Registers]
    BY <2>1 DEF TypeOK
  <2>3. hw' \in [Accels -> Seq([job : Jobs, regs : Registers])]
    <3> DEFINE T == [job : Jobs, regs : Registers]
               a == AccelOf[host.job]
               new == [job |-> host.job, regs |-> cra[a]]
    <3>1. hw' = [hw EXCEPT ![a] = Append(hw[a], new)]
      BY <1>6 DEF WriteStart
    <3>2. hw \in [Accels -> Seq(T)] /\ a \in Accels
      BY <2>1 DEF TypeOK
    <3>3. new \in T
      BY <2>2
    <3> HIDE DEF T, new, a
    <3>4. Append(hw[a], new) \in Seq(T)
      BY <3>2, <3>3
    <3>5. hw' \in [Accels -> Seq(T)]
      BY <3>1, <3>2, <3>4
    <3> QED BY <3>5 DEF T
  <2> QED BY <1>6, <2>3 DEF WriteStart, TypeOK, opVars, ringVars, cacheVars, HostIdle
<1>7. ASSUME NEW j \in Jobs, PickUp(j) PROVE TypeOK'
  BY <1>7 DEF PickUp, TypeOK, opVars, ringVars, cacheVars, hwVars, HostIdle
<1>8. CASE ClearPending
  BY <1>8 DEF ClearPending, TypeOK, ringVars, cacheVars, hwVars
<1>9. CASE Resume
  <2>1. host.job \in Jobs /\ AccelOf[host.job] \in Accels
    BY <1>9 DEF Resume, HostInv
  <2>2. \/ host' = HostIdle
        \/ host' = [host EXCEPT !.pc = "unstall", !.csr = stall_bit[AccelOf[host.job]]]
    BY <1>9 DEF Resume
  <2>3. stall_bit[AccelOf[host.job]] \in BOOLEAN
    BY <2>1 DEF TypeOK
  <2>4. host' \in [pc : {"idle", "image", "enter", "announce", "start",
                       "dumped", "resume", "unstall"},
                 job : Jobs \cup {NoJob}, next : Nat, csr : BOOLEAN]
    <3>1. CASE host' = HostIdle
      BY <3>1 DEF HostIdle
    <3>2. CASE host' = [host EXCEPT !.pc = "unstall", !.csr = stall_bit[AccelOf[host.job]]]
      BY <3>2, <2>3 DEF TypeOK
    <3> QED BY <2>2, <3>1, <3>2
  <2> QED BY <1>9, <2>4 DEF Resume, TypeOK, opVars, ringVars, cacheVars
<1>10. CASE Unstall
  BY <1>10 DEF Unstall, TypeOK, opVars, ringVars, cacheVars, HostIdle
<1>11. ASSUME NEW a \in Accels, DebugDump(a) PROVE TypeOK'
  BY <1>11 DEF DebugDump, TypeOK, ringVars, cacheVars, hwVars
<1>12. ASSUME NEW device \in Resets, NEW past \in Stray, Reset(device, past) PROVE TypeOK'
  <2>1. exec' \in [Jobs -> FAILED .. QUEUED]
    <3> DEFINE ended == {past} \cup UNION {Range(job_ids[a]) : a \in device}
    <3>1. exec' = [j \in Jobs |-> IF j \in ended THEN Lowered(exec, j, FAILED)[j] ELSE exec[j]]
      BY <1>12 DEF Reset
    <3>2. \A j \in Jobs : Lowered(exec, j, FAILED)[j] \in FAILED .. QUEUED /\ exec[j] \in FAILED .. QUEUED
      BY <1>l DEF TypeOK
    <3> HIDE DEF ended
    <3> QED BY <3>1, <3>2
  <2>2. DOMAIN job_ids' = Accels
        /\ \A a \in Accels : job_ids'[a] \in [0 .. Size[a] - 1 -> Jobs \cup {NoJob}]
    BY <1>12 DEF Reset, TypeOK
  <2>3. hw' \in [Accels -> Seq([job : Jobs, regs : Registers])]
    <3> DEFINE T == [job : Jobs, regs : Registers]
    <3>1. hw' = [a \in Accels |-> IF a \in device THEN <<>> ELSE hw[a]]
      BY <1>12 DEF Reset
    <3>2. \A a \in Accels : hw[a] \in Seq(T)
      BY DEF TypeOK
    <3> HIDE DEF T
    <3>3. \A a \in Accels : (IF a \in device THEN <<>> ELSE hw[a]) \in Seq(T)
      BY <3>2
    <3>4. hw' \in [Accels -> Seq(T)]
      BY <3>1, <3>3
    <3> QED BY <3>4 DEF T
  <2>4. done' \in [Accels -> Nat] /\ stalled' \in [Accels -> BOOLEAN] /\ stall_bit' \in [Accels -> BOOLEAN]
    BY <1>12 DEF Reset, TypeOK
  <2> QED BY <1>12, <2>1, <2>2, <2>3, <2>4 DEF Reset, TypeOK, cacheVars
<1>13. ASSUME NEW a \in Accels, Query(a) PROVE TypeOK'
  <2> DEFINE next == NextEntry(a)
             entered == [IrqIdle(a) EXCEPT !.next = next, !.job = job_ids[a][next]]
  <2>1. next \in 0 .. Size[a] - 1 /\ next \in Nat
    BY <1>0 DEF NextEntry, TypeOK
  <2>2. job_ids[a][next] \in Jobs \cup {NoJob}
    BY <2>1 DEF TypeOK
  <2>3. done[a] \in Nat
    BY DEF TypeOK
  <2>4. \E n \in Nat, pc \in {"pend", "retire"} : irq' = [pc |-> pc, accel |-> a, next |-> next, finishes |-> n, job |-> job_ids[a][next]]
    BY <1>13, <2>3, ZenonT(60) DEF Query, IrqIdle
  <2> HIDE DEF next
  <2>5. irq' \in [pc : {"idle", "pend", "flag", "clear",
                      "retire", "complete", "advance", "next"},
                accel : Accels, next : Nat, finishes : Nat,
                job : Jobs \cup {NoJob}]
    BY <2>1, <2>2, <2>4
  <2>6. done' \in [Accels -> Nat]
    <3>1. done' = done \/ done' = [done EXCEPT ![a] = 0]
      BY <1>13 DEF Query
    <3>2. done \in [Accels -> Nat]
      BY DEF TypeOK
    <3> QED BY <3>1, <3>2
  <2> QED BY <1>13, <2>5, <2>6 DEF Query, TypeOK, opVars, ringVars, cacheVars
<1>14. CASE PendStall
  BY <1>14 DEF PendStall, TypeOK, IrqInv, ringVars, cacheVars, hwVars
<1>15. CASE FlagStall
  BY <1>15 DEF FlagStall, TypeOK, IrqInv, ringVars, cacheVars, hwVars
<1>16. CASE ClearStallBit
  BY <1>16 DEF ClearStallBit, TypeOK, IrqIdle, opVars, ringVars, cacheVars
<1>17. CASE Retire
  <2>1. irq.accel \in Accels /\ irq.next \in 0 .. Size[irq.accel] - 1
    BY <1>17, <1>0 DEF Retire, TypeOK, IrqInv, Delivers
  <2>2. job_ids[irq.accel][irq.next] \in Jobs \cup {NoJob}
    BY <2>1, ZenonT(60) DEF TypeOK
  <2>3. DOMAIN job_ids' = Accels
        /\ \A a \in Accels : job_ids'[a] \in [0 .. Size[a] - 1 -> Jobs \cup {NoJob}]
    BY <1>17, <2>1 DEF Retire, EmptiedEntry, TypeOK
  <2> QED BY <1>17, <2>2, <2>3 DEF Retire, TypeOK, opVars, cacheVars, hwVars
<1>18. CASE Complete
  <2>1. exec' \in [Jobs -> FAILED .. QUEUED]
    BY <1>18, <1>l DEF Complete, TypeOK
  <2>2. done' \in [Accels -> Nat]
    BY <1>18 DEF Complete, TypeOK
  <2>3. pending' \in [Jobs -> BOOLEAN] /\ debug' \in [Jobs -> BOOLEAN]
    BY <1>18 DEF Complete, TypeOK
  <2> QED BY <1>18, <2>1, <2>2, <2>3 DEF Complete, TypeOK, ringVars, cacheVars
<1>19. CASE Advance
  <2>1. irq.accel \in Accels /\ irq.next \in 0 .. Size[irq.accel] - 1
    BY <1>19, <1>0 DEF Advance, TypeOK, IrqInv, Delivers
  <2>2. NextIndex(irq.accel, irq.next) \in Nat
    BY <2>1, <1>0, <1>s
  <2>3. back' \in [Accels -> Int] /\ \A a \in Accels : back'[a] \in -1 .. Size[a] - 1
    <3>1. back' = [back EXCEPT ![irq.accel] = irq.next]
      BY <1>19 DEF Advance, NewBack
    <3>2. irq.next \in Int /\ irq.next \in -1 .. Size[irq.accel] - 1
      BY <2>1, <1>s
    <3>3. back \in [Accels -> Int] /\ \A a \in Accels : back[a] \in -1 .. Size[a] - 1
      BY DEF TypeOK
    <3> QED BY <3>1, <3>2, <3>3
  <2> QED BY <1>19, <2>2, <2>3 DEF Advance, TypeOK, opVars, cacheVars, hwVars
<1>20. CASE AnnounceNext
  <2>1. irq.accel \in Accels /\ irq.next \in 0 .. Size[irq.accel] - 1
    BY <1>20, <1>0 DEF AnnounceNext, TypeOK, IrqInv, Delivers
  <2>2. job_ids[irq.accel][irq.next] \in Jobs \cup {NoJob}
    BY <2>1 DEF TypeOK
  <2>3. exec' \in [Jobs -> FAILED .. QUEUED]
    BY <1>20, <2>2, <1>l DEF AnnounceNext
  <2>4. \/ irq' = IrqIdle(irq.accel)
        \/ irq.finishes > 1 /\ irq' = [irq EXCEPT !.pc = "retire", !.finishes = irq.finishes - 1]
    BY <1>20 DEF AnnounceNext, MoreFinishes
  <2>5. irq' \in [pc : {"idle", "pend", "flag", "clear",
                      "retire", "complete", "advance", "next"},
                accel : Accels, next : Nat, finishes : Nat,
                job : Jobs \cup {NoJob}]
    <3>1. CASE irq' = IrqIdle(irq.accel)
      BY <2>1, <3>1 DEF IrqIdle
    <3>2. CASE irq.finishes > 1 /\ irq' = [irq EXCEPT !.pc = "retire", !.finishes = irq.finishes - 1]
      <4>1. irq.finishes \in Nat /\ irq.finishes - 1 \in Nat
        BY <3>2 DEF TypeOK
      <4> QED BY <3>2, <4>1 DEF TypeOK
    <3> QED BY <2>4, <3>1, <3>2
  <2> QED BY <1>20, <2>3, <2>5 DEF AnnounceNext, TypeOK, ringVars, cacheVars, hwVars
<1>21. ASSUME NEW a \in Accels, Finish(a) PROVE TypeOK'
  <2>1. hw' \in [Accels -> Seq([job : Jobs, regs : Registers])] /\ done' \in [Accels -> Nat]
    <3> DEFINE T == [job : Jobs, regs : Registers]
    <3>1. /\ hw' = [hw EXCEPT ![a] = Tail(hw[a])] /\ hw[a] # <<>>
          /\ done' = [done EXCEPT ![a] = done[a] + 1]
      BY <1>21 DEF Finish
    <3>2. hw \in [Accels -> Seq(T)] /\ done \in [Accels -> Nat]
      BY DEF TypeOK
    <3> HIDE DEF T
    <3>3. Tail(hw[a]) \in Seq(T) /\ done[a] + 1 \in Nat
      BY <3>1, <3>2
    <3>4. hw' \in [Accels -> Seq(T)] /\ done' \in [Accels -> Nat]
      BY <3>1, <3>2, <3>3
    <3> QED BY <3>4 DEF T
  <2> QED BY <1>21, <2>1 DEF Finish, TypeOK, opVars, ringVars, cacheVars
<1>22. ASSUME NEW a \in Accels, Stall(a) PROVE TypeOK'
  <2>1. /\ stalled' = [stalled EXCEPT ![a] = TRUE]
        /\ stall_bit' = [stall_bit EXCEPT ![a] = TRUE]
        /\ stalls' = [stalls EXCEPT ![a] = stalls[a] + 1]
    BY <1>22 DEF Stall
  <2>2. /\ stalled' \in [Accels -> BOOLEAN] /\ stall_bit' \in [Accels -> BOOLEAN]
        /\ stalls' \in [Accels -> Nat]
    <3>1. stalled' \in [Accels -> BOOLEAN] /\ stall_bit' \in [Accels -> BOOLEAN]
      BY <2>1 DEF TypeOK
    <3>2. stalls \in [Accels -> Nat] /\ stalls[a] + 1 \in Nat
      BY SMTT(40) DEF TypeOK
    <3>3. stalls' \in [Accels -> Nat]
      BY <2>1, <3>2
    <3> QED BY <3>1, <3>3
  <2> QED BY <1>22, <2>2 DEF Stall, TypeOK, opVars, ringVars, cacheVars
<1>23. CASE UNCHANGED vars
  BY <1>23, ZenonT(60) DEF TypeOK, vars, opVars, ringVars, cacheVars, hwVars
<1> QED
  BY <1>1, <1>2, <1>3, <1>4, <1>5, <1>6, <1>7, <1>8, <1>9, <1>10, <1>11, <1>12,
     <1>13, <1>14, <1>15, <1>16, <1>17, <1>18, <1>19, <1>20, <1>21, <1>22, <1>23
     DEF Next, Host, Handler

-----------------------------------------------------------------------------
(* The host thread, the handler and the caches, each by itself.             *)

(* What each thread leaves to the other. *)
LEMMA ThreadFrames ==
    ASSUME [Next]_vars
    PROVE  /\ \/ Host \/ StoreSeen
              \/ UNCHANGED <<host, front, unseen, cacheVars, todo>>
           /\ \/ Handler
              \/ UNCHANGED <<irq, back>>
<1> USE DEF ringVars, cacheVars, hwVars, opVars
<1>1. CASE Host
  BY <1>1, Zenon
  DEF Host, Launch, PickUp, WriteImage, EnterRing, Announce, WriteStart,
              ClearPending, Resume, Unstall
<1>2. CASE Handler
  BY <1>2, Zenon
  DEF Handler, Query, PendStall, FlagStall, ClearStallBit, Retire, Complete,
              Advance, AnnounceNext
<1>3. CASE StoreSeen
  BY <1>3 DEF StoreSeen
<1>4. ASSUME NEW a \in Accels, DebugDump(a) \/ Finish(a) \/ Stall(a)
      PROVE  UNCHANGED <<host, front, unseen, cacheVars, todo>> /\ UNCHANGED <<irq, back>>
  BY <1>4 DEF DebugDump, Finish, Stall
<1>5. ASSUME NEW device \in Resets, NEW past \in Stray, Reset(device, past)
      PROVE  UNCHANGED <<host, front, unseen, cacheVars, todo>> /\ UNCHANGED <<irq, back>>
  BY <1>5 DEF Reset
<1>6. CASE UNCHANGED vars
  BY <1>6 DEF vars
<1> QED BY <1>1, <1>2, <1>3, <1>4, <1>5, <1>6 DEF Next

(* The store of an entry is on its way only while its launch is at the steps *)
(* behind it, at the index the launch took from the newest one.              *)
LEMMA HostStep ==
    ASSUME TypeOK, HostInv, [Next]_vars
    PROVE  HostInv'
<1> USE AccelOfType
<1>1. ASSUME NEW j \in Jobs, Launch(j) PROVE HostInv'
  BY <1>1 DEF Launch, HostInv, HostIdle, Launches, TypeOK, ringVars
<1>2. CASE WriteImage
  BY <1>2 DEF WriteImage, HostInv, Launches, TypeOK, ringVars
<1>3. CASE EnterRing
  BY <1>3 DEF EnterRing, HostInv, Launches, TypeOK
<1>4. CASE StoreSeen
  BY <1>4 DEF StoreSeen, HostInv, Launches, TypeOK
<1>5. CASE Announce
  BY <1>5 DEF Announce, HostInv, Launches, TypeOK
<1>6. CASE WriteStart
  BY <1>6 DEF WriteStart, HostInv, HostIdle, Launches, TypeOK, ringVars
<1>7. ASSUME NEW j \in Jobs, PickUp(j) PROVE HostInv'
  BY <1>7 DEF PickUp, HostInv, HostIdle, Launches, TypeOK, ringVars
<1>8. CASE ClearPending
  BY <1>8 DEF ClearPending, HostInv, Launches, TypeOK, ringVars
<1>9. CASE Resume
  <2>1. \/ host' = HostIdle
        \/ host' = [host EXCEPT !.pc = "unstall", !.csr = stall_bit[AccelOf[host.job]]]
    BY <1>9 DEF Resume
  <2>2. host'.pc \in {"idle", "unstall"} /\ (host'.pc # "idle" => host'.job = host.job)
    <3>1. CASE host' = HostIdle
      BY <3>1 DEF HostIdle
    <3>2. CASE host' = [host EXCEPT !.pc = "unstall", !.csr = stall_bit[AccelOf[host.job]]]
      BY <3>2 DEF TypeOK
    <3> QED BY <2>1, <3>1, <3>2
  <2>3. host.pc = "resume" /\ unseen' = unseen
    BY <1>9 DEF Resume, ringVars
  <2> QED BY <2>2, <2>3 DEF HostInv, Launches
<1>10. CASE Unstall
  BY <1>10 DEF Unstall, HostInv, HostIdle, Launches, TypeOK, ringVars
<1>11. CASE UNCHANGED <<host, front, unseen, cacheVars, todo>>
  BY <1>11 DEF HostInv
<1> QED
  BY <1>1, <1>2, <1>3, <1>4, <1>5, <1>6, <1>7, <1>8, <1>9, <1>10, <1>11, ThreadFrames
     DEF Host

(* The handler retires at the entry behind the last one it has retired.      *)
LEMMA IrqStep ==
    ASSUME TypeOK, IrqInv, [Next]_vars
    PROVE  IrqInv'
<1>1. ASSUME NEW a \in Accels, Query(a) PROVE IrqInv'
  <2> DEFINE next == NextEntry(a)
  <2>1. \/ irq' = [pc |-> "pend", accel |-> a, next |-> next, finishes |-> 0, job |-> job_ids[a][next]]
        \/ /\ irq' = [pc |-> "retire", accel |-> a, next |-> next,
                      finishes |-> IF a \in Csr181 THEN 1 ELSE done[a], job |-> job_ids[a][next]]
           /\ done[a] > 0
    BY <1>1, ZenonT(60) DEF Query, IrqIdle
  <2>2. next \in 0 .. Size[a] - 1 /\ job_ids[a][next] \in Jobs
    <3>1. next \in 0 .. Size[a] - 1
      BY NextIndexType DEF NextEntry, TypeOK
    <3>2. job_ids[a] \in [0 .. Size[a] - 1 -> Jobs \cup {NoJob}]
      BY DEF TypeOK
    <3> QED BY <1>1, <3>1, <3>2 DEF Query
  <2>3. back' = back
    BY <1>1 DEF Query, ringVars
  <2> QED BY <2>1, <2>2, <2>3 DEF IrqInv, Delivers, NextEntry
<1>2. CASE PendStall
  BY <1>2 DEF PendStall, IrqInv, Delivers, TypeOK, ringVars
<1>3. CASE FlagStall
  BY <1>3 DEF FlagStall, IrqInv, Delivers, TypeOK, ringVars
<1>4. CASE ClearStallBit
  BY <1>4 DEF ClearStallBit, IrqIdle, IrqInv, Delivers, TypeOK, ringVars
<1>5. CASE Retire
  BY <1>5 DEF Retire, IrqInv, Delivers, TypeOK, ringVars
<1>6. CASE Complete
  BY <1>6 DEF Complete, IrqInv, Delivers, TypeOK, ringVars
<1>7. CASE Advance
  BY <1>7 DEF Advance, NewBack, IrqInv, Delivers, TypeOK, ringVars
<1>8. CASE AnnounceNext
  <2>1. \/ irq' = IrqIdle(irq.accel)
        \/ irq.finishes > 1 /\ irq' = [irq EXCEPT !.pc = "retire", !.finishes = irq.finishes - 1]
    BY <1>8 DEF AnnounceNext, MoreFinishes
  <2>2. back' = back /\ irq.pc = "next"
    BY <1>8 DEF AnnounceNext, ringVars
  <2>3. CASE irq' = IrqIdle(irq.accel)
    BY <2>3 DEF IrqIdle, IrqInv, Delivers
  <2>4. CASE irq.finishes > 1 /\ irq' = [irq EXCEPT !.pc = "retire", !.finishes = irq.finishes - 1]
    <3>1. /\ irq'.pc = "retire" /\ irq'.accel = irq.accel /\ irq'.next = irq.next
          /\ irq'.finishes = irq.finishes - 1 /\ irq.finishes \in Nat
      BY <2>4 DEF TypeOK
    <3> QED BY <2>2, <2>4, <3>1 DEF IrqInv, Delivers
  <2> QED BY <2>1, <2>3, <2>4
<1>9. CASE UNCHANGED <<irq, back>>
  BY <1>9 DEF IrqInv
<1> QED
  BY <1>1, <1>2, <1>3, <1>4, <1>5, <1>6, <1>7, <1>8, <1>9, ThreadFrames DEF Handler

(* The cached image and arguments are those in the registers, and once a     *)
(* launch has written them they are its own.                                 *)
LEMMA CacheStep ==
    ASSUME TypeOK, HostInv, CacheInv, [Next]_vars
    PROVE  CacheInv'
<1> USE AccelOfType
<1>1. CASE WriteImage
  <2> DEFINE j == host.job
             at == AccelOf[j]
             image == IF at \in Streaming \/ (at \notin Csr181 /\ image_cache[at] = Job[j].image)
                      THEN cra[at].image ELSE Job[j].image
  <2>1. j \in Jobs /\ at \in Accels
    BY <1>1 DEF WriteImage, HostInv
  <2>2. /\ cra' = [cra EXCEPT ![at] = [image |-> image, args |-> Job[j].args]]
        /\ image_cache' = [image_cache EXCEPT ![at] = CachedImage(at)]
        /\ arg_cache' = IF at \in Csr181 THEN arg_cache
                        ELSE [arg_cache EXCEPT ![at] = Job[j].args]
        /\ host' = [host EXCEPT !.pc = "enter"]
    BY <1>1, <2>1, WrittenArgs DEF WriteImage
  <2>3. at \notin Streaming => image = Job[j].image
    BY <2>1 DEF CacheInv
  <2>4. cra'[at] = [image |-> image, args |-> Job[j].args]
        /\ \A a \in Accels : a # at => cra'[a] = cra[a]
    BY <2>1, <2>2 DEF TypeOK
  <2>5. at \notin Streaming \cup Csr181 => CachedImage(at) = Job[j].image
    BY DEF CachedImage
  <2>6. host'.job = j
    BY <2>2 DEF TypeOK
  <2> SUFFICES ASSUME NEW a \in Accels
               PROVE  /\ a \notin Streaming \cup Csr181 => image_cache'[a] = cra'[a].image
                      /\ a \notin Csr181 => arg_cache'[a] \in {Unset, cra'[a].args}
                      /\ AccelOf[host'.job] = a =>
                           /\ a \notin Streaming => cra'[a].image = Job[host'.job].image
                           /\ cra'[a].args = Job[host'.job].args
    BY DEF CacheInv
  <2> HIDE DEF image, at, j
  <2>7. CASE a = at
    <3>1. image_cache'[a] = CachedImage(at)
      BY <2>2, <2>7, <2>1 DEF TypeOK
    <3>2. a \notin Csr181 => arg_cache'[a] = Job[j].args
      BY <2>2, <2>7, <2>1 DEF TypeOK
    <3> QED BY <2>7, <3>1, <3>2, <2>3, <2>4, <2>5, <2>6
  <2>8. CASE a # at
    <3>1. image_cache'[a] = image_cache[a] /\ arg_cache'[a] = arg_cache[a] /\ cra'[a] = cra[a]
      BY <2>2, <2>4, <2>8, <2>1 DEF TypeOK
    <3> QED BY <2>8, <3>1, <2>6 DEF CacheInv, at
  <2> QED BY <2>7, <2>8
<1>2. ASSUME UNCHANGED cacheVars,
             \/ host'.pc \notin {"enter", "announce", "start"}
             \/ host.pc \in {"enter", "announce", "start"} /\ host'.job = host.job
      PROVE  CacheInv'
  BY <1>2 DEF CacheInv, cacheVars
<1>3. ASSUME Host, ~WriteImage PROVE CacheInv'
  <2>1. UNCHANGED cacheVars
    BY <1>3, Zenon
    DEF Host, Launch, PickUp, EnterRing, Announce, WriteStart, ClearPending, Resume, Unstall
  <2>2. \/ host'.pc \notin {"enter", "announce", "start"}
        \/ host.pc \in {"enter", "announce", "start"} /\ host'.job = host.job
    <3>1. CASE EnterRing \/ Announce \/ ClearPending
      BY <3>1 DEF EnterRing, Announce, ClearPending, TypeOK
    <3>2. CASE WriteStart \/ Unstall \/ Resume
      <4>1. \/ host' = HostIdle
            \/ host' = [host EXCEPT !.pc = "unstall", !.csr = stall_bit[AccelOf[host.job]]]
        BY <3>2 DEF WriteStart, Unstall, Resume
      <4>2. CASE host' = HostIdle
        BY <4>2 DEF HostIdle
      <4>3. CASE host' = [host EXCEPT !.pc = "unstall", !.csr = stall_bit[AccelOf[host.job]]]
        BY <4>3 DEF TypeOK
      <4> QED BY <4>1, <4>2, <4>3
    <3>3. ASSUME NEW j \in Jobs, Launch(j) \/ PickUp(j) PROVE host'.pc \in {"image", "dumped"}
      BY <3>3 DEF Launch, PickUp, HostIdle
    <3> QED BY <1>3, <3>1, <3>2, <3>3 DEF Host
  <2> QED BY <1>2, <2>1, <2>2, Zenon
<1>4. CASE StoreSeen
  BY <1>4, <1>2 DEF StoreSeen
<1>5. CASE UNCHANGED <<host, front, unseen, cacheVars, todo>>
  BY <1>5, <1>2
<1> QED BY <1>1, <1>3, <1>4, <1>5, ThreadFrames

-----------------------------------------------------------------------------
(* What the ring of an accelerator holds, from step to step.                 *)

(* The ring is indexed by its entries. *)
LEMMA CellsType ==
    ASSUME TypeOK, HostInv, IrqInv, NEW a \in Accels
    PROVE  /\ Size[a] \in Nat \ {0}
           /\ Cells(a) \in [0 .. Size[a] - 1 -> Jobs \cup {NoJob}]
           /\ Oldest(a) \in 0 .. Size[a] - 1
<1>1. Size[a] \in Nat \ {0}
  BY SizeAssumption
<1>2. job_ids[a] \in [0 .. Size[a] - 1 -> Jobs \cup {NoJob}] /\ back[a] \in -1 .. Size[a] - 1
  BY DEF TypeOK
<1>3. NextIndex(a, back[a]) \in 0 .. Size[a] - 1
  BY <1>2, NextIndexType
<1>4. irq.accel = a /\ irq.pc \in {"complete", "advance"} => irq.next \in -1 .. Size[a] - 1
  BY <1>1, <1>3 DEF IrqInv, Delivers
<1>5. Oldest(a) \in 0 .. Size[a] - 1
  BY <1>3, <1>4, NextIndexType DEF Oldest
<1>6. unseen \in Jobs \cup {NoJob}
  BY DEF TypeOK
<1>7. Cells(a) \in [0 .. Size[a] - 1 -> Jobs \cup {NoJob}]
  BY <1>2, <1>6 DEF Cells
<1> QED BY <1>1, <1>5, <1>7

(* A ring that was emptied by a reset holds nothing. *)
LEMMA DownIsEmpty ==
    ASSUME TypeOK, HostInv, IrqInv, NEW a \in Accels, RingDown(a)
    PROVE  Held(a) = <<>> /\ ~Launching(a) /\ ~Entered(a)
<1>1. ~Launching(a) /\ ~Entered(a)
  BY DEF RingDown, Launching, Entered, Launches
<1>2. unseen # NoJob => AccelOf[unseen] # a
  BY DEF HostInv, RingDown, Launches
<1>3. \A i \in 0 .. Size[a] - 1 : Cells(a)[i] = NoJob
  BY <1>2 DEF Cells, RingDown, TypeOK
<1>4. Layout(Cells(a), Oldest(a), Size[a], <<>>)
  BY <1>3, CellsType, EmptyLayout
<1>5. Held(a) = <<>>
  <2>1. <<>> \in Seq(Jobs)
    OBVIOUS
  <2> QED BY <1>4, <2>1, CellsType, EntriesAre DEF Held
<1> QED BY <1>1, <1>5

(* It stays so, for nothing is launched after a reset. *)
LEMMA RingDownStep ==
    ASSUME TypeOK, HostInv, IrqInv, [Next]_vars, NEW a \in Accels, RingDown(a)
    PROVE  RingDown(a)'
<1> USE DEF opVars, ringVars, cacheVars, hwVars, RingDown
<1>1. ASSUME NEW j \in Jobs, Launch(j) PROVE FALSE
  BY <1>1 DEF Launch
<1>2. CASE WriteImage \/ EnterRing \/ Announce \/ ClearPending
  BY <1>2 DEF WriteImage, EnterRing, Announce, ClearPending, TypeOK, Launches
<1>3. CASE StoreSeen
  <2>1. AccelOf[unseen] # a
    BY <1>3 DEF StoreSeen, HostInv, Launches
  <2>2. job_ids'[a] = job_ids[a]
    BY <1>3, <2>1 DEF StoreSeen, TypeOK
  <2> QED BY <1>3, <2>2 DEF StoreSeen
<1>4. CASE WriteStart
  <2>1. AccelOf[host.job] # a
    BY <1>4 DEF WriteStart, Launches
  <2>2. hw'[a] = hw[a]
    BY <1>4, <2>1 DEF WriteStart, TypeOK
  <2> QED BY <1>4, <2>2 DEF WriteStart, HostIdle, Launches
<1>5. ASSUME NEW j \in Jobs, PickUp(j) PROVE RingDown(a)'
  BY <1>5 DEF PickUp, HostIdle, Launches
<1>6. CASE Resume
  <2>1. \/ host' = HostIdle
        \/ host' = [host EXCEPT !.pc = "unstall", !.csr = stall_bit[AccelOf[host.job]]]
    BY <1>6 DEF Resume
  <2>2. host'.pc \notin Launches
    <3>1. CASE host' = HostIdle
      BY <3>1 DEF HostIdle, Launches
    <3>2. CASE host' = [host EXCEPT !.pc = "unstall", !.csr = stall_bit[AccelOf[host.job]]]
      BY <3>2 DEF TypeOK, Launches
    <3> QED BY <2>1, <3>1, <3>2
  <2> QED BY <1>6, <2>2 DEF Resume
<1>7. CASE Unstall
  BY <1>7 DEF Unstall, HostIdle, Launches
<1>8. ASSUME NEW b \in Accels, DebugDump(b) \/ Stall(b) PROVE RingDown(a)'
  BY <1>8 DEF DebugDump, Stall
<1>9. ASSUME NEW b \in Accels, Finish(b) PROVE RingDown(a)'
  <2>1. b # a
    BY <1>9 DEF Finish
  <2>2. hw'[a] = hw[a] /\ done'[a] = done[a]
    BY <1>9, <2>1 DEF Finish, TypeOK
  <2> QED BY <1>9, <2>2 DEF Finish
<1>10. ASSUME NEW device \in Resets, NEW past \in Stray, Reset(device, past) PROVE RingDown(a)'
  <2>1. hw'[a] = <<>> /\ done'[a] = 0
    BY <1>10 DEF Reset
  <2>2. \A i \in DOMAIN job_ids'[a] : job_ids'[a][i] = NoJob
    BY <1>10 DEF Reset
  <2> QED BY <1>10, <2>1, <2>2 DEF Reset
<1>11. ASSUME NEW b \in Accels, Query(b) PROVE RingDown(a)'
  <2>1. done'[a] = 0
    BY <1>11 DEF Query, TypeOK
  <2> QED BY <1>11, <2>1 DEF Query
<1>12. CASE PendStall \/ FlagStall \/ ClearStallBit \/ Advance \/ AnnounceNext
  BY <1>12 DEF PendStall, FlagStall, ClearStallBit, Advance, AnnounceNext
<1>13. CASE Retire
  <2>1. \A i \in DOMAIN job_ids'[a] : job_ids'[a][i] = NoJob
    BY <1>13 DEF Retire, EmptiedEntry, TypeOK
  <2> QED BY <1>13, <2>1 DEF Retire
<1>14. CASE Complete
  <2>1. done'[a] = 0
    BY <1>14 DEF Complete, TypeOK
  <2> QED BY <1>14, <2>1 DEF Complete
<1>15. CASE UNCHANGED vars
  BY <1>15 DEF vars
<1> QED
  BY <1>1, <1>2, <1>3, <1>4, <1>5, <1>6, <1>7, <1>8, <1>9, <1>10, <1>11, <1>12, <1>13,
     <1>14, <1>15 DEF Next, Host, Handler

(* Only entering, retiring and resetting change what a ring holds; a store   *)
(* that becomes visible does not.                                            *)
LEMMA CellsKept ==
    ASSUME TypeOK, HostInv, IrqInv, [Next]_vars, ~EnterRing, ~Retire,
           \A device \in Resets, past \in Stray : ~Reset(device, past)
    PROVE  \A a \in Accels : /\ Cells(a)' = Cells(a) /\ Oldest(a)' = Oldest(a)
                             /\ Held(a)' = Held(a)
<1> SUFFICES \A a \in Accels : Cells(a)' = Cells(a) /\ Oldest(a)' = Oldest(a)
  BY DEF Held
<1> USE DEF opVars, ringVars, cacheVars, hwVars
<1>1. ASSUME job_ids' = job_ids, unseen' = unseen, unseen = NoJob \/ host'.next = host.next
      PROVE  \A a \in Accels : Cells(a)' = Cells(a)
  BY <1>1 DEF Cells
<1>2. ASSUME UNCHANGED <<irq, back>>
      PROVE  \A a \in Accels : Oldest(a)' = Oldest(a)
  BY <1>2 DEF Oldest
<1>3. ASSUME UNCHANGED <<job_ids, unseen, host>>
      PROVE  \A a \in Accels : Cells(a)' = Cells(a)
  BY <1>3 DEF Cells
<1>4. ASSUME NEW j \in Jobs, Launch(j) \/ PickUp(j)
      PROVE  \A a \in Accels : Cells(a)' = Cells(a) /\ Oldest(a)' = Oldest(a)
  BY <1>1, <1>2, <1>4 DEF Launch, PickUp, HostInv
<1>5. CASE WriteImage \/ Announce
  BY <1>1, <1>2, <1>5 DEF WriteImage, Announce, TypeOK
<1>6. CASE WriteStart \/ ClearPending \/ Resume \/ Unstall
  BY <1>1, <1>2, <1>6 DEF WriteStart, ClearPending, Resume, Unstall, HostInv
<1>7. CASE StoreSeen
  <2>1. \A a \in Accels : Cells(a)' = Cells(a)
    <3> SUFFICES ASSUME NEW a \in Accels PROVE Cells(a)' = Cells(a)
      OBVIOUS
    <3>1. job_ids' = [job_ids EXCEPT ![AccelOf[unseen]] = [job_ids[AccelOf[unseen]] EXCEPT ![host.next] = unseen]]
          /\ unseen' = NoJob /\ host' = host /\ unseen # NoJob
      BY <1>7 DEF StoreSeen
    <3>2. CASE AccelOf[unseen] = a
      <4>1. job_ids'[a] = [job_ids[a] EXCEPT ![host.next] = unseen]
        BY <3>1, <3>2 DEF TypeOK
      <4> QED BY <3>1, <3>2, <4>1 DEF Cells
    <3>3. CASE AccelOf[unseen] # a
      <4>1. job_ids'[a] = job_ids[a]
        BY <3>1, <3>3 DEF TypeOK
      <4> QED BY <3>1, <3>3, <4>1 DEF Cells
    <3> QED BY <3>2, <3>3
  <2> QED BY <1>2, <1>7, <2>1 DEF StoreSeen
<1>8. ASSUME NEW b \in Accels, DebugDump(b) \/ Stall(b) \/ Finish(b)
      PROVE  \A a \in Accels : Cells(a)' = Cells(a) /\ Oldest(a)' = Oldest(a)
  BY <1>2, <1>3, <1>8 DEF DebugDump, Stall, Finish
<1>9. ASSUME NEW b \in Accels, Query(b)
      PROVE  \A a \in Accels : Cells(a)' = Cells(a) /\ Oldest(a)' = Oldest(a)
  <2>1. irq.pc = "idle" /\ irq'.pc \in {"pend", "retire"} /\ back' = back
    BY <1>9 DEF Query, IrqIdle
  <2>2. \A a \in Accels : Oldest(a)' = Oldest(a)
    BY <2>1 DEF Oldest
  <2> QED BY <1>3, <1>9, <2>2 DEF Query
<1>10. CASE PendStall \/ FlagStall \/ ClearStallBit \/ AnnounceNext
  <2>1. irq.pc \notin {"complete", "advance"} /\ irq'.pc \notin {"complete", "advance"} /\ back' = back
    <3>1. \/ irq' = IrqIdle(irq.accel)
          \/ irq' = [irq EXCEPT !.pc = "flag"]
          \/ irq' = [irq EXCEPT !.pc = "clear"]
          \/ irq' = [irq EXCEPT !.pc = "retire", !.finishes = irq.finishes - 1]
      BY <1>10 DEF PendStall, FlagStall, ClearStallBit, AnnounceNext
    <3>2. irq'.pc \in {"idle", "flag", "clear", "retire"}
      <4>1. CASE irq' = IrqIdle(irq.accel)
        BY <4>1 DEF IrqIdle
      <4>2. CASE irq' # IrqIdle(irq.accel)
        BY <3>1, <4>2 DEF TypeOK
      <4> QED BY <4>1, <4>2
    <3> QED BY <1>10, <3>2 DEF PendStall, FlagStall, ClearStallBit, AnnounceNext
  <2>2. \A a \in Accels : Oldest(a)' = Oldest(a)
    BY <2>1 DEF Oldest
  <2> QED BY <1>3, <1>10, <2>2 DEF PendStall, FlagStall, ClearStallBit, AnnounceNext
<1>11. CASE Complete
  <2>1. irq.pc = "complete" /\ irq' = [irq EXCEPT !.pc = "advance"] /\ back' = back
    BY <1>11 DEF Complete
  <2>2. \A a \in Accels : Oldest(a)' = Oldest(a)
    BY <2>1 DEF Oldest, TypeOK
  <2> QED BY <1>3, <1>11, <2>2 DEF Complete
<1>12. CASE Advance
  <2>1. /\ irq.pc = "advance" /\ back' = [back EXCEPT ![irq.accel] = irq.next]
        /\ irq'.pc = "next" /\ irq'.accel = irq.accel
    BY <1>12 DEF Advance, NewBack, TypeOK
  <2>2. \A a \in Accels : Oldest(a)' = Oldest(a)
    BY <2>1 DEF Oldest, TypeOK
  <2> QED BY <1>3, <1>12, <2>2 DEF Advance
<1>13. CASE UNCHANGED vars
  BY <1>2, <1>3, <1>13 DEF vars
<1> QED
  BY <1>4, <1>5, <1>6, <1>7, <1>8, <1>9, <1>10, <1>11, <1>12, <1>13
     DEF Next, Host, Handler

(* What the handler has taken over from the accelerator does not change      *)
(* when the steps of the handler count it down.                              *)
LEMMA WaitingType ==
    ASSUME TypeOK, IrqInv, NEW a \in Accels
    PROVE  Waiting(a) \in Nat
<1>1. done[a] \in Nat /\ irq.finishes \in Nat
  BY DEF TypeOK
<1>2. irq.pc \in Delivers => irq.finishes - 1 \in Nat
  BY <1>1 DEF IrqInv
<1> QED BY <1>1, <1>2 DEF Waiting

(* How many invocations an accelerator has been started with. *)
LEMMA StartedType ==
    ASSUME TypeOK, NEW a \in Accels
    PROVE  Len(hw[a]) \in Nat
<1> DEFINE T == [job : Jobs, regs : Registers]
<1>1. hw[a] \in Seq(T)
  BY DEF TypeOK
<1> HIDE DEF T
<1> QED BY <1>1

(* A launch enters its invocation behind the newest. *)
LEMMA EnterStep ==
    ASSUME TypeOK, HostInv, IrqInv, TypeOK', HostInv', IrqInv', QueueInv,
           EnterRing, NEW a \in Accels, RingUp(a)
    PROVE  /\ RingUp(a)'
           /\ Held(a)' = IF AccelOf[host.job] = a THEN Append(Held(a), host.job) ELSE Held(a)
<1> USE DEF opVars, ringVars, cacheVars, hwVars
<1> DEFINE q == Held(a)
<1>1. /\ host.pc = "enter" /\ unseen' = host.job /\ host' = [host EXCEPT !.pc = "announce"]
      /\ UNCHANGED <<todo, job_ids, front, back, hw, done, irq>>
  BY DEF EnterRing
<1>2. /\ host'.pc = "announce" /\ host'.job = host.job /\ host'.next = host.next
      /\ host.job \in Jobs
  BY <1>1 DEF TypeOK, HostInv
<1>3. unseen = NoJob
  BY <1>1 DEF HostInv
<1>4. Oldest(a)' = Oldest(a) /\ Waiting(a)' = Waiting(a) /\ ~Entered(a) /\ ~Unannounced(a)
  BY <1>1 DEF Oldest, Waiting, Entered, Unannounced
<1>5. CASE AccelOf[host.job] = a
  <2>1. host.next = Slot(Size[a], Oldest(a), Len(q))
    BY <1>1, <1>4, <1>5 DEF HostInv, Launches, RingUp, One
  <2>2. Cells(a)' = [Cells(a) EXCEPT ![host.next] = host.job]
    <3>1. host.next \in DOMAIN Cells(a) /\ DOMAIN Cells(a) = DOMAIN job_ids[a]
      <4>1. Len(q) \in 0 .. Size[a]
        BY DEF RingUp, Layout
      <4>2. host.next \in 0 .. Size[a] - 1
        BY <2>1, <4>1, CellsType DEF Slot
      <4> QED BY <4>2 DEF Cells, TypeOK
    <3>2. Cells(a) = job_ids[a]
      BY <1>3 DEF Cells, TypeOK
    <3> QED BY <1>1, <1>2, <1>5, <3>1, <3>2, JobAssumption DEF Cells
  <2>3. Len(q) < Size[a]
    <3>1. Queue(a) = (IF Completing(a) THEN <<irq.job>> ELSE <<>>) \o q \o <<host.job>>
      BY <1>1, <1>5 DEF Queue, Launching
    <3>2. q \in Seq(Jobs)
      BY DEF RingUp
    <3>3. Len(Queue(a)) >= Len(q) + 1
      BY <3>1, <3>2
    <3> QED BY <3>2, <3>3, CellsType DEF QueueInv
  <2>4. /\ Layout(Cells(a), Oldest(a), Size[a], q) /\ q \in Seq(Jobs)
        /\ Size[a] \in Nat \ {0} /\ Oldest(a) \in 0 .. Size[a] - 1
        /\ Cells(a) \in [0 .. Size[a] - 1 -> Jobs \cup {NoJob}]
    BY CellsType DEF RingUp
  <2>5. /\ Cells(a)[host.next] = NoJob
        /\ Layout(Cells(a)', Oldest(a), Size[a], Append(q, host.job))
    <3> DEFINE o == Oldest(a)
               S == Size[a]
               ring == Cells(a)
               j == host.job
    <3>1. /\ S \in Nat \ {0} /\ o \in 0 .. S - 1
          /\ ring \in [0 .. S - 1 -> Jobs \cup {NoJob}]
          /\ q \in Seq(Jobs) /\ Layout(ring, o, S, q) /\ Len(q) < S /\ j \in Jobs
      BY <2>3, <2>4, <1>2
    <3> HIDE DEF q, o, S, ring, j
    <3>2. /\ ring[Slot(S, o, Len(q))] = NoJob
          /\ Layout([ring EXCEPT ![Slot(S, o, Len(q))] = j], o, S, Append(q, j))
      BY <3>1, EnterLayout
    <3> QED BY <3>2, <2>1, <2>2 DEF o, S, ring, j
  <2>6. Held(a)' = Append(q, host.job)
    <3>1. Cells(a)' \in [0 .. Size[a] - 1 -> Jobs \cup {NoJob}]
      BY <2>2, <2>4, <1>2
    <3>2. Append(q, host.job) \in Seq(Jobs)
      BY <2>4, <1>2
    <3>3. Entries(Cells(a)', Oldest(a), Size[a]) = Append(q, host.job)
      BY <2>4, <2>5, <3>1, <3>2, EntriesAre
    <3> QED BY <3>3, <1>4 DEF Held
  <2>7. Len(Append(q, host.job)) = Len(q) + 1 /\ Append(q, host.job)[Len(q) + 1] = host.job
        /\ Append(q, host.job) \in Seq(Jobs)
    BY <2>4, <1>2
  <2>8. Unannounced(a)' /\ Entered(a)'
    BY <1>2, <1>5 DEF Unannounced, Entered
  <2>9. NextIndex(a, front[a])' = Slot(Size[a], Oldest(a), Len(q))
    BY <1>1, <1>5, <2>1 DEF HostInv, Launches, NextIndex
  <2>10. Waiting(a) + Len(hw[a]) + 0 <= Len(q)
    BY <1>4 DEF RingUp, One
  <2>11. (unseen # NoJob /\ AccelOf[unseen] = a => job_ids[a][host.next] = NoJob)'
    <3>1. Cells(a)[host.next] = job_ids[a][host.next]
      BY <1>3, <2>1, CellsType, SlotFacts, ZenonT(60)
      DEF Cells, RingUp, Layout, TypeOK
    <3> QED BY <1>1, <1>2, <2>5, <3>1
  <2>12. Layout(Cells(a), Oldest(a), Size[a], Held(a))'
    BY <2>5, <2>6, <1>4
  <2>13. (NextIndex(a, front[a]) =
            Slot(Size[a], Oldest(a), Len(Held(a)) - One(Unannounced(a))))'
    BY <2>6, <2>7, <2>8, <2>9, <2>4, <1>4 DEF One
  <2>14. (Waiting(a) + Len(hw[a]) + One(Entered(a)) <= Len(Held(a)))'
    <3>1. Waiting(a) \in Nat /\ Len(hw[a]) \in Nat
      BY WaitingType, StartedType
    <3> QED BY <1>1, <1>4, <2>6, <2>7, <2>8, <2>10, <2>4, <3>1 DEF One
  <2>15. (irq.accel = a /\ irq.pc = "retire" => Waiting(a) > 0)'
    BY <1>1, <1>4 DEF RingUp
  <2> QED BY <1>2, <1>5, <2>6, <2>7, <2>11, <2>12, <2>13, <2>14, <2>15 DEF RingUp
<1>6. CASE AccelOf[host.job] # a
  <2>1. Cells(a)' = Cells(a)
    BY <1>1, <1>2, <1>3, <1>6 DEF Cells
  <2>2. Held(a)' = Held(a)
    BY <2>1, <1>4 DEF Held
  <2>3. ~Entered(a)' /\ ~Unannounced(a)'
    BY <1>2, <1>6 DEF Entered, Unannounced
  <2>4. NextIndex(a, front[a])' = NextIndex(a, front[a])
    BY <1>1 DEF NextIndex
  <2>5. unseen' # NoJob => AccelOf[unseen'] # a
    BY <1>1, <1>6
  <2> QED BY <1>1, <1>4, <1>6, <2>1, <2>2, <2>3, <2>4, <2>5 DEF RingUp, One
<1> QED BY <1>5, <1>6

(* The handler takes out the oldest one, which is visible to it.             *)
LEMMA RetireStep ==
    ASSUME TypeOK, HostInv, IrqInv, TypeOK', HostInv', IrqInv',
           Retire, NEW a \in Accels, RingUp(a)
    PROVE  /\ RingUp(a)'
           /\ irq.accel = a => /\ Held(a) # <<>>
                               /\ irq'.job = Head(Held(a))
                               /\ Held(a)' = Tail(Held(a))
           /\ irq.accel # a => Held(a)' = Held(a)
<1> USE DEF opVars, ringVars, cacheVars, hwVars
<1> DEFINE q == Held(a)
           o == Oldest(a)
           S == Size[a]
<1>1. /\ irq.pc = "retire"
      /\ irq' = [irq EXCEPT !.pc = "complete", !.job = job_ids[irq.accel][irq.next]]
      /\ job_ids' = [job_ids EXCEPT ![irq.accel] = [job_ids[irq.accel] EXCEPT ![irq.next] = NoJob]]
      /\ UNCHANGED <<todo, front, back, unseen, hw, done, host>>
  BY DEF Retire, EmptiedEntry
<1>2. /\ irq'.pc = "complete" /\ irq'.accel = irq.accel /\ irq'.next = irq.next
      /\ irq'.finishes = irq.finishes /\ irq'.job = job_ids[irq.accel][irq.next]
      /\ irq.accel \in Accels
  BY <1>1 DEF TypeOK
<1>3. Entered(a)' = Entered(a) /\ Unannounced(a)' = Unannounced(a)
      /\ NextIndex(a, front[a])' = NextIndex(a, front[a]) /\ hw'[a] = hw[a]
  BY <1>1 DEF Entered, Unannounced, NextIndex
<1>4. CASE irq.accel = a
  <2>1. /\ Layout(Cells(a), o, S, q) /\ q \in Seq(Jobs)
        /\ S \in Nat \ {0} /\ o \in 0 .. S - 1
        /\ Cells(a) \in [0 .. S - 1 -> Jobs \cup {NoJob}]
    BY CellsType DEF RingUp
  <2>2. o = irq.next
    BY <1>1, <1>4 DEF Oldest, IrqInv, Delivers
  <2>3. Waiting(a) \in Nat /\ Waiting(a) > 0 /\ Len(hw[a]) \in Nat
    <3>1. Waiting(a) > 0
      BY <1>1, <1>4 DEF RingUp
    <3> QED BY <3>1, WaitingType, StartedType
  <2>4. Len(q) > 0 /\ (Entered(a) => Len(q) > 1) /\ Len(q) \in 0 .. S
    BY <2>1, <2>3 DEF RingUp, One, Layout
  <2>5. unseen # NoJob /\ AccelOf[unseen] = a => host.next # o
    <3> SUFFICES ASSUME unseen # NoJob, AccelOf[unseen] = a PROVE host.next # o
      OBVIOUS
    <3>1. host.pc \in {"announce", "start"} /\ unseen = host.job /\ Entered(a)
      BY DEF HostInv, Entered
    <3>2. Len(q) > 1 /\ Len(q) <= S
      BY <2>4, <3>1
    <3>3. CASE host.pc = "announce"
      <4>1. host.next = Slot(S, o, Len(q) - 1)
        BY <3>1, <3>3 DEF HostInv, Launches, RingUp, Unannounced, Entered, One
      <4> QED BY <4>1, <3>2, <2>1 DEF Slot
    <3>4. CASE host.pc = "start"
      <4>1. host.next = front[a] /\ NextIndex(a, front[a]) = Slot(S, o, Len(q))
        BY <3>1, <3>4, <2>4 DEF HostInv, Launches, RingUp, Unannounced, Entered, One
      <4>2. front[a] \in -1 .. S - 1
        BY DEF TypeOK
      <4> QED BY <4>1, <4>2, <3>2, <2>1 DEF Slot, NextIndex
    <3> QED BY <3>1, <3>3, <3>4
  <2>6. Cells(a)' = [Cells(a) EXCEPT ![o] = NoJob] /\ Cells(a)[o] = job_ids[a][o]
    <3>1. job_ids'[a] = [job_ids[a] EXCEPT ![o] = NoJob]
      BY <1>1, <1>4, <2>2 DEF TypeOK
    <3>2. job_ids[a] \in [0 .. S - 1 -> Jobs \cup {NoJob}]
      BY DEF TypeOK
    <3> HIDE DEF o, S
    <3> QED BY <1>1, <2>1, <2>5, <3>1, <3>2 DEF Cells
  <2>7. /\ Cells(a)[o] = Head(q)
        /\ Slot(S, o, 1) \in 0 .. S - 1
        /\ Layout(Cells(a)', Slot(S, o, 1), S, Tail(q))
    <3> DEFINE ring == Cells(a)
    <3>1. ring = Cells(a)
      OBVIOUS
    <3> HIDE DEF q, o, S, ring
    <3>2. /\ ring[o] = Head(q)
          /\ Slot(S, o, 1) \in 0 .. S - 1
          /\ Layout([ring EXCEPT ![o] = NoJob], Slot(S, o, 1), S, Tail(q))
      BY <2>1, <2>4, <3>1, RetireLayout
    <3> QED BY <3>1, <3>2, <2>6
  <2>8. Oldest(a)' = Slot(S, o, 1)
    <3>1. Oldest(a)' = NextIndex(a, o)
      BY <1>2, <1>4, <2>2 DEF Oldest, NextIndex
    <3> QED BY <3>1, <2>1 DEF NextIndex, Slot
  <2>9. Held(a)' = Tail(q)
    <3>1. Cells(a)' \in [0 .. S - 1 -> Jobs \cup {NoJob}]
      BY <2>1, <2>6
    <3>2. Tail(q) \in Seq(Jobs)
      BY <2>1, <2>4
    <3>3. Entries(Cells(a)', Slot(S, o, 1), S) = Tail(q)
      BY <2>1, <2>7, <3>1, <3>2, EntriesAre
    <3> QED BY <3>3, <2>8 DEF Held
  <2>10. /\ Tail(q) \in Seq(Jobs) /\ Len(Tail(q)) = Len(q) - 1
         /\ Len(q) > 1 => Tail(q)[Len(q) - 1] = q[Len(q)]
    BY <2>1, <2>4
  <2>11. Waiting(a)' < Waiting(a) /\ Waiting(a)' \in Nat
    <3>1. done'[a] = done[a] /\ done[a] \in Nat /\ irq.finishes \in Nat /\ irq.finishes > 0
      BY <1>1 DEF TypeOK, IrqInv, Delivers
    <3>2. CASE a \in Csr181
      <4>1. Waiting(a)' = 0
        BY <3>2, <1>2, <1>4 DEF Waiting
      <4> QED BY <4>1, <2>3
    <3>3. CASE a \notin Csr181
      <4>1. Waiting(a)' = done[a] + (irq.finishes - 1)
        BY <3>1, <3>3, <1>2, <1>4 DEF Waiting, Delivers
      <4>2. Waiting(a) = done[a] + irq.finishes
        BY <3>3, <1>1, <1>4 DEF Waiting, Delivers
      <4> QED BY <4>1, <4>2, <3>1
    <3> QED BY <3>2, <3>3
  <2>12. Layout(Cells(a), Oldest(a), Size[a], Held(a))'
    BY <2>7, <2>8, <2>9
  <2>13. (NextIndex(a, front[a]) =
            Slot(Size[a], Oldest(a), Len(Held(a)) - One(Unannounced(a))))'
    <3>1. NextIndex(a, front[a]) = Slot(S, o, Len(q) - One(Unannounced(a)))
      BY DEF RingUp
    <3>2. One(Unannounced(a)) \in {0, 1} /\ Len(q) - One(Unannounced(a)) \in 1 .. S
      BY <2>4, <2>1 DEF One, Unannounced, Entered
    <3>3. Slot(S, o, Len(q) - One(Unannounced(a)))
            = Slot(S, Slot(S, o, 1), (Len(q) - 1) - One(Unannounced(a)))
      <4> DEFINE n == Len(q)
                 u == One(Unannounced(a))
      <4>1. n \in Nat /\ u \in {0, 1} /\ n - u \in 1 .. S
        BY <3>2, <2>4
      <4> HIDE DEF n, u, o, S, q
      <4>2. Slot(S, o, n - u) = Slot(S, Slot(S, o, 1), (n - 1) - u)
        BY <4>1, <2>1 DEF Slot
      <4> QED BY <4>2 DEF n, u
    <3> QED BY <3>1, <3>3, <2>8, <2>9, <2>10, <1>3
  <2>14. (Waiting(a) + Len(hw[a]) + One(Entered(a)) <= Len(Held(a)))'
    <3>1. Waiting(a) + Len(hw[a]) + One(Entered(a)) <= Len(q) /\ One(Entered(a)) \in {0, 1}
      BY DEF RingUp, One
    <3> QED BY <3>1, <1>3, <2>3, <2>4, <2>9, <2>10, <2>11
  <2>15. (Entered(a) => Held(a)[Len(Held(a))] = host.job)'
    <3>1. Entered(a) => q[Len(q)] = host.job
      BY DEF RingUp
    <3> QED BY <3>1, <1>1, <1>3, <2>4, <2>9, <2>10
  <2>16. (unseen # NoJob /\ AccelOf[unseen] = a => job_ids[a][host.next] = NoJob)'
    <3>1. unseen # NoJob /\ AccelOf[unseen] = a => job_ids[a][host.next] = NoJob
      BY DEF RingUp
    <3>2. job_ids'[a] = [job_ids[a] EXCEPT ![o] = NoJob]
      BY <1>1, <1>4, <2>2 DEF TypeOK
    <3>3. DOMAIN job_ids[a] = 0 .. S - 1
      BY DEF TypeOK
    <3> HIDE DEF o, S
    <3> QED BY <3>1, <3>2, <3>3, <1>1, <2>5
  <2>17. irq'.pc # "retire"
    BY <1>2
  <2>18. RingUp(a)'
    <3>1. Held(a)' \in Seq(Jobs)
      BY <2>9, <2>10
    <3> HIDE DEF q, o, S
    <3> QED BY <2>12, <2>13, <2>14, <2>15, <2>16, <2>17, <3>1 DEF RingUp
  <2>19. irq'.job = Head(q) /\ q # <<>>
    BY <1>2, <1>4, <2>2, <2>4, <2>6, <2>7
  <2> QED BY <1>4, <2>9, <2>18, <2>19
<1>5. CASE irq.accel # a
  <2>1. job_ids'[a] = job_ids[a] /\ Oldest(a)' = Oldest(a) /\ Waiting(a)' = Waiting(a)
    BY <1>1, <1>2, <1>5 DEF TypeOK, Oldest, Waiting
  <2>2. Cells(a)' = Cells(a)
    BY <1>1, <2>1 DEF Cells
  <2>3. Held(a)' = Held(a)
    BY <2>1, <2>2 DEF Held
  <2> QED BY <1>1, <1>2, <1>3, <1>5, <2>1, <2>2, <2>3 DEF RingUp
<1> QED BY <1>4, <1>5

(* A step that leaves the entries of a ring alone keeps it in order, if it   *)
(* takes no more finishes than were reported.                                *)
LEMMA KeptStep ==
    ASSUME NEW a \in Accels, RingUp(a),
           Cells(a)' = Cells(a), Oldest(a)' = Oldest(a), Held(a)' = Held(a),
           front'[a] = front[a], Unannounced(a)' <=> Unannounced(a),
           Waiting(a)' + Len(hw'[a]) + One(Entered(a)')
             <= Waiting(a) + Len(hw[a]) + One(Entered(a)),
           Waiting(a)' + Len(hw'[a]) + One(Entered(a)') \in Nat,
           Waiting(a) + Len(hw[a]) + One(Entered(a)) \in Nat,
           irq'.accel = a /\ irq'.pc = "retire" => Waiting(a)' > 0,
           Entered(a)' => Entered(a) /\ host'.job = host.job,
           unseen' # NoJob =>
             unseen' = unseen /\ host'.next = host.next /\ job_ids' = job_ids
    PROVE  RingUp(a)'
<1>1. Len(Held(a)) \in Nat
  BY DEF RingUp
<1>2. NextIndex(a, front[a])' = NextIndex(a, front[a])
  BY DEF NextIndex
<1>3. (NextIndex(a, front[a]) =
         Slot(Size[a], Oldest(a), Len(Held(a)) - One(Unannounced(a))))'
  BY <1>2 DEF RingUp, One
<1>4. (Waiting(a) + Len(hw[a]) + One(Entered(a)) <= Len(Held(a)))'
  BY <1>1 DEF RingUp
<1>5. (Layout(Cells(a), Oldest(a), Size[a], Held(a)) /\ Held(a) \in Seq(Jobs))'
  BY DEF RingUp
<1>6. (Entered(a) => Held(a)[Len(Held(a))] = host.job)'
  BY DEF RingUp
<1>7. (unseen # NoJob /\ AccelOf[unseen] = a => job_ids[a][host.next] = NoJob)'
  BY DEF RingUp
<1> QED BY <1>3, <1>4, <1>5, <1>6, <1>7 DEF RingUp

(* The sum in it. *)
LEMMA SumType ==
    ASSUME TypeOK, IrqInv, NEW a \in Accels
    PROVE  /\ Waiting(a) + Len(hw[a]) + One(Entered(a)) \in Nat
           /\ Waiting(a) \in Nat /\ Len(hw[a]) \in Nat /\ One(Entered(a)) \in {0, 1}
BY WaitingType, StartedType DEF One

(* And after a step. *)
LEMMA SumTypeAfter ==
    ASSUME TypeOK', IrqInv', NEW a \in Accels
    PROVE  /\ Waiting(a)' + Len(hw'[a]) + One(Entered(a)') \in Nat
           /\ Waiting(a)' \in Nat /\ Len(hw'[a]) \in Nat /\ One(Entered(a)') \in {0, 1}
<1> DEFINE T == [job : Jobs, regs : Registers]
<1>1. hw'[a] \in Seq(T) /\ done'[a] \in Nat /\ irq'.finishes \in Nat
  BY DEF TypeOK
<1>2. irq'.pc \in Delivers => irq'.finishes - 1 \in Nat
  BY <1>1 DEF IrqInv
<1>3. Waiting(a)' \in Nat
  BY <1>1, <1>2 DEF Waiting
<1>4. One(Entered(a)') \in {0, 1}
  BY DEF One
<1> HIDE DEF T
<1>5. Len(hw'[a]) \in Nat
  BY <1>1
<1> QED BY <1>3, <1>4, <1>5

(* The launch has announced its invocation: front is at its entry.           *)
LEMMA AnnounceStep ==
    ASSUME TypeOK, HostInv, IrqInv, TypeOK', HostInv', IrqInv',
           Announce, NEW a \in Accels, RingUp(a),
           Cells(a)' = Cells(a), Oldest(a)' = Oldest(a), Held(a)' = Held(a)
    PROVE  RingUp(a)'
<1> USE DEF opVars, ringVars, cacheVars, hwVars
<1>1. /\ host.pc = "announce" /\ host' = [host EXCEPT !.pc = "start"]
      /\ front' = [front EXCEPT ![AccelOf[host.job]] = host.next]
      /\ UNCHANGED <<todo, job_ids, back, unseen, hw, done, irq>>
  BY DEF Announce
<1>2. /\ host'.pc = "start" /\ host'.job = host.job /\ host'.next = host.next
      /\ host.job \in Jobs /\ AccelOf[host.job] \in Accels
  BY <1>1, AccelOfType DEF TypeOK, HostInv
<1>3. Entered(a)' = Entered(a) /\ ~Unannounced(a)' /\ Waiting(a)' = Waiting(a)
  BY <1>1, <1>2 DEF Entered, Unannounced, Waiting
<1>4. CASE AccelOf[host.job] # a
  <2>1. front'[a] = front[a]
    BY <1>1, <1>4 DEF TypeOK
  <2>2. ~Unannounced(a)
    BY <1>4 DEF Unannounced
  <2> QED BY <1>1, <1>2, <1>3, <2>1, <2>2, KeptStep, SumType DEF RingUp
<1>5. CASE AccelOf[host.job] = a
  <2> DEFINE q == Held(a)
             S == Size[a]
             o == Oldest(a)
  <2>1. front'[a] = host.next
    BY <1>1, <1>5 DEF TypeOK
  <2>2. Unannounced(a) /\ Entered(a)
    BY <1>1, <1>5 DEF Unannounced, Entered
  <2>3. host.next = Slot(S, o, Len(q) - 1)
    BY <1>1, <1>5, <2>2 DEF RingUp, HostInv, Launches, One
  <2>4. S \in Nat \ {0} /\ o \in 0 .. S - 1 /\ Len(q) \in 1 .. S
    <3>1. One(Entered(a)) = 1
      BY <2>2 DEF One
    <3> QED BY <3>1, SumType, CellsType DEF RingUp, Layout
  <2>5. NextIndex(a, front[a])' = Slot(S, o, Len(q))
    <3> DEFINE n == Len(q)
    <3>1. NextIndex(a, front[a])' = IF host.next = S - 1 THEN 0 ELSE host.next + 1
      BY <2>1 DEF NextIndex
    <3>2. n \in 1 .. S /\ host.next = Slot(S, o, n - 1)
      BY <2>3, <2>4
    <3> HIDE DEF n, S, o
    <3>3. (IF host.next = S - 1 THEN 0 ELSE host.next + 1) = Slot(S, o, n)
      BY <3>2, <2>4 DEF Slot
    <3> QED BY <3>1, <3>3 DEF n
  <2>6. (NextIndex(a, front[a]) =
           Slot(Size[a], Oldest(a), Len(Held(a)) - One(Unannounced(a))))'
    BY <1>3, <2>4, <2>5 DEF One
  <2>7. (Waiting(a) + Len(hw[a]) + One(Entered(a)) <= Len(Held(a)))'
    BY <1>1, <1>3 DEF RingUp
  <2>8. (Layout(Cells(a), Oldest(a), Size[a], Held(a)) /\ Held(a) \in Seq(Jobs))'
    BY DEF RingUp
  <2>9. (Entered(a) => Held(a)[Len(Held(a))] = host.job)'
    BY <1>2, <1>3 DEF RingUp
  <2>10. (unseen # NoJob /\ AccelOf[unseen] = a => job_ids[a][host.next] = NoJob)'
    BY <1>1, <1>2 DEF RingUp
  <2>11. (irq.accel = a /\ irq.pc = "retire" => Waiting(a) > 0)'
    BY <1>1, <1>3 DEF RingUp
  <2> QED BY <2>6, <2>7, <2>8, <2>9, <2>10, <2>11 DEF RingUp
<1> QED BY <1>4, <1>5

(* Handler steps other than Retire count nothing twice and forget nothing.   *)
LEMMA WaitingKept ==
    ASSUME TypeOK, IrqInv, TypeOK', StreamingIsNewer, Handler, ~Retire, NEW a \in Accels
    PROVE  /\ UNCHANGED <<front, hw, host, unseen, job_ids>>
           /\ Waiting(a)' = Waiting(a)
           /\ irq'.accel = a /\ irq'.pc = "retire" => Waiting(a)' > 0
<1> USE DEF opVars, ringVars, cacheVars, hwVars
<1> DEFINE Quiet == /\ UNCHANGED <<front, hw, host, unseen, job_ids>>
                    /\ Waiting(a)' = Waiting(a)
                    /\ irq'.accel = a /\ irq'.pc = "retire" => Waiting(a)' > 0
<1>1. ASSUME NEW b \in Accels, Query(b) PROVE Quiet
  <2>1. /\ irq.pc = "idle" /\ irq'.accel = b
        /\ \/ irq'.pc = "pend" /\ done' = done
           \/ /\ irq'.pc = "retire" /\ done[b] > 0
              /\ irq'.finishes = IF b \in Csr181 THEN 1 ELSE done[b]
              /\ done' = IF b \in Csr181 THEN done ELSE [done EXCEPT ![b] = 0]
        /\ UNCHANGED <<front, hw, host, unseen, job_ids>>
    BY <1>1 DEF Query, IrqIdle
  <2>2. Waiting(a) = done[a] /\ done[a] \in Nat
    BY <2>1 DEF Waiting, Delivers, TypeOK
  <2>3. CASE a = b
    <3>1. Waiting(a)' = Waiting(a) /\ (irq'.pc = "retire" => Waiting(a)' > 0)
      <4>1. CASE irq'.pc = "pend"
        BY <2>1, <2>2, <4>1 DEF Waiting, Delivers
      <4>2. CASE irq'.pc = "retire" /\ b \in Csr181
        BY <2>1, <2>2, <2>3, <4>2 DEF Waiting, Delivers
      <4>3. CASE irq'.pc = "retire" /\ b \notin Csr181
        <5>1. done'[a] = 0 /\ irq'.finishes = done[a]
          BY <2>1, <2>3, <4>3 DEF TypeOK
        <5>2. Waiting(a)' = 0 + done[a]
          BY <2>1, <2>3, <4>3, <5>1 DEF Waiting, Delivers
        <5> QED BY <2>1, <2>2, <2>3, <4>3, <5>2
      <4> QED BY <2>1, <4>1, <4>2, <4>3
    <3> QED BY <2>1, <3>1
  <2>4. CASE a # b
    <3>1. done'[a] = done[a]
      BY <2>1, <2>4 DEF TypeOK
    <3>2. Waiting(a)' = Waiting(a)
      BY <2>1, <2>2, <2>4, <3>1 DEF Waiting
    <3> QED BY <2>1, <2>4, <3>2
  <2> QED BY <2>3, <2>4
<1>2. CASE PendStall \/ FlagStall \/ ClearStallBit
  <2>1. irq.pc \notin Delivers /\ irq'.pc \notin Delivers /\ irq'.accel = irq.accel
        /\ UNCHANGED <<front, hw, host, unseen, job_ids, done>>
    <3>1. CASE PendStall \/ FlagStall
      BY <3>1, ZenonT(60) DEF PendStall, FlagStall, TypeOK, Delivers
    <3>2. CASE ClearStallBit
      BY <3>2 DEF ClearStallBit, IrqIdle, Delivers
    <3> QED BY <1>2, <3>1, <3>2
  <2>2. Waiting(a)' = Waiting(a)
    BY <2>1 DEF Waiting, Delivers
  <2> QED BY <2>1, <2>2 DEF Delivers
<1>3. CASE Complete
  <2>1. /\ irq.pc = "complete" /\ irq'.pc = "advance" /\ irq'.accel = irq.accel
        /\ irq'.finishes = irq.finishes
        /\ done' = IF irq.accel \in Csr181 THEN [done EXCEPT ![irq.accel] = 0] ELSE done
        /\ UNCHANGED <<front, hw, host, unseen, job_ids>>
    BY <1>3 DEF Complete, TypeOK, StreamingIsNewer
  <2>2. Waiting(a)' = Waiting(a)
    BY <2>1, ZenonT(60) DEF Waiting, Delivers, TypeOK
  <2> QED BY <2>1, <2>2
<1>4. CASE Advance
  <2>1. /\ irq.pc = "advance" /\ irq'.pc = "next" /\ irq'.accel = irq.accel
        /\ irq'.finishes = irq.finishes
        /\ UNCHANGED <<front, hw, host, unseen, job_ids, done>>
    BY <1>4 DEF Advance, TypeOK
  <2>2. Waiting(a)' = Waiting(a)
    BY <2>1 DEF Waiting, Delivers
  <2> QED BY <2>1, <2>2
<1>5. CASE AnnounceNext
  <2>1. irq.pc = "next" /\ UNCHANGED <<front, hw, host, unseen, job_ids, done>>
    BY <1>5 DEF AnnounceNext
  <2>2. CASE irq.finishes > 1
    <3>1. /\ irq'.pc = "retire" /\ irq'.accel = irq.accel
          /\ irq'.finishes = irq.finishes - 1 /\ irq.finishes \in Nat
      BY <1>5, <2>2 DEF AnnounceNext, MoreFinishes, TypeOK
    <3>2. irq.accel \notin Csr181
      BY <2>1, <2>2 DEF IrqInv, Delivers
    <3>3. Waiting(a)' = Waiting(a)
      BY <2>1, <3>1, <3>2 DEF Waiting, Delivers
    <3>4. irq'.accel = a => Waiting(a)' > 0
      <4>1. done'[irq.accel] \in Nat
        BY <2>1 DEF TypeOK
      <4>2. irq'.accel = a => Waiting(a)' = done'[a] + irq'.finishes
        BY <3>1, <3>2 DEF Waiting, Delivers
      <4> QED BY <2>2, <3>1, <4>1, <4>2
    <3> QED BY <2>1, <3>1, <3>3, <3>4
  <2>3. CASE ~(irq.finishes > 1)
    <3>1. irq' = IrqIdle(irq.accel) /\ irq.finishes = 1
      <4>1. irq.finishes \in Nat /\ irq.finishes > 0
        BY <2>1 DEF TypeOK, IrqInv, Delivers
      <4> QED BY <1>5, <2>3, <4>1 DEF AnnounceNext, MoreFinishes
    <3>2. irq'.pc = "idle" /\ irq'.accel = irq.accel
      BY <3>1 DEF IrqIdle
    <3>3. Waiting(a)' = Waiting(a)
      BY <2>1, <3>1, <3>2 DEF Waiting, Delivers, TypeOK
    <3> QED BY <2>1, <3>2, <3>3
  <2> QED BY <2>2, <2>3
<1> QED BY <1>1, <1>2, <1>3, <1>4, <1>5 DEF Handler

(* All other steps but a reset. *)
LEMMA QuietStep ==
    ASSUME TypeOK, HostInv, IrqInv, TypeOK', HostInv', IrqInv', StreamingIsNewer,
           [Next]_vars, NEW a \in Accels, RingUp(a),
           ~EnterRing, ~Retire, ~Announce,
           \A device \in Resets, past \in Stray : ~Reset(device, past)
    PROVE  RingUp(a)'
<1> USE DEF opVars, ringVars, cacheVars, hwVars
<1>k. /\ Cells(a)' = Cells(a) /\ Oldest(a)' = Oldest(a) /\ Held(a)' = Held(a)
  BY CellsKept
<1>s. /\ Waiting(a) + Len(hw[a]) + One(Entered(a)) \in Nat
      /\ Waiting(a) \in Nat /\ Len(hw[a]) \in Nat /\ One(Entered(a)) \in {0, 1}
      /\ Waiting(a)' + Len(hw'[a]) + One(Entered(a)') \in Nat
      /\ Waiting(a)' \in Nat /\ Len(hw'[a]) \in Nat /\ One(Entered(a)') \in {0, 1}
  BY SumType, SumTypeAfter
<1>r. irq.accel = a /\ irq.pc = "retire" => Waiting(a) > 0
  BY DEF RingUp
(* Steps of the host: the handler and the accelerators are where they were.  *)
<1>h. ASSUME UNCHANGED <<front, hw, done, irq>>, Unannounced(a)' <=> Unannounced(a),
             Entered(a)' => Entered(a) /\ host'.job = host.job,
             unseen' # NoJob =>
               unseen' = unseen /\ host'.next = host.next /\ job_ids' = job_ids
      PROVE  RingUp(a)'
  <2>1. Waiting(a)' = Waiting(a)
    BY <1>h DEF Waiting
  <2>2. One(Entered(a)') <= One(Entered(a))
    BY <1>h DEF One
  <2> QED BY <1>h, <1>k, <1>s, <1>r, <2>1, <2>2, KeptStep
(* Steps of the handler. *)
<1>i. ASSUME UNCHANGED <<front, hw, host, unseen, job_ids>>,
             Waiting(a)' = Waiting(a),
             irq'.accel = a /\ irq'.pc = "retire" => Waiting(a)' > 0
      PROVE  RingUp(a)'
  <2>1. (Entered(a)' <=> Entered(a)) /\ (Unannounced(a)' <=> Unannounced(a))
    BY <1>i DEF Entered, Unannounced
  <2>2. One(Entered(a)') = One(Entered(a))
    BY <2>1 DEF One
  <2> QED BY <1>i, <1>k, <1>s, <2>1, <2>2, KeptStep
<1>1. ASSUME NEW j \in Jobs, Launch(j) \/ PickUp(j) PROVE RingUp(a)'
  <2>1. host.pc = "idle" /\ host'.pc \in {"image", "dumped"}
    BY <1>1 DEF Launch, PickUp, HostIdle
  <2> QED BY <1>1, <1>h, <2>1 DEF Launch, PickUp, Entered, Unannounced, HostInv
<1>2. CASE WriteImage
  BY <1>2, <1>h DEF WriteImage, Entered, Unannounced, TypeOK, HostInv
<1>3. CASE StoreSeen
  BY <1>3, <1>h DEF StoreSeen, Entered, Unannounced
<1>4. CASE WriteStart
  <2>1. /\ host.pc = "start" /\ host'.pc = "idle" /\ unseen' = NoJob
        /\ hw' = [hw EXCEPT ![AccelOf[host.job]] = Append(hw[AccelOf[host.job]],
                    [job |-> host.job, regs |-> cra[AccelOf[host.job]]])]
        /\ UNCHANGED <<front, done, irq>>
    BY <1>4 DEF WriteStart, HostIdle
  <2>2. ~Unannounced(a) /\ ~Unannounced(a)' /\ ~Entered(a)' /\ Waiting(a)' = Waiting(a)
    BY <2>1 DEF Unannounced, Entered, Waiting
  <2>3. Len(hw'[a]) + 0 <= Len(hw[a]) + One(Entered(a))
    <3>1. CASE AccelOf[host.job] = a
      <4> DEFINE T == [job : Jobs, regs : Registers]
      <4>1. hw \in [Accels -> Seq(T)]
        BY DEF TypeOK
      <4> HIDE DEF T
      <4>2. \E x : hw'[a] = Append(hw[a], x)
        BY <2>1, <3>1, <4>1
      <4>3. Len(hw'[a]) = Len(hw[a]) + 1
        BY <4>1, <4>2
      <4>4. One(Entered(a)) = 1
        BY <2>1, <3>1 DEF Entered, One
      <4> QED BY <4>3, <4>4, <1>s
    <3>2. CASE AccelOf[host.job] # a
      <4>1. hw'[a] = hw[a]
        BY <2>1, <3>2 DEF TypeOK
      <4> QED BY <4>1, <1>s
    <3> QED BY <3>1, <3>2
  <2>4. One(Entered(a)') = 0
    BY <2>2 DEF One
  <2> QED BY <1>k, <1>s, <1>r, <2>1, <2>2, <2>3, <2>4, KeptStep, SMTT(40)
<1>5. CASE ClearPending \/ Unstall \/ Resume
  <2>1. /\ host.pc \in {"dumped", "unstall", "resume"}
        /\ host'.pc \in {"idle", "unstall", "resume"}
        /\ UNCHANGED <<front, hw, done, irq, unseen>>
    <3>1. \/ host' = HostIdle
          \/ host' = [host EXCEPT !.pc = "resume"]
          \/ host' = [host EXCEPT !.pc = "unstall", !.csr = stall_bit[AccelOf[host.job]]]
      BY <1>5 DEF ClearPending, Unstall, Resume
    <3>2. host'.pc \in {"idle", "unstall", "resume"}
      <4>1. CASE host' = HostIdle
        BY <4>1 DEF HostIdle
      <4>2. CASE host' # HostIdle
        BY <3>1, <4>2 DEF TypeOK
      <4> QED BY <4>1, <4>2
    <3> QED BY <1>5, <3>2 DEF ClearPending, Unstall, Resume
  <2> QED BY <1>h, <2>1 DEF Entered, Unannounced, HostInv
<1>6. ASSUME NEW b \in Accels, DebugDump(b) \/ Stall(b) PROVE RingUp(a)'
  BY <1>6, <1>h DEF DebugDump, Stall, Entered, Unannounced
<1>7. ASSUME NEW b \in Accels, Finish(b) PROVE RingUp(a)'
  <2>1. /\ hw' = [hw EXCEPT ![b] = Tail(hw[b])] /\ hw[b] # <<>>
        /\ done' = [done EXCEPT ![b] = done[b] + 1]
        /\ UNCHANGED <<front, host, irq, unseen, job_ids>>
    BY <1>7 DEF Finish
  <2>2. (Entered(a)' <=> Entered(a)) /\ (Unannounced(a)' <=> Unannounced(a))
    BY <2>1 DEF Entered, Unannounced
  <2>3. One(Entered(a)') = One(Entered(a))
    BY <2>2 DEF One
  <2>4. Waiting(a)' + Len(hw'[a]) <= Waiting(a) + Len(hw[a])
        /\ Waiting(a)' >= Waiting(a)
    <3>1. CASE a = b
      <4> DEFINE T == [job : Jobs, regs : Registers]
      <4>1. hw \in [Accels -> Seq(T)] /\ done \in [Accels -> Nat]
        BY DEF TypeOK
      <4> HIDE DEF T
      <4>2. Len(hw'[a]) = Len(hw[a]) - 1 /\ done'[a] = done[a] + 1 /\ done[a] \in Nat
        BY <2>1, <3>1, <4>1
      <4>3. Waiting(a)' \in {Waiting(a), Waiting(a) + 1}
        <5>1. irq' = irq /\ irq.finishes \in Nat
          BY <2>1 DEF TypeOK
        <5> QED BY <4>2, <5>1 DEF Waiting
      <4> QED BY <4>2, <4>3, <1>s
    <3>2. CASE a # b
      <4>1. hw'[a] = hw[a] /\ done'[a] = done[a]
        BY <2>1, <3>2 DEF TypeOK
      <4>2. Waiting(a)' = Waiting(a)
        BY <2>1, <4>1 DEF Waiting
      <4> QED BY <4>1, <4>2, <1>s
    <3> QED BY <3>1, <3>2
  <2>5. irq'.accel = a /\ irq'.pc = "retire" => Waiting(a)' > 0
    BY <1>r, <1>s, <2>1, <2>4
  <2> QED BY <1>k, <1>s, <2>1, <2>2, <2>3, <2>4, <2>5, KeptStep, SMTT(40)
<1>8. CASE Handler
  BY <1>8, <1>i, WaitingKept
<1>9. CASE UNCHANGED vars
  BY <1>9, <1>h DEF vars, Entered, Unannounced
<1> QED BY <1>1, <1>2, <1>3, <1>4, <1>5, <1>6, <1>7, <1>8, <1>9 DEF Next, Host

(* A forced reset empties the rings of its accelerators. *)
LEMMA ResetStep ==
    ASSUME TypeOK, HostInv, IrqInv, TypeOK', HostInv', IrqInv', ResetsComeLast,
           NEW device \in Resets, NEW past \in Stray, Reset(device, past),
           NEW a \in Accels
    PROVE  /\ a \in device => RingDown(a)'
           /\ a \notin device => /\ Held(a)' = Held(a)
                                 /\ RingUp(a) => RingUp(a)'
<1> USE DEF opVars, ringVars, cacheVars, hwVars
<1>1. /\ host.pc = "idle" /\ unseen = NoJob /\ todo = {}
      /\ UNCHANGED <<todo, front, back, unseen, host, irq>>
  BY DEF Reset, HostInv, ResetsComeLast
<1>2. CASE a \in device
  <2>1. hw'[a] = <<>> /\ done'[a] = 0
    BY <1>2 DEF Reset
  <2>2. \A i \in DOMAIN job_ids'[a] : job_ids'[a][i] = NoJob
    BY <1>2 DEF Reset
  <2> QED BY <1>1, <1>2, <2>1, <2>2 DEF RingDown, Launches
<1>3. CASE a \notin device
  <2>1. hw'[a] = hw[a] /\ done'[a] = done[a] /\ job_ids'[a] = job_ids[a]
    BY <1>3 DEF Reset
  <2>2. /\ Cells(a)' = Cells(a) /\ Oldest(a)' = Oldest(a) /\ Waiting(a)' = Waiting(a)
        /\ Entered(a)' = Entered(a) /\ Unannounced(a)' = Unannounced(a)
    BY <1>1, <2>1 DEF Cells, Oldest, Waiting, Entered, Unannounced
  <2>3. Held(a)' = Held(a)
    BY <2>2 DEF Held
  <2>4. ASSUME RingUp(a) PROVE RingUp(a)'
    <3>1. irq'.accel = a /\ irq'.pc = "retire" => Waiting(a)' > 0
      BY <1>1, <2>2, <2>4 DEF RingUp
    <3>2. Waiting(a)' + Len(hw'[a]) + One(Entered(a)')
             = Waiting(a) + Len(hw[a]) + One(Entered(a))
      BY <2>1, <2>2
    <3>3. Waiting(a) + Len(hw[a]) + One(Entered(a)) \in Nat
      BY SumType
    <3> HIDE DEF ringVars
    <3> QED BY <1>1, <2>2, <2>3, <2>4, <3>1, <3>2, <3>3, KeptStep
  <2> QED BY <1>3, <2>3, <2>4
<1> QED BY <1>2, <1>3

(* Each ring stays in order, or was emptied for good. *)
LEMMA RingStep ==
    ASSUME TypeOK, HostInv, IrqInv, RingInv, QueueInv, TypeOK', HostInv', IrqInv',
           ResetsComeLast, StreamingIsNewer, [Next]_vars
    PROVE  RingInv'
<1> SUFFICES ASSUME NEW a \in Accels PROVE RingUp(a)' \/ RingDown(a)'
  BY DEF RingInv
<1>1. CASE RingDown(a)
  BY <1>1, RingDownStep
<1>2. CASE RingUp(a)
  <2>1. CASE EnterRing
    BY <1>2, <2>1, EnterStep
  <2>2. CASE Retire
    BY <1>2, <2>2, RetireStep
  <2>3. CASE Announce
    <3>1. ~EnterRing /\ ~Retire /\ \A device \in Resets, past \in Stray : ~Reset(device, past)
      <4>1. host.pc = "announce" /\ host' # host
        BY <2>3 DEF Announce, TypeOK
      <4>2. Retire => host' = host
        BY DEF Retire
      <4> QED BY <4>1, <4>2 DEF EnterRing, Reset
    <3> QED BY <1>2, <2>3, <3>1, CellsKept, AnnounceStep
  <2>4. CASE \E device \in Resets, past \in Stray : Reset(device, past)
    BY <1>2, <2>4, ResetStep
  <2>5. CASE ~EnterRing /\ ~Retire /\ ~Announce
             /\ \A device \in Resets, past \in Stray : ~Reset(device, past)
    BY <1>2, <2>5, QuietStep
  <2> QED BY <2>1, <2>2, <2>3, <2>4, <2>5
<1> QED BY <1>1, <1>2 DEF RingInv

-----------------------------------------------------------------------------
(* The queue of an accelerator: what its ring holds, behind the invocation   *)
(* whose completion is being delivered and before the one being launched.    *)

(* Moving an element between the three parts of a sequence. *)
LEMMA PartsOfSequence ==
    ASSUME NEW T, NEW h \in Seq(T), NEW c \in Seq(T), NEW l \in Seq(T), NEW x \in T
    PROVE  /\ c \o h \o l \in Seq(T)
           /\ (c \o Append(h, x)) \o <<>> = (c \o h) \o <<x>>
           /\ h # <<>> => (<<Head(h)>> \o Tail(h)) \o l = (<<>> \o h) \o l
           /\ Tail((<<x>> \o h) \o l) = (<<>> \o h) \o l
           /\ (<<x>> \o h) \o l # <<>> /\ Head((<<x>> \o h) \o l) = x
           /\ Append((c \o h) \o <<>>, x) = (c \o h) \o <<x>>
<1>1. c \o h \o l \in Seq(T)
  OBVIOUS
<1>2. (c \o Append(h, x)) \o <<>> = (c \o h) \o <<x>>
  OBVIOUS
<1>3. ASSUME h # <<>> PROVE (<<Head(h)>> \o Tail(h)) \o l = (<<>> \o h) \o l
  BY <1>3
<1>4. Tail((<<x>> \o h) \o l) = (<<>> \o h) \o l
  OBVIOUS
<1>5. (<<x>> \o h) \o l # <<>> /\ Head((<<x>> \o h) \o l) = x
  OBVIOUS
<1>6. Append((c \o h) \o <<>>, x) = (c \o h) \o <<x>>
  OBVIOUS
<1> QED BY <1>1, <1>2, <1>3, <1>4, <1>5, <1>6

(* What a ring holds is a sequence of invocations, and so is the queue. *)
LEMMA QueueType ==
    ASSUME TypeOK, HostInv, IrqInv, RingInv, NEW a \in Accels
    PROVE  Held(a) \in Seq(Jobs) /\ Queue(a) \in Seq(Jobs)
<1>1. Held(a) \in Seq(Jobs)
  <2>1. CASE RingUp(a)
    BY <2>1 DEF RingUp
  <2>2. CASE RingDown(a)
    <3>1. <<>> \in Seq(Jobs)
      OBVIOUS
    <3> QED BY <2>2, <3>1, DownIsEmpty
  <2> QED BY <2>1, <2>2 DEF RingInv
<1>2. Completing(a) => irq.job \in Jobs
  BY DEF Completing, TypeOK
<1>3. Launching(a) => host.job \in Jobs
  BY DEF Launching, HostInv
<1> QED BY <1>1, <1>2, <1>3 DEF Queue

(* The invariant, but for the caches. *)
RingsInv == TypeOK /\ HostInv /\ IrqInv /\ RingInv /\ QueueInv /\ TodoInv

(* A launch puts its invocation at the end of the queue. *)
LEMMA LaunchQueue ==
    ASSUME RingsInv, NEW j \in Jobs, Launch(j), [Next]_vars, NEW a \in Accels
    PROVE  Queue(a)' = IF AccelOf[j] = a THEN Append(Queue(a), j) ELSE Queue(a)
<1> USE DEF RingsInv
<1> DEFINE c == IF Completing(a) THEN <<irq.job>> ELSE <<>>
<1>1. host.pc = "idle" /\ host'.pc = "image" /\ host'.job = j /\ UNCHANGED irq
  BY DEF Launch, HostIdle
<1>2. Held(a)' = Held(a)
  <2>1. ~EnterRing /\ ~Retire /\ \A device \in Resets, past \in Stray : ~Reset(device, past)
    BY <1>1 DEF EnterRing, Retire, Reset
  <2> QED BY <2>1, CellsKept
<1>3. Queue(a) = (c \o Held(a)) \o <<>>
  BY <1>1 DEF Queue, Launching
<1>4. Queue(a)' = (c \o Held(a)) \o (IF AccelOf[j] = a THEN <<j>> ELSE <<>>)
  BY <1>1, <1>2 DEF Queue, Launching, Completing
<1>5. Held(a) \in Seq(Jobs) /\ c \in Seq(Jobs)
  <2>1. Completing(a) => irq.job \in Jobs
    BY DEF Completing, TypeOK
  <2> QED BY <2>1, QueueType
<1> HIDE DEF c
<1>6. AccelOf[j] = a => Queue(a)' = Append(Queue(a), j)
  BY <1>3, <1>4, <1>5, PartsOfSequence
<1> QED BY <1>3, <1>4, <1>6

(* A completion takes the first one off, unless a reset has emptied the      *)
(* entry before the handler read it.                                         *)
LEMMA CompleteQueue ==
    ASSUME RingsInv, Complete, [Next]_vars, NEW a \in Accels
    PROVE  IF irq.accel = a /\ irq.job # NoJob
           THEN Queue(a) # <<>> /\ Head(Queue(a)) = irq.job /\ Queue(a)' = Tail(Queue(a))
           ELSE Queue(a)' = Queue(a)
<1> USE DEF RingsInv
<1> DEFINE l == IF Launching(a) THEN <<host.job>> ELSE <<>>
<1>1. irq.pc = "complete" /\ irq'.pc = "advance" /\ UNCHANGED host
  BY DEF Complete, TypeOK
<1>2. Held(a)' = Held(a)
  <2>1. ~EnterRing /\ ~Retire /\ \A device \in Resets, past \in Stray : ~Reset(device, past)
    BY <1>1 DEF Complete, EnterRing, Retire, Reset, TypeOK
  <2> QED BY <2>1, CellsKept
<1>3. Queue(a)' = (<<>> \o Held(a)) \o l
  BY <1>1, <1>2 DEF Queue, Launching, Completing
<1>4. Queue(a) = ((IF irq.accel = a /\ irq.job # NoJob THEN <<irq.job>> ELSE <<>>)
                     \o Held(a)) \o l
  BY <1>1 DEF Queue, Completing
<1>5. Held(a) \in Seq(Jobs) /\ l \in Seq(Jobs)
  <2>1. Launching(a) => host.job \in Jobs
    BY DEF Launching, HostInv
  <2> QED BY <2>1, QueueType
<1>6. irq.job \in Jobs \cup {NoJob}
  BY DEF TypeOK
<1> HIDE DEF l
<1>7. CASE irq.accel = a /\ irq.job # NoJob
  <2>1. irq.job \in Jobs
    BY <1>6, <1>7
  <2>2. Queue(a) = (<<irq.job>> \o Held(a)) \o l
    BY <1>4, <1>7
  <2> QED BY <1>3, <1>5, <1>7, <2>1, <2>2, PartsOfSequence, SMTT(40)
<1>8. CASE ~(irq.accel = a /\ irq.job # NoJob)
  BY <1>3, <1>4, <1>8
<1> QED BY <1>7, <1>8

(* A reset leaves at most the invocation whose completion is being delivered. *)
LEMMA ResetQueue ==
    ASSUME RingsInv, TypeOK', HostInv', IrqInv', ResetsComeLast,
           NEW device \in Resets, NEW past \in Stray, Reset(device, past), NEW a \in Accels
    PROVE  Queue(a)' = IF a \in device
                       THEN IF Completing(a) THEN <<irq.job>> ELSE <<>>
                       ELSE Queue(a)
<1> USE DEF RingsInv
<1>1. host.pc = "idle" /\ UNCHANGED <<host, irq>>
  BY DEF Reset
<1>2. ~Launching(a) /\ ~Launching(a)' /\ (Completing(a)' <=> Completing(a))
  BY <1>1 DEF Launching, Completing
<1>3. CASE a \in device
  <2>1. RingDown(a)'
    BY <1>3, ResetStep
  <2>2. Held(a)' = <<>>
    <3>1. host'.pc = "idle" /\ unseen' = NoJob
      BY <1>1 DEF HostInv
    <3>2. \A i \in 0 .. Size[a] - 1 : Cells(a)'[i] = NoJob
      BY <2>1, <3>1 DEF Cells, RingDown, TypeOK
    <3>3. Oldest(a)' \in 0 .. Size[a] - 1 /\ Size[a] \in Nat \ {0}
      <4>1. Oldest(a)' = Oldest(a)
        BY DEF Reset, Oldest
      <4> QED BY <4>1, CellsType
    <3>4. Cells(a)' \in [0 .. Size[a] - 1 -> Jobs \cup {NoJob}]
      BY <3>1, <3>2 DEF Cells, TypeOK
    <3>5. <<>> \in Seq(Jobs)
      OBVIOUS
    <3> DEFINE ring == Cells(a)'
               first == Oldest(a)'
    <3>6. ring \in [0 .. Size[a] - 1 -> Jobs \cup {NoJob}] /\ first \in 0 .. Size[a] - 1
          /\ \A i \in 0 .. Size[a] - 1 : ring[i] = NoJob
      BY <3>2, <3>3, <3>4
    <3> HIDE DEF ring, first
    <3>7. Entries(ring, first, Size[a]) = <<>>
      BY <3>3, <3>5, <3>6, EmptyLayout, EntriesAre
    <3> QED BY <3>7 DEF Held, ring, first
  <2>3. Queue(a)' = ((IF Completing(a) THEN <<irq.job>> ELSE <<>>) \o <<>>) \o <<>>
    BY <1>1, <1>2, <2>2 DEF Queue
  <2>4. Completing(a) => irq.job \in Jobs
    BY DEF Completing, TypeOK
  <2> QED BY <1>3, <2>3, <2>4
<1>4. CASE a \notin device
  <2>1. Held(a)' = Held(a)
    BY <1>4, ResetStep
  <2> QED BY <1>1, <1>2, <1>4, <2>1 DEF Queue
<1> QED BY <1>3, <1>4

(* No other step changes a queue. *)
LEMMA QueueKept ==
    ASSUME RingsInv, TypeOK', HostInv', IrqInv', ResetsComeLast, StreamingIsNewer,
           [Next]_vars, \A j \in Jobs : ~Launch(j), ~Complete,
           \A device \in Resets, past \in Stray : ~Reset(device, past), NEW a \in Accels
    PROVE  Queue(a)' = Queue(a)
<1> USE DEF RingsInv
<1>1. CASE EnterRing
  <2> DEFINE c == IF Completing(a) THEN <<irq.job>> ELSE <<>>
  <2>1. /\ host.pc = "enter" /\ host'.pc = "announce" /\ UNCHANGED irq /\ host.job \in Jobs
    BY <1>1 DEF EnterRing, TypeOK, HostInv
  <2>2. CASE AccelOf[host.job] = a
    <3>1. RingUp(a)
      BY <2>1, <2>2 DEF RingInv, RingDown, Launches
    <3>2. Held(a)' = Append(Held(a), host.job)
      BY <1>1, <2>2, <3>1, EnterStep
    <3>3. Queue(a) = (c \o Held(a)) \o <<host.job>>
      BY <2>1, <2>2 DEF Queue, Launching
    <3>4. Queue(a)' = (c \o Append(Held(a), host.job)) \o <<>>
      BY <2>1, <3>2 DEF Queue, Launching, Completing
    <3>5. Held(a) \in Seq(Jobs) /\ c \in Seq(Jobs)
      <4>1. Completing(a) => irq.job \in Jobs
        BY DEF Completing, TypeOK
      <4> QED BY <4>1, QueueType
    <3> HIDE DEF c
    <3> QED BY <2>1, <3>3, <3>4, <3>5, PartsOfSequence
  <2>3. CASE AccelOf[host.job] # a
    <3>1. unseen = NoJob /\ unseen' = host.job /\ UNCHANGED <<job_ids, back>>
      BY <1>1, <2>1 DEF EnterRing, HostInv
    <3>2. Cells(a)' = Cells(a) /\ Oldest(a)' = Oldest(a)
      BY <2>1, <2>3, <3>1 DEF Cells, Oldest
    <3>3. Held(a)' = Held(a)
      BY <3>2 DEF Held
    <3> QED BY <1>1, <2>1, <2>3, <3>3 DEF Queue, Launching, Completing
  <2> QED BY <2>2, <2>3
<1>2. CASE Retire
  <2> DEFINE l == IF Launching(a) THEN <<host.job>> ELSE <<>>
  <2>1. /\ irq.pc = "retire" /\ irq'.pc = "complete" /\ irq'.accel = irq.accel
        /\ irq'.job = job_ids[irq.accel][irq.next] /\ UNCHANGED <<host, back, unseen>>
    BY <1>2 DEF Retire, TypeOK, ringVars
  <2>2. Queue(a) = (<<>> \o Held(a)) \o l
    BY <2>1 DEF Queue, Completing
  <2>3. Held(a) \in Seq(Jobs) /\ l \in Seq(Jobs)
    <3>1. Launching(a) => host.job \in Jobs
      BY DEF Launching, HostInv
    <3> QED BY <3>1, QueueType
  <2>4. CASE irq.accel # a
    <3>1. job_ids'[a] = job_ids[a]
      BY <1>2, <2>4 DEF Retire, EmptiedEntry, TypeOK
    <3>2. Cells(a)' = Cells(a) /\ Oldest(a)' = Oldest(a)
      BY <2>1, <2>4, <3>1 DEF Cells, Oldest
    <3>3. Held(a)' = Held(a)
      BY <3>2 DEF Held
    <3> QED BY <2>1, <2>4, <3>3 DEF Queue, Launching, Completing
  <2>5. CASE irq.accel = a /\ RingUp(a)
    <3>1. Held(a) # <<>> /\ irq'.job = Head(Held(a)) /\ Held(a)' = Tail(Held(a))
      BY <1>2, <2>5, RetireStep
    <3>2. irq'.job \in Jobs /\ irq'.job # NoJob
      BY <2>3, <3>1, JobAssumption
    <3>3. Queue(a)' = (<<Head(Held(a))>> \o Tail(Held(a))) \o l
      BY <2>1, <2>5, <3>1, <3>2 DEF Queue, Launching, Completing
    <3>4. \E x : x \in Jobs
      BY <3>2
    <3> HIDE DEF l
    <3> QED BY <2>2, <2>3, <3>1, <3>3, <3>4, PartsOfSequence
  <2>6. CASE irq.accel = a /\ RingDown(a)
    <3>1. irq.next \in DOMAIN job_ids[a]
      <4>1. irq.next = NextIndex(a, back[a]) /\ back[a] \in -1 .. Size[a] - 1
        BY <2>1, <2>6 DEF IrqInv, Delivers, TypeOK
      <4>2. irq.next \in 0 .. Size[a] - 1
        BY <4>1, NextIndexType
      <4> QED BY <4>2 DEF TypeOK
    <3>2. irq'.job = NoJob
      BY <2>1, <2>6, <3>1 DEF RingDown
    <3>3. RingDown(a)'
      BY <2>6, RingDownStep
    <3>4. Held(a) = <<>>
      BY <2>6, DownIsEmpty
    <3>5. Held(a)' = <<>>
      <4>1. unseen' # NoJob => AccelOf[unseen'] # a
        BY <3>3 DEF HostInv, RingDown, Launches
      <4>2. \A i \in 0 .. Size[a] - 1 : Cells(a)'[i] = NoJob
        BY <3>3, <4>1 DEF Cells, RingDown, TypeOK
      <4>3. Oldest(a)' \in 0 .. Size[a] - 1 /\ Size[a] \in Nat \ {0}
        <5>1. /\ irq'.next = NextIndex(a, back'[a]) /\ back'[a] \in -1 .. Size[a] - 1
          BY <2>1, <2>6 DEF IrqInv, Delivers, TypeOK
        <5>2. irq'.next \in -1 .. Size[a] - 1
          BY <5>1, NextIndexType, SizeAssumption
        <5> QED BY <2>1, <2>6, <5>2, NextIndexType, SizeAssumption DEF Oldest, NextIndex
      <4>4. Cells(a)' \in [0 .. Size[a] - 1 -> Jobs \cup {NoJob}]
        BY <4>2 DEF Cells, TypeOK
      <4>5. <<>> \in Seq(Jobs)
        OBVIOUS
      <4> DEFINE ring == Cells(a)'
                 first == Oldest(a)'
      <4>6. ring \in [0 .. Size[a] - 1 -> Jobs \cup {NoJob}] /\ first \in 0 .. Size[a] - 1
            /\ \A i \in 0 .. Size[a] - 1 : ring[i] = NoJob
        BY <4>2, <4>3, <4>4
      <4> HIDE DEF ring, first
      <4>7. Entries(ring, first, Size[a]) = <<>>
        BY <4>3, <4>5, <4>6, EmptyLayout, EntriesAre
      <4> QED BY <4>7 DEF Held, ring, first
    <3> QED BY <2>1, <2>2, <3>2, <3>4, <3>5 DEF Queue, Launching, Completing
  <2> QED BY <2>4, <2>5, <2>6 DEF RingInv
<1>3. CASE ~EnterRing /\ ~Retire
  <2>1. Held(a)' = Held(a)
    BY <1>3, CellsKept
  <2>2. (Completing(a)' <=> Completing(a)) /\ (Completing(a) => irq'.job = irq.job)
    <3>1. irq.pc = "complete" => irq' = irq
      BY <1>3, Zenon
      DEF Next, Host, Handler, vars, Launch, PickUp, WriteImage, EnterRing, Announce,
                  WriteStart, ClearPending, Resume, Unstall, Query, PendStall, FlagStall,
                  ClearStallBit, Retire, Complete, Advance, AnnounceNext, StoreSeen, DebugDump,
                  Finish, Stall, Reset
    <3>2. irq.pc # "complete" => irq'.pc # "complete"
      <4>1. CASE \E b \in Accels : Query(b)
        BY <4>1 DEF Query, IrqIdle
      <4>2. CASE PendStall \/ FlagStall \/ Advance
        BY <4>2 DEF PendStall, FlagStall, Advance, TypeOK
      <4>3. CASE ClearStallBit
        BY <4>3 DEF ClearStallBit, IrqIdle
      <4>4. CASE AnnounceNext
        BY <4>4 DEF AnnounceNext, IrqIdle, TypeOK
      <4>5. CASE irq' = irq
        BY <4>5
      <4> QED BY <1>3, <4>1, <4>2, <4>3, <4>4, <4>5, ThreadFrames DEF Handler
    <3> QED BY <3>1, <3>2 DEF Completing
  <2>3. (Launching(a)' <=> Launching(a)) /\ (Launching(a) => host'.job = host.job)
    <3>1. CASE WriteImage
      BY <3>1 DEF WriteImage, Launching, TypeOK
    <3>2. CASE Announce \/ WriteStart \/ ClearPending \/ Resume \/ Unstall
      <4>1. /\ host.pc \notin {"image", "enter"}
            /\ \/ host' = HostIdle
               \/ host' = [host EXCEPT !.pc = "resume"]
               \/ host' = [host EXCEPT !.pc = "start"]
               \/ host' = [host EXCEPT !.pc = "unstall", !.csr = stall_bit[AccelOf[host.job]]]
        BY <3>2 DEF Announce, WriteStart, ClearPending, Resume, Unstall
      <4>2. host'.pc \notin {"image", "enter"}
        <5>1. CASE host' = HostIdle
          BY <5>1 DEF HostIdle
        <5>2. CASE host' # HostIdle
          BY <4>1, <5>2, ZenonT(60) DEF TypeOK
        <5> QED BY <5>1, <5>2
      <4> QED BY <4>1, <4>2 DEF Launching
    <3>3. ASSUME NEW j \in Jobs, PickUp(j) PROVE host.pc = "idle" /\ host'.pc = "dumped"
      BY <3>3 DEF PickUp, HostIdle
    <3>4. CASE UNCHANGED host
      BY <3>4 DEF Launching
    <3>5. StoreSeen => UNCHANGED host
      BY DEF StoreSeen
    <3> QED BY <1>3, <3>1, <3>2, <3>3, <3>4, <3>5, ThreadFrames DEF Host, Launching
  <2> QED BY <2>1, <2>2, <2>3 DEF Queue
<1> QED BY <1>1, <1>2, <1>3

(* What a ring holds is in the queue, behind the invocation that completes. *)
LEMMA HeldInQueue ==
    ASSUME TypeOK, HostInv, IrqInv, RingInv, NEW a \in Accels, NEW m \in 1 .. Len(Held(a))
    PROVE  /\ Completing(a) => /\ 1 \in 1 .. Len(Queue(a)) /\ Queue(a)[1] = irq.job
                               /\ m + 1 \in 1 .. Len(Queue(a)) /\ Queue(a)[m + 1] = Held(a)[m]
           /\ ~Completing(a) => m \in 1 .. Len(Queue(a)) /\ Queue(a)[m] = Held(a)[m]
<1> DEFINE h == Held(a)
           l == IF Launching(a) THEN <<host.job>> ELSE <<>>
<1>1. h \in Seq(Jobs) /\ l \in Seq(Jobs)
  <2>1. Launching(a) => host.job \in Jobs
    BY DEF Launching, HostInv
  <2> QED BY <2>1, QueueType
<1>2. CASE Completing(a)
  <2>1. irq.job \in Jobs
    BY <1>2 DEF Completing, TypeOK
  <2>2. Queue(a) = (<<irq.job>> \o h) \o l
    BY <1>2 DEF Queue
  <2> DEFINE x == irq.job
  <2> HIDE DEF h, l, x
  <2>3. x \in Jobs /\ m \in 1 .. Len(h)
    BY <2>1 DEF x, h
  <2>4. LET q == (<<x>> \o h) \o l
        IN  /\ 1 \in 1 .. Len(q) /\ q[1] = x
            /\ m + 1 \in 1 .. Len(q) /\ q[m + 1] = h[m]
    BY <1>1, <2>3
  <2> QED BY <1>2, <2>2, <2>4 DEF h, x
<1>3. CASE ~Completing(a)
  <2>1. Queue(a) = (<<>> \o h) \o l
    BY <1>3 DEF Queue
  <2> HIDE DEF h, l
  <2>2. m \in 1 .. Len(h)
    BY DEF h
  <2>3. LET q == (<<>> \o h) \o l IN m \in 1 .. Len(q) /\ q[m] = h[m]
    BY <1>1, <2>2
  <2> QED BY <1>3, <2>1, <2>3 DEF h
<1> QED BY <1>2, <1>3

(* An invocation found in an entry of a ring is one the ring holds; and once *)
(* no store is on its way the two are the same.                              *)
LEMMA RingHolds ==
    ASSUME TypeOK, HostInv, IrqInv, RingInv, NEW a \in Accels
    PROVE  /\ \A i \in DOMAIN job_ids[a] : job_ids[a][i] # NoJob =>
                \E m \in 1 .. Len(Held(a)) : Held(a)[m] = job_ids[a][i]
           /\ unseen = NoJob =>
                \A m \in 1 .. Len(Held(a)) : \E i \in DOMAIN job_ids[a] : job_ids[a][i] = Held(a)[m]
<1>1. /\ Size[a] \in Nat \ {0} /\ Oldest(a) \in 0 .. Size[a] - 1
      /\ DOMAIN job_ids[a] = 0 .. Size[a] - 1
  BY CellsType DEF TypeOK
<1>2. CASE RingDown(a)
  <2>1. Held(a) = <<>>
    BY <1>2, DownIsEmpty
  <2> QED BY <1>2, <2>1 DEF RingDown
<1>3. CASE RingUp(a)
  <2>1. Held(a) \in Seq(Jobs) /\ Layout(Cells(a), Oldest(a), Size[a], Held(a))
    BY <1>3 DEF RingUp
  <2>2. ASSUME NEW i \in DOMAIN job_ids[a], job_ids[a][i] # NoJob
        PROVE  \E m \in 1 .. Len(Held(a)) : Held(a)[m] = job_ids[a][i]
    <3>1. Cells(a)[i] = job_ids[a][i]
      BY <1>3, <2>2 DEF RingUp, Cells
    <3>2. PICK n \in 0 .. Size[a] - 1 : Slot(Size[a], Oldest(a), n) = i
      <4> DEFINE size == Size[a]
                 first == Oldest(a)
      <4>1. size \in Nat \ {0} /\ first \in 0 .. size - 1 /\ i \in 0 .. size - 1
        BY <1>1
      <4> HIDE DEF size, first
      <4>2. \E n \in 0 .. size - 1 : Slot(size, first, n) = i
        BY <4>1, SlotFacts
      <4> QED BY <4>2 DEF size, first
    <3>3. n + 1 \in 1 .. Size[a] /\ (n + 1) - 1 = n
      BY <1>1
    <3>4. n + 1 \in 1 .. Len(Held(a))
      <4> SUFFICES ASSUME n + 1 \in Len(Held(a)) + 1 .. Size[a] PROVE FALSE
        BY <1>1, <2>1, <3>3
      <4>1. Cells(a)[Slot(Size[a], Oldest(a), (n + 1) - 1)] = NoJob
        BY <2>1 DEF Layout
      <4> QED BY <2>2, <3>1, <3>2, <3>3, <4>1
    <3>5. Cells(a)[Slot(Size[a], Oldest(a), (n + 1) - 1)] = Held(a)[n + 1]
      BY <2>1, <3>4 DEF Layout
    <3> QED BY <3>1, <3>2, <3>3, <3>4, <3>5
  <2>3. ASSUME unseen = NoJob, NEW m \in 1 .. Len(Held(a))
        PROVE  \E i \in DOMAIN job_ids[a] : job_ids[a][i] = Held(a)[m]
    <3>1. Cells(a)[Slot(Size[a], Oldest(a), m - 1)] = Held(a)[m]
      BY <2>1 DEF Layout
    <3>2. m - 1 \in 0 .. Size[a]
      BY <1>1, <2>1 DEF Layout
    <3>3. Slot(Size[a], Oldest(a), m - 1) \in 0 .. Size[a] - 1
      BY <1>1, <3>2, SlotFacts
    <3>4. Cells(a)[Slot(Size[a], Oldest(a), m - 1)] = job_ids[a][Slot(Size[a], Oldest(a), m - 1)]
      BY <1>1, <2>3, <3>3 DEF Cells
    <3> QED BY <1>1, <3>1, <3>3, <3>4
  <2> QED BY <2>2, <2>3
<1> QED BY <1>2, <1>3 DEF RingInv

(* An invocation found in an entry of a ring is in flight on its accelerator *)
(* and is not the one whose completion is being delivered.                   *)
LEMMA RingIsInFlight ==
    ASSUME RingsInv, NEW a \in Accels, NEW i \in DOMAIN job_ids[a], job_ids[a][i] # NoJob
    PROVE  /\ job_ids[a][i] \in InFlight(a) \ todo
           /\ Completing(a) => job_ids[a][i] # irq.job
<1> USE DEF RingsInv
<1>1. PICK m \in 1 .. Len(Held(a)) : Held(a)[m] = job_ids[a][i]
  BY RingHolds
<1>2. CASE Completing(a)
  <2>1. m + 1 \in 1 .. Len(Queue(a)) /\ Queue(a)[m + 1] = job_ids[a][i]
        /\ 1 \in 1 .. Len(Queue(a)) /\ Queue(a)[1] = irq.job
    BY <1>1, <1>2, HeldInQueue
  <2>2. m + 1 # 1
    OBVIOUS
  <2> QED BY <2>1, <2>2 DEF QueueInv
<1>3. CASE ~Completing(a)
  BY <1>1, <1>3, HeldInQueue DEF QueueInv
<1> QED BY <1>2, <1>3

(* What a reset does to the invocations of a device. *)
LEMMA ResetExec ==
    ASSUME RingsInv, ResetsComeLast,
           NEW device \in Resets, NEW past \in Stray, Reset(device, past), NEW j \in Jobs
    PROVE  exec'[j] = IF AccelOf[j] \in device
                         /\ \E m \in 1 .. Len(Held(AccelOf[j])) : Held(AccelOf[j])[m] = j
                      THEN FAILED ELSE exec[j]
<1> USE DEF RingsInv
<1> DEFINE ended == {past} \cup UNION {Range(job_ids[a]) : a \in device}
<1>1. /\ exec'[j] = IF j \in ended THEN Lowered(exec, j, FAILED)[j] ELSE exec[j]
      /\ host.pc = "idle" /\ past = NoJob /\ device \subseteq Accels
  BY ResetsAssumption DEF Reset, ResetsComeLast
<1>2. Lowered(exec, j, FAILED)[j] = FAILED
  <2>1. exec \in [Jobs -> FAILED .. QUEUED] /\ FAILED \in FAILED .. QUEUED
    BY DEF TypeOK, FAILED, QUEUED
  <2>2. Lowered(exec, j, FAILED)[j] = IF exec[j] > FAILED THEN FAILED ELSE exec[j]
    BY <2>1, LoweredType
  <2> QED BY <2>1, <2>2 DEF FAILED, QUEUED
<1>3. unseen = NoJob
  BY <1>1 DEF HostInv
<1>4. j # past
  BY <1>1, JobAssumption
<1>5. ASSUME NEW a \in Accels
      PROVE  j \in Range(job_ids[a]) <=>
               AccelOf[j] = a /\ \E m \in 1 .. Len(Held(a)) : Held(a)[m] = j
  <2>1. ASSUME j \in Range(job_ids[a])
        PROVE  AccelOf[j] = a /\ \E m \in 1 .. Len(Held(a)) : Held(a)[m] = j
    <3>1. PICK i \in DOMAIN job_ids[a] : job_ids[a][i] = j
      BY <2>1 DEF Range
    <3>2. j # NoJob
      BY JobAssumption
    <3> QED BY <3>1, <3>2, RingHolds, RingIsInFlight DEF InFlight
  <2>2. ASSUME NEW m \in 1 .. Len(Held(a)), Held(a)[m] = j
        PROVE  j \in Range(job_ids[a])
    BY <1>3, <2>2, RingHolds DEF Range
  <2> QED BY <2>1, <2>2
<1>6. j \in ended <=> AccelOf[j] \in device
                      /\ \E m \in 1 .. Len(Held(AccelOf[j])) : Held(AccelOf[j])[m] = j
  <2>1. j \in ended <=> \E a \in device : j \in Range(job_ids[a])
    BY <1>4
  <2> QED BY <1>1, <1>5, <2>1
<1> HIDE DEF ended
<1> QED BY <1>1, <1>2, <1>6

(* Any other step changes a status only by announcing as running an          *)
(* invocation that was submitted and is in the queue.                        *)
LEMMA RunningStep ==
    ASSUME RingsInv, [Next]_vars, \A j \in Jobs : ~Launch(j), ~Complete,
           \A device \in Resets, past \in Stray : ~Reset(device, past)
    PROVE  /\ todo' = todo
           /\ \/ exec' = exec
              \/ \E j \in Jobs : /\ exec[j] = SUBMITTED /\ j \notin todo
                                 /\ exec' = [exec EXCEPT ![j] = RUNNING]
                                 /\ \E m \in 1 .. Len(Queue(AccelOf[j])) : Queue(AccelOf[j])[m] = j
<1> USE DEF RingsInv
<1> DEFINE Announced(j) == /\ exec[j] = SUBMITTED /\ j \notin todo
                           /\ exec' = [exec EXCEPT ![j] = RUNNING]
                           /\ \E m \in 1 .. Len(Queue(AccelOf[j])) : Queue(AccelOf[j])[m] = j
<1>1. todo' = todo
  BY Zenon
  DEF Next, Host, Handler, vars, PickUp, WriteImage, EnterRing, Announce,
         WriteStart, ClearPending, Resume, Unstall, Query, PendStall, FlagStall,
         ClearStallBit, Retire, Advance, AnnounceNext, StoreSeen, DebugDump, Finish, Stall
<1>2. ASSUME NEW a \in Accels, NEW m \in 1 .. Len(Held(a))
      PROVE  /\ Held(a)[m] \in InFlight(a) \ todo
             /\ \E n \in 1 .. Len(Queue(a)) : Queue(a)[n] = Held(a)[m]
  <2>1. \E n \in 1 .. Len(Queue(a)) : Queue(a)[n] = Held(a)[m]
    BY HeldInQueue
  <2> QED BY <2>1 DEF QueueInv
<1>3. ASSUME NEW a \in Accels, NEW m \in 1 .. Len(Held(a)), exec' = Lowered(exec, Held(a)[m], RUNNING)
      PROVE  exec' = exec \/ \E j \in Jobs : Announced(j)
  <2> DEFINE j == Held(a)[m]
  <2>1. j \in Jobs /\ AccelOf[j] = a /\ exec[j] \in {RUNNING, SUBMITTED} /\ j \notin todo
    BY <1>2 DEF InFlight
  <2>2. CASE exec[j] = RUNNING
    BY <1>3, <2>1, <2>2 DEF Lowered, RUNNING
  <2>3. CASE exec[j] = SUBMITTED
    <3>1. exec' = [exec EXCEPT ![j] = RUNNING]
      BY <1>3, <2>1, <2>3, JobAssumption DEF Lowered, RUNNING, SUBMITTED
    <3>2. \E n \in 1 .. Len(Queue(AccelOf[j])) : Queue(AccelOf[j])[n] = j
      BY <1>2, <2>1
    <3>3. Announced(j)
      BY <2>1, <2>3, <3>1, <3>2
    <3> HIDE DEF Announced
    <3> QED BY <2>1, <3>3
  <2> QED BY <2>1, <2>2, <2>3
<1> SUFFICES exec' = exec \/ \E j \in Jobs : Announced(j)
  BY <1>1
<1> HIDE DEF Announced
<1>4. CASE Announce
  <2>1. /\ host.pc = "announce" /\ host.job \in Jobs /\ AccelOf[host.job] \in Accels
        /\ exec' = exec \/ exec' = Lowered(exec, host.job, RUNNING)
    BY <1>4, AccelOfType DEF Announce, HostInv
  <2> DEFINE a == AccelOf[host.job]
  <2>2. Entered(a) /\ ~RingDown(a)
    BY <2>1 DEF Entered, RingDown, Launches
  <2>3. RingUp(a)
    BY <2>1, <2>2 DEF RingInv
  <2>4. Held(a) \in Seq(Jobs) /\ Len(Held(a)) > 0 /\ Held(a)[Len(Held(a))] = host.job
    <3>1. /\ Held(a) \in Seq(Jobs) /\ Held(a)[Len(Held(a))] = host.job
          /\ Waiting(a) + Len(hw[a]) + One(Entered(a)) <= Len(Held(a))
      BY <2>2, <2>3 DEF RingUp
    <3>2. Waiting(a) \in Nat /\ Len(hw[a]) \in Nat /\ One(Entered(a)) = 1
      BY <2>1, <2>2, SumType DEF One
    <3> QED BY <3>1, <3>2
  <2>5. Len(Held(a)) \in 1 .. Len(Held(a))
    BY <2>4
  <2> QED BY <1>3, <2>1, <2>4, <2>5
<1>5. CASE AnnounceNext
  <2> DEFINE j == job_ids[irq.accel][irq.next]
  <2>1. exec' = Lowered(exec, j, RUNNING) /\ irq.accel \in Accels
    BY <1>5 DEF AnnounceNext, TypeOK
  <2>2. CASE j = NoJob
    <3>1. exec' = exec
      BY <2>1, <2>2 DEF Lowered
    <3> QED BY <3>1
  <2>3. CASE j # NoJob
    <3>1. irq.next \in DOMAIN job_ids[irq.accel]
      <4>1. irq.next = NextIndex(irq.accel, back[irq.accel])
            /\ back[irq.accel] \in -1 .. Size[irq.accel] - 1
        BY <1>5, <2>1 DEF AnnounceNext, IrqInv, Delivers, TypeOK
      <4>2. irq.next \in 0 .. Size[irq.accel] - 1
        BY <2>1, <4>1, NextIndexType
      <4> QED BY <2>1, <4>2 DEF TypeOK
    <3>2. PICK m \in 1 .. Len(Held(irq.accel)) : Held(irq.accel)[m] = j
      BY <2>1, <2>3, <3>1, RingHolds, Zenon
    <3> QED BY <1>3, <2>1, <3>2
  <2> QED BY <2>2, <2>3
<1>6. CASE ~Announce /\ ~AnnounceNext
  BY <1>6, Zenon
  DEF Next, Host, Handler, vars, opVars, PickUp, WriteImage, EnterRing,
         WriteStart, ClearPending, Resume, Unstall, Query, PendStall, FlagStall,
         ClearStallBit, Retire, Advance, StoreSeen, DebugDump, Finish, Stall
<1> QED BY <1>4, <1>5, <1>6, Zenon

(* The count of the kernels in front is one of all that are in flight, as    *)
(* all are in front; or there are no more than the ring has entries anyhow.  *)
LEMMA RoomForLaunch ==
    ASSUME TypeOK, OrderInv, OvertakenHaveRoom, NEW j \in Jobs, Launch(j)
    PROVE  Cardinality(InFlight(AccelOf[j])) < Size[AccelOf[j]]
<1> DEFINE a == AccelOf[j]
           S == InFlight(a)
<1>1. PICK w \in Workloads : /\ todo \subseteq w
                             /\ \A b \in Accels : InFlight(b) \subseteq w \ todo
                             /\ \A i \in todo, k \in w \ todo :
                                  AccelOf[i] = AccelOf[k] => k \in InFront[i] \/ i \in Overtaken
  BY DEF OrderInv
<1> DEFINE own == {i \in w : AccelOf[i] = a}
<1>2. j \in todo /\ Cardinality(OnDevice(j)) < Size[a]
  BY DEF Launch
<1>3. a \in Accels /\ Size[a] \in Nat /\ IsFiniteSet(own)
  <2>1. IsFiniteSet(w) /\ own \subseteq w
    BY WorkloadsAssumption, JobAssumption, FS_Subset
  <2> QED BY <2>1, FS_Subset, AccelOfType, SizeAssumption
<1>4. S \subseteq own \ {j} /\ j \in own
  BY <1>1, <1>2, <1>3 DEF InFlight
<1>5. CASE own \cap Overtaken = {}
  <2>1. \A k \in S : k \in InFront[j]
    <3> SUFFICES ASSUME NEW k \in S PROVE k \in InFront[j]
      OBVIOUS
    <3>1. k \in w \ todo /\ AccelOf[j] = AccelOf[k]
      BY <1>1, <1>3 DEF InFlight
    <3>2. j \notin Overtaken
      BY <1>4, <1>5
    <3> QED BY <1>1, <1>2, <3>1, <3>2
  <2>2. OnDevice(j) = S
    BY <2>1 DEF OnDevice
  <2> QED BY <1>2, <2>2
<1>6. CASE Cardinality(own) <= Size[a]
  <2> HIDE DEF own, S
  <2>1. Cardinality(own \ {j}) = Cardinality(own) - 1 /\ IsFiniteSet(own \ {j})
    BY <1>3, <1>4, FS_RemoveElement
  <2>2. Cardinality(S) <= Cardinality(own \ {j}) /\ IsFiniteSet(S)
    BY <1>4, <2>1, FS_Subset
  <2>3. Cardinality(S) \in Nat /\ Cardinality(own) \in Nat
    BY <1>3, <2>2, FS_CardinalityType
  <2>4. Cardinality(S) < Size[a]
    BY <1>3, <1>6, <2>1, <2>2, <2>3
  <2> QED BY <2>4 DEF S
<1>7. own \cap Overtaken = {} \/ Cardinality(own) <= Size[a]
  BY <1>3 DEF OvertakenHaveRoom
<1> QED BY <1>5, <1>6, <1>7

(* Nothing but a launch puts an invocation in flight, and it leaves those    *)
(* that it does not overtake behind it.                                      *)
LEMMA OrderStep ==
    ASSUME RingsInv, OrderInv, [Next]_vars
    PROVE  OrderInv'
<1> USE DEF RingsInv
<1>1. PICK w \in Workloads : /\ todo \subseteq w
                             /\ \A b \in Accels : InFlight(b) \subseteq w \ todo
                             /\ \A i \in todo, k \in w \ todo :
                                  AccelOf[i] = AccelOf[k] => k \in InFront[i] \/ i \in Overtaken
  BY DEF OrderInv
<1>2. ASSUME NEW j \in Jobs, Launch(j) PROVE OrderInv'
  <2>1. /\ j \in todo /\ todo' = todo \ {j} /\ exec' = [exec EXCEPT ![j] = SUBMITTED]
        /\ \A k \in todo \ Overtaken : AccelOf[k] = AccelOf[j] => k \notin InFront[j]
    BY <1>2 DEF Launch
  <2>2. todo' \subseteq w
    BY <1>1, <2>1
  <2>3. ASSUME NEW b \in Accels PROVE InFlight(b)' \subseteq w \ todo'
    <3>1. ASSUME NEW k \in InFlight(b)' PROVE k = j \/ k \in InFlight(b)
      BY <2>1, <3>1 DEF InFlight, TypeOK
    <3> QED BY <1>1, <2>1, <3>1
  <2>4. ASSUME NEW i \in todo', NEW k \in w \ todo', AccelOf[i] = AccelOf[k]
        PROVE  k \in InFront[i] \/ i \in Overtaken
    <3>1. i \in todo /\ i # j /\ i \in Jobs
      BY <2>1 DEF TypeOK
    <3>2. CASE k = j
      <4>1. i \notin Overtaken => i \notin InFront[j]
        BY <2>1, <2>4, <3>1, <3>2
      <4> QED BY <3>1, <3>2, <4>1, QueueAssumption
    <3>3. CASE k # j
      BY <1>1, <2>1, <2>4, <3>1, <3>3
    <3> QED BY <3>2, <3>3
  <2> QED BY <2>2, <2>3, <2>4 DEF OrderInv
<1>3. CASE todo' = todo /\ \A b \in Accels : InFlight(b)' \subseteq InFlight(b)
  <2>1. \A b \in Accels : InFlight(b)' \subseteq w \ todo'
    BY <1>1, <1>3
  <2> QED BY <1>1, <1>3, <2>1 DEF OrderInv
<1>4. CASE Complete
  <2>1. todo' = todo /\ exec' = Lowered(exec, irq.job, COMPLETE)
    BY <1>4 DEF Complete
  <2>2. \A k \in Jobs : exec'[k] = exec[k] \/ exec'[k] = COMPLETE
    BY <2>1 DEF Lowered, TypeOK
  <2>3. \A b \in Accels : InFlight(b)' \subseteq InFlight(b)
    BY <2>2 DEF InFlight, COMPLETE, RUNNING, SUBMITTED
  <2> QED BY <1>3, <2>1, <2>3
<1>5. ASSUME NEW device \in Resets, NEW past \in Stray, Reset(device, past) PROVE OrderInv'
  <2>1. todo' = todo /\ \A k \in Jobs : exec'[k] = exec[k] \/ exec'[k] = Lowered(exec, k, FAILED)[k]
    BY <1>5 DEF Reset
  <2>2. \A k \in Jobs : exec'[k] = exec[k] \/ exec'[k] = FAILED
    BY <2>1 DEF Lowered, TypeOK
  <2>3. \A b \in Accels : InFlight(b)' \subseteq InFlight(b)
    BY <2>2 DEF InFlight, FAILED, RUNNING, SUBMITTED
  <2> QED BY <1>3, <2>1, <2>3
<1>6. CASE /\ \A j \in Jobs : ~Launch(j)
           /\ ~Complete
           /\ \A device \in Resets, past \in Stray : ~Reset(device, past)
  <2>1. /\ todo' = todo
        /\ \/ exec' = exec
           \/ \E j \in Jobs : exec[j] = SUBMITTED /\ exec' = [exec EXCEPT ![j] = RUNNING]
    BY <1>6, RunningStep
  <2>2. \A b \in Accels : InFlight(b)' \subseteq InFlight(b)
    BY <2>1 DEF InFlight, TypeOK
  <2> QED BY <1>3, <2>1, <2>2
<1> QED BY <1>2, <1>4, <1>5, <1>6

(* A launch: its invocation is fresh, so the queue has none twice, and the   *)
(* limit on the invocations in flight bounds the queue.                      *)
LEMMA LaunchInQueue ==
    ASSUME RingsInv, OrderInv, OvertakenHaveRoom, NEW j \in Jobs, Launch(j), [Next]_vars
    PROVE  /\ QueueInv' /\ TodoInv'
           /\ exec[j] = QUEUED /\ exec' = [exec EXCEPT ![j] = SUBMITTED]
           /\ Len(Queue(AccelOf[j])) < Size[AccelOf[j]]
<1> USE DEF RingsInv
<1>1. /\ j \in todo /\ todo' = todo \ {j} /\ exec' = [exec EXCEPT ![j] = SUBMITTED]
      /\ host.pc = "idle" /\ host'.job = j
      /\ Cardinality(InFlight(AccelOf[j])) < Size[AccelOf[j]]
  BY RoomForLaunch DEF Launch, HostIdle
<1>2. AccelOf[j] \in Accels /\ \A a \in Accels : Size[a] \in Nat
  BY AccelOfType, SizeAssumption
<1>3. exec[j] = QUEUED /\ exec'[j] = SUBMITTED /\ \A k \in Jobs : k # j => exec'[k] = exec[k]
  BY <1>1 DEF TodoInv, TypeOK
<1>4. \A a \in Accels : Queue(a) \in Seq(Jobs)
  BY QueueType
<1>5. Len(Queue(AccelOf[j])) < Size[AccelOf[j]]
  <2> DEFINE S == InFlight(AccelOf[j])
             q == Queue(AccelOf[j])
  <2>1. IsFiniteSet(S)
    BY JobAssumption, FS_Subset DEF InFlight
  <2>2. \A i \in 1 .. Len(q) : q[i] \in S
    BY <1>2 DEF QueueInv
  <2>3. \A i, k \in 1 .. Len(q) : i # k => q[i] # q[k]
    BY <1>2 DEF QueueInv
  <2>4. Len(q) \in Nat
    BY <1>2, <1>4
  <2>5. Cardinality(S) < Size[AccelOf[j]] /\ Cardinality(S) \in Nat
    BY <1>1, <2>1, FS_CardinalityType
  <2> HIDE DEF S, q
  <2>6. Len(q) <= Cardinality(S)
    BY <2>1, <2>2, <2>3, <2>4, LengthBound
  <2>7. Len(q) < Size[AccelOf[j]]
    BY <1>2, <2>4, <2>5, <2>6
  <2> QED BY <2>7 DEF q
<1>6. ASSUME NEW a \in Accels
      PROVE  /\ Len(Queue(a)') <= Size[a]
             /\ \A m \in 1 .. Len(Queue(a)') : Queue(a)'[m] \in InFlight(a)' \ todo'
             /\ \A m, n \in 1 .. Len(Queue(a)') : m # n => Queue(a)'[m] # Queue(a)'[n]
  <2> DEFINE q == Queue(a)
             r == Queue(a)'
  <2>1. q \in Seq(Jobs) /\ Len(q) <= Size[a]
        /\ (\A m \in 1 .. Len(q) : q[m] \in InFlight(a) \ todo)
        /\ (\A m, n \in 1 .. Len(q) : m # n => q[m] # q[n])
    BY <1>4 DEF QueueInv
  <2>2. r = IF AccelOf[j] = a THEN Append(q, j) ELSE q
    BY LaunchQueue
  <2>3. \A k \in InFlight(a) : k \in InFlight(a)'
    BY <1>3 DEF InFlight, QUEUED, RUNNING, SUBMITTED
  <2>4. AccelOf[j] = a => j \in InFlight(a)' \ todo'
    BY <1>1, <1>3 DEF InFlight
  <2>5. \A m \in 1 .. Len(q) : q[m] \in InFlight(a)' \ todo' /\ q[m] # j
    BY <1>1, <2>1, <2>3
  <2>6. AccelOf[j] = a => Len(q) < Size[a]
    BY <1>5
  <2> DEFINE S == InFlight(a)' \ todo'
  <2> HIDE DEF q, r, S
  <2>7. CASE AccelOf[j] = a
    <3>1. r = Append(q, j) /\ j \in S /\ Len(q) < Size[a]
      BY <2>2, <2>4, <2>6, <2>7 DEF S
    <3>2. Len(r) = Len(q) + 1 /\ r[Len(q) + 1] = j /\ \A m \in 1 .. Len(q) : r[m] = q[m]
      BY <2>1, <3>1
    <3>3. \A m \in 1 .. Len(q) : q[m] \in S /\ q[m] # j
      BY <2>5 DEF S
    <3>4. \A m \in 1 .. Len(r) : m = Len(q) + 1 \/ m \in 1 .. Len(q)
      BY <2>1, <3>2
    <3>5. \A m \in 1 .. Len(r) : r[m] \in S
      BY <3>1, <3>2, <3>3, <3>4
    <3>6. \A m, n \in 1 .. Len(r) : m # n => r[m] # r[n]
      BY <2>1, <3>2, <3>3, <3>4
    <3>7. Len(r) <= Size[a]
      BY <1>2, <2>1, <3>1, <3>2
    <3> QED BY <3>5, <3>6, <3>7 DEF r, S
  <2>8. CASE AccelOf[j] # a
    BY <2>1, <2>2, <2>5, <2>8 DEF r, S
  <2> QED BY <2>7, <2>8
<1>7. QueueInv'
  BY <1>6 DEF QueueInv
<1>8. TodoInv'
  <2>1. \A k \in todo' : k \in todo /\ k # j /\ k \in Jobs
    BY <1>1 DEF TypeOK
  <2> QED BY <1>1, <1>3, <2>1 DEF TodoInv
<1> QED BY <1>1, <1>3, <1>5, <1>7, <1>8

(* A completion is that of the oldest in the queue, or of none. *)
LEMMA CompleteInQueue ==
    ASSUME RingsInv, Complete, [Next]_vars
    PROVE  /\ QueueInv' /\ TodoInv'
           /\ irq.job # NoJob =>
                exec' = [exec EXCEPT ![Head(Queue(irq.accel))] = COMPLETE]
           /\ irq.job = NoJob => exec' = exec
<1> USE DEF RingsInv
<1> DEFINE k == irq.job
<1>0. PICK b \in Accels : b = irq.accel
  BY DEF TypeOK
<1>1. /\ irq.pc = "complete" /\ k \in Jobs \cup {NoJob}
      /\ exec' = Lowered(exec, k, COMPLETE) /\ UNCHANGED <<todo, host>>
  BY DEF Complete, TypeOK
<1>2. \A a \in Accels : Queue(a) \in Seq(Jobs)
  BY QueueType
<1>3. CASE k = NoJob
  <2>1. exec' = exec
    BY <1>1, <1>3 DEF Lowered
  <2>2. \A a \in Accels : Queue(a)' = Queue(a)
    BY <1>3, CompleteQueue
  <2>3. \A a \in Accels : InFlight(a)' = InFlight(a)
    BY <2>1 DEF InFlight
  <2>4. QueueInv'
    BY <1>1, <2>2, <2>3 DEF QueueInv
  <2>5. TodoInv'
    BY <1>1, <2>1 DEF TodoInv
  <2> QED BY <1>3, <2>1, <2>4, <2>5
<1>4. CASE k # NoJob
  <2>1. k \in Jobs /\ Queue(b) # <<>> /\ Head(Queue(b)) = k /\ Queue(b)' = Tail(Queue(b))
    <3>1. IF irq.accel = b /\ irq.job # NoJob
          THEN Queue(b) # <<>> /\ Head(Queue(b)) = irq.job /\ Queue(b)' = Tail(Queue(b))
          ELSE Queue(b)' = Queue(b)
      BY CompleteQueue
    <3>2. k \in Jobs
      BY <1>1, <1>4
    <3> QED BY <1>0, <1>4, <3>1, <3>2
  <2>2. Len(Queue(b)) > 0 /\ Queue(b)[1] = k /\ 1 \in 1 .. Len(Queue(b))
    BY <1>1, <1>2, <2>1
  <2>3. k \in InFlight(b) \ todo
    BY <1>1, <2>2 DEF QueueInv
  <2>4. exec' = [exec EXCEPT ![k] = COMPLETE]
    BY <1>1, <1>4, <2>3 DEF Lowered, InFlight, COMPLETE, RUNNING, SUBMITTED
  <2>5. \A j \in Jobs : j # k => exec'[j] = exec[j]
    BY <2>4 DEF TypeOK
  <2>6. \A a \in Accels, j \in Jobs : j \in InFlight(a) /\ j # k => j \in InFlight(a)'
    BY <2>5 DEF InFlight
  <2>7. ASSUME NEW a \in Accels
        PROVE  /\ Len(Queue(a)') <= Size[a]
               /\ \A m \in 1 .. Len(Queue(a)') : Queue(a)'[m] \in InFlight(a)' \ todo'
               /\ \A m, n \in 1 .. Len(Queue(a)') : m # n => Queue(a)'[m] # Queue(a)'[n]
    <3>1. CASE a = b
      <4> DEFINE q == Queue(a)
                 r == Queue(a)'
                 S == InFlight(a) \ todo
                 T == InFlight(a)' \ todo'
      <4>1. q \in Seq(Jobs) /\ Len(q) <= Size[a] /\ q # <<>> /\ r = Tail(q) /\ q[1] = k
            /\ Size[a] \in Nat
            /\ (\A m \in 1 .. Len(q) : q[m] \in S)
            /\ (\A m, n \in 1 .. Len(q) : m # n => q[m] # q[n])
        <5>1. q \in Seq(Jobs) /\ Size[a] \in Nat
          BY <1>2, SizeAssumption
        <5>2. q # <<>> /\ r = Tail(q) /\ q[1] = k
          BY <2>1, <2>2, <3>1
        <5>3. /\ Len(q) <= Size[a]
              /\ \A m \in 1 .. Len(q) : q[m] \in S
              /\ \A m, n \in 1 .. Len(q) : m # n => q[m] # q[n]
          BY DEF QueueInv
        <5> QED BY <5>1, <5>2, <5>3
      <4>2. \A j \in S : j # k => j \in T
        BY <1>1, <2>6 DEF InFlight
      <4> HIDE DEF q, r, S, T
      <4>3. Len(r) = Len(q) - 1 /\ Len(q) \in Nat /\ \A m \in 1 .. Len(r) : r[m] = q[m + 1]
        BY <4>1
      <4>4. \A m \in 1 .. Len(r) : m + 1 \in 1 .. Len(q) /\ m + 1 # 1
        BY <4>3
      <4>5. \A m \in 1 .. Len(r) : r[m] \in T
        <5> SUFFICES ASSUME NEW m \in 1 .. Len(r) PROVE r[m] \in T
          OBVIOUS
        <5>1. 1 \in 1 .. Len(q) /\ m + 1 \in 1 .. Len(q) /\ m + 1 # 1
          BY <4>3, <4>4
        <5>2. q[m + 1] \in S /\ q[m + 1] # k
          BY <4>1, <5>1
        <5> QED BY <4>2, <4>3, <5>2
      <4>6. \A m, n \in 1 .. Len(r) : m # n => r[m] # r[n]
        <5> SUFFICES ASSUME NEW m \in 1 .. Len(r), NEW n \in 1 .. Len(r), m # n
                     PROVE  r[m] # r[n]
          OBVIOUS
        <5>1. m + 1 \in 1 .. Len(q) /\ n + 1 \in 1 .. Len(q) /\ m + 1 # n + 1
          BY <4>3, <4>4
        <5> QED BY <4>1, <4>3, <5>1
      <4>7. Len(r) <= Size[a]
        BY <4>1, <4>3
      <4> QED BY <4>5, <4>6, <4>7 DEF r, T
    <3>2. CASE a # b
      <4>1. Queue(a)' = Queue(a)
        BY <1>0, <3>2, CompleteQueue
      <4>2. \A m \in 1 .. Len(Queue(a)) : Queue(a)[m] \in InFlight(a)' \ todo'
        <5> SUFFICES ASSUME NEW m \in 1 .. Len(Queue(a))
                     PROVE  Queue(a)[m] \in InFlight(a)' \ todo'
          OBVIOUS
        <5>1. Queue(a)[m] \in InFlight(a) \ todo
          BY DEF QueueInv
        <5>2. Queue(a)[m] # k
          BY <2>3, <3>2, <5>1 DEF InFlight
        <5> QED BY <1>1, <2>6, <5>1, <5>2 DEF InFlight
      <4> QED BY <4>1, <4>2 DEF QueueInv
    <3> QED BY <3>1, <3>2
  <2>8. QueueInv'
    BY <2>7 DEF QueueInv
  <2>9. TodoInv'
    BY <1>1, <2>3, <2>5 DEF TodoInv, TypeOK
  <2> QED BY <1>0, <1>4, <2>1, <2>4, <2>8, <2>9
<1> QED BY <1>3, <1>4

(* A reset keeps the queues of the other devices and the one completing. *)
LEMMA ResetInQueue ==
    ASSUME RingsInv, TypeOK', HostInv', IrqInv', ResetsComeLast,
           NEW device \in Resets, NEW past \in Stray, Reset(device, past)
    PROVE  QueueInv' /\ TodoInv'
<1> USE DEF RingsInv
<1>1. todo = {} /\ todo' = todo /\ device \subseteq Accels
  BY ResetsAssumption DEF Reset, ResetsComeLast
<1>2. \A a \in Accels : Queue(a) \in Seq(Jobs) /\ Size[a] \in Nat \ {0}
  BY QueueType, SizeAssumption
<1>3. ASSUME NEW a \in Accels, NEW j \in InFlight(a),
             a \in device => \A m \in 1 .. Len(Held(a)) : Held(a)[m] # j
      PROVE  j \in InFlight(a)' \ todo'
  <2>1. j \in Jobs /\ AccelOf[j] = a
    BY DEF InFlight
  <2>2. exec'[j] = exec[j]
    BY <1>3, <2>1, ResetExec
  <2> QED BY <1>1, <2>2 DEF InFlight
<1>4. ASSUME NEW a \in Accels
      PROVE  /\ Len(Queue(a)') <= Size[a]
             /\ \A m \in 1 .. Len(Queue(a)') : Queue(a)'[m] \in InFlight(a)' \ todo'
             /\ \A m, n \in 1 .. Len(Queue(a)') : m # n => Queue(a)'[m] # Queue(a)'[n]
  <2>1. CASE a \in device /\ Completing(a)
    <3>1. Queue(a)' = <<irq.job>>
      BY <2>1, ResetQueue
    <3>2. Len(Queue(a)) > 0 /\ Queue(a)[1] = irq.job
      <4>1. irq.job \in Jobs
        BY <2>1 DEF Completing, TypeOK
      <4> DEFINE h == Held(a)
                 x == irq.job
      <4>2. h \in Seq(Jobs) /\ x \in Jobs /\ Queue(a) = (<<x>> \o h) \o <<>>
        <5>1. ~Launching(a)
          BY DEF Reset, Launching
        <5> QED BY <2>1, <4>1, <5>1, QueueType DEF Queue
      <4> HIDE DEF h, x
      <4>3. Len((<<x>> \o h) \o <<>>) > 0 /\ ((<<x>> \o h) \o <<>>)[1] = x
        BY <4>2
      <4> QED BY <4>2, <4>3 DEF x
    <3>3. irq.job \in InFlight(a)
      <4>1. 1 \in 1 .. Len(Queue(a))
        BY <1>2, <3>2
      <4> QED BY <3>2, <4>1 DEF QueueInv
    <3>4. \A m \in 1 .. Len(Held(a)) : Held(a)[m] # irq.job
      <4> SUFFICES ASSUME NEW m \in 1 .. Len(Held(a)) PROVE Held(a)[m] # irq.job
        OBVIOUS
      <4>1. /\ 1 \in 1 .. Len(Queue(a)) /\ Queue(a)[1] = irq.job
            /\ m + 1 \in 1 .. Len(Queue(a)) /\ Queue(a)[m + 1] = Held(a)[m]
        BY <2>1, HeldInQueue
      <4>2. m + 1 # 1
        <5>1. Held(a) \in Seq(Jobs)
          BY QueueType
        <5> QED BY <5>1
      <4> QED BY <4>1, <4>2 DEF QueueInv
    <3>5. irq.job \in InFlight(a)' \ todo'
      BY <1>3, <3>3, <3>4
    <3> QED BY <1>2, <3>1, <3>5
  <2>2. CASE a \in device /\ ~Completing(a)
    <3>1. Queue(a)' = <<>>
      BY <2>2, ResetQueue
    <3> QED BY <1>2, <3>1
  <2>3. CASE a \notin device
    <3>1. Queue(a)' = Queue(a)
      BY <2>3, ResetQueue
    <3> QED BY <1>3, <2>3, <3>1 DEF QueueInv
  <2> QED BY <2>1, <2>2, <2>3
<1>5. QueueInv'
  BY <1>4 DEF QueueInv
<1>6. TodoInv'
  BY <1>1 DEF TodoInv
<1> QED BY <1>5, <1>6

(* Every step keeps the queues and the invocations still to be launched apart. *)
LEMMA QueueStep ==
    ASSUME RingsInv, OrderInv, TypeOK', HostInv', IrqInv', ResetsComeLast,
           StreamingIsNewer, OvertakenHaveRoom, [Next]_vars
    PROVE  QueueInv' /\ TodoInv'
<1> USE DEF RingsInv
<1>1. CASE \E j \in Jobs : Launch(j)
  BY <1>1, LaunchInQueue
<1>2. CASE Complete
  BY <1>2, CompleteInQueue
<1>3. CASE \E device \in Resets, past \in Stray : Reset(device, past)
  BY <1>3, ResetInQueue
<1>4. CASE /\ \A j \in Jobs : ~Launch(j)
           /\ ~Complete
           /\ \A device \in Resets, past \in Stray : ~Reset(device, past)
  <2>1. \A a \in Accels : Queue(a)' = Queue(a)
    BY <1>4, QueueKept
  <2>2. /\ todo' = todo
        /\ \/ exec' = exec
           \/ \E j \in Jobs : exec[j] = SUBMITTED /\ j \notin todo
                              /\ exec' = [exec EXCEPT ![j] = RUNNING]
    BY <1>4, RunningStep
  <2>3. \A a \in Accels : InFlight(a) \subseteq InFlight(a)'
    BY <2>2 DEF InFlight, TypeOK
  <2>4. QueueInv'
    BY <2>1, <2>2, <2>3 DEF QueueInv
  <2>5. \A j \in todo : exec'[j] = QUEUED
    BY <2>2 DEF TodoInv, TypeOK
  <2>6. host'.pc \in Launches => host'.job \notin todo'
    <3>1. CASE host' = HostIdle
      BY <3>1 DEF HostIdle, Launches
    <3>2. CASE host'.pc \in Launches => host.pc \in Launches /\ host'.job = host.job
      BY <2>2, <3>2 DEF TodoInv
    <3>3. \/ host' = HostIdle
          \/ host'.pc \in Launches => host.pc \in Launches /\ host'.job = host.job
      <4>1. CASE WriteImage \/ EnterRing \/ Announce
        BY <4>1, ZenonT(60)
        DEF WriteImage, EnterRing, Announce, Launches, TypeOK
      <4>2. CASE WriteStart \/ Resume \/ Unstall
        <5>1. \/ host' = HostIdle
              \/ host' = [host EXCEPT !.pc = "unstall", !.csr = stall_bit[AccelOf[host.job]]]
          BY <4>2 DEF WriteStart, Resume, Unstall
        <5> QED BY <5>1, ZenonT(60) DEF TypeOK, Launches
      <4>3. CASE ClearPending
        BY <4>3 DEF ClearPending, Launches, TypeOK
      <4>4. CASE \E j \in Jobs : PickUp(j)
        BY <4>4 DEF PickUp, HostIdle, Launches
      <4>5. CASE UNCHANGED host
        BY <4>5
      <4>6. StoreSeen => UNCHANGED host
        BY DEF StoreSeen
      <4> QED BY <1>4, <4>1, <4>2, <4>3, <4>4, <4>5, <4>6, ThreadFrames DEF Host
    <3> QED BY <3>1, <3>2, <3>3
  <2> QED BY <2>2, <2>4, <2>5, <2>6 DEF TodoInv
<1> QED BY <1>1, <1>2, <1>3, <1>4

-----------------------------------------------------------------------------
(* The initial state.                                                        *)
LEMMA InitInv == Init => IInv
<1> SUFFICES ASSUME Init PROVE IInv
  OBVIOUS
<1>1. TypeOK
  BY InitType
<1>2. host.pc = "idle" /\ irq.pc = "idle" /\ unseen = NoJob
  BY DEF Init, HostIdle, IrqIdle
<1>3. HostInv /\ IrqInv
  BY <1>2 DEF HostInv, IrqInv, Launches, Delivers
<1>4. ASSUME NEW a \in Accels
      PROVE  RingUp(a) /\ Held(a) = <<>>
  <2>1. /\ Size[a] \in Nat \ {0} /\ Oldest(a) = 0
        /\ Cells(a) \in [0 .. Size[a] - 1 -> Jobs \cup {NoJob}]
        /\ NextIndex(a, front[a]) = 0
    <3>1. Size[a] \in Nat \ {0} /\ front[a] = -1 /\ back[a] = -1
      BY SizeAssumption DEF Init
    <3>2. NextIndex(a, -1) = 0
      BY <3>1 DEF NextIndex
    <3> QED BY <1>1, <1>2, <1>3, <3>1, <3>2, CellsType DEF Oldest
  <2>2. \A i \in 0 .. Size[a] - 1 : Cells(a)[i] = NoJob
    BY <1>2, <2>1 DEF Cells, Init
  <2>3. <<>> \in Seq(Jobs) /\ 0 \in 0 .. Size[a] - 1
    BY <2>1
  <2>4. Layout(Cells(a), 0, Size[a], <<>>)
    BY <2>1, <2>2, <2>3, EmptyLayout
  <2>5. Held(a) = <<>>
    BY <2>1, <2>3, <2>4, EntriesAre DEF Held
  <2>6. Slot(Size[a], 0, Len(Held(a)) - One(Unannounced(a))) = 0
    BY <1>2, <2>1, <2>5 DEF Slot, One, Unannounced
  <2>7. Waiting(a) + Len(hw[a]) + One(Entered(a)) <= Len(Held(a))
    <3>1. Waiting(a) = 0 /\ One(Entered(a)) = 0
      BY <1>2 DEF Waiting, Entered, One, Init, Delivers
    <3>2. hw[a] = <<>>
      BY DEF Init
    <3> QED BY <2>5, <3>1, <3>2
  <2> QED BY <1>2, <2>1, <2>3, <2>4, <2>5, <2>6, <2>7 DEF RingUp, Entered
<1>5. RingInv
  BY <1>4 DEF RingInv
<1>6. QueueInv
  <2>1. \A a \in Accels : Queue(a) = <<>>
    BY <1>2, <1>4 DEF Queue, Completing, Launching
  <2>2. \A a \in Accels : Size[a] \in Nat
    BY SizeAssumption
  <2> QED BY <2>1, <2>2 DEF QueueInv
<1>7. TodoInv
  BY <1>1, <1>2 DEF TodoInv, Init, TypeOK, Launches
<1>8. CacheInv
  BY <1>2 DEF CacheInv, Init
<1> QED BY <1>1, <1>3, <1>5, <1>6, <1>7, <1>8 DEF IInv

(* What holds whatever the host does: the types, the two threads each in a   *)
(* place of its own code, and the caches.                                    *)
LEMMA ThreadsInvariance == Spec => [](TypeOK /\ HostInv /\ IrqInv /\ CacheInv)
<1>1. Init => TypeOK /\ HostInv /\ IrqInv /\ CacheInv
  BY InitInv DEF IInv
<1>2. TypeOK /\ HostInv /\ IrqInv /\ CacheInv /\ [Next]_vars
        => (TypeOK /\ HostInv /\ IrqInv /\ CacheInv)'
  BY TypeStep, HostStep, IrqStep, CacheStep
<1> QED BY <1>1, <1>2, PTL DEF Spec

(* Nothing is launched at first. *)
LEMMA InitOrder == Init => OrderInv
<1> SUFFICES ASSUME Init PROVE OrderInv
  OBVIOUS
<1>1. todo \in Workloads /\ \A a \in Accels : InFlight(a) = {}
  BY DEF Init, InFlight, QUEUED, RUNNING, SUBMITTED
<1> QED BY <1>1 DEF OrderInv

(* The inductive invariant, with the order of the launches. *)
LEMMA Invariance ==
    ASSUME ResetsComeLast, StreamingIsNewer, OvertakenHaveRoom
    PROVE  Spec => [](IInv /\ OrderInv)
<1>1. Init => IInv /\ OrderInv
  BY InitInv, InitOrder
<1>2. IInv /\ OrderInv /\ [Next]_vars => IInv' /\ OrderInv'
  <2> SUFFICES ASSUME IInv, OrderInv, [Next]_vars PROVE IInv' /\ OrderInv'
    OBVIOUS
  <2>1. TypeOK' /\ HostInv' /\ IrqInv' /\ CacheInv'
    BY TypeStep, HostStep, IrqStep, CacheStep DEF IInv
  <2>2. RingInv'
    BY <2>1, RingStep DEF IInv
  <2>3. QueueInv' /\ TodoInv'
    BY <2>1, QueueStep DEF IInv, RingsInv
  <2>4. OrderInv'
    BY OrderStep DEF IInv, RingsInv
  <2> QED BY <2>1, <2>2, <2>3, <2>4 DEF IInv
<1> QED BY <1>1, <1>2, PTL DEF Spec

-----------------------------------------------------------------------------
(* The variables of the kernel interface keep their types: in particular the *)
(* indices of a ring stay inside it, whatever the two threads do.            *)
THEOREM TypeCorrect == Spec => []TypeOK
BY ThreadsInvariance, PTL

(* Every invocation is started with its own image and arguments, although    *)
(* the host writes only the registers whose cached copy differs.             *)
THEOREM StartsItsInvocation == Spec => []RunsItsInvocation
<1> DEFINE Threads == TypeOK /\ HostInv /\ IrqInv /\ CacheInv
<1>1. Init => RunsItsInvocation
  BY DEF Init, RunsItsInvocation
<1>2. Threads /\ RunsItsInvocation /\ [Next]_vars => RunsItsInvocation'
  <2> SUFFICES ASSUME Threads, RunsItsInvocation, [Next]_vars PROVE RunsItsInvocation'
    OBVIOUS
  <2> DEFINE Right(start, a) == /\ a \notin Streaming => start.regs.image = Job[start.job].image
                                /\ start.regs.args = Job[start.job].args
             T == [job : Jobs, regs : Registers]
  <2> SUFFICES ASSUME NEW a \in Accels PROVE \A i \in DOMAIN hw'[a] : Right(hw'[a][i], a)
    BY DEF RunsItsInvocation
  <2>1. hw[a] \in Seq(T) /\ \A i \in 1 .. Len(hw[a]) : Right(hw[a][i], a)
    <3>1. hw[a] \in Seq(T)
      BY DEF TypeOK
    <3>2. \A i \in DOMAIN hw[a] : Right(hw[a][i], a)
      BY DEF RunsItsInvocation
    <3> HIDE DEF T, Right
    <3>3. DOMAIN hw[a] = 1 .. Len(hw[a])
      BY <3>1
    <3> QED BY <3>1, <3>2, <3>3
  <2>2. CASE hw'[a] = hw[a]
    BY <2>1, <2>2
  <2>3. CASE WriteStart /\ AccelOf[host.job] = a
    <3> DEFINE new == [job |-> host.job, regs |-> cra[a]]
    <3>1. hw'[a] = Append(hw[a], new)
      BY <2>3 DEF WriteStart, TypeOK
    <3>2. Right(new, a)
      BY <2>3 DEF WriteStart, CacheInv
    <3>3. new \in T
      BY <2>3 DEF WriteStart, HostInv, TypeOK
    <3> DEFINE s == hw[a]
    <3> HIDE DEF Right, new, s, T
    <3>4. s \in Seq(T) /\ \A i \in 1 .. Len(s) : Right(s[i], a)
      BY <2>1 DEF s
    <3>5. Len(Append(s, new)) = Len(s) + 1 /\ Append(s, new)[Len(s) + 1] = new
          /\ \A i \in 1 .. Len(s) : Append(s, new)[i] = s[i]
      BY <3>3, <3>4
    <3>6. \A i \in 1 .. Len(s) + 1 : i \in 1 .. Len(s) \/ i = Len(s) + 1
      BY <3>4
    <3>7. \A i \in 1 .. Len(Append(s, new)) : Right(Append(s, new)[i], a)
      BY <3>2, <3>4, <3>5, <3>6
    <3>8. DOMAIN Append(s, new) = 1 .. Len(Append(s, new))
      BY <3>3, <3>4
    <3> QED BY <3>1, <3>7, <3>8 DEF s
  <2>4. CASE hw[a] # <<>> /\ hw'[a] = Tail(hw[a])
    <3> DEFINE s == hw[a]
    <3> HIDE DEF Right, s, T
    <3>1. s \in Seq(T) /\ s # <<>> /\ \A i \in 1 .. Len(s) : Right(s[i], a)
      BY <2>1, <2>4 DEF s
    <3>2. \A i \in 1 .. Len(Tail(s)) : i + 1 \in 1 .. Len(s) /\ Tail(s)[i] = s[i + 1]
      BY <3>1
    <3>3. DOMAIN Tail(s) = 1 .. Len(Tail(s))
      BY <3>1
    <3>4. \A i \in DOMAIN Tail(s) : Right(Tail(s)[i], a)
      BY <3>1, <3>2, <3>3
    <3> QED BY <2>4, <3>4 DEF s
  <2>5. CASE hw'[a] = <<>>
    BY <2>5
  <2>6. \/ hw'[a] = hw[a]
        \/ WriteStart /\ AccelOf[host.job] = a
        \/ hw[a] # <<>> /\ hw'[a] = Tail(hw[a])
        \/ hw'[a] = <<>>
    <3>1. CASE WriteStart
      BY <3>1 DEF WriteStart, TypeOK
    <3>2. ASSUME NEW b \in Accels, Finish(b)
          PROVE  hw'[a] = hw[a] \/ (hw[a] # <<>> /\ hw'[a] = Tail(hw[a]))
      <4>1. hw' = [hw EXCEPT ![b] = Tail(hw[b])] /\ hw[b] # <<>>
        BY <3>2 DEF Finish
      <4>2. DOMAIN hw = Accels
        BY DEF TypeOK
      <4> QED BY <4>1, <4>2
    <3>3. ASSUME NEW device \in Resets, NEW past \in Stray, Reset(device, past)
          PROVE  hw'[a] = hw[a] \/ hw'[a] = <<>>
      BY <3>3 DEF Reset
    <3>4. CASE UNCHANGED hw
      BY <3>4, Zenon
    <3>5. \/ WriteStart \/ (\E b \in Accels : Finish(b)) \/ UNCHANGED hw
          \/ \E device \in Resets, past \in Stray : Reset(device, past)
      BY Zenon
      DEF Next, Host, Handler, vars, hwVars, Launch, PickUp, WriteImage, EnterRing, Announce,
             ClearPending, Resume, Unstall, Query, PendStall, FlagStall, ClearStallBit,
             Retire, Complete, Advance, AnnounceNext, StoreSeen, DebugDump, Stall
    <3> QED BY <3>1, <3>2, <3>3, <3>4, <3>5
  <2> QED BY <2>2, <2>3, <2>4, <2>5, <2>6
<1> QED BY <1>1, <1>2, ThreadsInvariance, PTL DEF Spec

(* A launch finds the entry it is going to write empty, as the entry was     *)
(* cleared before the completion that made room for the launch was reported, *)
(* if an accelerator of which an invocation is overtaken has entries for all *)
(* it is given: the device operation queue does not see to that.             *)
THEOREM LaunchFindsSlot ==
    ASSUME ResetsComeLast, StreamingIsNewer, OvertakenHaveRoom
    PROVE  Spec => []SlotFreeAtLaunch
<1>1. IInv => SlotFreeAtLaunch
  <2> SUFFICES ASSUME IInv, host.pc \in {"image", "enter"}
               PROVE  job_ids[AccelOf[host.job]][host.next] = NoJob
    BY DEF SlotFreeAtLaunch
  <2> USE DEF IInv
  <2> DEFINE a == AccelOf[host.job]
  <2>1. host.job \in Jobs /\ a \in Accels /\ unseen = NoJob
    BY AccelOfType DEF HostInv
  <2>2. RingUp(a)
    BY <2>1 DEF RingInv, RingDown, Launches
  <2>3. Held(a) \in Seq(Jobs) /\ Layout(Cells(a), Oldest(a), Size[a], Held(a))
    BY <2>2 DEF RingUp
  <2>4. Size[a] \in Nat \ {0} /\ Oldest(a) \in 0 .. Size[a] - 1
    BY <2>1, CellsType
  <2>5. Len(Held(a)) < Size[a]
    <3>1. Queue(a) = (IF Completing(a) THEN <<irq.job>> ELSE <<>>) \o Held(a) \o <<host.job>>
      BY DEF Queue, Launching
    <3>2. Len(Queue(a)) >= Len(Held(a)) + 1
      BY <2>3, <3>1
    <3>3. Len(Queue(a)) <= Size[a] /\ Len(Queue(a)) \in Nat
      BY <2>1, QueueType DEF QueueInv
    <3> QED BY <2>3, <2>4, <3>2, <3>3
  <2>6. host.next = Slot(Size[a], Oldest(a), Len(Held(a)))
    BY <2>2, <2>3 DEF HostInv, Launches, RingUp, One, Unannounced
  <2>7. Cells(a)[host.next] = NoJob
    <3>1. Len(Held(a)) + 1 \in Len(Held(a)) + 1 .. Size[a] /\ (Len(Held(a)) + 1) - 1 = Len(Held(a))
      BY <2>3, <2>4, <2>5
    <3> QED BY <2>3, <2>6, <3>1 DEF Layout
  <2>8. host.next \in DOMAIN job_ids[a]
    <3>1. host.next \in 0 .. Size[a] - 1
      BY <2>3, <2>4, <2>5, <2>6 DEF Slot
    <3> QED BY <2>1, <3>1 DEF TypeOK
  <2> QED BY <2>1, <2>7, <2>8 DEF Cells
<1> QED BY <1>1, Invariance, PTL

-----------------------------------------------------------------------------
(* The refinement of the queue each accelerator promises to be.              *)

(* The queues as the abstract specification sees them. *)
Queues == [a \in Accels |-> Queue(a)]

(* All queues are empty at first and no invocation has been launched. *)
LEMMA FifoStart == Init => Fifo!FifoInit
<1> SUFFICES ASSUME Init PROVE Fifo!FifoInit
  OBVIOUS
<1>1. IInv
  BY InitInv
<1>2. ASSUME NEW a \in Accels PROVE Queue(a) = <<>>
  <2>1. host.pc = "idle" /\ irq.pc = "idle" /\ exec = [j \in Jobs |-> QUEUED]
    BY DEF Init, HostIdle, IrqIdle
  <2>2. Queue(a) \in Seq(Jobs)
    BY <1>1, QueueType DEF IInv
  <2>3. Len(Queue(a)) = 0
    <3> SUFFICES ASSUME Len(Queue(a)) # 0 PROVE FALSE
      OBVIOUS
    <3>1. 1 \in 1 .. Len(Queue(a))
      BY <2>2
    <3>2. Queue(a)[1] \in InFlight(a)
      BY <1>1, <3>1 DEF IInv, QueueInv
    <3> QED BY <2>1, <3>2 DEF InFlight, QUEUED, RUNNING, SUBMITTED
  <2> QED BY <2>2, <2>3
<1>3. exec = [j \in Jobs |-> Fifo!QUEUED]
  BY DEF Init, QUEUED, Fifo!QUEUED
<1> QED BY <1>2, <1>3 DEF Fifo!FifoInit

(* A launch is accepted behind the others. *)
LEMMA FifoAccept ==
    ASSUME RingsInv, OrderInv, OvertakenHaveRoom, NEW j \in Jobs, Launch(j), [Next]_vars
    PROVE  Fifo!Accept(j)
<1>1. AccelOf[j] \in Accels
  BY AccelOfType
<1>2. /\ exec[j] = QUEUED /\ exec' = [exec EXCEPT ![j] = SUBMITTED]
      /\ Len(Queue(AccelOf[j])) < Size[AccelOf[j]]
  BY LaunchInQueue
<1>3. \A a \in Accels : Queue(a)' = IF AccelOf[j] = a THEN Append(Queue(a), j) ELSE Queue(a)
  BY LaunchQueue
<1>4. Queues' = [Queues EXCEPT ![AccelOf[j]] = Append(@, j)]
  BY <1>1, <1>3 DEF Queues
<1>5. Len(Queues[AccelOf[j]]) < Size[AccelOf[j]]
  BY <1>1, <1>2 DEF Queues
<1> QED BY <1>2, <1>4, <1>5
        DEF Fifo!Accept, Fifo!QUEUED, Fifo!SUBMITTED, QUEUED, SUBMITTED, Queues

(* A completion takes the oldest. *)
LEMMA FifoComplete ==
    ASSUME RingsInv, Complete, [Next]_vars
    PROVE  (\E a \in Accels : Fifo!CompleteOldest(a)) \/ UNCHANGED <<Queues, exec>>
<1>0. PICK b \in Accels : b = irq.accel
  BY DEF RingsInv, TypeOK
<1>1. \A a \in Accels : IF b = a /\ irq.job # NoJob
                        THEN /\ Queue(a) # <<>> /\ Head(Queue(a)) = irq.job
                             /\ Queue(a)' = Tail(Queue(a))
                        ELSE Queue(a)' = Queue(a)
  BY <1>0, CompleteQueue
<1>2. CASE irq.job = NoJob
  <2>1. exec' = exec
    BY <1>2, CompleteInQueue
  <2> QED BY <1>1, <1>2, <2>1 DEF Queues
<1>3. CASE irq.job # NoJob
  <2>1. exec' = [exec EXCEPT ![Head(Queue(b))] = COMPLETE]
    BY <1>0, <1>3, CompleteInQueue
  <2>2. Queues' = [Queues EXCEPT ![b] = Tail(@)] /\ Queues[b] # <<>>
    BY <1>1, <1>3 DEF Queues
  <2>3. Fifo!CompleteOldest(b)
    BY <2>1, <2>2 DEF Fifo!CompleteOldest, Fifo!COMPLETE, COMPLETE, Queues
  <2> QED BY <2>3
<1> QED BY <1>2, <1>3

(* A reset ends what the rings of its accelerators hold. *)
LEMMA FifoAbort ==
    ASSUME RingsInv, TypeOK', HostInv', IrqInv', ResetsComeLast,
           NEW device \in Resets, NEW past \in Stray, Reset(device, past)
    PROVE  Fifo!Abort(device)
<1> USE DEF RingsInv
<1> DEFINE kept == {a \in device : Completing(a)}
           left(a) == IF a \in kept THEN <<Head(Queues[a])>> ELSE <<>>
           ended(a) == Fifo!ToSet(Queues[a]) \ Fifo!ToSet(left(a))
<1>1. device \subseteq Accels /\ ~\E a \in Accels : Launching(a)
  BY ResetsAssumption DEF Reset, Launching
<1>2. ASSUME NEW a \in device
      PROVE  /\ Queue(a) = (IF Completing(a) THEN <<irq.job>> ELSE <<>>) \o Held(a)
             /\ Held(a) \in Seq(Jobs) /\ (Completing(a) => irq.job \in Jobs)
             /\ Completing(a) => \A m \in 1 .. Len(Held(a)) : Held(a)[m] # irq.job
  <2>0. a \in Accels
    BY <1>1
  <2>1. Held(a) \in Seq(Jobs)
    BY <2>0, QueueType
  <2>2. Completing(a) => irq.job \in Jobs
    BY DEF Completing, TypeOK
  <2>3. Queue(a) = (IF Completing(a) THEN <<irq.job>> ELSE <<>>) \o Held(a)
    <3> DEFINE c == IF Completing(a) THEN <<irq.job>> ELSE <<>>
               h == Held(a)
    <3>1. Queue(a) = (c \o h) \o <<>> /\ h \in Seq(Jobs) /\ c \in Seq(Jobs)
      <4>1. ~Launching(a)
        BY <1>1, <2>0
      <4>2. Queue(a) = (c \o h) \o <<>>
        BY <4>1 DEF Queue
      <4>3. c \in Seq(Jobs)
        BY <2>2
      <4> QED BY <2>1, <4>2, <4>3
    <3> HIDE DEF c, h
    <3>2. Queue(a) = c \o h
      BY <3>1
    <3> QED BY <3>2 DEF c, h
  <2>4. ASSUME Completing(a), NEW m \in 1 .. Len(Held(a)) PROVE Held(a)[m] # irq.job
    <3>1. /\ 1 \in 1 .. Len(Queue(a)) /\ Queue(a)[1] = irq.job
          /\ m + 1 \in 1 .. Len(Queue(a)) /\ Queue(a)[m + 1] = Held(a)[m]
      BY <2>0, <2>4, HeldInQueue
    <3>2. m + 1 # 1
      BY <2>1
    <3> QED BY <2>0, <3>1, <3>2 DEF QueueInv
  <2> QED BY <2>1, <2>2, <2>3, <2>4
<1>3. ASSUME NEW a \in device
      PROVE  /\ Completing(a) => Queue(a) # <<>> /\ left(a) = <<irq.job>>
             /\ ended(a) = {Held(a)[m] : m \in 1 .. Len(Held(a))}
  <2> DEFINE h == Held(a)
             x == irq.job
  <2>1. Queues[a] = Queue(a)
    BY <1>1 DEF Queues
  <2>2. h \in Seq(Jobs) /\ \A m \in 1 .. Len(h) : Completing(a) => h[m] # x
    BY <1>2
  <2>3. CASE Completing(a)
    <3>1. Queue(a) = <<x>> \o h /\ x \in Jobs
      BY <1>2, <2>3
    <3> HIDE DEF h, x
    <3>2. /\ <<x>> \o h # <<>> /\ Head(<<x>> \o h) = x
          /\ Len(<<x>> \o h) = Len(h) + 1 /\ (<<x>> \o h)[1] = x
          /\ \A m \in 1 .. Len(h) : (<<x>> \o h)[m + 1] = h[m]
          /\ DOMAIN (<<x>> \o h) = 1 .. Len(h) + 1
      BY <2>2, <3>1
    <3>3. left(a) = <<x>> /\ Queue(a) # <<>>
      BY <2>1, <2>3, <3>1, <3>2
    <3>4. Fifo!ToSet(<<x>>) = {x}
      BY DEF Fifo!ToSet
    <3>5. Fifo!ToSet(<<x>> \o h) = {x} \cup {h[m] : m \in 1 .. Len(h)}
      <4>1. Fifo!ToSet(<<x>> \o h) = {(<<x>> \o h)[i] : i \in 1 .. Len(h) + 1}
        BY <3>2 DEF Fifo!ToSet
      <4>2. \A i \in 1 .. Len(h) + 1 : i = 1 \/ (i - 1 \in 1 .. Len(h) /\ (i - 1) + 1 = i)
        BY <2>2
      <4>3. \A m \in 1 .. Len(h) : m + 1 \in 1 .. Len(h) + 1
        BY <2>2
      <4>4. 1 \in 1 .. Len(h) + 1
        BY <2>2
      <4> DEFINE s == <<x>> \o h
      <4>5. /\ s[1] = x /\ \A m \in 1 .. Len(h) : s[m + 1] = h[m]
        BY <3>2
      <4> HIDE DEF s
      <4>6. \A i \in 1 .. Len(h) + 1 : s[i] \in {x} \cup {h[m] : m \in 1 .. Len(h)}
          <5> SUFFICES ASSUME NEW i \in 1 .. Len(h) + 1
                       PROVE  s[i] \in {x} \cup {h[m] : m \in 1 .. Len(h)}
            OBVIOUS
          <5>1. CASE i = 1
            BY <4>5, <5>1
          <5>2. CASE i # 1
            <6>1. PICK m \in 1 .. Len(h) : m + 1 = i
              BY <4>2, <5>2
            <6> QED BY <4>5, <6>1
          <5> QED BY <5>1, <5>2
      <4>7. \A y \in {x} \cup {h[m] : m \in 1 .. Len(h)} : \E i \in 1 .. Len(h) + 1 : s[i] = y
        BY <4>3, <4>4, <4>5
      <4>8. {s[i] : i \in 1 .. Len(h) + 1} = {x} \cup {h[m] : m \in 1 .. Len(h)}
        BY <4>6, <4>7
      <4> QED BY <4>1, <4>8 DEF s
    <3>6. x \notin {h[m] : m \in 1 .. Len(h)}
      BY <2>2, <2>3
    <3>7. ended(a) = {h[m] : m \in 1 .. Len(h)}
      BY <2>1, <3>1, <3>3, <3>4, <3>5, <3>6
    <3> QED BY <3>3, <3>7 DEF h, x
  <2>4. CASE ~Completing(a)
    <3>1. Queue(a) = <<>> \o h
      BY <1>2, <2>4
    <3> HIDE DEF h
    <3>2. Queue(a) = h
      BY <2>2, <3>1
    <3>3. left(a) = <<>>
      BY <2>4
    <3>4. Fifo!ToSet(<<>>) = {} /\ Fifo!ToSet(h) = {h[m] : m \in 1 .. Len(h)}
      BY <2>2 DEF Fifo!ToSet
    <3>5. ended(a) = {h[m] : m \in 1 .. Len(h)}
      BY <2>1, <3>2, <3>3, <3>4
    <3> QED BY <2>4, <3>5 DEF h
  <2> QED BY <2>3, <2>4
<1>4. \A a \in kept : Queues[a] # <<>>
  BY <1>1, <1>3 DEF Queues
<1>5. Queues' = [a \in Accels |-> IF a \in device THEN left(a) ELSE Queues[a]]
  <2>1. ASSUME NEW a \in Accels
        PROVE  Queue(a)' = IF a \in device THEN left(a) ELSE Queues[a]
    <3>1. Queue(a)' = IF a \in device THEN IF Completing(a) THEN <<irq.job>> ELSE <<>>
                      ELSE Queue(a)
      BY ResetQueue
    <3> QED BY <1>3, <3>1 DEF Queues
  <2> HIDE DEF left
  <2> QED BY <2>1 DEF Queues
<1>6. exec' = [j \in Jobs |-> IF AccelOf[j] \in device /\ j \in ended(AccelOf[j])
                               THEN FAILED ELSE exec[j]]
  <2>1. ASSUME NEW j \in Jobs
        PROVE  exec'[j] = IF AccelOf[j] \in device /\ j \in ended(AccelOf[j])
                          THEN FAILED ELSE exec[j]
    <3>1. exec'[j] = IF AccelOf[j] \in device
                        /\ \E m \in 1 .. Len(Held(AccelOf[j])) : Held(AccelOf[j])[m] = j
                     THEN FAILED ELSE exec[j]
      BY ResetExec
    <3>2. AccelOf[j] \in device =>
            (j \in ended(AccelOf[j]) <=>
               \E m \in 1 .. Len(Held(AccelOf[j])) : Held(AccelOf[j])[m] = j)
      <4> HIDE DEF ended
      <4> QED BY <1>3
    <3> HIDE DEF ended
    <3> QED BY <3>1, <3>2
  <2>2. exec' \in [Jobs -> FAILED .. QUEUED]
    BY DEF TypeOK
  <2> HIDE DEF ended
  <2> QED BY <2>1, <2>2
<1>7. kept \in SUBSET device
  OBVIOUS
<1> HIDE DEF kept
<1> QED BY <1>4, <1>5, <1>6, <1>7 DEF Fifo!Abort, Fifo!FAILED, FAILED, Queues

(* The host reports an invocation running that it is launching when front is *)
(* at back: it is alone in the ring, or back is behind the entry that the    *)
(* handler has just emptied and the launch fills the ring.                   *)
LEMMA HostAnnounces ==
    ASSUME RingsInv, host.pc = "announce", NEW a \in Accels, a = AccelOf[host.job],
           front[a] = back[a]
    PROVE  /\ Queue(a) # <<>>
           /\ \/ host.job = Head(Queue(a))
              \/ Len(Queue(a)) = Size[a] /\ host.job = Queue(a)[Len(Queue(a))]
<1> USE DEF RingsInv
<1> DEFINE h == Held(a)
           S == Size[a]
           o == Oldest(a)
           c == IF Completing(a) THEN <<irq.job>> ELSE <<>>
<1>1. RingUp(a) /\ Entered(a) /\ Unannounced(a)
  BY DEF RingInv, RingDown, Launches, Entered, Unannounced
<1>2. h \in Seq(Jobs) /\ Len(h) <= S /\ h[Len(h)] = host.job
      /\ NextIndex(a, front[a]) = Slot(S, o, Len(h) - 1)
  BY <1>1 DEF RingUp, Layout, One
<1>3. S \in Nat \ {0} /\ o \in 0 .. S - 1 /\ back[a] \in -1 .. S - 1
      /\ NextIndex(a, back[a]) \in 0 .. S - 1
  BY CellsType, NextIndexType DEF TypeOK
<1>4. Len(h) > 0
  <2>1. Waiting(a) + Len(hw[a]) + One(Entered(a)) <= Len(h) /\ One(Entered(a)) = 1
    BY <1>1 DEF RingUp, One
  <2>2. Waiting(a) \in Nat /\ Len(hw[a]) \in Nat
    <3> DEFINE T == [job : Jobs, regs : Registers]
               s == hw[a]
    <3>1. s \in Seq(T)
      BY DEF TypeOK
    <3> HIDE DEF s, T
    <3>2. Len(s) \in Nat
      BY <3>1
    <3> QED BY <3>2, WaitingType DEF s
  <2> HIDE DEF h
  <2> QED BY <1>2, <2>1, <2>2
<1>5. Queue(a) = c \o h /\ c \in Seq(Jobs)
  <2>1. ~Launching(a)
    BY DEF Launching
  <2>2. c \in Seq(Jobs)
    <3>1. Completing(a) => irq.job \in Jobs
      BY DEF Completing, TypeOK
    <3> QED BY <3>1
  <2>3. Queue(a) = (c \o h) \o <<>>
    BY <2>1 DEF Queue
  <2> HIDE DEF c, h
  <2> QED BY <1>2, <2>2, <2>3
<1>6. CASE irq.accel = a /\ irq.pc \in {"complete", "advance"}
  <2>1. o = NextIndex(a, irq.next) /\ irq.next = NextIndex(a, front[a])
    BY <1>6 DEF Oldest, IrqInv, Delivers
  <2>2. o = (IF irq.next = S - 1 THEN 0 ELSE irq.next + 1) /\ irq.next \in 0 .. S - 1
    BY <1>3, <2>1 DEF NextIndex
  <2> HIDE DEF h, S, o, c
  <2>3. irq.next = Slot(S, o, Len(h) - 1) /\ Len(h) \in Nat
    BY <1>2, <2>1
  <2>4. Len(h) = S
    BY <1>2, <1>3, <1>4, <2>2, <2>3 DEF Slot
  <2>5. Len(Queue(a)) <= S
    BY DEF QueueInv, S
  <2>6. Len(c) = 0
    BY <1>2, <1>5, <2>4, <2>5
  <2>7. Queue(a) = h
    BY <1>2, <1>5, <2>6
  <2> QED BY <1>2, <1>4, <2>4, <2>7 DEF S
<1>7. CASE ~(irq.accel = a /\ irq.pc \in {"complete", "advance"})
  <2>1. o = NextIndex(a, front[a]) /\ ~Completing(a)
    BY <1>7 DEF Oldest, Completing
  <2>2. c = <<>>
    BY <2>1
  <2> HIDE DEF h, S, o, c
  <2>3. o = Slot(S, o, Len(h) - 1) /\ Len(h) \in Nat
    BY <1>2, <2>1
  <2>4. \A n \in 0 .. S - 1 : Slot(S, o, n) = o => n = 0
    BY <1>3 DEF Slot
  <2>5. Len(h) = 1
    <3>1. Len(h) - 1 \in 0 .. S - 1
      BY <1>2, <1>3, <1>4, <2>3
    <3>2. Len(h) - 1 = 0
      BY <2>3, <2>4, <3>1
    <3> QED BY <2>3, <3>2
  <2>6. Queue(a) = h
    BY <1>2, <1>5, <2>2
  <2>7. Head(h) = h[1] /\ h # <<>>
    <3>1. h \in Seq(Jobs)
      BY <1>2
    <3>2. h # <<>>
      <4> SUFFICES ASSUME h = <<>> PROVE FALSE
        OBVIOUS
      <4>1. Len(h) = 0
        OBVIOUS
      <4> QED BY <2>5, <4>1
    <3>3. Head(h) = h[1]
      BY <3>1, <3>2
    <3> QED BY <3>2, <3>3
  <2> QED BY <1>2, <2>5, <2>6, <2>7
<1> QED BY <1>6, <1>7

(* The handler reports the oldest one running that is left. *)
LEMMA HandlerAnnounces ==
    ASSUME RingsInv, irq.pc = "next", NEW a \in Accels, a = irq.accel,
           job_ids[a][irq.next] # NoJob
    PROVE  Queue(a) # <<>> /\ job_ids[a][irq.next] = Head(Queue(a))
<1> USE DEF RingsInv
<1> DEFINE h == Held(a)
           l == IF Launching(a) THEN <<host.job>> ELSE <<>>
           S == Size[a]
           o == Oldest(a)
           j == job_ids[a][irq.next]
<1>1. o = irq.next /\ ~Completing(a)
  BY DEF Oldest, IrqInv, Delivers, Completing
<1>2. S \in Nat \ {0} /\ o \in 0 .. S - 1 /\ DOMAIN job_ids[a] = 0 .. S - 1
  BY CellsType DEF TypeOK
<1>3. RingUp(a)
  BY <1>1, <1>2 DEF RingInv, RingDown
<1>4. Cells(a)[o] = j
  BY <1>1, <1>2, <1>3 DEF RingUp, Cells
<1>5. h \in Seq(Jobs) /\ Layout(Cells(a), o, S, h)
  BY <1>3 DEF RingUp
<1>6. Queue(a) = (<<>> \o h) \o l /\ l \in Seq(Jobs)
  BY <1>1 DEF Queue, Launching, HostInv
<1>7. Slot(S, o, 1 - 1) = o
  <2> HIDE DEF S, o
  <2> QED BY <1>2 DEF Slot
<1>8. Len(h) >= 1
  <2> SUFFICES ASSUME Len(h) = 0 PROVE FALSE
    <3> HIDE DEF h
    <3> QED BY <1>5
  <2> HIDE DEF h, S, o, j
  <2>1. 1 \in Len(h) + 1 .. S
    BY <1>2
  <2>2. Cells(a)[Slot(S, o, 1 - 1)] = NoJob
    BY <1>5, <2>1 DEF Layout
  <2> QED BY <1>4, <1>7, <2>2 DEF j
<1> HIDE DEF h, l, S, o, j
<1>9. h[1] = j
  <2>1. 1 \in 1 .. Len(h)
    BY <1>5, <1>8
  <2>2. Cells(a)[Slot(S, o, 1 - 1)] = h[1]
    BY <1>5, <2>1 DEF Layout
  <2> QED BY <1>4, <1>7, <2>2
<1>10. Queue(a) # <<>> /\ Head(Queue(a)) = h[1]
  BY <1>5, <1>6, <1>8
<1> QED BY <1>9, <1>10 DEF j

(* Whichever thread reports an invocation running, it is the oldest of its   *)
(* accelerator or the newest of a full ring.                                 *)
LEMMA FifoAnnounce ==
    ASSUME RingsInv, [Next]_vars, \A k \in Jobs : ~Launch(k), ~Complete,
           \A device \in Resets, past \in Stray : ~Reset(device, past),
           NEW j \in Jobs, exec[j] = SUBMITTED, exec' = [exec EXCEPT ![j] = RUNNING]
    PROVE  LET q == Queue(AccelOf[j]) IN
           /\ q # <<>>
           /\ j = Head(q) \/ (Len(q) = Size[AccelOf[j]] /\ j = q[Len(q)])
<1> USE DEF RingsInv
<1>1. exec' # exec /\ exec'[j] # exec[j]
  BY DEF TypeOK, SUBMITTED, RUNNING
<1>2. Announce \/ AnnounceNext
  BY <1>1, Zenon
  DEF Next, Host, Handler, vars, opVars, PickUp, WriteImage, EnterRing,
         WriteStart, ClearPending, Resume, Unstall, Query, PendStall, FlagStall,
         ClearStallBit, Retire, Advance, StoreSeen, DebugDump, Finish, Stall
<1>3. ASSUME NEW k \in Jobs \cup {NoJob}, exec' = Lowered(exec, k, RUNNING)
      PROVE  k = j /\ k # NoJob
  BY <1>1, <1>3, JobAssumption DEF Lowered, TypeOK
<1>4. CASE Announce
  <2>1. /\ host.pc = "announce" /\ host.job \in Jobs
        /\ front[AccelOf[host.job]] = back[AccelOf[host.job]]
        /\ exec' = Lowered(exec, host.job, RUNNING)
    BY <1>1, <1>4 DEF Announce, HostInv
  <2>2. host.job = j
    BY <1>3, <2>1
  <2> QED BY <2>1, <2>2, HostAnnounces, AccelOfType
<1>5. CASE AnnounceNext
  <2> DEFINE a == irq.accel
  <2>1. irq.pc = "next" /\ exec' = Lowered(exec, job_ids[a][irq.next], RUNNING)
    BY <1>5 DEF AnnounceNext
  <2>2. a \in Accels /\ irq.next \in DOMAIN job_ids[a] /\ job_ids[a][irq.next] \in Jobs \cup {NoJob}
    <3>1. irq.next = NextIndex(a, back[a])
      BY <2>1 DEF IrqInv, Delivers
    <3>2. a \in Accels /\ back[a] \in -1 .. Size[a] - 1
          /\ job_ids[a] \in [0 .. Size[a] - 1 -> Jobs \cup {NoJob}]
      BY DEF TypeOK
    <3>3. irq.next \in 0 .. Size[a] - 1
      BY <3>1, <3>2, NextIndexType
    <3> QED BY <3>2, <3>3
  <2>3. job_ids[a][irq.next] = j /\ job_ids[a][irq.next] # NoJob
    BY <1>3, <2>1, <2>2
  <2>4. AccelOf[j] = a
    <3>1. j \in InFlight(a)
      BY <2>2, <2>3, RingIsInFlight
    <3> QED BY <3>1 DEF InFlight
  <2> QED BY <2>1, <2>2, <2>3, <2>4, HandlerAnnounces
<1> QED BY <1>2, <1>4, <1>5

(* The ring of each accelerator, shared by the two threads, behaves as a     *)
(* bounded first-in first-out queue, if an accelerator of which an           *)
(* invocation is overtaken has entries for all it is given: invocations are  *)
(* accepted only while there is room, completed in the order of their        *)
(* launches, each once, ended by a forced reset, and announced as running    *)
(* when they are the oldest or the newest of a full queue.                   *)
THEOREM ImplementsFifo ==
    ASSUME ResetsComeLast, StreamingIsNewer, OvertakenHaveRoom
    PROVE  Spec => RefinesFifo
<1>1. Init => Fifo!FifoInit
  BY FifoStart
<1>2. IInv /\ IInv' /\ OrderInv /\ [Next]_vars => [Fifo!FifoNext]_(Fifo!fifoVars)
  <2> SUFFICES ASSUME IInv, IInv', OrderInv, [Next]_vars
               PROVE  [Fifo!FifoNext]_(Fifo!fifoVars)
    OBVIOUS
  <2>1. RingsInv /\ TypeOK' /\ HostInv' /\ IrqInv'
    BY DEF IInv, RingsInv
  <2>2. CASE \E j \in Jobs : Launch(j)
    BY <2>1, <2>2, FifoAccept DEF Fifo!FifoNext
  <2>3. CASE Complete
    <3>1. UNCHANGED <<Queues, exec>> => UNCHANGED Fifo!fifoVars
      BY DEF Queues, Fifo!fifoVars
    <3> QED BY <2>1, <2>3, <3>1, FifoComplete DEF Fifo!FifoNext
  <2>4. ASSUME NEW device \in Resets, NEW past \in Stray, Reset(device, past)
        PROVE  [Fifo!FifoNext]_(Fifo!fifoVars)
    <3>1. Fifo!Abort(device)
      BY <2>1, <2>4, FifoAbort
    <3>2. device \in SUBSET Accels
      BY ResetsAssumption
    <3> QED BY <3>1, <3>2 DEF Fifo!FifoNext
  <2>5. CASE /\ \A j \in Jobs : ~Launch(j)
             /\ ~Complete
             /\ \A device \in Resets, past \in Stray : ~Reset(device, past)
    <3>1. Queues' = Queues
      BY <2>1, <2>5, QueueKept DEF Queues
    <3>2. CASE exec' = exec
      BY <3>1, <3>2 DEF Queues, Fifo!fifoVars
    <3>3. ASSUME NEW j \in Jobs, exec[j] = SUBMITTED, exec' = [exec EXCEPT ![j] = RUNNING]
          PROVE  Fifo!AnnounceRunning(j)
      <4> DEFINE q == Queue(AccelOf[j])
                 s == Size[AccelOf[j]]
      <4>1. q # <<>> /\ (j = Head(q) \/ (Len(q) = s /\ j = Fifo!Last(q)))
        <5>1. /\ Queue(AccelOf[j]) # <<>>
              /\ \/ j = Head(Queue(AccelOf[j]))
                 \/ /\ Len(Queue(AccelOf[j])) = Size[AccelOf[j]]
                    /\ j = Queue(AccelOf[j])[Len(Queue(AccelOf[j]))]
          BY <2>1, <2>5, <3>3, FifoAnnounce
        <5> QED BY <5>1 DEF Fifo!Last
      <4>2. Queues[AccelOf[j]] = q
        BY AccelOfType DEF Queues
      <4> HIDE DEF q, s
      <4>3. exec[j] = Fifo!SUBMITTED /\ exec' = [exec EXCEPT ![j] = Fifo!RUNNING]
        BY <3>3 DEF Fifo!SUBMITTED, Fifo!RUNNING, SUBMITTED, RUNNING
      <4>4. LET r == Queues[AccelOf[j]] IN
            /\ r # <<>>
            /\ j = Head(r) \/ (Len(r) = Size[AccelOf[j]] /\ j = Fifo!Last(r))
        BY <4>1, <4>2 DEF s
      <4> QED BY <3>1, <4>3, <4>4 DEF Fifo!AnnounceRunning, Queues
    <3> QED BY <2>1, <2>5, <3>2, <3>3, RunningStep DEF Fifo!FifoNext
  <2> QED BY <2>2, <2>3, <2>4, <2>5
<1> QED BY <1>1, <1>2, Invariance, PTL DEF Spec, RefinesFifo, Fifo!FifoSpec

-----------------------------------------------------------------------------
(* Finishes and started invocations against what the ring holds.             *)

(* A completion leaves nothing behind it in a ring of one entry. *)
LEMMA LastOfOne ==
    ASSUME RingsInv, NEW a \in Accels, Size[a] = 1, Completing(a)
    PROVE  Held(a) = <<>>
<1> USE DEF RingsInv
<1> DEFINE h == Held(a)
           l == IF Launching(a) THEN <<host.job>> ELSE <<>>
           x == irq.job
<1>1. x \in Jobs
  BY DEF Completing, TypeOK
<1>2. h \in Seq(Jobs) /\ l \in Seq(Jobs)
  <2>1. Launching(a) => host.job \in Jobs
    BY DEF Launching, HostInv
  <2> QED BY <2>1, QueueType
<1>3. Queue(a) = (<<x>> \o h) \o l /\ Len(Queue(a)) <= 1
  BY DEF Queue, QueueInv
<1> HIDE DEF h, l, x
<1>4. Len((<<x>> \o h) \o l) = 1 + Len(h) + Len(l) /\ Len(h) \in Nat /\ Len(l) \in Nat
  BY <1>1, <1>2
<1>5. Len(h) = 0
  BY <1>3, <1>4
<1>6. h = <<>>
  BY <1>2, <1>5
<1> QED BY <1>6 DEF h

(* The steps that leave what is started and what is waited for alone. *)
LEMMA CountKept ==
    ASSUME NEW a \in Accels, CountUp(a), hw'[a] = hw[a], Held(a)' = Held(a),
           Waiting(a)' = Waiting(a), Entered(a)' <=> Entered(a),
           irq'.accel = a /\ irq'.pc = "complete" =>
             irq.accel = a /\ irq.pc = "complete" /\ irq'.job = irq.job
    PROVE  CountUp(a)'
<1>1. One(Entered(a)') = One(Entered(a))
  BY DEF One
<1>2. (Waiting(a) + Len(hw[a]) + One(Entered(a)) = Len(Held(a)))'
  BY <1>1 DEF CountUp, One
<1>3. (\A i \in 1 .. Len(hw[a]) : hw[a][i].job = Held(a)[Waiting(a) + i])'
  BY DEF CountUp
<1> QED BY <1>2, <1>3 DEF CountUp

(* The invocation a launch has entered is counted as not yet started. *)
LEMMA CountEnter ==
    ASSUME IInv, IInv', EnterRing, NEW a \in Accels, RingUp(a), CountUp(a)
    PROVE  CountUp(a)'
<1> USE DEF IInv
<1>1. /\ host.pc = "enter" /\ host'.pc = "announce" /\ host'.job = host.job
      /\ UNCHANGED <<hw, done, irq>> /\ host.job \in Jobs
  BY DEF EnterRing, TypeOK, HostInv, hwVars
<1>2. Waiting(a)' = Waiting(a) /\ ~Entered(a) /\ (Entered(a)' <=> AccelOf[host.job] = a)
  BY <1>1 DEF Waiting, Entered
<1>3. Held(a)' = IF AccelOf[host.job] = a THEN Append(Held(a), host.job) ELSE Held(a)
  BY EnterStep
<1>4. CASE AccelOf[host.job] # a
  <2>1. Held(a)' = Held(a) /\ (Entered(a)' <=> Entered(a)) /\ hw'[a] = hw[a]
    BY <1>1, <1>2, <1>3, <1>4
  <2> QED BY <1>1, <1>2, <2>1, CountKept
<1>5. CASE AccelOf[host.job] = a
  <2> DEFINE h == Held(a)
             j == host.job
             w == Waiting(a)
             s == hw[a]
  <2>1. h \in Seq(Jobs) /\ j \in Jobs /\ w \in Nat /\ Len(s) \in Nat
        /\ w + Len(s) = Len(h) /\ \A i \in 1 .. Len(s) : s[i].job = h[w + i]
    <3>1. Waiting(a) \in Nat /\ Len(hw[a]) \in Nat /\ One(Entered(a)) = 0
      BY <1>2, SumType DEF One
    <3> QED BY <1>1, <3>1 DEF CountUp, RingUp
  <2>2. Held(a)' = Append(h, j) /\ Waiting(a)' = w /\ hw'[a] = s /\ One(Entered(a)') = 1
    BY <1>1, <1>2, <1>3, <1>5 DEF One
  <2>3. irq'.accel = a /\ irq'.pc = "complete" => irq'.job # NoJob
    BY <1>1 DEF CountUp
  <2> HIDE DEF h, j, w, s
  <2>4. w + Len(s) + 1 = Len(Append(h, j))
    BY <2>1
  <2>5. \A i \in 1 .. Len(s) : s[i].job = Append(h, j)[w + i]
    BY <2>1
  <2>6. (Waiting(a) + Len(hw[a]) + One(Entered(a)) = Len(Held(a)))'
    BY <2>2, <2>4 DEF One
  <2>7. (\A i \in 1 .. Len(hw[a]) : hw[a][i].job = Held(a)[Waiting(a) + i])'
    BY <2>2, <2>5
  <2> QED BY <2>3, <2>6, <2>7 DEF CountUp
<1> QED BY <1>4, <1>5

(* The start: it joins those the accelerator is to run. *)
LEMMA CountStart ==
    ASSUME IInv, IInv', WriteStart, NEW a \in Accels, RingUp(a), CountUp(a), Held(a)' = Held(a)
    PROVE  CountUp(a)'
<1> USE DEF IInv
<1> DEFINE b == AccelOf[host.job]
           new == [job |-> host.job, regs |-> cra[b]]
<1>1. /\ host.pc = "start" /\ host'.pc = "idle" /\ host.job \in Jobs /\ b \in Accels
      /\ hw' = [hw EXCEPT ![b] = Append(hw[b], new)]
      /\ UNCHANGED <<done, irq>>
  BY AccelOfType DEF WriteStart, HostIdle, HostInv
<1>2. Waiting(a)' = Waiting(a) /\ ~Entered(a)' /\ (Entered(a) <=> b = a)
  BY <1>1 DEF Waiting, Entered
<1>3. CASE b # a
  <2>1. hw'[a] = hw[a] /\ (Entered(a)' <=> Entered(a))
    BY <1>1, <1>2, <1>3 DEF TypeOK
  <2> QED BY <1>1, <1>2, <2>1, CountKept
<1>4. CASE b = a
  <2> DEFINE h == Held(a)
             w == Waiting(a)
             s == hw[a]
             T == [job : Jobs, regs : Registers]
  <2>1. h \in Seq(Jobs) /\ w \in Nat /\ s \in Seq(T) /\ new \in T /\ new.job = host.job
    <3>1. Waiting(a) \in Nat
      BY SumType
    <3> QED BY <1>1, <1>4, <3>1 DEF RingUp, TypeOK
  <2>2. w + Len(s) + 1 = Len(h) /\ h[Len(h)] = host.job
        /\ \A i \in 1 .. Len(s) : s[i].job = h[w + i]
    <3>1. One(Entered(a)) = 1
      BY <1>2, <1>4 DEF One
    <3> QED BY <1>2, <1>4, <3>1 DEF CountUp, RingUp
  <2>3. hw'[a] = Append(s, new) /\ One(Entered(a)') = 0
    BY <1>1, <1>2, <1>4 DEF One, TypeOK
  <2>4. irq'.accel = a /\ irq'.pc = "complete" => irq'.job # NoJob
    BY <1>1 DEF CountUp
  <2> HIDE DEF h, w, s, T, new
  <2>5. Len(s) \in Nat /\ Len(Append(s, new)) = Len(s) + 1 /\ Append(s, new)[Len(s) + 1] = new
        /\ \A i \in 1 .. Len(s) : Append(s, new)[i] = s[i]
    BY <2>1
  <2>6. \A i \in 1 .. Len(Append(s, new)) : Append(s, new)[i].job = h[w + i]
    <3> SUFFICES ASSUME NEW i \in 1 .. Len(Append(s, new))
                 PROVE  Append(s, new)[i].job = h[w + i]
      OBVIOUS
    <3>1. CASE i \in 1 .. Len(s)
      BY <2>2, <2>5, <3>1
    <3>2. CASE i = Len(s) + 1
      <4>1. w + i = Len(h)
        BY <2>1, <2>2, <2>5, <3>2
      <4> QED BY <2>1, <2>2, <2>5, <3>2, <4>1
    <3> QED BY <2>5, <3>1, <3>2
  <2>7. w + Len(Append(s, new)) + 0 = Len(h)
    BY <2>1, <2>2, <2>5
  <2>8. (Waiting(a) + Len(hw[a]) + One(Entered(a)) = Len(Held(a)))'
    BY <1>2, <2>3, <2>7 DEF h, w, One
  <2>9. (\A i \in 1 .. Len(hw[a]) : hw[a][i].job = Held(a)[Waiting(a) + i])'
    BY <1>2, <2>3, <2>6 DEF h, w
  <2> QED BY <2>4, <2>8, <2>9 DEF CountUp
<1> QED BY <1>3, <1>4

(* The end of a kernel: it is waited for instead. *)
LEMMA CountFinish ==
    ASSUME IInv, IInv', OldestMapTakesOne, NEW b \in Accels, Finish(b),
           NEW a \in Accels, RingUp(a), CountUp(a), Held(a)' = Held(a)
    PROVE  CountUp(a)'
<1> USE DEF IInv
<1>1. /\ hw[b] # <<>> /\ hw' = [hw EXCEPT ![b] = Tail(hw[b])]
      /\ done' = [done EXCEPT ![b] = done[b] + 1]
      /\ UNCHANGED <<host, irq>>
  BY DEF Finish
<1>2. (Entered(a)' <=> Entered(a)) /\ One(Entered(a)') = One(Entered(a))
  BY <1>1 DEF Entered, One
<1>3. CASE a # b
  <2>1. hw'[a] = hw[a] /\ done'[a] = done[a]
    BY <1>1, <1>3 DEF TypeOK
  <2>2. Waiting(a)' = Waiting(a)
    BY <1>1, <2>1 DEF Waiting
  <2> QED BY <1>1, <1>2, <2>1, <2>2, CountKept
<1>4. CASE a = b
  <2> DEFINE h == Held(a)
             w == Waiting(a)
             s == hw[a]
             T == [job : Jobs, regs : Registers]
             e == One(Entered(a))
  <2>1. h \in Seq(Jobs) /\ w \in Nat /\ s \in Seq(T) /\ s # <<>> /\ e \in {0, 1}
    <3>1. Waiting(a) \in Nat /\ One(Entered(a)) \in {0, 1}
      BY SumType
    <3>2. hw[a] \in Seq(T) /\ hw[a] # <<>>
      BY <1>1, <1>4 DEF TypeOK
    <3> QED BY <3>1, <3>2 DEF RingUp
  <2>2. w + Len(s) + e = Len(h) /\ \A i \in 1 .. Len(s) : s[i].job = h[w + i]
    BY DEF CountUp
  <2>3. hw'[a] = Tail(s) /\ done'[a] = done[a] + 1 /\ done[a] \in Nat
    BY <1>1, <1>4 DEF TypeOK
  <2>4. ~(a \in Csr181 /\ irq.accel = a /\ irq.pc = "complete")
    <3> SUFFICES ASSUME a \in Csr181, irq.accel = a, irq.pc = "complete" PROVE FALSE
      OBVIOUS
    <3>1. Completing(a) /\ Size[a] = 1
      BY DEF Completing, CountUp, OldestMapTakesOne
    <3>2. h = <<>>
      BY <3>1, LastOfOne DEF RingsInv
    <3> HIDE DEF h, w, s, T, e
    <3>3. Len(s) > 0 /\ Len(s) \in Nat
      BY <2>1
    <3>4. Len(h) = 0
      BY <3>2
    <3> QED BY <2>1, <2>2, <3>3, <3>4
  <2>5. Waiting(a)' = w + 1
    <3>1. irq' = irq /\ irq.finishes \in Nat
      BY <1>1 DEF TypeOK
    <3> QED BY <2>3, <2>4, <3>1 DEF Waiting
  <2>6. irq'.accel = a /\ irq'.pc = "complete" => irq'.job # NoJob
    BY <1>1 DEF CountUp
  <2> HIDE DEF h, w, s, T, e
  <2>7. Len(Tail(s)) = Len(s) - 1 /\ Len(s) \in Nat
        /\ \A i \in 1 .. Len(Tail(s)) : i + 1 \in 1 .. Len(s) /\ Tail(s)[i] = s[i + 1]
    BY <2>1
  <2>8. (w + 1) + Len(Tail(s)) + e = Len(h)
    BY <2>1, <2>2, <2>7
  <2>9. \A i \in 1 .. Len(Tail(s)) : Tail(s)[i].job = h[(w + 1) + i]
    <3> SUFFICES ASSUME NEW i \in 1 .. Len(Tail(s)) PROVE Tail(s)[i].job = h[(w + 1) + i]
      OBVIOUS
    <3>1. s[i + 1].job = h[w + (i + 1)]
      BY <2>2, <2>7
    <3>2. w + (i + 1) = (w + 1) + i
      BY <2>1
    <3> QED BY <2>7, <3>1, <3>2
  <2>10. (Waiting(a) + Len(hw[a]) + One(Entered(a)) = Len(Held(a)))'
    BY <1>2, <2>3, <2>5, <2>8 DEF h, w, s, e
  <2>11. (\A i \in 1 .. Len(hw[a]) : hw[a][i].job = Held(a)[Waiting(a) + i])'
    BY <2>3, <2>5, <2>9 DEF h, w, s
  <2> QED BY <2>6, <2>10, <2>11 DEF CountUp
<1> QED BY <1>3, <1>4

(* The handler takes the oldest out of the ring and counts it off. *)
LEMMA CountRetire ==
    ASSUME IInv, IInv', OldestMapTakesOne, Retire, NEW a \in Accels, RingUp(a), CountUp(a)
    PROVE  CountUp(a)'
<1> USE DEF IInv
<1>1. /\ irq.pc = "retire" /\ irq'.pc = "complete" /\ irq'.accel = irq.accel
      /\ irq'.finishes = irq.finishes /\ UNCHANGED <<hw, done, host>>
  BY DEF Retire, TypeOK, hwVars
<1>2. (Entered(a)' <=> Entered(a)) /\ One(Entered(a)') = One(Entered(a))
  BY <1>1 DEF Entered, One
<1>3. /\ irq.accel = a => /\ Held(a) # <<>>
                          /\ irq'.job = Head(Held(a))
                          /\ Held(a)' = Tail(Held(a))
      /\ irq.accel # a => Held(a)' = Held(a)
  BY RetireStep
<1>4. CASE irq.accel # a
  <2>1. Waiting(a)' = Waiting(a) /\ hw'[a] = hw[a] /\ Held(a)' = Held(a)
    BY <1>1, <1>3, <1>4 DEF Waiting
  <2> QED BY <1>1, <1>2, <1>4, <2>1, CountKept
<1>5. CASE irq.accel = a
  <2> DEFINE h == Held(a)
             w == Waiting(a)
             s == hw[a]
             e == One(Entered(a))
  <2>1. h \in Seq(Jobs) /\ h # <<>> /\ w \in Nat /\ w > 0 /\ Len(s) \in Nat /\ e \in {0, 1}
    <3>1. Waiting(a) \in Nat /\ Len(hw[a]) \in Nat /\ One(Entered(a)) \in {0, 1}
      BY SumType
    <3>2. Held(a) \in Seq(Jobs) /\ Held(a) # <<>> /\ Waiting(a) > 0
      BY <1>1, <1>3, <1>5 DEF RingUp
    <3> QED BY <3>1, <3>2
  <2>2. w + Len(s) + e = Len(h) /\ \A i \in 1 .. Len(s) : s[i].job = h[w + i]
    BY DEF CountUp
  <2>3. Held(a)' = Tail(h) /\ irq'.job = Head(h) /\ hw'[a] = s
    BY <1>1, <1>3, <1>5
  <2>4. irq'.job # NoJob
    <3> HIDE DEF h
    <3>1. Head(h) \in Jobs
      BY <2>1
    <3> QED BY <2>3, <3>1, JobAssumption
  <2>5. Waiting(a)' = w - 1
    <3>1. CASE a \notin Csr181
      <4>1. Waiting(a) = done[a] + irq.finishes /\ Waiting(a)' = done[a] + (irq.finishes - 1)
        BY <1>1, <1>5, <3>1 DEF Waiting, Delivers
      <4>2. done[a] \in Nat /\ irq.finishes \in Nat
        BY DEF TypeOK
      <4> QED BY <4>1, <4>2
    <3>2. CASE a \in Csr181
      <4>1. Waiting(a)' = 0
        BY <1>1, <1>5, <3>2 DEF Waiting
      <4>2. Len(h) <= 1
        BY <3>2 DEF RingUp, Layout, OldestMapTakesOne
      <4> HIDE DEF h, w, s, e
      <4>3. w = 1
        BY <2>1, <2>2, <4>2
      <4> QED BY <4>1, <4>3
    <3> QED BY <3>1, <3>2
  <2> HIDE DEF h, w, s, e
  <2>6. Len(Tail(h)) = Len(h) - 1 /\ Len(h) \in Nat
        /\ \A i \in 1 .. Len(Tail(h)) : Tail(h)[i] = h[i + 1]
    BY <2>1
  <2>7. (w - 1) + Len(s) + e = Len(Tail(h))
    BY <2>1, <2>2, <2>6
  <2>8. \A i \in 1 .. Len(s) : s[i].job = Tail(h)[(w - 1) + i]
    <3> SUFFICES ASSUME NEW i \in 1 .. Len(s) PROVE s[i].job = Tail(h)[(w - 1) + i]
      OBVIOUS
    <3>1. (w - 1) + i \in 1 .. Len(Tail(h)) /\ ((w - 1) + i) + 1 = w + i
      BY <2>1, <2>7
    <3> QED BY <2>2, <2>6, <3>1
  <2>9. (Waiting(a) + Len(hw[a]) + One(Entered(a)) = Len(Held(a)))'
    BY <1>2, <2>3, <2>5, <2>7 DEF s, e
  <2>10. (\A i \in 1 .. Len(hw[a]) : hw[a][i].job = Held(a)[Waiting(a) + i])'
    BY <2>3, <2>5, <2>8 DEF s
  <2> QED BY <2>4, <2>9, <2>10 DEF CountUp
<1> QED BY <1>4, <1>5

(* A reset of other accelerators. *)
LEMMA CountReset ==
    ASSUME IInv, IInv', ResetsComeLast, NEW device \in Resets, NEW past \in Stray,
           Reset(device, past), NEW a \in Accels, CountUp(a)
    PROVE  RingDown(a)' \/ CountUp(a)'
<1> USE DEF IInv
<1>1. CASE a \in device
  BY <1>1, ResetStep
<1>2. CASE a \notin device
  <2>1. Held(a)' = Held(a)
    BY <1>2, ResetStep
  <2>2. hw'[a] = hw[a] /\ done'[a] = done[a] /\ UNCHANGED <<host, irq>>
    BY <1>2 DEF Reset
  <2>3. Waiting(a)' = Waiting(a) /\ (Entered(a)' <=> Entered(a))
    BY <2>2 DEF Waiting, Entered
  <2> QED BY <2>1, <2>2, <2>3, CountKept
<1> QED BY <1>1, <1>2

(* The other steps of the host and of the accelerators. *)
LEMMA CountQuiet ==
    ASSUME IInv, [Next]_vars, ~EnterRing, ~Retire, ~WriteStart, \A b \in Accels : ~Finish(b),
           \A device \in Resets, past \in Stray : ~Reset(device, past), ~Handler,
           NEW a \in Accels, CountUp(a)
    PROVE  CountUp(a)'
<1> USE DEF IInv
<1>1. Held(a)' = Held(a)
  BY CellsKept, Zenon
<1>2. UNCHANGED <<hw, done, irq>>
  BY Zenon
  DEF Next, Host, vars, hwVars, Launch, PickUp, WriteImage, Announce, ClearPending,
         Resume, Unstall, StoreSeen, DebugDump, Stall
<1>3. Waiting(a)' = Waiting(a)
  BY <1>2 DEF Waiting
<1>4. Entered(a)' <=> Entered(a)
  <2>1. CASE Announce
    BY <2>1 DEF Announce, Entered, TypeOK
  <2>2. CASE WriteImage
    BY <2>2 DEF WriteImage, Entered, TypeOK
  <2>3. CASE ClearPending \/ Unstall \/ Resume
    <3>1. /\ host.pc \in {"dumped", "unstall", "resume"}
          /\ \/ host' = HostIdle
             \/ host' = [host EXCEPT !.pc = "resume"]
             \/ host' = [host EXCEPT !.pc = "unstall", !.csr = stall_bit[AccelOf[host.job]]]
      BY <2>3 DEF ClearPending, Unstall, Resume
    <3>2. CASE host' = HostIdle
      BY <3>1, <3>2 DEF HostIdle, Entered
    <3>3. CASE host' # HostIdle
      BY <3>1, <3>3 DEF TypeOK, Entered
    <3> QED BY <3>2, <3>3
  <2>4. ASSUME NEW j \in Jobs, Launch(j) \/ PickUp(j) PROVE Entered(a)' <=> Entered(a)
    BY <2>4 DEF Launch, PickUp, HostIdle, Entered
  <2>5. CASE UNCHANGED host
    BY <2>5 DEF Entered
  <2>6. \/ Announce \/ WriteImage \/ ClearPending \/ Unstall \/ Resume
        \/ (\E j \in Jobs : Launch(j) \/ PickUp(j))
        \/ UNCHANGED host
    BY DEF Next, Host, vars, StoreSeen, DebugDump, Stall
  <2> QED BY <2>1, <2>2, <2>3, <2>4, <2>5, <2>6
<1> QED BY <1>1, <1>2, <1>3, <1>4, CountKept

(* Every step keeps the count. *)
LEMMA CountStep ==
    ASSUME ResetsComeLast, StreamingIsNewer, OldestMapTakesOne, IInv, IInv', [Next]_vars, CountInv
    PROVE  CountInv'
<1> SUFFICES ASSUME NEW a \in Accels PROVE RingDown(a)' \/ CountUp(a)'
  BY DEF CountInv
<1> USE DEF IInv
<1>1. CASE RingDown(a)
  BY <1>1, RingDownStep
<1>2. CASE RingUp(a) /\ CountUp(a)
  <2>1. CASE EnterRing
    BY <1>2, <2>1, CountEnter
  <2>2. CASE Retire
    BY <1>2, <2>2, CountRetire
  <2>3. CASE \E device \in Resets, past \in Stray : Reset(device, past)
    BY <1>2, <2>3, CountReset
  <2>4. CASE /\ ~EnterRing /\ ~Retire
             /\ \A device \in Resets, past \in Stray : ~Reset(device, past)
    <3>1. Held(a)' = Held(a)
      BY <2>4, CellsKept
    <3>2. CASE WriteStart
      BY <1>2, <3>1, <3>2, CountStart
    <3>3. CASE \E b \in Accels : Finish(b)
      BY <1>2, <3>1, <3>3, CountFinish
    <3>4. CASE Handler
      <4>1. hw'[a] = hw[a] /\ Waiting(a)' = Waiting(a) /\ (Entered(a)' <=> Entered(a))
        BY <2>4, <3>4, WaitingKept DEF Entered
      <4>2. irq'.pc # "complete"
        <5>1. CASE \E b \in Accels : Query(b)
          BY <5>1 DEF Query, IrqIdle
        <5>2. CASE PendStall \/ FlagStall \/ Complete \/ Advance
          BY <5>2 DEF PendStall, FlagStall, Complete, Advance, TypeOK
        <5>3. CASE ClearStallBit \/ AnnounceNext
          <6>1. \/ irq' = IrqIdle(irq.accel)
                \/ irq' = [irq EXCEPT !.pc = "retire", !.finishes = @ - 1]
            BY <5>3 DEF ClearStallBit, AnnounceNext
          <6>2. CASE irq' = IrqIdle(irq.accel)
            BY <6>2 DEF IrqIdle
          <6>3. CASE irq' # IrqIdle(irq.accel)
            BY <6>1, <6>3 DEF TypeOK
          <6> QED BY <6>2, <6>3
        <5> QED BY <2>4, <3>4, <5>1, <5>2, <5>3 DEF Handler
      <4> QED BY <1>2, <3>1, <4>1, <4>2, CountKept
    <3>5. CASE ~WriteStart /\ ~Handler /\ \A b \in Accels : ~Finish(b)
      BY <1>2, <2>4, <3>5, CountQuiet
    <3> QED BY <3>2, <3>3, <3>4, <3>5
  <2> QED BY <2>1, <2>2, <2>3, <2>4
<1> QED BY <1>1, <1>2 DEF CountInv, RingInv

(* At first there is nothing to count. *)
LEMMA CountBegins == Init => CountInv
<1> SUFFICES ASSUME Init, NEW a \in Accels PROVE CountUp(a)
  BY DEF CountInv
<1>1. host.pc = "idle" /\ irq.pc = "idle" /\ hw[a] = <<>> /\ done[a] = 0 /\ exec = [j \in Jobs |-> QUEUED]
  BY DEF Init, HostIdle, IrqIdle
<1>2. Waiting(a) = 0 /\ One(Entered(a)) = 0
  BY <1>1 DEF Waiting, Entered, One, Delivers
<1>3. IInv
  BY InitInv
<1>4. Len(Held(a)) = 0
  <2>1. Held(a) \in Seq(Jobs)
    BY <1>3, QueueType DEF IInv
  <2>2. SUFFICES ASSUME Len(Held(a)) # 0 PROVE FALSE
    OBVIOUS
  <2>3. 1 \in 1 .. Len(Held(a))
    BY <2>1, <2>2
  <2>4. ~Completing(a)
    BY <1>1 DEF Completing
  <2>5. 1 \in 1 .. Len(Queue(a))
    BY <1>3, <2>3, <2>4, HeldInQueue DEF IInv
  <2>6. Queue(a)[1] \in InFlight(a)
    BY <1>3, <2>5 DEF IInv, QueueInv
  <2> QED BY <1>1, <2>6 DEF InFlight, QUEUED, RUNNING, SUBMITTED
<1>5. Len(hw[a]) = 0
  BY <1>1
<1> QED BY <1>1, <1>2, <1>4, <1>5 DEF CountUp

(* Between two interrupts a ring is read at the entry of the invocation the  *)
(* accelerator ends next: no finish is skipped and none is credited to       *)
(* another invocation.                                                       *)
THEOREM LooksAtTheOldest ==
    ASSUME ResetsComeLast, StreamingIsNewer, OvertakenHaveRoom, OldestMapTakesOne
    PROVE  Spec => []OldestIsNext
<1>1. Init => CountInv
  BY CountBegins
<1>2. IInv /\ IInv' /\ [Next]_vars /\ CountInv => CountInv'
  BY CountStep
<1>3. IInv /\ CountInv => OldestIsNext
  <2> SUFFICES ASSUME IInv, CountInv, host.pc = "idle", irq.pc = "idle", NEW a \in Accels
               PROVE  LET next == job_ids[a][NextEntry(a)] IN
                      /\ done[a] > 0 => next # NoJob
                      /\ done[a] = 0 /\ hw[a] # <<>> => next = Head(hw[a]).job
    BY DEF OldestIsNext
  <2> USE DEF IInv
  <2>1. CASE RingDown(a)
    BY <2>1 DEF RingDown
  <2>2. CASE RingUp(a) /\ CountUp(a)
    <3> DEFINE T == [job : Jobs, regs : Registers]
               s == hw[a]
    <3>1. /\ Waiting(a) = done[a] /\ done[a] \in Nat /\ One(Entered(a)) = 0
          /\ unseen = NoJob /\ Oldest(a) = NextEntry(a)
      BY DEF Waiting, Delivers, Entered, One, HostInv, Oldest, NextEntry, TypeOK
    <3>2. Held(a) \in Seq(Jobs) /\ Layout(Cells(a), Oldest(a), Size[a], Held(a))
      BY <2>2 DEF RingUp
    <3>3. Oldest(a) \in 0 .. Size[a] - 1 /\ DOMAIN job_ids[a] = 0 .. Size[a] - 1
      BY CellsType DEF TypeOK
    <3>4. Cells(a)[Oldest(a)] = job_ids[a][NextEntry(a)]
      BY <3>1, <3>3 DEF Cells
    <3>5. Len(Held(a)) > 0 => /\ job_ids[a][NextEntry(a)] = Held(a)[1]
                              /\ Held(a)[1] \in Jobs
      <4> SUFFICES ASSUME Len(Held(a)) > 0
                   PROVE  job_ids[a][NextEntry(a)] = Held(a)[1] /\ Held(a)[1] \in Jobs
        OBVIOUS
      <4>1. 1 \in 1 .. Len(Held(a)) /\ 1 - 1 = 0
        BY <3>2
      <4>2. Slot(Size[a], Oldest(a), 0) = Oldest(a)
        BY <3>3, CellsType DEF Slot
      <4>3. Cells(a)[Slot(Size[a], Oldest(a), 1 - 1)] = Held(a)[1]
        BY <3>2, <4>1 DEF Layout
      <4> QED BY <3>2, <3>4, <4>1, <4>2, <4>3
    <3>6. s \in Seq(T)
      BY DEF TypeOK
    <3>7. done[a] + Len(s) = Len(Held(a)) /\ \A i \in 1 .. Len(s) : s[i].job = Held(a)[done[a] + i]
      <4>1. Waiting(a) + Len(s) + One(Entered(a)) = Len(Held(a))
            /\ \A i \in 1 .. Len(s) : s[i].job = Held(a)[Waiting(a) + i]
        BY <2>2 DEF CountUp
      <4> HIDE DEF s, T
      <4>2. Len(s) \in Nat
        BY <3>6
      <4> QED BY <3>1, <4>1, <4>2
    <3> HIDE DEF s, T
    <3>8. Len(s) \in Nat /\ (s # <<>> => 1 \in 1 .. Len(s) /\ Head(s) = s[1])
      BY <3>6
    <3>9. ASSUME done[a] > 0 PROVE job_ids[a][NextEntry(a)] # NoJob
      <4>1. Len(Held(a)) > 0
        BY <3>1, <3>7, <3>8, <3>9
      <4> QED BY <3>5, <4>1, JobAssumption
    <3>10. ASSUME done[a] = 0, s # <<>> PROVE job_ids[a][NextEntry(a)] = Head(s).job
      <4>1. Len(Held(a)) > 0 /\ s[1].job = Held(a)[1]
        BY <3>7, <3>8, <3>10
      <4> QED BY <3>5, <3>8, <3>10, <4>1
    <3> QED BY <3>9, <3>10 DEF s
  <2> QED BY <2>1, <2>2 DEF CountInv, RingInv
<1> QED BY <1>1, <1>2, <1>3, Invariance, PTL DEF Spec

-----------------------------------------------------------------------------
(* Stalls.                                                                   *)

(* An accelerator that stalls on its printf buffer takes one invocation at a *)
(* time (acl_auto_configure.cpp:1032); and the two cases in which a stall is *)
(* lost: a debug dump of it, and a kernel that stalls again before the       *)
(* handler has cleared the bit of the stall it was resumed from.             *)
PrintfTakesOne == \A a \in Accels : MaxStalls[a] > 0 => Size[a] = 1
StallsApart ==
    \A a \in Accels : MaxStalls[a] > 0 =>
        a \notin Dumps /\ (MaxOvertakes[a] = 0 \/ MaxStalls[a] = 1)

Alive(a) == {j \in Jobs : AccelOf[j] = a /\ exec[j] > COMPLETE}
Serves(a) == irq.pc \in {"pend", "flag", "clear"} /\ irq.accel = a
Picked(j) == host.pc \in {"dumped", "resume"} /\ host.job = j
Resuming(a) == host.pc = "unstall" /\ AccelOf[host.job] = a
Untouched(j) == ~pending[j] /\ ~Picked(j)
Running(a) == hw[a][1].job

(* Nothing is left of earlier stalls of an accelerator; or it was resumed    *)
(* before the handler had cleared the bit, and may stall no more.            *)
Calm(a) ==
    /\ ~stalled[a] /\ ~stall_bit[a] /\ ~Serves(a) /\ ~Resuming(a)
    /\ \A j \in Alive(a) : Untouched(j)
Spent(a) == ~stalled[a] /\ MaxOvertakes[a] # 0 /\ stalls[a] > 0

(* The stall has not reached the host yet. *)
Raised(a) ==
    /\ stall_bit[a] /\ (Serves(a) => irq.pc = "pend")
    /\ Untouched(Running(a)) /\ ~Resuming(a)

(* The host has a pickup to do, is at it, or is about to resume the kernel.  *)
Reported(a) ==
    /\ Serves(a) => irq.pc # "pend"
    /\ ~Serves(a) => ~stall_bit[a]
    /\ \/ pending[Running(a)] /\ ~Picked(Running(a)) /\ ~Resuming(a)
       \/ host.pc = "dumped" /\ host.job = Running(a)
       \/ host.pc = "resume" /\ host.job = Running(a) /\ ~pending[Running(a)]
       \/ /\ host.pc = "unstall" /\ host.job = Running(a) /\ ~pending[Running(a)]
          /\ MaxOvertakes[a] = 0 => ~host.csr /\ ~Serves(a)

Blocked(a) ==
    /\ stalled[a] /\ stalls[a] > 0
    /\ \A j \in Alive(a) : j # Running(a) => Untouched(j)
    /\ Serves(a) => irq.job = Running(a)
    /\ Raised(a) \/ Reported(a)

StallInv ==
    /\ overtakes \in [Accels -> Nat]
    /\ \A a \in Accels : stalled[a] => MaxStalls[a] > 0 /\ hw[a] # <<>>
    /\ \A j \in Jobs : AccelOf[j] \notin Dumps => ~debug[j]
    /\ irq.pc \in {"pend", "flag", "clear"} => AccelOf[irq.job] = irq.accel
    /\ \A a \in Accels : MaxStalls[a] > 0 =>
          RingDown(a) \/ Calm(a) \/ Spent(a) \/ Blocked(a)

(* What is finished or failed stays so. *)
LEMMA AliveStays ==
    ASSUME RingsInv, [Next]_vars, NEW j \in Jobs, exec'[j] > COMPLETE
    PROVE  exec[j] > COMPLETE
<1> USE DEF RingsInv
<1>1. exec \in [Jobs -> FAILED .. QUEUED]
  BY DEF TypeOK
<1>2. ASSUME NEW k \in Jobs, Launch(k) PROVE exec[j] > COMPLETE
  <2>1. exec[k] = QUEUED /\ exec' = [exec EXCEPT ![k] = SUBMITTED]
    BY <1>2 DEF Launch, TodoInv
  <2> QED BY <1>1, <2>1 DEF QUEUED, COMPLETE
<1>3. CASE Complete
  <2>1. exec' = Lowered(exec, irq.job, COMPLETE) /\ irq.job \in Jobs \cup {NoJob}
    BY <1>3 DEF Complete, TypeOK
  <2>2. COMPLETE \in FAILED .. QUEUED
    BY DEF COMPLETE, FAILED, QUEUED
  <2>3. CASE irq.job = j
    <3>1. exec'[j] = IF exec[j] > COMPLETE THEN COMPLETE ELSE exec[j]
      BY <1>1, <2>1, <2>2, <2>3, LoweredType
    <3> QED BY <1>1, <3>1 DEF COMPLETE
  <2>4. CASE irq.job # j
    BY <1>1, <2>1, <2>2, <2>4, LoweredType
  <2> QED BY <2>3, <2>4
<1>4. ASSUME NEW device \in Resets, NEW past \in Stray, Reset(device, past)
      PROVE  exec[j] > COMPLETE
  <2> DEFINE ended == {past} \cup UNION {Range(job_ids[a]) : a \in device}
  <2>1. exec' = [k \in Jobs |-> IF k \in ended THEN Lowered(exec, k, FAILED)[k] ELSE exec[k]]
    BY <1>4 DEF Reset
  <2> HIDE DEF ended
  <2>2. FAILED \in FAILED .. QUEUED
    BY DEF FAILED, QUEUED
  <2>3. Lowered(exec, j, FAILED)[j] = IF exec[j] > FAILED THEN FAILED ELSE exec[j]
    BY <1>1, <2>2, LoweredType
  <2> QED BY <1>1, <2>1, <2>3 DEF FAILED, COMPLETE
<1>5. CASE /\ \A k \in Jobs : ~Launch(k)
           /\ ~Complete
           /\ \A device \in Resets, past \in Stray : ~Reset(device, past)
  BY <1>1, <1>5, RunningStep DEF SUBMITTED, RUNNING, COMPLETE
<1> QED BY <1>2, <1>3, <1>4, <1>5

LEMMA ElementOf ==
    ASSUME NEW S, NEW q \in Seq(S), NEW i \in 1 .. Len(q)
    PROVE  q[i] \in S
OBVIOUS

(* A kernel that runs on an accelerator that takes one at a time is all that *)
(* there is in its ring, and nothing waits to be delivered.                  *)
LEMMA RunsAlone ==
    ASSUME IInv, CountInv, NEW a \in Accels, Size[a] = 1, hw[a] # <<>>
    PROVE  /\ Running(a) \in Alive(a) /\ Running(a) \in Range(job_ids[a])
           /\ job_ids[a][NextEntry(a)] = Running(a)
           /\ done[a] = 0 /\ ~Completing(a) /\ ~Entered(a)
<1> USE DEF IInv
<1> DEFINE T == [job : Jobs, regs : Registers]
           s == hw[a]
           h == Held(a)
<1>1. RingUp(a) /\ CountUp(a)
  BY DEF RingDown, CountInv, RingInv
<1>2. s \in Seq(T) /\ h \in Seq(Jobs) /\ Layout(Cells(a), Oldest(a), 1, h)
  BY <1>1 DEF RingUp, TypeOK
<1>3. /\ Waiting(a) + Len(s) + One(Entered(a)) = Len(h)
      /\ \A i \in 1 .. Len(s) : s[i].job = h[Waiting(a) + i]
  BY <1>1 DEF CountUp
<1>4. Waiting(a) \in Nat
  BY WaitingType
<1>5. Len(h) <= 1
  BY <1>2 DEF Layout
<1>6. One(Entered(a)) \in {0, 1} /\ (Entered(a) => One(Entered(a)) = 1)
  BY DEF One
<1> HIDE DEF s, T, h
<1>7. Len(s) >= 1 /\ Len(s) \in Nat
  BY <1>2 DEF s
<1>8. Waiting(a) = 0 /\ Len(h) = 1 /\ ~Entered(a) /\ s[1].job = h[1]
  <2>1. Len(h) \in Nat
    BY <1>2
  <2>2. Waiting(a) = 0 /\ Len(h) = 1 /\ One(Entered(a)) = 0
    BY <1>3, <1>4, <1>5, <1>6, <1>7, <2>1
  <2>3. s[1].job = h[0 + 1]
    BY <1>3, <1>7, <2>2
  <2> QED BY <1>6, <2>2, <2>3
<1>9. ~Completing(a)
  <2> SUFFICES ASSUME Completing(a) PROVE FALSE
    OBVIOUS
  <2>1. Held(a) = <<>>
    BY LastOfOne DEF RingsInv
  <2> QED BY <1>8, <2>1 DEF h
<1>10. done[a] = 0
  <2>1. ~(irq.accel = a /\ irq.pc = "complete")
    BY <1>1, <1>9 DEF Completing, CountUp
  <2>2. done[a] \in Nat /\ irq.finishes \in Nat
    BY DEF TypeOK
  <2>3. irq.pc \in Delivers => irq.finishes > 0
    BY DEF IrqInv
  <2> HIDE DEF IInv
  <2> QED BY <1>8, <2>1, <2>2, <2>3 DEF Waiting
<1>11. unseen # NoJob => AccelOf[unseen] # a
  BY <1>8 DEF HostInv, Entered
<1>12. job_ids[a] \in [0 .. 0 -> Jobs \cup {NoJob}] /\ Oldest(a) = 0 /\ NextEntry(a) = 0
  <2>1. Oldest(a) \in 0 .. 0
    BY CellsType
  <2>2. NextEntry(a) \in 0 .. 0
    <3>1. back[a] \in -1 .. Size[a] - 1
      BY DEF TypeOK
    <3> QED BY <3>1, NextIndexType DEF NextEntry
  <2>3. job_ids[a] \in [0 .. Size[a] - 1 -> Jobs \cup {NoJob}]
    BY DEF TypeOK
  <2> QED BY <2>1, <2>2, <2>3
<1>13. job_ids[a][0] = h[1]
  <2>1. Cells(a)[Slot(1, 0, 1 - 1)] = h[1]
    BY <1>2, <1>8, <1>12 DEF Layout
  <2>2. Slot(1, 0, 1 - 1) = 0
    BY DEF Slot
  <2>3. Cells(a)[0] = job_ids[a][0]
    BY <1>11, <1>12 DEF Cells
  <2> QED BY <2>1, <2>2, <2>3
<1>14. job_ids[a][0] # NoJob /\ 0 \in DOMAIN job_ids[a]
  <2>1. h[1] \in Jobs
    <3>1. h \in Seq(Jobs) /\ Len(h) = 1
      BY <1>2, <1>8
    <3>2. 1 \in 1 .. Len(h)
      BY <3>1
    <3> QED BY <3>1, <3>2, ElementOf
  <2> QED BY <1>12, <1>13, <2>1, JobAssumption
<1>15. job_ids[a][0] \in InFlight(a)
  BY <1>14, RingIsInFlight DEF RingsInv
<1>16. Running(a) = job_ids[a][0]
  BY <1>8, <1>13 DEF Running, s
<1> QED
  BY <1>8, <1>9, <1>10, <1>12, <1>14, <1>15, <1>16
     DEF Alive, InFlight, RUNNING, SUBMITTED, COMPLETE, Range

(* The steps that have nothing to do with the stalls of an accelerator. *)
LEMMA StallKept ==
    ASSUME NEW a \in Accels, Calm(a) \/ Spent(a) \/ Blocked(a),
           stalled[a] => hw[a] # <<>> /\ hw'[a][1] = hw[a][1]
                         /\ pending'[Running(a)] = pending[Running(a)],
           stalled'[a] = stalled[a], stall_bit'[a] = stall_bit[a], stalls'[a] = stalls[a],
           Serves(a)' <=> Serves(a),
           Serves(a) => irq'.job = irq.job /\ (irq'.pc = "pend" <=> irq.pc = "pend"),
           \/ UNCHANGED host
           \/ /\ host.pc \notin {"dumped", "resume", "unstall"}
              /\ host'.pc \notin {"dumped", "resume", "unstall"},
           \A j \in Alive(a)' : j \in Alive(a) /\ pending'[j] = pending[j]
    PROVE  Calm(a)' \/ Spent(a)' \/ Blocked(a)'
<1>1. \A j : Picked(j)' <=> Picked(j)
  BY DEF Picked
<1>2. Resuming(a)' <=> Resuming(a)
  BY DEF Resuming
<1>3. \A j \in Alive(a)' : j \in Alive(a) /\ (Untouched(j)' <=> Untouched(j))
  BY <1>1 DEF Untouched
<1>4. CASE Calm(a)
  BY <1>2, <1>3, <1>4 DEF Calm
<1>5. CASE Spent(a)
  BY <1>5 DEF Spent
<1>6. CASE Blocked(a)
  <2>1. stalled[a] /\ stalls[a] > 0 /\ (Serves(a) => irq.job = Running(a))
    BY <1>6 DEF Blocked
  <2>2. Running(a)' = Running(a) /\ pending'[Running(a)] = pending[Running(a)]
    BY <2>1 DEF Running
  <2>3. Raised(a) => Raised(a)'
    BY <1>1, <1>2, <2>2 DEF Raised, Untouched
  <2>4. Reported(a) => Reported(a)'
    BY <1>1, <1>2, <2>2 DEF Reported
  <2>5. \A j \in Alive(a)' : j # Running(a)' => Untouched(j)'
    BY <1>3, <1>6, <2>2 DEF Blocked
  <2> QED BY <1>6, <2>1, <2>2, <2>3, <2>4, <2>5 DEF Blocked
<1> QED BY <1>4, <1>5, <1>6

(* A kernel that is stalled can be resumed: it is in the ring. *)
LEMMA RunningFacts ==
    ASSUME IInv, CountInv, StallInv, PrintfTakesOne, StallsApart,
           NEW a \in Accels, MaxStalls[a] > 0, stalled[a]
    PROVE  /\ hw[a] # <<>> /\ Running(a) \in Alive(a) /\ Resumes(Running(a))
           /\ job_ids[a][NextEntry(a)] = Running(a)
<1>1. hw[a] # <<>> /\ Size[a] = 1 /\ a \notin Dumps
  BY DEF StallInv, PrintfTakesOne, StallsApart
<1>2. /\ Running(a) \in Alive(a) /\ Running(a) \in Range(job_ids[a])
      /\ job_ids[a][NextEntry(a)] = Running(a)
  BY <1>1, RunsAlone
<1>3. ~debug[Running(a)] /\ AccelOf[Running(a)] = a
  BY <1>1, <1>2 DEF StallInv, Alive
<1> QED BY <1>1, <1>2, <1>3 DEF Resumes

LEMMA RingAlive ==
    ASSUME IInv, NEW a \in Accels, NEW j, j \in Range(job_ids[a]), j # NoJob
    PROVE  j \in Alive(a)
<1>1. PICK i \in DOMAIN job_ids[a] : job_ids[a][i] = j
  BY DEF Range
<1>2. j \in InFlight(a)
  BY <1>1, RingIsInFlight DEF IInv, RingsInv
<1> QED BY <1>2 DEF Alive, InFlight, RUNNING, SUBMITTED, COMPLETE

(* The host launches. *)
LEMMA StallLaunch ==
    ASSUME IInv, CountInv, StallInv, PrintfTakesOne, StallsApart, [Next]_vars,
           NEW a \in Accels, MaxStalls[a] > 0, Calm(a) \/ Spent(a) \/ Blocked(a),
           \/ \E j \in Jobs : Launch(j)
           \/ WriteImage \/ EnterRing \/ Announce \/ WriteStart
    PROVE  Calm(a)' \/ Spent(a)' \/ Blocked(a)'
<1> USE DEF opVars, ringVars, cacheVars, hwVars
<1>1. /\ UNCHANGED <<stalled, stall_bit, stalls, irq, pending>>
      /\ host.pc \in {"idle", "image", "enter", "announce", "start"}
  BY DEF Launch, WriteImage, EnterRing, Announce, WriteStart
<1>2. host'.pc \notin {"dumped", "resume", "unstall"}
  <2>1. host \in [pc : {"idle", "image", "enter", "announce", "start",
                       "dumped", "resume", "unstall"},
                 job : Jobs \cup {NoJob}, next : Nat, csr : BOOLEAN]
    BY DEF IInv, TypeOK
  <2>2. ASSUME NEW j \in Jobs, Launch(j) PROVE host'.pc = "image"
    BY <2>2 DEF Launch, HostIdle
  <2>3. CASE WriteImage \/ EnterRing \/ Announce
    BY <2>1, <2>3 DEF WriteImage, EnterRing, Announce
  <2>4. CASE WriteStart
    BY <2>4 DEF WriteStart, HostIdle
  <2> QED BY <2>2, <2>3, <2>4
<1>3. hw[a] # <<>> => hw'[a][1] = hw[a][1]
  <2>1. CASE WriteStart
    <3> DEFINE T == [job : Jobs, regs : Registers]
               s == hw[a]
    <3>1. hw \in [Accels -> Seq(T)]
      BY DEF IInv, TypeOK
    <3>2. s \in Seq(T)
      BY <3>1
    <3> HIDE DEF T
    <3>3. hw'[a] = s \/ \E x : hw'[a] = Append(s, x)
      BY <2>1, <3>1 DEF WriteStart
    <3> HIDE DEF s
    <3>4. \A x : s # <<>> => Append(s, x)[1] = s[1]
      BY <3>2
    <3>5. s # <<>> => hw'[a][1] = s[1]
      BY <3>3, <3>4
    <3> QED BY <3>5 DEF s
  <2>2. CASE ~WriteStart
    <3>1. hw' = hw
      BY <2>2 DEF Launch, WriteImage, EnterRing, Announce
    <3> QED BY <3>1
  <2> QED BY <2>1, <2>2
<1>4. Serves(a)' <=> Serves(a)
  BY <1>1 DEF Serves
<1>5. \A j \in Alive(a)' : j \in Alive(a)
  BY AliveStays DEF Alive, IInv, RingsInv
<1>6. stalled[a] => hw[a] # <<>>
  BY RunningFacts
<1> QED BY <1>1, <1>2, <1>3, <1>4, <1>5, <1>6, StallKept

(* The host picks up what a printf buffer holds and resumes the kernel. *)
LEMMA StallPickUp ==
    ASSUME IInv, CountInv, StallInv, PrintfTakesOne, StallsApart, [Next]_vars,
           NEW a \in Accels, MaxStalls[a] > 0, Calm(a) \/ Spent(a) \/ Blocked(a),
           NEW j \in Jobs, PickUp(j)
    PROVE  Calm(a)' \/ Spent(a)' \/ Blocked(a)'
<1> USE DEF opVars, ringVars, cacheVars, hwVars
<1>1. /\ host.pc = "idle" /\ pending[j] /\ host'.pc = "dumped" /\ host'.job = j
      /\ UNCHANGED <<stalled, stall_bit, stalls, irq, pending, hw, exec>>
  BY DEF PickUp, HostIdle
<1>2. /\ Alive(a)' = Alive(a) /\ Serves(a)' = Serves(a) /\ Running(a)' = Running(a)
      /\ ~Resuming(a)' /\ \A k : ~Picked(k) /\ (Picked(k)' <=> k = j)
  BY <1>1 DEF Alive, Serves, Running, Resuming, Picked
<1>3. \A k : k # j => (Untouched(k)' <=> Untouched(k))
  BY <1>1, <1>2 DEF Untouched
<1>4. ~Untouched(j)
  BY <1>1 DEF Untouched
<1>5. CASE Calm(a)
  BY <1>1, <1>2, <1>3, <1>4, <1>5 DEF Calm
<1>6. CASE Spent(a)
  BY <1>1, <1>6 DEF Spent
<1>7. CASE Blocked(a)
  <2>1. \A k \in Alive(a) : k # Running(a) => Untouched(k)'
    BY <1>3, <1>4, <1>7 DEF Blocked
  <2>2. Raised(a) => Raised(a)'
    BY <1>1, <1>2, <1>3, <1>4 DEF Raised
  <2>3. Reported(a) => Reported(a)'
    BY <1>1, <1>2 DEF Reported
  <2> QED BY <1>1, <1>2, <1>7, <2>1, <2>2, <2>3 DEF Blocked
<1> QED BY <1>5, <1>6, <1>7

LEMMA StallClear ==
    ASSUME IInv, CountInv, StallInv, PrintfTakesOne, StallsApart, [Next]_vars,
           NEW a \in Accels, MaxStalls[a] > 0, Calm(a) \/ Spent(a) \/ Blocked(a),
           ClearPending
    PROVE  Calm(a)' \/ Spent(a)' \/ Blocked(a)'
<1> USE DEF opVars, ringVars, cacheVars, hwVars
<1> DEFINE j == host.job
<1>0. j \in Jobs /\ pending \in [Jobs -> BOOLEAN]
  BY DEF ClearPending, IInv, HostInv, TypeOK
<1>1. /\ host.pc = "dumped" /\ host'.pc = "resume" /\ host'.job = j
      /\ ~pending'[j] /\ \A k \in Jobs : k # j => pending'[k] = pending[k]
      /\ UNCHANGED <<stalled, stall_bit, stalls, irq, hw, exec>>
  BY <1>0 DEF ClearPending, IInv, TypeOK
<1>2. /\ Alive(a)' = Alive(a) /\ Serves(a)' = Serves(a) /\ Running(a)' = Running(a)
      /\ ~Resuming(a)' /\ ~Resuming(a) /\ \A k : Picked(k)' <=> Picked(k)
  BY <1>1 DEF Alive, Serves, Running, Resuming, Picked
<1>3. Picked(j) /\ Alive(a) \subseteq Jobs
  BY <1>1 DEF Picked, Alive
<1> HIDE DEF j
<1>4. \A k \in Jobs : Untouched(k) => Untouched(k)'
  BY <1>1, <1>2, <1>3 DEF Untouched
<1>5. CASE Calm(a)
  BY <1>1, <1>2, <1>3, <1>4, <1>5 DEF Calm
<1>6. CASE Spent(a)
  BY <1>1, <1>6 DEF Spent
<1>7. CASE Blocked(a)
  <2>1. Running(a) \in Jobs
    BY <1>3, <1>7, RunningFacts DEF Blocked
  <2>2. \A k \in Alive(a) : k # Running(a) => Untouched(k)'
    BY <1>3, <1>4, <1>7 DEF Blocked
  <2>3. Raised(a) => Raised(a)'
    BY <1>1, <1>2, <1>4, <2>1 DEF Raised
  <2>4. Reported(a) => Reported(a)'
    <3>1. CASE Running(a) = j
      BY <1>1, <1>2, <3>1 DEF Reported
    <3>2. CASE Running(a) # j
      BY <1>0, <1>1, <1>2, <2>1, <3>2 DEF Reported, j
    <3> QED BY <3>1, <3>2
  <2> QED BY <1>1, <1>2, <1>7, <2>2, <2>3, <2>4 DEF Blocked
<1> QED BY <1>5, <1>6, <1>7

LEMMA StallResume ==
    ASSUME IInv, CountInv, StallInv, PrintfTakesOne, StallsApart, [Next]_vars,
           NEW a \in Accels, MaxStalls[a] > 0, Calm(a) \/ Spent(a) \/ Blocked(a),
           Resume
    PROVE  Calm(a)' \/ Spent(a)' \/ Blocked(a)'
<1> USE DEF opVars, ringVars, cacheVars, hwVars
<1> DEFINE j == host.job
<1>0. j \in Jobs /\ AccelOf[j] \in Accels
  BY AccelOfType DEF Resume, IInv, HostInv
<1>1. /\ host.pc = "resume"
      /\ UNCHANGED <<stalled, stall_bit, stalls, irq, pending, hw, exec>>
      /\ \/ ~Resumes(j) /\ host'.pc = "idle"
         \/ /\ Resumes(j) /\ host'.pc = "unstall" /\ host'.job = j
            /\ host'.csr = stall_bit[AccelOf[j]]
            /\ Serves(AccelOf[j]) => overtakes[AccelOf[j]] < MaxOvertakes[AccelOf[j]]
  <2>1. /\ host.pc = "resume"
        /\ UNCHANGED <<stalled, stall_bit, stalls, irq, pending, hw, exec>>
    BY DEF Resume
  <2>2. CASE ~Resumes(j)
    BY <2>1, <2>2 DEF Resume, HostIdle
  <2>3. CASE Resumes(j)
    <3>1. /\ host' = [host EXCEPT !.pc = "unstall", !.csr = stall_bit[AccelOf[j]]]
          /\ Serves(AccelOf[j]) => overtakes[AccelOf[j]] < MaxOvertakes[AccelOf[j]]
      BY <2>3 DEF Resume, Serves
    <3>2. host'.pc = "unstall" /\ host'.job = j /\ host'.csr = stall_bit[AccelOf[j]]
      BY <3>1 DEF IInv, TypeOK
    <3> QED BY <2>1, <2>3, <3>1, <3>2
  <2> QED BY <2>2, <2>3
<1>2. /\ Alive(a)' = Alive(a) /\ Serves(a)' = Serves(a) /\ Running(a)' = Running(a)
      /\ ~Resuming(a) /\ \A k : ~Picked(k)' /\ (Picked(k) <=> k = j)
  BY <1>1 DEF Alive, Serves, Running, Resuming, Picked
<1>3. \A k : Untouched(k) => Untouched(k)' /\ k # j
  BY <1>1, <1>2 DEF Untouched
<1>4. \A k : k # j /\ Untouched(k)' => Untouched(k)
  BY <1>1, <1>2 DEF Untouched
<1>5. Resumes(j) /\ AccelOf[j] = a => j \in Alive(a)
  BY <1>0, RingAlive, JobAssumption DEF Resumes
<1>6. MaxOvertakes[a] = 0 /\ AccelOf[j] = a /\ Resumes(j) => ~Serves(a)
  BY <1>1, BoundsAssumption DEF StallInv
<1>7. Resuming(a)' => Resumes(j) /\ AccelOf[j] = a
  BY <1>1 DEF Resuming
<1>8. CASE Calm(a)
  <2>1. ~Resuming(a)'
    BY <1>3, <1>5, <1>7, <1>8 DEF Calm
  <2> QED BY <1>1, <1>2, <1>3, <1>8, <2>1 DEF Calm
<1>9. CASE Spent(a)
  BY <1>1, <1>9 DEF Spent
<1>10. CASE Blocked(a)
  <2>1. \A k \in Alive(a) : k # Running(a) => Untouched(k)'
    BY <1>3, <1>10 DEF Blocked
  <2>2. Resuming(a)' => j = Running(a)
    BY <1>3, <1>5, <1>7, <1>10 DEF Blocked
  <2>3. Resumes(Running(a)) /\ AccelOf[Running(a)] = a
    BY <1>10, RunningFacts DEF Blocked, Alive
  <2>4. Raised(a) => Raised(a)'
    BY <1>1, <1>2, <1>3, <2>2 DEF Raised
  <2>5. Reported(a) => Reported(a)'
    <3> SUFFICES ASSUME Reported(a) PROVE Reported(a)'
      OBVIOUS
    <3>1. CASE j = Running(a)
      <4>1. /\ ~pending[Running(a)] /\ (Serves(a) => irq.pc # "pend")
            /\ ~Serves(a) => ~stall_bit[a]
        BY <1>1, <1>2, <3>1 DEF Reported, j
      <4>2. host'.pc = "unstall" /\ host'.job = Running(a) /\ host'.csr = stall_bit[a]
        BY <1>1, <2>3, <3>1
      <4>3. MaxOvertakes[a] = 0 => ~Serves(a)
        BY <1>6, <2>3, <3>1
      <4> QED BY <1>1, <1>2, <4>1, <4>2, <4>3 DEF Reported
    <3>2. CASE j # Running(a)
      <4>1. pending[Running(a)] /\ ~Resuming(a)'
        BY <1>1, <2>2, <3>2 DEF Reported, j
      <4> QED BY <1>1, <1>2, <4>1 DEF Reported
    <3> QED BY <3>1, <3>2
  <2> QED BY <1>1, <1>2, <1>10, <2>1, <2>4, <2>5 DEF Blocked
<1> QED BY <1>8, <1>9, <1>10

LEMMA StallUnstall ==
    ASSUME IInv, CountInv, StallInv, PrintfTakesOne, StallsApart, [Next]_vars,
           NEW a \in Accels, MaxStalls[a] > 0, Calm(a) \/ Spent(a) \/ Blocked(a),
           Unstall
    PROVE  Calm(a)' \/ Spent(a)' \/ Blocked(a)'
<1> USE DEF opVars, ringVars, cacheVars, hwVars
<1> DEFINE b == AccelOf[host.job]
<1>0. b \in Accels
  BY AccelOfType DEF Unstall, IInv, HostInv
<1>1. /\ host.pc = "unstall" /\ host'.pc = "idle"
      /\ UNCHANGED <<stalls, irq, pending, hw, exec>>
      /\ ~stalled'[b] /\ stall_bit'[b] = host.csr
      /\ a # b => stalled'[a] = stalled[a] /\ stall_bit'[a] = stall_bit[a]
  BY <1>0 DEF Unstall, HostIdle, IInv, TypeOK
<1>2. /\ Alive(a)' = Alive(a) /\ Serves(a)' = Serves(a) /\ Running(a)' = Running(a)
      /\ ~Resuming(a)' /\ (Resuming(a) <=> a = b) /\ \A k : ~Picked(k)' /\ ~Picked(k)
  BY <1>1 DEF Alive, Serves, Running, Resuming, Picked
<1> HIDE DEF b
<1>3. \A k : Untouched(k)' = Untouched(k)
  BY <1>1, <1>2 DEF Untouched
<1>4. CASE Calm(a)
  BY <1>1, <1>2, <1>3, <1>4 DEF Calm
<1>5. CASE Spent(a)
  BY <1>1, <1>5 DEF Spent
<1>6. CASE Blocked(a) /\ a # b
  <2>1. AccelOf[Running(a)] = a
    BY <1>6, RunningFacts DEF Blocked, Alive
  <2>2. Raised(a) => Raised(a)'
    BY <1>1, <1>2, <1>3, <1>6 DEF Raised
  <2>3. Reported(a) => Reported(a)'
    BY <1>1, <1>2, <1>6, <2>1 DEF Reported, b
  <2> QED BY <1>1, <1>2, <1>3, <1>6, <2>2, <2>3 DEF Blocked
<1>7. CASE Blocked(a) /\ a = b
  <2>1. Reported(a) /\ stalls[a] > 0
    BY <1>2, <1>7 DEF Blocked, Raised
  <2>2. /\ ~pending[Running(a)]
        /\ MaxOvertakes[a] = 0 => ~host.csr /\ ~Serves(a)
    BY <1>1, <1>2, <1>7, <2>1 DEF Reported
  <2>3. CASE MaxOvertakes[a] = 0
    <3>1. \A k \in Alive(a) : Untouched(k)
      BY <1>2, <1>7, <2>2 DEF Blocked, Untouched
    <3> QED BY <1>1, <1>2, <1>3, <1>7, <2>2, <2>3, <3>1 DEF Calm
  <2>4. CASE MaxOvertakes[a] # 0
    BY <1>1, <1>7, <2>1, <2>4 DEF Spent
  <2> QED BY <2>3, <2>4
<1> QED BY <1>4, <1>5, <1>6, <1>7

(* The handler serves a stall.                                               *)
LEMMA StallQuery ==
    ASSUME IInv, CountInv, StallInv, PrintfTakesOne, StallsApart, [Next]_vars,
           NEW a \in Accels, MaxStalls[a] > 0, Calm(a) \/ Spent(a) \/ Blocked(a),
           NEW b \in Accels, Query(b)
    PROVE  Calm(a)' \/ Spent(a)' \/ Blocked(a)'
<1> USE DEF opVars, ringVars, cacheVars, hwVars
<1>1. /\ irq.pc = "idle" /\ irq'.accel = b
      /\ irq'.pc \in {"pend", "retire"} /\ irq'.job = job_ids[b][NextEntry(b)]
      /\ irq'.pc = "pend" => stall_bit[b]
      /\ UNCHANGED <<stalled, stall_bit, stalls, host, pending, hw, exec>>
  BY DEF Query, IrqIdle
<1>2. /\ Alive(a)' = Alive(a) /\ Running(a)' = Running(a) /\ ~Serves(a)
      /\ (Resuming(a)' <=> Resuming(a)) /\ \A k : Untouched(k)' <=> Untouched(k)
      /\ \A k : Picked(k)' <=> Picked(k)
  BY <1>1 DEF Alive, Serves, Running, Resuming, Untouched, Picked
<1>3. Serves(a)' => a = b /\ irq'.pc = "pend" /\ stall_bit[a]
  BY <1>1 DEF Serves
<1>4. CASE Calm(a)
  BY <1>1, <1>2, <1>3, <1>4 DEF Calm
<1>5. CASE Spent(a)
  BY <1>1, <1>5 DEF Spent
<1>6. CASE Blocked(a)
  <2>1. Serves(a)' => irq'.job = Running(a)
    BY <1>1, <1>3, <1>6, RunningFacts DEF Blocked
  <2>2. Raised(a) => Raised(a)'
    BY <1>1, <1>2, <1>3 DEF Raised
  <2>3. Reported(a) => Reported(a)'
    <3> SUFFICES ASSUME Reported(a) PROVE Reported(a)'
      OBVIOUS
    <3>1. ~Serves(a)'
      BY <1>2, <1>3 DEF Reported
    <3> QED BY <1>1, <1>2, <3>1 DEF Reported
  <2> QED BY <1>1, <1>2, <1>6, <2>1, <2>2, <2>3 DEF Blocked
<1> QED BY <1>4, <1>5, <1>6

LEMMA StallPend ==
    ASSUME IInv, CountInv, StallInv, PrintfTakesOne, StallsApart, [Next]_vars,
           NEW a \in Accels, MaxStalls[a] > 0, Calm(a) \/ Spent(a) \/ Blocked(a),
           PendStall
    PROVE  Calm(a)' \/ Spent(a)' \/ Blocked(a)'
<1> USE DEF opVars, ringVars, cacheVars, hwVars
<1>0. irq.job \in Jobs /\ AccelOf[irq.job] = irq.accel
  BY DEF PendStall, IInv, IrqInv, StallInv
<1>1. /\ irq.pc = "pend" /\ irq'.pc = "flag" /\ irq'.job = irq.job /\ irq'.accel = irq.accel
      /\ pending'[irq.job] /\ \A k \in Jobs : k # irq.job => pending'[k] = pending[k]
      /\ UNCHANGED <<stalled, stall_bit, stalls, host, hw, exec>>
  BY <1>0 DEF PendStall, IInv, TypeOK
<1>2. /\ Alive(a)' = Alive(a) /\ Running(a)' = Running(a)
      /\ (Serves(a)' <=> Serves(a)) /\ (Serves(a) <=> irq.accel = a)
      /\ (Resuming(a)' <=> Resuming(a)) /\ \A k : Picked(k)' <=> Picked(k)
  BY <1>1 DEF Alive, Serves, Running, Resuming, Picked
<1>3. Alive(a) \subseteq Jobs /\ \A k \in Alive(a) : AccelOf[k] = a
  BY DEF Alive
<1>4. CASE irq.accel # a
  <2>1. \A k \in Alive(a)' : k \in Alive(a) /\ pending'[k] = pending[k]
    BY <1>0, <1>1, <1>2, <1>3, <1>4
  <2>2. stalled[a] => hw[a] # <<>> /\ pending'[Running(a)] = pending[Running(a)]
    BY <1>2, <2>1, RunningFacts
  <2> QED BY <1>1, <1>2, <1>4, <2>1, <2>2, StallKept
<1>5. CASE irq.accel = a /\ Calm(a)
  BY <1>2, <1>5 DEF Calm
<1>6. CASE Spent(a)
  BY <1>1, <1>6 DEF Spent
<1>7. CASE irq.accel = a /\ Blocked(a)
  <2>1. irq.job = Running(a) /\ Raised(a)
    BY <1>1, <1>2, <1>7 DEF Blocked, Reported
  <2>2. \A k \in Alive(a) : k # Running(a) => Untouched(k)'
    BY <1>1, <1>2, <1>3, <1>7, <2>1 DEF Blocked, Untouched
  <2>3. Reported(a)'
    BY <1>1, <1>2, <1>7, <2>1 DEF Raised, Reported, Untouched
  <2> QED BY <1>1, <1>2, <1>7, <2>1, <2>2, <2>3 DEF Blocked
<1> QED BY <1>4, <1>5, <1>6, <1>7

LEMMA StallFlagged ==
    ASSUME IInv, CountInv, StallInv, PrintfTakesOne, StallsApart, [Next]_vars,
           NEW a \in Accels, MaxStalls[a] > 0, Calm(a) \/ Spent(a) \/ Blocked(a),
           FlagStall
    PROVE  Calm(a)' \/ Spent(a)' \/ Blocked(a)'
<1> USE DEF opVars, ringVars, cacheVars, hwVars
<1>1. /\ irq.pc = "flag" /\ irq'.pc = "clear" /\ irq'.job = irq.job /\ irq'.accel = irq.accel
      /\ UNCHANGED <<stalled, stall_bit, stalls, host, hw, exec, pending>>
  BY DEF FlagStall, IInv, TypeOK
<1>2. Alive(a)' = Alive(a) /\ (Serves(a)' <=> Serves(a))
  BY <1>1 DEF Alive, Serves
<1>3. stalled[a] => hw[a] # <<>>
  BY RunningFacts
<1> QED BY <1>1, <1>2, <1>3, StallKept

LEMMA StallCleared ==
    ASSUME IInv, CountInv, StallInv, PrintfTakesOne, StallsApart, [Next]_vars,
           NEW a \in Accels, MaxStalls[a] > 0, Calm(a) \/ Spent(a) \/ Blocked(a),
           ClearStallBit
    PROVE  Calm(a)' \/ Spent(a)' \/ Blocked(a)'
<1> USE DEF opVars, ringVars, cacheVars, hwVars
<1>1. /\ irq.pc = "clear" /\ irq'.pc = "idle" /\ irq.accel \in Accels
      /\ stall_bit' = [stall_bit EXCEPT ![irq.accel] = FALSE]
      /\ UNCHANGED <<stalled, stalls, host, hw, exec, pending>>
  BY DEF ClearStallBit, IrqIdle, IInv, TypeOK
<1>2. /\ ~stall_bit'[irq.accel]
      /\ irq.accel # a => stall_bit'[a] = stall_bit[a]
  BY <1>1 DEF IInv, TypeOK
<1>3. /\ Alive(a)' = Alive(a) /\ Running(a)' = Running(a)
      /\ ~Serves(a)' /\ (Serves(a) <=> irq.accel = a)
      /\ (Resuming(a)' <=> Resuming(a)) /\ \A k : Picked(k)' <=> Picked(k)
      /\ \A k : Untouched(k)' <=> Untouched(k)
  BY <1>1 DEF Alive, Serves, Running, Resuming, Picked, Untouched
<1>4. CASE irq.accel # a
  <2>1. stalled[a] => hw[a] # <<>>
    BY RunningFacts
  <2> QED BY <1>1, <1>2, <1>3, <1>4, <2>1, StallKept
<1>5. CASE irq.accel = a /\ Calm(a)
  BY <1>3, <1>5 DEF Calm
<1>6. CASE Spent(a)
  BY <1>1, <1>6 DEF Spent
<1>7. CASE irq.accel = a /\ Blocked(a)
  <2>1. Reported(a)
    BY <1>1, <1>3, <1>7 DEF Blocked, Raised
  <2>2. Reported(a)'
    BY <1>1, <1>2, <1>3, <1>7, <2>1 DEF Reported
  <2> QED BY <1>1, <1>3, <1>7, <2>2 DEF Blocked
<1> QED BY <1>4, <1>5, <1>6, <1>7

(* The handler delivers finishes. *)
LEMMA StallDeliver ==
    ASSUME IInv, CountInv, StallInv, PrintfTakesOne, StallsApart, [Next]_vars,
           NEW a \in Accels, MaxStalls[a] > 0, Calm(a) \/ Spent(a) \/ Blocked(a),
           Retire \/ Complete \/ Advance \/ AnnounceNext
    PROVE  Calm(a)' \/ Spent(a)' \/ Blocked(a)'
<1> USE DEF opVars, ringVars, cacheVars, hwVars
<1>1. /\ irq.pc \in Delivers
      /\ UNCHANGED <<stalled, stall_bit, stalls, host, hw>>
  BY DEF Retire, Complete, Advance, AnnounceNext, Delivers
<1>2. irq'.pc \notin {"pend", "flag", "clear"}
  <2>1. \/ irq' = IrqIdle(irq.accel)
        \/ irq' = [irq EXCEPT !.pc = "retire", !.finishes = @ - 1]
        \/ irq' = [irq EXCEPT !.pc = "complete", !.job = job_ids[irq.accel][irq.next]]
        \/ irq' = [irq EXCEPT !.pc = "advance"]
        \/ irq' = [irq EXCEPT !.pc = "next", !.next = NextIndex(irq.accel, irq.next)]
    BY DEF Retire, Complete, Advance, AnnounceNext
  <2>2. irq \in [pc : {"idle", "pend", "flag", "clear",
                      "retire", "complete", "advance", "next"},
                accel : Accels, next : Nat, finishes : Nat,
                job : Jobs \cup {NoJob}]
    BY DEF IInv, TypeOK
  <2>3. CASE irq' = IrqIdle(irq.accel)
    BY <2>3 DEF IrqIdle
  <2>4. CASE irq' # IrqIdle(irq.accel)
    <3>1. irq'.pc \in {"retire", "complete", "advance", "next"}
      BY <2>1, <2>2, <2>4
    <3> QED BY <3>1
  <2> QED BY <2>3, <2>4
<1>3. ~Serves(a) /\ ~Serves(a)'
  BY <1>1, <1>2 DEF Serves, Delivers
<1>4. Alive(a)' \subseteq Alive(a)
  BY AliveStays DEF Alive, IInv, RingsInv
<1>5. CASE Complete
  <2>1. /\ irq.pc = "complete" /\ exec' = Lowered(exec, irq.job, COMPLETE)
        /\ irq.job \in Jobs \cup {NoJob}
        /\ \A k \in Jobs : k # irq.job => pending'[k] = pending[k]
    BY <1>5 DEF Complete, IInv, TypeOK
  <2>2. irq.job \notin Alive(a)'
    <3> SUFFICES ASSUME irq.job \in Jobs PROVE ~(exec'[irq.job] > COMPLETE)
      BY DEF Alive
    <3>1. exec \in [Jobs -> FAILED .. QUEUED] /\ COMPLETE \in FAILED .. QUEUED
      BY DEF IInv, TypeOK, FAILED, QUEUED, COMPLETE
    <3>2. exec'[irq.job] = IF exec[irq.job] > COMPLETE THEN COMPLETE ELSE exec[irq.job]
      BY <2>1, <3>1, LoweredType
    <3> QED BY <3>1, <3>2 DEF COMPLETE, FAILED, QUEUED
  <2>3. \A k \in Alive(a)' : k \in Alive(a) /\ pending'[k] = pending[k]
    BY <1>4, <2>1, <2>2 DEF Alive
  <2>4. ASSUME stalled[a]
        PROVE  hw[a] # <<>> /\ pending'[Running(a)] = pending[Running(a)]
    <3>1. /\ hw[a] # <<>> /\ Running(a) \in Alive(a)
          /\ job_ids[a][NextEntry(a)] = Running(a)
      BY <2>4, RunningFacts
    <3>2. irq.job # Running(a)
      <4>1. CASE Completing(a)
        BY <3>1, <4>1, RunsAlone, <2>4 DEF PrintfTakesOne
      <4>2. CASE irq.job # NoJob /\ irq.accel # a
        <5> DEFINE b == irq.accel
        <5>1. b \in Accels /\ Completing(b)
          BY <2>1, <4>2 DEF Completing, IInv, TypeOK
        <5>2. Queue(b)[1] = irq.job /\ 1 \in 1 .. Len(Queue(b))
          <6>1. irq.job \in Jobs
            BY <2>1, <4>2
          <6>2. Held(b) \in Seq(Jobs) /\ Queue(b) \in Seq(Jobs)
            BY <5>1, QueueType DEF IInv
          <6>3. \E t \in Seq(Jobs) : Queue(b) = <<irq.job>> \o t
            <7> DEFINE l == IF Launching(b) THEN <<host.job>> ELSE <<>>
            <7>1. l \in Seq(Jobs)
              BY DEF Launching, IInv, HostInv
            <7>2. Queue(b) = (<<irq.job>> \o Held(b)) \o l
              BY <5>1 DEF Queue
            <7> HIDE DEF l, b
            <7>3. Held(b) \o l \in Seq(Jobs) /\ (<<irq.job>> \o Held(b)) \o l = <<irq.job>> \o (Held(b) \o l)
              BY <6>1, <6>2, <7>1
            <7> QED BY <7>2, <7>3
          <6> HIDE DEF b
          <6> QED BY <6>1, <6>3
        <5>3. AccelOf[irq.job] = b
          BY <5>1, <5>2 DEF IInv, QueueInv, InFlight
        <5> QED BY <3>1, <4>2, <5>3 DEF Alive
      <4>3. CASE irq.job = NoJob
        BY <3>1, <4>3, JobAssumption DEF Alive
      <4> QED BY <2>1, <4>1, <4>2, <4>3 DEF Completing
    <3> QED BY <2>1, <3>1, <3>2 DEF Alive
  <2> QED BY <1>1, <1>3, <2>3, <2>4, StallKept
<1>6. CASE Retire \/ Advance \/ AnnounceNext
  <2>1. pending' = pending
    BY <1>6 DEF Retire, Advance, AnnounceNext
  <2>2. stalled[a] => hw[a] # <<>>
    BY RunningFacts
  <2> QED BY <1>1, <1>3, <1>4, <2>1, <2>2, StallKept
<1> QED BY <1>5, <1>6

(* The other steps: stores, dumps of other accelerators, resets of others. *)
LEMMA StallOthers ==
    ASSUME IInv, CountInv, StallInv, PrintfTakesOne, StallsApart, ResetsComeLast, [Next]_vars,
           NEW a \in Accels, MaxStalls[a] > 0, Calm(a) \/ Spent(a) \/ Blocked(a),
           \/ StoreSeen \/ UNCHANGED vars
           \/ \E b \in Accels : DebugDump(b) \/ Finish(b)
           \/ \E device \in Resets, past \in Stray : a \notin device /\ Reset(device, past)
    PROVE  Calm(a)' \/ Spent(a)' \/ Blocked(a)'
<1> USE DEF opVars, ringVars, cacheVars, hwVars
<1>1. /\ UNCHANGED <<host, irq>>
      /\ stalled'[a] = stalled[a] /\ stall_bit'[a] = stall_bit[a] /\ stalls'[a] = stalls[a]
  <2>1. CASE \E device \in Resets, past \in Stray : a \notin device /\ Reset(device, past)
    <3>1. stalled \in [Accels -> BOOLEAN] /\ stall_bit \in [Accels -> BOOLEAN]
      BY DEF IInv, TypeOK
    <3>2. stalled[a] \in BOOLEAN /\ stall_bit[a] \in BOOLEAN
      BY <3>1
    <3>3. PICK device \in Resets, past \in Stray : a \notin device /\ Reset(device, past)
      BY <2>1
    <3>4. stalled'[a] = stalled[a]
      <4>1. stalled' = [c \in Accels |-> c \notin device /\ stalled[c]]
        BY <3>3 DEF Reset
      <4>2. stalled'[a] = (a \notin device /\ stalled[a])
        BY <4>1
      <4> QED BY <3>2, <3>3, <4>2
    <3>5. stall_bit'[a] = stall_bit[a]
      <4>1. stall_bit' = [c \in Accels |-> c \notin device /\ stall_bit[c]]
        BY <3>3 DEF Reset
      <4>2. stall_bit'[a] = (a \notin device /\ stall_bit[a])
        BY <4>1
      <4> QED BY <3>2, <3>3, <4>2
    <3> QED BY <3>3, <3>4, <3>5 DEF Reset
  <2>2. CASE StoreSeen \/ UNCHANGED vars \/ \E b \in Accels : DebugDump(b) \/ Finish(b)
    BY <2>2 DEF StoreSeen, DebugDump, Finish, vars
  <2> QED BY <2>1, <2>2
<1>2. Serves(a)' <=> Serves(a)
  BY <1>1 DEF Serves
<1>3. \A j \in Alive(a)' : j \in Alive(a)
  BY AliveStays DEF Alive, IInv, RingsInv
<1>4. ASSUME stalled[a] PROVE hw[a] # <<>> /\ hw'[a] = hw[a] /\ Running(a) \in Alive(a)
  <2>1. hw \in [Accels -> Seq([job : Jobs, regs : Registers])]
    BY DEF IInv, TypeOK
  <2>2. ASSUME NEW b \in Accels, Finish(b) PROVE hw'[a] = hw[a]
    BY <1>4, <2>1, <2>2 DEF Finish
  <2>3. hw'[a] = hw[a]
    BY <2>2 DEF StoreSeen, DebugDump, Reset, vars
  <2> QED BY <1>4, <2>3, RunningFacts
<1>5. \A j \in Alive(a) : pending'[j] = pending[j]
  <2>1. ASSUME NEW b \in Accels, DebugDump(b), NEW j \in Alive(a) PROVE pending'[j] = pending[j]
    <3> DEFINE k == job_ids[b][NextEntry(b)]
    <3>1. /\ a # b /\ k # NoJob /\ pending' = [pending EXCEPT ![k] = TRUE]
      BY <2>1 DEF DebugDump, StallsApart
    <3>2. NextEntry(b) \in DOMAIN job_ids[b]
      <4>1. back[b] \in -1 .. Size[b] - 1 /\ job_ids[b] \in [0 .. Size[b] - 1 -> Jobs \cup {NoJob}]
        BY DEF IInv, TypeOK
      <4> QED BY <4>1, NextIndexType DEF NextEntry
    <3>3. k \in Alive(b)
      BY <3>1, <3>2, RingAlive DEF Range
    <3>4. pending \in [Jobs -> BOOLEAN] /\ j \in Jobs /\ j # k
      BY <3>1, <3>3 DEF Alive, IInv, TypeOK
    <3> QED BY <3>1, <3>4
  <2> QED BY <2>1 DEF StoreSeen, Finish, Reset, vars
<1> QED BY <1>1, <1>2, <1>3, <1>4, <1>5, StallKept

(* A kernel stalls. *)
LEMMA StallBegins ==
    ASSUME IInv, CountInv, StallInv, PrintfTakesOne, StallsApart, [Next]_vars,
           NEW a \in Accels, MaxStalls[a] > 0, Calm(a) \/ Spent(a) \/ Blocked(a),
           NEW b \in Accels, Stall(b)
    PROVE  Calm(a)' \/ Spent(a)' \/ Blocked(a)'
<1> USE DEF opVars, ringVars, cacheVars, hwVars
<1>1. /\ UNCHANGED <<host, irq, hw, exec, pending>>
      /\ hw[b] # <<>> /\ ~stalled[b] /\ stalls[b] < MaxStalls[b]
  BY DEF Stall
<1>2. /\ Alive(a)' = Alive(a) /\ Running(a)' = Running(a)
      /\ (Serves(a)' <=> Serves(a))
      /\ (Resuming(a)' <=> Resuming(a)) /\ \A k : Picked(k)' <=> Picked(k)
      /\ \A k : Untouched(k)' <=> Untouched(k)
  BY <1>1 DEF Alive, Serves, Running, Resuming, Picked, Untouched
<1>3. stalls[a] \in Nat /\ MaxStalls[a] \in Nat /\ MaxOvertakes[a] \in Nat
  BY BoundsAssumption DEF IInv, TypeOK
<1>4. CASE a # b
  <2>1. stalled'[a] = stalled[a] /\ stall_bit'[a] = stall_bit[a] /\ stalls'[a] = stalls[a]
    BY <1>4 DEF Stall, IInv, TypeOK
  <2>2. stalled[a] => hw[a] # <<>>
    BY RunningFacts
  <2> QED BY <1>1, <1>2, <2>1, <2>2, StallKept
<1>5. CASE a = b
  <2>1. stalled'[a] /\ stall_bit'[a] /\ stalls'[a] = stalls[a] + 1
    BY <1>5 DEF Stall, IInv, TypeOK
  <2>2. Calm(a)
    <3>1. ~Blocked(a)
      BY <1>1, <1>5 DEF Blocked
    <3>2. ~Spent(a)
      BY <1>1, <1>3, <1>5 DEF Spent, StallsApart
    <3> QED BY <3>1, <3>2
  <2>3. Running(a) \in Alive(a)
    BY <1>1, <1>5, RunsAlone DEF PrintfTakesOne
  <2>4. Raised(a)'
    BY <1>2, <2>1, <2>2, <2>3 DEF Calm, Raised
  <2> QED BY <1>2, <1>3, <2>1, <2>2, <2>4 DEF Blocked, Calm
<1> QED BY <1>4, <1>5

(* What is around the stalls: only a kernel that may stall does, and one     *)
(* that runs; the flag of a debug dump; which kernel the handler serves.     *)
LEMMA StallFrames ==
    ASSUME IInv, IInv', StallInv, [Next]_vars
    PROVE  /\ overtakes' \in [Accels -> Nat]
           /\ \A a \in Accels : stalled'[a] => MaxStalls[a] > 0 /\ hw'[a] # <<>>
           /\ \A j \in Jobs : AccelOf[j] \notin Dumps => ~debug'[j]
           /\ irq'.pc \in {"pend", "flag", "clear"} => AccelOf[irq'.job] = irq'.accel
<1> USE DEF opVars, ringVars, cacheVars, hwVars
<1>1. overtakes' \in [Accels -> Nat]
  <2>1. overtakes \in [Accels -> Nat]
    BY DEF StallInv
  <2>2. CASE Resume
    <3> DEFINE a == AccelOf[host.job]
    <3>1. a \in Accels
      BY <2>2, AccelOfType DEF Resume, IInv, HostInv
    <3>2. overtakes' = overtakes \/ overtakes' = [overtakes EXCEPT ![a] = @ + 1]
      BY <2>2 DEF Resume
    <3> QED BY <2>1, <3>1, <3>2
  <2>3. CASE ~Resume
    <3>1. overtakes' = overtakes
      BY <2>3, Zenon
      DEF Next, Host, Handler, vars, Launch, PickUp, WriteImage, EnterRing, Announce,
          WriteStart, ClearPending, Unstall, StoreSeen, Query, PendStall, FlagStall,
          ClearStallBit, Retire, Complete, Advance, AnnounceNext, DebugDump, Finish,
          Stall, Reset
    <3> QED BY <2>1, <3>1
  <2> QED BY <2>2, <2>3
<1>2. ASSUME NEW a \in Accels, stalled'[a] PROVE MaxStalls[a] > 0 /\ hw'[a] # <<>>
  <2> DEFINE T == [job : Jobs, regs : Registers]
  <2>1. /\ hw \in [Accels -> Seq(T)] /\ stalled \in [Accels -> BOOLEAN]
        /\ stalls \in [Accels -> Nat] /\ MaxStalls \in [Accels -> Nat]
    BY BoundsAssumption DEF IInv, TypeOK
  <2> HIDE DEF T
  <2>2. stalled[a] => MaxStalls[a] > 0 /\ hw[a] # <<>>
    BY DEF StallInv
  <2>3. ASSUME NEW b \in Accels, Stall(b) PROVE MaxStalls[a] > 0 /\ hw'[a] # <<>>
    <3>1. CASE a = b
      BY <2>1, <2>3, <3>1 DEF Stall
    <3>2. CASE a # b
      BY <1>2, <2>1, <2>2, <2>3, <3>2 DEF Stall
    <3> QED BY <3>1, <3>2
  <2>4. ASSUME NEW b \in Accels, Finish(b) PROVE MaxStalls[a] > 0 /\ hw'[a] # <<>>
    BY <1>2, <2>1, <2>2, <2>4 DEF Finish
  <2>5. ASSUME NEW device \in Resets, NEW past \in Stray, Reset(device, past)
        PROVE  MaxStalls[a] > 0 /\ hw'[a] # <<>>
    <3>1. /\ stalled'[a] = (a \notin device /\ stalled[a])
          /\ hw'[a] = IF a \in device THEN <<>> ELSE hw[a]
      BY <2>5 DEF Reset
    <3> QED BY <1>2, <2>2, <3>1
  <2>6. CASE Unstall
    <3>1. AccelOf[host.job] \in Accels
      BY <2>6, AccelOfType DEF Unstall, IInv, HostInv
    <3> QED BY <1>2, <2>1, <2>2, <2>6, <3>1 DEF Unstall
  <2>7. CASE WriteStart
    <3> DEFINE s == hw[a]
    <3>1. stalled' = stalled /\ (hw'[a] = s \/ \E x : hw'[a] = Append(s, x))
      BY <2>1, <2>7 DEF WriteStart
    <3>2. s \in Seq(T)
      BY <2>1
    <3> HIDE DEF s
    <3>3. \A x : Append(s, x) # <<>>
      <4>1. Len(s) \in Nat /\ Len(<<>>) = 0 /\ \A x : Len(Append(s, x)) = Len(s) + 1
        BY <3>2
      <4> QED BY <4>1
    <3>4. hw'[a] = s => hw'[a] = hw[a]
      BY DEF s
    <3> QED BY <1>2, <2>2, <3>1, <3>3, <3>4
  <2>8. CASE /\ ~Unstall /\ ~WriteStart /\ \A b \in Accels : ~Stall(b) /\ ~Finish(b)
             /\ \A device \in Resets, past \in Stray : ~Reset(device, past)
    <3>1. stalled' = stalled /\ hw' = hw
      BY <2>8, Zenon
      DEF Next, Host, Handler, vars, Launch, PickUp, WriteImage, EnterRing, Announce,
          ClearPending, Resume, StoreSeen, Query, PendStall, FlagStall,
          ClearStallBit, Retire, Complete, Advance, AnnounceNext, DebugDump
    <3> QED BY <1>2, <2>2, <3>1
  <2> QED BY <2>3, <2>4, <2>5, <2>6, <2>7, <2>8
<1>3. ASSUME NEW j \in Jobs, AccelOf[j] \notin Dumps PROVE ~debug'[j]
  <2>1. debug \in [Jobs -> BOOLEAN] /\ ~debug[j]
    BY <1>3 DEF StallInv, IInv, TypeOK
  <2>2. ASSUME NEW b \in Accels, DebugDump(b) PROVE ~debug'[j]
    <3> DEFINE k == job_ids[b][NextEntry(b)]
    <3>1. b \in Dumps /\ k # NoJob /\ debug' = [debug EXCEPT ![k] = TRUE]
      BY <2>2 DEF DebugDump
    <3>2. NextEntry(b) \in DOMAIN job_ids[b]
      <4>1. back[b] \in -1 .. Size[b] - 1 /\ job_ids[b] \in [0 .. Size[b] - 1 -> Jobs \cup {NoJob}]
        BY DEF IInv, TypeOK
      <4> QED BY <4>1, NextIndexType DEF NextEntry
    <3>3. k \in Alive(b)
      BY <3>1, <3>2, RingAlive DEF Range
    <3> QED BY <1>3, <2>1, <3>1, <3>3 DEF Alive
  <2>3. CASE FlagStall \/ Complete
    BY <2>1, <2>3 DEF FlagStall, Complete
  <2>4. CASE ~FlagStall /\ ~Complete /\ \A b \in Accels : ~DebugDump(b)
    <3>1. debug' = debug
      BY <2>4, Zenon
      DEF Next, Host, Handler, vars, Launch, PickUp, WriteImage, EnterRing, Announce,
          WriteStart, ClearPending, Resume, Unstall, StoreSeen, Query, PendStall,
          ClearStallBit, Retire, Advance, AnnounceNext, Finish, Stall, Reset
    <3> QED BY <2>1, <3>1
  <2> QED BY <2>2, <2>3, <2>4
<1>4. ASSUME irq'.pc \in {"pend", "flag", "clear"} PROVE AccelOf[irq'.job] = irq'.accel
  <2>1. irq \in [pc : {"idle", "pend", "flag", "clear",
                      "retire", "complete", "advance", "next"},
                accel : Accels, next : Nat, finishes : Nat,
                job : Jobs \cup {NoJob}]
    BY DEF IInv, TypeOK
  <2>2. irq.pc \in {"pend", "flag", "clear"} => AccelOf[irq.job] = irq.accel
    BY DEF StallInv
  <2>3. ASSUME NEW b \in Accels, Query(b) PROVE AccelOf[irq'.job] = irq'.accel
    <3> DEFINE k == job_ids[b][NextEntry(b)]
    <3>1. irq'.accel = b /\ irq'.job = k /\ k # NoJob
      BY <2>3 DEF Query, IrqIdle
    <3>2. NextEntry(b) \in DOMAIN job_ids[b]
      <4>1. back[b] \in -1 .. Size[b] - 1 /\ job_ids[b] \in [0 .. Size[b] - 1 -> Jobs \cup {NoJob}]
        BY DEF IInv, TypeOK
      <4> QED BY <4>1, NextIndexType DEF NextEntry
    <3>3. k \in Alive(b)
      BY <3>1, <3>2, RingAlive DEF Range
    <3> QED BY <3>1, <3>3 DEF Alive
  <2>4. CASE PendStall \/ FlagStall
    <3>1. /\ irq.pc \in {"pend", "flag", "clear"}
          /\ irq'.job = irq.job /\ irq'.accel = irq.accel
      BY <2>1, <2>4 DEF PendStall, FlagStall
    <3> QED BY <2>2, <3>1
  <2>5. ~ClearStallBit
    BY <1>4 DEF ClearStallBit, IrqIdle
  <2>6. ~(Retire \/ Complete \/ Advance \/ AnnounceNext)
    <3> SUFFICES ASSUME Retire \/ Complete \/ Advance \/ AnnounceNext PROVE FALSE
      OBVIOUS
    <3>1. \/ irq' = IrqIdle(irq.accel)
          \/ irq' = [irq EXCEPT !.pc = "retire", !.finishes = @ - 1]
          \/ irq' = [irq EXCEPT !.pc = "complete", !.job = job_ids[irq.accel][irq.next]]
          \/ irq' = [irq EXCEPT !.pc = "advance"]
          \/ irq' = [irq EXCEPT !.pc = "next", !.next = NextIndex(irq.accel, irq.next)]
      BY DEF Retire, Complete, Advance, AnnounceNext
    <3>2. CASE irq' = IrqIdle(irq.accel)
      BY <1>4, <3>2 DEF IrqIdle
    <3>3. CASE irq' # IrqIdle(irq.accel)
      <4>1. irq'.pc \in {"retire", "complete", "advance", "next"}
        BY <2>1, <3>1, <3>3
      <4> QED BY <1>4, <4>1
    <3> QED BY <3>2, <3>3
  <2>7. CASE ~Handler
    <3>1. irq' = irq
      BY <2>7, ThreadFrames
    <3> QED BY <1>4, <2>2, <3>1
  <2> QED BY <2>3, <2>4, <2>5, <2>6, <2>7 DEF Handler
<1> QED BY <1>1, <1>2, <1>3, <1>4

LEMMA StallStep ==
    ASSUME ResetsComeLast, PrintfTakesOne, StallsApart, IInv, IInv', CountInv,
           [Next]_vars, StallInv
    PROVE  StallInv'
<1>1. ASSUME NEW a \in Accels, MaxStalls[a] > 0
      PROVE  RingDown(a)' \/ Calm(a)' \/ Spent(a)' \/ Blocked(a)'
  <2>1. CASE RingDown(a)
    BY <2>1, RingDownStep DEF IInv
  <2>2. CASE Calm(a) \/ Spent(a) \/ Blocked(a)
    <3>1. ASSUME NEW j \in Jobs, Launch(j) PROVE Calm(a)' \/ Spent(a)' \/ Blocked(a)'
      BY <1>1, <2>2, <3>1, StallLaunch
    <3>2. ASSUME NEW j \in Jobs, PickUp(j) PROVE Calm(a)' \/ Spent(a)' \/ Blocked(a)'
      BY <1>1, <2>2, <3>2, StallPickUp
    <3>3. CASE Host /\ \A j \in Jobs : ~Launch(j) /\ ~PickUp(j)
      BY <1>1, <2>2, <3>3, StallLaunch, StallClear, StallResume, StallUnstall DEF Host
    <3>4. CASE Handler
      BY <1>1, <2>2, <3>4, StallQuery, StallPend, StallFlagged, StallCleared, StallDeliver
         DEF Handler
    <3>5. ASSUME NEW b \in Accels, Stall(b) PROVE Calm(a)' \/ Spent(a)' \/ Blocked(a)'
      BY <1>1, <2>2, <3>5, StallBegins
    <3>6. ASSUME NEW device \in Resets, NEW past \in Stray, Reset(device, past)
          PROVE  RingDown(a)' \/ Calm(a)' \/ Spent(a)' \/ Blocked(a)'
      <4>1. CASE a \in device
        BY <3>6, <4>1, ResetStep DEF IInv
      <4>2. CASE a \notin device
        BY <1>1, <2>2, <3>6, <4>2, StallOthers
      <4> QED BY <4>1, <4>2
    <3>7. CASE StoreSeen \/ UNCHANGED vars \/ \E b \in Accels : DebugDump(b) \/ Finish(b)
      BY <1>1, <2>2, <3>7, StallOthers
    <3> QED BY <3>1, <3>2, <3>3, <3>4, <3>5, <3>6, <3>7 DEF Next, Host
  <2> QED BY <1>1, <2>1, <2>2 DEF StallInv
<1>2. /\ overtakes' \in [Accels -> Nat]
      /\ \A a \in Accels : stalled'[a] => MaxStalls[a] > 0 /\ hw'[a] # <<>>
      /\ \A j \in Jobs : AccelOf[j] \notin Dumps => ~debug'[j]
      /\ irq'.pc \in {"pend", "flag", "clear"} => AccelOf[irq'.job] = irq'.accel
  BY StallFrames
<1> QED BY <1>1, <1>2 DEF StallInv

(* At first nothing has stalled. *)
LEMMA StallStarts == Init => StallInv
<1> SUFFICES ASSUME Init PROVE StallInv
  OBVIOUS
<1>1. /\ host.pc = "idle" /\ irq.pc = "idle"
      /\ \A j \in Jobs : ~pending[j] /\ ~debug[j]
      /\ \A a \in Accels : ~stalled[a] /\ ~stall_bit[a]
      /\ overtakes \in [Accels -> Nat]
  BY DEF Init, HostIdle, IrqIdle
<1>2. \A a \in Accels : Calm(a)
  BY <1>1 DEF Calm, Serves, Resuming, Alive, Untouched, Picked
<1> QED BY <1>1, <1>2 DEF StallInv

(* A kernel that waits for its printf buffer is never forgotten, however the *)
(* handler that reports the stall and the host that picks it up and resumes  *)
(* the kernel interleave: between two interrupts and two passes of the host  *)
(* its stall bit is set or a pickup is pending for it.                       *)
THEOREM StallsAreSeen ==
    ASSUME ResetsComeLast, StreamingIsNewer, OvertakenHaveRoom, OldestMapTakesOne,
           PrintfTakesOne, StallsApart
    PROVE  Spec => []StallIsSeen
<1>1. Init => CountInv /\ StallInv
  BY CountBegins, StallStarts
<1>2. IInv /\ IInv' /\ [Next]_vars /\ CountInv /\ StallInv => CountInv' /\ StallInv'
  BY CountStep, StallStep
<1>3. IInv /\ StallInv => StallIsSeen
  <2> SUFFICES ASSUME IInv, StallInv, host.pc = "idle", irq.pc = "idle",
                      NEW a \in Accels, stalled[a]
               PROVE  stall_bit[a] \/ pending[Head(hw[a]).job]
    BY DEF StallIsSeen
  <2>1. MaxStalls[a] > 0 /\ hw[a] # <<>>
    BY DEF StallInv
  <2>2. Blocked(a)
    BY <2>1 DEF StallInv, RingDown, Calm, Spent
  <2>3. Running(a) = Head(hw[a]).job
    <3> DEFINE T == [job : Jobs, regs : Registers]
               s == hw[a]
    <3>1. s \in Seq(T) /\ s # <<>>
      BY <2>1 DEF IInv, TypeOK
    <3> HIDE DEF s, T
    <3>2. Head(s) = s[1]
      BY <3>1
    <3> QED BY <3>2 DEF s, Running
  <2> QED BY <2>2, <2>3 DEF Blocked, Raised, Reported
<1> QED BY <1>1, <1>2, <1>3, Invariance, PTL DEF Spec
=============================================================================
