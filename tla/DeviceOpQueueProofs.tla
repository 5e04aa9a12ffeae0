------------------------ MODULE DeviceOpQueueProofs ------------------------
(***************************************************************************)
(* What holds of DeviceOpQueue for every set of commands, devices, buffers *)
(* and workloads: its types, and each of the seven properties TLC checks   *)
(* on small ones.  The parts, in this order:                               *)
(*   - what Within picks out of a list;                                    *)
(*   - the invariant IInv and what follows from it alone;                  *)
(*   - that every action keeps it, action by action;                       *)
(*   - BinInv: which binary a device will hold when a kernel's turn comes; *)
(*   - TogetherInv: what may be in use at the same time;                   *)
(*   - that a buffer stays where a kernel uses it.                         *)
(* The list is spoken of by positions: At(k) is the k-th live operation.   *)
(***************************************************************************)
EXTENDS DeviceOpQueue, SequenceLemmas, FiniteSetTheorems, SequenceTheorems,
        TLAPS

----------------------------------------------------------------------------
(* Picking out of a list.  t holds, in their order, the elements of the    *)
(* first n of s that are in S; h says where each of them was.              *)
PickedBy(h, t, s, S, n) ==
    /\ h \in [1..Len(t) -> 1..n]
    /\ \A j, k \in 1..Len(t) : j < k => h[j] < h[k]
    /\ \A k \in 1..Len(t) : t[k] = s[h[k]] /\ s[h[k]] \in S
    /\ \A j \in 1..n : s[j] \in S => \E k \in 1..Len(t) : h[k] = j

(* What Within returns. *)
LEMMA PickedStep ==
    ASSUME NEW T, NEW s \in Seq(T), NEW S, NEW n \in 1..Len(s),
           NEW t \in Seq(T), NEW h, PickedBy(h, t, s, S, n - 1)
    PROVE  LET u == IF s[n] \in S THEN Append(t, s[n]) ELSE t IN
           u \in Seq(T) /\ \E g : PickedBy(g, u, s, S, n)
<1>0. /\ Len(s) \in Nat /\ Len(t) \in Nat /\ n \in Nat /\ s[n] \in T
      /\ n - 1 \in Nat
  BY LenProperties, ElementOfSeq
<1> DEFINE l == Len(t)
<1>1. /\ h \in [1..l -> 1..n - 1]
      /\ \A j, k \in 1..l : j < k => h[j] < h[k]
      /\ \A k \in 1..l : t[k] = s[h[k]] /\ s[h[k]] \in S
      /\ \A j \in 1..n - 1 : s[j] \in S => \E k \in 1..l : h[k] = j
  BY DEF PickedBy
<1>2. CASE s[n] \notin S
  <2>1. h \in [1..l -> 1..n]
    BY <1>0, <1>1
  <2>2. ASSUME NEW j \in 1..n, s[j] \in S PROVE \E k \in 1..l : h[k] = j
    <3>1. j \in 1..n - 1
      BY <1>0, <1>2, <2>2
    <3>2. QED
      BY <1>1, <2>2, <3>1
  <2>3. PickedBy(h, t, s, S, n)
    BY <1>1, <2>1, <2>2 DEF PickedBy
  <2>4. QED
    BY <1>2, <2>3
<1>3. CASE s[n] \in S
  <2> DEFINE u == Append(t, s[n])
             g == [k \in 1..l + 1 |-> IF k = l + 1 THEN n ELSE h[k]]
  <2>1. /\ u \in Seq(T) /\ Len(u) = l + 1
        /\ \A k \in 1..l : u[k] = t[k]
        /\ u[l + 1] = s[n]
    BY <1>0, AppendProperties
  <2> HIDE DEF u
  <2>2. g \in [1..l + 1 -> 1..n]
    BY <1>0, <1>1
  <2>3. ASSUME NEW j \in 1..l + 1, NEW k \in 1..l + 1, j < k PROVE g[j] < g[k]
    <3>1. j \in 1..l /\ g[j] = h[j] /\ h[j] \in 1..n - 1
      BY <1>0, <1>1, <2>3, SMTT(40)
    <3>2. CASE k = l + 1
      BY <1>0, <3>1, <3>2
    <3>3. CASE k # l + 1
      <4>1. k \in 1..l /\ g[k] = h[k]
        BY <1>0, <3>3
      <4>2. QED
        BY <1>1, <2>3, <3>1, <4>1
    <3>4. QED
      BY <3>2, <3>3
  <2>4. ASSUME NEW k \in 1..l + 1 PROVE u[k] = s[g[k]] /\ s[g[k]] \in S
    <3>1. CASE k = l + 1
      BY <1>0, <1>3, <2>1, <3>1
    <3>2. CASE k # l + 1
      <4>1. k \in 1..l /\ g[k] = h[k]
        BY <1>0, <3>2
      <4>2. QED
        BY <1>1, <2>1, <4>1
    <3>3. QED
      BY <3>1, <3>2
  <2>5. ASSUME NEW j \in 1..n, s[j] \in S PROVE \E k \in 1..l + 1 : g[k] = j
    <3>1. CASE j = n
      <4>1. l + 1 \in 1..l + 1 /\ g[l + 1] = n
        BY <1>0
      <4>2. QED
        BY <3>1, <4>1
    <3>2. CASE j # n
      <4>1. j \in 1..n - 1
        BY <1>0, <3>2
      <4>2. PICK k \in 1..l : h[k] = j
        BY <1>1, <2>5, <4>1
      <4>3. k \in 1..l + 1 /\ k # l + 1
        BY <1>0
      <4>4. QED
        BY <4>2, <4>3
    <3>3. QED
      BY <3>1, <3>2
  <2> HIDE DEF g
  <2>6. PickedBy(g, u, s, S, n)
    BY <2>1, <2>2, <2>3, <2>4, <2>5 DEF PickedBy
  <2>7. QED
    BY <1>3, <2>1, <2>6 DEF u
<1>4. QED
  BY <1>2, <1>3

(* Within(s, S) picks from the whole of s; by counterexample at the least  *)
(* prefix, since Within is defined by a fold.                              *)
LEMMA WithinPicks ==
    ASSUME NEW T, NEW s \in Seq(T), NEW S
    PROVE  /\ Within(s, S) \in Seq(T)
           /\ \E h : PickedBy(h, Within(s, S), s, S, Len(s))
<1> DEFINE n == Len(s)
           Next1(k, t) == IF s[k] \in S THEN Append(t, s[k]) ELSE t
           f == [z \in (1..n) \X Seq(T) |-> Next1(z[1], z[2])]
<1>0. n \in Nat /\ \A k \in 1..n : s[k] \in T
  BY LenProperties, ElementOfSeq
<1>1. \A k \in 1..n, t \in Seq(T) : Next1(k, t) \in Seq(T)
  BY <1>0, AppendProperties
<1>2. f \in [(1..n) \X Seq(T) -> Seq(T)]
  BY <1>1
<1>3. <<>> \in Seq(T)
  OBVIOUS
<1>4. \A k \in 1..n, t \in Seq(T) : f[<<k, t>>] = Next1(k, t)
  OBVIOUS
<1> HIDE DEF f, Next1, n
<1>5. PICK g \in [0..n -> Seq(T)] :
        g[0] = <<>> /\ \A i \in 1..n : g[i] = f[<<i, g[i - 1]>>]
  <2> DEFINE X == Seq(T)
             x == <<>>
  <2>1. n \in Nat /\ x \in X /\ f \in [(1..n) \X X -> X]
    BY <1>0, <1>2, <1>3
  <2> HIDE DEF X, x
  <2>2. \E g : IsRun(g, X, x, n, f)
    BY <2>1, RecursionExists
  <2>3. QED
    BY <2>2 DEF X, x, IsRun
<1>6. \A i \in 1..n : g[i] = Next1(i, g[i - 1])
  <2> SUFFICES ASSUME NEW i \in 1..n PROVE g[i] = Next1(i, g[i - 1])
    OBVIOUS
  <2>1. i - 1 \in 0..n
    BY <1>0
  <2>2. g[i - 1] \in Seq(T)
    BY <2>1
  <2>3. QED
    BY <1>4, <1>5, <2>2
<1> DEFINE Body(F) == [k \in 0..n |-> IF k = 0 THEN <<>>
                         ELSE IF s[k] \in S THEN Append(F[k - 1], s[k])
                         ELSE F[k - 1]]
           sel == CHOOSE F : F = Body(F)
<1>7. g = Body(g)
  <2>1. ASSUME NEW k \in 0..n PROVE g[k] = Body(g)[k]
    <3>1. CASE k = 0
      BY <1>5, <3>1
    <3>2. CASE k # 0
      <4>1. k \in 1..n
        BY <1>0, <3>2
      <4>2. QED
        BY <1>6, <3>2, <4>1 DEF Next1
    <3>3. QED
      BY <3>1, <3>2
  <2>2. QED
    BY <2>1, <1>5
<1>8. sel = Body(sel)
  <2> HIDE DEF Body
  <2>1. \E F : F = Body(F)
    BY <1>7
  <2>2. QED
    BY <2>1
<1>9. Within(s, S) = sel[n]
  BY DEF Within, n
<1> HIDE DEF sel
<1>10. sel[0] = <<>> /\ \A k \in 1..n : sel[k] = Next1(k, sel[k - 1])
  <2>1. \A k \in 0..n : sel[k] = Body(sel)[k]
    BY <1>8
  <2>2. QED
    BY <2>1, <1>0 DEF Next1
<1> DEFINE Good(k) == sel[k] \in Seq(T) /\ \E h : PickedBy(h, sel[k], s, S, k)
           Bad == {k \in 0..n : ~Good(k)}
<1>11. ASSUME Bad # {} PROVE FALSE
  <2>1. Bad \subseteq Nat
    BY <1>0
  <2>2. PICK k \in Bad : \A j \in Bad : ~(j < k)
    <3> HIDE DEF Bad
    <3> QED
      BY <1>11, <2>1, LeastNatural
  <2>3. k \in 0..n /\ ~Good(k)
    OBVIOUS
  <2>4. CASE k = 0
    <3>1. sel[0] \in Seq(T) /\ Len(sel[0]) = 0
      BY <1>3, <1>10
    <3>2. PickedBy(<<>>, sel[0], s, S, 0)
      BY <3>1 DEF PickedBy
    <3> HIDE DEF Bad
    <3>3. QED
      BY <2>3, <2>4, <3>1, <3>2
  <2>5. CASE k # 0
    <3>1. k - 1 \in 0..n /\ k - 1 < k /\ k \in 1..n
      BY <1>0, <2>3, <2>5
    <3>2. Good(k - 1)
      <4>1. k - 1 \notin Bad
        <5> HIDE DEF Bad
        <5> QED
          BY <2>2, <3>1
      <4>2. QED
        BY <4>1, <3>1
    <3> DEFINE t == sel[k - 1]
    <3>3. PICK h : PickedBy(h, t, s, S, k - 1)
      BY <3>2
    <3>4. t \in Seq(T)
      BY <3>2
    <3>5. sel[k] = IF s[k] \in S THEN Append(t, s[k]) ELSE t
      BY <1>10, <3>1 DEF Next1
    <3> HIDE DEF t
    <3>6. Good(k)
      BY <3>1, <3>3, <3>4, <3>5, PickedStep DEF n
    <3>7. QED
      BY <3>6, <2>3
  <2>6. QED
    BY <2>4, <2>5
<1>12. Good(n)
  <2>1. n \in 0..n
    BY <1>0
  <2>2. n \notin Bad
    <3> HIDE DEF Bad
    <3> QED
      BY <1>11
  <2>3. QED
    BY <2>1, <2>2
<1>13. QED
  BY <1>9, <1>12 DEF n

(* As sets, and without repetitions. *)
LEMMA WithinMembers ==
    ASSUME NEW T, NEW s \in Seq(T), NEW S, IsInjective(s)
    PROVE  /\ Within(s, S) \in Seq(T)
           /\ ToSet(Within(s, S)) = ToSet(s) \cap S
           /\ IsInjective(Within(s, S))
<1> DEFINE t == Within(s, S)
           n == Len(s)
<1>1. t \in Seq(T) /\ \E h : PickedBy(h, t, s, S, n)
  BY WithinPicks
<1> HIDE DEF t
<1>2. PICK h : PickedBy(h, t, s, S, n)
  BY <1>1
<1> DEFINE l == Len(t)
<1>3. /\ h \in [1..l -> 1..n]
      /\ \A j, k \in 1..l : j < k => h[j] < h[k]
      /\ \A k \in 1..l : t[k] = s[h[k]] /\ s[h[k]] \in S
      /\ \A j \in 1..n : s[j] \in S => \E k \in 1..l : h[k] = j
  BY <1>2 DEF PickedBy
<1>4. /\ n \in Nat /\ l \in Nat
      /\ \A j, k \in 1..n : s[j] = s[k] => j = k
  BY <1>1, PositionsOf
<1>5. ASSUME NEW x \in ToSet(t) PROVE x \in ToSet(s) \cap S
  <2>1. PICK k \in 1..l : t[k] = x
    BY <1>1, SetOf
  <2>2. h[k] \in 1..n /\ s[h[k]] = x /\ x \in S
    BY <1>3, <2>1
  <2>3. x \in ToSet(s)
    BY <2>2, SetOf
  <2>4. QED
    BY <2>2, <2>3
<1>6. ASSUME NEW x \in ToSet(s), x \in S PROVE x \in ToSet(t)
  <2>1. PICK j \in 1..n : s[j] = x
    BY SetOf
  <2>2. PICK k \in 1..l : h[k] = j
    BY <1>3, <1>6, <2>1
  <2>3. t[k] = x
    BY <1>3, <2>1, <2>2
  <2>4. QED
    BY <1>1, <2>3, SetOf
<1>7. ASSUME NEW j \in 1..l, NEW k \in 1..l, t[j] = t[k] PROVE j = k
  <2>1. h[j] \in 1..n /\ h[k] \in 1..n /\ s[h[j]] = s[h[k]]
    BY <1>3, <1>7
  <2>2. h[j] = h[k]
    BY <1>4, <2>1
  <2>3. ~(j < k) /\ ~(k < j)
    BY <1>3, <1>4, <2>1, <2>2
  <2>4. QED
    BY <1>4, <2>3
<1>8. IsInjective(t)
  BY <1>1, <1>7, InjectiveIf
<1>9. ToSet(t) = ToSet(s) \cap S
  BY <1>5, <1>6
<1>10. QED
  BY <1>1, <1>8, <1>9 DEF t

----------------------------------------------------------------------------
(* The inductive invariant.  Most of it is about the positions of the live *)
(* list: k stands for the operation that is the k-th.                      *)
Length == Len(committed)
At(k) == op[committed[k]]
Same(j, k) == At(j).group = At(k).group
First(k) == \A j \in 1..k - 1 : ~Same(j, k)
Dev(k) == Command[At(k).cmd].device

(* A slot is on one of the lists, once. *)
ListInv ==
    /\ IsInjective(committed) /\ IsInjective(free)
    /\ Live \cap ToSet(free) = {}
    /\ Live \cup ToSet(free) = Ids

IdleInv == \A i \in Ids \ Live : op[i] = IdleOp

(* What a submit function writes into an operation and nobody changes. *)
ShapeOf(i) ==
    LET o == op[i]
        c == Command[o.cmd]
    IN  /\ o.cmd \in Commands
        /\ \A x \in o.affects : x[2] \in ConflictsOf(o.type)
        /\ o.last <=> o.group = i
        /\ o.type = "KERNEL" => o.last /\ ~o.mayFail /\ c.kind = "kernel"
        /\ c.kind = "kernel" /\ o.last => o.type = "KERNEL"
        /\ c.kind = "kernel" /\ ~o.last
             => o.type \in {"REPROGRAM", "MEM_MIGRATION"}
        /\ o.type = "KERNEL" => o.affects = {<<c.device, "KERNEL">>}
        /\ o.type = "REPROGRAM" =>
             /\ o.affects = {<<c.device, "REPROGRAM">>}
             /\ o.mayFail => c.badBin
             /\ o.first /\ c.bin \in Binaries
        /\ o.type = "MEM_MIGRATION" =>
             o.mem \in Buffers /\ o.mem \in BuffersOf(o.cmd) /\ ~o.mayFail
        /\ o.noTransfer => o.type \in MayMoveNothing

(* How the status of the scheduler and that of the device go together.     *)
StateOf(i) ==
    LET o == op[i] IN
    /\ o.printf # "none" => o.type = "KERNEL" /\ o.status # QUEUED
    /\ o.status = QUEUED => o.exec \in {FAILED, QUEUED}
    /\ o.status = SUBMITTED => o.exec <= SUBMITTED
    /\ o.status = RUNNING => o.exec <= RUNNING
    /\ o.status = COMPLETE => o.exec <= COMPLETE
    /\ o.status = QUEUED /\ o.first => o.exec = QUEUED
OpInv == \A i \in Live : ShapeOf(i) /\ StateOf(i)

(* The operations of a command are next to one another, and only the first *)
(* of those that are left can have been started.                           *)
GroupInv ==
    /\ \A i \in Live :
         /\ op[i].group \in Live /\ last_op[op[i].cmd] = op[i].group
         /\ op[op[i].group].cmd = op[i].cmd
    /\ \A k, l \in 1..Length : k < l /\ Same(k, l) =>
         /\ At(l).status = QUEUED /\ ~At(l).first /\ ~At(k).last
         /\ \A m \in k..l : Same(k, m)

(* What an event was told. *)
EventInv ==
    /\ \A i \in Live :
         op[i].status # COMPLETE => status[op[i].cmd] > COMPLETE
    /\ \A c \in Commands : last_op[c] = None =>
         /\ status[c] = QUEUED \/ status[c] <= COMPLETE
         /\ status[c] = QUEUED => ~failed[c]
    /\ caller # None => status[caller] = QUEUED /\ last_op[caller] = None
    /\ pc = "idle" => caller = None

(* A failure is known to the first operation that is left of the group,    *)
(* and to no other.                                                        *)
FailInv ==
    \A k \in 1..Length :
        /\ At(k).exec = FAILED => failed[At(k).cmd] /\ First(k)
        /\ First(k) /\ failed[At(k).cmd] => At(k).exec = FAILED

CurrentInv ==
    \A i \in Live :
        op[i].status \in {SUBMITTED, RUNNING} /\ op[i].exec # FAILED
            => current_op[op[i].cmd] = i

(* What an accelerator holds are kernels that were launched on it.         *)
RingInv ==
    \A a \in Accels :
        /\ IsInjective(ring[a])
        /\ \A i \in ToSet(ring[a]) :
             /\ i \in Live /\ op[i].type = "KERNEL"
             /\ Command[op[i].cmd].accel = a
             /\ op[i].status \in {SUBMITTED, RUNNING}
             /\ op[i].exec \in {SUBMITTED, RUNNING}

PruneInv ==
    pc \in {"submit", "idle", "done"} => \A i \in Live : ~Finished(i)

(* The scan of this round, or of the last one, found nothing to submit and *)
(* nothing was taken over since.                                           *)
Quiet == (pc \in {"status", "prune"} /\ ~num_updates) \/ pc \in {"done", "idle"}
QuietInv ==
    Quiet => \A k \in 1..Length :
        At(k).status \in {QUEUED, COMPLETE} => ~CanSubmit(k)

(* When a kernel has been started, no reprogram before it is pending.      *)
ReprogInv ==
    \A j, k \in 1..Length :
        /\ j < k
        /\ At(k).type = "KERNEL" /\ At(k).status # QUEUED
        /\ At(j).type = "REPROGRAM" /\ Dev(j) = Dev(k)
        => At(j).status = COMPLETE

IInv ==
    /\ TypeOK /\ ListInv /\ IdleInv /\ OpInv /\ GroupInv /\ EventInv
    /\ CompletedOnce /\ FailInv /\ CurrentInv /\ RingInv /\ PruneInv
    /\ QuietInv /\ ReprogInv

----------------------------------------------------------------------------
(* Facts about a state. *)
USE DEF QUEUED, SUBMITTED, RUNNING, COMPLETE, FAILED

(* What ListInv says of positions: every slot of the list has exactly one. *)
LEMMA ListFacts ==
    ASSUME TypeOK, ListInv
    PROVE  /\ Length \in Nat /\ Len(free) \in Nat
           /\ Live \subseteq Ids
           /\ \A k \in 1..Length : committed[k] \in Live /\ committed[k] \in Ids
           /\ \A i \in Live : \E k \in 1..Length : committed[k] = i
           /\ \A j, k \in 1..Length : committed[j] = committed[k] => j = k
           /\ DOMAIN committed = 1..Length
<1>1. committed \in Seq(Ids) /\ free \in Seq(Ids) /\ IsInjective(committed)
  BY DEF TypeOK, ListInv
<1>2. QED
  BY <1>1, PositionsOf DEF Length, Live

(* The first of a group is known by its position. *)
LEMMA GroupFacts ==
    ASSUME TypeOK, ListInv, OpInv, GroupInv
    PROVE  /\ \A i, j \in Live :
                op[i].cmd = op[j].cmd <=> op[i].group = op[j].group
           /\ \A k \in 1..Length : At(k).status # QUEUED => First(k)
           /\ \A k \in 1..Length : At(k).first => First(k)
           /\ \A k \in 1..Length : \A i \in Live :
                /\ First(k) /\ op[i].cmd = At(k).cmd /\ i # committed[k]
                => op[i].status = QUEUED
<1>1. \A i, j \in Live : op[i].cmd = op[j].cmd <=> op[i].group = op[j].group
  BY DEF GroupInv
<1>2. ASSUME NEW k \in 1..Length, At(k).status # QUEUED \/ At(k).first
      PROVE  First(k)
  <2> SUFFICES ASSUME NEW j \in 1..k - 1, Same(j, k) PROVE FALSE
    BY DEF First
  <2>1. j \in 1..Length /\ j < k
    BY ListFacts
  <2>2. QED
    BY <1>2, <2>1 DEF GroupInv
<1>3. ASSUME NEW k \in 1..Length, NEW i \in Live,
             First(k), op[i].cmd = At(k).cmd, i # committed[k]
      PROVE  op[i].status = QUEUED
  <2>1. PICK l \in 1..Length : committed[l] = i
    BY ListFacts
  <2>2. Same(k, l) /\ k # l
    BY <1>1, <1>3, <2>1, ListFacts DEF Same, At
  <2>3. ~(l < k)
    <3>1. l < k => l \in 1..k - 1 /\ Same(l, k)
      BY <2>2, ListFacts DEF Same
    <3>2. QED
      BY <1>3, <3>1 DEF First
  <2>4. k < l
    BY <2>2, <2>3, ListFacts
  <2>5. QED
    BY <2>1, <2>2, <2>4 DEF GroupInv, At
<1>4. QED
  BY <1>1, <1>2, <1>3

(* The types of the fields of an operation. *)
LEMMA OpFacts ==
    ASSUME TypeOK, NEW i \in Ids
    PROVE  /\ op[i] \in OpType
           /\ op[i].cmd \in Commands \cup {None}
           /\ op[i].status \in COMPLETE..QUEUED
           /\ op[i].exec \in FAILED..QUEUED
           /\ op[i].group \in Ids \cup {0}
           /\ op[i].first \in BOOLEAN /\ op[i].last \in BOOLEAN
           /\ op[i].printf \in {"none", "stall", "final"}
           /\ op[i].left \in Nat
BY DEF TypeOK, OpType

(* Min is the least member of a set of naturals. *)
LEMMA LeastOf ==
    ASSUME NEW S, S \subseteq Nat, S # {}
    PROVE  Min(S) \in S /\ \A n \in S : Min(S) <= n
<1>1. PICK m \in S : \A n \in S : ~(n < m)
  BY LeastNatural
<1>2. \A n \in S : m <= n
  BY <1>1
<1>3. QED
  BY <1>1, <1>2 DEF Min

(* The greatest of a set of positions. *)
LEMMA GreatestOf ==
    ASSUME NEW k \in Nat, NEW S, S \subseteq 1..k, S # {}
    PROVE  Max(S) \in S /\ \A n \in S : n <= Max(S)
<1> DEFINE T == {k - n : n \in S}
<1>0. \A n \in S : n \in 1..k /\ k - n \in Nat
  OBVIOUS
<1>1. T \subseteq Nat /\ T # {}
  <2>1. T \subseteq Nat
    BY <1>0
  <2>2. PICK n \in S : TRUE
    OBVIOUS
  <2>3. k - n \in T
    OBVIOUS
  <2>4. QED
    BY <2>1, <2>3
<1>2. PICK t \in T : \A u \in T : ~(u < t)
  <2> HIDE DEF T
  <2> QED
    BY <1>1, LeastNatural
<1>3. PICK m \in S : t = k - m
  OBVIOUS
<1>4. ASSUME NEW n \in S PROVE n <= m
  <2>1. k - n \in T /\ n \in 1..k /\ m \in 1..k
    OBVIOUS
  <2>2. ~(k - n < k - m)
    BY <1>2, <1>3, <2>1
  <2>3. QED
    BY <2>1, <2>2
<1>5. QED
  BY <1>4 DEF Max

----------------------------------------------------------------------------
(* What the invariant says of the properties.                              *)

(* A printf buffer is processed whatever else goes on: between updates no  *)
(* operation is left that is complete.                                     *)
LEMMA NothingCompleteIsLeft ==
    ASSUME IInv, pc = "idle", NEW i \in Live
    PROVE  op[i].status # COMPLETE
<1> SUFFICES ASSUME op[i].status = COMPLETE PROVE FALSE
  OBVIOUS
<1>1. TypeOK /\ ListInv /\ OpInv /\ GroupInv /\ PruneInv /\ QuietInv /\ ReprogInv
  BY DEF IInv
<1>2. PICK k \in 1..Length : committed[k] = i
  BY <1>1, ListFacts
<1>3. /\ At(k) = op[i] /\ i \in Ids
      /\ Length \in Nat /\ k \in Nat
      /\ \A j \in 1..k - 1 : j \in 1..Length /\ j < k /\ committed[j] \in Ids
                             /\ committed[j] \in Live
  BY <1>1, <1>2, ListFacts DEF At
<1>4. op[i].printf # "none"
  BY <1>1 DEF PruneInv, Finished
<1>5. op[i].type = "KERNEL" /\ op[i].affects = {<<Dev(k), "KERNEL">>}
  BY <1>1, <1>3, <1>4 DEF OpInv, StateOf, ShapeOf, Dev
<1>6. First(k)
  BY <1>1, <1>3, GroupFacts
<1>7. ~GroupBusy(k)
  <2> SUFFICES ASSUME PendingBefore(k) # {}
               PROVE  op[committed[Max(PendingBefore(k))]].group # At(k).group
    BY DEF GroupBusy, At
  <2>1. PendingBefore(k) \subseteq 1..k
    BY <1>3 DEF PendingBefore
  <2>2. Max(PendingBefore(k)) \in PendingBefore(k)
    BY <1>3, <2>1, GreatestOf
  <2>3. Max(PendingBefore(k)) \in 1..k - 1
    BY <2>2 DEF PendingBefore
  <2>4. QED
    BY <1>6, <2>3 DEF First, Same, At
<1>8. ~MatrixConflict(k)
  <2> SUFFICES ASSUME NEW j \in PendingBefore(k), OpsConflict(i, committed[j])
               PROVE  FALSE
    BY <1>2 DEF MatrixConflict
  <2> DEFINE b == committed[j]
  <2>1. j \in 1..k - 1 /\ op[b].status # COMPLETE /\ b \in Live
    BY <1>3 DEF PendingBefore, Pending
  <2>2. Affects(i) = {<<Dev(k), "KERNEL">>}
    BY <1>5 DEF Affects
  <2>3. PICK y \in Affects(b) : y[1] = Dev(k) /\ Conflict(Dev(k), "KERNEL", y[2])
    BY <2>2 DEF OpsConflict
  <2>4. y[2] = "REPROGRAM"
    BY <2>3 DEF Conflict, HalfDuplexConflict, FullDuplexConflict
  <2>5. op[b].type # "MEM_MIGRATION"
    BY <2>3, <2>4 DEF Affects
  <2>6. y \in op[b].affects
    BY <2>3, <2>5 DEF Affects
  <2>7. y[2] \in ConflictsOf(op[b].type)
    BY <1>1, <2>1, <2>6 DEF OpInv, ShapeOf
  <2>8. op[b].type = "REPROGRAM"
    BY <2>4, <2>7 DEF ConflictsOf
  <2>9. op[b].affects = {<<Command[op[b].cmd].device, "REPROGRAM">>}
    BY <1>1, <2>1, <2>8 DEF OpInv, ShapeOf
  <2>10. Dev(j) = Dev(k)
    BY <2>3, <2>6, <2>9 DEF Dev, At
  <2>11. j \in 1..Length /\ j < k
    BY <1>3, <2>1
  <2>12. At(j).status = COMPLETE
    BY <1>1, <1>3, <1>5, <2>8, <2>10, <2>11 DEF ReprogInv, At
  <2>13. QED
    BY <2>1, <2>12 DEF At
<1>9. CanSubmit(k)
  <2>1. IsCandidate(k)
    BY <1>2, <1>4, <1>7 DEF IsCandidate
  <2>2. ~IsKernelMigration(i)
    BY <1>5 DEF IsKernelMigration
  <2>3. QED
    BY <1>2, <1>8, <2>1, <2>2 DEF CanSubmit
<1>10. QED
  BY <1>1, <1>3, <1>9 DEF QuietInv, Quiet

(* The invariant implies that every slot is in the list or free. *)
LEMMA RecycledByInv == IInv => SlotsRecycled
<1> SUFFICES ASSUME IInv PROVE SlotsRecycled
  OBVIOUS
<1>1. TypeOK /\ ListInv /\ EventInv
  BY DEF IInv
<1>2. Len(committed) + Len(free) = MaxOps
  <2> DEFINE T == Ids
  <2>1. committed \in Seq(T) /\ free \in Seq(T)
    BY <1>1 DEF TypeOK
  <2> HIDE DEF T
  <2>2. /\ committed \o free \in Seq(T)
        /\ Len(committed \o free) = Len(committed) + Len(free)
        /\ ToSet(committed \o free) = Live \cup ToSet(free)
        /\ IsInjective(committed \o free)
    BY <1>1, <2>1, ConcatMembers DEF ListInv, Live
  <2>3. MaxOps \in Nat /\ ToSet(committed \o free) = 1..MaxOps
    BY <1>1, <2>2, SizeAssumption DEF ListInv, Ids
  <2>4. Len(committed \o free) = MaxOps
    BY <2>2, <2>3, LengthOf
  <2>5. QED
    BY <2>2, <2>4
<1>3. ASSUME pc = "idle", NEW i \in Live PROVE status[op[i].cmd] > COMPLETE
  BY <1>1, <1>3, NothingCompleteIsLeft DEF EventInv
<1>4. QED
  BY <1>1, <1>2, <1>3 DEF SlotsRecycled, ListInv

(* The invariant implies that a command's operations run one at a time, in *)
(* order.                                                                  *)
LEMMA SequenceByInv == IInv => GroupInSequence
<1> SUFFICES ASSUME IInv PROVE GroupInSequence
  OBVIOUS
<1>1. TypeOK /\ ListInv /\ OpInv /\ GroupInv /\ FailInv /\ CurrentInv
  BY DEF IInv
<1>2. ASSUME NEW k \in 1..Length, NEW l \in 1..Length, k < l, Same(k, l)
      PROVE  At(l).status = QUEUED
  BY <1>1, <1>2 DEF GroupInv
<1>3. ASSUME NEW i \in Ids, OnHardware(i) PROVE ~failed[op[i].cmd]
  <2>1. PICK k \in 1..Length : committed[k] = i
    BY <1>1, <1>3, ListFacts DEF OnHardware
  <2>2. First(k)
    BY <1>1, <1>3, <2>1, GroupFacts DEF OnHardware, At
  <2>3. QED
    BY <1>1, <1>3, <2>1, <2>2 DEF FailInv, OnHardware, At
<1>4. ASSUME NEW i \in Ids, TransferInFlight(i)
      PROVE  current_op[op[i].cmd] = i
  BY <1>1, <1>4 DEF TransferInFlight, CurrentInv
<1>5. QED
  BY <1>1, <1>2, <1>3, <1>4, ListFacts DEF GroupInSequence, Same, At

(* The invariant implies that an update leaves nothing that could start. *)
LEMMA FixpointByInv == IInv => NothingLeftToStart
<1> SUFFICES ASSUME IInv, pc = "idle", NEW k \in 1..Length,
                    At(k).status = QUEUED
             PROVE  ~CanSubmit(k)
  BY ListFacts DEF NothingLeftToStart, IInv, At
<1>1. QED
  BY DEF IInv, QuietInv, Quiet

----------------------------------------------------------------------------
(* Steps that move operations on, but do not move them between the lists.  *)
Fixed(i) ==
    /\ op'[i].cmd = op[i].cmd /\ op'[i].type = op[i].type
    /\ op'[i].affects = op[i].affects /\ op'[i].mem = op[i].mem
    /\ op'[i].noTransfer = op[i].noTransfer
    /\ op'[i].mayFail = op[i].mayFail
    /\ op'[i].group = op[i].group
    /\ op'[i].first = op[i].first /\ op'[i].last = op[i].last
Progress ==
    /\ committed' = committed /\ free' = free
    /\ op' \in [Ids -> OpType]
    /\ \A i \in Ids : Fixed(i)
    /\ \A i \in Ids \ Live : op'[i] = op[i]
Changes(i, st, ex, pr) ==
    /\ committed' = committed /\ free' = free
    /\ op' \in [Ids -> OpType]
    /\ Fixed(i)
    /\ \A j \in Ids \ {i} : op'[j] = op[j]
    /\ op'[i].status = st /\ op'[i].exec = ex /\ op'[i].printf = pr

(* An operation of the list that changes only its status, its execution    *)
(* status and its printf marker makes progress.                            *)
LEMMA ChangesIsProgress ==
    ASSUME TypeOK, ListInv, NEW i \in Live, NEW st, NEW ex, NEW pr,
           Changes(i, st, ex, pr)
    PROVE  /\ Progress
           /\ \A j \in Live \ {i} : op'[j] = op[j]
<1>1. i \in Ids /\ Live \subseteq Ids
  BY ListFacts
<1>2. \A j \in Ids : Fixed(j)
  BY DEF Changes, Fixed
<1>3. QED
  BY <1>1, <1>2 DEF Changes, Progress

(* What progress leaves alone: the list, the groups, the devices. *)
LEMMA ProgressFacts ==
    ASSUME TypeOK, ListInv, Progress
    PROVE  /\ Live' = Live /\ Length' = Length
           /\ \A k : At(k)' = op'[committed[k]]
           /\ \A j, k \in 1..Length : Same(j, k)' <=> Same(j, k)
           /\ \A k \in 1..Length : First(k)' <=> First(k)
           /\ \A k \in 1..Length : Dev(k)' = Dev(k)
<1>1. Live' = Live /\ Length' = Length /\ \A k : At(k)' = op'[committed[k]]
  BY DEF Progress, Live, Length, At
<1>2. \A k \in 1..Length : Fixed(committed[k])
  BY ListFacts DEF Progress
<1>3. \A j, k \in 1..Length : Same(j, k)' <=> Same(j, k)
  BY <1>1, <1>2 DEF Same, Fixed, At
<1>4. \A k \in 1..Length : First(k)' <=> First(k)
  <2> SUFFICES ASSUME NEW k \in 1..Length PROVE First(k)' <=> First(k)
    OBVIOUS
  <2>1. \A j \in 1..k - 1 : j \in 1..Length
    BY ListFacts
  <2>2. \A j \in 1..k - 1 : Same(j, k)' <=> Same(j, k)
    BY <1>3, <2>1
  <2>3. QED
    BY <2>2 DEF First
<1>5. \A k \in 1..Length : Dev(k)' = Dev(k)
  BY <1>1, <1>2 DEF Dev, Fixed, At
<1>6. QED
  BY <1>1, <1>3, <1>4, <1>5

(* Progress keeps the lists, the shapes and the groups when only the first *)
(* operation of a group moves.                                             *)
LEMMA ProgressKeeps ==
    ASSUME TypeOK, ListInv, IdleInv, OpInv, GroupInv, Progress,
           \A k \in 1..Length : op'[committed[k]].status # At(k).status
                                  => First(k),
           \A i \in Live : last_op'[op[i].cmd] = last_op[op[i].cmd]
    PROVE  ListInv' /\ IdleInv' /\ (\A i \in Live : ShapeOf(i)') /\ GroupInv'
<1>0. Live' = Live /\ Length' = Length /\ Live \subseteq Ids
  BY ProgressFacts, ListFacts
<1>1. ListInv'
  BY DEF Progress, ListInv, Live
<1>2. IdleInv'
  BY <1>0, ZenonT(60) DEF Progress, IdleInv
<1>3. ASSUME NEW i \in Live PROVE ShapeOf(i)'
  <2>1. Fixed(i)
    BY <1>0 DEF Progress
  <2>2. ShapeOf(i)
    BY DEF OpInv
  <2>3. QED
    BY <2>1, <2>2 DEF ShapeOf, Fixed, BuffersOf
<1>4. ASSUME NEW i \in Live
      PROVE  /\ op'[i].group \in Live /\ last_op'[op'[i].cmd] = op'[i].group
             /\ op'[op'[i].group].cmd = op'[i].cmd
  <2>1. /\ op[i].group \in Live /\ last_op[op[i].cmd] = op[i].group
        /\ op[op[i].group].cmd = op[i].cmd
    BY DEF GroupInv
  <2>2. Fixed(i) /\ Fixed(op[i].group)
    BY <1>0, <2>1 DEF Progress
  <2>3. QED
    BY <2>1, <2>2 DEF Fixed
<1>5. ASSUME NEW k \in 1..Length, NEW l \in 1..Length, k < l, Same(k, l)'
      PROVE  /\ At(l)'.status = QUEUED /\ ~At(l)'.first /\ ~At(k)'.last
             /\ \A m \in k..l : Same(k, m)'
  <2>1. Same(k, l)
    BY <1>5, ProgressFacts
  <2>2. /\ At(l).status = QUEUED /\ ~At(l).first /\ ~At(k).last
        /\ \A m \in k..l : Same(k, m)
    BY <1>5, <2>1 DEF GroupInv
  <2>3. ~First(l)
    <3>1. k \in 1..l - 1
      BY <1>5, ListFacts
    <3>2. QED
      BY <2>1, <3>1 DEF First
  <2>4. Fixed(committed[l]) /\ Fixed(committed[k])
    BY ListFacts DEF Progress
  <2>5. \A m \in k..l : m \in 1..Length
    BY ListFacts
  <2>6. /\ At(l)' = op'[committed[l]] /\ At(k)' = op'[committed[k]]
        /\ \A m \in k..l : Same(k, m)'
    BY <2>2, <2>5, ProgressFacts
  <2>7. op'[committed[l]].status = At(l).status
    BY <2>3
  <2>8. QED
    BY <2>2, <2>4, <2>6, <2>7 DEF Fixed, At
<1>6. GroupInv'
  BY <1>0, <1>4, <1>5 DEF GroupInv
<1>7. QED
  BY <1>1, <1>2, <1>3, <1>6

(* Progress keeps FailInv when no operation fails that had not. *)
LEMMA ProgressKeepsFail ==
    ASSUME TypeOK, ListInv, FailInv, Progress,
           \A k \in 1..Length :
             /\ op'[committed[k]].exec = FAILED <=> At(k).exec = FAILED
             /\ failed'[At(k).cmd] = failed[At(k).cmd]
    PROVE  FailInv'
<1> SUFFICES ASSUME NEW k \in 1..Length
             PROVE  /\ At(k)'.exec = FAILED => failed'[At(k)'.cmd] /\ First(k)'
                    /\ First(k)' /\ failed'[At(k)'.cmd] => At(k)'.exec = FAILED
  BY ProgressFacts DEF FailInv
<1>1. At(k)' = op'[committed[k]] /\ (First(k)' <=> First(k))
  BY ProgressFacts
<1>2. Fixed(committed[k])
  BY ListFacts DEF Progress
<1>3. op'[committed[k]].cmd = At(k).cmd
  BY <1>2 DEF Fixed, At
<1>4. QED
  BY <1>1, <1>3 DEF FailInv

(* The reprograms of its device before a kernel are complete.              *)
Clear(k) ==
    \A j \in 1..k - 1 :
        At(j).type = "REPROGRAM" /\ Dev(j) = Dev(k) => At(j).status = COMPLETE

(* Progress keeps ReprogInv when no kernel leaves QUEUED past a            *)
(* reprogramming that is not done.                                         *)
LEMMA ProgressKeepsReprog ==
    ASSUME TypeOK, ListInv, ReprogInv, Progress,
           \A k \in 1..Length :
             /\ At(k).status = COMPLETE => op'[committed[k]].status = COMPLETE
             /\ /\ At(k).type = "KERNEL" /\ At(k).status = QUEUED
                /\ op'[committed[k]].status # QUEUED
                => Clear(k)
    PROVE  ReprogInv'
<1> SUFFICES ASSUME NEW j \in 1..Length, NEW k \in 1..Length, j < k,
                    At(k)'.type = "KERNEL", At(k)'.status # QUEUED,
                    At(j)'.type = "REPROGRAM", Dev(j)' = Dev(k)'
             PROVE  At(j)'.status = COMPLETE
  BY ProgressFacts DEF ReprogInv
<1>1. At(k)' = op'[committed[k]] /\ At(j)' = op'[committed[j]] /\ Dev(j) = Dev(k)
  BY ProgressFacts
<1>2. Fixed(committed[k]) /\ Fixed(committed[j])
  BY ListFacts DEF Progress
<1>3. At(k).type = "KERNEL" /\ At(j).type = "REPROGRAM"
  BY <1>1, <1>2 DEF Fixed, At
<1>4. CASE At(k).status # QUEUED
  BY <1>1, <1>3, <1>4 DEF ReprogInv
<1>5. CASE At(k).status = QUEUED
  <2>1. j \in 1..k - 1 /\ Clear(k)
    BY <1>1, <1>3, <1>5, ListFacts
  <2>2. QED
    BY <1>1, <1>3, <2>1 DEF Clear
<1>6. QED
  BY <1>4, <1>5

(* The scan compares statuses, and where the buffers are: whoever leaves   *)
(* those alone leaves its outcome alone.                                   *)
LEMMA SameScan ==
    ASSUME TypeOK, ListInv, OpInv, Progress, at' = at,
           \A i \in Live : op'[i].status = op[i].status,
           \A i \in Live : op[i].type # "KERNEL"
                             => op'[i].printf = op[i].printf,
           NEW k \in 1..Length, op'[committed[k]].printf = At(k).printf
    PROVE  CanSubmit(k)' <=> CanSubmit(k)
<1>1. /\ Length \in Nat
      /\ \A j \in 1..k - 1 : j \in 1..Length
      /\ \A j \in 1..Length : committed[j] \in Live /\ Fixed(committed[j])
      /\ committed' = committed /\ Live' = Live
      /\ \A i \in Live : Fixed(i)
  BY ListFacts, ProgressFacts DEF Progress
<1>2. \A n \in 1..Length : PendingBefore(n)' = PendingBefore(n)
  <2> SUFFICES ASSUME NEW n \in 1..Length
               PROVE  PendingBefore(n)' = PendingBefore(n)
    OBVIOUS
  <2>1. \A j \in 1..n - 1 : j \in 1..Length
    BY <1>1
  <2>2. \A j \in 1..n - 1 : Pending(committed[j])' <=> Pending(committed[j])
    BY <1>1, <2>1 DEF Pending
  <2>3. QED
    BY <1>1, <2>2 DEF PendingBefore
<1>3. \A n \in 1..Length : \A j \in PendingBefore(n) : j \in 1..Length
  BY <1>1 DEF PendingBefore
<1>4. ASSUME NEW n \in 1..Length PROVE GroupBusy(n)' <=> GroupBusy(n)
  <2>1. CASE PendingBefore(n) = {}
    BY <1>2, <2>1 DEF GroupBusy
  <2>2. CASE PendingBefore(n) # {}
    <3>1. PendingBefore(n) \subseteq 1..n
      BY <1>1 DEF PendingBefore
    <3>2. Max(PendingBefore(n)) \in PendingBefore(n)
      BY <1>1, <2>2, <3>1, GreatestOf
    <3>3. PICK m \in 1..Length : m = Max(PendingBefore(n))
      BY <1>3, <3>2
    <3>4. (Max(PendingBefore(n)))' = m
      BY <1>2, <3>3
    <3>5. op'[committed[m]].group = op[committed[m]].group
          /\ op'[committed[n]].group = op[committed[n]].group
      BY <1>1 DEF Fixed
    <3>6. QED
      BY <1>1, <1>2, <3>3, <3>4, <3>5 DEF GroupBusy
  <2>3. QED
    BY <2>1, <2>2
<1>5. ASSUME NEW i \in Live PROVE Affects(i)' = Affects(i)
  <2>1. /\ op'[i].type = op[i].type /\ op'[i].cmd = op[i].cmd
        /\ op'[i].affects = op[i].affects
    BY <1>1 DEF Fixed
  <2>2. BuffersOf(op[i].cmd)' = BuffersOf(op[i].cmd)
    BY <2>1 DEF BuffersOf
  <2> DEFINE B == BuffersOf(op[i].cmd)
             P == {at[b] : b \in B}
  <2>3. P' = P
    <3>1. B' = B
      BY <2>2
    <3> HIDE DEF B
    <3>2. QED
      BY <3>1
  <2>4. Affects(i) = IF op[i].type = "MEM_MIGRATION"
                     THEN (Devices \cap ({Command[op[i].cmd].device} \cup P))
                            \X {"MEM"}
                     ELSE op[i].affects
    BY DEF Affects
  <2>5. Affects(i)' = IF op'[i].type = "MEM_MIGRATION"
                      THEN (Devices \cap ({Command[op'[i].cmd].device} \cup P'))
                             \X {"MEM"}
                      ELSE op'[i].affects
    BY DEF Affects
  <2> HIDE DEF P
  <2>6. QED
    BY <2>1, <2>3, <2>4, <2>5
<1>6. MatrixConflict(k)' <=> MatrixConflict(k)
  <2>1. \A i, j \in Live : OpsConflict(i, j)' <=> OpsConflict(i, j)
    BY <1>5 DEF OpsConflict
  <2>2. \A j \in PendingBefore(k) : committed[j] \in Live
    BY <1>1, <1>3
  <2>3. QED
    BY <1>1, <1>2, <2>1, <2>2 DEF MatrixConflict
<1>7. ASSUME NEW i \in Live
      PROVE  /\ IsKernelMigration(i)' <=> IsKernelMigration(i)
             /\ IsNoopMigration(i)' <=> IsNoopMigration(i)
             /\ OnDevice(i)' <=> OnDevice(i)
  BY <1>1 DEF IsKernelMigration, IsKernelCommand, IsNoopMigration,
              MovesNothing, OnDevice, Fixed
<1>8. ASSUME NEW n \in 1..Length,
             op'[committed[n]].printf = op[committed[n]].printf
      PROVE  IsCandidate(n)' <=> IsCandidate(n)
  BY <1>1, <1>4, <1>8 DEF IsCandidate
<1>9. NoopPruningBlocked(k)' <=> NoopPruningBlocked(k)
  <2>1. ASSUME NEW j \in 1..k - 1
        PROVE  (/\ IsCandidate(j) /\ IsKernelMigration(committed[j])
                /\ ~IsNoopMigration(committed[j]))' <=>
               (/\ IsCandidate(j) /\ IsKernelMigration(committed[j])
                /\ ~IsNoopMigration(committed[j]))
    <3>1. committed[j] \in Live /\ j \in 1..Length
      BY <1>1
    <3>2. /\ IsKernelMigration(committed[j])' <=> IsKernelMigration(committed[j])
          /\ IsNoopMigration(committed[j])' <=> IsNoopMigration(committed[j])
      BY <1>1, <1>7, <3>1
    <3>3. IsKernelMigration(committed[j])
            => (IsCandidate(j)' <=> IsCandidate(j))
      BY <1>8, <3>1 DEF IsKernelMigration
    <3>4. QED
      BY <3>2, <3>3
  <2>2. QED
    BY <2>1 DEF NoopPruningBlocked
<1> DEFINE i == committed[k]
<1>10. MemInUse(i)' <=> MemInUse(i)
  <2>1. /\ \A j \in Live : OnDevice(j)' <=> OnDevice(j)
        /\ \A j \in Live : op'[j].cmd = op[j].cmd
        /\ i \in Live /\ op'[i].mem = op[i].mem /\ committed'[k] = i
    BY <1>1, <1>7 DEF Fixed
  <2>2. \A j \in Live : BuffersOf(op[j].cmd)' = BuffersOf(op[j].cmd)
    BY <2>1 DEF BuffersOf
  <2>3. QED
    BY <1>1, <2>1, <2>2 DEF MemInUse
<1>11. AccelFull(k)' <=> AccelFull(k)
  <2>1. \A j \in 1..k - 1 :
          /\ OnDevice(committed[j])' <=> OnDevice(committed[j])
          /\ op'[committed[j]].cmd = op[committed[j]].cmd
    BY <1>1, <1>7 DEF Fixed
  <2>2. op'[committed[k]].cmd = op[committed[k]].cmd
    BY <1>1 DEF Fixed
  <2> DEFINE S == {j \in 1..k - 1 :
                     /\ OnDevice(committed[j])
                     /\ Command[op[committed[j]].cmd].accel
                          = Command[op[committed[k]].cmd].accel}
  <2>3. S' = S
    BY <1>1, <2>1, <2>2
  <2>4. AccelFull(k) <=> Cardinality(S) > Command[op[committed[k]].cmd].depth
    BY DEF AccelFull
  <2>5. AccelFull(k)' <=>
          Cardinality(S') > Command[op'[committed'[k]].cmd].depth
    BY DEF AccelFull
  <2> HIDE DEF S
  <2>6. QED
    BY <1>1, <2>2, <2>3, <2>4, <2>5
<1>12. IsCandidate(k)' <=> IsCandidate(k)
  BY <1>8 DEF At
<1>13. /\ i \in Live /\ committed'[k] = i
       /\ op'[i].status = op[i].status /\ op'[i].type = op[i].type
       /\ op'[i].noTransfer = op[i].noTransfer
  BY <1>1 DEF Fixed
<1>14. QED
  BY <1>6, <1>7, <1>9, <1>10, <1>11, <1>12, <1>13 DEF CanSubmit

----------------------------------------------------------------------------
(* What the submit pass does to the operation it picks.                    *)

(* An operation that is written anew, but for what its command is.          *)
LEMMA Rewritten ==
    ASSUME TypeOK, NEW i \in Ids, NEW r \in OpType,
           UNCHANGED lists, op' = [op EXCEPT ![i] = r],
           /\ r.cmd = op[i].cmd /\ r.type = op[i].type
           /\ r.affects = op[i].affects /\ r.mem = op[i].mem
           /\ r.noTransfer = op[i].noTransfer /\ r.mayFail = op[i].mayFail
           /\ r.group = op[i].group
           /\ r.first = op[i].first /\ r.last = op[i].last
    PROVE  Changes(i, r.status, r.exec, r.printf)
<1>1. op \in [Ids -> OpType]
  BY DEF TypeOK
<1>2. op' \in [Ids -> OpType] /\ op'[i] = r /\ \A j \in Ids \ {i} : op'[j] = op[j]
  BY <1>1
<1>3. QED
  BY <1>2 DEF Changes, Fixed, lists

(* A kernel is submitted when the reprograms before it are done.           *)
LEMMA KernelIsClear ==
    ASSUME IInv, NEW k \in 1..Length, CanSubmit(k),
           At(k).type = "KERNEL", At(k).status = QUEUED
    PROVE  Clear(k)
<1> SUFFICES ASSUME NEW j \in 1..k - 1, At(j).type = "REPROGRAM",
                    Dev(j) = Dev(k), At(j).status # COMPLETE
             PROVE  FALSE
  BY DEF Clear
<1>1. TypeOK /\ ListInv /\ OpInv
  BY DEF IInv
<1> DEFINE i == committed[k]
           b == committed[j]
<1>2. i \in Live /\ b \in Live /\ b \in Ids /\ j \in 1..Length
  BY <1>1, ListFacts
<1>3. ShapeOf(i) /\ ShapeOf(b)
  BY <1>1, <1>2, Zenon DEF OpInv
<1>4. /\ op[i].affects = {<<Dev(k), "KERNEL">>} /\ ~op[i].noTransfer
      /\ op[i].type = "KERNEL"
  BY <1>3, ZenonT(60) DEF ShapeOf, Dev, At, MayMoveNothing
<1>5. op[b].affects = {<<Dev(k), "REPROGRAM">>} /\ op[b].type = "REPROGRAM"
  BY <1>3 DEF ShapeOf, Dev, At
<1>6. Affects(i) = {<<Dev(k), "KERNEL">>} /\ Affects(b) = {<<Dev(k), "REPROGRAM">>}
  BY <1>4, <1>5 DEF Affects
<1>7. Conflict(Dev(k), "KERNEL", "REPROGRAM")
  BY DEF Conflict, HalfDuplexConflict, FullDuplexConflict, Reads, Writes, Pipes
<1>8. OpsConflict(i, b)
  BY <1>6, <1>7 DEF OpsConflict
<1>9. j \in PendingBefore(k)
  BY <1>1, <1>2, OpFacts DEF PendingBefore, Pending, At
<1>10. ~MatrixConflict(k)
  BY <1>4 DEF CanSubmit, IsNoopMigration, IsKernelMigration
<1>11. QED
  BY <1>8, <1>9, <1>10 DEF MatrixConflict

(* An operation is started when all those before it in its group have been *)
(* pruned.                                                                 *)
LEMMA StartsFirst ==
    ASSUME IInv, pc = "submit", NEW k \in 1..Length, CanSubmit(k)
    PROVE  First(k)
<1> SUFFICES ASSUME NEW j \in 1..k - 1, Same(j, k) PROVE FALSE
  BY DEF First
<1>1. TypeOK /\ ListInv /\ OpInv /\ GroupInv /\ PruneInv
  BY DEF IInv
<1>2. /\ k \in Nat /\ j \in Nat /\ j < k /\ j \in 1..Length
      /\ k - 1 \in 1..Length /\ k - 1 \in 1..k - 1 /\ k - 1 < k
      /\ k - 1 \in j..k
  BY <1>1, ListFacts
<1>3. Same(j, k - 1)
  BY <1>1, <1>2 DEF GroupInv
<1>4. Same(k - 1, k)
  BY <1>3 DEF Same
<1> DEFINE p == committed[k - 1]
<1>5. p \in Live /\ p \in Ids
  BY <1>1, <1>2, ListFacts
<1>6. CASE k - 1 \in PendingBefore(k)
  <2> DEFINE P == PendingBefore(k)
  <2>1. P \subseteq 1..k /\ k - 1 \in P /\ \A m \in P : m \in 1..k - 1
    BY <1>2, <1>6 DEF PendingBefore
  <2> HIDE DEF P
  <2>2. Max(P) \in P /\ \A m \in P : m <= Max(P)
    BY <1>2, <2>1, GreatestOf
  <2>3. Max(P) \in 1..k - 1 /\ k - 1 <= Max(P)
    BY <2>1, <2>2
  <2>4. Max(P) = k - 1
    BY <1>2, <2>3
  <2>5. GroupBusy(k)
    BY <1>4, <2>1, <2>4 DEF GroupBusy, Same, At, P
  <2>6. QED
    BY <2>5 DEF CanSubmit, IsCandidate
<1>7. CASE k - 1 \notin PendingBefore(k)
  <2>1. op[p].status = COMPLETE
    BY <1>1, <1>2, <1>5, <1>7, OpFacts DEF PendingBefore, Pending
  <2>2. op[p].printf # "none"
    BY <1>1, <1>5, <2>1 DEF PruneInv, Finished
  <2>3. op[p].last
    BY <1>1, <1>5, <2>2 DEF OpInv, StateOf, ShapeOf
  <2>4. QED
    BY <1>1, <1>2, <1>4, <2>3 DEF GroupInv, At
<1>8. QED
  BY <1>6, <1>7

(* One step of the submit pass on its operation.                           *)
Submits(k) ==
    /\ pc = "submit" /\ pc' = "status" /\ cursor' = 1 /\ num_updates' = TRUE
    /\ caller' = caller
    /\ CanSubmit(k)

(* Picking up the printf buffer of a stalled or ended kernel keeps the     *)
(* invariant.                                                              *)
LEMMA ProcessPrintfStep ==
    ASSUME IInv, NEW k \in 1..Length, Submits(k),
           At(k).status # QUEUED, ProcessPrintf(committed[k])
    PROVE  IInv'
<1> DEFINE i == committed[k]
<1>1. /\ TypeOK /\ ListInv /\ IdleInv /\ OpInv /\ GroupInv /\ EventInv
      /\ CompletedOnce /\ FailInv /\ CurrentInv /\ RingInv /\ ReprogInv
  BY DEF IInv
<1>2. /\ i \in Live /\ i \in Ids /\ At(k) = op[i] /\ Live \subseteq Ids
      /\ \A n \in 1..Length : committed[n] \in Live
  BY <1>1, ListFacts DEF At
<1>3. UNCHANGED <<lists, events, at, bins, ring>>
  BY DEF ProcessPrintf
<1>4. Changes(i, op[i].status, op[i].exec, "none")
  <2> DEFINE r == [op[i] EXCEPT !.printf = "none"]
  <2>1. op' = [op EXCEPT ![i] = r]
    BY DEF ProcessPrintf
  <2>2. /\ r \in OpType
        /\ r.cmd = op[i].cmd /\ r.type = op[i].type
        /\ r.affects = op[i].affects /\ r.mem = op[i].mem
        /\ r.noTransfer = op[i].noTransfer /\ r.mayFail = op[i].mayFail
        /\ r.group = op[i].group
        /\ r.first = op[i].first /\ r.last = op[i].last
        /\ r.status = op[i].status /\ r.exec = op[i].exec /\ r.printf = "none"
    BY <1>1, <1>2, OpFacts DEF OpType
  <2> HIDE DEF r
  <2>3. Changes(i, r.status, r.exec, r.printf)
    BY <1>1, <1>2, <1>3, <2>1, <2>2, Rewritten
  <2>4. QED
    BY <2>2, <2>3
<1>5. Progress /\ \A j \in Live \ {i} : op'[j] = op[j]
  BY <1>1, <1>2, <1>4, ChangesIsProgress
<1>6. /\ Live' = Live
      /\ \A j \in Live : /\ op'[j].status = op[j].status
                         /\ op'[j].exec = op[j].exec
                         /\ op'[j].printf = "none" \/ op'[j].printf = op[j].printf
                         /\ op'[j].cmd = op[j].cmd /\ op'[j].type = op[j].type
                         /\ op'[j].first = op[j].first
  BY <1>1, <1>2, <1>4, <1>5, ProgressFacts DEF Changes, Progress, Fixed
<1>7. TypeOK'
  BY <1>1, <1>3, <1>5, SizeAssumption
     DEF TypeOK, Progress, Submits, lists, events, bins
<1>8. ListInv' /\ IdleInv' /\ (\A j \in Live : ShapeOf(j)') /\ GroupInv'
  BY <1>1, <1>2, <1>3, <1>5, <1>6, ProgressKeeps DEF At, events
<1>9. \A j \in Live : StateOf(j)'
  BY <1>1, <1>6 DEF OpInv, StateOf
<1>10. EventInv'
  BY <1>1, <1>3, <1>6 DEF EventInv, events, Submits
<1>11. CompletedOnce'
  BY <1>1, <1>3 DEF CompletedOnce, events
<1>12. FailInv'
  BY <1>1, <1>2, <1>3, <1>5, <1>6, ProgressKeepsFail DEF At, events
<1>13. CurrentInv'
  BY <1>1, <1>3, <1>6 DEF CurrentInv, events
<1>14. RingInv'
  BY <1>1, <1>3, <1>6 DEF RingInv
<1>15. PruneInv' /\ QuietInv'
  BY DEF PruneInv, QuietInv, Quiet, Submits
<1>16. ReprogInv'
  BY <1>1, <1>2, <1>5, <1>6, ProgressKeepsReprog DEF At
<1>17. QED
  BY <1>6, <1>7, <1>8, <1>9, <1>10, <1>11, <1>12, <1>13, <1>14, <1>15, <1>16
     DEF IInv, OpInv

(* Passing over an operation that has failed keeps the invariant. *)
LEMMA SkipStep ==
    ASSUME IInv, NEW k \in 1..Length, Submits(k),
           At(k).status = QUEUED, At(k).exec < 0, SkipOp(committed[k])
    PROVE  IInv'
<1> DEFINE i == committed[k]
<1>1. /\ TypeOK /\ ListInv /\ IdleInv /\ OpInv /\ GroupInv /\ EventInv
      /\ CompletedOnce /\ FailInv /\ CurrentInv /\ RingInv /\ ReprogInv
  BY DEF IInv
<1>2. /\ i \in Live /\ i \in Ids /\ At(k) = op[i] /\ Live \subseteq Ids
      /\ \A n \in 1..Length : /\ committed[n] \in Live
                              /\ committed[n] = i => n = k
  BY <1>1, ListFacts DEF At
<1>3. UNCHANGED <<lists, events, at, bins, ring>>
  BY DEF SkipOp
<1>4. op[i].exec = FAILED /\ First(k)
  BY <1>1, <1>2, OpFacts DEF FailInv
<1>5. Changes(i, SUBMITTED, FAILED, op[i].printf)
  <2> DEFINE r == [op[i] EXCEPT !.status = SUBMITTED]
  <2>1. op' = [op EXCEPT ![i] = r]
    BY DEF SkipOp
  <2>2. /\ r \in OpType
        /\ r.cmd = op[i].cmd /\ r.type = op[i].type
        /\ r.affects = op[i].affects /\ r.mem = op[i].mem
        /\ r.noTransfer = op[i].noTransfer /\ r.mayFail = op[i].mayFail
        /\ r.group = op[i].group
        /\ r.first = op[i].first /\ r.last = op[i].last
        /\ r.status = SUBMITTED /\ r.exec = FAILED /\ r.printf = op[i].printf
    BY <1>1, <1>2, <1>4, OpFacts DEF OpType
  <2> HIDE DEF r
  <2>3. Changes(i, r.status, r.exec, r.printf)
    BY <1>1, <1>2, <1>3, <2>1, <2>2, Rewritten
  <2>4. QED
    BY <2>2, <2>3
<1>6. Progress /\ \A j \in Live \ {i} : op'[j] = op[j]
  BY <1>1, <1>2, <1>5, ChangesIsProgress
<1>7. /\ Live' = Live
      /\ \A j \in Live : /\ op'[j].status = IF j = i THEN SUBMITTED ELSE op[j].status
                         /\ op'[j].exec = op[j].exec
                         /\ op'[j].printf = op[j].printf
                         /\ op'[j].cmd = op[j].cmd /\ op'[j].type = op[j].type
                         /\ op'[j].first = op[j].first
  BY <1>1, <1>2, <1>4, <1>5, <1>6, ProgressFacts DEF Changes, Progress, Fixed
<1>8. TypeOK'
  BY <1>1, <1>3, <1>6, SizeAssumption
     DEF TypeOK, Progress, Submits, lists, events, bins
<1>9. ListInv' /\ IdleInv' /\ (\A j \in Live : ShapeOf(j)') /\ GroupInv'
  <2>1. \A n \in 1..Length : op'[committed[n]].status # At(n).status => First(n)
    BY <1>2, <1>4, <1>7 DEF At
  <2>2. QED
    BY <1>1, <1>3, <1>6, <2>1, ProgressKeeps DEF events
<1>10. \A j \in Live : StateOf(j)'
  BY <1>1, <1>2, <1>4, <1>7 DEF OpInv, StateOf
<1>11. EventInv'
  BY <1>1, <1>2, <1>3, <1>7 DEF EventInv, events, Submits
<1>12. CompletedOnce'
  BY <1>1, <1>3 DEF CompletedOnce, events
<1>13. FailInv'
  BY <1>1, <1>2, <1>3, <1>6, <1>7, ProgressKeepsFail DEF At, events
<1>14. CurrentInv'
  BY <1>1, <1>3, <1>4, <1>7 DEF CurrentInv, events
<1>15. RingInv'
  BY <1>1, <1>2, <1>3, <1>7 DEF RingInv
<1>16. PruneInv' /\ QuietInv'
  BY DEF PruneInv, QuietInv, Quiet, Submits
<1>17. ReprogInv'
  <2>1. ASSUME NEW n \in 1..Length
        PROVE  /\ At(n).status = COMPLETE => op'[committed[n]].status = COMPLETE
               /\ /\ At(n).type = "KERNEL" /\ At(n).status = QUEUED
                  /\ op'[committed[n]].status # QUEUED
                  => Clear(n)
    <3>1. CASE n = k
      BY <1>2, <3>1, KernelIsClear DEF Submits
    <3>2. CASE n # k
      BY <1>2, <1>7, <3>2, Zenon DEF At
    <3>3. QED
      BY <3>1, <3>2
  <2>2. QED
    BY <1>1, <1>6, <2>1, ProgressKeepsReprog
<1>18. QED
  BY <1>7, <1>8, <1>9, <1>10, <1>11, <1>12, <1>13, <1>14, <1>15, <1>16, <1>17
     DEF IInv, OpInv

(* What is launched is in no accelerator's queue yet.                      *)
LEMMA RingGrows ==
    ASSUME TypeOK, OpInv, RingInv, NEW i \in Live, op[i].type = "KERNEL",
           ~(op[i].status \in {SUBMITTED, RUNNING}
               /\ op[i].exec \in {SUBMITTED, RUNNING}),
           LaunchKernel(i)
    PROVE  LET a == Command[op[i].cmd].accel IN
           /\ a \in Accels
           /\ ring' \in [Accels -> Seq(Ids)]
           /\ \A b \in Accels \ {a} : ring'[b] = ring[b]
           /\ ToSet(ring'[a]) = ToSet(ring[a]) \cup {i}
           /\ IsInjective(ring'[a])
<1> DEFINE c == Command[op[i].cmd]
           a == c.accel
           q == ring[a]
           T == Ids
<1>1. i \in T
  BY PositionsOf DEF Live, TypeOK
<1>2. a \in Accels
  <2>1. op[i].cmd \in Commands /\ c.kind = "kernel"
    BY DEF OpInv, ShapeOf
  <2>2. QED
    BY <2>1, SubmitAssumption DEF Launches
<1>3. q \in Seq(T) /\ IsInjective(q) /\ i \notin ToSet(q)
  BY <1>2 DEF TypeOK, RingInv
<1>4. ring' = [ring EXCEPT ![a] = Append(q, i)]
  BY DEF LaunchKernel
<1>5. ring \in [Accels -> Seq(T)]
  BY DEF TypeOK
<1> HIDE DEF q, T, a
<1>6. /\ Append(q, i) \in Seq(T)
      /\ ToSet(Append(q, i)) = ToSet(q) \cup {i}
      /\ IsInjective(Append(q, i))
  <2>1. Append(q, i) \in Seq(T) /\ Len(Append(q, i)) = Len(q) + 1
        /\ Append(q, i)[Len(q) + 1] = i
        /\ \A k \in 1..Len(q) : Append(q, i)[k] = q[k]
    BY <1>1, <1>3, AppendProperties
  <2>2. Len(q) \in Nat
    BY <1>3, LenProperties
  <2> DEFINE u == Append(q, i)
             n == Len(q)
  <2>3. /\ u \in Seq(T) /\ Len(u) = n + 1 /\ n \in Nat /\ u[n + 1] = i
        /\ \A k \in 1..n : u[k] = q[k]
        /\ \A k \in 1..n + 1 : k = n + 1 \/ k \in 1..n
    BY <2>1, <2>2
  <2> HIDE DEF u
  <2>4. \A x : x \in ToSet(u) <=> x \in ToSet(q) \cup {i}
    <3> TAKE x
    <3>1. ASSUME x \in ToSet(u) PROVE x \in ToSet(q) \cup {i}
      <4>1. PICK k \in 1..n + 1 : u[k] = x
        BY <2>3, <3>1, SetOf
      <4>2. CASE k = n + 1
        BY <2>3, <4>1, <4>2
      <4>3. CASE k \in 1..n
        BY <1>3, <2>3, <4>1, <4>3, SetOf
      <4>4. QED
        BY <2>3, <4>2, <4>3
    <3>2. ASSUME x \in ToSet(q) PROVE x \in ToSet(u)
      <4>1. PICK k \in 1..n : q[k] = x
        BY <1>3, <3>2, SetOf
      <4>2. k \in 1..n + 1 /\ u[k] = x
        BY <2>3, <4>1
      <4>3. QED
        BY <2>3, <4>2, SetOf
    <3>3. i \in ToSet(u)
      <4>1. n + 1 \in 1..n + 1 /\ u[n + 1] = i
        BY <2>3
      <4>2. QED
        BY <2>3, <4>1, SetOf
    <3>4. QED
      BY <3>1, <3>2, <3>3
  <2>5. \A j, k \in 1..n + 1 : u[j] = u[k] => j = k
    <3>1. /\ \A j, k \in 1..n : q[j] = q[k] => j = k
          /\ \A k \in 1..n : q[k] # i
      BY <1>3, PositionsOf
    <3>2. QED
      BY <2>3, <3>1
  <2>6. IsInjective(u)
    BY <2>3, <2>5, InjectiveIf
  <2>7. QED
    BY <2>3, <2>4, <2>6 DEF u
<1>7. /\ ring' \in [Accels -> Seq(T)]
      /\ \A b \in Accels \ {a} : ring'[b] = ring[b]
      /\ ring'[a] = Append(q, i)
  BY <1>2, <1>4, <1>5, <1>6
<1>8. QED
  BY <1>2, <1>6, <1>7, Zenon DEF q, T, a

(* Submitting an operation keeps the invariant. *)
LEMMA StartStep ==
    ASSUME IInv, NEW k \in 1..Length, Submits(k),
           At(k).status = QUEUED, ~(At(k).exec < 0), StartOp(committed[k])
    PROVE  IInv'
<1> DEFINE i == committed[k]
           c == op[i].cmd
<1>1. /\ TypeOK /\ ListInv /\ IdleInv /\ OpInv /\ GroupInv /\ EventInv
      /\ CompletedOnce /\ FailInv /\ CurrentInv /\ RingInv /\ ReprogInv
  BY DEF IInv
<1>2. /\ i \in Live /\ i \in Ids /\ At(k) = op[i] /\ Live \subseteq Ids
      /\ \A n \in 1..Length : /\ committed[n] \in Live
                              /\ committed[n] = i => n = k
  BY <1>1, ListFacts DEF At
<1>3. /\ op[i].status = QUEUED /\ op[i].exec = QUEUED /\ c \in Commands
      /\ op[i].printf = "none" /\ ShapeOf(i)
  BY <1>1, <1>2, OpFacts DEF OpInv, StateOf, ShapeOf
<1>4. First(k) /\ ~failed[c]
  <2>1. First(k)
    BY StartsFirst DEF Submits
  <2>2. QED
    BY <1>1, <1>2, <1>3, <2>1 DEF FailInv
<1>5. PICK ok \in {TRUE, ~op[i].mayFail} :
        /\ op' = [op EXCEPT ![i].status = SUBMITTED,
                            ![i].exec = ExecAfterCall(i, ok)]
        /\ status' = IF PostsSubmitted(i) THEN [status EXCEPT ![c] = SUBMITTED]
                                          ELSE status
        /\ current_op' = [current_op EXCEPT ![c] = i]
        /\ failed' = [failed EXCEPT ![c] = @ \/ ~ok]
        /\ IF op[i].type = "KERNEL" THEN LaunchKernel(i) ELSE UNCHANGED ring
        /\ at' = IF ok THEN PlacesAfter(i) ELSE at
        /\ loaded_bin' = IF ok THEN BinariesAfter(i) ELSE loaded_bin
        /\ UNCHANGED <<lists, last_op, posted, last_bin>>
  BY DEF StartOp
<1>6. ok \in BOOLEAN /\ (op[i].type = "KERNEL" => ok)
  BY <1>1, <1>2, <1>3, OpFacts DEF ShapeOf
<1> DEFINE ex == ExecAfterCall(i, ok)
<1>7. /\ ex \in {FAILED, COMPLETE, RUNNING, SUBMITTED}
      /\ ex = FAILED <=> ~ok
      /\ op[i].type = "KERNEL" => ex \in {RUNNING, SUBMITTED}
  <2>1. CASE ~ok
    <3>1. ex = FAILED
      BY <2>1 DEF ExecAfterCall
    <3> HIDE DEF ex
    <3>2. QED
      BY <1>6, <2>1, <3>1
  <2>2. CASE ok /\ op[i].type = "KERNEL"
    BY <2>2 DEF ExecAfterCall
  <2>3. CASE ok /\ op[i].type # "KERNEL" /\ Asynchronous(i)
    BY <2>3 DEF ExecAfterCall
  <2>4. CASE ok /\ op[i].type # "KERNEL" /\ ~Asynchronous(i)
    BY <2>4 DEF ExecAfterCall
  <2>5. QED
    BY <1>6, <2>1, <2>2, <2>3, <2>4
<1> HIDE DEF ex
<1>8. Changes(i, SUBMITTED, ex, "none")
  <2> DEFINE r == [op[i] EXCEPT !.status = SUBMITTED, !.exec = ex]
  <2>1. op' = [op EXCEPT ![i] = r]
    BY <1>1, <1>2, <1>5 DEF ex, TypeOK, OpType
  <2>2. /\ r \in OpType
        /\ r.cmd = op[i].cmd /\ r.type = op[i].type
        /\ r.affects = op[i].affects /\ r.mem = op[i].mem
        /\ r.noTransfer = op[i].noTransfer /\ r.mayFail = op[i].mayFail
        /\ r.group = op[i].group
        /\ r.first = op[i].first /\ r.last = op[i].last
        /\ r.status = SUBMITTED /\ r.exec = ex /\ r.printf = "none"
    <3>1. ex \in FAILED..QUEUED /\ SUBMITTED \in COMPLETE..QUEUED
      BY <1>7
    <3>2. op[i] \in OpType /\ op[i].printf = "none"
      BY <1>1, <1>2, <1>3, OpFacts
    <3>3. QED
      BY <3>1, <3>2 DEF OpType
  <2> HIDE DEF r
  <2>3. Changes(i, r.status, r.exec, r.printf)
    BY <1>1, <1>2, <1>5, <2>1, <2>2, Rewritten
  <2>4. QED
    BY <2>2, <2>3
<1>9. Progress /\ \A j \in Live \ {i} : op'[j] = op[j]
  BY <1>1, <1>2, <1>8, ChangesIsProgress
<1>10. /\ Live' = Live
       /\ op'[i].status = SUBMITTED /\ op'[i].exec = ex /\ op'[i].printf = "none"
       /\ \A j \in Live : /\ j # i => op'[j] = op[j]
                          /\ op'[j].cmd = op[j].cmd /\ op'[j].type = op[j].type
                          /\ op'[j].first = op[j].first
  BY <1>1, <1>2, <1>8, <1>9, ProgressFacts, SMTT(40)
  DEF Changes, Progress, Fixed
<1>11. /\ \A b \in Commands \ {c} : /\ status'[b] = status[b]
                                    /\ failed'[b] = failed[b]
                                    /\ current_op'[b] = current_op[b]
       /\ status'[c] \in {SUBMITTED, status[c]} /\ status' \in [Commands -> FAILED..QUEUED]
       /\ (failed'[c] <=> ~ok) /\ failed' \in [Commands -> BOOLEAN]
       /\ current_op'[c] = i /\ current_op' \in [Commands -> Ids \cup {None}]
       /\ last_op' = last_op /\ posted' = posted
  <2>1. /\ status \in [Commands -> FAILED..QUEUED]
        /\ failed \in [Commands -> BOOLEAN]
        /\ current_op \in [Commands -> Ids \cup {None}]
    BY <1>1 DEF TypeOK
  <2>2. /\ \A b \in Commands \ {c} : status'[b] = status[b]
        /\ status'[c] \in {SUBMITTED, status[c]}
        /\ status' \in [Commands -> FAILED..QUEUED]
    <3>1. CASE PostsSubmitted(i)
      BY <1>3, <1>5, <2>1, <3>1
    <3>2. CASE ~PostsSubmitted(i)
      BY <1>3, <1>5, <2>1, <3>2
    <3>3. QED
      BY <3>1, <3>2
  <2>3. /\ \A b \in Commands \ {c} : failed'[b] = failed[b]
        /\ (failed'[c] <=> ~ok) /\ failed' \in [Commands -> BOOLEAN]
    <3>1. failed' = [failed EXCEPT ![c] = failed[c] \/ ~ok]
      BY <1>5
    <3>2. failed'[c] = (failed[c] \/ ~ok) /\ (failed[c] \/ ~ok) \in BOOLEAN
      BY <1>3, <2>1, <3>1
    <3>3. QED
      BY <1>3, <1>4, <1>6, <2>1, <3>1, <3>2
  <2>4. /\ \A b \in Commands \ {c} : current_op'[b] = current_op[b]
        /\ current_op'[c] = i /\ current_op' \in [Commands -> Ids \cup {None}]
    BY <1>2, <1>3, <1>5, <2>1
  <2>5. QED
    BY <1>5, <2>2, <2>3, <2>4
<1>12. \A j \in Live : j # i /\ op[j].cmd = c => op[j].status = QUEUED
  BY <1>1, <1>2, <1>4, GroupFacts
<1>13. status[c] > COMPLETE /\ last_op[c] # None /\ status'[c] > COMPLETE
  <2>1. status[c] > COMPLETE
    BY <1>1, <1>2, <1>3 DEF EventInv
  <2>2. last_op[c] \in Ids
    BY <1>1, <1>2 DEF GroupInv
  <2>3. QED
    BY <1>11, <2>1, <2>2, NoneAssumption
<1>14. /\ ring' \in [Accels -> Seq(Ids)]
       /\ RingInv'
  <2>1. CASE op[i].type = "KERNEL"
    <3> DEFINE a == Command[c].accel
    <3>1. /\ a \in Accels
          /\ ring' \in [Accels -> Seq(Ids)]
          /\ \A b \in Accels \ {a} : ring'[b] = ring[b]
          /\ ToSet(ring'[a]) = ToSet(ring[a]) \cup {i}
          /\ IsInjective(ring'[a])
      <4>1. LaunchKernel(i)
        BY <1>5, <2>1
      <4>2. ~(op[i].status \in {SUBMITTED, RUNNING}
                /\ op[i].exec \in {SUBMITTED, RUNNING})
        BY <1>3
      <4>3. QED
        BY <1>1, <1>2, <2>1, <4>1, <4>2, RingGrows
    <3>2. ASSUME NEW b \in Accels, NEW j \in ToSet(ring'[b])
          PROVE  (j = i /\ b = a) \/ (j # i /\ j \in ToSet(ring[b]))
      <4>1. \A d \in Accels : \A l \in ToSet(ring[d]) : l # i
        BY <1>1, <1>3 DEF RingInv
      <4>2. CASE b = a
        <5>1. j \in ToSet(ring[a]) \cup {i}
          BY <3>1, <4>2, ZenonT(60)
        <5>2. j \in ToSet(ring[a]) => j # i
          BY <3>1, <4>1, ZenonT(60)
        <5>3. QED
          BY <4>2, <5>1, <5>2
      <4>3. CASE b # a
        BY <3>1, <4>1, <4>3, ZenonT(60)
      <4>4. QED
        BY <4>2, <4>3
    <3>3. ASSUME NEW b \in Accels PROVE IsInjective(ring'[b])
      BY <1>1, <3>1, Zenon DEF RingInv
    <3>4. ASSUME NEW b \in Accels, NEW j \in ToSet(ring'[b])
          PROVE  /\ j \in Live /\ op'[j].type = "KERNEL"
                 /\ Command[op'[j].cmd].accel = b
                 /\ op'[j].status \in {SUBMITTED, RUNNING}
                 /\ op'[j].exec \in {SUBMITTED, RUNNING}
      <4>1. CASE j = i /\ b = a
        BY <1>2, <1>7, <1>10, <2>1, <4>1
      <4>2. CASE j # i /\ j \in ToSet(ring[b])
        BY <1>1, <1>10, <4>2 DEF RingInv
      <4>3. QED
        BY <3>2, <4>1, <4>2
    <3>5. QED
      BY <1>10, <3>1, <3>3, <3>4, ZenonT(60) DEF RingInv
  <2>2. CASE op[i].type # "KERNEL"
    <3>1. ring' = ring
      BY <1>5, <2>2
    <3>2. \A b \in Accels : \A j \in ToSet(ring[b]) : j # i
      BY <1>1, <2>2 DEF RingInv
    <3>3. ring' \in [Accels -> Seq(Ids)]
      BY <1>1, <3>1 DEF TypeOK
    <3>4. ASSUME NEW b \in Accels
          PROVE  /\ IsInjective(ring'[b])
                 /\ \A j \in ToSet(ring'[b]) :
                      /\ j \in Live /\ op[j].type = "KERNEL" /\ j # i
                      /\ Command[op[j].cmd].accel = b
                      /\ op[j].status \in {SUBMITTED, RUNNING}
                      /\ op[j].exec \in {SUBMITTED, RUNNING}
      BY <1>1, <3>1, <3>2 DEF RingInv
    <3>5. RingInv'
      BY <1>10, <3>4 DEF RingInv
    <3>6. QED
      BY <3>3, <3>5
  <2>3. QED
    BY <2>1, <2>2, Zenon
<1>15. at' \in [Buffers -> Places] /\ loaded_bin' \in [Devices -> Binaries \cup {None}]
  <2>1. Command[c] \in CommandType
    BY <1>3, CommandAssumption
  <2>2. Command[c].device \in Devices /\ Command[c].bin \in Binaries \cup {None}
    BY <2>1, SMTT(40) DEF CommandType
  <2>3. at' \in [Buffers -> Places]
    BY <1>1, <1>5, <2>2 DEF TypeOK, PlacesAfter, Places
  <2>4. loaded_bin' \in [Devices -> Binaries \cup {None}]
    BY <1>1, <1>5, <2>2 DEF TypeOK, BinariesAfter
  <2>5. QED
    BY <2>3, <2>4
<1>16. TypeOK'
  <2>1. /\ committed' = committed /\ free' = free /\ last_bin' = last_bin
        /\ pc' = "status" /\ cursor' = 1 /\ num_updates' = TRUE /\ caller' = caller
    BY <1>5 DEF Submits, lists
  <2>2. op' \in [Ids -> OpType]
    BY <1>9 DEF Progress
  <2>3. QED
    BY <1>1, <1>11, <1>14, <1>15, <2>1, <2>2, SizeAssumption DEF TypeOK
<1>17. ListInv' /\ IdleInv' /\ (\A j \in Live : ShapeOf(j)') /\ GroupInv'
  <2>1. \A n \in 1..Length : op'[committed[n]].status # At(n).status => First(n)
    BY <1>2, <1>4, <1>10 DEF At
  <2>2. QED
    BY <1>1, <1>9, <1>11, <2>1, ProgressKeeps
<1>18. \A j \in Live : StateOf(j)'
  <2>1. ASSUME NEW j \in Live, j = i PROVE StateOf(j)'
    <3>1. /\ op'[j].status = SUBMITTED /\ op'[j].exec = ex
          /\ op'[j].printf = "none" /\ ex <= SUBMITTED
      BY <1>7, <1>10, <2>1
    <3>2. QED
      BY <3>1 DEF StateOf
  <2>2. ASSUME NEW j \in Live, j # i PROVE StateOf(j)'
    BY <1>1, <1>10, <2>2 DEF OpInv, StateOf
  <2>3. QED
    BY <2>1, <2>2
<1>19. EventInv'
  <2>1. ASSUME NEW j \in Live, op'[j].status # COMPLETE
        PROVE  status'[op'[j].cmd] > COMPLETE
    <3>1. op[j].cmd \in Commands /\ op'[j].cmd = op[j].cmd
      BY <1>1, <1>10 DEF OpInv, ShapeOf
    <3>2. CASE op[j].cmd = c
      BY <1>13, <3>1, <3>2
    <3>3. CASE op[j].cmd # c
      BY <1>1, <1>10, <1>11, <2>1, <3>1, <3>3 DEF EventInv
    <3>4. QED
      BY <3>2, <3>3
  <2>2. ASSUME NEW b \in Commands, last_op'[b] = None
        PROVE  /\ status'[b] = QUEUED \/ status'[b] <= COMPLETE
               /\ status'[b] = QUEUED => ~failed'[b]
    BY <1>1, <1>11, <1>13, <2>2 DEF EventInv
  <2>3. caller' # None => status'[caller'] = QUEUED /\ last_op'[caller'] = None
    <3>1. caller' = caller /\ caller \in Commands \cup {None}
      BY <1>1 DEF Submits, TypeOK
    <3>2. QED
      BY <1>1, <1>11, <1>13, <3>1 DEF EventInv
  <2>4. pc' # "idle"
    BY DEF Submits
  <2>5. QED
    BY <1>10, <2>1, <2>2, <2>3, <2>4 DEF EventInv
<1>20. CompletedOnce'
  <2>1. ASSUME NEW b \in Commands
        PROVE  /\ posted'[b] = IF status'[b] <= COMPLETE THEN 1 ELSE 0
               /\ status'[b] <= COMPLETE => (status'[b] = FAILED <=> failed'[b])
    <3>1. CASE b = c
      <4>1. ~(status[c] <= COMPLETE) /\ ~(status'[c] <= COMPLETE)
        <5>1. /\ status[c] \in FAILED..QUEUED /\ status'[c] \in FAILED..QUEUED
              /\ status[c] > COMPLETE /\ status'[c] > COMPLETE
          BY <1>1, <1>3, <1>11, <1>13 DEF TypeOK
        <5>2. QED
          BY <5>1
      <4>2. QED
        BY <1>1, <1>11, <3>1, <4>1 DEF CompletedOnce
    <3>2. CASE b # c
      BY <1>1, <1>11, <3>2 DEF CompletedOnce
    <3>3. QED
      BY <3>1, <3>2
  <2>2. QED
    BY <2>1 DEF CompletedOnce
<1>21. FailInv'
  <2>1. ASSUME NEW n \in 1..Length
        PROVE  /\ At(n)'.exec = FAILED => failed'[At(n)'.cmd] /\ First(n)'
               /\ First(n)' /\ failed'[At(n)'.cmd] => At(n)'.exec = FAILED
    <3>1. /\ At(n)' = op'[committed[n]] /\ (First(n)' <=> First(n))
          /\ op'[committed[n]].cmd = At(n).cmd /\ At(n).cmd \in Commands
      BY <1>1, <1>2, <1>9, <1>10, ProgressFacts DEF At, OpInv, ShapeOf
    <3>2. CASE n = k
      BY <1>2, <1>4, <1>7, <1>10, <1>11, <3>1, <3>2
    <3>3. CASE n # k
      <4>1. op'[committed[n]] = At(n)
        BY <1>2, <1>10, <3>3 DEF At
      <4>2. CASE At(n).cmd # c
        BY <1>1, <1>11, <3>1, <4>1, <4>2 DEF FailInv
      <4>3. CASE At(n).cmd = c
        <5>1. Same(k, n)
          BY <1>1, <1>2, <4>3, GroupFacts DEF Same, At
        <5>2. ~(n < k)
          <6>1. n < k => n \in 1..k - 1 /\ Same(n, k)
            BY <1>1, <5>1, ListFacts DEF Same
          <6>2. QED
            BY <1>4, <6>1 DEF First
        <5>3. k \in 1..n - 1
          BY <1>1, <3>3, <5>2, ListFacts
        <5>4. ~First(n)
          BY <5>1, <5>3 DEF First
        <5>5. At(n).exec # FAILED
          BY <1>1, <5>4 DEF FailInv
        <5>6. QED
          BY <3>1, <4>1, <5>4, <5>5
      <4>4. QED
        BY <4>2, <4>3
    <3>4. QED
      BY <3>2, <3>3
  <2>2. Length' = Length
    BY <1>1, <1>9, ProgressFacts
  <2>3. QED
    BY <2>1, <2>2 DEF FailInv
<1>22. CurrentInv'
  <2>1. ASSUME NEW j \in Live, op'[j].status \in {SUBMITTED, RUNNING},
               op'[j].exec # FAILED
        PROVE  current_op'[op'[j].cmd] = j
    <3>1. CASE j = i
      BY <1>10, <1>11, <3>1
    <3>2. CASE j # i
      <4>1. op[j].cmd # c /\ op[j].cmd \in Commands /\ op'[j] = op[j]
        BY <1>1, <1>10, <1>12, <2>1, <3>2 DEF OpInv, ShapeOf
      <4>2. QED
        BY <1>1, <1>11, <2>1, <4>1 DEF CurrentInv
    <3>3. QED
      BY <3>1, <3>2
  <2>2. QED
    BY <1>10, <2>1 DEF CurrentInv
<1>23. PruneInv' /\ QuietInv'
  BY DEF PruneInv, QuietInv, Quiet, Submits
<1>24. ReprogInv'
  <2>1. ASSUME NEW n \in 1..Length
        PROVE  /\ At(n).status = COMPLETE => op'[committed[n]].status = COMPLETE
               /\ /\ At(n).type = "KERNEL" /\ At(n).status = QUEUED
                  /\ op'[committed[n]].status # QUEUED
                  => Clear(n)
    <3>1. CASE n = k
      BY <1>2, <3>1, KernelIsClear DEF Submits
    <3>2. CASE n # k
      BY <1>2, <1>10, <3>2 DEF At
    <3>3. QED
      BY <3>1, <3>2
  <2>2. QED
    BY <1>1, <1>9, <2>1, ProgressKeepsReprog
<1>25. QED
  BY <1>10, <1>14, <1>16, <1>17, <1>18, <1>19, <1>20, <1>21, <1>22, <1>23, <1>24
     DEF IInv, OpInv

----------------------------------------------------------------------------
(* What the status pass takes over of the operation its cursor is at.      *)
Takes(k) ==
    /\ pc = "status" /\ pc' = "status" /\ cursor = k /\ cursor' = k + 1
    /\ UNCHANGED <<lists, caller, at, bins>>

(* The one operation of the command of a started one that is not QUEUED.   *)
LEMMA StartedAlone ==
    ASSUME IInv, NEW k \in 1..Length, At(k).status # QUEUED
    PROVE  /\ First(k)
           /\ \A n \in 1..Length : n # k /\ At(n).cmd = At(k).cmd =>
                /\ At(n).status = QUEUED /\ Same(k, n) /\ k < n /\ ~First(n)
                /\ ~At(k).last
<1>1. TypeOK /\ ListInv /\ OpInv /\ GroupInv
  BY DEF IInv
<1>2. First(k)
  BY <1>1, GroupFacts
<1>3. ASSUME NEW n \in 1..Length, n # k, At(n).cmd = At(k).cmd
      PROVE  /\ At(n).status = QUEUED /\ Same(k, n) /\ k < n /\ ~First(n)
             /\ ~At(k).last
  <2>1. Same(k, n) /\ Same(n, k)
    BY <1>1, <1>3, ListFacts, GroupFacts DEF Same, At
  <2>2. ~(n < k)
    <3>1. n < k => n \in 1..k - 1
      BY <1>1, ListFacts
    <3>2. QED
      BY <1>2, <2>1, <3>1 DEF First
  <2>3. k < n /\ k \in 1..n - 1
    BY <1>1, <1>3, <2>2, ListFacts
  <2>4. QED
    BY <1>1, <2>1, <2>3 DEF GroupInv, First
<1>4. QED
  BY <1>2, <1>3

(* Copying RUNNING out of the execution status keeps the invariant. *)
LEMMA TakeRunningStep ==
    ASSUME IInv, NEW k \in 1..Length, Takes(k), TakeRunning(committed[k])
    PROVE  IInv'
<1>a. PICK i : i = committed[k]
  OBVIOUS
<1>1. /\ TypeOK /\ ListInv /\ IdleInv /\ OpInv /\ GroupInv /\ EventInv
      /\ CompletedOnce /\ FailInv /\ CurrentInv /\ RingInv /\ ReprogInv
  BY DEF IInv
<1> DEFINE c == op[i].cmd
<1>2. /\ i \in Live /\ i \in Ids /\ At(k) = op[i] /\ Live \subseteq Ids
      /\ \A n \in 1..Length : /\ committed[n] \in Live
                              /\ committed[n] = i => n = k
  BY <1>a, <1>1, ListFacts DEF At
<1>3. /\ op[i].status = SUBMITTED /\ op[i].exec <= RUNNING
      /\ op' = [op EXCEPT ![i].status = RUNNING]
      /\ status' = IF PostsRunning(i)
                   THEN [status EXCEPT ![c] = RUNNING] ELSE status
      /\ num_updates' = TRUE
      /\ UNCHANGED <<last_op, current_op, posted, failed, ring>>
      /\ UNCHANGED lists
  BY <1>a DEF TakeRunning, Takes
<1>4. First(k)
  BY <1>2, <1>3, StartedAlone
<1>5. Changes(i, RUNNING, op[i].exec, op[i].printf)
  <2> DEFINE r == [op[i] EXCEPT !.status = RUNNING]
  <2>1. op' = [op EXCEPT ![i] = r]
    BY <1>3
  <2>2. /\ r \in OpType
        /\ r.cmd = op[i].cmd /\ r.type = op[i].type
        /\ r.affects = op[i].affects /\ r.mem = op[i].mem
        /\ r.noTransfer = op[i].noTransfer /\ r.mayFail = op[i].mayFail
        /\ r.group = op[i].group
        /\ r.first = op[i].first /\ r.last = op[i].last
        /\ r.status = RUNNING /\ r.exec = op[i].exec /\ r.printf = op[i].printf
    BY <1>1, <1>2, OpFacts DEF OpType
  <2> HIDE DEF r
  <2>3. Changes(i, r.status, r.exec, r.printf)
    BY <1>1, <1>2, <1>3, <2>1, <2>2, Rewritten
  <2>4. QED
    BY <2>2, <2>3
<1>6. Progress /\ \A j \in Live \ {i} : op'[j] = op[j]
  BY <1>1, <1>2, <1>5, ChangesIsProgress
<1>7. /\ Live' = Live
      /\ \A j \in Live : /\ op'[j].status = IF j = i THEN RUNNING ELSE op[j].status
                         /\ op'[j].exec = op[j].exec
                         /\ op'[j].printf = op[j].printf
                         /\ op'[j].cmd = op[j].cmd /\ op'[j].type = op[j].type
                         /\ op'[j].first = op[j].first
  BY <1>1, <1>2, <1>5, <1>6, ProgressFacts DEF Changes, Progress, Fixed
<1>8. /\ c \in Commands /\ last_op[c] # None /\ status[c] > COMPLETE
      /\ status' \in [Commands -> FAILED..QUEUED] /\ status'[c] > COMPLETE
      /\ \A b \in Commands \ {c} : status'[b] = status[b]
  <2>1. c \in Commands /\ last_op[c] \in Ids /\ status[c] > COMPLETE
    BY <1>1, <1>2, <1>3 DEF OpInv, ShapeOf, GroupInv, EventInv
  <2>2. status \in [Commands -> FAILED..QUEUED]
    BY <1>1 DEF TypeOK
  <2>3. CASE PostsRunning(i)
    BY <1>3, <2>1, <2>2, <2>3, NoneAssumption
  <2>4. CASE ~PostsRunning(i)
    BY <1>3, <2>1, <2>2, <2>4, NoneAssumption
  <2>5. QED
    BY <2>3, <2>4
<1>9. TypeOK'
  <2>1. /\ committed' = committed /\ free' = free /\ last_bin' = last_bin
        /\ loaded_bin' = loaded_bin /\ at' = at
        /\ pc' = "status" /\ num_updates' = TRUE /\ caller' = caller
        /\ op' \in [Ids -> OpType] /\ cursor' = k + 1
    BY <1>3, <1>6 DEF Takes, lists, bins, Progress
  <2>2. k + 1 \in 1..MaxOps + 1
    BY RecycledByInv, <1>1, ListFacts, SizeAssumption DEF SlotsRecycled, Length
  <2>3. QED
    BY <1>1, <1>3, <1>8, <2>1, <2>2 DEF TypeOK
<1>10. ListInv' /\ IdleInv' /\ (\A j \in Live : ShapeOf(j)') /\ GroupInv'
  <2>1. \A n \in 1..Length : op'[committed[n]].status # At(n).status => First(n)
    BY <1>2, <1>4, <1>7 DEF At
  <2>2. QED
    BY <1>1, <1>3, <1>6, <2>1, ProgressKeeps
<1>11. \A j \in Live : StateOf(j)'
  BY <1>1, <1>2, <1>3, <1>7 DEF OpInv, StateOf
<1>12. EventInv'
  <2>1. ASSUME NEW j \in Live, op'[j].status # COMPLETE
        PROVE  status'[op'[j].cmd] > COMPLETE
    <3>1. op[j].cmd \in Commands /\ op'[j].cmd = op[j].cmd
      BY <1>1, <1>7 DEF OpInv, ShapeOf
    <3>2. CASE op[j].cmd = c
      BY <1>8, <3>1, <3>2
    <3>3. CASE op[j].cmd # c
      BY <1>1, <1>7, <1>8, <2>1, <3>1, <3>3 DEF EventInv
    <3>4. QED
      BY <3>2, <3>3
  <2>2. ASSUME NEW b \in Commands, last_op'[b] = None
        PROVE  /\ status'[b] = QUEUED \/ status'[b] <= COMPLETE
               /\ status'[b] = QUEUED => ~failed'[b]
    BY <1>1, <1>3, <1>8, <2>2 DEF EventInv
  <2>3. caller' # None => status'[caller'] = QUEUED /\ last_op'[caller'] = None
    <3>1. caller' = caller /\ caller \in Commands \cup {None}
      BY <1>1 DEF Takes, TypeOK
    <3>2. QED
      BY <1>1, <1>3, <1>8, <3>1 DEF EventInv
  <2>4. pc' # "idle"
    BY DEF Takes
  <2>5. QED
    BY <1>7, <2>1, <2>2, <2>3, <2>4 DEF EventInv
<1>13. CompletedOnce'
  <2>1. ASSUME NEW b \in Commands
        PROVE  /\ posted'[b] = IF status'[b] <= COMPLETE THEN 1 ELSE 0
               /\ status'[b] <= COMPLETE => (status'[b] = FAILED <=> failed'[b])
    <3>1. CASE b = c
      <4>1. /\ status[c] \in FAILED..QUEUED /\ status'[c] \in FAILED..QUEUED
            /\ status[c] > COMPLETE /\ status'[c] > COMPLETE
        BY <1>1, <1>8 DEF TypeOK
      <4>2. ~(status[c] <= COMPLETE) /\ ~(status'[c] <= COMPLETE)
        BY <4>1
      <4>3. QED
        BY <1>1, <1>3, <3>1, <4>2 DEF CompletedOnce
    <3>2. CASE b # c
      BY <1>1, <1>3, <1>8, <3>2 DEF CompletedOnce
    <3>3. QED
      BY <3>1, <3>2
  <2>2. QED
    BY <2>1 DEF CompletedOnce
<1>14. FailInv'
  BY <1>1, <1>2, <1>3, <1>6, <1>7, ProgressKeepsFail DEF At
<1>15. CurrentInv'
  BY <1>1, <1>3, <1>7 DEF CurrentInv
<1>16. RingInv'
  BY <1>1, <1>2, <1>3, <1>7 DEF RingInv
<1>17. PruneInv' /\ QuietInv'
  BY <1>3 DEF PruneInv, QuietInv, Quiet, Takes
<1>18. ReprogInv'
  BY <1>1, <1>2, <1>3, <1>6, <1>7, ProgressKeepsReprog DEF At
<1>19. QED
  BY <1>7, <1>9, <1>10, <1>11, <1>12, <1>13, <1>14, <1>15, <1>16, <1>17, <1>18
     DEF IInv, OpInv

(* Copying COMPLETE or an error out of it, and telling the event, keeps    *)
(* the invariant.                                                          *)
LEMMA TakeCompleteStep ==
    ASSUME IInv, NEW k \in 1..Length, Takes(k), TakeComplete(committed[k])
    PROVE  IInv'
<1>a. PICK i : i = committed[k]
  OBVIOUS
<1>1. /\ TypeOK /\ ListInv /\ IdleInv /\ OpInv /\ GroupInv /\ EventInv
      /\ CompletedOnce /\ FailInv /\ CurrentInv /\ RingInv /\ ReprogInv
  BY DEF IInv
<1>b. PICK c : c = op[i].cmd
  OBVIOUS
<1>2. /\ i \in Live /\ i \in Ids /\ At(k) = op[i] /\ Live \subseteq Ids
      /\ \A n \in 1..Length : /\ committed[n] \in Live
                              /\ committed[n] = i => n = k
      /\ \A j \in Live : \E n \in 1..Length : committed[n] = j
  BY <1>a, <1>1, ListFacts DEF At
<1>3. /\ op[i].status = RUNNING /\ op[i].exec <= COMPLETE
      /\ op' = [op EXCEPT ![i].status = COMPLETE]
      /\ status' = IF PostsCompletion(i) THEN [status EXCEPT ![c] = op[i].exec]
                                         ELSE status
      /\ posted' = IF PostsCompletion(i) THEN [posted EXCEPT ![c] = posted[c] + 1]
                                         ELSE posted
      /\ current_op' = [current_op EXCEPT ![c] = None]
      /\ num_updates' = TRUE
      /\ UNCHANGED <<last_op, failed, ring>>
      /\ UNCHANGED lists
  BY <1>a, <1>b DEF TakeComplete, Takes
<1>4. /\ First(k)
      /\ \A j \in Live : j # i /\ op[j].cmd = c =>
           op[j].status = QUEUED /\ ~op[i].last
  BY <1>b, <1>2, <1>3, StartedAlone DEF At
<1>5. Changes(i, COMPLETE, op[i].exec, op[i].printf)
  <2> DEFINE r == [op[i] EXCEPT !.status = COMPLETE]
  <2>1. op' = [op EXCEPT ![i] = r]
    BY <1>3
  <2>2. /\ r \in OpType
        /\ r.cmd = op[i].cmd /\ r.type = op[i].type
        /\ r.affects = op[i].affects /\ r.mem = op[i].mem
        /\ r.noTransfer = op[i].noTransfer /\ r.mayFail = op[i].mayFail
        /\ r.group = op[i].group
        /\ r.first = op[i].first /\ r.last = op[i].last
        /\ r.status = COMPLETE /\ r.exec = op[i].exec /\ r.printf = op[i].printf
    BY <1>1, <1>2, OpFacts DEF OpType
  <2> HIDE DEF r
  <2>3. Changes(i, r.status, r.exec, r.printf)
    BY <1>1, <1>2, <1>3, <2>1, <2>2, Rewritten
  <2>4. QED
    BY <2>2, <2>3
<1>6. Progress /\ \A j \in Live \ {i} : op'[j] = op[j]
  BY <1>1, <1>2, <1>5, ChangesIsProgress
<1>7. /\ Live' = Live
      /\ \A j \in Live : /\ op'[j].status = IF j = i THEN COMPLETE ELSE op[j].status
                         /\ op'[j].exec = op[j].exec
                         /\ op'[j].printf = op[j].printf
                         /\ op'[j].cmd = op[j].cmd /\ op'[j].type = op[j].type
                         /\ op'[j].first = op[j].first
  BY <1>1, <1>2, <1>5, <1>6, ProgressFacts DEF Changes, Progress, Fixed
<1>8. /\ c \in Commands /\ last_op[c] # None /\ status[c] > COMPLETE
      /\ op[i].exec \in {FAILED, COMPLETE}
      /\ op[i].exec = FAILED <=> failed[c]
      /\ posted[c] = 0
  <2>1. c \in Commands /\ last_op[c] \in Ids /\ status[c] > COMPLETE
    BY <1>b, <1>1, <1>2, <1>3 DEF OpInv, ShapeOf, GroupInv, EventInv
  <2>2. op[i].exec \in {FAILED, COMPLETE}
    BY <1>1, <1>2, <1>3, OpFacts
  <2>3. op[i].exec = FAILED <=> failed[c]
    BY <1>b, <1>1, <1>2, <1>4 DEF FailInv
  <2>4. posted[c] = 0
    <3>1. status[c] \in FAILED..QUEUED
      BY <1>1, <2>1 DEF TypeOK
    <3>2. ~(status[c] <= COMPLETE)
      BY <2>1, <3>1
    <3>3. QED
      BY <1>1, <2>1, <3>2 DEF CompletedOnce
  <2>5. QED
    BY <2>1, <2>2, <2>3, <2>4, NoneAssumption
<1>9. /\ status' \in [Commands -> FAILED..QUEUED]
      /\ posted' \in [Commands -> Nat]
      /\ current_op' \in [Commands -> Ids \cup {None}]
      /\ \A b \in Commands \ {c} : /\ status'[b] = status[b]
                                   /\ posted'[b] = posted[b]
                                   /\ current_op'[b] = current_op[b]
      /\ op[i].last => status'[c] = op[i].exec /\ posted'[c] = 1
      /\ ~op[i].last => status'[c] = status[c] /\ posted'[c] = 0
  <2>1. /\ status \in [Commands -> FAILED..QUEUED]
        /\ posted \in [Commands -> Nat]
        /\ current_op \in [Commands -> Ids \cup {None}]
    BY <1>1 DEF TypeOK
  <2>2. CASE op[i].last
    BY <1>3, <1>8, <2>1, <2>2 DEF PostsCompletion
  <2>3. CASE ~op[i].last
    BY <1>3, <1>8, <2>1, <2>3 DEF PostsCompletion
  <2>4. QED
    BY <2>2, <2>3
<1>10. TypeOK'
  <2>1. /\ committed' = committed /\ free' = free /\ last_bin' = last_bin
        /\ loaded_bin' = loaded_bin /\ at' = at
        /\ pc' = "status" /\ num_updates' = TRUE /\ caller' = caller
        /\ op' \in [Ids -> OpType] /\ cursor' = k + 1
    BY <1>3, <1>6 DEF Takes, lists, bins, Progress
  <2>2. k + 1 \in 1..MaxOps + 1
    BY RecycledByInv, <1>1, ListFacts, SizeAssumption DEF SlotsRecycled, Length
  <2>3. QED
    BY <1>1, <1>3, <1>9, <2>1, <2>2 DEF TypeOK
<1>11. ListInv' /\ IdleInv' /\ (\A j \in Live : ShapeOf(j)') /\ GroupInv'
  <2>1. \A n \in 1..Length : op'[committed[n]].status # At(n).status => First(n)
    BY <1>2, <1>4, <1>7 DEF At
  <2>2. QED
    BY <1>1, <1>3, <1>6, <2>1, ProgressKeeps
<1>12. \A j \in Live : StateOf(j)'
  BY <1>1, <1>2, <1>3, <1>7 DEF OpInv, StateOf
<1>13. EventInv'
  <2>1. ASSUME NEW j \in Live, op'[j].status # COMPLETE
        PROVE  status'[op'[j].cmd] > COMPLETE
    <3>1. op[j].cmd \in Commands /\ op'[j].cmd = op[j].cmd /\ j # i
          /\ op[j].status # COMPLETE
      BY <1>1, <1>7, <2>1 DEF OpInv, ShapeOf
    <3>2. CASE op[j].cmd = c
      BY <1>4, <1>8, <1>9, <3>1, <3>2
    <3>3. CASE op[j].cmd # c
      BY <1>1, <1>9, <3>1, <3>3 DEF EventInv
    <3>4. QED
      BY <3>2, <3>3
  <2>2. ASSUME NEW b \in Commands, last_op'[b] = None
        PROVE  /\ status'[b] = QUEUED \/ status'[b] <= COMPLETE
               /\ status'[b] = QUEUED => ~failed'[b]
    BY <1>1, <1>3, <1>8, <1>9, <2>2 DEF EventInv
  <2>3. caller' # None => status'[caller'] = QUEUED /\ last_op'[caller'] = None
    <3>1. caller' = caller /\ caller \in Commands \cup {None}
      BY <1>1 DEF Takes, TypeOK
    <3>2. QED
      BY <1>1, <1>3, <1>8, <1>9, <3>1 DEF EventInv
  <2>4. pc' # "idle"
    BY DEF Takes
  <2>5. QED
    BY <1>7, <2>1, <2>2, <2>3, <2>4 DEF EventInv
<1>14. CompletedOnce'
  <2>1. ASSUME NEW b \in Commands
        PROVE  /\ posted'[b] = IF status'[b] <= COMPLETE THEN 1 ELSE 0
               /\ status'[b] <= COMPLETE => (status'[b] = FAILED <=> failed'[b])
    <3>1. CASE b = c /\ op[i].last
      BY <1>3, <1>8, <1>9, <3>1
    <3>2. CASE b = c /\ ~op[i].last
      BY <1>1, <1>3, <1>8, <1>9, <3>2 DEF CompletedOnce
    <3>3. CASE b # c
      BY <1>1, <1>3, <1>9, <3>3 DEF CompletedOnce
    <3>4. QED
      BY <3>1, <3>2, <3>3
  <2>2. QED
    BY <2>1 DEF CompletedOnce
<1>15. FailInv'
  BY <1>1, <1>2, <1>3, <1>6, <1>7, ProgressKeepsFail DEF At
<1>16. CurrentInv'
  <2>1. ASSUME NEW j \in Live, op'[j].status \in {SUBMITTED, RUNNING},
               op'[j].exec # FAILED
        PROVE  current_op'[op'[j].cmd] = j
    <3>1. j # i /\ op[j].status \in {SUBMITTED, RUNNING} /\ op[j].exec # FAILED
      BY <1>7, <2>1
    <3>2. op[j].cmd # c /\ op[j].cmd \in Commands /\ op'[j].cmd = op[j].cmd
      BY <1>1, <1>4, <1>7, <3>1 DEF OpInv, ShapeOf
    <3>3. QED
      BY <1>1, <1>9, <3>1, <3>2 DEF CurrentInv
  <2>2. QED
    BY <1>7, <2>1 DEF CurrentInv
<1>17. RingInv'
  <2>1. \A a \in Accels : \A j \in ToSet(ring[a]) : j # i
    BY <1>1, <1>3 DEF RingInv
  <2>2. QED
    BY <1>1, <1>3, <1>7, <2>1 DEF RingInv
<1>18. PruneInv' /\ QuietInv'
  BY <1>3 DEF PruneInv, QuietInv, Quiet, Takes
<1>19. ReprogInv'
  BY <1>1, <1>2, <1>3, <1>6, <1>7, ProgressKeepsReprog DEF At
<1>20. QED
  BY <1>7, <1>10, <1>11, <1>12, <1>13, <1>14, <1>15, <1>16, <1>17, <1>18, <1>19
     DEF IInv, OpInv

----------------------------------------------------------------------------
(* What the device does: it writes the execution status of an operation    *)
(* and how much text is pending, and no status that the scheduler decides  *)
(* by.                                                                     *)
LEMMA QuietKept ==
    ASSUME TypeOK, ListInv, OpInv, QuietInv, Progress, at' = at,
           Quiet' => Quiet,
           \A i \in Live : op'[i].status = op[i].status,
           \A i \in Live :
             op[i].type # "KERNEL" \/ op[i].status \in {QUEUED, COMPLETE}
               => op'[i].printf = op[i].printf
    PROVE  QuietInv'
<1> SUFFICES ASSUME Quiet, NEW k \in 1..Length,
                    At(k)'.status \in {QUEUED, COMPLETE}
             PROVE  ~CanSubmit(k)'
  BY ProgressFacts DEF QuietInv
<1>1. committed[k] \in Live /\ At(k)' = op'[committed[k]]
  BY ListFacts, ProgressFacts
<1>2. At(k).status \in {QUEUED, COMPLETE}
      /\ op'[committed[k]].printf = At(k).printf
  BY <1>1 DEF At
<1>3. CanSubmit(k)' <=> CanSubmit(k)
  BY <1>2, SameScan
<1>4. QED
  BY <1>2, <1>3 DEF QuietInv

(* What the device or the bus reports reaches only execution statuses and  *)
(* printf markers of operations that have started: the invariant is kept.  *)
LEMMA Reported ==
    ASSUME IInv, TypeOK', Progress, RingInv', \A i \in Live : StateOf(i)',
           UNCHANGED <<pc, num_updates, caller, events, at>>,
           \A i \in Live :
             /\ op'[i].status = op[i].status
             /\ op'[i].exec = FAILED <=> op[i].exec = FAILED
             /\ op'[i].printf = "none" => op[i].printf = "none"
             /\ op[i].type # "KERNEL" \/ op[i].status \in {QUEUED, COMPLETE}
                  => op'[i].printf = op[i].printf
    PROVE  IInv'
<1>1. /\ TypeOK /\ ListInv /\ IdleInv /\ OpInv /\ GroupInv /\ EventInv
      /\ CompletedOnce /\ FailInv /\ CurrentInv /\ PruneInv /\ QuietInv
      /\ ReprogInv
  BY DEF IInv
<1>2. /\ Live' = Live /\ Live \subseteq Ids
      /\ \A n \in 1..Length : committed[n] \in Live
      /\ \A j \in Live : op'[j].cmd = op[j].cmd
      /\ UNCHANGED <<status, last_op, current_op, posted, failed>>
  BY <1>1, ListFacts, ProgressFacts DEF Progress, Fixed, events
<1>3. ListInv' /\ IdleInv' /\ (\A j \in Live : ShapeOf(j)') /\ GroupInv'
  BY <1>1, <1>2, ProgressKeeps DEF At
<1>4. EventInv'
  BY <1>1, <1>2 DEF EventInv
<1>5. CompletedOnce'
  BY <1>1, <1>2 DEF CompletedOnce
<1>6. FailInv'
  BY <1>1, <1>2, ProgressKeepsFail DEF At
<1>7. CurrentInv'
  BY <1>1, <1>2 DEF CurrentInv
<1>8. PruneInv'
  BY <1>1, <1>2 DEF PruneInv, Finished
<1>9. QuietInv'
  <2>1. Quiet' => Quiet
    BY DEF Quiet
  <2>2. /\ \A i \in Live : op'[i].status = op[i].status
        /\ \A i \in Live :
             op[i].type # "KERNEL" \/ op[i].status \in {QUEUED, COMPLETE}
               => op'[i].printf = op[i].printf
    OBVIOUS
  <2>3. QED
    BY <1>1, <2>1, <2>2, QuietKept
<1>10. ReprogInv'
  BY <1>1, <1>2, ProgressKeepsReprog DEF At
<1>11. QED
  BY <1>2, <1>3, <1>4, <1>5, <1>6, <1>7, <1>8, <1>9, <1>10 DEF IInv, OpInv

(* Letting a kernel that stalled on its printf buffer go on keeps the      *)
(* invariant.                                                              *)
LEMMA RelaunchStep ==
    ASSUME IInv, NEW k \in 1..Length, Takes(k), Relaunch(committed[k])
    PROVE  IInv'
<1>a. PICK i : i = committed[k]
  OBVIOUS
<1>1. TypeOK /\ ListInv /\ OpInv /\ RingInv
  BY DEF IInv
<1>2. i \in Live /\ i \in Ids /\ Live \subseteq Ids
  BY <1>a, <1>1, ListFacts
<1>3. /\ op[i].status = RUNNING /\ op[i].exec = COMPLETE
      /\ op[i].type = "KERNEL" /\ op[i].left > 0
      /\ LaunchKernel(i)
      /\ UNCHANGED <<events, num_updates>> /\ UNCHANGED lists
  BY <1>a DEF Relaunch, MustRelaunch, Takes
<1>4. op' = [op EXCEPT ![i].exec = RUNNING, ![i].left = op[i].left - 1]
  BY <1>a DEF Relaunch
<1>5. Changes(i, RUNNING, RUNNING, op[i].printf)
  <2> DEFINE r == [op[i] EXCEPT !.exec = RUNNING, !.left = op[i].left - 1]
  <2>0. op \in [Ids -> OpType] /\ op[i] \in OpType
    BY <1>1, <1>2 DEF TypeOK
  <2>1. op' = [op EXCEPT ![i] = r]
    BY <1>2, <1>4, <2>0 DEF OpType
  <2>2. op[i].left - 1 \in Nat /\ RUNNING \in FAILED..QUEUED
    BY <1>1, <1>2, <1>3, OpFacts
  <2>3. /\ r \in OpType
        /\ r.cmd = op[i].cmd /\ r.type = op[i].type
        /\ r.affects = op[i].affects /\ r.mem = op[i].mem
        /\ r.noTransfer = op[i].noTransfer /\ r.mayFail = op[i].mayFail
        /\ r.group = op[i].group
        /\ r.first = op[i].first /\ r.last = op[i].last
        /\ r.status = RUNNING /\ r.exec = RUNNING /\ r.printf = op[i].printf
    BY <1>3, <2>0, <2>2, ZenonT(60) DEF OpType
  <2> HIDE DEF r
  <2>4. Changes(i, r.status, r.exec, r.printf)
    BY <1>1, <1>2, <1>3, <2>1, <2>3, Rewritten
  <2>5. QED
    BY <2>3, <2>4
<1>6. Progress /\ \A j \in Live \ {i} : op'[j] = op[j]
  BY <1>1, <1>2, <1>5, ChangesIsProgress
<1>7. /\ Live' = Live
      /\ \A j \in Live : /\ op'[j].status = op[j].status
                         /\ op'[j].exec = IF j = i THEN RUNNING ELSE op[j].exec
                         /\ op'[j].printf = op[j].printf
                         /\ op'[j].cmd = op[j].cmd /\ op'[j].type = op[j].type
                         /\ op'[j].first = op[j].first
  BY <1>1, <1>2, <1>3, <1>5, <1>6, ProgressFacts DEF Changes, Progress, Fixed
<1>8. ring' \in [Accels -> Seq(Ids)] /\ RingInv'
  <2> DEFINE a == Command[op[i].cmd].accel
  <2>1. /\ a \in Accels
        /\ ring' \in [Accels -> Seq(Ids)]
        /\ \A b \in Accels \ {a} : ring'[b] = ring[b]
        /\ ToSet(ring'[a]) = ToSet(ring[a]) \cup {i}
        /\ IsInjective(ring'[a])
    <3>1. ~(op[i].status \in {SUBMITTED, RUNNING}
              /\ op[i].exec \in {SUBMITTED, RUNNING})
      BY <1>3
    <3>2. QED
      BY <1>1, <1>2, <1>3, <3>1, RingGrows
  <2>2. \A d \in Accels : \A l \in ToSet(ring[d]) : l # i
    BY <1>1, <1>3 DEF RingInv
  <2>3. ASSUME NEW b \in Accels, NEW j \in ToSet(ring'[b])
        PROVE  (j = i /\ b = a) \/ (j # i /\ j \in ToSet(ring[b]))
    <3>1. CASE b = a
      <4>1. j \in ToSet(ring[a]) \cup {i}
        BY <2>1, <3>1
      <4>2. j \in ToSet(ring[a]) => j # i
        BY <2>1, <2>2
      <4>3. QED
        BY <3>1, <4>1, <4>2, Zenon
    <3>2. CASE b # a
      BY <2>1, <2>2, <3>2, SMTT(40)
    <3>3. QED
      BY <3>1, <3>2
  <2>4. ASSUME NEW b \in Accels PROVE IsInjective(ring'[b])
    BY <1>1, <2>1 DEF RingInv
  <2>5. ASSUME NEW b \in Accels, NEW j \in ToSet(ring'[b])
        PROVE  /\ j \in Live /\ op'[j].type = "KERNEL"
               /\ Command[op'[j].cmd].accel = b
               /\ op'[j].status \in {SUBMITTED, RUNNING}
               /\ op'[j].exec \in {SUBMITTED, RUNNING}
    <3>1. CASE j = i /\ b = a
      BY <1>2, <1>3, <1>7, <3>1
    <3>2. CASE j # i /\ j \in ToSet(ring[b])
      BY <1>1, <1>7, <3>2 DEF RingInv
    <3>3. QED
      BY <2>3, <3>1, <3>2
  <2>6. QED
    BY <1>7, <2>1, <2>4, <2>5 DEF RingInv
<1>9. TypeOK'
  <2>1. /\ committed' = committed /\ free' = free /\ bins' = bins
        /\ at' = at /\ events' = events
        /\ pc' = "status" /\ num_updates' = num_updates /\ caller' = caller
        /\ op' \in [Ids -> OpType] /\ cursor' = k + 1
    BY <1>3, <1>6 DEF Takes, lists, Progress
  <2>2. k + 1 \in 1..MaxOps + 1
    BY RecycledByInv, <1>1, ListFacts, SizeAssumption DEF SlotsRecycled, Length
  <2>3. QED
    BY <1>1, <1>8, <2>1, <2>2 DEF TypeOK, bins, events
<1>10. \A j \in Live : StateOf(j)'
  BY <1>1, <1>3, <1>7 DEF OpInv, StateOf
<1>11. UNCHANGED <<pc, num_updates, caller, events, at>>
  BY <1>3 DEF Takes
<1>12. \A j \in Live :
         /\ op'[j].status = op[j].status
         /\ op'[j].exec = FAILED <=> op[j].exec = FAILED
         /\ op'[j].printf = "none" => op[j].printf = "none"
         /\ op[j].type # "KERNEL" \/ op[j].status \in {QUEUED, COMPLETE}
              => op'[j].printf = op[j].printf
  BY <1>3, <1>7
<1>13. QED
  BY <1>6, <1>8, <1>9, <1>10, <1>11, <1>12, Reported

(* The end of a transfer keeps the invariant. *)
LEMMA TransferDoneStep ==
    ASSUME IInv, NEW i \in Ids, TransferDone(i)
    PROVE  IInv'
<1>1. TypeOK /\ ListInv /\ OpInv /\ RingInv /\ CurrentInv
  BY DEF IInv
<1>2. /\ i \in Live /\ i \in Ids /\ op[i].status \in {SUBMITTED, RUNNING}
      /\ op[i].exec = RUNNING /\ op[i].type # "KERNEL" /\ Live \subseteq Ids
  BY <1>1, ListFacts DEF TransferDone, TransferInFlight
<1>3. current_op[op[i].cmd] = i /\ i # None
  BY <1>1, <1>2, NoneAssumption DEF CurrentInv
<1>4. /\ op' = [op EXCEPT ![i].exec = COMPLETE] /\ status' = status
      /\ UNCHANGED <<lists, control, last_op, current_op, posted, failed, at,
                     bins, ring>>
  BY <1>3 DEF TransferDone
<1>5. Changes(i, op[i].status, COMPLETE, op[i].printf)
  <2> DEFINE r == [op[i] EXCEPT !.exec = COMPLETE]
  <2>1. op' = [op EXCEPT ![i] = r]
    BY <1>4
  <2>2. /\ r \in OpType
        /\ r.cmd = op[i].cmd /\ r.type = op[i].type
        /\ r.affects = op[i].affects /\ r.mem = op[i].mem
        /\ r.noTransfer = op[i].noTransfer /\ r.mayFail = op[i].mayFail
        /\ r.group = op[i].group
        /\ r.first = op[i].first /\ r.last = op[i].last
        /\ r.status = op[i].status /\ r.exec = COMPLETE /\ r.printf = op[i].printf
    BY <1>1, <1>2, OpFacts DEF OpType
  <2> HIDE DEF r
  <2>3. UNCHANGED lists
    BY <1>4
  <2>4. Changes(i, r.status, r.exec, r.printf)
    BY <1>1, <1>2, <2>1, <2>2, <2>3, Rewritten
  <2>5. QED
    BY <2>2, <2>4
<1>6. Progress /\ \A j \in Live \ {i} : op'[j] = op[j]
  BY <1>1, <1>2, <1>5, ChangesIsProgress
<1>7. /\ Live' = Live
      /\ \A j \in Live : /\ op'[j].status = op[j].status
                         /\ op'[j].exec = IF j = i THEN COMPLETE ELSE op[j].exec
                         /\ op'[j].printf = op[j].printf
                         /\ op'[j].cmd = op[j].cmd /\ op'[j].type = op[j].type
                         /\ op'[j].first = op[j].first
  BY <1>1, <1>2, <1>5, <1>6, ProgressFacts DEF Changes, Progress, Fixed
<1>8. RingInv'
  <2>1. \A a \in Accels : \A j \in ToSet(ring[a]) : j # i
    BY <1>1, <1>2 DEF RingInv
  <2>2. QED
    BY <1>1, <1>4, <1>7, <2>1 DEF RingInv
<1>9. TypeOK'
  BY <1>1, <1>4, <1>6 DEF TypeOK, Progress, lists, control, bins
<1>10. \A j \in Live : StateOf(j)'
  BY <1>1, <1>2, <1>7 DEF OpInv, StateOf
<1>11. UNCHANGED <<pc, num_updates, caller, events, at>>
  BY <1>4 DEF control, events
<1>12. \A j \in Live :
         /\ op'[j].status = op[j].status
         /\ op'[j].exec = FAILED <=> op[j].exec = FAILED
         /\ op'[j].printf = "none" => op[j].printf = "none"
         /\ op[j].type # "KERNEL" \/ op[j].status \in {QUEUED, COMPLETE}
              => op'[j].printf = op[j].printf
  BY <1>2, <1>7
<1>13. QED
  BY <1>6, <1>8, <1>9, <1>10, <1>11, <1>12, Reported

(* The kernel at the head of an accelerator's queue.                       *)
LEMMA HeadFacts ==
    ASSUME TypeOK, ListInv, RingInv, NEW a \in Accels, ring[a] # <<>>
    PROVE  LET h == Head(ring[a]) IN
           /\ Len(ring[a]) \in Nat /\ Len(ring[a]) >= 1
           /\ h = ring[a][1] /\ h \in ToSet(ring[a]) /\ h \in Ids /\ h \in Live
           /\ op[h].type = "KERNEL"
           /\ op[h].status \in {SUBMITTED, RUNNING}
           /\ op[h].exec \in {SUBMITTED, RUNNING}
<1> DEFINE q == ring[a]
           T == Ids
<1>1. q \in Seq(T) /\ q # <<>>
  BY DEF TypeOK
<1> HIDE DEF q, T
<1>2. Len(q) \in Nat /\ Len(q) >= 1 /\ Head(q) = q[1]
  BY <1>1, EmptySeq, LenProperties
<1>3. Head(q) \in ToSet(q)
  BY <1>1, <1>2, SetOf
<1>4. Head(q) \in Live /\ Live \subseteq Ids
  BY <1>3, ListFacts DEF RingInv, q
<1>5. QED
  BY <1>2, <1>3, <1>4 DEF RingInv, q

(* A kernel that stalls on its printf buffer keeps the invariant. *)
LEMMA KernelStallsStep ==
    ASSUME IInv, NEW a \in Accels, KernelStalls(a)
    PROVE  IInv'
<1>1. TypeOK /\ ListInv /\ OpInv /\ RingInv
  BY DEF IInv
<1>a. PICK i : i = Head(ring[a])
  OBVIOUS
<1>2. /\ i \in Live /\ i \in Ids /\ op[i].status \in {SUBMITTED, RUNNING}
      /\ op[i].type = "KERNEL" /\ Live \subseteq Ids
  BY <1>a, <1>1, HeadFacts, ListFacts DEF KernelStalls
<1>4. /\ op' = [op EXCEPT ![i].printf = "stall"]
      /\ op[i].printf = "none" /\ op[i].exec = RUNNING
      /\ UNCHANGED <<lists, control, events, at, bins, ring>>
  BY <1>a DEF KernelStalls
<1>5. Changes(i, op[i].status, op[i].exec, "stall")
  <2> DEFINE r == [op[i] EXCEPT !.printf = "stall"]
  <2>1. op' = [op EXCEPT ![i] = r]
    BY <1>4
  <2>2. /\ r \in OpType
        /\ r.cmd = op[i].cmd /\ r.type = op[i].type
        /\ r.affects = op[i].affects /\ r.mem = op[i].mem
        /\ r.noTransfer = op[i].noTransfer /\ r.mayFail = op[i].mayFail
        /\ r.group = op[i].group
        /\ r.first = op[i].first /\ r.last = op[i].last
        /\ r.status = op[i].status /\ r.exec = op[i].exec /\ r.printf = "stall"
    BY <1>1, <1>2, OpFacts DEF OpType
  <2> HIDE DEF r
  <2>3. UNCHANGED lists
    BY <1>4
  <2>4. Changes(i, r.status, r.exec, r.printf)
    BY <1>1, <1>2, <2>1, <2>2, <2>3, Rewritten
  <2>5. QED
    BY <2>2, <2>4
<1>6. Progress /\ \A j \in Live \ {i} : op'[j] = op[j]
  BY <1>1, <1>2, <1>5, ChangesIsProgress
<1>7. /\ Live' = Live
      /\ \A j \in Live : /\ op'[j].status = op[j].status
                         /\ op'[j].exec = op[j].exec
                         /\ op'[j].printf = IF j = i THEN "stall" ELSE op[j].printf
                         /\ op'[j].cmd = op[j].cmd /\ op'[j].type = op[j].type
                         /\ op'[j].first = op[j].first
  BY <1>1, <1>2, <1>5, <1>6, ProgressFacts DEF Changes, Progress, Fixed
<1>8. RingInv'
  BY <1>1, <1>4, <1>7 DEF RingInv
<1>9. TypeOK'
  BY <1>1, <1>4, <1>6 DEF TypeOK, Progress, lists, control, bins, events
<1>10. \A j \in Live : StateOf(j)'
  BY <1>1, <1>2, <1>7 DEF OpInv, StateOf
<1>11. UNCHANGED <<pc, num_updates, caller, events, at>>
  BY <1>4 DEF control
<1>12. \A j \in Live :
         /\ op'[j].status = op[j].status
         /\ op'[j].exec = FAILED <=> op[j].exec = FAILED
         /\ op'[j].printf = "none" => op[j].printf = "none"
         /\ op[j].type # "KERNEL" \/ op[j].status \in {QUEUED, COMPLETE}
              => op'[j].printf = op[j].printf
  BY <1>2, <1>7
<1>13. QED
  BY <1>6, <1>8, <1>9, <1>10, <1>11, <1>12, Reported

(* The end of a kernel keeps the invariant. *)
LEMMA KernelDoneStep ==
    ASSUME IInv, NEW a \in Accels, NEW rest \in {"none", "final"},
           KernelDone(a, rest)
    PROVE  IInv'
<1>1. TypeOK /\ ListInv /\ OpInv /\ RingInv
  BY DEF IInv
<1>a. PICK i : i = Head(ring[a])
  BY Zenon
<1>2. /\ i \in Live /\ i \in Ids /\ op[i].status \in {SUBMITTED, RUNNING}
      /\ op[i].type = "KERNEL" /\ Live \subseteq Ids
      /\ i = ring[a][1] /\ i \in ToSet(ring[a])
      /\ op[i].exec \in {SUBMITTED, RUNNING}
      /\ Len(ring[a]) \in Nat /\ Len(ring[a]) >= 1
  BY <1>a, <1>1, HeadFacts, ListFacts, Zenon DEF KernelDone
<1>3. op \in [Ids -> OpType] /\ ring \in [Accels -> Seq(Ids)]
  BY <1>1, ZenonT(60) DEF TypeOK
<1> DEFINE second(j) == Len(ring[a]) > 1 /\ j = ring[a][2] /\ op[j].exec > RUNNING
<1>4. /\ op' = [j \in Ids |->
                  IF j = i
                  THEN [op[j] EXCEPT !.exec = COMPLETE,
                          !.printf = IF rest = "none" THEN @ ELSE rest]
                  ELSE IF second(j) THEN [op[j] EXCEPT !.exec = RUNNING]
                       ELSE op[j]]
      /\ ring' = [ring EXCEPT ![a] = Tail(@)]
      /\ UNCHANGED <<lists, control, events, at, bins>>
  BY <1>a DEF KernelDone
<1>5. ASSUME NEW j \in Ids
      PROVE  /\ op'[j] \in OpType /\ Fixed(j)
             /\ op'[j].status = op[j].status
             /\ j = i => /\ op'[j].exec = COMPLETE
                         /\ op'[j].printf \in {"final", op[j].printf}
             /\ j # i /\ second(j) => /\ op'[j].exec = RUNNING
                                      /\ op'[j].printf = op[j].printf
             /\ j # i /\ ~second(j) => op'[j] = op[j]
  <2>1. op[j] \in OpType
    BY <1>3
  <2>2. CASE j = i
    <3>1. op'[j] = [op[j] EXCEPT !.exec = COMPLETE,
                      !.printf = IF rest = "none" THEN op[j].printf ELSE rest]
      BY <1>4, <2>1, <2>2
    <3>2. COMPLETE \in FAILED..QUEUED
          /\ (IF rest = "none" THEN op[j].printf ELSE rest)
                \in {"none", "stall", "final"}
      BY <2>1 DEF OpType
    <3>3. QED
      BY <2>1, <2>2, <3>1, <3>2, ZenonT(60) DEF OpType, Fixed
  <2>3. CASE j # i /\ second(j)
    <3>1. op'[j] = [op[j] EXCEPT !.exec = RUNNING]
      BY <1>4, <2>3
    <3>2. RUNNING \in FAILED..QUEUED
      OBVIOUS
    <3> HIDE DEF second
    <3>3. QED
      BY <2>1, <2>3, <3>1, <3>2 DEF OpType, Fixed
  <2>4. CASE j # i /\ ~second(j)
    <3>1. op'[j] = op[j]
      BY <1>4, <2>4
    <3> HIDE DEF second
    <3>2. QED
      BY <2>1, <2>4, <3>1 DEF Fixed
  <2>5. QED
    BY <2>2, <2>3, <2>4
<1>6. ASSUME NEW j, second(j)
      PROVE  j \in Live /\ j \in Ids /\ op[j].exec = SUBMITTED
             /\ j \in ToSet(ring[a])
  <2> DEFINE q == ring[a]
             T == Ids
  <2>1. q \in Seq(T) /\ 2 \in 1..Len(q) /\ j = q[2]
    BY <1>2, <1>3, <1>6
  <2> HIDE DEF q, T
  <2>2. j \in ToSet(q)
    BY <2>1, SetOf, Zenon
  <2>3. QED
    BY <1>1, <1>2, <1>6, <2>2 DEF RingInv, q
<1> HIDE DEF second
<1>7. Progress
  <2>1. op' \in [Ids -> OpType]
    BY <1>4, <1>5
  <2>2. \A j \in Ids \ Live : op'[j] = op[j]
    BY <1>2, <1>5, <1>6
  <2>3. QED
    BY <1>4, <1>5, <2>1, <2>2, ZenonT(60) DEF Progress, lists
<1>8. Live' = Live
  BY <1>1, <1>7, ProgressFacts
<1>9. /\ ring' \in [Accels -> Seq(Ids)]
      /\ \A b \in Accels \ {a} : ring'[b] = ring[b]
      /\ ToSet(ring'[a]) = ToSet(ring[a]) \ {i}
      /\ IsInjective(ring'[a])
  <2> DEFINE q == ring[a]
             T == Ids
             t == Tail(q)
             n == Len(q)
  <2>1. q \in Seq(T) /\ q # <<>> /\ IsInjective(q) /\ i = q[1] /\ n \in Nat /\ n >= 1
    BY <1>1, <1>2, <1>3 DEF KernelDone, RingInv
  <2>2. ring' = [ring EXCEPT ![a] = t]
    BY <1>4
  <2> HIDE DEF q, T
  <2>3. /\ t \in Seq(T) /\ Len(t) = n - 1
        /\ \A k \in 1..n - 1 : t[k] = q[k + 1]
    BY <2>1, HeadTailProperties, LenProperties
  <2>4. \A j, k \in 1..n : q[j] = q[k] => j = k
    BY <2>1, PositionsOf
  <2> HIDE DEF t, n
  <2>5. \A j, k \in 1..n - 1 : t[j] = t[k] => j = k
    <3> SUFFICES ASSUME NEW j \in 1..n - 1, NEW k \in 1..n - 1, t[j] = t[k]
                 PROVE  j = k
      OBVIOUS
    <3>1. j + 1 \in 1..n /\ k + 1 \in 1..n
      BY <2>1
    <3>2. j + 1 = k + 1
      BY <2>3, <2>4, <3>1
    <3>3. QED
      BY <3>2
  <2>6. IsInjective(t)
    BY <2>3, <2>5, InjectiveIf
  <2>7. ASSUME NEW x PROVE x \in ToSet(t) <=> x \in ToSet(q) \ {i}
    <3>1. ASSUME x \in ToSet(t) PROVE x \in ToSet(q) \ {i}
      <4>1. PICK k \in 1..n - 1 : t[k] = x
        BY <2>3, <3>1, SetOf
      <4>2. k + 1 \in 1..n /\ k + 1 # 1 /\ 1 \in 1..n
        BY <2>1
      <4>3. x = q[k + 1]
        BY <2>3, <4>1
      <4>4. x # q[1]
        BY <2>4, <4>2, <4>3
      <4>5. x \in ToSet(q)
        BY <2>1, <4>2, <4>3, SetOf DEF n
      <4>6. QED
        BY <2>1, <4>4, <4>5
    <3>2. ASSUME x \in ToSet(q) \ {i} PROVE x \in ToSet(t)
      <4>1. PICK k \in 1..n : q[k] = x
        BY <2>1, <3>2, SetOf DEF n
      <4>2. k # 1
        BY <2>1, <3>2, <4>1
      <4>3. k - 1 \in 1..n - 1 /\ (k - 1) + 1 = k
        BY <2>1, <4>2
      <4>4. t[k - 1] = x
        BY <2>3, <4>1, <4>3
      <4>5. QED
        BY <2>3, <4>3, <4>4, SetOf
    <3>3. QED
      BY <3>1, <3>2
  <2>8. ring' \in [Accels -> Seq(T)] /\ ring'[a] = t
        /\ \A b \in Accels \ {a} : ring'[b] = ring[b]
    BY <1>3, <2>2, <2>3 DEF T
  <2>9. ToSet(t) = ToSet(q) \ {i}
    BY <2>7
  <2>10. QED
    BY <2>6, <2>8, <2>9, ZenonT(60) DEF q, T
<1>10. RingInv'
  <2>1. ASSUME NEW b \in Accels, NEW j \in ToSet(ring'[b])
        PROVE  /\ j \in Live /\ op'[j].type = "KERNEL"
               /\ Command[op'[j].cmd].accel = b
               /\ op'[j].status \in {SUBMITTED, RUNNING}
               /\ op'[j].exec \in {SUBMITTED, RUNNING}
    <3>1. j \in ToSet(ring[b]) /\ j # i
      <4>1. CASE b = a
        BY <1>9, <4>1
      <4>2. CASE b # a
        <5>1. j \in ToSet(ring[b])
          BY <1>9, <4>2
        <5>2. Command[op[j].cmd].accel = b /\ Command[op[i].cmd].accel = a
          BY <1>1, <1>2, <5>1 DEF RingInv
        <5>3. QED
          BY <4>2, <5>1, <5>2
      <4>3. QED
        BY <4>1, <4>2
    <3>2. /\ j \in Live /\ op[j].type = "KERNEL"
          /\ Command[op[j].cmd].accel = b
          /\ op[j].status \in {SUBMITTED, RUNNING}
          /\ op[j].exec \in {SUBMITTED, RUNNING}
      BY <1>1, <3>1 DEF RingInv
    <3>3. j \in Ids /\ Fixed(j) /\ op'[j].status = op[j].status
      BY <1>2, <1>5, <3>2
    <3>4. op'[j].exec \in {SUBMITTED, RUNNING}
      BY <1>5, <3>1, <3>2, <3>3
    <3>5. QED
      BY <3>2, <3>3, <3>4 DEF Fixed
  <2>2. ASSUME NEW b \in Accels PROVE IsInjective(ring'[b])
    BY <1>1, <1>9, ZenonT(60) DEF RingInv
  <2>3. QED
    BY <1>8, <2>1, <2>2 DEF RingInv
<1>11. TypeOK'
  BY <1>1, <1>4, <1>7, <1>9 DEF TypeOK, Progress, lists, control, bins, events
<1>12. ASSUME NEW j \in Live
       PROVE  /\ StateOf(j)'
              /\ op'[j].status = op[j].status
              /\ op'[j].exec = FAILED <=> op[j].exec = FAILED
              /\ op'[j].printf = "none" => op[j].printf = "none"
              /\ op[j].type # "KERNEL" \/ op[j].status \in {QUEUED, COMPLETE}
                   => op'[j].printf = op[j].printf
  <2>1. StateOf(j) /\ j \in Ids /\ Fixed(j) /\ op'[j].status = op[j].status
    BY <1>1, <1>2, <1>5 DEF OpInv
  <2>2. CASE j = i
    <3>1. /\ op'[j].exec = COMPLETE /\ op'[j].printf \in {"final", op[j].printf}
          /\ op[j].status \in {SUBMITTED, RUNNING} /\ op[j].type = "KERNEL"
          /\ op[j].exec # FAILED
      BY <1>2, <1>5, <2>1, <2>2
    <3>2. QED
      BY <2>1, <3>1 DEF StateOf, Fixed
  <2>3. CASE j # i /\ second(j)
    <3>1. /\ op'[j].exec = RUNNING /\ op'[j].printf = op[j].printf
          /\ op[j].exec = SUBMITTED
          /\ op[j].status \in {SUBMITTED, RUNNING}
      BY <1>1, <1>5, <1>6, <2>1, <2>3 DEF RingInv
    <3>2. QED
      BY <2>1, <3>1 DEF StateOf, Fixed
  <2>4. CASE j # i /\ ~second(j)
    <3>1. op'[j] = op[j]
      BY <1>5, <2>1, <2>4
    <3>2. QED
      BY <2>1, <3>1 DEF StateOf
  <2>5. QED
    BY <2>2, <2>3, <2>4
<1>13. UNCHANGED <<pc, num_updates, caller, events, at>>
  BY <1>4 DEF control
<1>14. QED
  BY <1>7, <1>10, <1>11, <1>12, <1>13, Reported

(* A finished command is used for another event.                           *)
LEMMA ReleaseStep ==
    ASSUME IInv, NEW c \in Commands, Release(c)
    PROVE  IInv'
<1>1. /\ TypeOK /\ ListInv /\ IdleInv /\ OpInv /\ GroupInv /\ EventInv
      /\ CompletedOnce /\ FailInv /\ CurrentInv /\ RingInv /\ PruneInv
      /\ QuietInv /\ ReprogInv
  BY DEF IInv
<1>2. /\ pc = "idle" /\ status[c] <= COMPLETE /\ last_op[c] # None
      /\ status' = [status EXCEPT ![c] = QUEUED]
      /\ last_op' = [last_op EXCEPT ![c] = None]
      /\ posted' = [posted EXCEPT ![c] = 0]
      /\ failed' = [failed EXCEPT ![c] = FALSE]
      /\ UNCHANGED <<op, lists, control, current_op, at, bins, ring>>
  BY DEF Release
<1>3. \A i \in Live : op[i].cmd # c /\ op[i].cmd \in Commands
  <2>1. ASSUME NEW i \in Live, op[i].cmd = c PROVE FALSE
    <3>1. status[c] > COMPLETE /\ status[c] \in FAILED..QUEUED
      BY <1>1, <1>2, <2>1, RecycledByInv DEF SlotsRecycled, TypeOK
    <3>2. QED
      BY <1>2, <3>1
  <2>2. QED
    BY <1>1, <2>1 DEF OpInv, ShapeOf
<1>4. /\ \A b \in Commands \ {c} : /\ status'[b] = status[b]
                                   /\ last_op'[b] = last_op[b]
                                   /\ posted'[b] = posted[b]
                                   /\ failed'[b] = failed[b]
      /\ status'[c] = QUEUED /\ last_op'[c] = None /\ posted'[c] = 0
      /\ failed'[c] = FALSE
  BY <1>1, <1>2 DEF TypeOK
<1>5. /\ op' = op /\ committed' = committed /\ free' = free /\ Live' = Live
      /\ ring' = ring /\ at' = at /\ current_op' = current_op
      /\ pc' = pc /\ num_updates' = num_updates /\ caller' = caller
      /\ \A n \in 1..Length : committed[n] \in Live
  BY <1>1, <1>2, ListFacts DEF lists, control, Live
<1>6. TypeOK'
  BY <1>1, <1>2, SMTT(40) DEF TypeOK, lists, control, bins
<1>7. ListInv' /\ IdleInv' /\ OpInv' /\ RingInv' /\ PruneInv' /\ ReprogInv'
  BY <1>1, <1>5 DEF ListInv, IdleInv, OpInv, ShapeOf, StateOf, BuffersOf, RingInv,
                    PruneInv, Finished, ReprogInv, Length, At, Dev
<1>8. GroupInv'
  BY <1>1, <1>3, <1>4, <1>5, SMTT(40) DEF GroupInv, Length, At, Same
<1>9. EventInv'
  <2>1. caller' = None
    BY <1>1, <1>2, <1>5 DEF EventInv
  <2>2. \A i \in Live : op'[i].status # COMPLETE => status'[op'[i].cmd] > COMPLETE
    BY <1>1, <1>3, <1>4, <1>5 DEF EventInv
  <2>3. ASSUME NEW b \in Commands, last_op'[b] = None
        PROVE  /\ status'[b] = QUEUED \/ status'[b] <= COMPLETE
               /\ status'[b] = QUEUED => ~failed'[b]
    BY <1>1, <1>4, <2>3 DEF EventInv
  <2>4. QED
    BY <1>5, <2>1, <2>2, <2>3 DEF EventInv
<1>10. CompletedOnce'
  <2>1. ASSUME NEW b \in Commands
        PROVE  /\ posted'[b] = IF status'[b] <= COMPLETE THEN 1 ELSE 0
               /\ status'[b] <= COMPLETE => (status'[b] = FAILED <=> failed'[b])
    BY <1>1, <1>4 DEF CompletedOnce
  <2>2. QED
    BY <2>1 DEF CompletedOnce
<1>11. FailInv'
  BY <1>1, <1>3, <1>4, <1>5 DEF FailInv, Length, At, First, Same
<1>12. CurrentInv'
  BY <1>1, <1>5 DEF CurrentInv
<1>13. QuietInv'
  <2>1. Progress
    BY <1>1, <1>5, ListFacts DEF Progress, Fixed, TypeOK
  <2>2. QED
    BY <1>1, <1>5, <2>1, QuietKept DEF Quiet
<1>14. QED
  BY <1>6, <1>7, <1>8, <1>9, <1>10, <1>11, <1>12, <1>13 DEF IInv

----------------------------------------------------------------------------
(* The prune pass.                                                         *)

(* Nothing is left out when all are picked.                                *)
LEMMA PicksAll ==
    ASSUME NEW T, NEW s \in Seq(T), NEW S, ToSet(s) \subseteq S
    PROVE  Within(s, S) = s
<1> DEFINE t == Within(s, S)
           n == Len(s)
<1>1. t \in Seq(T) /\ \E h : PickedBy(h, t, s, S, n)
  BY WithinPicks
<1> HIDE DEF t
<1>2. PICK h : PickedBy(h, t, s, S, n)
  BY <1>1
<1> DEFINE l == Len(t)
<1>3. /\ h \in [1..l -> 1..n]
      /\ \A j, k \in 1..l : j < k => h[j] < h[k]
      /\ \A k \in 1..l : t[k] = s[h[k]]
      /\ \A j \in 1..n : \E k \in 1..l : h[k] = j
  <2>1. \A j \in 1..n : s[j] \in S
    BY PositionsOf
  <2>2. QED
    BY <1>2, <2>1 DEF PickedBy
<1>4. n \in Nat /\ l \in Nat
  BY <1>1, LenProperties
<1> HIDE DEF n, l
<1> DEFINE Bad == {k \in 1..l : h[k] # k}
<1>5. ASSUME Bad # {} PROVE FALSE
  <2>1. Bad \subseteq Nat
    BY <1>4
  <2>2. PICK k \in Bad : \A j \in Bad : ~(j < k)
    <3> HIDE DEF Bad
    <3> QED
      BY <1>5, <2>1, LeastNatural
  <2>3. k \in 1..l /\ h[k] # k /\ h[k] \in 1..n
    BY <1>3
  <2>4. \A j \in 1..k - 1 : h[j] = j
    <3> SUFFICES ASSUME NEW j \in 1..k - 1 PROVE h[j] = j
      OBVIOUS
    <3>1. j \in 1..l /\ j < k
      BY <1>4, <2>3
    <3>2. QED
      BY <2>2, <3>1
  <2>5. h[k] > k
    <3>1. CASE k = 1
      BY <1>4, <2>3, <3>1
    <3>2. CASE k # 1
      <4>1. k - 1 \in 1..k - 1 /\ k - 1 \in 1..l /\ k - 1 < k
        BY <1>4, <2>3, <3>2
      <4>2. h[k - 1] = k - 1 /\ h[k - 1] < h[k]
        BY <1>3, <2>3, <2>4, <4>1
      <4>3. QED
        BY <1>4, <2>3, <4>2
    <3>3. QED
      BY <3>1, <3>2
  <2>6. k \in 1..n
    BY <1>4, <2>3, <2>5
  <2>7. PICK m \in 1..l : h[m] = k
    BY <1>3, <2>6
  <2>8. CASE m < k
    <3>1. m \in 1..k - 1
      BY <1>4, <2>3, <2>8
    <3>2. QED
      BY <1>4, <2>4, <2>7, <2>8, <3>1
  <2>9. CASE m = k
    BY <2>3, <2>7, <2>9
  <2>10. CASE k < m
    <3>1. h[k] < h[m]
      BY <1>3, <2>3, <2>10
    <3>2. QED
      BY <1>4, <2>3, <2>5, <2>7, <3>1
  <2>11. QED
    BY <1>4, <2>3, <2>8, <2>9, <2>10
<1>6. \A k \in 1..l : h[k] = k
  BY <1>5
<1>7. l = n
  <2>1. ASSUME l # 0 PROVE l <= n
    <3>1. l \in 1..l
      BY <1>4, <2>1
    <3>2. h[l] = l /\ h[l] \in 1..n
      BY <1>3, <1>6, <3>1
    <3>3. QED
      BY <1>4, <3>2
  <2>2. ASSUME n # 0 PROVE n <= l
    <3>1. n \in 1..n
      BY <1>4, <2>2
    <3>2. PICK m \in 1..l : h[m] = n
      BY <1>3, <3>1
    <3>3. QED
      BY <1>4, <1>6, <3>2
  <2>3. QED
    BY <1>4, <2>1, <2>2
<1>8. \A k \in 1..n : t[k] = s[k]
  BY <1>3, <1>6, <1>7
<1>9. t = s
  BY <1>1, <1>7, <1>8, SeqEqual DEF n, l
<1>10. QED
  BY <1>9 DEF t

(* After an operation that is not the last of its group comes the next.    *)
LEMMA NextInGroup ==
    ASSUME TypeOK, ListInv, OpInv, GroupInv,
           NEW k \in 1..Length, ~At(k).last
    PROVE  k + 1 \in 1..Length /\ Same(k, k + 1)
<1> DEFINE i == committed[k]
           g == op[i].group
<1>1. i \in Live /\ g \in Live /\ op[g].cmd = op[i].cmd
  BY ListFacts DEF GroupInv
<1>2. op[g].group = g
  BY <1>1, GroupFacts
<1>3. op[g].last
  BY <1>1, <1>2 DEF OpInv, ShapeOf
<1>4. PICK l \in 1..Length : committed[l] = g
  BY <1>1, ListFacts
<1>5. Same(k, l) /\ Same(l, k) /\ l # k /\ At(l).last
  BY <1>2, <1>3, <1>4 DEF Same, At
<1>6. ~(l < k)
  BY <1>5 DEF GroupInv
<1>7. k < l /\ k + 1 \in 1..Length /\ k + 1 \in k..l
  BY <1>5, <1>6, ListFacts
<1>8. Same(k, k + 1)
  BY <1>5, <1>7 DEF GroupInv
<1>9. QED
  BY <1>7, <1>8

(* HasError, with its recursion unfolded.                                  *)
ErrorBefore(k) ==
    /\ k > 1 /\ HasError[k - 1]
    /\ Finished(committed[k - 1]) /\ ~op[committed[k - 1]].last
(* HasError, defined along the list, one step unfolded. *)
LEMMA ErrorUnfolds ==
    ASSUME TypeOK
    PROVE  \A k \in 1..Length :
             HasError[k] = (op[committed[k]].exec < 0 \/ ErrorBefore(k))
<1> DEFINE n == Length
           Step1(k, b) == \/ op[committed[k]].exec < 0
                          \/ /\ k > 1 /\ b
                             /\ Finished(committed[k - 1])
                             /\ ~op[committed[k - 1]].last
           f == [z \in (1..n) \X BOOLEAN |-> Step1(z[1], z[2])]
<1>1. n \in Nat /\ DOMAIN committed = 1..n
  BY LenProperties DEF TypeOK, Length
<1>2. f \in [(1..n) \X BOOLEAN -> BOOLEAN]
  OBVIOUS
<1>3. \A k \in 1..n, b \in BOOLEAN : f[<<k, b>>] = Step1(k, b)
  OBVIOUS
<1> HIDE DEF f, Step1, n
<1>4. PICK g \in [0..n -> BOOLEAN] :
        g[0] = FALSE /\ \A i \in 1..n : g[i] = f[<<i, g[i - 1]>>]
  <2> DEFINE X == BOOLEAN
             x == FALSE
  <2>1. n \in Nat /\ x \in X /\ f \in [(1..n) \X X -> X]
    BY <1>1, <1>2
  <2> HIDE DEF X, x
  <2>2. \E g : IsRun(g, X, x, n, f)
    BY <2>1, RecursionExists
  <2>3. QED
    BY <2>2 DEF X, x, IsRun
<1>5. \A i \in 1..n : g[i] = Step1(i, g[i - 1])
  <2> SUFFICES ASSUME NEW i \in 1..n PROVE g[i] = Step1(i, g[i - 1])
    OBVIOUS
  <2>1. i - 1 \in 0..n
    BY <1>1
  <2>2. g[i - 1] \in BOOLEAN
    BY <2>1
  <2>3. QED
    BY <1>3, <1>4, <2>2
<1> DEFINE Body(F) == [k \in DOMAIN committed |->
                         \/ op[committed[k]].exec < 0
                         \/ /\ k > 1 /\ F[k - 1]
                            /\ Finished(committed[k - 1])
                            /\ ~op[committed[k - 1]].last]
           e == [k \in 1..n |-> g[k]]
           err == CHOOSE F : F = Body(F)
<1>6. e = Body(e)
  <2>1. ASSUME NEW k \in 1..n PROVE e[k] = Body(e)[k]
    <3>1. CASE k = 1
      <4> DEFINE own == op[committed[1]].exec < 0
      <4>1. g[1] = Step1(1, g[0])
        <5>1. 1 \in 1..n /\ 1 - 1 = 0
          BY <1>1, <3>1
        <5>2. QED
          BY <1>5, <5>1
      <4>2. ~(1 > 1)
        OBVIOUS
      <4>3. Step1(1, g[0]) <=> own
        BY <4>2, Zenon DEF Step1
      <4>4. Body(e)[1] = (own \/ (1 > 1 /\ e[1 - 1] /\ Finished(committed[1 - 1])
                                   /\ ~op[committed[1 - 1]].last))
        BY <1>1, <3>1 DEF Body
      <4>5. e[1] = g[1] /\ g[1] \in BOOLEAN
        BY <1>1, <1>4, <3>1
      <4> HIDE DEF own, Body, e
      <4>6. (own \/ (1 > 1 /\ e[1 - 1] /\ Finished(committed[1 - 1])
                     /\ ~op[committed[1 - 1]].last)) <=> own
        BY <4>2, Zenon
      <4>7. (Body(e)[1] <=> own) /\ Body(e)[1] \in BOOLEAN
        BY <4>4, <4>6
      <4>8. e[1] <=> own
        BY <4>1, <4>3, <4>5
      <4>9. e[1] = Body(e)[1]
        BY <4>5, <4>7, <4>8
      <4>10. QED
        BY <3>1, <4>9
    <3>2. CASE k # 1
      <4>1. k - 1 \in 1..n
        BY <1>1, <3>2
      <4>2. e[k] = Step1(k, e[k - 1])
        BY <1>5, <4>1
      <4>3. QED
        BY <1>1, <4>2 DEF Step1
    <3>3. QED
      BY <3>1, <3>2
  <2>2. QED
    BY <2>1, <1>1
<1>7. err = Body(err)
  <2> HIDE DEF Body
  <2>1. \E F : F = Body(F)
    BY <1>6
  <2>2. QED
    BY <2>1
<1>8. HasError = err
  BY DEF HasError
<1> HIDE DEF err
<1>9. \A k \in 1..n : err[k] = Body(err)[k]
  BY <1>7
<1>10. \A k \in 1..n : HasError[k] = (op[committed[k]].exec < 0 \/ ErrorBefore(k))
  BY <1>1, <1>8, <1>9 DEF ErrorBefore
<1>11. QED
  BY <1>10 DEF n

(* The error of an operation that stays: its own, or that of the one right *)
(* before it, which is pruned.                                             *)
Inherits(k) ==
    /\ k - 1 \in 1..Length /\ Finished(committed[k - 1]) /\ ~At(k - 1).last
    /\ At(k - 1).exec = FAILED
(* An operation has an error when it failed itself or an earlier one of    *)
(* its group did.                                                          *)
LEMMA ErrorOf ==
    ASSUME IInv, NEW k \in 1..Length
    PROVE  HasError[k] <=> At(k).exec = FAILED \/ Inherits(k)
<1>1. TypeOK /\ ListInv /\ OpInv /\ GroupInv
  BY DEF IInv
<1>2. Length \in Nat /\ \A j \in 1..Length : committed[j] \in Ids
  BY <1>1, ListFacts
<1>3. \A j \in 1..Length : op[committed[j]].exec < 0 <=> At(j).exec = FAILED
  BY <1>1, <1>2, OpFacts DEF At
<1>4. HasError[k] <=> At(k).exec = FAILED \/ ErrorBefore(k)
  BY <1>1, <1>3, ErrorUnfolds
<1>5. ASSUME ErrorBefore(k) PROVE Inherits(k)
  <2>1. /\ k - 1 \in 1..Length /\ k > 1 /\ HasError[k - 1]
        /\ Finished(committed[k - 1]) /\ ~At(k - 1).last
    BY <1>2, <1>5 DEF ErrorBefore, At
  <2>2. At(k - 1).exec = FAILED \/ ErrorBefore(k - 1)
    BY <1>1, <1>3, <2>1, ErrorUnfolds
  <2>3. ASSUME ErrorBefore(k - 1) PROVE FALSE
    <3>1. /\ k - 2 \in 1..Length /\ ~At(k - 2).last /\ k - 1 - 1 = k - 2
          /\ k - 2 + 1 = k - 1 /\ k - 2 < k - 1
      BY <1>2, <2>1, <2>3 DEF ErrorBefore, At
    <3>2. Same(k - 2, k - 1)
      BY <1>1, <3>1, NextInGroup
    <3>3. At(k - 1).status = QUEUED
      BY <1>1, <2>1, <3>1, <3>2 DEF GroupInv
    <3>4. QED
      BY <2>1, <3>3 DEF Finished, At
  <2>4. QED
    BY <2>1, <2>2, <2>3 DEF Inherits
<1>6. ASSUME Inherits(k) PROVE ErrorBefore(k)
  <2>1. /\ k - 1 \in 1..Length /\ k > 1 /\ At(k - 1).exec = FAILED
        /\ Finished(committed[k - 1]) /\ ~At(k - 1).last
    BY <1>2, <1>6 DEF Inherits
  <2>2. HasError[k - 1]
    BY <1>1, <1>3, <2>1, ErrorUnfolds
  <2>3. QED
    BY <2>1, <2>2 DEF ErrorBefore, At
<1>7. QED
  BY <1>4, <1>5, <1>6

(* What is pruned and what stays.                                          *)
Stays == Live \ FinishedOps

(* The lists after a pass of acl_do_prune: what is finished is gone, the   *)
(* rest keeps its order.                                                   *)
LEMMA PruneLists ==
    ASSUME IInv, PrunePass
    PROVE  /\ ListInv' /\ Live' = Stays /\ Length' \in Nat
           /\ committed' \in Seq(Ids) /\ free' \in Seq(Ids)
           /\ ToSet(Within(committed, FinishedOps)) = FinishedOps
           /\ \E h : PickedBy(h, committed', committed, Stays, Length)
<1>1. TypeOK /\ ListInv
  BY DEF IInv
<1> DEFINE T == Ids
           s == committed
           F == FinishedOps
           d == Within(s, F)
           t == Within(s, Live \ F)
<1>2. /\ s \in Seq(T) /\ free \in Seq(T) /\ IsInjective(s) /\ IsInjective(free)
      /\ ToSet(s) = Live /\ Live \cap ToSet(free) = {}
      /\ Live \cup ToSet(free) = Ids /\ F \subseteq Live
  BY <1>1 DEF TypeOK, ListInv, Live, FinishedOps
<1>3. committed' = t /\ free' = Reverse(d) \o free
  BY DEF PrunePass, FreeAfterPrune
<1> HIDE DEF F, s, T, d, t
<1>4. d \in Seq(T) /\ ToSet(d) = F /\ IsInjective(d)
  <2>1. d \in Seq(T) /\ ToSet(d) = ToSet(s) \cap F /\ IsInjective(d)
    BY <1>2, WithinMembers DEF d
  <2>2. QED
    BY <1>2, <2>1
<1>5. t \in Seq(T) /\ ToSet(t) = Live \ F /\ IsInjective(t)
  <2>1. t \in Seq(T) /\ ToSet(t) = ToSet(s) \cap (Live \ F) /\ IsInjective(t)
    BY <1>2, WithinMembers DEF t
  <2>2. QED
    BY <1>2, <2>1
<1> DEFINE r == Reverse(d)
<1>6. r \in Seq(T) /\ ToSet(r) = F /\ IsInjective(r)
  BY <1>4, ReverseMembers
<1> HIDE DEF r
<1>7. /\ r \o free \in Seq(T)
      /\ ToSet(r \o free) = F \cup ToSet(free) /\ IsInjective(r \o free)
  <2>1. ToSet(r) \cap ToSet(free) = {}
    BY <1>2, <1>6
  <2>2. QED
    BY <1>2, <1>6, <2>1, ConcatMembers
<1>8. Live' = Live \ F
  BY <1>3, <1>5 DEF Live
<1>9. /\ committed' = t /\ free' = r \o free
  BY <1>3 DEF r
<1>10. ListInv'
  <2>1. IsInjective(committed') /\ IsInjective(free')
    BY <1>5, <1>7, <1>9
  <2>2. Live' \cap ToSet(free') = {} /\ Live' \cup ToSet(free') = Ids
    BY <1>2, <1>7, <1>8, <1>9
  <2>3. QED
    BY <2>1, <2>2 DEF ListInv
<1>11. \E h : PickedBy(h, t, s, Live \ F, Len(s))
  BY <1>2, WithinPicks DEF t
<1>12. Length' \in Nat
  BY <1>5, <1>9, LenProperties DEF Length
<1>13. QED
  BY <1>4, <1>5, <1>7, <1>8, <1>9, <1>10, <1>11, <1>12
     DEF Stays, F, T, s, d, Length

(* The operations after the pass: a slot set free is blank, an operation   *)
(* whose group failed has failed, others are as they were.                 *)
LEMMA PruneOps ==
    ASSUME IInv, PrunePass
    PROVE  /\ op' \in [Ids -> OpType]
           /\ \A i \in Ids \ Stays : op'[i] = IdleOp
           /\ \A k \in 1..Length : committed[k] \in Stays =>
                /\ Fixed(committed[k])
                /\ op'[committed[k]].status = At(k).status
                /\ op'[committed[k]].printf = At(k).printf
                /\ Inherits(k) => op'[committed[k]].exec = FAILED
                /\ ~Inherits(k) => op'[committed[k]] = At(k)
<1>1. TypeOK /\ ListInv /\ IdleInv
  BY DEF IInv
<1>2. /\ ToSet(Within(committed, FinishedOps)) = FinishedOps
      /\ FinishedOps \subseteq Live /\ Live \subseteq Ids
      /\ DOMAIN committed = 1..Length
      /\ \A j, k \in 1..Length : committed[j] = committed[k] => j = k
      /\ \A k \in 1..Length : committed[k] \in Ids
      /\ op \in [Ids -> OpType]
  BY <1>1, PruneLists, ListFacts DEF FinishedOps, TypeOK
<1>3. op' = [i \in Ids |->
               IF i \in FinishedOps THEN IdleOp
               ELSE IF \E k \in 1..Length : committed[k] = i /\ HasError[k]
                    THEN [op[i] EXCEPT !.exec = FAILED]
                    ELSE op[i]]
  BY <1>2 DEF PrunePass
<1>4. IdleOp \in OpType
  BY DEF IdleOp, OpType, OpTypes
<1>5. ASSUME NEW i \in Ids, NEW o, o = [op[i] EXCEPT !.exec = FAILED]
      PROVE  /\ o \in OpType
             /\ o.cmd = op[i].cmd /\ o.type = op[i].type
             /\ o.affects = op[i].affects /\ o.mem = op[i].mem
             /\ o.noTransfer = op[i].noTransfer /\ o.mayFail = op[i].mayFail
             /\ o.group = op[i].group
             /\ o.first = op[i].first /\ o.last = op[i].last
             /\ o.status = op[i].status /\ o.printf = op[i].printf
             /\ o.exec = FAILED
             /\ op[i].exec = FAILED => o = op[i]
  BY <1>2, <1>5 DEF OpType
<1>6. ASSUME NEW i \in Ids \ Live PROVE op'[i] = IdleOp
  <2>1. ~\E k \in 1..Length : committed[k] = i /\ HasError[k]
    BY <1>1, <1>6, ListFacts
  <2>2. op[i] = IdleOp
    BY <1>1 DEF IdleInv
  <2>3. QED
    BY <1>2, <1>3, <1>6, <2>1, <2>2
<1>7. ASSUME NEW i \in FinishedOps PROVE op'[i] = IdleOp
  BY <1>2, <1>3
<1>8. ASSUME NEW k \in 1..Length, committed[k] \in Stays
      PROVE  LET i == committed[k] IN
             /\ At(k).exec = FAILED \/ Inherits(k)
                  => op'[i] = [op[i] EXCEPT !.exec = FAILED]
             /\ ~(At(k).exec = FAILED \/ Inherits(k)) => op'[i] = op[i]
  <2> DEFINE i == committed[k]
  <2>1. i \in Ids /\ i \notin FinishedOps
    BY <1>2, <1>8 DEF Stays
  <2>2. (\E j \in 1..Length : committed[j] = i /\ HasError[j]) <=> HasError[k]
    BY <1>2
  <2>3. HasError[k] <=> At(k).exec = FAILED \/ Inherits(k)
    BY ErrorOf
  <2>4. op'[i] = IF \E j \in 1..Length : committed[j] = i /\ HasError[j]
                 THEN [op[i] EXCEPT !.exec = FAILED] ELSE op[i]
    BY <1>3, <2>1
  <2>5. QED
    BY <2>2, <2>3, <2>4
<1>9. ASSUME NEW k \in 1..Length, committed[k] \in Stays
      PROVE  LET i == committed[k] IN
             /\ op'[i] \in OpType
             /\ Fixed(i)
             /\ op'[i].status = At(k).status
             /\ op'[i].printf = At(k).printf
             /\ Inherits(k) => op'[i].exec = FAILED
             /\ ~Inherits(k) => op'[i] = At(k)
  <2> DEFINE i == committed[k]
  <2>0. i \in Ids /\ At(k) = op[i]
    BY <1>2 DEF At
  <2>1. CASE Inherits(k)
    <3>1. op'[i] = [op[i] EXCEPT !.exec = FAILED]
      BY <1>8, <1>9, <2>1
    <3>2. QED
      BY <1>5, <2>0, <2>1, <3>1 DEF Fixed
  <2>2. CASE ~Inherits(k) /\ At(k).exec = FAILED
    <3>1. op'[i] = [op[i] EXCEPT !.exec = FAILED]
      BY <1>8, <1>9, <2>2
    <3>2. op'[i] = op[i]
      BY <1>5, <2>0, <2>2, <3>1
    <3>3. QED
      BY <1>2, <2>0, <2>2, <3>2 DEF Fixed
  <2>3. CASE ~Inherits(k) /\ At(k).exec # FAILED
    <3>1. op'[i] = op[i]
      BY <1>8, <1>9, <2>3
    <3>2. QED
      BY <1>2, <2>0, <2>3, <3>1 DEF Fixed
  <2>4. QED
    BY <2>1, <2>2, <2>3
<1>10. op' \in [Ids -> OpType]
  <2>1. ASSUME NEW i \in Ids PROVE op'[i] \in OpType
    <3>1. CASE i \in Stays
      <4>1. PICK k \in 1..Length : committed[k] = i
        BY <1>1, <3>1, ListFacts DEF Stays
      <4>2. QED
        BY <1>9, <3>1, <4>1
    <3>2. CASE i \notin Stays
      BY <1>4, <1>6, <1>7, <2>1, <3>2 DEF Stays
    <3>3. QED
      BY <3>1, <3>2
  <2>2. op' = [i \in Ids |-> op'[i]]
    BY <1>3
  <2>3. QED
    BY <2>1, <2>2
<1>11. \A i \in Ids \ Stays : op'[i] = IdleOp
  BY <1>6, <1>7 DEF Stays
<1>12. QED
  BY <1>9, <1>10, <1>11

(* An error is handed on to an operation that was not started, by the      *)
(* first of its group, which is pruned.                                    *)
LEMMA InheritedFrom ==
    ASSUME IInv, NEW k \in 1..Length, Inherits(k)
    PROVE  /\ At(k).status = QUEUED /\ ~At(k).first /\ failed[At(k).cmd]
           /\ k - 1 \in 1..Length /\ k - 1 < k
           /\ Same(k - 1, k) /\ First(k - 1)
           /\ committed[k - 1] \in FinishedOps
<1>1. TypeOK /\ ListInv /\ OpInv /\ GroupInv /\ FailInv
  BY DEF IInv
<1>2. /\ Length \in Nat /\ k - 1 \in 1..Length /\ k - 1 < k /\ k - 1 + 1 = k
      /\ ~At(k - 1).last /\ At(k - 1).exec = FAILED
      /\ committed[k - 1] \in Live /\ committed[k] \in Live
      /\ Finished(committed[k - 1])
  BY <1>1, ListFacts DEF Inherits
<1>3. Same(k - 1, k)
  BY <1>1, <1>2, NextInGroup
<1>4. At(k).status = QUEUED /\ ~At(k).first
  BY <1>1, <1>2, <1>3 DEF GroupInv
<1>5. failed[At(k - 1).cmd] /\ First(k - 1)
  BY <1>1, <1>2 DEF FailInv
<1>6. At(k).cmd = At(k - 1).cmd
  BY <1>1, <1>2, <1>3, GroupFacts DEF Same, At
<1>7. QED
  BY <1>2, <1>3, <1>4, <1>5, <1>6 DEF FinishedOps

(* The same for one operation that stays. *)
LEMMA PruneStays ==
    ASSUME IInv, PrunePass, NEW i \in Stays
    PROVE  /\ Fixed(i)
           /\ op'[i].status = op[i].status /\ op'[i].printf = op[i].printf
           /\ \/ op'[i] = op[i]
              \/ op'[i].exec = FAILED /\ op[i].status = QUEUED /\ ~op[i].first
<1>1. TypeOK /\ ListInv
  BY DEF IInv
<1>2. PICK k \in 1..Length : committed[k] = i
  BY <1>1, ListFacts DEF Stays
<1>3. At(k) = op[i]
  BY <1>2 DEF At
<1>4. CASE Inherits(k)
  BY <1>2, <1>3, <1>4, PruneOps, InheritedFrom
<1>5. CASE ~Inherits(k)
  BY <1>2, <1>3, <1>5, PruneOps
<1>6. QED
  BY <1>4, <1>5

(* Where the operations of the new list were in the old one.               *)
Moved(h) ==
    /\ h \in [1..Length' -> 1..Length]
    /\ \A j, k \in 1..Length' : j < k => h[j] < h[k]
    /\ \A k \in 1..Length' :
         /\ committed'[k] = committed[h[k]] /\ committed[h[k]] \in Stays
         /\ At(k)' = op'[committed[h[k]]] /\ Fixed(committed[h[k]])
         /\ At(k)'.status = At(h[k]).status
    /\ \A j \in 1..Length : committed[j] \in Stays =>
         \E k \in 1..Length' : h[k] = j
    /\ \A j, k \in 1..Length' : Same(j, k)' <=> Same(h[j], h[k])
(* Where each operation that stays was in the list before the pass. *)
LEMMA PruneMoves ==
    ASSUME IInv, PrunePass
    PROVE  \E h : Moved(h)
<1>1. PICK h : PickedBy(h, committed', committed, Stays, Length)
  BY PruneLists
<1>2. /\ h \in [1..Length' -> 1..Length]
      /\ \A j, k \in 1..Length' : j < k => h[j] < h[k]
      /\ \A k \in 1..Length' :
           committed'[k] = committed[h[k]] /\ committed[h[k]] \in Stays
      /\ \A j \in 1..Length : committed[j] \in Stays =>
           \E k \in 1..Length' : h[k] = j
  BY <1>1 DEF PickedBy, Length
<1>3. ASSUME NEW k \in 1..Length'
      PROVE  /\ At(k)' = op'[committed[h[k]]] /\ Fixed(committed[h[k]])
             /\ At(k)'.status = At(h[k]).status
             /\ At(k)'.group = At(h[k]).group
  <2>1. At(k)' = op'[committed[h[k]]]
    BY <1>2 DEF At
  <2>2. committed[h[k]] \in Stays
    BY <1>2
  <2>3. Fixed(committed[h[k]]) /\ op'[committed[h[k]]].status = At(h[k]).status
    BY <2>2, PruneStays DEF At
  <2>4. QED
    BY <2>1, <2>3 DEF Fixed, At
<1>4. \A j, k \in 1..Length' : Same(j, k)' <=> Same(h[j], h[k])
  BY <1>3 DEF Same
<1>5. Moved(h)
  BY <1>2, <1>3, <1>4 DEF Moved
<1>6. QED
  BY <1>5

(* The pass keeps GroupInv: what is left of a group is a suffix of it. *)
LEMMA PruneKeepsGroups ==
    ASSUME IInv, PrunePass
    PROVE  GroupInv'
<1>1. TypeOK /\ ListInv /\ OpInv /\ GroupInv
  BY DEF IInv
<1>2. PICK h : Moved(h)
  BY PruneMoves
<1>3. Live' = Stays /\ last_op' = last_op /\ Length' \in Nat
  BY PruneLists DEF PrunePass, events
<1>4. ASSUME NEW i \in Stays
      PROVE  /\ op'[i].group \in Stays /\ last_op'[op'[i].cmd] = op'[i].group
             /\ op'[op'[i].group].cmd = op'[i].cmd
  <2> DEFINE g == op[i].group
  <2>1. /\ i \in Live /\ g \in Live /\ last_op[op[i].cmd] = g
        /\ op[g].cmd = op[i].cmd
    BY <1>1 DEF GroupInv, Stays
  <2>2. op[g].group = g
    BY <1>1, <2>1, GroupFacts
  <2>3. op[g].last
    BY <1>1, <2>1, <2>2 DEF OpInv, ShapeOf
  <2>4. PICK k \in 1..Length : committed[k] = i
    BY <1>1, <2>1, ListFacts
  <2>5. PICK l \in 1..Length : committed[l] = g
    BY <1>1, <2>1, ListFacts
  <2>6. /\ Same(k, l) /\ Same(l, k) /\ At(l).last /\ At(l) = op[g]
        /\ k \in Nat /\ l \in Nat
    BY <1>1, <2>2, <2>3, <2>4, <2>5, ListFacts DEF Same, At
  <2>7. g \in Stays
    <3>1. CASE k = l
      BY <2>4, <2>5, <3>1
    <3>2. CASE l < k
      BY <1>1, <2>6, <3>2 DEF GroupInv
    <3>3. CASE k < l
      <4>1. op[g].status = QUEUED
        BY <1>1, <2>6, <3>3 DEF GroupInv
      <4>2. QED
        BY <2>1, <4>1 DEF Stays, FinishedOps, Finished
    <3>4. QED
      BY <2>6, <3>1, <3>2, <3>3
  <2>8. Fixed(i) /\ Fixed(g)
    BY <2>7, PruneStays
  <2>9. QED
    BY <1>3, <2>1, <2>7, <2>8 DEF Fixed
<1>5. ASSUME NEW k \in 1..Length', NEW l \in 1..Length', k < l, Same(k, l)'
      PROVE  /\ At(l)'.status = QUEUED /\ ~At(l)'.first /\ ~At(k)'.last
             /\ \A m \in k..l : Same(k, m)'
  <2>1. /\ h[k] \in 1..Length /\ h[l] \in 1..Length /\ h[k] < h[l]
        /\ Same(h[k], h[l])
    BY <1>2, <1>5 DEF Moved
  <2>2. /\ At(h[l]).status = QUEUED /\ ~At(h[l]).first /\ ~At(h[k]).last
        /\ \A m \in h[k]..h[l] : Same(h[k], m)
    BY <1>1, <2>1 DEF GroupInv
  <2>3. At(l)'.status = QUEUED /\ ~At(l)'.first /\ ~At(k)'.last
    BY <1>2, <2>2 DEF Moved, Fixed, At
  <2>4. ASSUME NEW m \in k..l PROVE Same(k, m)'
    <3>1. m \in 1..Length' /\ m \in Nat /\ k \in Nat /\ l \in Nat
      BY <1>3, <1>5
    <3>2. h[m] \in 1..Length /\ (k < m => h[k] < h[m]) /\ (m < l => h[m] < h[l])
      BY <1>2, <3>1 DEF Moved
    <3>3. Length \in Nat
      BY <1>1, ListFacts
    <3>4. h[m] \in h[k]..h[l]
      <4>1. CASE m = k
        BY <2>1, <3>2, <3>3, <4>1
      <4>2. CASE m = l
        BY <2>1, <3>2, <3>3, <4>2
      <4>3. CASE k < m /\ m < l
        BY <2>1, <3>2, <3>3, <4>3
      <4>4. QED
        BY <3>1, <4>1, <4>2, <4>3
    <3>5. Same(h[k], h[m])
      BY <2>2, <3>4
    <3>6. QED
      BY <1>2, <3>1, <3>5 DEF Moved
  <2>5. QED
    BY <2>3, <2>4
<1>6. QED
  BY <1>3, <1>4, <1>5 DEF GroupInv

(* The pass keeps FailInv: an error reaches the operations behind it. *)
LEMMA PruneKeepsFail ==
    ASSUME IInv, PrunePass
    PROVE  FailInv'
<1>1. TypeOK /\ ListInv /\ OpInv /\ GroupInv /\ FailInv
  BY DEF IInv
<1>2. PICK h : Moved(h)
  BY PruneMoves
<1>3. failed' = failed /\ Length' \in Nat /\ Length \in Nat
  BY <1>1, PruneLists, ListFacts DEF PrunePass, events
<1> SUFFICES ASSUME NEW k \in 1..Length'
             PROVE  /\ At(k)'.exec = FAILED => failed'[At(k)'.cmd] /\ First(k)'
                    /\ First(k)' /\ failed'[At(k)'.cmd] => At(k)'.exec = FAILED
  BY DEF FailInv
<1>4. PICK l \in 1..Length : l = h[k]
  BY <1>2 DEF Moved
<1>5. /\ committed[l] \in Stays /\ Fixed(committed[l])
      /\ At(k)' = op'[committed[l]] /\ At(k)'.cmd = At(l).cmd
  BY <1>2, <1>4 DEF Moved, Fixed, At
<1>6. /\ Inherits(l) => At(k)'.exec = FAILED
      /\ ~Inherits(l) => At(k)' = At(l)
  BY <1>5, PruneOps
<1>7. ASSUME NEW j \in 1..k - 1
      PROVE  /\ j \in 1..Length' /\ h[j] \in 1..Length /\ h[j] < l
             /\ Same(j, k)' <=> Same(h[j], l)
             /\ committed[h[j]] \in Stays
  <2>1. j \in 1..Length' /\ j < k
    BY <1>3
  <2>2. QED
    BY <1>2, <1>4, <2>1 DEF Moved
<1>8. First(l) => First(k)'
  <2> SUFFICES ASSUME First(l), NEW j \in 1..k - 1, Same(j, k)' PROVE FALSE
    BY DEF First
  <2>1. h[j] \in 1..l - 1 /\ Same(h[j], l)
    BY <1>3, <1>7
  <2>2. QED
    BY <2>1 DEF First
<1>9. CASE Inherits(l)
  <2>1. /\ l - 1 \in 1..Length /\ Same(l - 1, l) /\ First(l - 1)
        /\ committed[l - 1] \in FinishedOps /\ failed[At(l).cmd]
    BY <1>9, InheritedFrom
  <2>2. First(k)'
    <3> SUFFICES ASSUME NEW j \in 1..k - 1, Same(j, k)' PROVE FALSE
      BY DEF First
    <3>1. /\ h[j] \in 1..Length /\ h[j] < l /\ Same(h[j], l)
          /\ committed[h[j]] \in Stays
      BY <1>7
    <3>2. h[j] # l - 1
      BY <2>1, <3>1 DEF Stays
    <3>3. h[j] \in 1..l - 1 - 1
      BY <1>3, <3>1, <3>2
    <3>4. Same(h[j], l - 1)
      BY <2>1, <3>1 DEF Same
    <3>5. QED
      BY <2>1, <3>3, <3>4 DEF First
  <2>3. QED
    BY <1>3, <1>5, <1>6, <1>9, <2>1, <2>2
<1>10. CASE ~Inherits(l)
  <2>1. At(k)' = At(l)
    BY <1>6, <1>10
  <2>2. At(k)'.exec = FAILED => failed'[At(k)'.cmd] /\ First(k)'
    BY <1>1, <1>3, <1>8, <2>1 DEF FailInv
  <2>3. ASSUME First(k)', failed[At(l).cmd] PROVE First(l)
    <3> SUFFICES ASSUME NEW j \in 1..l - 1, Same(j, l) PROVE FALSE
      BY DEF First
    <3>0. j \in 1..Length /\ j < l
      BY <1>3
    <3>1. l - 1 \in 1..Length /\ l - 1 \in j..l /\ j <= l - 1
      BY <1>3, <3>0
    <3>2. Same(l - 1, l)
      BY <1>1, <3>0, <3>1 DEF GroupInv, Same
    <3>3. committed[l - 1] \notin Stays
      <4> SUFFICES ASSUME committed[l - 1] \in Stays PROVE FALSE
        OBVIOUS
      <4>1. PICK m \in 1..Length' : h[m] = l - 1
        BY <1>2, <3>1 DEF Moved
      <4>2. ~(k < m) /\ k # m
        BY <1>2, <1>3, <1>4, <4>1 DEF Moved
      <4>3. m \in 1..k - 1
        BY <1>3, <4>2
      <4>4. Same(m, k)'
        BY <1>7, <3>2, <4>1, <4>3
      <4>5. QED
        BY <2>3, <4>3, <4>4 DEF First
    <3>4. committed[l - 1] \in FinishedOps /\ committed[l - 1] \in Live
      BY <1>1, <3>1, <3>3, ListFacts DEF Stays
    <3>5. Finished(committed[l - 1]) /\ At(l - 1).status # QUEUED
      BY <3>4 DEF FinishedOps, Finished, At
    <3>6. First(l - 1)
      BY <1>1, <3>1, <3>5, GroupFacts
    <3>7. At(l - 1).cmd = At(l).cmd
      BY <1>1, <3>1, <3>2, GroupFacts, ListFacts DEF Same, At
    <3>8. At(l - 1).exec = FAILED
      BY <1>1, <2>3, <3>1, <3>6, <3>7 DEF FailInv
    <3>9. ~At(l - 1).last
      <4>1. l - 1 < l
        BY <1>3
      <4>2. QED
        BY <1>1, <3>1, <3>2, <4>1 DEF GroupInv
    <3>10. QED
      BY <1>10, <3>1, <3>5, <3>8, <3>9 DEF Inherits
  <2>4. QED
    BY <1>1, <1>3, <1>5, <2>1, <2>2, <2>3 DEF FailInv
<1>11. QED
  BY <1>9, <1>10

(* The update ends with the round in which the prune pass found nothing.   *)
LEMMA LastPrune ==
    ASSUME IInv, PrunePass, pc' = "done"
    PROVE  Progress /\ Quiet /\ \A i \in Live : op'[i] = op[i]
<1>1. TypeOK /\ ListInv /\ IdleInv
  BY DEF IInv
<1> DEFINE d == Within(committed, FinishedOps)
<1>2. pc = "prune" /\ ~num_updates /\ d = <<>>
  BY <1>1 DEF PrunePass, AnotherRound, TypeOK
<1>3. FinishedOps = {}
  <2>1. ToSet(d) = FinishedOps
    BY PruneLists
  <2>2. ToSet(<<>>) = {}
    BY DEF ToSet
  <2>3. QED
    BY <1>2, <2>1, <2>2
<1>4. Stays = Live
  BY <1>3 DEF Stays
<1>5. committed' = committed
  <2> DEFINE T == Ids
  <2>1. committed \in Seq(T) /\ ToSet(committed) \subseteq Live
    BY <1>1 DEF TypeOK, Live
  <2> HIDE DEF T
  <2>2. Within(committed, Live) = committed
    BY <2>1, PicksAll
  <2>3. QED
    BY <1>4, <2>2 DEF PrunePass, Stays
<1>6. free' = free
  <2>1. free' = Reverse(<<>>) \o free
    BY <1>2 DEF PrunePass, FreeAfterPrune
  <2>2. Reverse(<<>>) = <<>>
    BY DEF Reverse
  <2>3. QED
    BY <1>1, <2>1, <2>2 DEF TypeOK
<1>7. ASSUME NEW i \in Live PROVE op'[i] = op[i]
  <2>1. PICK k \in 1..Length : committed[k] = i
    BY <1>1, ListFacts
  <2>2. ~Inherits(k)
    BY <1>3, InheritedFrom
  <2>3. QED
    BY <1>4, <2>1, <2>2, PruneOps DEF At
<1>8. \A i \in Ids \ Live : op'[i] = op[i]
  BY <1>1, <1>4, PruneOps DEF IdleInv
<1>9. op' \in [Ids -> OpType]
  BY PruneOps
<1>10. Progress
  BY <1>5, <1>6, <1>7, <1>8, <1>9 DEF Progress, Fixed
<1>11. QED
  BY <1>2, <1>7, <1>10 DEF Quiet

(* The pass of acl_do_prune keeps the invariant. *)
LEMMA PruneStep ==
    ASSUME IInv, PrunePass
    PROVE  IInv'
<1>1. /\ TypeOK /\ ListInv /\ IdleInv /\ OpInv /\ GroupInv /\ EventInv
      /\ CompletedOnce /\ FailInv /\ CurrentInv /\ RingInv /\ PruneInv
      /\ QuietInv /\ ReprogInv
  BY DEF IInv
<1>2. /\ UNCHANGED <<cursor, num_updates, caller, events, at, bins, ring>>
      /\ pc' \in {"submit", "done"}
  BY DEF PrunePass
<1>3. /\ status' = status /\ last_op' = last_op /\ current_op' = current_op
      /\ posted' = posted /\ failed' = failed
  BY <1>2 DEF events
<1>4. /\ ListInv' /\ Live' = Stays /\ Stays \subseteq Live /\ Live \subseteq Ids
      /\ committed' \in Seq(Ids) /\ free' \in Seq(Ids)
  BY <1>1, PruneLists, ListFacts DEF Stays
<1>5. op' \in [Ids -> OpType] /\ \A i \in Ids \ Stays : op'[i] = IdleOp
  BY PruneOps
<1>6. TypeOK'
  BY <1>1, <1>2, <1>4, <1>5 DEF TypeOK, events, bins
<1>7. IdleInv'
  BY <1>4, <1>5 DEF IdleInv
<1>8. ASSUME NEW i \in Stays PROVE ShapeOf(i)' /\ StateOf(i)'
  <2>1. ShapeOf(i) /\ StateOf(i)
    BY <1>1, <1>4 DEF OpInv
  <2>2. /\ Fixed(i)
        /\ op'[i].status = op[i].status /\ op'[i].printf = op[i].printf
        /\ \/ op'[i] = op[i]
           \/ op'[i].exec = FAILED /\ op[i].status = QUEUED /\ ~op[i].first
    BY PruneStays, ZenonT(60)
  <2>3. ShapeOf(i)'
    BY <2>1, <2>2 DEF ShapeOf, Fixed, BuffersOf
  <2>4. StateOf(i)'
    BY <2>1, <2>2 DEF StateOf, Fixed
  <2>5. QED
    BY <2>3, <2>4
<1>9. OpInv'
  BY <1>4, <1>8 DEF OpInv
<1>10. EventInv'
  <2>1. \A i \in Stays : op'[i].cmd = op[i].cmd /\ op'[i].status = op[i].status
    BY PruneStays DEF Fixed
  <2>2. QED
    BY <1>1, <1>2, <1>3, <1>4, <2>1 DEF EventInv
<1>11. CompletedOnce'
  BY <1>1, <1>3 DEF CompletedOnce
<1>12. \A i \in Stays : op[i].status # QUEUED => op'[i] = op[i]
  BY PruneStays
<1>13. CurrentInv'
  <2> SUFFICES ASSUME NEW i \in Stays, op'[i].status \in {SUBMITTED, RUNNING},
                      op'[i].exec # FAILED
               PROVE  current_op'[op'[i].cmd] = i
    BY <1>4 DEF CurrentInv
  <2>1. op'[i] = op[i]
    BY <1>12, PruneStays
  <2>2. QED
    BY <1>1, <1>3, <1>4, <2>1 DEF CurrentInv
<1>14. RingInv'
  <2> SUFFICES ASSUME NEW a \in Accels
               PROVE  /\ IsInjective(ring'[a])
                      /\ \A i \in ToSet(ring'[a]) :
                           /\ i \in Live' /\ op'[i].type = "KERNEL"
                           /\ Command[op'[i].cmd].accel = a
                           /\ op'[i].status \in {SUBMITTED, RUNNING}
                           /\ op'[i].exec \in {SUBMITTED, RUNNING}
    BY DEF RingInv
  <2>1. ring'[a] = ring[a]
    BY <1>2
  <2>2. \A i \in ToSet(ring[a]) : i \in Stays /\ op'[i] = op[i]
    BY <1>1, <1>12 DEF RingInv, Stays, FinishedOps, Finished
  <2>3. QED
    BY <1>1, <1>4, <2>1, <2>2 DEF RingInv
<1>15. PruneInv'
  <2>1. \A i \in Stays : ~Finished(i)
    BY DEF Stays, FinishedOps
  <2>2. QED
    BY <1>4, <2>1, PruneStays DEF PruneInv, Finished
<1>16. QuietInv'
  <2>1. CASE pc' = "done"
    <3>1. Progress /\ Quiet /\ \A i \in Live : op'[i] = op[i]
      BY <2>1, LastPrune
    <3>2. QED
      BY <1>1, <1>2, <3>1, QuietKept
  <2>2. CASE pc' # "done"
    BY <1>2, <2>2 DEF QuietInv, Quiet
  <2>3. QED
    BY <2>1, <2>2
<1>17. ReprogInv'
  <2>1. PICK h : Moved(h)
    BY PruneMoves
  <2> SUFFICES ASSUME NEW j \in 1..Length', NEW k \in 1..Length', j < k,
                      At(k)'.type = "KERNEL", At(k)'.status # QUEUED,
                      At(j)'.type = "REPROGRAM", Dev(j)' = Dev(k)'
               PROVE  At(j)'.status = COMPLETE
    BY DEF ReprogInv
  <2>2. /\ h[j] \in 1..Length /\ h[k] \in 1..Length /\ h[j] < h[k]
        /\ At(j)'.status = At(h[j]).status /\ At(k)'.status = At(h[k]).status
        /\ At(j)' = op'[committed[h[j]]] /\ At(k)' = op'[committed[h[k]]]
        /\ Fixed(committed[h[j]]) /\ Fixed(committed[h[k]])
    BY <2>1 DEF Moved
  <2>3. /\ At(h[k]).type = "KERNEL" /\ At(h[j]).type = "REPROGRAM"
        /\ Dev(h[j]) = Dev(h[k])
    BY <2>2 DEF Fixed, At, Dev
  <2>4. QED
    BY <1>1, <2>2, <2>3 DEF ReprogInv
<1>18. QED
  BY <1>6, <1>4, <1>7, <1>9, <1>10, <1>11, <1>13, <1>14, <1>15, <1>16, <1>17,
     PruneKeepsGroups, PruneKeepsFail DEF IInv

----------------------------------------------------------------------------
(* The submit functions.                                                   *)

(* What every proposed operation is: the s that is the n-th of size.       *)
Proposable(c, s, n, size) ==
    /\ s \in OpSpec
    /\ \A x \in s.affects : x[2] \in ConflictsOf(s.type)
    /\ s.type = "KERNEL" =>
         /\ n = size /\ ~s.mayFail /\ IsKernelCommand(c)
         /\ s.affects = {<<Command[c].device, "KERNEL">>}
    /\ IsKernelCommand(c) /\ n = size => s.type = "KERNEL"
    /\ IsKernelCommand(c) /\ n # size => s.type \in {"REPROGRAM", "MEM_MIGRATION"}
    /\ s.type = "REPROGRAM" =>
         /\ s.affects = {<<Command[c].device, "REPROGRAM">>}
         /\ s.mayFail => Command[c].badBin
         /\ n = 1 /\ Command[c].bin \in Binaries
    /\ s.type = "MEM_MIGRATION" =>
         s.mem \in Buffers /\ s.mem \in BuffersOf(c) /\ ~s.mayFail
    /\ s.noTransfer => s.type \in MayMoveNothing

(* What the operations of a command are, without the reprogramming. *)
LEMMA OwnOps ==
    ASSUME NEW c \in Commands
    PROVE  LET s == Command[c].ops IN
           /\ s \in Seq(OpSpec) /\ Len(s) \in Nat \ {0}
           /\ \A n \in 1..Len(s) :
                /\ Proposable(c, s[n], n, Len(s))
                /\ IsKernelCommand(c) => s[n].type # "REPROGRAM"
<1> DEFINE C == Command[c]
           s == C.ops
           T == OpSpec
<1>1. C \in CommandType /\ s \in Seq(T) /\ s # <<>>
  BY CommandAssumption, SubmitAssumption DEF CommandType
<1>2. /\ Len(s) \in Nat \ {0} /\ DOMAIN s = 1..Len(s)
      /\ \A n \in 1..Len(s) : s[n] \in T
  <2> HIDE DEF s, T
  <2>1. Len(s) \in Nat /\ DOMAIN s = 1..Len(s)
    BY <1>1, LenProperties
  <2>2. Len(s) # 0
    BY <1>1, EmptySeq
  <2>3. QED
    BY <1>1, <2>1, <2>2, ElementOfSeq
<1>3. ASSUME NEW n \in 1..Len(s)
      PROVE  Proposable(c, s[n], n, Len(s))
             /\ (IsKernelCommand(c) => s[n].type # "REPROGRAM")
  <2>1. SpecOf(s[n], C)
    BY <1>2, SubmitAssumption
  <2>2. s[n] \in OpSpec /\ s[n].type \in OpTypes /\ s[n].mayFail \in BOOLEAN
    BY <1>2 DEF OpSpec
  <2>3. s[n].mayFail => s[n].type \notin {"KERNEL", "MEM_MIGRATION"}
    BY <1>2, FailAssumption
  <2>4. s[n].type = "MEM_MIGRATION" => s[n].mem \in BuffersOf(c)
    BY <1>2, <2>1, NoneAssumption DEF SpecOf, BuffersOf
  <2>5. CASE C.kind = "kernel"
    <3>1. Launches(C)
      BY <2>5, SubmitAssumption
    <3>2. n = Len(s) => s[n].type = "KERNEL"
      BY <3>1 DEF Launches
    <3>3. n # Len(s) => s[n].type = "MEM_MIGRATION"
      <4>1. n # Len(s) => n \in 1..Len(s) - 1
        BY <1>2
      <4>2. QED
        BY <3>1, <4>1 DEF Launches
    <3>4. QED
      BY <2>1, <2>2, <2>3, <2>4, <2>5, <3>2, <3>3
         DEF Proposable, SpecOf, IsKernelCommand
  <2>6. CASE C.kind = "program"
    <3>1. Len(s) = 1 /\ s[1].type = "REPROGRAM" /\ C.bin \in Binaries
      BY <2>6, SubmitAssumption DEF Programs
    <3>2. n = 1
      BY <3>1
    <3>3. QED
      BY <2>1, <2>2, <2>3, <2>4, <2>6, <3>1, <3>2
         DEF Proposable, SpecOf, IsKernelCommand
  <2>7. CASE C.kind = "other"
    <3>1. {"KERNEL", "REPROGRAM"} \cap TypesOf(C) = {}
      BY <2>7, SubmitAssumption
    <3>2. s[n].type \notin {"KERNEL", "REPROGRAM"}
      BY <1>2, <3>1 DEF TypesOf
    <3>3. QED
      BY <2>1, <2>2, <2>3, <2>4, <2>7, <3>2
         DEF Proposable, SpecOf, IsKernelCommand
  <2>8. QED
    BY <1>1, <2>5, <2>6, <2>7 DEF CommandType
<1>4. QED
  BY <1>1, <1>2, <1>3

(* The operations a submission proposes: numbered as one group, of known   *)
(* types.                                                                  *)
LEMMA ProposalFacts ==
    ASSUME NEW c \in Commands
    PROVE  /\ Proposal(c) \in Seq(OpSpec) /\ Len(Proposal(c)) \in Nat \ {0}
           /\ \A n \in 1..Len(Proposal(c)) :
                Proposable(c, Proposal(c)[n], n, Len(Proposal(c)))
<1> DEFINE P == Proposal(c)
           s == Command[c].ops
<1>1. /\ s \in Seq(OpSpec) /\ Len(s) \in Nat \ {0}
      /\ \A n \in 1..Len(s) :
           /\ Proposable(c, s[n], n, Len(s))
           /\ IsKernelCommand(c) => s[n].type # "REPROGRAM"
  BY OwnOps
<1>2. CASE ~(IsKernelCommand(c) /\ NeedReprogram(c))
  <2>1. P = s
    BY <1>2 DEF Proposal
  <2>2. QED
    BY <1>1, <2>1
<1>3. CASE IsKernelCommand(c) /\ NeedReprogram(c)
  <2> DEFINE r == ReprogramOp(c)
             T == OpSpec
             q == <<r>>
  <2>1. P = q \o s
    BY <1>3 DEF Proposal
  <2>2. Command[c] \in CommandType /\ Command[c].bin \in Binaries
    <3>1. Command[c] \in CommandType /\ Launches(Command[c])
      BY <1>3, CommandAssumption, SubmitAssumption DEF IsKernelCommand
    <3>2. QED
      BY <3>1 DEF Launches
  <2>3. Command[c].device \in Devices /\ Command[c].badBin \in BOOLEAN
    BY <2>2 DEF CommandType
  <2>4. r \in OpSpec
    BY <2>3 DEF ReprogramOp, OpSpec, OpTypes, ConflictTypes
  <2> DEFINE n == Len(s)
  <2>5. /\ q \o s \in Seq(T) /\ Len(q \o s) = n + 1
        /\ (q \o s)[1] = r
        /\ \A k \in 1..n : (q \o s)[1 + k] = s[k]
    <3>1. q \in Seq(T) /\ s \in Seq(T)
      BY <1>1, <2>4
    <3>2. Len(q) = 1 /\ q[1] = r
      OBVIOUS
    <3> HIDE DEF q, T, s
    <3>3. /\ q \o s \in Seq(T) /\ Len(q \o s) = Len(q) + Len(s)
          /\ \A k \in 1..Len(q) : (q \o s)[k] = q[k]
          /\ \A k \in 1..Len(s) : (q \o s)[Len(q) + k] = s[k]
      BY ONLY <3>1, ConcatMembers
    <3>4. QED
      BY <1>1, <3>2, <3>3 DEF s
  <2>6. Proposable(c, r, 1, n + 1)
    <3>1. 1 # n + 1
      BY <1>1
    <3>2. r.type = "REPROGRAM" /\ ~r.noTransfer
          /\ r.affects = {<<Command[c].device, "REPROGRAM">>}
          /\ r.mayFail = Command[c].badBin
      BY DEF ReprogramOp
    <3>3. "REPROGRAM" \in ConflictsOf("REPROGRAM")
      BY DEF ConflictsOf
    <3> HIDE DEF r
    <3>4. QED
      BY <2>2, <2>4, <3>1, <3>2, <3>3 DEF Proposable
  <2>7. ASSUME NEW k \in 1..n PROVE Proposable(c, s[k], 1 + k, n + 1)
    <3>1. /\ Proposable(c, s[k], k, n) /\ s[k].type # "REPROGRAM"
          /\ 1 + k = n + 1 <=> k = n
      BY <1>1, <1>3
    <3>2. QED
      BY <3>1 DEF Proposable
  <2>8. ASSUME NEW m \in 1..n + 1 PROVE Proposable(c, P[m], m, n + 1)
    <3>1. CASE m = 1
      BY <2>1, <2>5, <2>6, <3>1
    <3>2. CASE m # 1
      <4>1. m - 1 \in 1..n /\ 1 + (m - 1) = m
        BY <1>1, <3>2
      <4>2. P[m] = s[m - 1]
        BY <2>1, <2>5, <4>1
      <4>3. Proposable(c, s[m - 1], 1 + (m - 1), n + 1)
        BY <2>7, <4>1
      <4>4. QED
        BY <4>1, <4>2, <4>3
    <3>3. QED
      BY <3>1, <3>2
  <2>9. Len(P) = n + 1 /\ P \in Seq(OpSpec) /\ n + 1 \in Nat \ {0}
    BY <1>1, <2>1, <2>5
  <2> HIDE DEF P, n, s
  <2>10. QED
    BY <2>8, <2>9 DEF P
<1>4. QED
  BY <1>2, <1>3

(* What a commit makes of the lists and of the operations: those of the    *)
(* group, ids[1..size], come after all others.                             *)
Grows(c, ids, size) ==
    /\ c \in Commands /\ size = Len(Proposal(c)) /\ size \in Nat \ {0}
    /\ Length' = Length + size
    /\ \A k \in 1..Length : committed'[k] = committed[k] /\ At(k)' = At(k)
    /\ \A n \in 1..size :
         /\ committed'[Length + n] = ids[n] /\ ids[n] \in Ids \ Live
         /\ \A k : k = Length + n => At(k)' = op'[ids[n]]
         /\ op'[ids[n]] = ProposedOp(c, n, size, ids[size])
         /\ ids[n] = ids[size] <=> n = size
    /\ Live' = Live \cup {ids[n] : n \in 1..size}
    /\ \A i \in Live : op'[i] = op[i] /\ op[i].cmd # c
    /\ \A k \in 1..Length' :
         k \in 1..Length \/ \E n \in 1..size : k = Length + n
    /\ \A k \in 1..Length, n \in 1..size :
         k \in 1..Length' /\ Length + n \in 1..Length' /\ k < Length + n

(* acl_commit_proposed_device_ops: the proposed operations are at the end  *)
(* of the list, in order, and the rest is untouched.                       *)
LEMMA CommitGrows ==
    ASSUME IInv, NEW c \in Commands, Commit(c)
    PROVE  /\ ListInv' /\ IdleInv' /\ op' \in [Ids -> OpType]
           /\ committed' \in Seq(Ids) /\ free' \in Seq(Ids)
           /\ \E ids, size : Grows(c, ids, size)
<1>1. TypeOK /\ ListInv /\ IdleInv /\ OpInv /\ GroupInv /\ EventInv
  BY DEF IInv
<1> DEFINE P == Proposal(c)
           size == Len(P)
           T == Ids
           ids == SubSeq(free, 1, size)
           rest == SubSeq(free, size + 1, Len(free))
           g == ids[size]
<1>2. /\ caller = c /\ size <= Len(free)
      /\ committed' = committed \o ids /\ free' = rest
      /\ op' = [i \in Ids |->
                  IF i \in ToSet(ids)
                  THEN ProposedOp(c, CHOOSE n \in 1..size : ids[n] = i, size, g)
                  ELSE op[i]]
  BY DEF Commit
<1>3. size \in Nat \ {0} /\ \A n \in 1..size : Proposable(c, P[n], n, size)
  BY ProposalFacts
<1>4. /\ committed \in Seq(T) /\ free \in Seq(T)
      /\ IsInjective(committed) /\ IsInjective(free)
      /\ ToSet(committed) = Live /\ Live \cap ToSet(free) = {}
      /\ Live \cup ToSet(free) = T
      /\ Length \in Nat /\ Len(committed) = Length
  BY <1>1, ListFacts DEF TypeOK, ListInv, Live, Length
<1> HIDE DEF T, ids, size, rest, P
<1>5. /\ ids \in Seq(T) /\ rest \in Seq(T) /\ Len(ids) = size
      /\ IsInjective(ids) /\ IsInjective(rest)
      /\ ToSet(ids) \cap ToSet(rest) = {}
      /\ ToSet(ids) \cup ToSet(rest) = ToSet(free)
  <2>1. size \in 0..Len(free)
    <3>1. Len(free) \in Nat
      BY <1>4, LenProperties
    <3>2. QED
      BY <1>2, <1>3, <3>1
  <2>2. QED
    BY <1>4, <2>1, SplitMembers DEF ids, rest
<1>6. /\ committed \o ids \in Seq(T)
      /\ Len(committed \o ids) = Length + size
      /\ \A k \in 1..Length : (committed \o ids)[k] = committed[k]
      /\ \A k \in 1..size : (committed \o ids)[Length + k] = ids[k]
      /\ ToSet(committed \o ids) = Live \cup ToSet(ids)
      /\ IsInjective(committed \o ids)
  <2>1. ids \in Seq(T) /\ committed \in Seq(T)
    BY <1>4, <1>5
  <2>2. /\ committed \o ids \in Seq(T)
        /\ Len(committed \o ids) = Len(committed) + Len(ids)
        /\ \A k \in 1..Len(committed) : (committed \o ids)[k] = committed[k]
        /\ \A k \in 1..Len(ids) : (committed \o ids)[Len(committed) + k] = ids[k]
        /\ ToSet(committed \o ids) = ToSet(committed) \cup ToSet(ids)
        /\ IsInjective(committed) /\ IsInjective(ids)
             /\ ToSet(committed) \cap ToSet(ids) = {} => IsInjective(committed \o ids)
    BY ONLY <2>1, ConcatMembers
  <2>3. ToSet(committed) \cap ToSet(ids) = {}
    BY <1>4, <1>5
  <2>4. QED
    BY <1>4, <1>5, <2>2, <2>3
<1>7. /\ DOMAIN ids = 1..size
      /\ \A n \in 1..size : ids[n] \in T /\ ids[n] \in ToSet(ids)
      /\ \A i \in ToSet(ids) : \E n \in 1..size : ids[n] = i
      /\ \A m, n \in 1..size : ids[m] = ids[n] => m = n
  <2>1. ids \in Seq(T) /\ IsInjective(ids) /\ Len(ids) = size
    BY <1>5
  <2>2. /\ DOMAIN ids = 1..Len(ids)
        /\ \A n \in 1..Len(ids) : ids[n] \in T /\ ids[n] \in ToSet(ids)
        /\ \A i \in ToSet(ids) : \E n \in 1..Len(ids) : ids[n] = i
        /\ \A m, n \in 1..Len(ids) : ids[m] = ids[n] => m = n
    BY ONLY <2>1, PositionsOf
  <2>3. QED
    BY <2>1, <2>2
<1>8. /\ Live' = Live \cup ToSet(ids) /\ Length' = Length + size
      /\ Live \cap ToSet(ids) = {} /\ ToSet(ids) = {ids[n] : n \in 1..size}
      /\ \A i \in Live : i \in Ids
  <2>1. Live' = Live \cup ToSet(ids) /\ Length' = Length + size
    BY <1>2, <1>6 DEF Live, Length
  <2>2. Live \cap ToSet(ids) = {} /\ \A i \in Live : i \in Ids
    BY <1>4, <1>5 DEF T
  <2>3. ToSet(ids) = {ids[n] : n \in 1..size}
    BY <1>7
  <2>4. QED
    BY <2>1, <2>2, <2>3
<1>9. ASSUME NEW n \in 1..size
      PROVE  op'[ids[n]] = ProposedOp(c, n, size, g)
  <2>1. (CHOOSE m \in 1..size : ids[m] = ids[n]) = n
    BY <1>7
  <2>2. ids[n] \in Ids /\ ids[n] \in ToSet(ids)
    BY <1>7 DEF T
  <2>3. op'[ids[n]] = ProposedOp(c, CHOOSE m \in 1..size : ids[m] = ids[n],
                                 size, g)
    BY <1>2, <2>2
  <2>4. QED
    BY <2>1, <2>3
<1>10. \A i \in Ids \ ToSet(ids) : op'[i] = op[i]
  BY <1>2
<1>11. ListInv'
  <2>1. Live' \cap ToSet(rest) = {} /\ Live' \cup ToSet(rest) = Ids
    BY <1>4, <1>5, <1>8 DEF T
  <2>2. QED
    BY <1>2, <1>5, <1>6, <2>1 DEF ListInv
<1>12. IdleInv'
  BY <1>1, <1>8, <1>10 DEF IdleInv
<1>13. op' \in [Ids -> OpType]
  <2>1. ASSUME NEW n \in 1..size PROVE op'[ids[n]] \in OpType
    <3>1. g \in Ids
      BY <1>3, <1>7 DEF T
    <3>2. P[n] \in OpSpec
      BY <1>3 DEF Proposable
    <3>3. Command[c].relaunches \in Nat
      BY CommandAssumption DEF CommandType
    <3>4. ProposedOp(c, n, size, g) \in OpType
      <4> HIDE DEF g
      <4>1. P = Proposal(c)
        BY DEF P
      <4>2. (n = 1) \in BOOLEAN /\ (n = size) \in BOOLEAN
        OBVIOUS
      <4>3. (IF P[n].type = "KERNEL" THEN Command[c].relaunches ELSE 0) \in Nat
        BY <3>3
      <4>4. QED
        BY <3>1, <3>2, <4>1, <4>2, <4>3 DEF ProposedOp, OpType, OpSpec
    <3>5. QED
      BY <1>9, <3>4
  <2>2. ASSUME NEW i \in Ids PROVE op'[i] \in OpType
    <3>1. CASE i \in ToSet(ids)
      BY <1>7, <2>1, <3>1
    <3>2. CASE i \notin ToSet(ids)
      BY <1>1, <1>10, <3>2 DEF TypeOK
    <3>3. QED
      BY <3>1, <3>2
  <2>3. QED
    BY <1>2, <2>2
<1>14. ASSUME NEW i \in Live PROVE op'[i] = op[i] /\ op[i].cmd # c
  <2>1. i \in Ids \ ToSet(ids)
    BY <1>8
  <2>2. last_op[c] = None
    BY <1>1, <1>2, NoneAssumption DEF EventInv
  <2>3. last_op[op[i].cmd] \in Ids
    BY <1>1, <1>8 DEF GroupInv
  <2>4. QED
    BY <1>10, <2>1, <2>2, <2>3, NoneAssumption
<1>15. \A k \in 1..Length : committed'[k] = committed[k] /\ At(k)' = At(k)
  <2>1. \A k \in 1..Length : committed'[k] = committed[k] /\ committed[k] \in Live
    BY <1>1, <1>2, <1>6, ListFacts
  <2>2. QED
    BY <1>14, <2>1 DEF At
<1>16. ASSUME NEW n \in 1..size
       PROVE  /\ committed'[Length + n] = ids[n] /\ ids[n] \in Ids \ Live
              /\ \A k : k = Length + n => At(k)' = op'[ids[n]]
              /\ ids[n] = ids[size] <=> n = size
  <2>1. committed'[Length + n] = ids[n] /\ ids[n] \in Ids \ Live
    BY <1>2, <1>6, <1>7, <1>8 DEF T
  <2>2. ids[n] = ids[size] <=> n = size
    BY <1>3, <1>7
  <2>3. QED
    BY <2>1, <2>2 DEF At
<1>17. /\ \A k \in 1..Length' :
            k \in 1..Length \/ \E n \in 1..size : k = Length + n
       /\ \A k \in 1..Length, n \in 1..size :
            k \in 1..Length' /\ Length + n \in 1..Length' /\ k < Length + n
  <2>1. ASSUME NEW k \in 1..Length', k \notin 1..Length
        PROVE  \E n \in 1..size : k = Length + n
    <3>1. k - Length \in 1..size /\ k = Length + (k - Length)
      BY <1>3, <1>4, <1>8, <2>1
    <3>2. QED
      BY <3>1
  <2>2. QED
    BY <1>3, <1>4, <1>8, <2>1
<1>18. Grows(c, ids, size)
  BY <1>3, <1>8, <1>9, <1>14, <1>15, <1>16, <1>17 DEF Grows, P, size
<1>19. QED
  BY <1>2, <1>5, <1>6, <1>11, <1>12, <1>13, <1>18 DEF T

(* The operations of the new group.                                        *)
LEMMA NewOps ==
    ASSUME IInv, NEW c \in Commands, NEW ids, NEW size, Grows(c, ids, size),
           NEW n \in 1..size
    PROVE  LET i == ids[n] IN
           /\ op'[i].cmd = c /\ op'[i].status = QUEUED /\ op'[i].exec = QUEUED
           /\ op'[i].group = ids[size] /\ op'[i].printf = "none"
           /\ op'[i].first = (n = 1) /\ op'[i].last = (n = size)
           /\ ShapeOf(i)' /\ StateOf(i)'
<1> DEFINE s == Proposal(c)[n]
           g == ids[size]
<1>1. /\ op'[ids[n]] = ProposedOp(c, n, size, g)
      /\ ids[n] = g <=> n = size
  BY DEF Grows
<1>2. Proposable(c, s, n, size)
  BY ProposalFacts DEF Grows
<1> HIDE DEF s, g
<1>3. PICK i : i = ids[n]
  OBVIOUS
<1>4. /\ op'[i].cmd = c /\ op'[i].status = QUEUED /\ op'[i].exec = QUEUED
      /\ op'[i].group = g /\ op'[i].printf = "none"
      /\ op'[i].first = (n = 1) /\ op'[i].last = (n = size)
      /\ op'[i].type = s.type /\ op'[i].affects = s.affects
      /\ op'[i].mem = s.mem /\ op'[i].noTransfer = s.noTransfer
      /\ op'[i].mayFail = s.mayFail
  BY <1>1, <1>3 DEF ProposedOp, s
<1>5. ShapeOf(i)'
  <2> DEFINE o == op'[i]
             C == Command[c]
  <2>1. /\ o.cmd \in Commands
        /\ \A x \in o.affects : x[2] \in ConflictsOf(o.type)
        /\ o.last <=> o.group = i
    BY <1>1, <1>2, <1>3, <1>4 DEF Proposable
  <2>2. /\ o.type = "KERNEL" => o.last /\ ~o.mayFail /\ C.kind = "kernel"
        /\ C.kind = "kernel" /\ o.last => o.type = "KERNEL"
        /\ C.kind = "kernel" /\ ~o.last
             => o.type \in {"REPROGRAM", "MEM_MIGRATION"}
        /\ o.type = "KERNEL" => o.affects = {<<C.device, "KERNEL">>}
    BY <1>2, <1>4 DEF Proposable, IsKernelCommand
  <2>3. /\ o.type = "REPROGRAM" =>
             /\ o.affects = {<<C.device, "REPROGRAM">>}
             /\ o.mayFail => C.badBin
             /\ o.first /\ C.bin \in Binaries
        /\ o.type = "MEM_MIGRATION" =>
             o.mem \in Buffers /\ o.mem \in BuffersOf(c) /\ ~o.mayFail
        /\ o.noTransfer => o.type \in MayMoveNothing
    BY <1>2, <1>4 DEF Proposable
  <2>4. o.cmd = c
    BY <1>4
  <2> HIDE DEF C
  <2>5. QED
    BY <2>1, <2>2, <2>3, <2>4 DEF ShapeOf, C, BuffersOf
<1>6. StateOf(i)'
  BY <1>4 DEF StateOf
<1>7. QED
  BY <1>3, <1>4, <1>5, <1>6 DEF g

(* The new operations are a group of their own, none of them failed. *)
LEMMA CommitKeepsGroups ==
    ASSUME IInv, NEW c \in Commands, Commit(c)
    PROVE  GroupInv' /\ FailInv' /\ ReprogInv'
<1>1. TypeOK /\ ListInv /\ OpInv /\ GroupInv /\ EventInv /\ FailInv /\ ReprogInv
  BY DEF IInv
<1>2. PICK ids, size : Grows(c, ids, size)
  BY CommitGrows
<1>3. /\ size \in Nat \ {0} /\ Length \in Nat /\ Length' = Length + size
      /\ \A k \in 1..Length : At(k)' = At(k) /\ committed[k] \in Live
      /\ \A n \in 1..size : \A k : k = Length + n => At(k)' = op'[ids[n]]
      /\ \A n \in 1..size : ids[n] \in Ids \ Live
      /\ Live' = Live \cup {ids[n] : n \in 1..size}
      /\ \A i \in Live : op'[i] = op[i] /\ op[i].cmd # c
      /\ \A k \in 1..Length' :
           k \in 1..Length \/ \E n \in 1..size : k = Length + n
  BY <1>1, <1>2, ListFacts DEF Grows
<1>4. /\ caller = c /\ failed' = failed /\ Len(Proposal(c)) = size
      /\ last_op' = [last_op EXCEPT ![c] = ids[size]]
  <2>1. /\ Len(Proposal(c)) = size /\ caller = c /\ failed' = failed
        /\ last_op' = [last_op EXCEPT
              ![c] = SubSeq(free, 1, Len(Proposal(c)))[Len(Proposal(c))]]
        /\ committed' = committed \o SubSeq(free, 1, size)
        /\ size <= Len(free)
    BY <1>2 DEF Commit, Grows
  <2> DEFINE l == SubSeq(free, 1, size)
             T == Ids
  <2>2. l \in Seq(T) /\ Len(l) = size /\ committed \in Seq(T)
    <3>1. free \in Seq(T) /\ IsInjective(free) /\ committed \in Seq(T)
      BY <1>1 DEF TypeOK, ListInv
    <3>2. size \in 0..Len(free)
      <4>1. Len(free) \in Nat
        BY <1>1, ListFacts
      <4>2. QED
        BY <1>3, <2>1, <4>1
    <3> HIDE DEF T
    <3>3. QED
      BY <3>1, <3>2, SplitMembers
  <2> HIDE DEF l, T
  <2>3. /\ Len(committed) = Length
        /\ \A k \in 1..Len(l) : (committed \o l)[Len(committed) + k] = l[k]
    BY <2>2, ConcatMembers DEF Length
  <2>4. size \in 1..size
    BY <1>3
  <2>5. l[size] = committed'[Length + size]
    BY <2>1, <2>2, <2>3, <2>4 DEF l
  <2>6. committed'[Length + size] = ids[size]
    BY <1>2, <2>4 DEF Grows
  <2>7. QED
    BY <2>1, <2>5, <2>6 DEF l
<1>5. ~failed[c]
  BY <1>1, <1>4, NoneAssumption DEF EventInv
<1> DEFINE g == ids[size]
<1>6. /\ last_op'[c] = g /\ g \in Ids \ Live /\ g \in Live' /\ op'[g].cmd = c
      /\ \A b : b # c => last_op'[b] = last_op[b]
  <2>1. size \in 1..size
    BY <1>3
  <2>2. g \in Ids \ Live /\ g \in Live' /\ op'[g].cmd = c
    BY <1>2, <1>3, <2>1, NewOps
  <2>3. last_op \in [Commands -> Ids \cup {None}]
    BY <1>1 DEF TypeOK
  <2>4. QED
    BY <1>4, <2>2, <2>3
<1>7. ASSUME NEW n \in 1..size
      PROVE  /\ op'[ids[n]].cmd = c /\ op'[ids[n]].group = g
             /\ op'[ids[n]].status = QUEUED /\ op'[ids[n]].exec = QUEUED
             /\ op'[ids[n]].first = (n = 1) /\ op'[ids[n]].last = (n = size)
  BY <1>2, NewOps
<1> HIDE DEF g
<1>8. GroupInv'
  <2>1. ASSUME NEW i \in Live'
        PROVE  /\ op'[i].group \in Live' /\ last_op'[op'[i].cmd] = op'[i].group
               /\ op'[op'[i].group].cmd = op'[i].cmd
    <3>1. CASE i \in Live
      <4>1. /\ op'[i] = op[i] /\ op[i].cmd # c /\ op[i].group \in Live
            /\ last_op[op[i].cmd] = op[i].group
            /\ op[op[i].group].cmd = op[i].cmd
        BY <1>1, <1>3, <3>1 DEF GroupInv
      <4>2. op'[op[i].group] = op[op[i].group]
        BY <1>3, <4>1
      <4>3. QED
        BY <1>3, <1>6, <4>1, <4>2
    <3>2. CASE i \notin Live
      <4>1. PICK n \in 1..size : i = ids[n]
        BY <1>3, <3>2
      <4>2. QED
        BY <1>6, <1>7, <4>1
    <3>3. QED
      BY <3>1, <3>2
  <2>2. ASSUME NEW k \in 1..Length', NEW l \in 1..Length', k < l, Same(k, l)'
        PROVE  /\ At(l)'.status = QUEUED /\ ~At(l)'.first /\ ~At(k)'.last
               /\ \A m \in k..l : Same(k, m)'
    <3>1. CASE l \in 1..Length
      <4>1. k \in 1..Length /\ \A m \in k..l : m \in 1..Length
        BY <1>3, <2>2, <3>1
      <4>2. Same(k, l)
        BY <1>3, <2>2, <3>1, <4>1 DEF Same
      <4>3. /\ At(l).status = QUEUED /\ ~At(l).first /\ ~At(k).last
            /\ \A m \in k..l : Same(k, m)
        BY <1>1, <2>2, <3>1, <4>1, <4>2 DEF GroupInv
      <4>4. QED
        BY <1>3, <3>1, <4>1, <4>3 DEF Same
    <3>2. CASE l \notin 1..Length
      <4>1. PICK n \in 1..size : l = Length + n
        BY <1>3, <3>2
      <4>2. At(l)' = op'[ids[n]]
        BY <1>3, <4>1
      <4>3. k \notin 1..Length
        <5> SUFFICES ASSUME k \in 1..Length PROVE FALSE
          OBVIOUS
        <5>1. At(k)' = op[committed[k]] /\ committed[k] \in Live
          BY <1>3 DEF At
        <5>2. op[committed[k]].group \in Live
          BY <1>1, <5>1 DEF GroupInv
        <5>3. QED
          BY <1>6, <1>7, <2>2, <4>2, <5>1, <5>2 DEF Same
      <4>4. PICK m \in 1..size : k = Length + m
        BY <1>3, <4>3
      <4>5. m < n /\ n # 1 /\ m # size
        BY <1>3, <2>2, <4>1, <4>4
      <4>6. At(k)' = op'[ids[m]]
        BY <1>3, <4>4
      <4>7. ASSUME NEW j \in k..l PROVE Same(k, j)'
        <5>1. j - Length \in 1..size /\ j = Length + (j - Length)
          BY <1>3, <4>1, <4>4
        <5>2. At(j)' = op'[ids[j - Length]]
          BY <1>3, <5>1
        <5>3. QED
          BY <1>7, <4>6, <5>1, <5>2 DEF Same
      <4>8. QED
        BY <1>7, <4>2, <4>5, <4>6, <4>7, ZenonT(60)
    <3>3. QED
      BY <3>1, <3>2
  <2>3. QED
    BY <2>1, <2>2 DEF GroupInv
<1>9. FailInv'
  <2> SUFFICES ASSUME NEW k \in 1..Length'
               PROVE  /\ At(k)'.exec = FAILED => failed'[At(k)'.cmd] /\ First(k)'
                      /\ First(k)' /\ failed'[At(k)'.cmd] => At(k)'.exec = FAILED
    BY DEF FailInv
  <2>1. CASE k \in 1..Length
    <3>1. \A j \in 1..k - 1 : j \in 1..Length
      BY <1>3, <2>1
    <3>2. \A j \in 1..k - 1 : Same(j, k)' <=> Same(j, k)
      BY <1>3, <2>1, <3>1 DEF Same
    <3>3. First(k)' <=> First(k)
      BY <3>2 DEF First
    <3>4. At(k)' = At(k)
      BY <1>3, <2>1
    <3>5. QED
      BY <1>1, <1>4, <2>1, <3>3, <3>4 DEF FailInv
  <2>2. CASE k \notin 1..Length
    <3>1. PICK n \in 1..size : k = Length + n
      BY <1>3, <2>2
    <3>2. At(k)' = op'[ids[n]]
      BY <1>3, <3>1
    <3>3. QED
      BY <1>4, <1>5, <1>7, <3>2
  <2>3. QED
    BY <2>1, <2>2
<1>10. ReprogInv'
  <2> SUFFICES ASSUME NEW j \in 1..Length', NEW k \in 1..Length', j < k,
                      At(k)'.type = "KERNEL", At(k)'.status # QUEUED,
                      At(j)'.type = "REPROGRAM", Dev(j)' = Dev(k)'
               PROVE  At(j)'.status = COMPLETE
    BY DEF ReprogInv
  <2>1. k \in 1..Length
    <3> SUFFICES ASSUME k \notin 1..Length PROVE FALSE
      OBVIOUS
    <3>1. PICK n \in 1..size : k = Length + n
      BY <1>3
    <3>2. At(k)' = op'[ids[n]]
      BY <1>3, <3>1
    <3>3. QED
      BY <1>7, <3>2
  <2>2. j \in 1..Length
    BY <1>3, <2>1
  <2>3. At(j)' = At(j) /\ At(k)' = At(k) /\ Dev(j) = Dev(k)
    BY <1>3, <2>1, <2>2 DEF Dev
  <2>4. QED
    BY <1>1, <2>1, <2>2, <2>3 DEF ReprogInv
<1>11. QED
  BY <1>8, <1>9, <1>10

(* Committing the operations of a command keeps the invariant. *)
LEMMA CommitStep ==
    ASSUME IInv, NEW c \in Commands, Commit(c)
    PROVE  IInv'
<1>1. /\ TypeOK /\ ListInv /\ OpInv /\ EventInv /\ CompletedOnce
      /\ CurrentInv /\ RingInv /\ PruneInv
  BY DEF IInv
<1>2. PICK ids, size : Grows(c, ids, size)
  BY CommitGrows
<1>3. /\ caller = c /\ c # None /\ pc = "done" /\ pc' = "submit" /\ caller' = None
      /\ status' = status /\ current_op' = current_op /\ posted' = posted
      /\ failed' = failed /\ ring' = ring /\ at' = at /\ cursor' = cursor
      /\ num_updates' = num_updates /\ loaded_bin' = loaded_bin
      /\ last_op' \in [Commands -> Ids \cup {None}]
      /\ last_op'[c] # None /\ \A b : b # c => last_op'[b] = last_op[b]
      /\ last_bin' = IF Command[c].kind \in {"kernel", "program"}
                     THEN [last_bin EXCEPT ![Command[c].device] = Command[c].bin]
                     ELSE last_bin
  <2> DEFINE l == SubSeq(free, 1, Len(Proposal(c)))
             g == l[Len(Proposal(c))]
  <2>1. last_op' = [last_op EXCEPT ![c] = g]
    BY DEF Commit
  <2>2. g \in Ids
    <3> DEFINE T == Ids
               size2 == Len(Proposal(c))
    <3>1. /\ free \in Seq(T) /\ IsInjective(free)
          /\ size2 \in Nat \ {0} /\ size2 <= Len(free) /\ Len(free) \in Nat
      BY <1>1, ProposalFacts, ListFacts DEF Commit, TypeOK, ListInv
    <3>2. size2 \in 0..Len(free) /\ size2 \in 1..size2 /\ size2 \in 1..Len(free)
      BY <3>1
    <3> HIDE DEF T, size2
    <3>3. \A k \in 1..size2 : SubSeq(free, 1, size2)[k] = free[k]
      BY <3>1, <3>2, SplitMembers
    <3>4. SubSeq(free, 1, size2)[size2] = free[size2] /\ free[size2] \in T
      BY <3>1, <3>2, <3>3, ElementOfSeq
    <3>5. QED
      BY <3>4 DEF T, size2
  <2> HIDE DEF g
  <2>3. last_op \in [Commands -> Ids \cup {None}]
    BY <1>1 DEF TypeOK
  <2>4. /\ last_op' \in [Commands -> Ids \cup {None}]
        /\ last_op'[c] # None /\ \A b : b # c => last_op'[b] = last_op[b]
    BY <2>1, <2>2, <2>3, NoneAssumption
  <2>5. QED
    BY <2>4, NoneAssumption DEF Commit
<1>4. /\ ListInv' /\ IdleInv' /\ op' \in [Ids -> OpType]
      /\ committed' \in Seq(Ids) /\ free' \in Seq(Ids)
  BY CommitGrows
<1>5. /\ Live' = Live \cup {ids[n] : n \in 1..size}
      /\ \A i \in Live : op'[i] = op[i] /\ op[i].cmd # c
      /\ Length' = Length + size
  BY <1>2 DEF Grows
<1>6. \A n \in 1..size : LET i == ids[n] IN
        /\ op'[i].cmd = c /\ op'[i].status = QUEUED /\ op'[i].exec = QUEUED
        /\ op'[i].printf = "none" /\ ShapeOf(i)' /\ StateOf(i)'
  BY <1>2, NewOps
<1>7. status[c] = QUEUED
  BY <1>1, <1>3 DEF EventInv
<1>8. TypeOK'
  <2>1. Command[c].bin \in Binaries \cup {None}
    BY CommandAssumption DEF CommandType
  <2>2. last_bin \in [Devices -> Binaries \cup {None}]
    BY <1>1 DEF TypeOK
  <2>3. last_bin' \in [Devices -> Binaries \cup {None}]
    BY <1>3, <2>1, <2>2
  <2>4. QED
    BY <1>1, <1>3, <1>4, <2>3 DEF TypeOK
<1>9. OpInv'
  <2>1. ASSUME NEW i \in Live PROVE ShapeOf(i)' /\ StateOf(i)'
    BY <1>1, <1>5 DEF OpInv, ShapeOf, StateOf, BuffersOf
  <2>2. QED
    BY <1>5, <1>6, <2>1 DEF OpInv
<1>10. EventInv'
  <2>1. \A i \in Live' : op'[i].status # COMPLETE => status'[op'[i].cmd] > COMPLETE
    BY <1>1, <1>3, <1>5, <1>6, <1>7 DEF EventInv
  <2>2. ASSUME NEW b \in Commands, last_op'[b] = None
        PROVE  /\ status'[b] = QUEUED \/ status'[b] <= COMPLETE
               /\ status'[b] = QUEUED => ~failed'[b]
    BY <1>1, <1>3, <2>2 DEF EventInv
  <2>3. QED
    BY <1>3, <2>1, <2>2 DEF EventInv
<1>11. CompletedOnce'
  BY <1>1, <1>3 DEF CompletedOnce
<1>12. CurrentInv'
  BY <1>1, <1>3, <1>5, <1>6 DEF CurrentInv
<1>13. RingInv'
  BY <1>1, <1>3, <1>5 DEF RingInv
<1>14. PruneInv'
  BY <1>1, <1>3, <1>5, <1>6 DEF PruneInv, Finished
<1>15. QuietInv'
  BY <1>3 DEF QuietInv, Quiet
<1>16. GroupInv' /\ FailInv' /\ ReprogInv'
  BY CommitKeepsGroups
<1>17. QED
  BY <1>4, <1>8, <1>9, <1>10, <1>11, <1>12, <1>13, <1>14, <1>15, <1>16 DEF IInv

----------------------------------------------------------------------------
(* The steps that only move the update on.                                 *)
LEMMA ControlKeeps ==
    ASSUME IInv, UNCHANGED <<op, lists, events, at, bins, ring>>, TypeOK',
           caller' # None => status[caller'] = QUEUED /\ last_op[caller'] = None,
           pc' = "idle" => caller' = None,
           pc' \in {"submit", "idle", "done"} => pc \in {"submit", "idle", "done"},
           Quiet' => Quiet \/ \A k \in 1..Length : ~CanSubmit(k)
    PROVE  IInv'
<1>1. /\ TypeOK /\ ListInv /\ IdleInv /\ OpInv /\ GroupInv /\ EventInv
      /\ CompletedOnce /\ FailInv /\ CurrentInv /\ RingInv /\ PruneInv
      /\ QuietInv /\ ReprogInv
  BY DEF IInv
<1>2. /\ op' = op /\ committed' = committed /\ free' = free /\ Live' = Live
      /\ ring' = ring /\ at' = at /\ Length' = Length
      /\ status' = status /\ last_op' = last_op /\ current_op' = current_op
      /\ posted' = posted /\ failed' = failed
  BY ZenonT(60) DEF lists, events, Live, Length
<1>3. /\ ListInv' /\ IdleInv' /\ OpInv' /\ RingInv' /\ ReprogInv' /\ GroupInv'
      /\ FailInv' /\ CurrentInv' /\ CompletedOnce'
  BY <1>1, <1>2 DEF ListInv, IdleInv, OpInv, ShapeOf, StateOf, BuffersOf, RingInv,
                    ReprogInv, Length, At, Dev, GroupInv, Same, FailInv, First,
                    CurrentInv, CompletedOnce
<1>4. EventInv'
  BY <1>1, <1>2 DEF EventInv
<1>5. PruneInv'
  BY <1>1, <1>2 DEF PruneInv, Finished
<1>6. QuietInv'
  <2>1. Progress
    BY <1>1, <1>2 DEF Progress, Fixed, TypeOK
  <2>2. ASSUME NEW k \in 1..Length PROVE CanSubmit(k)' <=> CanSubmit(k)
    BY <1>1, <1>2, <2>1, SameScan DEF At
  <2>3. QED
    BY <1>1, <1>2, <2>2 DEF QuietInv, At
<1>7. QED
  BY <1>3, <1>4, <1>5, <1>6 DEF IInv

(* A step of the submission pass keeps the invariant. *)
LEMMA SubmitStep ==
    ASSUME IInv, SubmitPass
    PROVE  IInv'
<1>1. TypeOK /\ ListInv /\ EventInv
  BY DEF IInv
<1> DEFINE ready == {k \in DOMAIN committed : CanSubmit(k)}
<1>2. DOMAIN committed = 1..Length /\ Length \in Nat
  BY <1>1, ListFacts
<1>3. pc = "submit" /\ pc' = "status" /\ cursor' = 1 /\ caller' = caller
  BY DEF SubmitPass
<1>4. CASE ready = {}
  <2>1. num_updates' = FALSE /\ UNCHANGED <<op, lists, events, at, bins, ring>>
    BY <1>4 DEF SubmitPass
  <2>2. \A k \in 1..Length : ~CanSubmit(k)
    BY <1>2, <1>4
  <2>3. TypeOK'
    <3>1. 1 \in 1..MaxOps + 1
      BY SizeAssumption
    <3>2. QED
      BY <1>1, <1>3, <2>1, <3>1 DEF TypeOK, lists, events, bins
  <2>4. caller' # None => status[caller'] = QUEUED /\ last_op[caller'] = None
    BY <1>1, <1>3 DEF EventInv
  <2>5. QED
    BY <1>3, <2>1, <2>2, <2>3, <2>4, ControlKeeps
<1>5. CASE ready # {}
  <2>1. num_updates' = TRUE /\ SubmitOp(committed[Min(ready)])
    BY <1>5 DEF SubmitPass
  <2>2. PICK k : k = Min(ready)
    OBVIOUS
  <2>3. k \in 1..Length /\ CanSubmit(k)
    <3>1. ready \subseteq Nat
      BY <1>2
    <3>2. Min(ready) \in ready
      <4> HIDE DEF ready
      <4> QED
        BY <1>5, <3>1, LeastOf
    <3>3. QED
      BY <1>2, <2>2, <3>2
  <2>4. Submits(k) /\ SubmitOp(committed[k])
    BY <1>3, <2>1, <2>2, <2>3 DEF Submits
  <2>5. CASE At(k).status # QUEUED
    BY <2>3, <2>4, <2>5, ProcessPrintfStep DEF SubmitOp, At
  <2>6. CASE At(k).status = QUEUED /\ At(k).exec < 0
    BY <2>3, <2>4, <2>6, SkipStep DEF SubmitOp, At
  <2>7. CASE At(k).status = QUEUED /\ ~(At(k).exec < 0)
    BY <2>3, <2>4, <2>7, StartStep DEF SubmitOp, At
  <2>8. QED
    BY <2>5, <2>6, <2>7
<1>6. QED
  BY <1>4, <1>5

(* A step of the pass over the execution statuses keeps it. *)
LEMMA StatusStep ==
    ASSUME IInv, StatusPass
    PROVE  IInv'
<1>1. TypeOK /\ ListInv /\ EventInv
  BY DEF IInv
<1>2. /\ Length \in Nat /\ cursor \in 1..MaxOps + 1 /\ Length = Len(committed)
      /\ MaxOps \in Nat
  BY <1>1, ListFacts, SizeAssumption DEF TypeOK, Length
<1>3. pc = "status" /\ UNCHANGED <<lists, caller, at, bins>>
  BY DEF StatusPass
<1>4. caller # None => status[caller] = QUEUED /\ last_op[caller] = None
  BY <1>1 DEF EventInv
<1>5. CASE cursor <= Len(committed)
  <2>1. PICK k \in 1..Length : k = cursor
    BY <1>2, <1>5
  <2> DEFINE i == committed[k]
  <2>2. /\ TakeRunning(i) \/ Relaunch(i) \/ TakeComplete(i) \/ NothingToTake(i)
        /\ cursor' = cursor + 1 /\ pc' = pc
    BY <1>5, <2>1 DEF StatusPass
  <2>3. Takes(k)
    BY <1>3, <2>1, <2>2 DEF Takes
  <2>4. CASE NothingToTake(i)
    <3>1. UNCHANGED <<op, events, num_updates, ring>>
      BY <2>4 DEF NothingToTake
    <3>2. cursor' \in 1..MaxOps + 1
      <4>1. Len(committed) + Len(free) = MaxOps /\ Len(free) \in Nat
        BY <1>1, RecycledByInv, ListFacts DEF SlotsRecycled
      <4>2. QED
        BY <1>2, <1>5, <2>2, <4>1
    <3>3. TypeOK'
      BY <1>1, <1>3, <2>2, <3>1, <3>2 DEF TypeOK, lists, events, bins
    <3>4. Quiet' => Quiet
      BY <1>3, <2>2, <3>1 DEF Quiet
    <3>5. pc' = "status" /\ caller' = caller
      BY <1>3, <2>2
    <3>6. UNCHANGED <<op, lists, events, at, bins, ring>>
      BY <1>3, <3>1
    <3>7. QED
      BY <1>4, <3>3, <3>4, <3>5, <3>6, ControlKeeps
  <2>5. QED
    BY <2>2, <2>3, <2>4, TakeRunningStep, RelaunchStep, TakeCompleteStep
<1>6. CASE ~(cursor <= Len(committed))
  <2>1. /\ pc' = "prune" /\ cursor' = 1
        /\ UNCHANGED <<op, events, num_updates, ring>>
    BY <1>6 DEF StatusPass
  <2>2. TypeOK'
    <3>1. 1 \in 1..MaxOps + 1
      BY <1>2
    <3>2. QED
      BY <1>1, <1>3, <2>1, <3>1 DEF TypeOK, lists, events, bins
  <2>3. Quiet' => Quiet
    BY <1>3, <2>1 DEF Quiet
  <2>4. caller' = caller /\ UNCHANGED <<op, lists, events, at, bins, ring>>
    BY <1>3, <2>1
  <2>5. QED
    BY <1>4, <2>1, <2>2, <2>3, <2>4, ControlKeeps
<1>7. QED
  BY <1>5, <1>6

(* So do the beginning and the end of an update, and a submission that     *)
(* backs off.                                                              *)
LEMMA UpdateStep ==
    ASSUME IInv,
           EndUpdate \/ IdleUpdate \/ (\E c \in Commands : BackOff(c) \/ BeginSubmit(c))
    PROVE  IInv'
<1>1. TypeOK /\ EventInv
  BY DEF IInv
<1>2. UNCHANGED <<op, lists, cursor, num_updates, events, at, bins, ring>>
  BY DEF EndUpdate, IdleUpdate, BackOff, BeginSubmit, StartUpdate
<1>3. /\ pc \in {"idle", "done"} /\ pc' \in {"idle", "submit"}
      /\ pc' = "idle" => caller' = None /\ pc = "done"
      /\ caller' = None \/ (caller' \in Commands /\ status[caller'] = QUEUED
                            /\ last_op[caller'] = None)
  <2>1. CASE EndUpdate
    BY <2>1 DEF EndUpdate
  <2>2. CASE IdleUpdate
    BY <2>2 DEF IdleUpdate, StartUpdate
  <2>3. ASSUME NEW c \in Commands, BackOff(c)
        PROVE  pc = "done" /\ pc' \in {"idle", "submit"} /\ caller' = None
    BY <2>3 DEF BackOff
  <2>4. ASSUME NEW c \in Commands, BeginSubmit(c)
        PROVE  /\ pc = "idle" /\ pc' = "submit"
               /\ caller' \in Commands /\ status[caller'] = QUEUED
               /\ last_op[caller'] = None
    BY <2>4 DEF BeginSubmit, StartUpdate
  <2>5. QED
    BY <2>1, <2>2, <2>3, <2>4
<1>4. TypeOK'
  BY <1>1, <1>2, <1>3 DEF TypeOK, lists, events, bins
<1>5. Quiet' => Quiet
  BY <1>3 DEF Quiet
<1>6. UNCHANGED <<op, lists, events, at, bins, ring>>
  BY <1>2
<1>7. /\ caller' # None => status[caller'] = QUEUED /\ last_op[caller'] = None
      /\ pc' = "idle" => caller' = None
      /\ pc' \in {"submit", "idle", "done"} => pc \in {"submit", "idle", "done"}
  BY <1>3
<1>8. QED
  BY <1>4, <1>5, <1>6, <1>7, ControlKeeps

(* And a step that changes nothing. *)
LEMMA IdleStep ==
    ASSUME IInv, UNCHANGED vars
    PROVE  IInv'
<1>1. TypeOK /\ EventInv
  BY DEF IInv
<1>2. UNCHANGED <<op, lists, events, at, bins, ring>> /\ UNCHANGED control
  BY DEF vars
<1>3. pc' = pc /\ cursor' = cursor /\ num_updates' = num_updates /\ caller' = caller
  BY <1>2 DEF control
<1>4. TypeOK'
  BY <1>1, <1>2, <1>3 DEF TypeOK, lists, events, bins
<1>5. Quiet' => Quiet
  BY <1>3 DEF Quiet
<1>6. /\ caller' # None => status[caller'] = QUEUED /\ last_op[caller'] = None
      /\ pc' = "idle" => caller' = None
      /\ pc' \in {"submit", "idle", "done"} => pc \in {"submit", "idle", "done"}
  BY <1>1, <1>3 DEF EventInv
<1>7. QED
  BY <1>2, <1>4, <1>5, <1>6, ControlKeeps

(* The invariant holds in the initial states. *)
LEMMA InitInv == Init => IInv
<1> SUFFICES ASSUME Init PROVE IInv
  OBVIOUS
<1>1. PICK W \in Workloads :
         /\ status = [c \in Commands |-> IF c \in W THEN QUEUED ELSE COMPLETE]
         /\ posted = [c \in Commands |-> IF c \in W THEN 0 ELSE 1]
  BY DEF Init
<1>2. /\ op = [i \in Ids |-> IdleOp] /\ committed = <<>>
      /\ free = [i \in Ids |-> i]
      /\ pc = "idle" /\ cursor = 1 /\ num_updates = FALSE /\ caller = None
      /\ last_op = [c \in Commands |-> None]
      /\ current_op = [c \in Commands |-> None]
      /\ failed = [c \in Commands |-> FALSE]
      /\ at = [b \in Buffers |-> IF b \in UserMemory THEN "user" ELSE "deferred"]
      /\ last_bin = [d \in Devices |-> None]
      /\ loaded_bin = [d \in Devices |-> None]
      /\ ring = [a \in Accels |-> <<>>]
  BY DEF Init
<1>3. MaxOps \in Nat /\ 1 \in 1..MaxOps + 1
  BY SizeAssumption
<1>4. Live = {} /\ Length = 0 /\ committed \in Seq(Ids) /\ IsInjective(committed)
  <2>1. Live = {} /\ Length = 0 /\ committed \in Seq(Ids)
    BY <1>2 DEF Live, Length, ToSet
  <2>2. IsInjective(committed)
    BY <1>2 DEF IsInjective
  <2>3. QED
    BY <2>1, <2>2
<1>5. free \in Seq(Ids) /\ ToSet(free) = Ids /\ IsInjective(free)
  <2>1. DOMAIN free = 1..MaxOps /\ \A i \in 1..MaxOps : free[i] = i
    BY <1>2 DEF Ids
  <2>2. free \in [1..MaxOps -> Ids]
    BY <1>2 DEF Ids
  <2>3. free \in Seq(Ids)
    <3> DEFINE T == Ids
    <3>1. free \in [1..MaxOps -> T]
      BY <2>2
    <3> HIDE DEF T
    <3>2. free \in Seq(T)
      BY <1>3, <3>1, SeqDef
    <3>3. QED
      BY <3>2 DEF T
  <2>4. ToSet(free) = Ids
    BY <2>1 DEF ToSet, Ids
  <2>5. IsInjective(free)
    BY <2>1 DEF IsInjective
  <2>6. QED
    BY <2>3, <2>4, <2>5
<1>6. TypeOK
  <2>1. IdleOp \in OpType
    BY DEF IdleOp, OpType, OpTypes
  <2>2. op \in [Ids -> OpType]
    BY <1>2, <2>1
  <2>3. status \in [Commands -> FAILED..QUEUED] /\ posted \in [Commands -> Nat]
    BY <1>1
  <2>4. at \in [Buffers -> Places]
    BY <1>2 DEF Places
  <2>5. ring \in [Accels -> Seq(Ids)]
    <3>1. <<>> \in Seq(Ids)
      OBVIOUS
    <3>2. QED
      BY <1>2, <3>1
  <2>6. QED
    BY <1>2, <1>3, <1>4, <1>5, <2>2, <2>3, <2>4, <2>5 DEF TypeOK
<1>7. ListInv /\ IdleInv /\ OpInv
  BY <1>2, <1>4, <1>5 DEF ListInv, IdleInv, OpInv
<1>8. \A k \in 1..Length : FALSE
  BY <1>4
<1>9. GroupInv /\ FailInv /\ CurrentInv /\ PruneInv /\ QuietInv /\ ReprogInv
  BY <1>4, <1>8 DEF GroupInv, FailInv, CurrentInv, PruneInv, QuietInv, ReprogInv
<1>10. EventInv /\ CompletedOnce
  BY <1>1, <1>2, <1>4 DEF EventInv, CompletedOnce
<1>11. RingInv
  BY <1>2 DEF RingInv, IsInjective, ToSet
<1>12. QED
  BY <1>6, <1>7, <1>9, <1>10, <1>11 DEF IInv

(* Every step keeps the invariant: one case per action. *)
LEMMA NextInv == IInv /\ [Next]_vars => IInv'
<1> SUFFICES ASSUME IInv, [Next]_vars PROVE IInv'
  OBVIOUS
<1>1. CASE Scheduler
  <2>1. ASSUME NEW c \in Commands, Commit(c) PROVE IInv'
    BY <2>1, CommitStep
  <2>2. ASSUME NEW c \in Commands, BackOff(c) PROVE IInv'
    BY <2>2, UpdateStep
  <2>3. QED
    BY <1>1, <2>1, <2>2, SubmitStep, StatusStep, PruneStep, UpdateStep
       DEF Scheduler
<1>2. CASE Hardware
  <2>1. ASSUME NEW i \in Ids, TransferDone(i) PROVE IInv'
    BY <2>1, TransferDoneStep
  <2>2. ASSUME NEW a \in Accels, NEW rest \in {"none", "final"},
               KernelDone(a, rest)
        PROVE  IInv'
    BY <2>2, KernelDoneStep
  <2>3. QED
    BY <1>2, <2>1, <2>2 DEF Hardware
<1>3. CASE IdleUpdate
  BY <1>3, UpdateStep
<1>4. ASSUME NEW a \in Accels, KernelStalls(a) PROVE IInv'
  BY <1>4, KernelStallsStep
<1>5. ASSUME NEW c \in Commands, BeginSubmit(c) PROVE IInv'
  BY <1>5, UpdateStep
<1>6. ASSUME NEW c \in Commands, Release(c) PROVE IInv'
  BY <1>6, ReleaseStep
<1>7. CASE UNCHANGED vars
  BY <1>7, IdleStep
<1>8. QED
  BY <1>1, <1>2, <1>3, <1>4, <1>5, <1>6, <1>7 DEF Next

(* So it holds in every reachable state. *)
LEMMA InvHolds == Spec => []IInv
<1>1. QED
  BY InitInv, NextInv, PTL DEF Spec

----------------------------------------------------------------------------
(* The variables keep their types: in particular the status pass stays     *)
(* within the live list and no list names a slot twice.                    *)
THEOREM TypeCorrect == Spec => []TypeOK
<1>1. IInv => TypeOK
  BY DEF IInv
<1>2. QED
  BY <1>1, InvHolds, PTL

(* No slot of the queue is lost or handed out twice, and between updates   *)
(* no operation of a finished event is left in it, whatever the order of   *)
(* commits, completions, skips and printf stalls.                          *)
THEOREM SlotsAreRecycled == Spec => []SlotsRecycled
<1>1. QED
  BY RecycledByInv, InvHolds, PTL

(* The operations of a command are started one after the other, none is on *)
(* the device once one of them has failed, and a completion that names     *)
(* only the event reaches the operation that caused it.                    *)
THEOREM GroupsRunInSequence == Spec => []GroupInSequence
<1>1. QED
  BY SequenceByInv, InvHolds, PTL

(* An event is completed once, with an error if and only if one of its     *)
(* operations failed: the prune pass hands every error on to the end of    *)
(* its group.                                                              *)
THEOREM EventsCompleteOnce == Spec => []CompletedOnce
<1>1. IInv => CompletedOnce
  BY DEF IInv
<1>2. QED
  BY <1>1, InvHolds, PTL

(* When the update returns, no queued operation could be started: what a   *)
(* round could have made possible is scanned for by another round.         *)
THEOREM UpdatesReachAFixpoint == Spec => []NothingLeftToStart
<1>1. QED
  BY FixpointByInv, InvHolds, PTL

----------------------------------------------------------------------------
(* The binaries.  A kernel that is not complete finds, when its turn comes, *)
(* the binary of the last reprogram that waits before it, or if none does   *)
(* the one that is loaded; and last_bin is what the next command will find. *)
Bin(k) == Command[At(k).cmd].bin
Waits(d, j) ==
    At(j).type = "REPROGRAM" /\ At(j).status = QUEUED /\ Dev(j) = d
LastWaits(d, j, k) ==
    j \in 1..k - 1 /\ Waits(d, j) /\ \A m \in 1..k - 1 : Waits(d, m) => m <= j
Finds(d, k, b) ==
    \/ \E j \in 1..Length : LastWaits(d, j, k) /\ Bin(j) = b
    \/ (\A m \in 1..k - 1 : ~Waits(d, m)) /\ loaded_bin[d] = b
DeviceInv(d) ==
    /\ \A k \in 1..Length :
         At(k).type = "KERNEL" /\ Dev(k) = d /\ At(k).status # COMPLETE
           => Finds(d, k, Bin(k))
    /\ last_bin[d] # None => Finds(d, Length + 1, last_bin[d])
    /\ last_bin[d] = None => \A m \in 1..Length : ~Waits(d, m)
BinInv == \A d \in Devices : AlwaysProgrammable(d) => DeviceInv(d)

(* Steps that neither move the operations nor start a reprogram.           *)
SameQueue ==
    /\ committed' = committed /\ last_bin' = last_bin /\ loaded_bin' = loaded_bin
    /\ \A i \in Live :
         /\ op'[i].cmd = op[i].cmd /\ op'[i].type = op[i].type
         /\ op[i].status = COMPLETE => op'[i].status = COMPLETE
         /\ op[i].type = "REPROGRAM" =>
              (op'[i].status = QUEUED <=> op[i].status = QUEUED)

(* A step that neither reprograms nor changes what waits keeps BinInv. *)
LEMMA SameQueueKeeps ==
    ASSUME TypeOK, ListInv, BinInv, SameQueue
    PROVE  BinInv'
<1>1. /\ Length' = Length /\ Length \in Nat
      /\ \A k \in 1..Length : At(k)' = op'[committed[k]] /\ committed[k] \in Live
  BY ListFacts DEF SameQueue, Length, At
<1>2. ASSUME NEW k \in 1..Length
      PROVE  /\ Bin(k)' = Bin(k) /\ Dev(k)' = Dev(k) /\ At(k)'.type = At(k).type
             /\ At(k).status = COMPLETE => At(k)'.status = COMPLETE
             /\ \A d : Waits(d, k)' <=> Waits(d, k)
  <2>1. /\ At(k)'.cmd = At(k).cmd /\ At(k)'.type = At(k).type
        /\ At(k).status = COMPLETE => At(k)'.status = COMPLETE
        /\ At(k).type = "REPROGRAM" =>
             (At(k)'.status = QUEUED <=> At(k).status = QUEUED)
    BY <1>1 DEF SameQueue, At
  <2>2. Bin(k)' = Bin(k) /\ Dev(k)' = Dev(k)
    BY <2>1 DEF Bin, Dev
  <2>3. \A d : Waits(d, k)' <=> Waits(d, k)
    BY <2>1, <2>2 DEF Waits
  <2>4. QED
    BY <2>1, <2>2, <2>3
<1>3. ASSUME NEW d, NEW k \in 1..Length + 1, NEW b, Finds(d, k, b)
      PROVE  Finds(d, k, b)'
  <2>1. \A m \in 1..k - 1 : m \in 1..Length /\ (Waits(d, m)' <=> Waits(d, m))
    BY <1>1, <1>2
  <2>2. CASE \E j \in 1..Length : LastWaits(d, j, k) /\ Bin(j) = b
    <3>1. PICK j \in 1..Length : LastWaits(d, j, k) /\ Bin(j) = b
      BY <2>2
    <3>2. LastWaits(d, j, k)' /\ Bin(j)' = b
      BY <1>2, <2>1, <3>1 DEF LastWaits
    <3>3. QED
      BY <1>1, <3>2 DEF Finds
  <2>3. CASE (\A m \in 1..k - 1 : ~Waits(d, m)) /\ loaded_bin[d] = b
    BY <2>1, <2>3 DEF Finds, SameQueue
  <2>4. QED
    BY <1>3, <2>2, <2>3 DEF Finds
<1>4. ASSUME NEW d \in Devices, AlwaysProgrammable(d) PROVE DeviceInv(d)'
  <2>1. DeviceInv(d)
    BY <1>4 DEF BinInv
  <2>2. ASSUME NEW k \in 1..Length,
               At(k)'.type = "KERNEL", Dev(k)' = d, At(k)'.status # COMPLETE
        PROVE  Finds(d, k, Bin(k))'
    <3>1. Finds(d, k, Bin(k)) /\ Bin(k)' = Bin(k) /\ k \in 1..Length + 1
      BY <1>1, <1>2, <2>1, <2>2 DEF DeviceInv
    <3>2. PICK b : b = Bin(k)
      OBVIOUS
    <3>3. Finds(d, k, b)'
      BY <1>3, <3>1, <3>2
    <3>4. QED
      BY <3>1, <3>2, <3>3 DEF Finds
  <2>3. ASSUME last_bin'[d] # None PROVE Finds(d, Length + 1, last_bin[d])'
    <3>1. PICK b, n : b = last_bin[d] /\ n = Length + 1
      OBVIOUS
    <3>2. Finds(d, n, b) /\ n \in 1..Length + 1
      BY <1>1, <2>1, <2>3, <3>1 DEF DeviceInv, SameQueue
    <3>3. Finds(d, n, b)'
      BY <1>3, <3>2
    <3>4. QED
      BY <1>1, <3>1, <3>3 DEF Finds, SameQueue, LastWaits
  <2>4. last_bin'[d] = None => \A m \in 1..Length : ~Waits(d, m)'
    BY <1>2, <2>1 DEF DeviceInv, SameQueue
  <2>5. QED
    BY <1>1, <2>2, <2>3, <2>4 DEF DeviceInv
<1>5. QED
  BY <1>4 DEF BinInv, AlwaysProgrammable

(* A reprogram is started when the kernels and the reprograms of its       *)
(* device before it are complete.                                          *)
LEMMA ReprogramsAlone ==
    ASSUME IInv, NEW k \in 1..Length, CanSubmit(k), At(k).type = "REPROGRAM",
           NEW m \in 1..k - 1, Dev(m) = Dev(k),
           At(m).type \in {"KERNEL", "REPROGRAM"}
    PROVE  At(m).status = COMPLETE
<1>1. TypeOK /\ ListInv /\ OpInv
  BY DEF IInv
<1>2. /\ m \in 1..Length /\ committed[m] \in Live /\ committed[k] \in Live
      /\ committed[m] \in Ids
  BY <1>1, ListFacts, SMTT(40)
<1>3. /\ At(k).affects = {<<Dev(k), "REPROGRAM">>} /\ ~At(k).noTransfer
      /\ At(m).affects = {<<Dev(m), At(m).type>>}
  BY <1>1, <1>2 DEF OpInv, ShapeOf, At, Dev, MayMoveNothing
<1>4. ~MatrixConflict(k)
  BY <1>3 DEF CanSubmit, IsNoopMigration, IsKernelMigration, At
<1>5. OpsConflict(committed[k], committed[m])
  <2>1. /\ Affects(committed[k]) = {<<Dev(k), "REPROGRAM">>}
        /\ Affects(committed[m]) = {<<Dev(k), At(m).type>>}
    BY <1>3 DEF Affects, At
  <2>2. Conflict(Dev(k), "REPROGRAM", At(m).type)
    BY DEF Conflict, HalfDuplexConflict, FullDuplexConflict, Reads, Writes, Pipes
  <2>3. QED
    BY <2>1, <2>2 DEF OpsConflict
<1>6. ~Pending(committed[m])
  BY <1>4, <1>5 DEF MatrixConflict, PendingBefore
<1>7. QED
  BY <1>1, <1>2, <1>6, OpFacts DEF Pending, At

(* Nothing that still needs another binary is passed by the one that is    *)
(* loaded.                                                                 *)
LEMMA StartBinaries ==
    ASSUME IInv, BinInv, NEW k \in 1..Length, Submits(k),
           At(k).status = QUEUED, StartOp(committed[k])
    PROVE  BinInv'
<1>1. TypeOK /\ ListInv /\ OpInv
  BY DEF IInv
<1>2. PICK i : i = committed[k]
  OBVIOUS
<1>3. /\ i \in Live /\ i \in Ids /\ At(k) = op[i] /\ Live \subseteq Ids
      /\ Length \in Nat
      /\ \A n \in 1..Length : /\ committed[n] \in Live
                              /\ committed[n] = i => n = k
  BY <1>1, <1>2, ListFacts DEF At
<1>4. PICK ok \in {TRUE, ~op[i].mayFail} :
        /\ op' = [op EXCEPT ![i].status = SUBMITTED,
                            ![i].exec = ExecAfterCall(i, ok)]
        /\ loaded_bin' = IF ok THEN BinariesAfter(i) ELSE loaded_bin
        /\ UNCHANGED <<lists, last_bin>>
  BY <1>2 DEF StartOp
<1>5. /\ committed' = committed /\ last_bin' = last_bin /\ Length' = Length
      /\ op \in [Ids -> OpType]
  BY <1>1, <1>4 DEF lists, Length, TypeOK
<1>6. /\ \A j \in Ids \ {i} : op'[j] = op[j]
      /\ op'[i].cmd = op[i].cmd /\ op'[i].type = op[i].type
      /\ op'[i].status = SUBMITTED
  BY <1>3, <1>4, <1>5 DEF OpType
<1>7. CASE op[i].type # "REPROGRAM"
  <2>1. loaded_bin' = loaded_bin
    BY <1>4, <1>7 DEF BinariesAfter
  <2>2. SameQueue
    BY <1>2, <1>3, <1>5, <1>6, <1>7, <2>1 DEF SameQueue
  <2>3. QED
    BY <1>1, <2>2, SameQueueKeeps
<1>8. CASE op[i].type = "REPROGRAM"
  <2>1. ASSUME NEW m \in 1..Length
        PROVE  /\ Bin(m)' = Bin(m) /\ Dev(m)' = Dev(m) /\ At(m)'.type = At(m).type
               /\ m # k => At(m)' = At(m)
               /\ \A d : Waits(d, m)' <=> Waits(d, m) /\ m # k
    <3>1. /\ At(m)' = op'[committed[m]] /\ committed[m] \in Ids
          /\ committed[m] = i <=> m = k
      BY <1>2, <1>3, <1>5 DEF At
    <3>2. /\ At(m)'.cmd = At(m).cmd /\ At(m)'.type = At(m).type
          /\ m # k => At(m)' = At(m)
          /\ m = k => At(m)'.status = SUBMITTED
      BY <1>6, <3>1 DEF At
    <3>3. Bin(m)' = Bin(m) /\ Dev(m)' = Dev(m)
      BY <3>2 DEF Bin, Dev
    <3>4. \A d : Waits(d, m)' <=> Waits(d, m) /\ m # k
      BY <3>2, <3>3 DEF Waits
    <3>5. QED
      BY <3>2, <3>3, <3>4
  <2> SUFFICES ASSUME NEW d \in Devices, AlwaysProgrammable(d)
               PROVE  DeviceInv(d)'
    BY DEF BinInv, AlwaysProgrammable
  <2>2. DeviceInv(d)
    BY DEF BinInv
  <2>3. CASE d # Dev(k)
    <3>1. loaded_bin'[d] = loaded_bin[d]
      BY <1>1, <1>3, <1>4, <2>3 DEF BinariesAfter, Dev, TypeOK
    <3>2. \A m \in 1..Length : Waits(d, m)' <=> Waits(d, m)
      BY <2>1, <2>3 DEF Waits
    <3>3. ASSUME NEW n \in 1..Length + 1, NEW b, Finds(d, n, b)
          PROVE  Finds(d, n, b)'
      <4>1. \A m \in 1..n - 1 : m \in 1..Length
        BY <1>3
      <4>2. CASE \E j \in 1..Length : LastWaits(d, j, n) /\ Bin(j) = b
        <5>1. PICK j \in 1..Length : LastWaits(d, j, n) /\ Bin(j) = b
          BY <4>2
        <5>2. LastWaits(d, j, n)' /\ Bin(j)' = b
          BY <2>1, <3>2, <4>1, <5>1 DEF LastWaits
        <5>3. QED
          BY <1>5, <5>2 DEF Finds
      <4>3. CASE (\A m \in 1..n - 1 : ~Waits(d, m)) /\ loaded_bin[d] = b
        BY <3>1, <3>2, <4>1, <4>3 DEF Finds
      <4>4. QED
        BY <3>3, <4>2, <4>3 DEF Finds
    <3>4. ASSUME NEW n \in 1..Length,
                 At(n)'.type = "KERNEL", Dev(n)' = d, At(n)'.status # COMPLETE
          PROVE  Finds(d, n, Bin(n))'
      <4>1. n # k
        BY <2>1, <2>3, <3>4
      <4>2. Finds(d, n, Bin(n)) /\ Bin(n)' = Bin(n) /\ n \in 1..Length + 1
        BY <1>3, <2>1, <2>2, <3>4, <4>1 DEF DeviceInv
      <4>3. PICK b : b = Bin(n)
        OBVIOUS
      <4>4. Finds(d, n, b)'
        BY <3>3, <4>2, <4>3
      <4>5. QED
        BY <4>2, <4>3, <4>4 DEF Finds
    <3>5. ASSUME last_bin'[d] # None PROVE Finds(d, Length + 1, last_bin[d])'
      <4>1. PICK b, n : b = last_bin[d] /\ n = Length + 1
        OBVIOUS
      <4>2. Finds(d, n, b) /\ n \in 1..Length + 1
        BY <1>3, <1>5, <2>2, <3>5, <4>1 DEF DeviceInv
      <4>3. Finds(d, n, b)'
        BY <3>3, <4>2
      <4>4. QED
        BY <1>5, <4>1, <4>3 DEF Finds, LastWaits
    <3>6. last_bin'[d] = None => \A m \in 1..Length : ~Waits(d, m)'
      BY <1>5, <2>2, <3>2 DEF DeviceInv
    <3>7. QED
      BY <1>5, <3>4, <3>5, <3>6 DEF DeviceInv
  <2>4. CASE d = Dev(k)
    <3>1. ok = TRUE
      <4>1. op[i].cmd \in Commands /\ (op[i].mayFail => Command[op[i].cmd].badBin)
        BY <1>1, <1>3, <1>8 DEF OpInv, ShapeOf
      <4>2. ~Command[op[i].cmd].badBin
        BY <1>3, <2>4, <4>1 DEF AlwaysProgrammable, Dev
      <4>3. op[i].mayFail \in BOOLEAN
        BY <1>3, <1>5 DEF OpType
      <4>4. QED
        BY <4>1, <4>2, <4>3
    <3>2. loaded_bin'[d] = Bin(k)
      BY <1>1, <1>3, <1>4, <1>8, <2>4, <3>1 DEF BinariesAfter, Dev, Bin, TypeOK
    <3>3. Waits(d, k)
      BY <1>3, <1>8, <2>4 DEF Waits
    <3>4. ASSUME NEW m \in 1..k - 1, Dev(m) = d,
                 At(m).type \in {"KERNEL", "REPROGRAM"}
          PROVE  At(m).status = COMPLETE
      BY <1>3, <1>8, <2>4, <3>4, ReprogramsAlone DEF Submits
    <3>5. ASSUME NEW n \in 1..Length + 1, k < n, NEW b, Finds(d, n, b)
          PROVE  Finds(d, n, b)'
      <4>1. /\ \A m \in 1..n - 1 : m \in 1..Length
            /\ k \in 1..n - 1
        BY <1>3, <3>5
      <4>2. PICK j \in 1..Length : LastWaits(d, j, n) /\ Bin(j) = b
        BY <3>3, <3>5, <4>1 DEF Finds
      <4>3. CASE j = k
        <5>1. ASSUME NEW m \in 1..n - 1, Waits(d, m), m # k PROVE FALSE
          <6>1. m <= k /\ m \in 1..k - 1
            BY <1>3, <4>2, <4>3, <5>1 DEF LastWaits
          <6>2. At(m).status = COMPLETE
            BY <3>4, <5>1, <6>1 DEF Waits
          <6>3. QED
            BY <5>1, <6>2 DEF Waits
        <5>2. \A m \in 1..n - 1 : ~Waits(d, m)'
          BY <2>1, <4>1, <5>1
        <5>3. QED
          BY <3>2, <4>2, <4>3, <5>2 DEF Finds
      <4>4. CASE j # k
        <5>1. LastWaits(d, j, n)' /\ Bin(j)' = b
          BY <2>1, <4>1, <4>2, <4>4 DEF LastWaits
        <5>2. QED
          BY <1>5, <5>1 DEF Finds
      <4>5. QED
        BY <4>3, <4>4
    <3>6. ASSUME NEW n \in 1..Length,
                 At(n)'.type = "KERNEL", Dev(n)' = d, At(n)'.status # COMPLETE
          PROVE  Finds(d, n, Bin(n))'
      <4>1. n # k
        BY <1>3, <1>8, <2>1, <3>6
      <4>2. /\ Finds(d, n, Bin(n)) /\ Bin(n)' = Bin(n) /\ n \in 1..Length + 1
            /\ At(n).type = "KERNEL" /\ Dev(n) = d /\ At(n).status # COMPLETE
        BY <1>3, <2>1, <2>2, <3>6, <4>1 DEF DeviceInv
      <4>3. k < n
        <5>1. n \notin 1..k - 1
          BY <3>4, <4>2
        <5>2. QED
          BY <1>3, <4>1, <5>1
      <4>4. PICK b : b = Bin(n)
        OBVIOUS
      <4>5. Finds(d, n, b)'
        BY <3>5, <4>2, <4>3, <4>4
      <4>6. QED
        BY <4>2, <4>4, <4>5 DEF Finds
    <3>7. ASSUME last_bin'[d] # None PROVE Finds(d, Length + 1, last_bin[d])'
      <4>1. PICK b, n : b = last_bin[d] /\ n = Length + 1
        OBVIOUS
      <4>2. Finds(d, n, b) /\ n \in 1..Length + 1 /\ k < n
        BY <1>3, <1>5, <2>2, <3>7, <4>1 DEF DeviceInv
      <4>3. Finds(d, n, b)'
        BY <3>5, <4>2
      <4>4. QED
        BY <1>5, <4>1, <4>3 DEF Finds, LastWaits
    <3>8. last_bin'[d] = None => \A m \in 1..Length : ~Waits(d, m)'
      BY <1>5, <2>1, <2>2 DEF DeviceInv
    <3>9. QED
      BY <1>5, <3>6, <3>7, <3>8 DEF DeviceInv
  <2>5. QED
    BY <2>3, <2>4
<1>9. QED
  BY <1>7, <1>8

(* A reprogram is skipped only with its whole command, and no error        *)
(* precedes the first operation of one.                                    *)
LEMMA NoReprogramSkipped ==
    ASSUME IInv, NEW k \in 1..Length, At(k).status = QUEUED, At(k).exec < 0
    PROVE  At(k).type # "REPROGRAM"
<1>1. TypeOK /\ ListInv /\ OpInv
  BY DEF IInv
<1>2. committed[k] \in Live
  BY <1>1, ListFacts
<1>3. QED
  BY <1>1, <1>2 DEF OpInv, ShapeOf, StateOf, At

(* Pruning leaves every reprogram that waits, and their order.             *)
LEMMA PruneBinaries ==
    ASSUME IInv, BinInv, PrunePass
    PROVE  BinInv'
<1>1. TypeOK /\ ListInv
  BY DEF IInv
<1>2. PICK h : Moved(h)
  BY PruneMoves
<1>a. Length' \in Nat
  BY PruneLists
<1>b. PICK L \in Nat : L = Length'
  BY <1>a
<1>3. /\ Length \in Nat
      /\ last_bin' = last_bin /\ loaded_bin' = loaded_bin
      /\ \A k \in 1..Length : committed[k] \in Live
  BY <1>1, ListFacts, PruneLists DEF PrunePass, bins
<1>4. ASSUME NEW k \in 1..L
      PROVE  /\ h[k] \in 1..Length
             /\ Bin(k)' = Bin(h[k]) /\ Dev(k)' = Dev(h[k])
             /\ At(k)'.type = At(h[k]).type /\ At(k)'.status = At(h[k]).status
             /\ \A d : Waits(d, k)' <=> Waits(d, h[k])
  <2>1. /\ h[k] \in 1..Length /\ At(k)' = op'[committed[h[k]]]
        /\ Fixed(committed[h[k]]) /\ At(k)'.status = At(h[k]).status
    BY <1>2, <1>b DEF Moved
  <2>2. At(k)'.cmd = At(h[k]).cmd /\ At(k)'.type = At(h[k]).type
    BY <2>1 DEF Fixed, At
  <2>3. Bin(k)' = Bin(h[k]) /\ Dev(k)' = Dev(h[k])
    BY <2>2 DEF Bin, Dev
  <2>4. \A d : Waits(d, k)' <=> Waits(d, h[k])
    BY <2>1, <2>2, <2>3 DEF Waits
  <2>5. QED
    BY <2>1, <2>2, <2>3, <2>4
<1>5. ASSUME NEW d, NEW j \in 1..Length, Waits(d, j)
      PROVE  \E m \in 1..L : h[m] = j
  <2>1. committed[j] \in Stays
    BY <1>3, <1>5 DEF Stays, FinishedOps, Finished, Waits, At
  <2>2. QED
    BY <1>2, <1>b, <2>1 DEF Moved
<1>6. \A m, n \in 1..L : m < n <=> h[m] < h[n]
  <2> SUFFICES ASSUME NEW m \in 1..L, NEW n \in 1..L
               PROVE  m < n <=> h[m] < h[n]
    OBVIOUS
  <2>1. /\ m < n => h[m] < h[n]
        /\ n < m => h[n] < h[m]
        /\ h[m] \in 1..Length /\ h[n] \in 1..Length
    BY <1>2, <1>b DEF Moved
  <2>2. QED
    BY <1>3, <2>1
<1>7. ASSUME NEW d, NEW b, NEW K \in 1..Length + 1, NEW k \in 1..L + 1,
             \A n \in 1..L : n < k <=> h[n] < K,
             Finds(d, K, b)
      PROVE  Finds(d, k, b)'
  <2>1. \A n \in 1..k - 1 : /\ n \in 1..L /\ h[n] \in 1..K - 1
                            /\ (Waits(d, n)' <=> Waits(d, h[n]))
    <3> SUFFICES ASSUME NEW n \in 1..k - 1
                 PROVE  /\ n \in 1..L /\ h[n] \in 1..K - 1
                        /\ (Waits(d, n)' <=> Waits(d, h[n]))
      OBVIOUS
    <3>1. n \in 1..L /\ n < k
      BY <1>3
    <3>2. h[n] < K /\ h[n] \in 1..Length /\ (Waits(d, n)' <=> Waits(d, h[n]))
      BY <1>4, <1>7, <3>1
    <3>3. QED
      BY <1>3, <3>1, <3>2
  <2>2. CASE \E j \in 1..Length : LastWaits(d, j, K) /\ Bin(j) = b
    <3>1. PICK j \in 1..Length : LastWaits(d, j, K) /\ Bin(j) = b
      BY <2>2
    <3>2. PICK m \in 1..L : h[m] = j
      BY <1>5, <3>1 DEF LastWaits
    <3>3. m < k
      <4>1. h[m] < K
        BY <1>3, <3>1, <3>2 DEF LastWaits
      <4>2. QED
        BY <1>7, <4>1
    <3>4. m \in 1..k - 1 /\ Waits(d, m)' /\ Bin(m)' = b
      <4>1. m \in 1..k - 1
        BY <1>3, <3>3
      <4>2. QED
        BY <1>4, <3>1, <3>2, <4>1 DEF LastWaits
    <3>5. ASSUME NEW n \in 1..k - 1, Waits(d, n)' PROVE n <= m
      <4>1. h[n] <= h[m] /\ n \in 1..L
        BY <2>1, <3>1, <3>2, <3>5 DEF LastWaits
      <4>2. h[m] \in 1..Length /\ h[n] \in 1..Length
        BY <1>4, <4>1
      <4>3. ~(h[m] < h[n])
        BY <1>3, <4>1, <4>2
      <4>4. ~(m < n)
        BY <1>6, <4>1, <4>3
      <4>5. QED
        BY <1>3, <4>1, <4>4
    <3>6. LastWaits(d, m, k)'
      BY <3>4, <3>5 DEF LastWaits
    <3>7. QED
      BY <1>b, <3>4, <3>6 DEF Finds
  <2>3. CASE (\A m \in 1..K - 1 : ~Waits(d, m)) /\ loaded_bin[d] = b
    BY <1>b, <1>3, <2>1, <2>3 DEF Finds
  <2>4. QED
    BY <1>b, <1>7, <2>2, <2>3 DEF Finds
<1> SUFFICES ASSUME NEW d \in Devices, AlwaysProgrammable(d)
             PROVE  DeviceInv(d)'
  BY DEF BinInv, AlwaysProgrammable
<1>8. DeviceInv(d)
  BY DEF BinInv
<1>9. ASSUME NEW k \in 1..L,
             At(k)'.type = "KERNEL", Dev(k)' = d, At(k)'.status # COMPLETE
      PROVE  Finds(d, k, Bin(k))'
  <2>1. PICK b, K : b = Bin(h[k]) /\ K = h[k]
    OBVIOUS
  <2>2. K \in 1..Length /\ Finds(d, K, b) /\ Bin(k)' = b
    BY <1>4, <1>8, <1>9, <2>1 DEF DeviceInv
  <2>3. /\ K \in 1..Length + 1 /\ k \in 1..L + 1
        /\ \A n \in 1..L : n < k <=> h[n] < K
    BY <1>3, <1>6, <2>1, <2>2
  <2>4. Finds(d, k, b)'
    BY <1>7, <2>2, <2>3
  <2>5. QED
    BY <1>b, <2>2, <2>4 DEF Finds
<1>10. ASSUME last_bin'[d] # None PROVE Finds(d, Length + 1, last_bin[d])'
  <2>1. PICK b, K, k : b = last_bin[d] /\ K = Length + 1 /\ k = L + 1
    OBVIOUS
  <2>2. Finds(d, K, b)
    BY <1>3, <1>8, <1>10, <2>1 DEF DeviceInv
  <2>3. /\ K \in 1..Length + 1 /\ k \in 1..L + 1
        /\ \A n \in 1..L : n < k <=> h[n] < K
    <3>1. ASSUME NEW n \in 1..L PROVE n < k /\ h[n] < K
      <4>1. h[n] \in 1..Length
        BY <1>4
      <4>2. QED
        BY <1>3, <2>1, <4>1
    <3>2. QED
      BY <1>3, <2>1, <3>1
  <2>4. Finds(d, k, b)'
    BY <1>7, <2>2, <2>3
  <2>5. QED
    BY <1>b, <1>3, <2>1, <2>4 DEF Finds, LastWaits
<1>11. last_bin'[d] = None => \A m \in 1..L : ~Waits(d, m)'
  BY <1>3, <1>4, <1>8 DEF DeviceInv
<1>12. QED
  BY <1>b, <1>9, <1>10, <1>11 DEF DeviceInv

(* Which proposals begin with a reprogram, and which binary they leave.    *)
LEMMA ProposalBinaries ==
    ASSUME NEW c \in Commands
    PROVE  LET P == Proposal(c) IN
           /\ Command[c].kind = "kernel" =>
                P[1].type = "REPROGRAM" \/ ~NeedReprogram(c)
           /\ Command[c].kind = "program" => P[1].type = "REPROGRAM"
           /\ Command[c].kind \notin {"kernel", "program"} => P[1].type # "REPROGRAM"
           /\ Command[c].kind \in {"kernel", "program"} => Command[c].bin \in Binaries
           /\ \A n \in 1..Len(P) : P[n].type = "REPROGRAM" => n = 1
<1> DEFINE C == Command[c]
           P == Proposal(c)
           s == C.ops
<1>1. /\ s \in Seq(OpSpec) /\ Len(s) \in Nat \ {0}
      /\ C \in CommandType
  BY OwnOps, CommandAssumption
<1>2. \A n \in 1..Len(P) : P[n].type = "REPROGRAM" => n = 1
  BY ProposalFacts DEF Proposable
<1>3. CASE C.kind = "kernel"
  <2>1. C.bin \in Binaries
    BY <1>3, SubmitAssumption DEF Launches
  <2>2. ASSUME NeedReprogram(c) PROVE P[1].type = "REPROGRAM"
    <3> DEFINE q == <<ReprogramOp(c)>>
    <3>1. P = q \o s
      BY <1>3, <2>2 DEF Proposal, IsKernelCommand
    <3>2. (q \o s)[1] = ReprogramOp(c)
      BY <1>1
    <3>3. QED
      BY <3>1, <3>2 DEF ReprogramOp
  <2>3. QED
    BY <1>2, <1>3, <2>1, <2>2
<1>4. CASE C.kind # "kernel"
  <2>1. P = s
    BY <1>4 DEF Proposal, IsKernelCommand
  <2>2. 1 \in 1..Len(s) /\ 1 \in DOMAIN s
    BY <1>1
  <2>3. C.kind = "program" => s[1].type = "REPROGRAM" /\ C.bin \in Binaries
    BY SubmitAssumption DEF Programs
  <2>4. C.kind \notin {"kernel", "program"} => s[1].type # "REPROGRAM"
    <3>1. C.kind \notin {"kernel", "program"} => C.kind = "other"
      BY <1>1 DEF CommandType
    <3>2. C.kind = "other" => {"KERNEL", "REPROGRAM"} \cap TypesOf(C) = {}
      BY SubmitAssumption
    <3>3. QED
      BY <2>2, <3>1, <3>2 DEF TypesOf
  <2>5. QED
    BY <1>2, <1>4, <2>1, <2>3, <2>4
<1>5. QED
  BY <1>3, <1>4

(* last_bin is what the command that is committed will find, or leaves.    *)
LEMMA CommitBinaries ==
    ASSUME IInv, BinInv, NEW c \in Commands, Commit(c)
    PROVE  BinInv'
<1>1. TypeOK /\ ListInv
  BY DEF IInv
<1>2. PICK ids, size : Grows(c, ids, size)
  BY CommitGrows
<1> DEFINE P == Proposal(c)
           C == Command[c]
<1>a. Length' \in Nat
  BY <1>1, <1>2, ListFacts DEF Grows
<1>b. PICK L \in Nat : L = Length'
  BY <1>a
<1>c. PICK N \in Nat : N = Length
  BY <1>1, ListFacts
<1>3. /\ size \in Nat \ {0} /\ size = Len(P) /\ L = N + size
      /\ \A k \in 1..N : At(k)' = At(k)
      /\ \A n \in 1..size : \A k : k = N + n => At(k)' = op'[ids[n]]
      /\ \A k \in 1..L : k \in 1..N \/ \E n \in 1..size : k = N + n
  BY <1>2, <1>b, <1>c DEF Grows
<1>4. \A n \in 1..size : LET i == ids[n] IN
        /\ op'[i].cmd = c /\ op'[i].type = P[n].type /\ op'[i].status = QUEUED
        /\ P[n].type = "REPROGRAM" => n = 1
        /\ P[n].type = "KERNEL" => n = size /\ C.kind = "kernel"
  <2> SUFFICES ASSUME NEW n \in 1..size
               PROVE  LET i == ids[n] IN
                      /\ op'[i].cmd = c /\ op'[i].type = P[n].type
                      /\ op'[i].status = QUEUED
                      /\ P[n].type = "REPROGRAM" => n = 1
                      /\ P[n].type = "KERNEL" => n = size /\ C.kind = "kernel"
    OBVIOUS
  <2>1. op'[ids[n]] = ProposedOp(c, n, size, ids[size])
    BY <1>2 DEF Grows
  <2>2. Proposable(c, P[n], n, size)
    BY <1>3, ProposalFacts
  <2> HIDE DEF P
  <2>3. QED
    BY <2>1, <2>2 DEF ProposedOp, Proposable, IsKernelCommand, P
<1>5. /\ loaded_bin' = loaded_bin
      /\ C.kind \in {"kernel", "program"} =>
           last_bin'[C.device] = C.bin /\ C.bin # None
      /\ C.kind \notin {"kernel", "program"} => last_bin' = last_bin
      /\ \A d \in Devices : d # C.device => last_bin'[d] = last_bin[d]
  <2>1. C \in CommandType /\ last_bin \in [Devices -> Binaries \cup {None}]
    BY <1>1, CommandAssumption DEF TypeOK
  <2>2. C.device \in Devices
    BY <2>1 DEF CommandType
  <2>3. C.kind \in {"kernel", "program"} => C.bin # None
    BY ProposalBinaries, NoneAssumption
  <2>4. QED
    BY <2>1, <2>2, <2>3 DEF Commit
<1> HIDE DEF P, C
<1>6. ASSUME NEW m \in 1..N
      PROVE  /\ m \in 1..L /\ Bin(m)' = Bin(m) /\ Dev(m)' = Dev(m)
             /\ \A d : Waits(d, m)' <=> Waits(d, m)
  BY <1>3 DEF Bin, Dev, Waits
<1>7. ASSUME NEW k \in 1..L, k \notin 1..N
      PROVE  /\ k > N
             /\ Bin(k)' = C.bin /\ Dev(k)' = C.device
             /\ \A d : Waits(d, k)' <=>
                  k = N + 1 /\ P[1].type = "REPROGRAM" /\ d = C.device
             /\ At(k)'.type = "KERNEL" => k = N + size /\ C.kind = "kernel"
                                          /\ P[size].type = "KERNEL"
  <2>1. PICK n \in 1..size : k = N + n
    BY <1>3, <1>7
  <2>2. /\ At(k)'.cmd = c /\ At(k)'.type = P[n].type /\ At(k)'.status = QUEUED
        /\ P[n].type = "REPROGRAM" => n = 1
        /\ P[n].type = "KERNEL" => n = size /\ C.kind = "kernel"
    BY <1>3, <1>4, <2>1
  <2>3. Bin(k)' = C.bin /\ Dev(k)' = C.device
    BY <2>2 DEF Bin, Dev, C
  <2>4. k > N /\ (k = N + 1 <=> n = 1)
    BY <1>3, <2>1
  <2>5. \A d : Waits(d, k)' <=>
          k = N + 1 /\ P[1].type = "REPROGRAM" /\ d = C.device
    BY <2>2, <2>3, <2>4 DEF Waits
  <2>6. QED
    BY <2>1, <2>2, <2>3, <2>4, <2>5
(* Where nothing new waits, what was found is found still.                 *)
<1>8. ASSUME NEW d, NEW b, NEW K \in 1..N + 1, NEW k \in K..L + 1,
             K = k \/ (K = N + 1 /\ (d # C.device \/ P[1].type # "REPROGRAM")),
             Finds(d, K, b)
      PROVE  Finds(d, k, b)'
  <2>1. \A m \in 1..K - 1 : m \in 1..N /\ m \in 1..k - 1
                            /\ (Waits(d, m)' <=> Waits(d, m))
    <3> SUFFICES ASSUME NEW m \in 1..K - 1
                 PROVE  m \in 1..N /\ m \in 1..k - 1
                        /\ (Waits(d, m)' <=> Waits(d, m))
      OBVIOUS
    <3>1. m \in 1..N /\ m \in 1..k - 1
      BY <1>8
    <3>2. QED
      BY <1>6, <3>1
  <2>2. ASSUME NEW m \in 1..k - 1, m \notin 1..K - 1 PROVE ~Waits(d, m)'
    <3>1. K = N + 1 /\ m \in 1..L /\ m \notin 1..N
      BY <1>8, <2>2
    <3>2. QED
      BY <1>7, <1>8, <2>2, <3>1
  <2>3. CASE \E j \in 1..Length : LastWaits(d, j, K) /\ Bin(j) = b
    <3>1. PICK j \in 1..Length : LastWaits(d, j, K) /\ Bin(j) = b
      BY <2>3
    <3>2. j \in 1..N /\ j \in 1..L /\ Bin(j)' = b /\ j \in 1..K - 1
      BY <1>c, <1>6, <3>1 DEF LastWaits
    <3>3. LastWaits(d, j, k)'
      BY <2>1, <2>2, <3>1, <3>2 DEF LastWaits
    <3>4. QED
      BY <1>b, <3>2, <3>3 DEF Finds
  <2>4. CASE (\A m \in 1..K - 1 : ~Waits(d, m)) /\ loaded_bin[d] = b
    BY <1>5, <2>1, <2>2, <2>4 DEF Finds
  <2>5. QED
    BY <1>8, <2>3, <2>4 DEF Finds
(* After a new reprogram, its binary is found.                             *)
<1>9. ASSUME P[1].type = "REPROGRAM", NEW k \in N + 2..L + 1
      PROVE  Finds(C.device, k, C.bin)'
  <2>1. PICK j, d : j = N + 1 /\ d = C.device
    OBVIOUS
  <2>2. j \in 1..L /\ j \notin 1..N /\ j \in 1..k - 1
    BY <1>3, <2>1
  <2>3. Waits(d, j)' /\ Bin(j)' = C.bin
    BY <1>7, <1>9, <2>1, <2>2
  <2>4. ASSUME NEW m \in 1..k - 1, Waits(d, m)' PROVE m <= j
    <3>1. m \in 1..L
      BY <1>9
    <3>2. m \notin 1..N => m = N + 1
      BY <1>7, <2>4, <3>1
    <3>3. QED
      BY <2>1, <3>1, <3>2
  <2>5. LastWaits(d, j, k)'
    BY <2>2, <2>3, <2>4 DEF LastWaits
  <2>6. Finds(d, k, C.bin)'
    BY <1>b, <2>2, <2>3, <2>5 DEF Finds
  <2>7. QED
    BY <2>1, <2>6
<1> SUFFICES ASSUME NEW d \in Devices, AlwaysProgrammable(d)
             PROVE  DeviceInv(d)'
  BY DEF BinInv, AlwaysProgrammable
<1>10. DeviceInv(d)
  BY DEF BinInv
(* What the command finds that does without a reprogram.                   *)
<1>11. ASSUME d = C.device, C.kind \in {"kernel", "program"},
              P[1].type # "REPROGRAM"
       PROVE  Finds(d, N + 1, C.bin)
  <2>1. C.kind = "kernel" /\ ~NeedReprogram(c)
    BY <1>11, ProposalBinaries DEF P, C
  <2>2. CASE last_bin[d] # None
    BY <1>c, <1>10, <1>11, <2>1, <2>2 DEF NeedReprogram, DeviceInv, C
  <2>3. CASE last_bin[d] = None
    <3>1. loaded_bin[d] = C.bin
      BY <1>11, <2>1, <2>3 DEF NeedReprogram, C
    <3>2. \A m \in 1..N : ~Waits(d, m)
      BY <1>c, <1>10, <2>3 DEF DeviceInv
    <3>3. \A m \in 1..N + 1 - 1 : ~Waits(d, m)
      BY <3>2
    <3>4. QED
      BY <3>1, <3>3 DEF Finds
  <2>4. QED
    BY <2>2, <2>3
<1>12. ASSUME NEW k \in 1..L,
              At(k)'.type = "KERNEL", Dev(k)' = d, At(k)'.status # COMPLETE
       PROVE  Finds(d, k, Bin(k))'
  <2>1. CASE k \in 1..N
    <3>1. PICK b : b = Bin(k)
      OBVIOUS
    <3>2. Finds(d, k, b) /\ Bin(k)' = b
      BY <1>c, <1>3, <1>6, <1>10, <1>12, <2>1, <3>1 DEF DeviceInv
    <3>3. k \in 1..N + 1 /\ k \in k..L + 1
      BY <1>12, <2>1
    <3>4. Finds(d, k, b)'
      BY <1>8, <3>2, <3>3
    <3>5. QED
      BY <3>2, <3>4 DEF Finds
  <2>2. CASE k \notin 1..N
    <3>1. /\ d = C.device /\ Bin(k)' = C.bin /\ k = N + size
          /\ C.kind = "kernel" /\ P[size].type = "KERNEL"
      BY <1>7, <1>12, <2>2
    <3>2. PICK b : b = C.bin
      OBVIOUS
    <3>3. Finds(d, k, b)'
      <4>1. CASE P[1].type = "REPROGRAM"
        <5>1. size # 1
          BY <3>1, <4>1
        <5>2. k \in N + 2..L + 1
          BY <1>3, <3>1, <5>1
        <5>3. QED
          BY <1>9, <3>1, <3>2, <4>1, <5>2
      <4>2. CASE P[1].type # "REPROGRAM"
        <5>1. PICK K : K = N + 1
          OBVIOUS
        <5>2. Finds(d, K, b) /\ K \in 1..N + 1 /\ k \in K..L + 1
          BY <1>3, <1>11, <3>1, <3>2, <4>2, <5>1
        <5>3. QED
          BY <1>8, <4>2, <5>1, <5>2
      <4>3. QED
        BY <4>1, <4>2
    <3>4. QED
      BY <3>1, <3>2, <3>3 DEF Finds
  <2>3. QED
    BY <2>1, <2>2
<1>13. PICK n, K, b : n = L + 1 /\ K = N + 1 /\ b = last_bin'[d]
  OBVIOUS
<1>14. n \in K..L + 1 /\ K \in 1..N + 1
  BY <1>3, <1>13
<1>15. ASSUME b # None PROVE Finds(d, n, b)'
  <2>1. CASE d = C.device /\ C.kind \in {"kernel", "program"}
    <3>1. b = C.bin
      BY <1>5, <1>13, <2>1
    <3>2. CASE P[1].type = "REPROGRAM"
      <4>1. n \in N + 2..L + 1
        BY <1>3, <1>13
      <4>2. QED
        BY <1>9, <2>1, <3>1, <3>2, <4>1
    <3>3. CASE P[1].type # "REPROGRAM"
      <4>1. Finds(d, K, b)
        BY <1>11, <1>13, <2>1, <3>1, <3>3
      <4>2. QED
        BY <1>8, <1>13, <1>14, <3>3, <4>1
    <3>4. QED
      BY <3>2, <3>3
  <2>2. CASE ~(d = C.device /\ C.kind \in {"kernel", "program"})
    <3>1. b = last_bin[d]
      BY <1>5, <1>13, <2>2
    <3>2. d # C.device \/ P[1].type # "REPROGRAM"
      BY <2>2, ProposalBinaries DEF P, C
    <3>3. Finds(d, K, b)
      BY <1>c, <1>10, <1>13, <1>15, <3>1 DEF DeviceInv
    <3>4. QED
      BY <1>8, <1>13, <1>14, <3>2, <3>3
  <2>3. QED
    BY <2>1, <2>2
<1>16. ASSUME b = None, NEW m \in 1..L PROVE ~Waits(d, m)'
  <2>1. last_bin[d] = None /\ (d # C.device \/ P[1].type # "REPROGRAM")
    <3>1. ~(d = C.device /\ C.kind \in {"kernel", "program"})
      BY <1>5, <1>13, <1>16
    <3>2. QED
      BY <1>5, <1>13, <1>16, <3>1, ProposalBinaries DEF P, C
  <2>2. CASE m \in 1..N
    BY <1>c, <1>6, <1>10, <2>1, <2>2 DEF DeviceInv
  <2>3. CASE m \notin 1..N
    BY <1>7, <2>1, <2>3
  <2>4. QED
    BY <2>2, <2>3
<1>17. last_bin'[d] # None => Finds(d, Length + 1, last_bin[d])'
  BY <1>b, <1>13, <1>15 DEF Finds, LastWaits
<1>18. QED
  BY <1>b, <1>12, <1>13, <1>16, <1>17 DEF DeviceInv

(* The other steps.                                                        *)
LEMMA QueueKept ==
    ASSUME IInv,
           \/ \E k \in 1..Length : ProcessPrintf(committed[k])
           \/ \E k \in 1..Length : /\ At(k).status = QUEUED /\ At(k).exec < 0
                                   /\ SkipOp(committed[k])
           \/ \E k \in 1..Length :
                /\ \/ TakeRunning(committed[k]) \/ Relaunch(committed[k])
                   \/ TakeComplete(committed[k])
                /\ UNCHANGED <<lists, bins>>
           \/ \E i \in Ids : TransferDone(i)
           \/ \E a \in Accels : KernelStalls(a)
           \/ \E a \in Accels, rest \in {"none", "final"} : KernelDone(a, rest)
           \/ UNCHANGED <<op, lists, bins>>
    PROVE  SameQueue
<1>1. TypeOK /\ ListInv /\ OpInv /\ RingInv /\ CurrentInv
  BY DEF IInv
<1>2. /\ op \in [Ids -> OpType] /\ Live \subseteq Ids
      /\ \A k \in 1..Length : committed[k] \in Live
  BY <1>1, ListFacts DEF TypeOK
<1> USE DEF lists, bins
<1>3. ASSUME NEW k \in 1..Length, ProcessPrintf(committed[k]) PROVE SameQueue
  <2>1. PICK i : i = committed[k]
    OBVIOUS
  <2>2. op' = [op EXCEPT ![i].printf = "none"] /\ i \in Ids
    BY <1>2, <1>3, <2>1 DEF ProcessPrintf
  <2>3. \A j \in Ids : op'[j].cmd = op[j].cmd /\ op'[j].type = op[j].type
                       /\ op'[j].status = op[j].status
    BY <1>2, <2>2 DEF OpType
  <2>4. QED
    BY <1>2, <1>3, <2>3 DEF SameQueue, ProcessPrintf
<1>4. ASSUME NEW k \in 1..Length, At(k).status = QUEUED, At(k).exec < 0,
             SkipOp(committed[k])
      PROVE  SameQueue
  <2>1. PICK i : i = committed[k]
    OBVIOUS
  <2>2. /\ op' = [op EXCEPT ![i].status = SUBMITTED] /\ i \in Ids
        /\ op[i].type # "REPROGRAM" /\ op[i].status = QUEUED
    BY <1>2, <1>4, <2>1, NoReprogramSkipped DEF SkipOp, At
  <2>3. /\ \A j \in Ids : op'[j].cmd = op[j].cmd /\ op'[j].type = op[j].type
        /\ \A j \in Ids \ {i} : op'[j].status = op[j].status
    BY <1>2, <2>2 DEF OpType
  <2>4. QED
    BY <1>2, <1>4, <2>2, <2>3 DEF SameQueue, SkipOp
<1>5. ASSUME NEW k \in 1..Length, TakeRunning(committed[k]),
             UNCHANGED <<lists, bins>>
      PROVE  SameQueue
  <2>1. PICK i : i = committed[k]
    OBVIOUS
  <2>2. op' = [op EXCEPT ![i].status = RUNNING] /\ i \in Ids
        /\ op[i].status = SUBMITTED
    BY <1>2, <1>5, <2>1 DEF TakeRunning
  <2>3. /\ \A j \in Ids : op'[j].cmd = op[j].cmd /\ op'[j].type = op[j].type
        /\ \A j \in Ids \ {i} : op'[j].status = op[j].status
        /\ op'[i].status = RUNNING
    BY <1>2, <2>2 DEF OpType
  <2>4. QED
    BY <1>2, <1>5, <2>2, <2>3 DEF SameQueue
<1>6. ASSUME NEW k \in 1..Length, Relaunch(committed[k]),
             UNCHANGED <<lists, bins>>
      PROVE  SameQueue
  <2>1. PICK i : i = committed[k]
    OBVIOUS
  <2>2. op' = [op EXCEPT ![i].exec = RUNNING, ![i].left = @ - 1] /\ i \in Ids
    BY <1>2, <1>6, <2>1 DEF Relaunch
  <2>3. \A j \in Ids : op'[j].cmd = op[j].cmd /\ op'[j].type = op[j].type
                       /\ op'[j].status = op[j].status
    <3>1. PICK l : l = op[i].left - 1
      OBVIOUS
    <3>2. op' = [op EXCEPT ![i].exec = RUNNING, ![i].left = l]
      BY <1>2, <2>2, <3>1, Zenon
    <3>3. QED
      BY <1>2, <2>2, <3>2 DEF OpType
  <2>4. QED
    BY <1>2, <1>6, <2>3 DEF SameQueue
<1>7. ASSUME NEW k \in 1..Length, TakeComplete(committed[k]),
             UNCHANGED <<lists, bins>>
      PROVE  SameQueue
  <2>1. PICK i : i = committed[k]
    OBVIOUS
  <2>2. op' = [op EXCEPT ![i].status = COMPLETE] /\ i \in Ids
        /\ op[i].status = RUNNING
    BY <1>2, <1>7, <2>1 DEF TakeComplete
  <2>3. /\ \A j \in Ids : op'[j].cmd = op[j].cmd /\ op'[j].type = op[j].type
        /\ \A j \in Ids \ {i} : op'[j].status = op[j].status
        /\ op'[i].status = COMPLETE
    BY <1>2, <2>2 DEF OpType
  <2>4. QED
    BY <1>2, <1>7, <2>2, <2>3, SMTT(40) DEF SameQueue
<1>8. ASSUME NEW i \in Ids, TransferDone(i) PROVE SameQueue
  <2>1. i \in Live /\ op[i].status \in {SUBMITTED, RUNNING} /\ op[i].exec = RUNNING
    BY <1>8 DEF TransferDone, TransferInFlight
  <2>2. current_op[op[i].cmd] = i /\ i # None
    BY <1>1, <2>1, NoneAssumption DEF CurrentInv
  <2>3. op' = [op EXCEPT ![i].exec = COMPLETE]
    BY <1>8, <2>2 DEF TransferDone
  <2>4. \A j \in Ids : op'[j].cmd = op[j].cmd /\ op'[j].type = op[j].type
                       /\ op'[j].status = op[j].status
    BY <1>2, <2>3, ZenonT(60) DEF OpType
  <2>5. QED
    BY <1>2, <1>8, <2>4 DEF SameQueue, TransferDone
<1>9. ASSUME NEW a \in Accels, KernelStalls(a) PROVE SameQueue
  <2>1. PICK i : i = Head(ring[a])
    BY Zenon
  <2>2. op' = [op EXCEPT ![i].printf = "stall"]
    BY <1>9, <2>1, Zenon DEF KernelStalls
  <2>3. i \in Ids
    BY <1>1, <1>2, <1>9, <2>1, HeadFacts, Zenon DEF KernelStalls
  <2>4. \A j \in Ids : op'[j].cmd = op[j].cmd /\ op'[j].type = op[j].type
                       /\ op'[j].status = op[j].status
    BY <1>2, <2>2, <2>3, ZenonT(60) DEF OpType
  <2>5. QED
    BY <1>2, <1>9, <2>4, Zenon DEF SameQueue, KernelStalls
<1>10. ASSUME NEW a \in Accels, NEW rest \in {"none", "final"}, KernelDone(a, rest)
       PROVE  SameQueue
  <2>1. PICK h, g : h = Head(ring[a]) /\ g = ring[a][2]
    BY Zenon
  <2>2. op' = [i \in Ids |->
                 IF i = h
                 THEN [op[i] EXCEPT !.exec = COMPLETE,
                                    !.printf = IF rest = "none" THEN @ ELSE rest]
                 ELSE IF Len(ring[a]) > 1 /\ i = g /\ op[i].exec > RUNNING
                      THEN [op[i] EXCEPT !.exec = RUNNING]
                      ELSE op[i]]
    BY <1>10, <2>1, Zenon DEF KernelDone
  <2>3. ASSUME NEW j \in Ids
        PROVE  op'[j].cmd = op[j].cmd /\ op'[j].type = op[j].type
               /\ op'[j].status = op[j].status
    <3>1. PICK b, p : /\ b = (Len(ring[a]) > 1 /\ j = g /\ op[j].exec > RUNNING)
                      /\ p = IF rest = "none" THEN op[j].printf ELSE rest
      BY Zenon
    <3>2. op'[j] = IF j = h
                   THEN [op[j] EXCEPT !.exec = COMPLETE, !.printf = p]
                   ELSE IF b THEN [op[j] EXCEPT !.exec = RUNNING] ELSE op[j]
      BY <2>2, <3>1
    <3>3. op[j] \in OpType
      BY <1>2
    <3>4. QED
      BY <3>2, <3>3 DEF OpType
  <2>4. QED
    BY <1>2, <1>10, <2>3, Zenon DEF SameQueue, KernelDone
<1>11. CASE UNCHANGED <<op, lists, bins>>
  BY <1>11 DEF SameQueue
<1>12. QED
  BY <1>3, <1>4, <1>5, <1>6, <1>7, <1>8, <1>9, <1>10, <1>11

(* Every step keeps BinInv. *)
LEMMA NextBinaries ==
    ASSUME IInv, BinInv, [Next]_vars
    PROVE  BinInv'
<1>1. TypeOK /\ ListInv
  BY DEF IInv
<1>2. ASSUME SameQueue PROVE BinInv'
  BY <1>1, <1>2, SameQueueKeeps
<1>3. /\ DOMAIN committed = 1..Length /\ Length \in Nat
      /\ Length = Len(committed) /\ cursor \in Nat /\ cursor >= 1
  BY <1>1, ListFacts, SizeAssumption DEF TypeOK, Length
<1>4. CASE SubmitPass
  <2> DEFINE ready == {k \in DOMAIN committed : CanSubmit(k)}
  <2>1. CASE ready = {}
    <3>1. UNCHANGED <<op, lists, bins>>
      BY <1>4, <2>1 DEF SubmitPass
    <3>2. QED
      BY <1>2, <3>1, QueueKept
  <2>2. CASE ready # {}
    <3>1. /\ num_updates' = TRUE /\ SubmitOp(committed[Min(ready)])
          /\ pc = "submit" /\ pc' = "status" /\ cursor' = 1 /\ caller' = caller
      BY <1>4, <2>2 DEF SubmitPass
    <3>2. PICK k : k = Min(ready)
      OBVIOUS
    <3>3. k \in 1..Length /\ CanSubmit(k)
      <4>1. ready \subseteq Nat
        BY <1>3
      <4>2. Min(ready) \in ready
        <5> HIDE DEF ready
        <5> QED
          BY <2>2, <4>1, LeastOf
      <4>3. QED
        BY <1>3, <3>2, <4>2
    <3>4. Submits(k) /\ SubmitOp(committed[k])
      BY <3>1, <3>2, <3>3 DEF Submits
    <3>5. CASE At(k).status # QUEUED
      <4>1. ProcessPrintf(committed[k])
        BY <3>4, <3>5 DEF SubmitOp, At
      <4>2. QED
        BY <1>2, <3>3, <4>1, QueueKept
    <3>6. CASE At(k).status = QUEUED /\ At(k).exec < 0
      <4>1. SkipOp(committed[k])
        BY <3>4, <3>6 DEF SubmitOp, At
      <4>2. QED
        BY <1>2, <3>3, <3>6, <4>1, QueueKept
    <3>7. CASE At(k).status = QUEUED /\ ~(At(k).exec < 0)
      <4>1. StartOp(committed[k])
        BY <3>4, <3>7 DEF SubmitOp, At
      <4>2. QED
        BY <3>3, <3>4, <3>7, <4>1, StartBinaries
    <3>8. QED
      BY <3>5, <3>6, <3>7
  <2>3. QED
    BY <2>1, <2>2
<1>5. CASE StatusPass
  <2>1. UNCHANGED <<lists, bins>>
    BY <1>5 DEF StatusPass
  <2>2. CASE cursor <= Len(committed)
    <3>1. PICK k \in 1..Length : k = cursor
      BY <1>3, <2>2
    <3>2. \/ TakeRunning(committed[k]) \/ Relaunch(committed[k])
          \/ TakeComplete(committed[k]) \/ NothingToTake(committed[k])
      BY <1>5, <2>2, <3>1 DEF StatusPass
    <3>3. CASE NothingToTake(committed[k])
      <4>1. UNCHANGED <<op, lists, bins>>
        BY <2>1, <3>3 DEF NothingToTake
      <4>2. QED
        BY <1>2, <4>1, QueueKept
    <3>4. QED
      BY <1>2, <2>1, <3>2, <3>3, QueueKept
  <2>3. CASE ~(cursor <= Len(committed))
    <3>1. UNCHANGED <<op, lists, bins>>
      BY <1>5, <2>1, <2>3 DEF StatusPass
    <3>2. QED
      BY <1>2, <3>1, QueueKept
  <2>4. QED
    BY <2>2, <2>3
<1>6. CASE PrunePass
  BY <1>6, PruneBinaries
<1>7. ASSUME NEW c \in Commands, Commit(c) PROVE BinInv'
  BY <1>7, CommitBinaries
<1>8. ASSUME NEW c \in Commands, BackOff(c) \/ BeginSubmit(c) \/ Release(c)
      PROVE  BinInv'
  <2>1. UNCHANGED <<op, lists, bins>>
    BY <1>8 DEF BackOff, BeginSubmit, Release, StartUpdate
  <2>2. QED
    BY <1>2, <2>1, QueueKept
<1>9. CASE EndUpdate \/ IdleUpdate \/ UNCHANGED vars
  <2>1. UNCHANGED <<op, lists, bins>>
    BY <1>9 DEF EndUpdate, IdleUpdate, StartUpdate, vars
  <2>2. QED
    BY <1>2, <2>1, QueueKept
<1>10. CASE Hardware
  <2>1. \/ \E i \in Ids : TransferDone(i)
        \/ \E a \in Accels, rest \in {"none", "final"} : KernelDone(a, rest)
    BY <1>10 DEF Hardware
  <2>2. QED
    BY <1>2, <2>1, QueueKept
<1>11. ASSUME NEW a \in Accels, KernelStalls(a) PROVE BinInv'
  BY <1>2, <1>11, QueueKept
<1>12. QED
  BY <1>4, <1>5, <1>6, <1>7, <1>8, <1>9, <1>10, <1>11 DEF Next, Scheduler

(* BinInv holds in the initial states. *)
LEMMA InitBinaries == Init => BinInv
<1> SUFFICES ASSUME Init PROVE BinInv
  OBVIOUS
<1>1. /\ committed = <<>>
      /\ \A d \in Devices : last_bin[d] = None
  BY DEF Init
<1>2. Length = 0
  BY <1>1 DEF Length
<1>3. QED
  BY <1>1, <1>2 DEF BinInv, DeviceInv

(* A kernel that starts finds the binary it needs. *)
LEMMA BinariesByInv == IInv /\ BinInv => KernelRunsOnItsBinary
<1> SUFFICES ASSUME IInv, BinInv, NEW i \in Ids, KernelOnHardware(i),
                    AlwaysProgrammable(Command[op[i].cmd].device)
             PROVE  OnItsBinary(i)
  BY DEF KernelRunsOnItsBinary
<1>1. TypeOK /\ ListInv /\ OpInv /\ ReprogInv
  BY DEF IInv
<1>2. /\ i \in Live /\ op[i].type = "KERNEL"
      /\ op[i].status \in {SUBMITTED, RUNNING}
  BY DEF KernelOnHardware, OnHardware
<1>3. PICK k \in 1..Length : committed[k] = i
  BY <1>1, <1>2, ListFacts
<1>4. PICK d : d = Dev(k)
  OBVIOUS
<1>5. /\ At(k) = op[i] /\ d = Command[op[i].cmd].device
      /\ d \in Devices /\ Length \in Nat
  <2>1. op[i].cmd \in Commands
    BY <1>1, <1>2 DEF OpInv, ShapeOf
  <2>2. QED
    BY <1>1, <1>3, <1>4, <2>1, ListFacts, CommandAssumption
       DEF At, Dev, CommandType
<1>6. Finds(d, k, Bin(k))
  <2>1. AlwaysProgrammable(d)
    BY <1>5
  <2>2. DeviceInv(d)
    BY <1>5, <2>1 DEF BinInv
  <2>3. At(k).type = "KERNEL" /\ At(k).status # COMPLETE
    BY <1>2, <1>5 DEF SUBMITTED, RUNNING, COMPLETE
  <2>4. QED
    BY <1>4, <2>2, <2>3 DEF DeviceInv
<1>7. \A m \in 1..k - 1 : ~Waits(d, m)
  <2> SUFFICES ASSUME NEW m \in 1..k - 1, Waits(d, m) PROVE FALSE
    OBVIOUS
  <2>1. m \in 1..Length /\ m < k
    BY <1>5
  <2>2. At(m).status = COMPLETE
    <3>1. At(m).type = "REPROGRAM" /\ Dev(m) = d
      BY DEF Waits
    <3>2. At(k).type = "KERNEL" /\ At(k).status # QUEUED
      BY <1>2, <1>5 DEF SUBMITTED, RUNNING, QUEUED
    <3>3. QED
      BY <1>1, <1>4, <2>1, <3>1, <3>2 DEF ReprogInv
  <2>3. QED
    BY <2>2 DEF Waits
<1>8. loaded_bin[d] = Bin(k)
  BY <1>6, <1>7 DEF Finds, LastWaits
<1>9. QED
  BY <1>5, <1>8 DEF OnItsBinary, Bin

(* A kernel is on the device only while the binary it was compiled into is *)
(* loaded: whatever is committed between its submission and its launch,    *)
(* the reprograms come in the order of the commands.                       *)
THEOREM KernelsRunOnTheirBinary == Spec => []KernelRunsOnItsBinary
<1>1. Init => BinInv
  BY InitBinaries
<1>2. IInv /\ BinInv /\ [Next]_vars => BinInv'
  BY NextBinaries
<1>3. Spec => []BinInv
  BY <1>1, <1>2, InvHolds, PTL DEF Spec
<1>4. QED
  BY <1>3, BinariesByInv, InvHolds, PTL

----------------------------------------------------------------------------
(* What runs together.  Where commands that share a buffer use one device, *)
(* a buffer is on that device or on none, so that the devices a migration  *)
(* involves do not change between the scan that compared it and its end.   *)
BuffersApart ==
    \A c, e \in Commands :
        BuffersOf(c) \cap BuffersOf(e) # {} => Command[c].device = Command[e].device
PlaceInv ==
    \A c \in Commands : \A b \in BuffersOf(c) :
        at[b] \in Devices => at[b] = Command[c].device

DeviceTypes == {"KERNEL", "MEM_TRANSFER_READ", "MEM_TRANSFER_WRITE",
                "MEM_TRANSFER_COPY", "MEM_MIGRATION", "USM_MEMCPY"}
Extent(o) ==
    IF o.type = "MEM_MIGRATION" THEN {<<Command[o.cmd].device, "MEM">>}
                                ELSE o.affects
Clash(o, n) ==
    \E x \in Extent(o), y \in Extent(n) :
        x[1] = y[1] /\ Conflict(x[1], x[2], y[2])
Unfinished(o) == o.status \in RUNNING..QUEUED
Uses(o) ==
    /\ o.status \in {SUBMITTED, RUNNING}
    /\ o.exec \in {SUBMITTED, RUNNING} \/ o.type = "KERNEL"

(* What uses a device was compared with everything before it that is not   *)
(* done yet.                                                               *)
OrderInv ==
    \A j, k \in 1..Length :
        j < k /\ Unfinished(At(j)) /\ Uses(At(k)) => ~Clash(At(k), At(j))
UseInv == \A k \in 1..Length : Uses(At(k)) => At(k).type \in DeviceTypes
TogetherInv == PlaceInv /\ OrderInv /\ UseInv

(* The buffers of a command are buffers.                                   *)
LEMMA BuffersOfACommand ==
    ASSUME NEW c \in Commands
    PROVE  BuffersOf(c) \subseteq Buffers
<1> DEFINE s == Command[c].ops
<1>1. s \in Seq(OpSpec)
  BY CommandAssumption DEF CommandType
<1>2. \A n \in DOMAIN s : s[n] \in OpSpec
  BY <1>1
<1>3. \A n \in DOMAIN s : s[n].mem \in Buffers \cup {None}
  BY <1>2 DEF OpSpec
<1>4. QED
  BY <1>3 DEF BuffersOf

(* Under PlaceInv the devices an operation involves are those of Extent.   *)
LEMMA ExtentIsFixed ==
    ASSUME TypeOK, OpInv, PlaceInv, NEW i \in Live
    PROVE  Affects(i) = Extent(op[i])
<1>1. CASE op[i].type # "MEM_MIGRATION"
  BY <1>1 DEF Affects, Extent
<1>2. CASE op[i].type = "MEM_MIGRATION"
  <2> DEFINE c == op[i].cmd
             d == Command[c].device
  <2>1. c \in Commands
    BY DEF OpInv, ShapeOf
  <2>2. d \in Devices
    BY <2>1, CommandAssumption DEF CommandType
  <2>3. \A b \in BuffersOf(c) : at[b] \in Devices => at[b] = d
    BY <2>1 DEF PlaceInv
  <2>4. Devices \cap ({d} \cup {at[b] : b \in BuffersOf(c)}) = {d}
    BY <2>2, <2>3
  <2>5. {d} \X {"MEM"} = {<<d, "MEM">>}
    OBVIOUS
  <2>6. QED
    BY <1>2, <2>4, <2>5 DEF Affects, Extent
<1>3. QED
  BY <1>1, <1>2

(* What may pass the scan on the ground of the conflict matrix alone.      *)
LEMMA Admitted ==
    ASSUME IInv, PlaceInv, NEW k \in 1..Length, CanSubmit(k),
           At(k).type = "KERNEL" \/ Asynchronous(committed[k])
    PROVE  \A j \in 1..k - 1 : Unfinished(At(j)) => ~Clash(At(k), At(j))
<1>1. TypeOK /\ ListInv /\ OpInv
  BY DEF IInv
<1>2. PICK i : i = committed[k]
  OBVIOUS
<1>3. /\ i \in Live /\ At(k) = op[i] /\ Length \in Nat
      /\ \A j \in 1..Length : committed[j] \in Live
  BY <1>1, <1>2, ListFacts DEF At
<1>4. ~MatrixConflict(k)
  <2>1. ~op[i].noTransfer
    <3>1. op[i].noTransfer => op[i].type \in MayMoveNothing
      BY <1>1, <1>3 DEF OpInv, ShapeOf
    <3>2. QED
      BY <1>2, <1>3, <3>1 DEF MayMoveNothing, Asynchronous
  <2>2. ~IsNoopMigration(i)
    BY <1>2, <1>3 DEF IsNoopMigration, IsKernelMigration, Asynchronous
  <2>3. QED
    BY <1>2, <2>1, <2>2 DEF CanSubmit
<1>5. ASSUME NEW j \in 1..k - 1, Unfinished(At(j)) PROVE ~Clash(At(k), At(j))
  <2>1. j \in 1..Length /\ committed[j] \in Live
    BY <1>3
  <2>2. Pending(committed[j])
    BY <1>5 DEF Pending, Unfinished, At
  <2>3. ~OpsConflict(i, committed[j])
    BY <1>2, <1>4, <2>2 DEF MatrixConflict, PendingBefore
  <2>4. /\ Affects(i) = Extent(At(k))
        /\ Affects(committed[j]) = Extent(At(j))
    BY <1>1, <1>3, <2>1, ExtentIsFixed DEF At
  <2>5. QED
    BY <2>3, <2>4 DEF OpsConflict, Clash
<1>6. QED
  BY <1>5

(* A step that leaves the operations where they are keeps what runs        *)
(* together apart, if what it starts was admitted.                         *)
Kept(o, n) ==
    /\ n.cmd = o.cmd /\ n.type = o.type /\ n.affects = o.affects
    /\ Unfinished(n) => Unfinished(o)
(* An operation that comes into use clashes with nothing unfinished before *)
(* it: OrderInv and UseInv are kept.                                       *)
LEMMA UseKept ==
    ASSUME TypeOK, ListInv, OrderInv, UseInv, committed' = committed,
           \A i \in Live : Kept(op[i], op'[i]),
           \A k \in 1..Length : Uses(op'[committed[k]]) =>
             \/ Uses(At(k))
             \/ /\ At(k).type \in DeviceTypes
                /\ \A j \in 1..k - 1 : Unfinished(At(j)) => ~Clash(At(k), At(j))
    PROVE  OrderInv' /\ UseInv'
<1>1. /\ Length' = Length /\ Length \in Nat
      /\ \A k \in 1..Length : At(k)' = op'[committed[k]] /\ committed[k] \in Live
  BY ListFacts DEF Length, At
<1>2. ASSUME NEW k \in 1..Length
      PROVE  Kept(At(k), At(k)')
  BY <1>1 DEF At
<1>3. ASSUME NEW j \in 1..Length, NEW k \in 1..Length,
             j < k, Unfinished(At(j)'), Uses(At(k)')
      PROVE  ~Clash(At(k)', At(j)')
  <2>1. j \in 1..k - 1
    BY <1>1, <1>3
  <2>2. Unfinished(At(j))
    BY <1>2, <1>3 DEF Kept
  <2>3. ~Clash(At(k), At(j))
    BY <1>1, <1>3, <2>1, <2>2 DEF OrderInv
  <2>4. Extent(At(k)') = Extent(At(k)) /\ Extent(At(j)') = Extent(At(j))
    BY <1>2 DEF Extent, Kept
  <2>5. QED
    BY <2>3, <2>4 DEF Clash
<1>4. ASSUME NEW k \in 1..Length, Uses(At(k)')
      PROVE  At(k)'.type \in DeviceTypes
  <2>1. At(k)'.type = At(k).type
    BY <1>2 DEF Kept
  <2>2. QED
    BY <1>1, <1>4, <2>1 DEF UseInv
<1>5. OrderInv'
  BY <1>1, <1>3 DEF OrderInv, Unfinished, Uses
<1>6. UseInv'
  BY <1>1, <1>4 DEF UseInv, Uses
<1>7. QED
  BY <1>5, <1>6

(* Starting an operation moves a buffer at most to the one device that     *)
(* uses it.                                                                *)
LEMMA StartPlaces ==
    ASSUME IInv, BuffersApart, PlaceInv, NEW k \in 1..Length,
           StartOp(committed[k])
    PROVE  PlaceInv'
<1>1. TypeOK /\ ListInv /\ OpInv
  BY DEF IInv
<1>2. PICK i : i = committed[k]
  OBVIOUS
<1>3. i \in Live
  BY <1>1, <1>2, ListFacts
<1>4. at' = at \/ at' = PlacesAfter(i)
  BY <1>2 DEF StartOp
<1>5. CASE at' = at
  BY <1>5 DEF PlaceInv
<1>6. CASE at' = PlacesAfter(i) /\ op[i].type # "MEM_MIGRATION"
  BY <1>6 DEF PlaceInv, PlacesAfter
<1>7. CASE at' = PlacesAfter(i) /\ op[i].type = "MEM_MIGRATION"
  <2> DEFINE e == op[i].cmd
  <2>1. e \in Commands /\ op[i].mem \in BuffersOf(e) /\ op[i].mem \in Buffers
    BY <1>1, <1>3, <1>7 DEF OpInv, ShapeOf
  <2>2. at' = [at EXCEPT ![op[i].mem] = Command[e].device]
    BY <1>7 DEF PlacesAfter
  <2>3. ASSUME NEW c \in Commands, NEW b \in BuffersOf(c), at'[b] \in Devices
        PROVE  at'[b] = Command[c].device
    <3>1. b \in Buffers
      BY BuffersOfACommand
    <3>2. CASE b = op[i].mem
      <4>1. Command[c].device = Command[e].device
        BY <2>1, <3>2 DEF BuffersApart
      <4>2. QED
        BY <1>1, <2>1, <2>2, <3>2, <4>1 DEF TypeOK
    <3>3. CASE b # op[i].mem
      <4>1. at'[b] = at[b]
        BY <1>1, <2>1, <2>2, <3>1, <3>3 DEF TypeOK
      <4>2. QED
        BY <2>3, <4>1 DEF PlaceInv
    <3>4. QED
      BY <3>2, <3>3
  <2>4. QED
    BY <2>3 DEF PlaceInv, BuffersOf
<1>8. QED
  BY <1>4, <1>5, <1>6, <1>7

(* What is started was admitted, or is done at once.                       *)
LEMMA StartTogether ==
    ASSUME IInv, BuffersApart, TogetherInv, NEW k \in 1..Length, Submits(k),
           At(k).status = QUEUED, StartOp(committed[k])
    PROVE  TogetherInv'
<1>1. TypeOK /\ ListInv /\ OpInv /\ PlaceInv /\ OrderInv /\ UseInv
  BY DEF IInv, TogetherInv
<1>2. PICK i : i = committed[k]
  OBVIOUS
<1>3. /\ i \in Live /\ i \in Ids /\ At(k) = op[i] /\ Live \subseteq Ids
      /\ \A n \in 1..Length : /\ committed[n] \in Live
                              /\ committed[n] = i => n = k
  BY <1>1, <1>2, ListFacts DEF At
<1>a. PICK ok \in {TRUE, ~op[i].mayFail} :
        /\ op' = [op EXCEPT ![i].status = SUBMITTED,
                            ![i].exec = ExecAfterCall(i, ok)]
        /\ committed' = committed
  BY <1>2 DEF StartOp, lists
<1>b. PICK e : e = ExecAfterCall(i, ok)
  OBVIOUS
<1>4. /\ ok \in {TRUE, ~op[i].mayFail} /\ e = ExecAfterCall(i, ok)
      /\ op' = [op EXCEPT ![i].status = SUBMITTED, ![i].exec = e]
      /\ committed' = committed
  BY <1>a, <1>b
<1>5. /\ \A j \in Ids \ {i} : op'[j] = op[j]
      /\ op'[i].cmd = op[i].cmd /\ op'[i].type = op[i].type
      /\ op'[i].affects = op[i].affects
      /\ op'[i].status = SUBMITTED /\ op'[i].exec = e
  BY <1>1, <1>3, <1>4 DEF OpType, TypeOK
<1>6. ASSUME NEW j \in Live PROVE Kept(op[j], op'[j])
  <2>1. CASE j = i
    BY <1>3, <1>5, <2>1 DEF Kept, Unfinished
  <2>2. CASE j # i
    BY <1>3, <1>5, <2>2 DEF Kept
  <2>3. QED
    BY <2>1, <2>2
<1>7. ASSUME NEW n \in 1..Length, Uses(op'[committed[n]])
      PROVE  \/ Uses(At(n))
             \/ /\ At(n).type \in DeviceTypes
                /\ \A j \in 1..n - 1 : Unfinished(At(j)) => ~Clash(At(n), At(j))
  <2>1. CASE n = k
    <3>1. op[i].type = "KERNEL" \/ Asynchronous(i)
      <4>1. op[i].type = "KERNEL" \/ e \in {SUBMITTED, RUNNING}
        BY <1>2, <1>5, <1>7, <2>1 DEF Uses
      <4>2. QED
        BY <1>4, <4>1 DEF ExecAfterCall
    <3>2. \A j \in 1..k - 1 : Unfinished(At(j)) => ~Clash(At(k), At(j))
      BY <1>1, <1>2, <1>3, <3>1, Admitted DEF Submits
    <3>3. op[i].type \in DeviceTypes
      BY <3>1 DEF DeviceTypes, Asynchronous
    <3>4. QED
      BY <1>3, <2>1, <3>2, <3>3
  <2>2. CASE n # k
    BY <1>2, <1>3, <1>5, <1>7, <2>2 DEF At
  <2>3. QED
    BY <2>1, <2>2
<1>8. OrderInv' /\ UseInv'
  BY <1>1, <1>4, <1>6, <1>7, UseKept
<1>9. PlaceInv'
  BY <1>1, StartPlaces
<1>10. QED
  BY <1>8, <1>9 DEF TogetherInv

(* Steps that start nothing but a kernel that is skipped.                  *)
LEMMA SkipTogether ==
    ASSUME IInv, TogetherInv, NEW k \in 1..Length, Submits(k),
           At(k).status = QUEUED, At(k).exec < 0, SkipOp(committed[k])
    PROVE  TogetherInv'
<1>1. TypeOK /\ ListInv /\ OpInv /\ PlaceInv /\ OrderInv /\ UseInv
  BY DEF IInv, TogetherInv
<1>2. PICK i : i = committed[k]
  OBVIOUS
<1>3. /\ i \in Live /\ i \in Ids /\ At(k) = op[i] /\ Live \subseteq Ids
      /\ \A n \in 1..Length : /\ committed[n] \in Live
                              /\ committed[n] = i => n = k
  BY <1>1, <1>2, ListFacts DEF At
<1>4. /\ op' = [op EXCEPT ![i].status = SUBMITTED]
      /\ committed' = committed /\ at' = at
  BY <1>2 DEF SkipOp, lists
<1>5. /\ \A j \in Ids \ {i} : op'[j] = op[j]
      /\ op'[i].cmd = op[i].cmd /\ op'[i].type = op[i].type
      /\ op'[i].affects = op[i].affects
      /\ op'[i].status = SUBMITTED /\ op'[i].exec = op[i].exec
  BY <1>1, <1>3, <1>4 DEF OpType, TypeOK
<1>6. ASSUME NEW j \in Live PROVE Kept(op[j], op'[j])
  <2>1. CASE j = i
    BY <1>3, <1>5, <2>1 DEF Kept, Unfinished
  <2>2. CASE j # i
    BY <1>3, <1>5, <2>2 DEF Kept
  <2>3. QED
    BY <2>1, <2>2
<1>7. ASSUME NEW n \in 1..Length, Uses(op'[committed[n]])
      PROVE  \/ Uses(At(n))
             \/ /\ At(n).type \in DeviceTypes
                /\ \A j \in 1..n - 1 : Unfinished(At(j)) => ~Clash(At(n), At(j))
  <2>1. CASE n = k
    <3>1. op[i].type = "KERNEL"
      BY <1>2, <1>3, <1>5, <1>7, <2>1 DEF Uses
    <3>2. \A j \in 1..k - 1 : Unfinished(At(j)) => ~Clash(At(k), At(j))
      BY <1>1, <1>2, <1>3, <3>1, Admitted DEF Submits
    <3>3. QED
      BY <1>3, <2>1, <3>1, <3>2 DEF DeviceTypes
  <2>2. CASE n # k
    BY <1>2, <1>3, <1>5, <1>7, <2>2 DEF At
  <2>3. QED
    BY <2>1, <2>2
<1>8. OrderInv' /\ UseInv'
  BY <1>1, <1>4, <1>6, <1>7, UseKept
<1>9. PlaceInv'
  BY <1>1, <1>4 DEF PlaceInv
<1>10. QED
  BY <1>8, <1>9 DEF TogetherInv

(* Pruning: the operations that stay keep their order.                     *)
LEMMA PruneTogether ==
    ASSUME IInv, TogetherInv, PrunePass
    PROVE  TogetherInv'
<1>1. TypeOK /\ ListInv /\ PlaceInv /\ OrderInv /\ UseInv
  BY DEF IInv, TogetherInv
<1>2. PICK h : Moved(h)
  BY PruneMoves
<1>3. PICK L \in Nat : L = Length'
  BY PruneLists
<1>4. ASSUME NEW k \in 1..L
      PROVE  /\ h[k] \in 1..Length
             /\ Kept(At(h[k]), At(k)') /\ (Uses(At(k)') => Uses(At(h[k])))
  <2> DEFINE i == committed[h[k]]
  <2>1. PICK n : n = At(k)'
    OBVIOUS
  <2>2. /\ h[k] \in 1..Length /\ At(h[k]) = op[i] /\ i \in Stays
        /\ n = op'[i] /\ Fixed(i) /\ n.status = op[i].status
    BY <1>2, <1>3, <2>1 DEF Moved, At
  <2> HIDE DEF i
  <2>3. op'[i] = op[i] \/ op[i].status = QUEUED
    BY <2>2, PruneStays
  <2>4. Kept(op[i], n)
    BY <2>2 DEF Kept, Fixed, Unfinished
  <2>5. Uses(n) => Uses(op[i])
    BY <2>2, <2>3 DEF Uses
  <2>6. QED
    BY <2>1, <2>2, <2>4, <2>5
<1>5. ASSUME NEW j \in 1..L, NEW k \in 1..L,
             j < k, Unfinished(At(j)'), Uses(At(k)')
      PROVE  ~Clash(At(k)', At(j)')
  <2>1. /\ h[j] \in 1..Length /\ h[k] \in 1..Length /\ h[j] < h[k]
        /\ Unfinished(At(h[j])) /\ Uses(At(h[k]))
    BY <1>2, <1>3, <1>4, <1>5 DEF Moved, Kept
  <2>2. ~Clash(At(h[k]), At(h[j]))
    BY <1>1, <2>1 DEF OrderInv
  <2>3. Extent(At(k)') = Extent(At(h[k])) /\ Extent(At(j)') = Extent(At(h[j]))
    BY <1>4 DEF Extent, Kept
  <2>4. QED
    BY <2>2, <2>3 DEF Clash
<1>6. OrderInv'
  BY <1>3, <1>5 DEF OrderInv, Unfinished, Uses
<1>7. UseInv'
  <2>1. ASSUME NEW k \in 1..L, Uses(At(k)') PROVE At(k)'.type \in DeviceTypes
    BY <1>1, <1>4, <2>1 DEF UseInv, Kept
  <2>2. QED
    BY <1>3, <2>1 DEF UseInv, Uses
<1>8. PlaceInv'
  BY <1>1 DEF PrunePass, PlaceInv
<1>9. QED
  BY <1>6, <1>7, <1>8 DEF TogetherInv

(* A commit puts its operations behind all others.                         *)
LEMMA CommitTogether ==
    ASSUME IInv, TogetherInv, NEW c \in Commands, Commit(c)
    PROVE  TogetherInv'
<1>1. TypeOK /\ ListInv /\ PlaceInv /\ OrderInv /\ UseInv
  BY DEF IInv, TogetherInv
<1>2. PICK ids, size : Grows(c, ids, size)
  BY CommitGrows
<1>3. PICK N \in Nat : N = Length
  BY <1>1, ListFacts
<1>4. PICK L \in Nat : L = Length'
  BY <1>2, <1>3 DEF Grows
<1>5. ASSUME NEW k \in 1..L, Uses(At(k)')
      PROVE  k \in 1..N /\ At(k)' = At(k)
  <2>1. CASE k \in 1..N
    BY <1>2, <1>3, <2>1 DEF Grows
  <2>2. CASE k \notin 1..N
    <3>1. PICK n \in 1..size : k = N + n
      BY <1>2, <1>3, <1>4, <2>2 DEF Grows
    <3>2. At(k)' = op'[ids[n]]
      BY <1>2, <1>3, <3>1 DEF Grows
    <3>3. op'[ids[n]].status = QUEUED
      BY <1>2, NewOps
    <3>4. QED
      BY <1>5, <3>2, <3>3 DEF Uses
  <2>3. QED
    BY <2>1, <2>2
<1>6. ASSUME NEW j \in 1..L, NEW k \in 1..L,
             j < k, Unfinished(At(j)'), Uses(At(k)')
      PROVE  ~Clash(At(k)', At(j)')
  <2>1. k \in 1..N /\ j \in 1..N /\ At(k)' = At(k)
    BY <1>5, <1>6
  <2>2. At(j)' = At(j)
    BY <1>2, <1>3, <2>1 DEF Grows
  <2>3. QED
    BY <1>1, <1>3, <1>6, <2>1, <2>2 DEF OrderInv
<1>7. OrderInv'
  BY <1>4, <1>6 DEF OrderInv, Unfinished, Uses
<1>8. UseInv'
  <2>1. ASSUME NEW k \in 1..L, Uses(At(k)') PROVE At(k)'.type \in DeviceTypes
    BY <1>1, <1>3, <1>5, <2>1 DEF UseInv
  <2>2. QED
    BY <1>4, <2>1 DEF UseInv, Uses
<1>9. PlaceInv'
  BY <1>1 DEF Commit, PlaceInv
<1>10. QED
  BY <1>7, <1>8, <1>9 DEF TogetherInv

(* The other steps: nothing begins to use a device.                        *)
Stills ==
    /\ committed' = committed /\ at' = at
    /\ \A i \in Live : Kept(op[i], op'[i]) /\ (Uses(op'[i]) => Uses(op[i]))

(* A step under which nothing comes into use and no block moves keeps      *)
(* TogetherInv.                                                            *)
LEMMA StillsTogether ==
    ASSUME TypeOK, ListInv, TogetherInv, Stills
    PROVE  TogetherInv'
<1>1. \A k \in 1..Length : Uses(op'[committed[k]]) => Uses(At(k))
  BY ListFacts DEF Stills, At
<1>2. OrderInv' /\ UseInv'
  BY <1>1, UseKept DEF Stills, TogetherInv
<1>3. PlaceInv'
  BY DEF Stills, TogetherInv, PlaceInv
<1>4. QED
  BY <1>2, <1>3 DEF TogetherInv

(* Those are all the steps that neither submit, prune nor commit. *)
LEMMA StepStills ==
    ASSUME IInv,
           \/ \E k \in 1..Length : ProcessPrintf(committed[k])
           \/ \E k \in 1..Length :
                /\ \/ TakeRunning(committed[k]) \/ Relaunch(committed[k])
                   \/ TakeComplete(committed[k])
                /\ UNCHANGED <<lists, at>>
           \/ \E i \in Ids : TransferDone(i)
           \/ \E a \in Accels : KernelStalls(a)
           \/ \E a \in Accels, rest \in {"none", "final"} : KernelDone(a, rest)
           \/ UNCHANGED <<op, lists, at>>
    PROVE  Stills
<1>1. TypeOK /\ ListInv /\ OpInv /\ RingInv /\ CurrentInv
  BY DEF IInv
<1>2. /\ op \in [Ids -> OpType] /\ Live \subseteq Ids
      /\ \A k \in 1..Length : committed[k] \in Live
  BY <1>1, ListFacts DEF TypeOK
<1> USE DEF lists
(* It is enough that one operation, or each, goes on in its state.         *)
<1>a. ASSUME NEW i \in Ids, NEW n, Kept(op[i], n), Uses(n) => Uses(op[i]),
             op' = [op EXCEPT ![i] = n], committed' = committed, at' = at
      PROVE  Stills
  <2>1. op'[i] = n /\ \A j \in Ids \ {i} : op'[j] = op[j]
    BY <1>2, <1>a
  <2>2. ASSUME NEW j \in Ids PROVE Kept(op[j], op'[j]) /\ (Uses(op'[j]) => Uses(op[j]))
    BY <1>a, <2>1 DEF Kept
  <2>3. QED
    BY <1>2, <1>a, <2>2 DEF Stills
<1>3. ASSUME NEW k \in 1..Length, ProcessPrintf(committed[k]) PROVE Stills
  <2>1. PICK i, n : i = committed[k] /\ n = [op[i] EXCEPT !.printf = "none"]
    OBVIOUS
  <2>2. /\ op' = [op EXCEPT ![i] = n] /\ i \in Ids
        /\ committed' = committed /\ at' = at
    BY <1>2, <1>3, <2>1 DEF ProcessPrintf
  <2>3. Kept(op[i], n) /\ (Uses(n) => Uses(op[i]))
    BY <1>2, <2>1, <2>2 DEF Kept, Uses, Unfinished, OpType
  <2>4. QED
    BY <1>a, <2>2, <2>3
<1>4. ASSUME NEW k \in 1..Length, TakeRunning(committed[k]),
             UNCHANGED <<lists, at>>
      PROVE  Stills
  <2>1. PICK i, n : i = committed[k] /\ n = [op[i] EXCEPT !.status = RUNNING]
    OBVIOUS
  <2>2. /\ op' = [op EXCEPT ![i] = n] /\ i \in Ids /\ op[i].status = SUBMITTED
        /\ committed' = committed /\ at' = at
    BY <1>2, <1>4, <2>1 DEF TakeRunning
  <2>3. Kept(op[i], n) /\ (Uses(n) => Uses(op[i]))
    BY <1>2, <2>1, <2>2 DEF Kept, Uses, Unfinished, OpType
  <2>4. QED
    BY <1>a, <2>2, <2>3
<1>5. ASSUME NEW k \in 1..Length, Relaunch(committed[k]), UNCHANGED <<lists, at>>
      PROVE  Stills
  <2>1. PICK i, n, l : /\ i = committed[k] /\ l = op[i].left - 1
                       /\ n = [op[i] EXCEPT !.exec = RUNNING, !.left = l]
    OBVIOUS
  <2>2. /\ i \in Ids /\ op[i].status = RUNNING /\ op[i].type = "KERNEL"
        /\ committed' = committed /\ at' = at
        /\ op' = [op EXCEPT ![i].exec = RUNNING, ![i].left = @ - 1]
    BY <1>2, <1>5, <2>1 DEF Relaunch, MustRelaunch
  <2>3. op' = [op EXCEPT ![i].exec = RUNNING, ![i].left = l]
    BY <1>2, <2>1, <2>2, Zenon
  <2>4. op' = [op EXCEPT ![i] = n]
    BY <1>2, <2>1, <2>2, <2>3 DEF OpType
  <2>5. Kept(op[i], n) /\ (Uses(n) => Uses(op[i]))
    BY <1>2, <2>1, <2>2 DEF Kept, Uses, Unfinished, OpType
  <2>6. QED
    BY <1>a, <2>2, <2>4, <2>5
<1>6. ASSUME NEW k \in 1..Length, TakeComplete(committed[k]),
             UNCHANGED <<lists, at>>
      PROVE  Stills
  <2>1. PICK i, n : i = committed[k] /\ n = [op[i] EXCEPT !.status = COMPLETE]
    OBVIOUS
  <2>2. /\ op' = [op EXCEPT ![i] = n] /\ i \in Ids /\ op[i].status = RUNNING
        /\ committed' = committed /\ at' = at
    BY <1>2, <1>6, <2>1 DEF TakeComplete
  <2>3. Kept(op[i], n) /\ (Uses(n) => Uses(op[i]))
    BY <1>2, <2>1, <2>2 DEF Kept, Uses, Unfinished, OpType
  <2>4. QED
    BY <1>a, <2>2, <2>3
<1>7. ASSUME NEW i \in Ids, TransferDone(i) PROVE Stills
  <2>1. i \in Live /\ op[i].status \in {SUBMITTED, RUNNING} /\ op[i].exec = RUNNING
    BY <1>7 DEF TransferDone, TransferInFlight
  <2>2. current_op[op[i].cmd] = i /\ i # None
    BY <1>1, <2>1, NoneAssumption DEF CurrentInv
  <2>3. PICK n : n = [op[i] EXCEPT !.exec = COMPLETE]
    OBVIOUS
  <2>4. op' = [op EXCEPT ![i] = n] /\ committed' = committed /\ at' = at
    BY <1>2, <1>7, <2>2, <2>3 DEF TransferDone
  <2>5. Kept(op[i], n) /\ (Uses(n) => Uses(op[i]))
    BY <1>2, <2>3 DEF Kept, Uses, Unfinished, OpType
  <2>6. QED
    BY <1>a, <2>4, <2>5
<1>8. ASSUME NEW a \in Accels, KernelStalls(a) PROVE Stills
  <2>1. PICK i, n : i = Head(ring[a]) /\ n = [op[i] EXCEPT !.printf = "stall"]
    BY ZenonT(60)
  <2>2. i \in Ids
    BY <1>1, <1>2, <1>8, <2>1, HeadFacts, Zenon DEF KernelStalls
  <2>3. op' = [op EXCEPT ![i] = n] /\ committed' = committed /\ at' = at
    BY <1>2, <1>8, <2>1, <2>2, ZenonT(60) DEF KernelStalls
  <2>4. Kept(op[i], n) /\ (Uses(n) => Uses(op[i]))
    BY <1>2, <2>1, <2>2, SMTT(40) DEF Kept, Uses, Unfinished, OpType
  <2>5. QED
    BY <1>a, <2>2, <2>3, <2>4
<1>9. ASSUME NEW a \in Accels, NEW rest \in {"none", "final"}, KernelDone(a, rest)
      PROVE  Stills
  <2>1. PICK h, g : h = Head(ring[a]) /\ g = ring[a][2]
    BY Zenon
  <2>2. /\ op' = [i \in Ids |->
                 IF i = h
                 THEN [op[i] EXCEPT !.exec = COMPLETE,
                                    !.printf = IF rest = "none" THEN @ ELSE rest]
                 ELSE IF Len(ring[a]) > 1 /\ i = g /\ op[i].exec > RUNNING
                      THEN [op[i] EXCEPT !.exec = RUNNING]
                      ELSE op[i]]
        /\ committed' = committed /\ at' = at
    BY <1>9, <2>1, Zenon DEF KernelDone
  <2>3. op[h].type = "KERNEL" /\ (Len(ring[a]) > 1 => op[g].type = "KERNEL")
    <3>1. ring[a] \in Seq(Ids) /\ ring[a] # <<>>
      BY <1>1, <1>9, Zenon DEF TypeOK, KernelDone
    <3>2. Len(ring[a]) > 1 => g \in ToSet(ring[a])
      <4>1. Len(ring[a]) > 1 => 2 \in 1..Len(ring[a])
        BY <3>1
      <4>2. QED
        BY <2>1, <3>1, <4>1, PositionsOf
    <3>3. QED
      BY <1>1, <2>1, <3>1, <3>2, HeadFacts, Zenon DEF RingInv
  <2>4. ASSUME NEW j \in Ids
        PROVE  Kept(op[j], op'[j]) /\ (Uses(op'[j]) => Uses(op[j]))
    <3>1. PICK b, p : /\ b = (Len(ring[a]) > 1 /\ j = g /\ op[j].exec > RUNNING)
                      /\ p = IF rest = "none" THEN op[j].printf ELSE rest
      BY Zenon, ZenonT(60)
    <3>2. op'[j] = IF j = h
                   THEN [op[j] EXCEPT !.exec = COMPLETE, !.printf = p]
                   ELSE IF b THEN [op[j] EXCEPT !.exec = RUNNING] ELSE op[j]
      BY <2>2, <3>1
    <3>3. /\ op[j] \in OpType
          /\ j = h => op[j].type = "KERNEL"
          /\ b => op[j].type = "KERNEL"
      BY <1>2, <2>3, <3>1
    <3>4. /\ op'[j].cmd = op[j].cmd /\ op'[j].type = op[j].type
          /\ op'[j].affects = op[j].affects /\ op'[j].status = op[j].status
          /\ op[j].type # "KERNEL" => op'[j].exec = op[j].exec
      BY <3>2, <3>3 DEF OpType
    <3>5. QED
      BY <3>4 DEF Kept, Uses, Unfinished
  <2>5. QED
    BY <1>2, <2>2, <2>4, ZenonT(60) DEF Stills
<1>10. CASE UNCHANGED <<op, lists, at>>
  BY <1>10 DEF Stills, Kept
<1>11. QED
  BY <1>3, <1>4, <1>5, <1>6, <1>7, <1>8, <1>9, <1>10

(* Every step keeps TogetherInv. *)
LEMMA NextTogether ==
    ASSUME IInv, BuffersApart, TogetherInv, [Next]_vars
    PROVE  TogetherInv'
<1>1. TypeOK /\ ListInv
  BY DEF IInv
<1>2. ASSUME Stills PROVE TogetherInv'
  BY <1>1, <1>2, StillsTogether
<1>3. /\ DOMAIN committed = 1..Length /\ Length \in Nat
      /\ Length = Len(committed) /\ cursor \in Nat /\ cursor >= 1
  BY <1>1, ListFacts, SizeAssumption DEF TypeOK, Length
<1>4. CASE SubmitPass
  <2> DEFINE ready == {k \in DOMAIN committed : CanSubmit(k)}
  <2>1. CASE ready = {}
    <3>1. UNCHANGED <<op, lists, at>>
      BY <1>4, <2>1 DEF SubmitPass
    <3>2. QED
      BY <1>2, <3>1, StepStills
  <2>2. CASE ready # {}
    <3>1. /\ num_updates' = TRUE /\ SubmitOp(committed[Min(ready)])
          /\ pc = "submit" /\ pc' = "status" /\ cursor' = 1 /\ caller' = caller
      BY <1>4, <2>2 DEF SubmitPass
    <3>2. PICK k : k = Min(ready)
      OBVIOUS
    <3>3. k \in 1..Length /\ CanSubmit(k)
      <4>1. ready \subseteq Nat
        BY <1>3
      <4>2. Min(ready) \in ready
        <5> HIDE DEF ready
        <5> QED
          BY <2>2, <4>1, LeastOf
      <4>3. QED
        BY <1>3, <3>2, <4>2
    <3>4. Submits(k) /\ SubmitOp(committed[k])
      BY <3>1, <3>2, <3>3 DEF Submits
    <3>5. CASE At(k).status # QUEUED
      <4>1. ProcessPrintf(committed[k])
        BY <3>4, <3>5 DEF SubmitOp, At
      <4>2. QED
        BY <1>2, <3>3, <4>1, StepStills
    <3>6. CASE At(k).status = QUEUED /\ At(k).exec < 0
      <4>1. SkipOp(committed[k])
        BY <3>4, <3>6 DEF SubmitOp, At
      <4>2. QED
        BY <3>3, <3>4, <3>6, <4>1, SkipTogether
    <3>7. CASE At(k).status = QUEUED /\ ~(At(k).exec < 0)
      <4>1. StartOp(committed[k])
        BY <3>4, <3>7 DEF SubmitOp, At
      <4>2. QED
        BY <3>3, <3>4, <3>7, <4>1, StartTogether
    <3>8. QED
      BY <3>5, <3>6, <3>7
  <2>3. QED
    BY <2>1, <2>2
<1>5. CASE StatusPass
  <2>1. UNCHANGED <<lists, at>>
    BY <1>5 DEF StatusPass
  <2>2. CASE cursor <= Len(committed)
    <3>1. PICK k \in 1..Length : k = cursor
      BY <1>3, <2>2
    <3>2. \/ TakeRunning(committed[k]) \/ Relaunch(committed[k])
          \/ TakeComplete(committed[k]) \/ NothingToTake(committed[k])
      BY <1>5, <2>2, <3>1 DEF StatusPass
    <3>3. CASE NothingToTake(committed[k])
      <4>1. UNCHANGED <<op, lists, at>>
        BY <2>1, <3>3 DEF NothingToTake
      <4>2. QED
        BY <1>2, <4>1, StepStills
    <3>4. QED
      BY <1>2, <2>1, <3>2, <3>3, StepStills
  <2>3. CASE ~(cursor <= Len(committed))
    <3>1. UNCHANGED <<op, lists, at>>
      BY <1>5, <2>1, <2>3 DEF StatusPass
    <3>2. QED
      BY <1>2, <3>1, StepStills
  <2>4. QED
    BY <2>2, <2>3
<1>6. CASE PrunePass
  BY <1>6, PruneTogether
<1>7. ASSUME NEW c \in Commands, Commit(c) PROVE TogetherInv'
  BY <1>7, CommitTogether
<1>8. ASSUME NEW c \in Commands, BackOff(c) \/ BeginSubmit(c) \/ Release(c)
      PROVE  TogetherInv'
  <2>1. UNCHANGED <<op, lists, at>>
    BY <1>8 DEF BackOff, BeginSubmit, Release, StartUpdate
  <2>2. QED
    BY <1>2, <2>1, StepStills
<1>9. CASE EndUpdate \/ IdleUpdate \/ UNCHANGED vars
  <2>1. UNCHANGED <<op, lists, at>>
    BY <1>9 DEF EndUpdate, IdleUpdate, StartUpdate, vars
  <2>2. QED
    BY <1>2, <2>1, StepStills
<1>10. CASE Hardware
  <2>1. \/ \E i \in Ids : TransferDone(i)
        \/ \E a \in Accels, rest \in {"none", "final"} : KernelDone(a, rest)
    BY <1>10 DEF Hardware
  <2>2. QED
    BY <1>2, <2>1, StepStills
<1>11. ASSUME NEW a \in Accels, KernelStalls(a) PROVE TogetherInv'
  BY <1>2, <1>11, StepStills
<1>12. QED
  BY <1>4, <1>5, <1>6, <1>7, <1>8, <1>9, <1>10, <1>11 DEF Next, Scheduler

(* TogetherInv holds in the initial states. *)
LEMMA InitTogether == Init => TogetherInv
<1> SUFFICES ASSUME Init PROVE TogetherInv
  OBVIOUS
<1>1. /\ committed = <<>>
      /\ at = [b \in Buffers |-> IF b \in UserMemory THEN "user" ELSE "deferred"]
  BY DEF Init
<1>2. Length = 0
  BY <1>1 DEF Length
<1>3. PlaceInv
  <2>1. ASSUME NEW c \in Commands, NEW b \in BuffersOf(c)
        PROVE  at[b] \notin Devices
    BY <1>1, BuffersOfACommand, PlacesAssumption
  <2>2. QED
    BY <2>1 DEF PlaceInv
<1>4. QED
  BY <1>2, <1>3 DEF TogetherInv, OrderInv, UseInv

(* Between operations that stay on the device for a while, it does not     *)
(* matter which is compared with which.                                    *)
LEMMA EitherWay ==
    ASSUME OpInv, NEW i \in Live, NEW j \in Live,
           op[i].type \in DeviceTypes, op[j].type \in DeviceTypes,
           Clash(op[i], op[j])
    PROVE  Clash(op[j], op[i])
<1> DEFINE T == {"NONE", "MEM_READ", "MEM_WRITE", "MEM", "KERNEL"}
<1>1. ASSUME NEW n \in Live, op[n].type \in DeviceTypes, NEW x \in Extent(op[n])
      PROVE  x[2] \in T
  <2>1. CASE op[n].type = "MEM_MIGRATION"
    BY <1>1, <2>1 DEF Extent
  <2>2. CASE op[n].type # "MEM_MIGRATION"
    <3>1. x[2] \in ConflictsOf(op[n].type)
      BY <1>1, <2>2 DEF Extent, OpInv, ShapeOf
    <3>2. CASE op[n].type = "KERNEL"
      BY <3>1, <3>2 DEF ConflictsOf
    <3>3. CASE op[n].type = "USM_MEMCPY"
      BY <3>1, <3>3 DEF ConflictsOf
    <3>4. CASE op[n].type \in {"MEM_TRANSFER_READ", "MEM_TRANSFER_WRITE",
                               "MEM_TRANSFER_COPY"}
      BY <3>1, <3>4 DEF ConflictsOf
    <3>5. QED
      BY <1>1, <2>2, <3>2, <3>3, <3>4 DEF DeviceTypes
  <2>3. QED
    BY <2>1, <2>2
<1>2. ASSUME NEW d, NEW a \in T, NEW b \in T, Conflict(d, a, b)
      PROVE  Conflict(d, b, a)
  BY <1>2 DEF Conflict, FullDuplexConflict, HalfDuplexConflict, Pipes, Reads,
              Writes, DeviceGlobals
<1>3. PICK x \in Extent(op[i]), y \in Extent(op[j]) :
        x[1] = y[1] /\ Conflict(x[1], x[2], y[2])
  BY DEF Clash
<1>4. x[2] \in T /\ y[2] \in T
  BY <1>1
<1> HIDE DEF T
<1>5. Conflict(y[1], y[2], x[2])
  BY <1>2, <1>3, <1>4
<1>6. QED
  BY <1>3, <1>5 DEF Clash

(* Two operations in use at once do not clash. *)
LEMMA ConflictFreeByInv == IInv /\ TogetherInv => ConflictFree
<1> SUFFICES ASSUME IInv, TogetherInv, NEW i \in Ids, NEW j \in Ids, i # j,
                    OnHardware(i), OnHardware(j), OpsConflict(i, j)
             PROVE  FALSE
  BY DEF ConflictFree
<1>1. /\ TypeOK /\ ListInv /\ OpInv /\ PlaceInv /\ OrderInv /\ UseInv
      /\ i \in Live /\ j \in Live
  BY DEF IInv, TogetherInv, OnHardware
<1>2. PICK k, m \in 1..Length : committed[k] = i /\ committed[m] = j
  BY <1>1, ListFacts
<1>3. /\ At(k) = op[i] /\ At(m) = op[j] /\ k # m /\ Length \in Nat
  BY <1>1, <1>2, ListFacts DEF At
<1>4. /\ Uses(op[i]) /\ Uses(op[j])
      /\ Unfinished(op[i]) /\ Unfinished(op[j])
  BY DEF OnHardware, Uses, Unfinished
<1>5. op[i].type \in DeviceTypes /\ op[j].type \in DeviceTypes
  BY <1>1, <1>3, <1>4 DEF UseInv
<1>6. Clash(op[i], op[j])
  BY <1>1, ExtentIsFixed DEF OpsConflict, Clash
<1>7. Clash(op[j], op[i])
  BY <1>1, <1>5, <1>6, EitherWay
<1>8. CASE m < k
  BY <1>1, <1>3, <1>4, <1>6, <1>8 DEF OrderInv
<1>9. CASE k < m
  BY <1>1, <1>3, <1>4, <1>7, <1>9 DEF OrderInv
<1>10. QED
  BY <1>3, <1>8, <1>9

(* Two operations are on a device together only if the conflict matrix     *)
(* allows it: transfers are serialized.  Buffers that are shared by        *)
(* devices are excepted, and have to be: a no-op migration moves           *)
(* block_allocation past the matrix, and a migration that was compared     *)
(* before reads from a device it was not compared on.                      *)
THEOREM OnlyWhatMayRunTogether ==
    ASSUME BuffersApart
    PROVE  Spec => []ConflictFree
<1>1. Init => TogetherInv
  BY InitTogether
<1>2. IInv /\ TogetherInv /\ [Next]_vars => TogetherInv'
  BY NextTogether
<1>3. Spec => []TogetherInv
  BY <1>1, <1>2, InvHolds, PTL DEF Spec
<1>4. QED
  BY <1>3, ConflictFreeByInv, InvHolds, PTL

----------------------------------------------------------------------------
(* Where the buffers are.  clEnqueueMigrateMemObjects leaves it to the     *)
(* program not to migrate the buffers of a kernel to another device while  *)
(* it runs: such a migration does not look at what is in use.              *)
ArgumentsAreLeft ==
    \A c, e \in Commands :
        /\ ~IsKernelCommand(c) /\ IsKernelCommand(e)
        /\ BuffersOf(c) \cap BuffersOf(e) # {}
        => Command[c].device = Command[e].device

(* A migration for a kernel that moves something passes the scan only when *)
(* no kernel on a device uses the buffer.                                  *)
LEMMA StartLeavesBuffers ==
    ASSUME IInv, ArgumentsAreLeft, NEW k \in 1..Length, CanSubmit(k),
           StartOp(committed[k]),
           NEW i \in Ids, KernelOnHardware(i), NEW b \in BuffersOf(op[i].cmd),
           at[b] = Command[op[i].cmd].device
    PROVE  at'[b] = at[b]
<1>1. TypeOK /\ ListInv /\ OpInv
  BY DEF IInv
<1>2. PICK j : j = committed[k]
  OBVIOUS
<1>3. /\ j \in Live /\ i \in Live
      /\ op[i].type = "KERNEL" /\ op[i].status \in {SUBMITTED, RUNNING}
  BY <1>1, <1>2, ListFacts DEF KernelOnHardware, OnHardware
<1> DEFINE c == op[i].cmd
           e == op[j].cmd
<1>4. /\ c \in Commands /\ e \in Commands /\ IsKernelCommand(c)
      /\ b \in Buffers
  <2>1. c \in Commands /\ e \in Commands /\ IsKernelCommand(c)
    BY <1>1, <1>3 DEF OpInv, ShapeOf, IsKernelCommand
  <2>2. QED
    BY <2>1, BuffersOfACommand
<1>5. at' = at \/ at' = PlacesAfter(j)
  BY <1>2 DEF StartOp
<1>6. CASE at' = at \/ op[j].type # "MEM_MIGRATION"
  BY <1>5, <1>6 DEF PlacesAfter
<1>7. CASE at' = PlacesAfter(j) /\ op[j].type = "MEM_MIGRATION"
  <2>1. /\ op[j].mem \in Buffers /\ op[j].mem \in BuffersOf(e)
        /\ ~op[j].noTransfer
    BY <1>1, <1>3, <1>7 DEF OpInv, ShapeOf, MayMoveNothing
  <2>2. at' = [at EXCEPT ![op[j].mem] = Command[e].device]
    BY <1>7 DEF PlacesAfter
  <2>3. CASE op[j].mem # b
    BY <1>1, <1>4, <2>1, <2>2, <2>3 DEF TypeOK
  <2>4. CASE op[j].mem = b
    <3>1. at'[b] = Command[e].device
      BY <1>1, <1>4, <2>2, <2>4 DEF TypeOK
    <3>2. CASE ~IsKernelCommand(e)
      <4>1. Command[e].device = Command[c].device
        BY <1>4, <2>1, <2>4, <3>2 DEF ArgumentsAreLeft
      <4>2. QED
        BY <3>1, <4>1
    <3>3. CASE IsKernelCommand(e)
      <4>1. IsKernelMigration(j)
        BY <1>7, <3>3 DEF IsKernelMigration
      <4>2. MemInUse(j)
        BY <1>3, <2>4 DEF MemInUse, OnDevice
      <4>3. IsNoopMigration(j)
        BY <1>2, <2>1, <4>1, <4>2 DEF CanSubmit
      <4>4. at[b] \in {Command[e].device, "deferred"}
        BY <2>4, <4>3 DEF IsNoopMigration, MovesNothing
      <4>5. at[b] # "deferred"
        BY <1>4, CommandAssumption, PlacesAssumption DEF CommandType
      <4>6. QED
        BY <3>1, <4>4, <4>5
    <3>4. QED
      BY <3>2, <3>3
  <2>5. QED
    BY <2>3, <2>4
<1>8. QED
  BY <1>5, <1>6, <1>7

(* No step moves a buffer that a kernel on the hardware uses away from the *)
(* kernel's device.                                                        *)
LEMMA StepLeavesBuffers ==
    ASSUME IInv, ArgumentsAreLeft, [Next]_vars,
           NEW i \in Ids, KernelOnHardware(i), NEW b \in BuffersOf(op[i].cmd),
           at[b] = Command[op[i].cmd].device
    PROVE  at'[b] = at[b]
<1>1. TypeOK /\ ListInv
  BY DEF IInv
<1>2. DOMAIN committed = 1..Length /\ Length \in Nat
  BY <1>1, ListFacts
<1>3. CASE SubmitPass
  <2> DEFINE ready == {k \in DOMAIN committed : CanSubmit(k)}
  <2>1. CASE ready = {}
    BY <1>3, <2>1 DEF SubmitPass
  <2>2. CASE ready # {}
    <3>1. SubmitOp(committed[Min(ready)])
      BY <1>3, <2>2 DEF SubmitPass
    <3>2. PICK k : k = Min(ready)
      OBVIOUS
    <3>3. k \in 1..Length /\ CanSubmit(k)
      <4>1. ready \subseteq Nat
        BY <1>2
      <4>2. Min(ready) \in ready
        <5> HIDE DEF ready
        <5> QED
          BY <2>2, <4>1, LeastOf
      <4>3. QED
        BY <1>2, <3>2, <4>2
    <3>4. CASE StartOp(committed[k])
      BY <3>3, <3>4, StartLeavesBuffers
    <3>5. CASE ProcessPrintf(committed[k]) \/ SkipOp(committed[k])
      BY <3>5 DEF ProcessPrintf, SkipOp
    <3>6. QED
      BY <3>1, <3>2, <3>4, <3>5 DEF SubmitOp
  <2>3. QED
    BY <2>1, <2>2
<1>4. CASE StatusPass \/ PrunePass \/ EndUpdate \/ IdleUpdate \/ Hardware
           \/ UNCHANGED vars
  BY <1>4, Zenon DEF StatusPass, PrunePass, EndUpdate, IdleUpdate, StartUpdate,
              Hardware, TransferDone, KernelDone, vars
<1>5. ASSUME NEW c \in Commands,
             Commit(c) \/ BackOff(c) \/ BeginSubmit(c) \/ Release(c)
      PROVE  at' = at
  BY <1>5 DEF Commit, BackOff, BeginSubmit, StartUpdate, Release
<1>6. ASSUME NEW a \in Accels, KernelStalls(a) PROVE at' = at
  BY <1>6 DEF KernelStalls
<1>7. QED
  BY <1>3, <1>4, <1>5, <1>6 DEF Next, Scheduler

(* While a kernel is on a device the buffers it has there stay: no kernel  *)
(* of another device takes them away.                                      *)
THEOREM BuffersOfKernelsStay ==
    ASSUME ArgumentsAreLeft
    PROVE  Spec => BuffersStay
<1> DEFINE Stay ==
      \A i \in Ids : KernelOnHardware(i) =>
        \A b \in BuffersOf(op[i].cmd) :
          at[b] = Command[op[i].cmd].device => at'[b] = at[b]
<1>1. IInv /\ [Next]_vars => [Stay]_vars
  BY StepLeavesBuffers
<1>2. Spec => [][Stay]_vars
  BY <1>1, InvHolds, PTL DEF Spec
<1>3. QED
  BY <1>2 DEF BuffersStay
=============================================================================
