--------------------------- MODULE CondVarProofs ---------------------------
(***************************************************************************)
(* What holds of CondVar for every set of threads: its types, that wakeups *)
(* are conserved, that a group has one active waiter and that no waiter is *)
(* stranded.                                                               *)
(***************************************************************************)
EXTENDS CondVar, FiniteSetTheorems, TLAPS

IsActive(t) == pc[t] \in {"active", "awake"}

(* The group being joined is the only one with waiters to wake, and it has *)
(* exactly one active waiter as soon as it has a waiter.                   *)
GroupInv ==
    /\ \A t, u \in Threads : IsActive(t) /\ IsActive(u) => t = u
    /\ \A t \in Threads :
         IsActive(t) => my_entry_q[t] = entry_q /\ num_waiters[entry_q] > 0
    /\ num_waiters[1 - entry_q] = 0
    /\ num_waiters[entry_q] > 0 => \E t \in Threads : IsActive(t)

IInv == TypeOK /\ GroupInv /\ WakeupsConserved

----------------------------------------------------------------------------
(* The waiters blocked on a queue are finitely many threads. *)
LEMMA BlockedFinite ==
    ASSUME NEW q
    PROVE  IsFiniteSet(Blocked(q)) /\ Cardinality(Blocked(q)) \in Nat
<1>1. Blocked(q) \in SUBSET Threads
  BY DEF Blocked, ActiveWaiters, PassiveWaiters
<1>2. IsFiniteSet(Blocked(q))
  BY <1>1, FS_Subset, ThreadsAssumption
<1>3. QED
  BY <1>2, FS_CardinalityType

(* Blocked(q) written by its members. *)
LEMMA BlockedMembers ==
    ASSUME NEW q
    PROVE  Blocked(q) = {t \in Threads :
               pc[t] \in {"active", "awake", "passive"} /\ my_entry_q[t] = q}
BY DEF Blocked, ActiveWaiters, PassiveWaiters

LEMMA BlockedMembersPrime ==
    ASSUME NEW q
    PROVE  Blocked(q)' = {t \in Threads :
               pc'[t] \in {"active", "awake", "passive"} /\ my_entry_q'[t] = q}
BY DEF Blocked, ActiveWaiters, PassiveWaiters

(* A thread that joins, or leaves, a queue changes its count by one. *)
LEMMA BlockedAdd ==
    ASSUME NEW q, NEW t, t \notin Blocked(q)
    PROVE  Cardinality(Blocked(q) \cup {t}) = Cardinality(Blocked(q)) + 1
BY BlockedFinite, FS_AddElement

LEMMA BlockedRemove ==
    ASSUME NEW q, NEW t, t \in Blocked(q)
    PROVE  Cardinality(Blocked(q) \ {t}) = Cardinality(Blocked(q)) - 1
BY BlockedFinite, FS_RemoveElement

----------------------------------------------------------------------------
(* Types and groups are preserved by each action. *)
LEMMA TypeStep == IInv /\ [Next]_vars => TypeOK'
<1> SUFFICES ASSUME IInv, [Next]_vars PROVE TypeOK'
  OBVIOUS
<1> USE SignalsAssumption, KindsAssumption, ThreadsAssumption
    DEF IInv, TypeOK, Groups, States, Verdicts
<1>1. CASE Signal
  BY <1>1 DEF Signal
<1>2. ASSUME NEW t \in Threads, Acquire(t) PROVE TypeOK'
  BY <1>2 DEF Acquire
<1>3. ASSUME NEW t \in Threads, Release(t) PROVE TypeOK'
  BY <1>3 DEF Release
<1>4. ASSUME NEW t \in Threads, Wait(t) PROVE TypeOK'
  <2>1. PICK k \in {"forever", "timed"} : JoinGroup(t, k)
    BY <1>4 DEF Wait
  <2>2. num_waiters' \in [Groups -> Nat]
    BY <2>1 DEF JoinGroup, RoleIn
  <2>3. /\ pc' \in [Threads -> States]
        /\ kind' \in [Threads -> {"forever", "timed"}]
    BY <2>1 DEF JoinGroup, RoleIn
  <2>4. QED
    BY <2>1, <2>2, <2>3 DEF JoinGroup, RoleIn
<1>5. ASSUME NEW t \in Threads, TakeSignal(t) PROVE TypeOK'
  BY <1>5 DEF TakeSignal
<1>6. ASSUME NEW t \in Threads, TimeOut(t) PROVE TypeOK'
  BY <1>6 DEF TimeOut
<1>7. ASSUME NEW t \in Threads, Deliver(t) PROVE TypeOK'
  <2>1. my_entry_q[t] = entry_q /\ num_waiters[entry_q] - 1 \in Nat
    BY <1>7 DEF Deliver, WakeupsDue, NextGroup, GroupInv, IsActive
  <2>2. passive_sem' \in [Groups -> Nat]
    BY <1>7, <2>1 DEF Deliver, WakeupsDue, NextGroup
  <2>3. delivered' \in [Threads -> Verdicts]
    BY <1>7 DEF Deliver, WakeupsDue, NextGroup
  <2>4. /\ num_waiters' \in [Groups -> Nat]
        /\ timedout' \in [Groups -> BOOLEAN]
        /\ entry_q' \in Groups
    BY <1>7 DEF Deliver, WakeupsDue, NextGroup
  <2>5. QED
    BY <1>7, <2>2, <2>3, <2>4 DEF Deliver, WakeupsDue, NextGroup
<1>8. ASSUME NEW t \in Threads, TakeWakeup(t) PROVE TypeOK'
  BY <1>8 DEF TakeWakeup
<1>9. ASSUME NEW t \in Threads, ReturnWoken(t) PROVE TypeOK'
  BY <1>9 DEF ReturnWoken
<1>10. CASE UNCHANGED vars
  BY <1>10 DEF vars
<1>11. QED
  BY <1>1, <1>2, <1>3, <1>4, <1>5, <1>6, <1>7, <1>8, <1>9, <1>10 DEF Next

LEMMA GroupStep == IInv /\ [Next]_vars => GroupInv'
<1> SUFFICES ASSUME IInv, [Next]_vars PROVE GroupInv'
  OBVIOUS
<1> USE DEF IInv, TypeOK, GroupInv, IsActive, Groups
<1>1. CASE Signal
  BY <1>1 DEF Signal
<1>2. ASSUME NEW t \in Threads, Acquire(t) PROVE GroupInv'
  BY <1>2 DEF Acquire
<1>3. ASSUME NEW t \in Threads, Release(t) PROVE GroupInv'
  BY <1>3 DEF Release
<1>4. ASSUME NEW t \in Threads, Wait(t) PROVE GroupInv'
  <2>1. PICK k : JoinGroup(t, k)
    BY <1>4 DEF Wait
  <2>2. ~IsActive(t)
    BY <1>4 DEF Wait
  <2>3. CASE num_waiters[entry_q] = 0
    BY <2>1, <2>2, <2>3 DEF JoinGroup, RoleIn
  <2>4. CASE num_waiters[entry_q] # 0
    BY <2>1, <2>2, <2>4 DEF JoinGroup, RoleIn
  <2>5. QED
    BY <2>3, <2>4
<1>5. ASSUME NEW t \in Threads, TakeSignal(t) PROVE GroupInv'
  BY <1>5 DEF TakeSignal
<1>6. ASSUME NEW t \in Threads, TimeOut(t) PROVE GroupInv'
  BY <1>6 DEF TimeOut
<1>7. ASSUME NEW t \in Threads, Deliver(t) PROVE GroupInv'
  <2>1. my_entry_q[t] = entry_q
    BY <1>7 DEF Deliver, WakeupsDue, NextGroup
  <2>2. num_waiters'[entry_q] = 0 /\ num_waiters'[1 - entry_q] = 0
    BY <1>7, <2>1 DEF Deliver, WakeupsDue, NextGroup
  <2>3. \A u \in Threads : ~IsActive(u)'
    BY <1>7 DEF Deliver, WakeupsDue, NextGroup
  <2>4. entry_q' = 1 - entry_q /\ 1 - entry_q' = entry_q
    BY <1>7 DEF Deliver, WakeupsDue, NextGroup
  <2>5. QED
    BY <2>2, <2>3, <2>4
<1>8. ASSUME NEW t \in Threads, TakeWakeup(t) PROVE GroupInv'
  BY <1>8 DEF TakeWakeup
<1>9. ASSUME NEW t \in Threads, ReturnWoken(t) PROVE GroupInv'
  BY <1>9 DEF ReturnWoken
<1>10. CASE UNCHANGED vars
  BY <1>10 DEF vars
<1>11. QED
  BY <1>1, <1>2, <1>3, <1>4, <1>5, <1>6, <1>7, <1>8, <1>9, <1>10 DEF Next

(* Wakeups stay conserved: a waiter joins its queue with one wakeup owed,  *)
(* the active waiter posts all but its own, a woken waiter consumes one.   *)
LEMMA ConservedStep == IInv /\ [Next]_vars => WakeupsConserved'
<1> SUFFICES ASSUME IInv, [Next]_vars,
                    NEW q \in Groups
             PROVE  (Cardinality(Blocked(q)) = num_waiters[q] + passive_sem[q])'
  BY DEF WakeupsConserved
<1>0. Cardinality(Blocked(q)) = num_waiters[q] + passive_sem[q]
  BY DEF IInv, WakeupsConserved
<1>same. ASSUME Blocked(q)' = Blocked(q), num_waiters'[q] = num_waiters[q],
                passive_sem'[q] = passive_sem[q]
         PROVE  (Cardinality(Blocked(q)) = num_waiters[q] + passive_sem[q])'
  BY <1>0, <1>same
<1> USE DEF IInv, TypeOK, Groups
<1>1. CASE Signal
  <2>1. Blocked(q)' = Blocked(q)
    BY <1>1, BlockedMembers, BlockedMembersPrime DEF Signal
  <2>2. QED
    BY <1>1, <2>1, <1>same DEF Signal
<1>2. ASSUME NEW t \in Threads, Acquire(t) \/ Release(t)
      PROVE  (Cardinality(Blocked(q)) = num_waiters[q] + passive_sem[q])'
  <2>1. Blocked(q)' = Blocked(q)
    BY <1>2, BlockedMembers, BlockedMembersPrime DEF Acquire, Release
  <2>2. QED
    BY <1>2, <2>1, <1>same DEF Acquire, Release
<1>3. ASSUME NEW t \in Threads, Wait(t)
      PROVE  (Cardinality(Blocked(q)) = num_waiters[q] + passive_sem[q])'
  <2>1. PICK k : JoinGroup(t, k) /\ pc[t] \in {"B", "again"}
    BY <1>3 DEF Wait
  <2>2. CASE q = entry_q
    <3>1. Blocked(q)' = Blocked(q) \cup {t}
      BY <2>1, <2>2, BlockedMembers, BlockedMembersPrime DEF JoinGroup, RoleIn
    <3>2. t \notin Blocked(q)
      BY <2>1, BlockedMembers
    <3>3. Cardinality(Blocked(q))' = Cardinality(Blocked(q)) + 1
      BY <3>1, <3>2, BlockedAdd
    <3>4. num_waiters'[q] = num_waiters[q] + 1 /\ passive_sem' = passive_sem
      BY <2>1, <2>2 DEF JoinGroup, RoleIn
    <3>5. QED
      BY <1>0, <3>3, <3>4
  <2>3. CASE q # entry_q
    <3>1. Blocked(q)' = Blocked(q)
      BY <2>1, <2>3, BlockedMembers, BlockedMembersPrime DEF JoinGroup, RoleIn
    <3>2. QED
      BY <2>1, <2>3, <3>1, <1>same DEF JoinGroup, RoleIn
  <2>4. QED
    BY <2>2, <2>3
<1>4. ASSUME NEW t \in Threads, TakeSignal(t) \/ TimeOut(t)
      PROVE  (Cardinality(Blocked(q)) = num_waiters[q] + passive_sem[q])'
  <2>1. Blocked(q)' = Blocked(q)
    BY <1>4, BlockedMembers, BlockedMembersPrime DEF TakeSignal, TimeOut
  <2>2. QED
    BY <1>4, <2>1, <1>same DEF TakeSignal, TimeOut
<1>5. ASSUME NEW t \in Threads, Deliver(t)
      PROVE  (Cardinality(Blocked(q)) = num_waiters[q] + passive_sem[q])'
  <2>1. CASE q = my_entry_q[t]
    <3>1. Blocked(q)' = Blocked(q) \ {t}
      BY <1>5, <2>1, BlockedMembers, BlockedMembersPrime DEF Deliver, WakeupsDue, NextGroup
    <3>2. t \in Blocked(q)
      BY <1>5, <2>1, BlockedMembers DEF Deliver, WakeupsDue, NextGroup
    <3>3. Cardinality(Blocked(q))' = Cardinality(Blocked(q)) - 1
      BY <3>1, <3>2, BlockedRemove
    <3>4. /\ num_waiters'[q] = 0
          /\ passive_sem'[q] = passive_sem[q] + (num_waiters[q] - 1)
      BY <1>5, <2>1 DEF Deliver, WakeupsDue, NextGroup
    <3>5. QED
      BY <1>0, <3>3, <3>4, BlockedFinite
  <2>2. CASE q # my_entry_q[t]
    <3>1. Blocked(q)' = Blocked(q)
      BY <1>5, <2>2, BlockedMembers, BlockedMembersPrime DEF Deliver, WakeupsDue, NextGroup
    <3>2. QED
      BY <1>5, <2>2, <3>1, <1>same DEF Deliver, WakeupsDue, NextGroup
  <2>3. QED
    BY <2>1, <2>2
<1>6. ASSUME NEW t \in Threads, TakeWakeup(t)
      PROVE  (Cardinality(Blocked(q)) = num_waiters[q] + passive_sem[q])'
  <2>1. CASE q = my_entry_q[t]
    <3>1. Blocked(q)' = Blocked(q) \ {t}
      BY <1>6, <2>1, BlockedMembers, BlockedMembersPrime DEF TakeWakeup
    <3>2. t \in Blocked(q)
      BY <1>6, <2>1, BlockedMembers DEF TakeWakeup
    <3>3. Cardinality(Blocked(q))' = Cardinality(Blocked(q)) - 1
      BY <3>1, <3>2, BlockedRemove
    <3>4. num_waiters' = num_waiters /\ passive_sem'[q] = passive_sem[q] - 1
      BY <1>6, <2>1 DEF TakeWakeup
    <3>5. QED
      BY <1>0, <3>3, <3>4, BlockedFinite
  <2>2. CASE q # my_entry_q[t]
    <3>1. Blocked(q)' = Blocked(q)
      BY <1>6, <2>2, BlockedMembers, BlockedMembersPrime DEF TakeWakeup
    <3>2. QED
      BY <1>6, <2>2, <3>1, <1>same DEF TakeWakeup
  <2>3. QED
    BY <2>1, <2>2
<1>7. ASSUME NEW t \in Threads, ReturnWoken(t)
      PROVE  (Cardinality(Blocked(q)) = num_waiters[q] + passive_sem[q])'
  <2>1. Blocked(q)' = Blocked(q)
    BY <1>7, BlockedMembers, BlockedMembersPrime DEF ReturnWoken
  <2>2. QED
    BY <1>7, <2>1, <1>same DEF ReturnWoken
<1>8. CASE UNCHANGED vars
  <2>1. Blocked(q)' = Blocked(q)
    BY <1>8, BlockedMembers, BlockedMembersPrime DEF vars
  <2>2. QED
    BY <1>8, <2>1, <1>same DEF vars
<1>9. QED
  BY <1>1, <1>2, <1>3, <1>4, <1>5, <1>6, <1>7, <1>8 DEF Next

----------------------------------------------------------------------------
LEMMA InitInv == Init => IInv
<1> SUFFICES ASSUME Init PROVE IInv
  OBVIOUS
<1>1. TypeOK
  BY SignalsAssumption, KindsAssumption
  DEF Init, TypeOK, Groups, States, Verdicts
<1>2. GroupInv
  BY DEF Init, GroupInv, IsActive, Groups
<1>3. WakeupsConserved
  <2> SUFFICES ASSUME NEW q \in Groups
               PROVE  Cardinality(Blocked(q)) = num_waiters[q] + passive_sem[q]
    BY DEF WakeupsConserved
  <2>1. Blocked(q) = {}
    BY BlockedMembers DEF Init
  <2>2. num_waiters[q] = 0 /\ passive_sem[q] = 0
    BY DEF Init
  <2>3. QED
    BY <2>1, <2>2, FS_EmptySet
<1>4. QED
  BY <1>1, <1>2, <1>3 DEF IInv

(* The inductive invariant holds in every reachable state of               *)
(* acl_timed_wait_condvar and its callers.                                 *)
THEOREM Invariance == Spec => []IInv
<1>1. IInv /\ [Next]_vars => IInv'
  BY TypeStep, GroupStep, ConservedStep DEF IInv
<1>2. QED
  BY InitInv, <1>1, PTL DEF Spec

(* Type correctness: in particular no semaphore or waiter count goes       *)
(* negative, so the unsigned "--num_waiters" loop of the active waiter     *)
(* never wraps.                                                            *)
THEOREM TypeCorrect == Spec => []TypeOK
<1>1. IInv => TypeOK
  BY DEF IInv
<1>2. QED
  BY Invariance, <1>1, PTL

(* The wakeups posted or owed on a queue are exactly what its waiters      *)
(* need.                                                                   *)
THEOREM Conservation == Spec => []WakeupsConserved
<1>1. IInv => WakeupsConserved
  BY DEF IInv
<1>2. QED
  BY Invariance, <1>1, PTL

(* Only the current group has waiters to wake, under one active waiter.    *)
THEOREM SingleActiveWaiter == Spec => []OneActiveWaiter
<1>1. ASSUME IInv, NEW q \in Groups
      PROVE  /\ Cardinality(ActiveWaiters(q)) <= 1
             /\ num_waiters[q] > 0 <=> ActiveWaiters(q) # {}
             /\ num_waiters[q] > 0 => q = entry_q
  <2> USE <1>1 DEF IInv, TypeOK, GroupInv, IsActive, Groups
  <2>1. \A t, u \in ActiveWaiters(q) : t = u
    BY DEF ActiveWaiters
  <2>2. Cardinality(ActiveWaiters(q)) <= 1
    <3>1. CASE ActiveWaiters(q) = {}
      <4>1. Cardinality(ActiveWaiters(q)) = 0
        BY <3>1, FS_EmptySet
      <4>2. QED
        BY <4>1
    <3>2. CASE ActiveWaiters(q) # {}
      <4>1. PICK t : t \in ActiveWaiters(q)
        BY <3>2
      <4>2. ActiveWaiters(q) = {t}
        BY <2>1, <4>1
      <4>3. Cardinality(ActiveWaiters(q)) = 1
        BY <4>2, FS_Singleton
      <4>4. QED
        BY <4>3
    <3>3. QED
      BY <3>1, <3>2
  <2>3. num_waiters[q] > 0 => q = entry_q
    OBVIOUS
  <2>4. num_waiters[q] > 0 <=> ActiveWaiters(q) # {}
    BY <2>3 DEF ActiveWaiters
  <2>5. QED
    BY <2>2, <2>3, <2>4
<1>2. IInv => OneActiveWaiter
  BY <1>1 DEF OneActiveWaiter
<1>3. QED
  BY Invariance, <1>2, PTL

(* No lost wakeup: a thread asleep on passive_sem always has a posted      *)
(* wakeup or an active waiter that will post one.                          *)
THEOREM NoWaiterStranded == Spec => []NoStrandedWaiter
<1>1. ASSUME IInv, NEW q \in Groups,
             PassiveWaiters(q) # {}, ActiveWaiters(q) = {}
      PROVE  passive_sem[q] > 0
  <2>1. num_waiters[q] = 0
    BY <1>1 DEF IInv, TypeOK, GroupInv, IsActive, Groups, ActiveWaiters
  <2>2. Blocked(q) # {}
    BY <1>1 DEF Blocked
  <2>3. Cardinality(Blocked(q)) # 0
    BY <2>2, BlockedFinite, FS_EmptySet
  <2>4. QED
    BY <1>1, <2>1, <2>3, BlockedFinite
    DEF IInv, TypeOK, WakeupsConserved, Groups
<1>2. IInv => NoStrandedWaiter
  BY <1>1 DEF NoStrandedWaiter
<1>3. QED
  BY Invariance, <1>2, PTL
=============================================================================
