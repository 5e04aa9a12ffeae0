------------------------------ MODULE CondVar ------------------------------
(***************************************************************************)
(* The condition variable with async-safe broadcast of                     *)
(* lib/acl_threadsupport (struct acl_condvar_s): the lock every API entry  *)
(* point of the runtime takes and the wait in which clFinish,              *)
(* clWaitForEvents and the blocking enqueues sleep.                        *)
(*                                                                         *)
(* A signaler may be an OS signal handler, so it takes no lock: it only    *)
(* posts signal_sem.  The first waiter of a group (the active waiter)      *)
(* waits on signal_sem and then posts passive_sem[q] once for each other   *)
(* (passive) waiter of its group; groups alternate between q = 0 and 1.    *)
(*                                                                         *)
(* Sections of the code that run with waiter_mutex held touch nothing a    *)
(* thread without the mutex can read, except passive_sem, which they only  *)
(* post; each is one action.                                               *)
(***************************************************************************)
EXTENDS Integers, FiniteSets

CONSTANTS
    Threads,      \* the potential waiters
    NoThread,     \* nobody holds waiter_mutex
    MaxSignals,   \* bound on the value of signal_sem
    WaitKinds     \* which of {"forever", "timed"} the callers use

ASSUME ThreadsAssumption == IsFiniteSet(Threads) /\ NoThread \notin Threads
ASSUME SignalsAssumption == MaxSignals \in Nat \ {0}
ASSUME KindsAssumption == WaitKinds \subseteq {"forever", "timed"}

VARIABLES
    waiter_mutex,   \* the thread that holds it, or NoThread
    signal_sem,     \* wakeups posted by signalers
    entry_q,        \* the group a new waiter joins
    num_waiters,    \* waiters of each group its active waiter must still wake
    passive_sem,    \* wakeups posted for the passive waiters of each group
    timedout,       \* how the last completed group of each queue was woken
    pc,             \* where each thread is, see States
    my_entry_q,     \* local of acl_timed_wait_condvar
    kind,           \* whether the wait has a timeout period
    timed_out,      \* local of acl_timed_wait_condvar (active waiter)
    delivered       \* history: the passive waiters whose group was woken,
                    \* with how it was woken

vars == <<waiter_mutex, signal_sem, entry_q, num_waiters, passive_sem,
          timedout, pc, my_entry_q, kind, timed_out, delivered>>

Groups == {0, 1}

(* States A and B are those of the header's comment.  State C is "active"  *)
(* then "awake" (has the signal, wants the mutex); state D is "passive"    *)
(* then "woken".  "again" holds the mutex inside the loop of               *)
(* acl_wait_condvar, about to wait once more.                              *)
States == {"A", "B", "active", "awake", "passive", "woken", "again"}

ActiveWaiters(q) ==
    {t \in Threads : pc[t] \in {"active", "awake"} /\ my_entry_q[t] = q}
PassiveWaiters(q) == {t \in Threads : pc[t] = "passive" /\ my_entry_q[t] = q}
Blocked(q) == ActiveWaiters(q) \cup PassiveWaiters(q)
Verdicts == {"none", "signal", "timeout"}

TypeOK ==
    /\ waiter_mutex \in Threads \cup {NoThread}
    /\ signal_sem \in 0..MaxSignals
    /\ entry_q \in Groups
    /\ num_waiters \in [Groups -> Nat]
    /\ passive_sem \in [Groups -> Nat]
    /\ timedout \in [Groups -> BOOLEAN]
    /\ pc \in [Threads -> States]
    /\ my_entry_q \in [Threads -> Groups]
    /\ kind \in [Threads -> {"forever", "timed"}]
    /\ timed_out \in [Threads -> BOOLEAN]
    /\ delivered \in [Threads -> Verdicts]

Init ==
    /\ waiter_mutex = NoThread
    /\ signal_sem = 0
    /\ entry_q = 0
    /\ num_waiters = [q \in Groups |-> 0]
    /\ passive_sem = [q \in Groups |-> 0]
    /\ timedout = [q \in Groups |-> FALSE]
    /\ pc = [t \in Threads |-> "A"]
    /\ my_entry_q = [t \in Threads |-> 0]
    /\ kind = [t \in Threads |-> "forever"]
    /\ timed_out = [t \in Threads |-> FALSE]
    /\ delivered = [t \in Threads |-> "none"]

----------------------------------------------------------------------------
Acquire(t) ==
    /\ pc[t] = "A"
    /\ waiter_mutex = NoThread
    /\ waiter_mutex' = t
    /\ pc' = [pc EXCEPT ![t] = "B"]
    /\ UNCHANGED <<signal_sem, entry_q, num_waiters, passive_sem, timedout,
                   my_entry_q, kind, timed_out, delivered>>

Release(t) ==
    /\ pc[t] = "B"
    /\ waiter_mutex' = NoThread
    /\ pc' = [pc EXCEPT ![t] = "A"]
    /\ UNCHANGED <<signal_sem, entry_q, num_waiters, passive_sem, timedout,
                   my_entry_q, kind, timed_out, delivered>>

(* Slips of the bookkeeping below, each of which breaks the protocol. *)
AlwaysActive(q) == "active"
WakesItselfToo(q) == num_waiters[q]
WakesNobody(q) == 0

(* The role of a newcomer to group q, the passive waiters its active       *)
(* waiter wakes, and the group that comes after it.                        *)
RoleIn(q) == IF num_waiters[q] = 0 THEN "active" ELSE "passive"
WakeupsDue(q) == num_waiters[q] - 1
NextGroup(q) == 1 - q

(* Entry to acl_timed_wait_condvar: the first waiter of the group becomes  *)
(* its active waiter.                                                      *)
JoinGroup(t, k) ==
    /\ waiter_mutex' = NoThread
    /\ my_entry_q' = [my_entry_q EXCEPT ![t] = entry_q]
    /\ num_waiters' = [num_waiters EXCEPT ![entry_q] = @ + 1]
    /\ pc' = [pc EXCEPT ![t] = RoleIn(entry_q)]
    /\ kind' = [kind EXCEPT ![t] = k]
    /\ timed_out' = [timed_out EXCEPT ![t] = FALSE]
    /\ UNCHANGED <<signal_sem, entry_q, passive_sem, timedout, delivered>>

Wait(t) ==
    \/ pc[t] = "B" /\ \E k \in WaitKinds : JoinGroup(t, k)
    \/ pc[t] = "again" /\ JoinGroup(t, "forever")

(* The active waiter gets the signal, or its timeout expires: sem_timedwait *)
(* only times out while the semaphore is zero.                              *)
TakeSignal(t) ==
    /\ pc[t] = "active"
    /\ signal_sem > 0
    /\ signal_sem' = signal_sem - 1
    /\ pc' = [pc EXCEPT ![t] = "awake"]
    /\ UNCHANGED <<waiter_mutex, entry_q, num_waiters, passive_sem, timedout,
                   my_entry_q, kind, timed_out, delivered>>

TimeOut(t) ==
    /\ pc[t] = "active"
    /\ kind[t] = "timed"
    /\ signal_sem = 0
    /\ timed_out' = [timed_out EXCEPT ![t] = TRUE]
    /\ pc' = [pc EXCEPT ![t] = "awake"]
    /\ UNCHANGED <<waiter_mutex, signal_sem, entry_q, num_waiters,
                   passive_sem, timedout, my_entry_q, kind, delivered>>

(* The active waiter has the mutex again: it wakes its group, switches     *)
(* groups and returns.                                                     *)
Deliver(t) ==
    /\ pc[t] = "awake"
    /\ waiter_mutex = NoThread
    /\ waiter_mutex' = t
    /\ LET q == my_entry_q[t] IN
         /\ passive_sem' = [passive_sem EXCEPT ![q] = @ + WakeupsDue(q)]
         /\ num_waiters' = [num_waiters EXCEPT ![q] = 0]
         /\ timedout' = [timedout EXCEPT ![q] = timed_out[t]]
         /\ delivered' =
              [u \in Threads |->
                 IF u \in PassiveWaiters(q) /\ delivered[u] = "none"
                 THEN IF timed_out[t] THEN "timeout" ELSE "signal"
                 ELSE delivered[u]]
    /\ entry_q' = NextGroup(entry_q)
    /\ pc' = [pc EXCEPT ![t] = "B"]
    /\ UNCHANGED <<signal_sem, my_entry_q, kind, timed_out>>

TakeWakeup(t) ==
    /\ pc[t] = "passive"
    /\ passive_sem[my_entry_q[t]] > 0
    /\ passive_sem' = [passive_sem EXCEPT ![my_entry_q[t]] = @ - 1]
    /\ pc' = [pc EXCEPT ![t] = "woken"]
    /\ UNCHANGED <<waiter_mutex, signal_sem, entry_q, num_waiters, timedout,
                   my_entry_q, kind, timed_out, delivered>>

(* The passive waiter has the mutex again and returns timedout[q];         *)
(* acl_wait_condvar waits again when that is not zero.                     *)
ReturnWoken(t) ==
    /\ pc[t] = "woken"
    /\ waiter_mutex = NoThread
    /\ waiter_mutex' = t
    /\ pc' = [pc EXCEPT ![t] =
                IF timedout[my_entry_q[t]] /\ kind[t] = "forever"
                THEN "again" ELSE "B"]
    /\ delivered' = [delivered EXCEPT ![t] = "none"]
    /\ UNCHANGED <<signal_sem, entry_q, num_waiters, passive_sem, timedout,
                   my_entry_q, kind, timed_out>>

(* acl_signal_condvar: any thread or signal handler, without the mutex.    *)
Signal ==
    /\ signal_sem < MaxSignals
    /\ signal_sem' = signal_sem + 1
    /\ UNCHANGED <<waiter_mutex, entry_q, num_waiters, passive_sem, timedout,
                   pc, my_entry_q, kind, timed_out, delivered>>

Next ==
    \/ Signal
    \/ \E t \in Threads :
         \/ Acquire(t)    \/ Release(t) \/ Wait(t)
         \/ TakeSignal(t) \/ TimeOut(t) \/ Deliver(t)
         \/ TakeWakeup(t) \/ ReturnWoken(t)

Spec == Init /\ [][Next]_vars

(* The operating system runs every thread, hands a free mutex and a posted *)
(* semaphore to each thread that keeps asking for it, and a thread that    *)
(* holds the lock gives it up.  Nothing obliges the device to signal.      *)
ThreadFairness(t) ==
    /\ WF_vars(Wait(t) \/ Release(t))
    /\ WF_vars(TakeSignal(t))
    /\ SF_vars(Deliver(t))
    /\ SF_vars(TakeWakeup(t))
    /\ SF_vars(ReturnWoken(t))

FairSpec == Spec /\ \A t \in Threads : ThreadFairness(t)

----------------------------------------------------------------------------
(* Wakeups are conserved in each group: what the active waiter will still  *)
(* post and what is already posted is exactly what the waiters of that     *)
(* queue need (num_waiters and passive_sem against the threads blocked in  *)
(* acl_timed_wait_condvar).                                                *)
WakeupsConserved ==
    \A q \in Groups :
        Cardinality(Blocked(q)) = num_waiters[q] + passive_sem[q]

(* Only the current group has waiters to wake, and it has one active       *)
(* waiter: two active waiters would halve the broadcast, none would leave  *)
(* the group asleep.                                                       *)
OneActiveWaiter ==
    \A q \in Groups :
        /\ Cardinality(ActiveWaiters(q)) <= 1
        /\ num_waiters[q] > 0 <=> ActiveWaiters(q) # {}
        /\ num_waiters[q] > 0 => q = entry_q

(* No waiter is stranded: whoever sleeps on passive_sem[q] has a wakeup    *)
(* posted on it or an active waiter that will post one.                    *)
NoStrandedWaiter ==
    \A q \in Groups :
        PassiveWaiters(q) # {} => passive_sem[q] > 0 \/ ActiveWaiters(q) # {}

(* The header promises "a wakeup signal will be delivered to all passive   *)
(* waiters in the same group as the active waiter": a passive waiter whose *)
(* group has been woken finds its wakeup on passive_sem.                   *)
WakeupReachesItsGroup ==
    \A q \in Groups :
        Cardinality({t \in PassiveWaiters(q) : delivered[t] # "none"})
            <= passive_sem[q]

(* Whatever else the waiters do, none of them sleeps forever while the     *)
(* device keeps signalling.                                                *)
WaitersReturn ==
    []<>(signal_sem > 0) =>
        \A t \in Threads :
            (pc[t] \in {"active", "awake", "passive", "woken"}) ~> (pc[t] = "B")
=============================================================================
