----------------------------- MODULE LaunchFifo -----------------------------
(* What the kernel interface promises the device operation queue: each     *)
(* accelerator is a bounded first-in first-out queue of invocations.  The   *)
(* oldest one completes first, and a forced reset ends the others with an   *)
(* error.  The oldest is announced as running; so may be one whose launch   *)
(* fills the queue, while those before it have still to run.                *)
EXTENDS Integers, Sequences, SequencesExt

CONSTANTS Accels, Jobs,
          Capacity,  \* invocations an accelerator takes before one completes
          AccelOf    \* the accelerator of an invocation

QUEUED == 3
SUBMITTED == 2
RUNNING == 1
COMPLETE == 0
FAILED == -1
Statuses == FAILED .. QUEUED

VARIABLES queue,   \* invocations of an accelerator, the oldest first
          status   \* execution status the runtime was told

fifoVars == <<queue, status>>

FifoInit ==
    /\ queue = [a \in Accels |-> <<>>]
    /\ status = [j \in Jobs |-> QUEUED]

Accept(j) ==
    LET a == AccelOf[j] IN
    /\ status[j] = QUEUED
    /\ Len(queue[a]) < Capacity[a]
    /\ queue' = [queue EXCEPT ![a] = Append(@, j)]
    /\ status' = [status EXCEPT ![j] = SUBMITTED]

AnnounceRunning(j) ==
    LET q == queue[AccelOf[j]] IN
    /\ q # <<>>
    /\ j = Head(q) \/ (Len(q) = Capacity[AccelOf[j]] /\ j = Last(q))
    /\ status[j] = SUBMITTED
    /\ status' = [status EXCEPT ![j] = RUNNING]
    /\ UNCHANGED queue

CompleteOldest(a) ==
    /\ queue[a] # <<>>
    /\ queue' = [queue EXCEPT ![a] = Tail(@)]
    /\ status' = [status EXCEPT ![Head(queue[a])] = COMPLETE]

\* A forced reset; the oldest invocation survives it if its completion was
\* already being delivered.
Abort(devices) ==
    \E kept \in SUBSET devices :
        LET left(a) == IF a \in kept THEN <<Head(queue[a])>> ELSE <<>>
            ended(a) == ToSet(queue[a]) \ ToSet(left(a)) IN
        /\ \A a \in kept : queue[a] # <<>>
        /\ queue' = [a \in Accels |-> IF a \in devices THEN left(a) ELSE queue[a]]
        /\ status' = [j \in Jobs |->
                        IF AccelOf[j] \in devices /\ j \in ended(AccelOf[j])
                        THEN FAILED ELSE status[j]]

FifoNext ==
    \/ \E j \in Jobs : Accept(j) \/ AnnounceRunning(j)
    \/ \E a \in Accels : CompleteOldest(a)
    \/ \E devices \in SUBSET Accels : Abort(devices)

FifoSpec == FifoInit /\ [][FifoNext]_fifoVars
=============================================================================
