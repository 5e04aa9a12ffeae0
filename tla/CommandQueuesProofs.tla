------------------------ MODULE CommandQueuesProofs ------------------------
(***************************************************************************)
(* What holds of CommandQueues for every set of commands, queues and       *)
(* workloads: its types, that an event that went back to the pool is       *)
(* forgotten by everything that could still name it, that a kernel runs at *)
(* the head of the ring of its accelerator, that the two counts of a queue *)
(* are right, that the assertions of the runtime hold, that no update is   *)
(* owed to a queue when the threads go to sleep and that commands start in *)
(* order, each under the hypotheses its theorem names.                     *)
(***************************************************************************)
EXTENDS CommandQueues, SequenceLemmas, FiniteSetTheorems, SequenceTheorems,
        TLAPS

(* The events of a queue that have been enqueued, and those of them that   *)
(* are done, have no device operation, or are in the queue.                *)
Of(q) == {e \in Commands : QueueOf(e) = q /\ life[e] # "new"}
DoneOf(q) == {e \in Of(q) : Done(e)}
IdleOf(q) == {e \in Of(q) : op[e] = None}
LiveOf(q) == {e \in Of(q) : life[e] = "live" /\ ~popped[e]}

(* The lists of a queue hold its own events: done ones on one list, once   *)
(* each the ones that were not submitted on another.                       *)
InOrderList(q) == inorder[q] \in Seq(Of(q))
CompletedList(q) == completed[q] \in Seq(DoneOf(q))
NewList(q) ==
    /\ new_commands[q] \in Seq(IdleOf(q)) /\ IsInjective(new_commands[q])
    /\ q \in InOrder => new_commands[q] = <<>>
CommandSet(q) ==
    /\ commands[q] \subseteq LiveOf(q)
    /\ last_barrier[q] = None \/ last_barrier[q] \in commands[q]
    /\ q \in InOrder => commands[q] = {}
ListsInv ==
    \A q \in Queues :
        InOrderList(q) /\ CompletedList(q) /\ NewList(q) /\ CommandSet(q)

(* Dependencies join live events. *)
ArcsInv ==
    \A d \in Commands : \A p \in deps[d] : life[d] = "live" /\ life[p] = "live"

(* A command has a device operation only after it was enqueued; while the  *)
(* operation is in use the command is not done, and whatever it still      *)
(* depends on is a kernel: no user event can terminate it.                 *)
OpInv ==
    \A e \in Commands : op[e] # None =>
        /\ life[e] # "new" /\ Command[e].kind \notin {"user", "sync"}
        /\ op[e] # COMPLETE => ~Done(e)
        /\ \A p \in deps[e] : IsKernel(p)

LifeInv ==
    \A e \in Commands :
        /\ life[e] = "new" => op[e] = None /\ ~popped[e]
        /\ life[e] = "freed" => Done(e)

(* The kernels on the device are in the ring of their accelerator, the one *)
(* whose end was reported at its head.                                     *)
RingInv ==
    \A e \in Commands : IsKernel(e) =>
        /\ op[e] \in {SUBMITTED, RUNNING} =>
             \E k \in 1..Len(ring[Command[e].accel]) :
                 ring[Command[e].accel][k] = e
        /\ e \in ended =>
             op[e] = RUNNING /\ Head(ring[Command[e].accel]) = e
        /\ op[e] = RUNNING => status[e] # QUEUED

IInv == TypeOK /\ ListsInv /\ ArcsInv /\ OpInv /\ LifeInv /\ RingInv

----------------------------------------------------------------------------
(* Sequences. *)
(* What is left of an injective sequence is injective and lost the element. *)
LEMMA RemoveAtInjective ==
    ASSUME NEW S, NEW s \in Seq(S), NEW i \in 1..Len(s), IsInjective(s)
    PROVE  /\ IsInjective(RemoveAt(s, i))
           /\ RemoveAt(s, i) \in Seq(S \ {s[i]})
<1> DEFINE t == RemoveAt(s, i)
<1>1. /\ t \in Seq(S) /\ Len(t) = Len(s) - 1
      /\ \A k \in 1..Len(s) - 1 : t[k] = IF k < i THEN s[k] ELSE s[k + 1]
  BY RemoveAtProperties
<1>2. /\ Len(s) \in Nat /\ DOMAIN s = 1..Len(s)
      /\ DOMAIN t = 1..Len(s) - 1
  BY <1>1, LenProperties
<1>3. \A j, k \in 1..Len(s) : s[j] = s[k] => j = k
  BY <1>2 DEF IsInjective
<1>4. ASSUME NEW j \in DOMAIN t, NEW k \in DOMAIN t, t[j] = t[k]
      PROVE  j = k
  BY <1>1, <1>2, <1>3, <1>4
<1>5. IsInjective(t)
  BY <1>4 DEF IsInjective
<1>6. \A k \in 1..Len(t) : t[k] \in S \ {s[i]}
  <2> SUFFICES ASSUME NEW k \in 1..Len(t) PROVE t[k] \in S \ {s[i]}
    OBVIOUS
  <2>1. t[k] \in S
    BY <1>1, ElementOfSeq
  <2>2. t[k] # s[i]
    BY <1>1, <1>2, <1>3
  <2>3. QED
    BY <2>1, <2>2
<1>7. t \in Seq(S \ {s[i]})
  <2>1. t \in [1..Len(t) -> S \ {s[i]}] /\ Len(t) \in Nat
    BY <1>1, <1>6, LenProperties
  <2>2. QED
    BY <2>1, SeqDef
<1>8. QED
  BY <1>5, <1>7

LEMMA AppendInjectiveSeq ==
    ASSUME NEW S, NEW s \in Seq(S), NEW e, e \notin S, IsInjective(s)
    PROVE  IsInjective(Append(s, e))
<1>1. s \in Seq(S \cup {e}) /\ e \in S \cup {e}
  BY SeqMonotonic
<1> DEFINE t == Append(s, e)
<1>2. /\ Len(s) \in Nat /\ DOMAIN s = 1..Len(s)
      /\ t \in Seq(S \cup {e}) /\ Len(t) = Len(s) + 1
      /\ \A k \in 1..Len(s) : t[k] = s[k]
      /\ t[Len(s) + 1] = e
  BY <1>1, AppendProperties, LenProperties
<1>3. DOMAIN t = 1..Len(s) + 1
  BY <1>2, LenProperties
<1>4. \A k \in 1..Len(s) : s[k] # e
  BY ElementOfSeq
<1>5. \A j, k \in 1..Len(s) : s[j] = s[k] => j = k
  BY <1>2 DEF IsInjective
<1>6. ASSUME NEW j \in 1..Len(s) + 1, NEW k \in 1..Len(s) + 1, t[j] = t[k]
      PROVE  j = k
  BY <1>2, <1>4, <1>5, <1>6
<1>7. QED
  BY <1>3, <1>6 DEF IsInjective

(* The members of a finite set, listed. *)
LEMMA SetToSeqType ==
    ASSUME NEW S, IsFiniteSet(S)
    PROVE  SetToSeq(S) \in Seq(S)
<1>1. /\ Cardinality(S) \in Nat
      /\ ExistsBijection(1..Cardinality(S), S)
  BY FS_CardinalityType
<1>2. PICK f \in Bijection(1..Cardinality(S), S) : TRUE
  BY <1>1 DEF ExistsBijection
<1>3. f \in [1..Cardinality(S) -> S] /\ IsInjective(f)
  BY <1>2 DEF Bijection, Injection, IsInjective
<1>4. SetToSeq(S) \in [1..Cardinality(S) -> S]
  BY <1>3 DEF SetToSeq
<1>5. QED
  BY <1>1, <1>4, SeqDef

LEMMA TerminatedOnType ==
    ASSUME NEW q, NEW e, NEW S,
           {d \in Terminated(e) : QueueOf(d) = q} \subseteq S,
           Terminated(e) \subseteq Commands
    PROVE  TerminatedOn(q, e) \in Seq(S)
<1> DEFINE D == {d \in Terminated(e) : QueueOf(d) = q}
           s == SetToSeq(D)
<1>1. IsFiniteSet(D)
  BY FS_Subset, SizeAssumption
<1>2. s \in Seq(D)
  BY <1>1, SetToSeqType
<1>3. Len(s) \in Nat /\ \A k \in 1..Len(s) : s[k] \in S
  BY <1>2, LenProperties, ElementOfSeq
<1>4. \A k \in 1..2 * Len(s) : (k + 1) \div 2 \in 1..Len(s)
  BY <1>3
<1>5. [k \in 1..2 * Len(s) |-> s[(k + 1) \div 2]] \in [1..2 * Len(s) -> S]
  BY <1>3, <1>4
<1>6. 2 * Len(s) \in Nat
  BY <1>3
<1>7. \A n \in Nat : [1..n -> S] \subseteq Seq(S)
  BY SeqDef
<1>8. TerminatedOn(q, e) = [k \in 1..2 * Len(s) |-> s[(k + 1) \div 2]]
  BY DEF TerminatedOn
<1> HIDE DEF s
<1>9. QED
  BY <1>5, <1>6, <1>7, <1>8

----------------------------------------------------------------------------
(* The constants. *)
LEMMA CommandFacts ==
    ASSUME NEW e \in Commands
    PROVE  /\ QueueOf(e) \in Queues /\ Command[e].waits \subseteq Commands
           /\ QueueOf(e) = UserQueue <=> Command[e].kind = "user"
           /\ IsKernel(e) => Command[e].accel \in Accels
BY CommandAssumption, QueueAssumption DEF CommandType, QueueOf, IsKernel

LEMMA QueueFacts ==
    InOrder \subseteq Queues /\ UserQueue \in Queues /\ UserQueue \notin InOrder
BY QueueAssumption

LEMMA NoneFacts ==
    None \notin Commands /\ \A s \in COMPLETE..QUEUED : s # None
BY NoneAssumption

(* The steps that change no event, queue or ring. *)
Quiet ==
    \/ Wake \/ EndRound \/ Nudged \/ Popped \/ Submitted
    \/ \E q \in Queues : UpdateQueue(q)
    \/ \E e \in Commands : Interrupt(e)
    \/ UNCHANGED vars

LEMMA QuietChange ==
    ASSUME Quiet
    PROVE  UNCHANGED <<objects, queues, ring>>
BY DEF Quiet, Wake, EndRound, Nudged, Popped, Submitted, UpdateQueue, Interrupt,
       vars, device

LEMMA NextCases ==
    ASSUME [Next]_vars
    PROVE  \/ Quiet
           \/ \E e \in Commands :
                \/ Enqueue(e) \/ Release(e) \/ Start(e) \/ Run(e) \/ End(e)
                \/ \E s \in UserStatuses : SetUserEventStatus(e, s)
           \/ PopCompleted \/ PopInOrder
           \/ SubmitOutOfOrder \/ ForgetUserEvents \/ SubmitInOrder
BY DEF Quiet, Next, Update, Device, Host

(* The events the update works on. *)
LEMMA CompletedHead ==
    ASSUME IInv, PopCompleted
    PROVE  /\ cur \in Queues /\ cur \notin InOrder
           /\ Head(completed[cur]) \in DoneOf(cur)
           /\ Tail(completed[cur]) \in Seq(DoneOf(cur))
<1>1. completed[cur] \in Seq(DoneOf(cur)) /\ completed[cur] # <<>>
  BY DEF IInv, TypeOK, ListsInv, CompletedList, PopCompleted
<1>2. QED
  BY <1>1, HeadTailProperties DEF IInv, TypeOK, PopCompleted

LEMMA InOrderNext ==
    ASSUME IInv, PopInOrder \/ SubmitInOrder
    PROVE  /\ cur \in InOrder /\ cur \in Queues
           /\ idx \in 1..Len(inorder[cur])
           /\ inorder[cur] \in Seq(Of(cur))
           /\ inorder[cur][idx] \in Of(cur)
<1>1. cur \in Queues /\ cur \in InOrder /\ idx \in Nat \ {0}
  BY DEF IInv, TypeOK, PopInOrder, SubmitInOrder
<1>2. inorder[cur] \in Seq(Of(cur))
  BY <1>1 DEF IInv, ListsInv, InOrderList
<1>3. idx \in 1..Len(inorder[cur])
  BY <1>1, <1>2, LenProperties DEF PopInOrder, SubmitInOrder, DoneAt
<1>4. QED
  BY <1>1, <1>2, <1>3, ElementOfSeq

LEMMA NewNext ==
    ASSUME IInv, SubmitOutOfOrder
    PROVE  /\ cur \in Queues /\ cur \notin InOrder /\ cur # UserQueue
           /\ idx \in 1..Len(new_commands[cur])
           /\ new_commands[cur] \in Seq(IdleOf(cur))
           /\ new_commands[cur][idx] \in IdleOf(cur)
<1>1. /\ cur \in Queues /\ cur \notin InOrder /\ cur # UserQueue
      /\ idx \in Nat \ {0}
  BY DEF IInv, TypeOK, SubmitOutOfOrder
<1>2. new_commands[cur] \in Seq(IdleOf(cur))
  BY <1>1 DEF IInv, ListsInv, NewList
<1>3. idx \in 1..Len(new_commands[cur])
  BY <1>1, <1>2, LenProperties DEF SubmitOutOfOrder
<1>4. QED
  BY <1>1, <1>2, <1>3, ElementOfSeq

LEMMA TerminatedFacts ==
    ASSUME NEW e \in Commands
    PROVE  /\ Terminated(e) \subseteq Commands /\ IsFiniteSet(Terminated(e))
           /\ \A d \in Terminated(e) :
                e \in deps[d] /\ Command[e].kind = "user" /\ status[e] < 0
<1>1. Terminated(e) \subseteq Commands
  BY DEF Terminated, Dependents
<1>2. IsFiniteSet(Terminated(e))
  BY <1>1, FS_Subset, SizeAssumption
<1>3. QED
  BY <1>1, <1>2 DEF Terminated, Dependents

----------------------------------------------------------------------------
(* Types are preserved by each action. *)
LEMMA AfterTypes ==
    ASSUME TypeOK, NEW e \in Commands
    PROVE  /\ \A s \in Int : CompletedAfter(e, s) \in [Queues -> Seq(Commands)]
           /\ SubmittedAfter(e) \in [Queues -> Int]
           /\ CountSubmitted(e) \in [Queues -> Int]
           /\ WithoutParent(e) \in [Commands -> SUBSET Commands]
           /\ DependsOn(e) \in SUBSET Commands
           /\ Follows(e) \in SUBSET Commands
           /\ LifeAfter(e) \in [Commands -> {"new", "live", "freed"}]
<1> USE CommandFacts DEF TypeOK
<1>1. \A q \in Queues : Append(completed[q], e) \in Seq(Commands)
  BY AppendProperties
<1>2. \A s \in Int : CompletedAfter(e, s) \in [Queues -> Seq(Commands)]
  BY <1>1 DEF CompletedAfter
<1>3. WaitList(e) \subseteq Commands /\ LastBarrier(e) \subseteq Commands
  BY DEF WaitList, LastBarrier
<1>4. ToSet(inorder[QueueOf(e)]) \subseteq Commands
  <2>1. inorder[QueueOf(e)] \in Seq(Commands)
    OBVIOUS
  <2>2. QED
    BY <2>1, LenProperties DEF ToSet
<1>5. /\ SubmittedAfter(e) \in [Queues -> Int]
      /\ CountSubmitted(e) \in [Queues -> Int]
  BY DEF SubmittedAfter, CountSubmitted
<1>6. /\ WithoutParent(e) \in [Commands -> SUBSET Commands]
      /\ LifeAfter(e) \in [Commands -> {"new", "live", "freed"}]
  BY DEF WithoutParent, LifeAfter
<1>7. DependsOn(e) \in SUBSET Commands /\ Follows(e) \in SUBSET Commands
  BY <1>3, <1>4 DEF DependsOn, Unfinished, Barrier, Follows
<1>8. QED
  BY <1>2, <1>5, <1>6, <1>7

(* acl_submit_command, in either kind of queue. *)
LEMMA SubmitCommandType ==
    ASSUME TypeOK, NEW e \in Commands, SubmitCommand(e)
    PROVE  /\ status' \in [Commands -> UserStatuses \cup FAILED..QUEUED]
           /\ op' \in [Commands -> COMPLETE..QUEUED \cup {None}]
           /\ on_doq' \in [Commands -> BOOLEAN]
           /\ submitted' \in [Queues -> Int]
           /\ completed' \in [Queues -> Seq(Commands)]
           /\ signalled' \in BOOLEAN
<1>0. /\ \A s \in Int : CompletedAfter(e, s) \in [Queues -> Seq(Commands)]
      /\ CountSubmitted(e) \in [Queues -> Int]
  BY AfterTypes
<1> USE DEF TypeOK, QUEUED, SUBMITTED, RUNNING, COMPLETE, FAILED
<1>1. CASE status[e] = QUEUED /\ Command[e].kind # "sync"
  <2>1. /\ op' = [op EXCEPT ![e] = QUEUED] /\ submitted' = CountSubmitted(e)
        /\ on_doq' = [on_doq EXCEPT ![e] = TRUE]
        /\ UNCHANGED <<status, completed, signalled>>
    BY <1>1 DEF SubmitCommand
  <2>2. op' \in [Commands -> COMPLETE..QUEUED \cup {None}]
    BY <2>1
  <2>3. QED
    BY <1>0, <2>1, <2>2
<1>2. CASE ~(status[e] = QUEUED /\ Command[e].kind # "sync")
  <2>1. PICK s \in {COMPLETE, FAILED} :
          /\ status' = [status EXCEPT ![e] = s]
          /\ completed' = CompletedAfter(e, s)
          /\ signalled' = TRUE /\ UNCHANGED <<op, submitted>>
    BY <1>2 DEF SubmitCommand
  <2>2. on_doq' \in [Commands -> BOOLEAN]
    BY DEF SubmitCommand
  <2>3. status' \in [Commands -> UserStatuses \cup FAILED..QUEUED]
    BY <2>1
  <2>4. completed' \in [Queues -> Seq(Commands)]
    <3>1. s \in Int
      OBVIOUS
    <3>2. QED
      BY <1>0, <2>1, <3>1
  <2>5. QED
    BY <1>0, <2>1, <2>2, <2>3, <2>4
<1>3. QED
  BY <1>1, <1>2

LEMMA TypeStep == IInv /\ [Next]_vars => TypeOK'
<1> SUFFICES ASSUME IInv, [Next]_vars PROVE TypeOK'
  OBVIOUS
<1>0. TypeOK
  BY DEF IInv
<1> USE DEF objects, queues, device, control
<1>1. CASE Quiet
  <2>1. UNCHANGED <<objects, queues, ring>>
    BY <1>1, QuietChange
  <2>2. /\ ended' \subseteq Commands /\ signalled' \in BOOLEAN
        /\ at' \in {"asleep", "round", "nudge", "pop", "submit"}
        /\ todo' \subseteq Queues /\ cur' \in Queues /\ idx' \in Nat \ {0}
        /\ updates' \in BOOLEAN /\ single' \in BOOLEAN
        /\ follows' \in [Commands -> SUBSET Commands]
    <3>0. cur \in Queues /\ UserQueue \in Queues
      BY <1>0, QueueFacts DEF TypeOK
    <3>1. CASE Wake
      BY <1>0, <3>1 DEF TypeOK, Wake, StartRound
    <3>2. CASE EndRound
      BY <1>0, <3>2 DEF TypeOK, EndRound
    <3>3. CASE Nudged \/ Popped
      BY <1>0, <3>3 DEF TypeOK, Nudged, Popped
    <3>4. CASE Submitted
      BY <1>0, <3>0, <3>4 DEF TypeOK, Submitted
    <3>5. CASE \E q \in Queues : UpdateQueue(q)
      BY <1>0, <3>5 DEF TypeOK, UpdateQueue
    <3>6. CASE \E e \in Commands : Interrupt(e)
      BY <1>0, <3>6 DEF TypeOK, Interrupt
    <3>7. CASE UNCHANGED vars
      BY <1>0, <3>7 DEF TypeOK, vars
    <3>8. QED
      BY <1>1, <3>1, <3>2, <3>3, <3>4, <3>5, <3>6, <3>7 DEF Quiet
  <2>3. QED
    BY <1>0, <2>1, <2>2 DEF TypeOK
<1>2. ASSUME NEW e \in Commands, Enqueue(e) PROVE TypeOK'
  <2> DEFINE q == QueueOf(e)
  <2>1. /\ Append(inorder[q], e) \in Seq(Commands)
        /\ Append(new_commands[q], e) \in Seq(Commands)
    BY <1>0, CommandFacts, AppendProperties DEF TypeOK
  <2>2. /\ inorder' \in [Queues -> Seq(Commands)]
        /\ commands' \in [Queues -> SUBSET Commands]
        /\ new_commands' \in [Queues -> Seq(Commands)]
        /\ last_barrier' \in [Queues -> Commands \cup {None}]
    <3>1. CASE q \in InOrder
      BY <1>0, <1>2, <2>1, <3>1 DEF TypeOK, Enqueue
    <3>2. CASE q \notin InOrder
      <4>1. last_barrier' \in [Queues -> Commands \cup {None}]
        BY <1>0, <1>2, <3>2 DEF TypeOK, Enqueue
      <4>2. commands' \in [Queues -> SUBSET Commands]
        <5>1. q \in Queues /\ commands[q] \cup {e} \in SUBSET Commands
          BY <1>0, CommandFacts DEF TypeOK
        <5>2. commands' = [commands EXCEPT ![q] = commands[q] \cup {e}]
          BY <1>2, <3>2 DEF Enqueue
        <5>3. commands \in [Queues -> SUBSET Commands]
          BY <1>0 DEF TypeOK
        <5> HIDE DEF q
        <5>4. QED
          BY <5>1, <5>2, <5>3
      <4>3. QED
        BY <1>0, <1>2, <2>1, <3>2, <4>1, <4>2 DEF TypeOK, Enqueue
    <3>3. QED
      BY <3>1, <3>2
  <2>3. /\ life' \in [Commands -> {"new", "live", "freed"}]
        /\ status' \in [Commands -> UserStatuses \cup FAILED..QUEUED]
        /\ deps' \in [Commands -> SUBSET Commands]
        /\ follows' \in [Commands -> SUBSET Commands]
        /\ attached' \in [Commands -> BOOLEAN]
        /\ held' \in [Commands -> BOOLEAN]
        /\ num_commands' \in [Queues -> Int]
    <3>1. DependsOn(e) \in SUBSET Commands /\ Follows(e) \in SUBSET Commands
      BY <1>0, AfterTypes
    <3>2. status' \in [Commands -> UserStatuses \cup FAILED..QUEUED]
      BY <1>0, <1>2 DEF TypeOK, Enqueue, QUEUED, SUBMITTED, FAILED
    <3>3. /\ life' \in [Commands -> {"new", "live", "freed"}]
          /\ attached' \in [Commands -> BOOLEAN]
          /\ held' \in [Commands -> BOOLEAN]
      BY <1>0, <1>2 DEF TypeOK, Enqueue
    <3>4. num_commands' \in [Queues -> Int]
      BY <1>0, <1>2, CommandFacts, SMTT(40) DEF TypeOK, Enqueue
    <3>5. QED
      BY <1>0, <1>2, <3>1, <3>2, <3>3, <3>4 DEF TypeOK, Enqueue
  <2>4. /\ at' \in {"asleep", "round", "nudge", "pop", "submit"}
        /\ todo' \subseteq Queues /\ cur' \in Queues /\ idx' \in Nat \ {0}
        /\ updates' \in BOOLEAN /\ single' \in BOOLEAN
        /\ signalled' \in BOOLEAN
    BY <1>0, <1>2 DEF TypeOK, Enqueue, StartRound, control
  <2>5. QED
    BY <1>0, <1>2, <2>2, <2>3, <2>4 DEF TypeOK, Enqueue
<1>3. ASSUME NEW e \in Commands, Release(e) PROVE TypeOK'
  <2>1. /\ held' \in [Commands -> BOOLEAN]
        /\ attached' \in [Commands -> BOOLEAN]
    BY <1>0, <1>3 DEF TypeOK, Release
  <2>2. life' \in [Commands -> {"new", "live", "freed"}]
    <3>1. life' = life \/ life' = [life EXCEPT ![e] = "freed"]
      BY <1>3, Zenon DEF Release
    <3>2. QED
      BY <1>0, <3>1 DEF TypeOK
  <2>3. /\ at' \in {"asleep", "round", "nudge", "pop", "submit"}
        /\ todo' \subseteq Queues /\ cur' \in Queues /\ idx' \in Nat \ {0}
        /\ updates' \in BOOLEAN /\ single' \in BOOLEAN
    <3>1. CASE popped[e]
      BY <1>0, <1>3, <3>1, Zenon DEF TypeOK, Release, control
    <3>2. CASE ~popped[e]
      <4>1. /\ at' = "round" /\ todo' = {QueueOf(e)} /\ single' = TRUE
            /\ updates' = FALSE /\ cur' = cur /\ idx' = idx
        BY <1>3, <3>2, Zenon DEF Release
      <4>2. QED
        BY <1>0, <4>1, CommandFacts DEF TypeOK
    <3>3. QED
      BY <3>1, <3>2
  <2>4. UNCHANGED <<status, deps, op, on_doq, popped, queues, device,
                    signalled, follows>>
    BY <1>3 DEF Release
  <2>5. QED
    BY <1>0, <2>1, <2>2, <2>3, <2>4 DEF TypeOK, queues, device
<1>4. ASSUME NEW e \in Commands, NEW s \in UserStatuses, SetUserEventStatus(e, s)
      PROVE  TypeOK'
  BY <1>0, <1>4, AfterTypes, StatusAssumption
  DEF TypeOK, SetUserEventStatus, StartRound
<1>5. ASSUME NEW e \in Commands, Start(e) PROVE TypeOK'
  <2>1. ring' \in [Accels -> Seq(Commands)]
    <3>1. CASE IsKernel(e)
      <4>1. Append(ring[Command[e].accel], e) \in Seq(Commands)
        BY <1>0, <3>1, CommandFacts, AppendProperties DEF TypeOK
      <4>2. QED
        BY <1>0, <1>5, <3>1, <4>1 DEF TypeOK, Start
    <3>2. CASE ~IsKernel(e)
      BY <1>0, <1>5, <3>2 DEF TypeOK, Start
    <3>3. QED
      BY <3>1, <3>2
  <2>2. /\ op' \in [Commands -> COMPLETE..QUEUED \cup {None}]
        /\ status' \in [Commands -> UserStatuses \cup FAILED..QUEUED]
    BY <1>0, <1>5 DEF TypeOK, Start, QUEUED, SUBMITTED, COMPLETE, FAILED
  <2>3. QED
    BY <1>0, <1>5, <2>1, <2>2 DEF TypeOK, Start
<1>6. ASSUME NEW e \in Commands, Run(e) PROVE TypeOK'
  BY <1>0, <1>6
  DEF TypeOK, Run, QUEUED, SUBMITTED, RUNNING, COMPLETE, FAILED
<1>7. ASSUME NEW e \in Commands, End(e) PROVE TypeOK'
  <2>1. ring' \in [Accels -> Seq(Commands)]
    <3>1. CASE IsKernel(e)
      <4>1. Tail(ring[Command[e].accel]) \in Seq(Commands)
        <5>1. ring[Command[e].accel] \in Seq(Commands)
          BY <1>0, <3>1, CommandFacts DEF TypeOK
        <5>2. PICK k \in 1..Len(ring[Command[e].accel]) : TRUE
          BY <1>7, <3>1 DEF IInv, RingInv, End
        <5>3. ring[Command[e].accel] # <<>>
          BY <5>1, <5>2, EmptySeq
        <5>4. QED
          BY <5>1, <5>3, HeadTailProperties
      <4>2. QED
        BY <1>0, <1>7, <3>1, <4>1 DEF TypeOK, End
    <3>2. CASE ~IsKernel(e)
      BY <1>0, <1>7, <3>2 DEF TypeOK, End
    <3>3. QED
      BY <3>1, <3>2
  <2>2. PICK s \in {COMPLETE, FAILED} :
          status' = [status EXCEPT ![e] = s] /\ completed' = CompletedAfter(e, s)
    BY <1>7 DEF End
  <2>3. /\ status' \in [Commands -> UserStatuses \cup FAILED..QUEUED]
        /\ completed' \in [Queues -> Seq(Commands)]
        /\ submitted' \in [Queues -> Int]
    <3>1. /\ CompletedAfter(e, s) \in [Queues -> Seq(Commands)]
          /\ SubmittedAfter(e) \in [Queues -> Int]
      BY <1>0, AfterTypes DEF COMPLETE, FAILED
    <3>2. QED
      BY <1>0, <1>7, <2>2, <3>1 DEF TypeOK, End, QUEUED, COMPLETE, FAILED
  <2>4. op' \in [Commands -> COMPLETE..QUEUED \cup {None}]
    BY <1>0, <1>7 DEF TypeOK, End, QUEUED, COMPLETE
  <2>5. QED
    BY <1>0, <1>7, <2>1, <2>3, <2>4 DEF TypeOK, End
<1>8. CASE PopCompleted
  <2> DEFINE e == Head(completed[cur])
  <2>1. e \in Commands /\ cur \in Queues /\ QueueOf(e) = cur
    BY <1>8, CompletedHead DEF DoneOf, Of
  <2>2. completed' \in [Queues -> Seq(Commands)]
    <3> SUFFICES ASSUME NEW r \in Queues PROVE completed'[r] \in Seq(Commands)
      BY <1>8 DEF PopCompleted
    <3>1. Tail(completed[cur]) \in Seq(Commands)
      <4>1. DoneOf(cur) \subseteq Commands
        BY DEF DoneOf, Of
      <4>2. QED
        BY <1>8, <4>1, CompletedHead, SeqMonotonic
    <3>2. TerminatedOn(r, e) \in Seq(Commands)
      BY <2>1, TerminatedFacts, TerminatedOnType
    <3>3. /\ Tail(completed[cur]) \o TerminatedOn(r, e) \in Seq(Commands)
          /\ completed[r] \o TerminatedOn(r, e) \in Seq(Commands)
          /\ <<>> \in Seq(Commands)
      BY <1>0, <3>1, <3>2, ConcatProperties, EmptySeq, SMTT(40) DEF TypeOK
    <3>4. completed'[r] \in {Tail(completed[cur]) \o TerminatedOn(r, e),
                             completed[r] \o TerminatedOn(r, e), <<>>}
      BY <1>8 DEF PopCompleted
    <3>5. QED
      BY <3>3, <3>4
  <2>3. submitted' \in [Queues -> Int]
    <3> SUFFICES ASSUME NEW r \in Queues PROVE submitted'[r] \in Int
      BY <1>8 DEF PopCompleted
    <3> DEFINE n == Cardinality({d \in Terminated(e) : QueueOf(d) = r})
    <3>1. n \in Nat
      BY <2>1, TerminatedFacts, FS_Subset, FS_CardinalityType
    <3>2. submitted'[r] \in {submitted[r] - n, submitted[r]}
      BY <1>8 DEF PopCompleted
    <3> HIDE DEF n
    <3>3. QED
      BY <1>0, <3>1, <3>2 DEF TypeOK
  <2>4. /\ life' \in [Commands -> {"new", "live", "freed"}]
        /\ deps' \in [Commands -> SUBSET Commands]
        /\ attached' \in [Commands -> BOOLEAN]
        /\ popped' \in [Commands -> BOOLEAN]
    BY <1>0, <1>8, <2>1, AfterTypes DEF TypeOK, PopCompleted
  <2>5. status' \in [Commands -> UserStatuses \cup FAILED..QUEUED]
    BY <1>0, <1>8, <2>1 DEF TypeOK, PopCompleted
  <2>6. /\ last_barrier' \in [Queues -> Commands \cup {None}]
        /\ commands' \in [Queues -> SUBSET Commands]
        /\ num_commands' \in [Queues -> Int]
    BY <1>0, <1>8, <2>1 DEF TypeOK, PopCompleted, BarrierAfter
  <2>7. updates' \in BOOLEAN /\ signalled' \in BOOLEAN
    BY <1>8 DEF PopCompleted
  <2>8. QED
    BY <1>0, <1>8, <2>2, <2>3, <2>4, <2>5, <2>6, <2>7 DEF TypeOK, PopCompleted
<1>9. CASE PopInOrder
  <2> DEFINE e == inorder[cur][idx]
  <2>1. /\ e \in Commands /\ cur \in Queues
        /\ idx \in 1..Len(inorder[cur]) /\ inorder[cur] \in Seq(Commands)
    BY <1>0, <1>9, InOrderNext DEF TypeOK, Of
  <2>2. RemoveAt(inorder[cur], idx) \in Seq(Commands)
    BY <2>1, RemoveAtProperties
  <2>3. /\ life' \in [Commands -> {"new", "live", "freed"}]
        /\ deps' \in [Commands -> SUBSET Commands]
        /\ attached' \in [Commands -> BOOLEAN]
        /\ popped' \in [Commands -> BOOLEAN]
    <3>1. /\ LifeAfter(e) \in [Commands -> {"new", "live", "freed"}]
          /\ WithoutParent(e) \in [Commands -> SUBSET Commands]
      BY <1>0, <2>1, AfterTypes
    <3>2. QED
      BY <1>0, <1>9, <3>1, ZenonT(60) DEF TypeOK, PopInOrder
  <2>4. /\ inorder' \in [Queues -> Seq(Commands)]
        /\ num_commands' \in [Queues -> Int]
        /\ idx' \in Nat \ {0} /\ updates' \in BOOLEAN
    <3>1. CASE deps[e] = {}
      <4>1. num_commands' \in [Queues -> Int]
        BY <1>0, <1>9, <2>1, <3>1 DEF TypeOK, PopInOrder
      <4>2. inorder' \in [Queues -> Seq(Commands)]
        BY <1>0, <1>9, <2>1, <2>2, <3>1, ZenonT(60) DEF TypeOK, PopInOrder
      <4>3. idx' \in Nat \ {0} /\ updates' \in BOOLEAN
        BY <1>0, <1>9, <3>1 DEF TypeOK, PopInOrder
      <4>4. QED
        BY <4>1, <4>2, <4>3
    <3>2. CASE deps[e] # {}
      <4>1. updates' \in BOOLEAN
        BY <1>9, <3>2 DEF PopInOrder
      <4>2. /\ UNCHANGED <<inorder, num_commands>> /\ idx' = idx + 1
        BY <1>9, <3>2 DEF PopInOrder
      <4>3. QED
        BY <1>0, <4>1, <4>2 DEF TypeOK
    <3>3. QED
      BY <3>1, <3>2
  <2>5. QED
    BY <1>0, <1>9, <2>3, <2>4 DEF TypeOK, PopInOrder
<1>10. CASE SubmitOutOfOrder
  <2> DEFINE e == new_commands[cur][idx]
  <2>1. /\ e \in Commands /\ cur \in Queues
        /\ idx \in 1..Len(new_commands[cur]) /\ new_commands[cur] \in Seq(Commands)
    BY <1>0, <1>10, NewNext DEF TypeOK, IdleOf, Of
  <2>2. RemoveAt(new_commands[cur], idx) \in Seq(Commands)
    BY <2>1, RemoveAtProperties
  <2>3. CASE ReadyOutOfOrder(e) /\ SubmitSucceeds(e)
    <3>1. /\ SubmitCommand(e)
          /\ deps' = [deps EXCEPT ![e] = {}]
          /\ new_commands' =
               [new_commands EXCEPT ![cur] = RemoveAt(new_commands[cur], idx)]
          /\ updates' = TRUE /\ UNCHANGED idx
          /\ UNCHANGED <<inorder, commands, device, at, todo, cur, single, follows>>
      BY <1>10, <2>3 DEF SubmitOutOfOrder
    <3>2. /\ deps' \in [Commands -> SUBSET Commands]
          /\ new_commands' \in [Queues -> Seq(Commands)]
      BY <1>0, <2>1, <2>2, <3>1 DEF TypeOK
    <3>3. QED
      BY <1>0, <2>1, <3>1, <3>2, SubmitCommandType DEF TypeOK, SubmitCommand
  <2>4. CASE ~(ReadyOutOfOrder(e) /\ SubmitSucceeds(e))
    BY <1>0, <1>10, <2>4 DEF TypeOK, SubmitOutOfOrder
  <2>5. QED
    BY <2>3, <2>4
<1>11. CASE ForgetUserEvents
  BY <1>0, <1>11, EmptySeq DEF TypeOK, ForgetUserEvents
<1>12. CASE SubmitInOrder
  <2> DEFINE e == inorder[cur][idx]
             submits == /\ ~(status[e] # QUEUED \/ on_doq[e])
                        /\ ReadyInOrder(idx) /\ SubmitSucceeds(e)
  <2>1. e \in Commands /\ cur \in Queues /\ Len(inorder[cur]) \in Nat
    BY <1>0, <1>12, InOrderNext, LenProperties DEF TypeOK, Of
  <2>2. idx' \in Nat \ {0}
    BY <1>0, <1>12, <2>1 DEF TypeOK, SubmitInOrder
  <2>3. CASE submits
    <3>1. /\ SubmitCommand(e) /\ updates' = TRUE
          /\ UNCHANGED <<deps, inorder, commands, new_commands, device, at,
                         todo, cur, single, follows>>
      BY <1>12, <2>3 DEF SubmitInOrder
    <3>2. QED
      BY <1>0, <2>1, <2>2, <3>1, SubmitCommandType DEF TypeOK, SubmitCommand
  <2>4. CASE ~submits
    <3>1. UNCHANGED <<objects, queues, signalled, updates, device, at, todo, cur,
                      single, follows>>
      BY <1>12, <2>4 DEF SubmitInOrder
    <3>2. QED
      BY <1>0, <2>2, <3>1 DEF TypeOK
  <2>5. QED
    BY <2>3, <2>4
<1>13. QED
  BY <1>1, <1>2, <1>3, <1>4, <1>5, <1>6, <1>7, <1>8, <1>9, <1>10, <1>11, <1>12,
     NextCases

----------------------------------------------------------------------------
LEMMA StatusIsInt ==
    ASSUME TypeOK, NEW e \in Commands
    PROVE  status[e] \in Int
<1>1. status[e] \in UserStatuses \cup FAILED..QUEUED
  BY DEF TypeOK
<1>2. QED
  BY <1>1, StatusAssumption DEF FAILED, QUEUED

(* An event that was enqueued is never new again, and one that is done     *)
(* stays done as long as it is not used for another command.               *)
LEMMA Persistence ==
    ASSUME IInv, [Next]_vars, NEW d \in Commands, life[d] # "new"
    PROVE  life'[d] # "new" /\ (Done(d) => Done(d)')
<1>0. TypeOK
  BY DEF IInv
<1>op. op[d] \in RUNNING..QUEUED => ~Done(d)
  BY NoneFacts DEF IInv, OpInv, RUNNING, QUEUED, COMPLETE
<1> USE DEF objects, queues, device, control
<1>1. CASE Quiet
  BY <1>1, QuietChange DEF Done
<1>2. ASSUME NEW e \in Commands, Enqueue(e) PROVE life'[d] # "new" /\ (Done(d) => Done(d)')
  BY <1>0, <1>2 DEF TypeOK, Enqueue, Enqueueable, Done
<1>3. ASSUME NEW e \in Commands, Release(e) PROVE life'[d] # "new" /\ (Done(d) => Done(d)')
  BY <1>0, <1>3 DEF TypeOK, Release, Done
<1>4. ASSUME NEW e \in Commands, NEW s \in UserStatuses, SetUserEventStatus(e, s)
      PROVE  life'[d] # "new" /\ (Done(d) => Done(d)')
  BY <1>0, <1>4 DEF TypeOK, SetUserEventStatus, Done
<1>5. ASSUME NEW e \in Commands, Start(e) \/ Run(e)
      PROVE  life'[d] # "new" /\ (Done(d) => Done(d)')
  <2>1. UNCHANGED life /\ op[e] \in RUNNING..QUEUED
    BY <1>5 DEF Start, Run, RUNNING, SUBMITTED, QUEUED
  <2>2. PICK s : status' = [status EXCEPT ![e] = s]
    BY <1>5 DEF Start, Run
  <2>3. e = d \/ status'[d] = status[d]
    BY <1>0, <2>2 DEF TypeOK
  <2>4. QED
    BY <1>op, <2>1, <2>3 DEF Done
<1>6. ASSUME NEW e \in Commands, End(e) PROVE life'[d] # "new" /\ (Done(d) => Done(d)')
  <2>1. PICK s \in {COMPLETE, FAILED} : status' = [status EXCEPT ![e] = s]
    BY <1>6 DEF End
  <2>2. UNCHANGED life
    BY <1>6 DEF End
  <2>3. QED
    BY <1>0, <2>1, <2>2 DEF TypeOK, Done, COMPLETE, FAILED
<1>7. CASE PopCompleted
  <2> DEFINE e == Head(completed[cur])
  <2>1. e \in Commands
    BY <1>7, CompletedHead DEF DoneOf, Of
  <2>2. /\ status'[d] = IF d \in Terminated(e) THEN status[e] ELSE status[d]
        /\ life' \in {life, LifeAfter(e)}
    BY <1>7 DEF PopCompleted
  <2>3. d \in Terminated(e) => status[e] < 0 /\ status[e] \in Int
    BY <1>0, <2>1, TerminatedFacts, StatusIsInt
  <2> HIDE DEF e
  <2>4. life'[d] # "new"
    BY <1>0, <2>1, <2>2 DEF TypeOK, LifeAfter
  <2>5. Done(d) => Done(d)'
    BY <2>2, <2>3 DEF Done, COMPLETE
  <2>6. QED
    BY <2>4, <2>5
<1>8. CASE PopInOrder
  <2>1. status' = status /\ \E e : life' \in {life, LifeAfter(e)}
    BY <1>8 DEF PopInOrder
  <2>2. QED
    BY <1>0, <2>1 DEF TypeOK, LifeAfter, Done
<1>9. CASE SubmitOutOfOrder \/ SubmitInOrder
  <2>1. UNCHANGED life
    BY <1>9 DEF SubmitOutOfOrder, SubmitInOrder, SubmitCommand
  <2>2. UNCHANGED status \/ \E e : SubmitCommand(e)
    BY <1>9 DEF SubmitOutOfOrder, SubmitInOrder
  <2>3. status'[d] = status[d] \/ status'[d] \in {COMPLETE, FAILED}
    BY <1>0, <2>2 DEF TypeOK, SubmitCommand
  <2>4. QED
    BY <2>1, <2>3 DEF Done, COMPLETE, FAILED
<1>10. CASE ForgetUserEvents
  BY <1>10 DEF ForgetUserEvents, Done
<1>11. QED
  BY <1>1, <1>2, <1>3, <1>4, <1>5, <1>6, <1>7, <1>8, <1>9, <1>10, NextCases

LEMMA SetsGrow ==
    ASSUME IInv, [Next]_vars, NEW q
    PROVE  Of(q) \subseteq Of(q)' /\ DoneOf(q) \subseteq DoneOf(q)'
<1>1. Of(q) \subseteq Of(q)'
  BY Persistence DEF Of, QueueOf
<1>2. DoneOf(q) \subseteq DoneOf(q)'
  BY <1>1, Persistence DEF DoneOf, Of
<1>3. QED
  BY <1>1, <1>2

(* The list of an in-order queue. *)
LEMMA InOrderListStep ==
    ASSUME IInv, [Next]_vars, NEW q \in Queues
    PROVE  InOrderList(q)'
<1>0. TypeOK /\ InOrderList(q)
  BY DEF IInv, ListsInv
<1>same. ASSUME inorder'[q] = inorder[q] PROVE InOrderList(q)'
  BY <1>0, <1>same, SetsGrow, SeqMonotonic DEF InOrderList
<1>seq. inorder[q] \in Seq(Of(q)')
  BY <1>0, SetsGrow, SeqMonotonic DEF InOrderList
<1>1. ASSUME NEW e \in Commands, Enqueue(e) PROVE InOrderList(q)'
  <2>1. CASE q = QueueOf(e) /\ q \in InOrder
    <3>1. e \in Of(q)'
      BY <1>0, <1>1, <2>1 DEF TypeOK, Enqueue, Of, QueueOf
    <3>2. inorder'[q] = Append(inorder[q], e)
      BY <1>0, <1>1, <2>1 DEF TypeOK, Enqueue
    <3>3. QED
      BY <1>seq, <3>1, <3>2, AppendProperties DEF InOrderList
  <2>2. CASE ~(q = QueueOf(e) /\ q \in InOrder)
    <3>1. inorder'[q] = inorder[q]
      BY <1>0, <1>1, <2>2 DEF TypeOK, Enqueue
    <3>2. QED
      BY <3>1, <1>same
  <2>3. QED
    BY <2>1, <2>2
<1>2. CASE PopInOrder
  <2>1. CASE q = cur
    <3>1. inorder'[q] \in {inorder[q], RemoveAt(inorder[q], idx)}
      BY <1>0, <1>2, <2>1 DEF TypeOK, PopInOrder
    <3>2. RemoveAt(inorder[q], idx) \in Seq(Of(q)')
      BY <1>2, <1>seq, <2>1, InOrderNext, RemoveAtProperties
    <3>3. QED
      BY <1>seq, <3>1, <3>2 DEF InOrderList
  <2>2. CASE q # cur
    BY <1>0, <1>2, <1>same, <2>2 DEF TypeOK, PopInOrder
  <2>3. QED
    BY <2>1, <2>2
<1>3. CASE Quiet
  BY <1>3, <1>same, QuietChange DEF queues
<1>4. ASSUME NEW e \in Commands,
             \/ Release(e) \/ Start(e) \/ Run(e) \/ End(e)
             \/ \E s \in UserStatuses : SetUserEventStatus(e, s)
      PROVE  InOrderList(q)'
  BY <1>4, <1>same DEF Release, Start, Run, End, SetUserEventStatus, queues
<1>5. CASE PopCompleted \/ SubmitOutOfOrder \/ ForgetUserEvents \/ SubmitInOrder
  BY <1>5, <1>same
  DEF PopCompleted, SubmitOutOfOrder, ForgetUserEvents, SubmitInOrder, queues
<1>6. QED
  BY <1>1, <1>2, <1>3, <1>4, <1>5, NextCases

(* The list of completed events. *)
LEMMA CompletedListStep ==
    ASSUME IInv, [Next]_vars, NEW q \in Queues
    PROVE  CompletedList(q)'
<1>0. TypeOK /\ CompletedList(q)
  BY DEF IInv, ListsInv
<1>seq. completed[q] \in Seq(DoneOf(q)')
  BY <1>0, SetsGrow, SeqMonotonic DEF CompletedList
<1>same. ASSUME completed'[q] = completed[q] PROVE CompletedList(q)'
  BY <1>seq, <1>same DEF CompletedList
<1>after. ASSUME NEW e \in Commands, NEW s, completed' = CompletedAfter(e, s),
                 s <= COMPLETE => e \in DoneOf(QueueOf(e))'
          PROVE  CompletedList(q)'
  <2>1. \/ completed'[q] = completed[q]
        \/ /\ completed'[q] = Append(completed[q], e)
           /\ q = QueueOf(e) /\ s <= COMPLETE
    BY <1>0, <1>after DEF TypeOK, CompletedAfter
  <2>2. CASE /\ completed'[q] = Append(completed[q], e)
             /\ q = QueueOf(e) /\ s <= COMPLETE
    <3>1. e \in DoneOf(q)'
      BY <1>after, <2>2 DEF QueueOf
    <3>2. QED
      BY <1>seq, <2>2, <3>1, AppendProperties DEF CompletedList
  <2>3. QED
    BY <1>same, <2>1, <2>2
<1> USE DEF objects, queues, device, control
<1>1. ASSUME NEW e \in Commands, NEW s \in UserStatuses, SetUserEventStatus(e, s)
      PROVE  CompletedList(q)'
  <2>1. e \in DoneOf(QueueOf(e))'
    BY <1>0, <1>1, StatusAssumption
    DEF TypeOK, SetUserEventStatus, DoneOf, Of, Done, QueueOf
  <2>2. QED
    BY <1>1, <1>after, <2>1 DEF SetUserEventStatus
<1>2. ASSUME NEW e \in Commands, End(e) PROVE CompletedList(q)'
  <2>1. PICK s \in {COMPLETE, FAILED} :
          status' = [status EXCEPT ![e] = s] /\ completed' = CompletedAfter(e, s)
    BY <1>2 DEF End
  <2>2. life'[e] # "new"
    BY <1>2, NoneFacts DEF IInv, OpInv, End, RUNNING, QUEUED, COMPLETE
  <2>3. e \in DoneOf(QueueOf(e))'
    BY <1>0, <2>1, <2>2 DEF TypeOK, DoneOf, Of, Done, QueueOf, COMPLETE, FAILED
  <2>4. QED
    BY <1>after, <2>1, <2>3
<1>3. ASSUME NEW e \in Commands, SubmitCommand(e), life'[e] # "new"
      PROVE  CompletedList(q)'
  <2>1. CASE status[e] = QUEUED /\ Command[e].kind # "sync"
    BY <1>3, <1>same, <2>1 DEF SubmitCommand
  <2>2. CASE ~(status[e] = QUEUED /\ Command[e].kind # "sync")
    <3>1. PICK s \in {COMPLETE, FAILED} :
            status' = [status EXCEPT ![e] = s] /\ completed' = CompletedAfter(e, s)
      BY <1>3, <2>2 DEF SubmitCommand
    <3>2. e \in DoneOf(QueueOf(e))'
      BY <1>0, <1>3, <3>1 DEF TypeOK, DoneOf, Of, Done, QueueOf, COMPLETE, FAILED
    <3>3. QED
      BY <1>after, <3>1, <3>2
  <2>3. QED
    BY <2>1, <2>2
<1>4. CASE SubmitOutOfOrder
  <2> DEFINE e == new_commands[cur][idx]
  <2>1. e \in Commands /\ life'[e] # "new"
    BY <1>4, NewNext, Persistence DEF IdleOf, Of
  <2>2. SubmitCommand(e) \/ UNCHANGED completed
    BY <1>4 DEF SubmitOutOfOrder
  <2>3. QED
    BY <1>3, <1>same, <2>1, <2>2
<1>5. CASE SubmitInOrder
  <2> DEFINE e == inorder[cur][idx]
  <2>1. e \in Commands /\ life'[e] # "new"
    BY <1>5, InOrderNext, Persistence DEF Of
  <2>2. SubmitCommand(e) \/ UNCHANGED completed
    BY <1>5 DEF SubmitInOrder
  <2>3. QED
    BY <1>3, <1>same, <2>1, <2>2
<1>6. CASE PopCompleted
  <2> DEFINE e == Head(completed[cur])
  <2>1. e \in Commands /\ e \in DoneOf(cur) /\ cur \in Queues
    BY <1>6, CompletedHead DEF DoneOf, Of
  <2>2. \A d \in Terminated(e) : d \in DoneOf(QueueOf(d))'
    <3> SUFFICES ASSUME NEW d \in Terminated(e) PROVE d \in DoneOf(QueueOf(d))'
      OBVIOUS
    <3>1. d \in Commands /\ e \in deps[d] /\ status[e] < 0
      BY <2>1, TerminatedFacts
    <3>2. life[d] # "new"
      BY <3>1 DEF IInv, ArcsInv
    <3>3. life'[d] # "new"
      BY <3>1, <3>2, Persistence
    <3>4. status'[d] = status[e]
      BY <1>6, <3>1 DEF PopCompleted
    <3>5. Done(d)'
      <4>1. status[e] \in Int
        BY <1>0, <2>1, StatusIsInt
      <4>2. QED
        BY <3>1, <3>4, <4>1 DEF Done, COMPLETE
    <3>6. QED
      BY <3>1, <3>3, <3>5 DEF DoneOf, Of, QueueOf
  <2>3. TerminatedOn(q, e) \in Seq(DoneOf(q)')
    <3>1. {d \in Terminated(e) : QueueOf(d) = q} \subseteq DoneOf(q)'
      BY <2>2 DEF QueueOf
    <3>2. QED
      BY <2>1, <3>1, TerminatedFacts, TerminatedOnType
  <2>4. q = cur => Tail(completed[cur]) \in Seq(DoneOf(q)')
    <3>1. Tail(completed[cur]) \in Seq(DoneOf(cur))
      BY <1>6, CompletedHead
    <3>2. DoneOf(q) \subseteq DoneOf(q)'
      BY SetsGrow, SMTT(40)
    <3>3. QED
      BY <3>1, <3>2, SeqMonotonic
  <2>5. \/ completed'[q] = <<>>
        \/ q = cur /\ completed'[q] = Tail(completed[cur]) \o TerminatedOn(q, e)
        \/ completed'[q] = completed[q] \o TerminatedOn(q, e)
    BY <1>6 DEF PopCompleted
  <2>6. <<>> \in Seq(DoneOf(q)')
    BY EmptySeq
  <2> HIDE DEF e
  <2>7. /\ completed[q] \o TerminatedOn(q, e) \in Seq(DoneOf(q)')
        /\ q = cur =>
             Tail(completed[cur]) \o TerminatedOn(q, e) \in Seq(DoneOf(q)')
    BY <1>seq, <2>3, <2>4, ConcatProperties
  <2>8. QED
    BY <2>5, <2>6, <2>7 DEF CompletedList
<1>7. CASE Quiet
  BY <1>7, <1>same, QuietChange
<1>8. ASSUME NEW e \in Commands, Enqueue(e) \/ Release(e) \/ Start(e) \/ Run(e)
      PROVE  CompletedList(q)'
  BY <1>8, <1>same DEF Enqueue, Release, Start, Run
<1>9. CASE PopInOrder \/ ForgetUserEvents
  BY <1>9, <1>same DEF PopInOrder, ForgetUserEvents
<1>10. QED
  BY <1>1, <1>2, <1>4, <1>5, <1>6, <1>7, <1>8, <1>9, NextCases

(* The list of events to submit: an event leaves it before it gets a       *)
(* device operation.                                                       *)
LEMMA NewListStep ==
    ASSUME IInv, [Next]_vars, NEW q \in Queues
    PROVE  NewList(q)'
<1>0. TypeOK /\ NewList(q)
  BY DEF IInv, ListsInv
<1>same. ASSUME new_commands'[q] = new_commands[q],
                IdleOf(q) \subseteq IdleOf(q)' \/ q \in InOrder
         PROVE  NewList(q)'
  <2>1. CASE q \in InOrder
    BY <1>0, <1>same, <2>1, EmptySeq DEF NewList
  <2>2. CASE IdleOf(q) \subseteq IdleOf(q)'
    BY <1>0, <1>same, <2>2, SeqMonotonic DEF NewList
  <2>3. QED
    BY <1>same, <2>1, <2>2
<1>idle. ASSUME \A d \in IdleOf(q) : op'[d] = op[d]
         PROVE  IdleOf(q) \subseteq IdleOf(q)'
  BY <1>idle, SetsGrow DEF IdleOf
<1> USE DEF objects, queues, device, control
<1>1. ASSUME NEW e \in Commands, Enqueue(e) PROVE NewList(q)'
  <2>1. IdleOf(q) \subseteq IdleOf(q)'
    BY <1>1, <1>idle DEF Enqueue
  <2>2. CASE q = QueueOf(e) /\ q \notin InOrder
    <3>1. e \notin IdleOf(q) /\ e \in IdleOf(q)'
      <4>1. life[e] = "new" /\ life'[e] = "live" /\ op'[e] = op[e]
        BY <1>0, <1>1 DEF TypeOK, Enqueue, Enqueueable
      <4>2. op[e] = None
        BY <4>1 DEF IInv, LifeInv
      <4>3. QED
        BY <2>2, <4>1, <4>2 DEF IdleOf, Of, QueueOf
    <3>2. new_commands'[q] = Append(new_commands[q], e)
      BY <1>0, <1>1, <2>2 DEF TypeOK, Enqueue
    <3>3. IsInjective(Append(new_commands[q], e))
      BY <1>0, <3>1, AppendInjectiveSeq DEF NewList
    <3>4. new_commands[q] \in Seq(IdleOf(q)')
      BY <1>0, <2>1, SeqMonotonic DEF NewList
    <3>5. Append(new_commands[q], e) \in Seq(IdleOf(q)')
      BY <3>1, <3>4, AppendProperties
    <3>6. QED
      BY <2>2, <3>2, <3>3, <3>5 DEF NewList
  <2>3. CASE ~(q = QueueOf(e) /\ q \notin InOrder)
    <3>1. new_commands'[q] = new_commands[q]
      BY <1>0, <1>1, <2>3 DEF TypeOK, Enqueue
    <3>2. QED
      BY <1>same, <2>1, <3>1
  <2>4. QED
    BY <2>2, <2>3
<1>2. ASSUME NEW e \in Commands, Start(e) \/ Run(e) \/ End(e) PROVE NewList(q)'
  <2>1. new_commands'[q] = new_commands[q] /\ op[e] # None
    BY <1>2, NoneFacts
    DEF Start, Run, End, QUEUED, SUBMITTED, RUNNING, COMPLETE
  <2>2. \A d \in IdleOf(q) : op'[d] = op[d]
    BY <1>0, <1>2, <2>1 DEF TypeOK, Start, Run, End, IdleOf, Of
  <2>3. QED
    BY <1>idle, <1>same, <2>1, <2>2
<1>3. CASE SubmitOutOfOrder
  <2> DEFINE e == new_commands[cur][idx]
  <2>1. /\ cur \in Queues /\ e \in IdleOf(cur) /\ QueueOf(e) = cur
        /\ idx \in 1..Len(new_commands[cur])
        /\ new_commands[cur] \in Seq(IdleOf(cur))
    BY <1>3, NewNext DEF IdleOf, Of
  <2>2. CASE ~(ReadyOutOfOrder(e) /\ SubmitSucceeds(e))
    <3>1. UNCHANGED <<op, new_commands>>
      BY <1>3, <2>2 DEF SubmitOutOfOrder
    <3>2. QED
      BY <1>idle, <1>same, <3>1
  <2>3. CASE ReadyOutOfOrder(e) /\ SubmitSucceeds(e)
    <3>1. /\ new_commands' =
               [new_commands EXCEPT ![cur] = RemoveAt(new_commands[cur], idx)]
          /\ SubmitCommand(e)
      BY <1>3, <2>3 DEF SubmitOutOfOrder
    <3>2. \A d \in Commands \ {e} : op'[d] = op[d]
      BY <1>0, <3>1 DEF TypeOK, SubmitCommand
    <3>3. CASE q = cur
      <4>1. IsInjective(new_commands[cur]) /\ q \notin InOrder
        BY <1>0, <1>3, <3>3 DEF NewList, SubmitOutOfOrder
      <4>2. /\ IsInjective(RemoveAt(new_commands[cur], idx))
            /\ RemoveAt(new_commands[cur], idx) \in Seq(IdleOf(cur) \ {e})
        BY <2>1, <4>1, RemoveAtInjective
      <4>3. IdleOf(q) \ {e} \subseteq IdleOf(q)'
        BY <3>2, SetsGrow DEF IdleOf, Of
      <4>4. RemoveAt(new_commands[cur], idx) \in Seq(IdleOf(q)')
        BY <3>3, <4>2, <4>3, SeqMonotonic
      <4>5. new_commands'[q] = RemoveAt(new_commands[cur], idx)
        BY <1>0, <3>1, <3>3 DEF TypeOK
      <4>6. QED
        BY <4>1, <4>2, <4>4, <4>5 DEF NewList
    <3>4. CASE q # cur
      <4>1. e \notin IdleOf(q) /\ new_commands'[q] = new_commands[q]
        BY <1>0, <2>1, <3>1, <3>4 DEF TypeOK, IdleOf, Of
      <4>2. \A d \in IdleOf(q) : op'[d] = op[d]
        BY <3>2, <4>1 DEF IdleOf, Of
      <4>3. QED
        BY <1>idle, <1>same, <4>1, <4>2
    <3>5. QED
      BY <3>3, <3>4
  <2>4. QED
    BY <2>2, <2>3
<1>4. CASE SubmitInOrder
  <2> DEFINE e == inorder[cur][idx]
  <2>1. cur \in InOrder /\ e \in Commands /\ QueueOf(e) = cur
    BY <1>4, InOrderNext DEF Of
  <2>2. UNCHANGED new_commands
    BY <1>4 DEF SubmitInOrder
  <2>3. SubmitCommand(e) \/ UNCHANGED op
    BY <1>4 DEF SubmitInOrder
  <2>4. \A d \in Commands \ {e} : op'[d] = op[d]
    BY <1>0, <2>3 DEF TypeOK, SubmitCommand
  <2>5. CASE q = cur
    BY <1>same, <2>1, <2>2, <2>5
  <2>6. CASE q # cur
    BY <1>idle, <1>same, <2>1, <2>2, <2>4, <2>6 DEF IdleOf, Of
  <2>7. QED
    BY <2>5, <2>6
<1>5. CASE ForgetUserEvents
  <2>1. UNCHANGED op /\ new_commands'[q] \in {<<>>, new_commands[q]}
    BY <1>0, <1>5 DEF TypeOK, ForgetUserEvents
  <2>2. CASE new_commands'[q] = <<>>
    <3>1. <<>> \in Seq(IdleOf(q)') /\ IsInjective(<<>>)
      BY EmptySeq DEF IsInjective
    <3>2. QED
      BY <2>2, <3>1 DEF NewList
  <2>3. QED
    BY <1>idle, <1>same, <2>1, <2>2
<1>6. CASE Quiet
  BY <1>6, <1>idle, <1>same, QuietChange
<1>7. ASSUME NEW e \in Commands,
             Release(e) \/ \E s \in UserStatuses : SetUserEventStatus(e, s)
      PROVE  NewList(q)'
  BY <1>7, <1>idle, <1>same DEF Release, SetUserEventStatus
<1>8. CASE PopCompleted \/ PopInOrder
  BY <1>8, <1>idle, <1>same DEF PopCompleted, PopInOrder
<1>9. QED
  BY <1>1, <1>2, <1>3, <1>4, <1>5, <1>6, <1>7, <1>8, NextCases

(* The set of events in an out-of-order queue, and its last barrier. *)
LEMMA CommandSetStep ==
    ASSUME IInv, [Next]_vars, NEW q \in Queues
    PROVE  CommandSet(q)'
<1>0. TypeOK /\ CommandSet(q)
  BY DEF IInv, ListsInv
<1> USE DEF objects, queues, device, control
<1>same. ASSUME commands'[q] = commands[q], last_barrier'[q] = last_barrier[q],
                \A d \in commands[q] : life'[d] = "live" /\ ~popped'[d]
         PROVE  CommandSet(q)'
  <2>1. commands[q] \subseteq LiveOf(q)'
    BY <1>0, <1>same DEF CommandSet, LiveOf, Of, QueueOf
  <2>2. QED
    BY <1>0, <1>same, <2>1 DEF CommandSet
<1>live. \A d \in commands[q] :
            d \in Commands /\ life[d] = "live" /\ ~popped[d] /\ QueueOf(d) = q
  BY <1>0 DEF CommandSet, LiveOf, Of
<1>1. ASSUME NEW e \in Commands, Enqueue(e) PROVE CommandSet(q)'
  <2>1. /\ life[e] = "new" /\ life' = [life EXCEPT ![e] = "live"]
        /\ UNCHANGED popped
    BY <1>1 DEF Enqueue, Enqueueable
  <2>2. ~popped[e]
    BY <2>1 DEF IInv, LifeInv
  <2>3. \A d \in commands[q] \cup {e} : life'[d] = "live" /\ ~popped'[d]
    BY <1>0, <1>live, <2>1, <2>2 DEF TypeOK
  <2>4. CASE q = QueueOf(e) /\ q \notin InOrder
    <3>1. commands'[q] = commands[q] \cup {e}
      BY <1>0, <1>1, <2>4 DEF TypeOK, Enqueue
    <3>2. last_barrier'[q] \in {last_barrier[q], e}
      BY <1>0, <1>1, <2>4 DEF TypeOK, Enqueue
    <3>3. commands'[q] \subseteq LiveOf(q)'
      BY <1>live, <2>3, <2>4, <3>1 DEF LiveOf, Of, QueueOf
    <3>4. QED
      BY <1>0, <2>4, <3>1, <3>2, <3>3 DEF CommandSet
  <2>5. CASE ~(q = QueueOf(e) /\ q \notin InOrder)
    <3>1. commands'[q] = commands[q] /\ last_barrier'[q] = last_barrier[q]
      BY <1>0, <1>1, <2>5 DEF TypeOK, Enqueue
    <3>2. QED
      BY <1>same, <2>3, <3>1
  <2>6. QED
    BY <2>4, <2>5
<1>2. ASSUME NEW e \in Commands, Release(e) PROVE CommandSet(q)'
  <2>1. /\ commands'[q] = commands[q] /\ last_barrier'[q] = last_barrier[q]
        /\ UNCHANGED popped
    BY <1>2 DEF Release
  <2>2. \A d \in Commands : life'[d] = life[d] \/ (d = e /\ popped[e])
    BY <1>0, <1>2 DEF TypeOK, Release
  <2>3. QED
    BY <1>same, <1>live, <2>1, <2>2
<1>3. CASE PopCompleted
  <2> DEFINE e == Head(completed[cur])
  <2>1. e \in Commands /\ cur \in Queues /\ cur \notin InOrder /\ QueueOf(e) = cur
    BY <1>3, CompletedHead DEF DoneOf, Of
  <2>2. /\ commands' = [commands EXCEPT ![cur] = commands[cur] \ {e}]
        /\ last_barrier' = BarrierAfter(e)
        /\ popped' = [popped EXCEPT ![e] = TRUE]
        /\ life' \in {life, LifeAfter(e)}
    BY <1>3 DEF PopCompleted
  <2> HIDE DEF e
  <2>3. \A d \in Commands \ {e} : life'[d] = life[d] /\ popped'[d] = popped[d]
    BY <1>0, <2>1, <2>2 DEF TypeOK, LifeAfter
  <2>4. CASE q = cur
    <3>1. commands'[q] = commands[q] \ {e}
      BY <1>0, <2>2, <2>4 DEF TypeOK
    <3>2. \/ last_barrier'[q] = None
          \/ last_barrier'[q] = last_barrier[q] /\ last_barrier[q] # e
      BY <1>0, <2>1, <2>2, <2>4 DEF TypeOK, BarrierAfter
    <3>3. commands'[q] \subseteq LiveOf(q)'
      BY <1>live, <2>3, <3>1 DEF LiveOf, Of, QueueOf
    <3>4. QED
      BY <1>0, <2>1, <2>4, <3>1, <3>2, <3>3 DEF CommandSet
  <2>5. CASE q # cur
    <3>1. commands'[q] = commands[q]
      BY <1>0, <2>2, <2>5 DEF TypeOK
    <3>2. last_barrier'[q] = last_barrier[q]
      BY <1>0, <2>1, <2>2, <2>5 DEF TypeOK, BarrierAfter
    <3>3. e \notin commands[q]
      BY <1>live, <2>1, <2>5
    <3>4. QED
      BY <1>same, <1>live, <2>3, <3>1, <3>2, <3>3
  <2>6. QED
    BY <2>4, <2>5
<1>4. CASE PopInOrder
  <2> DEFINE e == inorder[cur][idx]
  <2>1. e \in Commands /\ cur \in InOrder /\ QueueOf(e) = cur
    BY <1>4, InOrderNext DEF Of
  <2>2. /\ life' \in {life, LifeAfter(e)}
        /\ popped' \in {popped, [popped EXCEPT ![e] = TRUE]}
        /\ UNCHANGED <<commands, last_barrier>>
    BY <1>4 DEF PopInOrder
  <2> HIDE DEF e
  <2>3. \A d \in Commands \ {e} : life'[d] = life[d] /\ popped'[d] = popped[d]
    BY <1>0, <2>1, <2>2 DEF TypeOK, LifeAfter
  <2>4. e \notin commands[q]
    BY <1>0, <1>live, <2>1 DEF CommandSet
  <2>5. QED
    BY <1>same, <1>live, <2>2, <2>3, <2>4
<1>5. CASE Quiet
  BY <1>5, <1>same, <1>live, QuietChange
<1>6. ASSUME NEW e \in Commands,
             \/ Start(e) \/ Run(e) \/ End(e)
             \/ \E s \in UserStatuses : SetUserEventStatus(e, s)
      PROVE  CommandSet(q)'
  BY <1>6, <1>same, <1>live DEF Start, Run, End, SetUserEventStatus
<1>7. CASE SubmitOutOfOrder \/ SubmitInOrder \/ ForgetUserEvents
  <2>1. UNCHANGED <<life, popped, commands, last_barrier>>
    BY <1>7 DEF SubmitOutOfOrder, SubmitInOrder, ForgetUserEvents, SubmitCommand
  <2>2. QED
    BY <1>same, <1>live, <2>1
<1>8. QED
  BY <1>1, <1>2, <1>3, <1>4, <1>5, <1>6, <1>7, NextCases

----------------------------------------------------------------------------
(* Dependencies. *)
LEMMA ArcsStep ==
    ASSUME IInv, [Next]_vars
    PROVE  ArcsInv'
<1>0. TypeOK /\ ArcsInv
  BY DEF IInv
<1> USE DEF objects, queues, device, control
<1>fewer. ASSUME \A d \in Commands : deps'[d] \subseteq deps[d],
                 \A d \in Commands :
                   \/ life[d] = "live" => life'[d] = "live"
                   \/ deps'[d] = {} /\ \A c \in Commands : d \notin deps'[c]
          PROVE  ArcsInv'
  <2> SUFFICES ASSUME NEW d \in Commands, NEW p \in deps'[d]
               PROVE  life'[d] = "live" /\ life'[p] = "live"
    BY DEF ArcsInv
  <2>1. p \in Commands /\ life[d] = "live" /\ life[p] = "live"
    BY <1>0, <1>fewer DEF TypeOK, ArcsInv
  <2>2. QED
    BY <1>fewer, <2>1
<1>1. ASSUME NEW e \in Commands, Enqueue(e) PROVE ArcsInv'
  <2>1. /\ life[e] = "new" /\ life' = [life EXCEPT ![e] = "live"]
        /\ deps' = [deps EXCEPT ![e] = DependsOn(e)]
    BY <1>1 DEF Enqueue, Enqueueable
  <2>2. \A p \in DependsOn(e) : p \in Commands /\ life[p] = "live"
    <3>0. QueueOf(e) \in Queues /\ Command[e].waits \subseteq Commands
      BY CommandFacts
    <3>1. \A p \in commands[QueueOf(e)] : p \in Commands /\ life[p] = "live"
      BY <3>0 DEF IInv, ListsInv, CommandSet, LiveOf, Of
    <3>2. \A p \in Command[e].waits : p \in Commands /\ life[p] = "live"
      BY <1>1, <3>0 DEF Enqueue, Enqueueable
    <3>3. \A p \in LastBarrier(e) : p \in Commands /\ life[p] = "live"
      <4>1. LastBarrier(e) \subseteq commands[QueueOf(e)]
        BY <3>0 DEF IInv, ListsInv, CommandSet, LastBarrier
      <4>2. QED
        BY <3>1, <4>1
    <3>4. QED
      BY <3>1, <3>2, <3>3 DEF DependsOn, Unfinished, Barrier, WaitList
  <2>3. \A d \in Commands : life[d] = "live" => life'[d] = "live"
    BY <1>0, <2>1 DEF TypeOK
  <2> SUFFICES ASSUME NEW d \in Commands, NEW p \in deps'[d]
               PROVE  life'[d] = "live" /\ life'[p] = "live"
    BY DEF ArcsInv
  <2>4. CASE d = e
    BY <1>0, <2>1, <2>2, <2>3, <2>4 DEF TypeOK
  <2>5. CASE d # e
    <3>1. p \in deps[d]
      BY <1>0, <2>1, <2>5 DEF TypeOK
    <3>2. p \in Commands /\ life[d] = "live" /\ life[p] = "live"
      BY <1>0, <3>1 DEF TypeOK, ArcsInv
    <3>3. QED
      BY <2>3, <3>2
  <2>6. QED
    BY <2>4, <2>5
<1>2. ASSUME NEW e \in Commands, Release(e) PROVE ArcsInv'
  <2>1. UNCHANGED deps
    BY <1>2 DEF Release
  <2>2. \/ life' = life
        \/ /\ deps[e] = {} /\ Dependents(e) = {}
           /\ life' = [life EXCEPT ![e] = "freed"]
    <3>1. CASE popped[e] /\ ~Alive(e)
      BY <1>2, <3>1 DEF Release, Alive
    <3>2. CASE ~(popped[e] /\ ~Alive(e))
      BY <1>2, <3>2 DEF Release
    <3>3. QED
      BY <3>1, <3>2
  <2>3. \A d \in Commands :
          \/ life'[d] = life[d]
          \/ (deps[d] = {} /\ \A c \in Commands : d \notin deps[c])
    BY <1>0, <2>2 DEF TypeOK, Dependents
  <2>4. QED
    BY <1>fewer, <2>1, <2>3
<1>leave. ASSUME NEW e \in Commands, deps' = WithoutParent(e),
                 life' = life \/ (deps[e] = {} /\ life' = LifeAfter(e))
          PROVE  ArcsInv'
  <2>1. \A d \in Commands : deps'[d] = deps[d] \ {e}
    BY <1>leave DEF WithoutParent
  <2>2. \A d \in Commands \ {e} : life'[d] = life[d]
    BY <1>0, <1>leave DEF TypeOK, LifeAfter
  <2>3. UNCHANGED life \/ deps'[e] = {}
    BY <1>leave, <2>1
  <2>4. QED
    BY <1>fewer, <2>1, <2>2, <2>3
<1>3. CASE PopCompleted
  <2> DEFINE e == Head(completed[cur])
  <2>1. e \in Commands
    BY <1>3, CompletedHead DEF DoneOf, Of
  <2>2. deps' = WithoutParent(e)
    BY <1>3 DEF PopCompleted
  <2>3. deps[e] = {} => life' \in {life, LifeAfter(e)}
    BY <1>3 DEF PopCompleted
  <2>4. deps[e] # {} => life' = life
    BY <1>3 DEF PopCompleted
  <2>5. QED
    BY <1>leave, <2>1, <2>2, <2>3, <2>4
<1>4. CASE PopInOrder
  <2> DEFINE e == inorder[cur][idx]
  <2>1. e \in Commands
    BY <1>4, InOrderNext DEF Of
  <2>2. deps' = WithoutParent(e)
    BY <1>4 DEF PopInOrder
  <2>3. deps[e] = {} => life' \in {life, LifeAfter(e)}
    BY <1>4 DEF PopInOrder
  <2>4. deps[e] # {} => life' = life
    BY <1>4 DEF PopInOrder
  <2>5. QED
    BY <1>leave, <2>1, <2>2, <2>3, <2>4
<1>5. CASE SubmitOutOfOrder
  <2> DEFINE e == new_commands[cur][idx]
  <2>1. UNCHANGED deps \/ deps' = [deps EXCEPT ![e] = {}]
    BY <1>5 DEF SubmitOutOfOrder
  <2>2. UNCHANGED life
    BY <1>5 DEF SubmitOutOfOrder, SubmitCommand
  <2>3. \A d \in Commands : deps'[d] \subseteq deps[d]
    BY <1>0, <2>1 DEF TypeOK
  <2>4. QED
    BY <1>fewer, <2>2, <2>3
<1>6. CASE Quiet
  BY <1>6, <1>fewer, QuietChange
<1>7. ASSUME NEW e \in Commands,
             \/ Start(e) \/ Run(e) \/ End(e)
             \/ \E s \in UserStatuses : SetUserEventStatus(e, s)
      PROVE  ArcsInv'
  BY <1>7, <1>fewer DEF Start, Run, End, SetUserEventStatus
<1>8. CASE SubmitInOrder \/ ForgetUserEvents
  <2>1. UNCHANGED <<life, deps>>
    BY <1>8 DEF SubmitInOrder, ForgetUserEvents, SubmitCommand
  <2>2. QED
    BY <1>fewer, <2>1
<1>9. QED
  BY <1>1, <1>2, <1>3, <1>4, <1>5, <1>6, <1>7, <1>8, NextCases

(* Device operations. *)
HasOperation(e) ==
    /\ life[e] # "new" /\ Command[e].kind \notin {"user", "sync"}
    /\ op[e] # COMPLETE => ~Done(e)
    /\ \A p \in deps[e] : IsKernel(p)

LEMMA OpStep ==
    ASSUME IInv, [Next]_vars
    PROVE  OpInv'
<1> SUFFICES ASSUME NEW d \in Commands, op'[d] # None PROVE HasOperation(d)'
  BY DEF OpInv, HasOperation
<1>0. TypeOK
  BY DEF IInv
<1>has. op[d] # None => HasOperation(d)
  BY DEF IInv, OpInv, HasOperation
<1>same. ASSUME op'[d] = op[d], status'[d] = status[d],
                deps'[d] \subseteq deps[d]
         PROVE  HasOperation(d)'
  BY <1>has, <1>same, Persistence DEF HasOperation, Done, IsKernel
<1> USE DEF objects, queues, device, control
<1>1. ASSUME NEW e \in Commands, Enqueue(e) PROVE HasOperation(d)'
  <2>1. life[e] = "new" /\ UNCHANGED op
    BY <1>1 DEF Enqueue, Enqueueable
  <2>2. d # e
    BY <2>1 DEF IInv, LifeInv
  <2>3. status'[d] = status[d] /\ deps'[d] = deps[d]
    BY <1>0, <1>1, <2>2 DEF TypeOK, Enqueue
  <2>4. QED
    BY <1>same, <2>1, <2>3
<1>2. ASSUME NEW e \in Commands, NEW s \in UserStatuses, SetUserEventStatus(e, s)
      PROVE  HasOperation(d)'
  <2>1. UNCHANGED <<op, deps>> /\ Command[e].kind = "user"
    BY <1>2 DEF SetUserEventStatus
  <2>2. d # e
    BY <1>has, <2>1 DEF HasOperation
  <2>3. status'[d] = status[d]
    BY <1>0, <1>2, <2>2 DEF TypeOK, SetUserEventStatus
  <2>4. QED
    BY <1>same, <2>1, <2>3
<1>3. ASSUME NEW e \in Commands, Start(e) \/ Run(e) \/ End(e)
      PROVE  HasOperation(d)'
  <2>1. UNCHANGED <<life, deps>>
    BY <1>3 DEF Start, Run, End
  <2>2. PICK s, t :
          /\ status' = [status EXCEPT ![e] = s] /\ op' = [op EXCEPT ![e] = t]
          /\ t = COMPLETE \/ (t = s /\ s \in {SUBMITTED, RUNNING})
    <3>1. CASE Start(e)
      BY <3>1 DEF Start
    <3>2. CASE Run(e)
      BY <3>2 DEF Run
    <3>3. CASE End(e)
      <4>1. PICK s \in {COMPLETE, FAILED} : status' = [status EXCEPT ![e] = s]
        BY <3>3 DEF End
      <4>2. op' = [op EXCEPT ![e] = COMPLETE]
        BY <3>3 DEF End
      <4>3. QED
        BY <4>1, <4>2
    <3>4. QED
      BY <1>3, <3>1, <3>2, <3>3
  <2>3. CASE d = e
    <3>1. op[d] # None
      BY <1>3, <2>3, NoneFacts
      DEF Start, Run, End, QUEUED, SUBMITTED, RUNNING, COMPLETE
    <3>2. op'[d] = t /\ status'[d] = s
      BY <1>0, <2>2, <2>3 DEF TypeOK
    <3>3. op'[d] # COMPLETE => ~Done(d)'
      BY <2>2, <3>2 DEF Done, SUBMITTED, RUNNING, COMPLETE
    <3>4. QED
      BY <1>has, <2>1, <3>1, <3>3 DEF HasOperation, IsKernel
  <2>4. CASE d # e
    <3>1. op'[d] = op[d] /\ status'[d] = status[d]
      BY <1>0, <2>2, <2>4 DEF TypeOK
    <3>2. QED
      BY <1>same, <2>1, <3>1
  <2>5. QED
    BY <2>3, <2>4
<1>4. CASE PopCompleted
  <2> DEFINE e == Head(completed[cur])
  <2>1. e \in Commands
    BY <1>4, CompletedHead DEF DoneOf, Of
  <2>2. /\ UNCHANGED op /\ deps' = WithoutParent(e)
        /\ status'[d] = IF d \in Terminated(e) THEN status[e] ELSE status[d]
    BY <1>4 DEF PopCompleted
  <2>3. d \notin Terminated(e)
    <3>1. d \in Terminated(e) => e \in deps[d] /\ Command[e].kind = "user"
      BY <2>1, TerminatedFacts
    <3> HIDE DEF e
    <3>2. QED
      BY <1>has, <2>2, <3>1 DEF HasOperation, IsKernel
  <2>4. deps'[d] \subseteq deps[d]
    BY <2>2 DEF WithoutParent
  <2>5. QED
    BY <1>same, <2>2, <2>3, <2>4
<1>5. CASE PopInOrder
  <2>1. UNCHANGED <<op, status>> /\ \E e : deps' = WithoutParent(e)
    BY <1>5 DEF PopInOrder
  <2>2. deps'[d] \subseteq deps[d]
    BY <2>1 DEF WithoutParent
  <2>3. QED
    BY <1>same, <2>1, <2>2
<1>submit. ASSUME NEW e \in Commands, SubmitCommand(e), op[e] = None,
                  life[e] # "new", Command[e].kind # "user",
                  \A c \in Commands : deps'[c] \subseteq deps[c],
                  \A p \in deps'[e] : IsKernel(p)
           PROVE  HasOperation(d)'
  <2>1. CASE d # e
    <3>1. op'[d] = op[d] /\ status'[d] = status[d]
      BY <1>0, <1>submit, <2>1 DEF TypeOK, SubmitCommand
    <3>2. QED
      BY <1>same, <1>submit, <3>1
  <2>2. CASE d = e
    <3>1. status[e] = QUEUED /\ Command[e].kind # "sync"
      BY <1>submit, <2>2 DEF SubmitCommand
    <3>2. UNCHANGED status
      BY <1>submit, <3>1 DEF SubmitCommand
    <3>3. ~Done(e)'
      BY <3>1, <3>2 DEF Done, QUEUED, COMPLETE
    <3>4. life'[e] # "new"
      BY <1>submit, Persistence
    <3>5. QED
      BY <1>submit, <2>2, <3>1, <3>3, <3>4 DEF HasOperation, IsKernel
  <2>3. QED
    BY <2>1, <2>2
<1>6. CASE SubmitOutOfOrder
  <2> DEFINE e == new_commands[cur][idx]
  <2>1. /\ e \in Commands /\ op[e] = None /\ life[e] # "new"
        /\ QueueOf(e) = cur /\ cur # UserQueue
    BY <1>6, NewNext DEF IdleOf, Of
  <2>2. Command[e].kind # "user"
    BY <2>1, CommandFacts
  <2>3. CASE ReadyOutOfOrder(e) /\ SubmitSucceeds(e)
    <3>1. SubmitCommand(e) /\ deps' = [deps EXCEPT ![e] = {}]
      BY <1>6, <2>3 DEF SubmitOutOfOrder
    <3> HIDE DEF e
    <3>2. deps'[e] = {} /\ \A c \in Commands : deps'[c] \subseteq deps[c]
      BY <1>0, <2>1, <3>1 DEF TypeOK
    <3>3. QED
      BY <1>submit, <2>1, <2>2, <3>1, <3>2
  <2>4. CASE ~(ReadyOutOfOrder(e) /\ SubmitSucceeds(e))
    <3>1. UNCHANGED <<op, status, deps>>
      BY <1>6, <2>4 DEF SubmitOutOfOrder
    <3>2. QED
      BY <1>same, <3>1
  <2>5. QED
    BY <2>3, <2>4
<1>7. CASE SubmitInOrder
  <2> DEFINE e == inorder[cur][idx]
             submits == /\ ~(status[e] # QUEUED \/ on_doq[e])
                        /\ ReadyInOrder(idx) /\ SubmitSucceeds(e)
  <2>1. /\ e \in Commands /\ life[e] # "new"
        /\ QueueOf(e) = cur /\ cur # UserQueue
    BY <1>7, InOrderNext, QueueFacts DEF Of
  <2>2. Command[e].kind # "user"
    BY <2>1, CommandFacts
  <2>3. UNCHANGED deps
    BY <1>7 DEF SubmitInOrder
  <2>4. CASE submits
    <3>1. SubmitCommand(e)
      BY <1>7, <2>4 DEF SubmitInOrder
    <3>2. \A p \in deps[e] : IsKernel(p)
      BY <2>4 DEF ReadyInOrder, ParentsLaunched, SameKernel
    <3>3. CASE op[e] = None
      BY <1>submit, <2>1, <2>2, <2>3, <3>1, <3>2, <3>3
    <3>4. CASE op[e] # None
      <4>1. HasOperation(e)
        BY <2>1, <3>4 DEF IInv, OpInv, HasOperation
      <4>2. status[e] = QUEUED /\ Command[e].kind # "sync"
        BY <2>4, <4>1 DEF HasOperation
      <4>3. UNCHANGED status /\ op' = [op EXCEPT ![e] = QUEUED]
        BY <3>1, <4>2 DEF SubmitCommand
      <4>4. CASE d = e
        <5>1. ~Done(d)'
          BY <4>2, <4>3, <4>4 DEF Done, QUEUED, COMPLETE
        <5>2. life'[d] # "new"
          BY <2>1, <4>4, Persistence
        <5>3. QED
          BY <2>3, <4>1, <4>4, <5>1, <5>2 DEF HasOperation, IsKernel
      <4>5. CASE d # e
        <5>1. op'[d] = op[d]
          BY <1>0, <4>3, <4>5 DEF TypeOK
        <5>2. QED
          BY <1>same, <2>3, <4>3, <5>1
      <4>6. QED
        BY <4>4, <4>5
    <3>5. QED
      BY <3>3, <3>4
  <2>5. CASE ~submits
    <3>1. UNCHANGED <<op, status, deps>>
      BY <1>7, <2>5 DEF SubmitInOrder
    <3>2. QED
      BY <1>same, <3>1
  <2>6. QED
    BY <2>4, <2>5
<1>8. CASE Quiet
  BY <1>8, <1>same, QuietChange
<1>9. ASSUME NEW e \in Commands, Release(e) PROVE HasOperation(d)'
  BY <1>9, <1>same DEF Release
<1>10. CASE ForgetUserEvents
  BY <1>10, <1>same DEF ForgetUserEvents
<1>11. QED
  BY <1>1, <1>2, <1>3, <1>4, <1>5, <1>6, <1>7, <1>8, <1>9, <1>10, NextCases

(* Events before and after their life. *)
LEMMA LifeStep ==
    ASSUME IInv, [Next]_vars
    PROVE  LifeInv'
<1> SUFFICES ASSUME NEW d \in Commands
             PROVE  /\ life'[d] = "new" => op'[d] = None /\ ~popped'[d]
                    /\ life'[d] = "freed" => Done(d)'
  BY DEF LifeInv
<1> DEFINE goal == /\ life'[d] = "new" => op'[d] = None /\ ~popped'[d]
                   /\ life'[d] = "freed" => Done(d)'
<1> SUFFICES goal
  OBVIOUS
<1>0. TypeOK
  BY DEF IInv
<1>1. life[d] = "freed" => Done(d)'
  BY Persistence DEF IInv, LifeInv
<1>2. life'[d] = "new" => life[d] = "new" /\ op[d] = None /\ ~popped[d]
  BY Persistence DEF IInv, LifeInv
<1>same. ASSUME life'[d] = life[d] \/ life'[d] # "freed" \/ Done(d)',
                life[d] = "new" => op'[d] = op[d] /\ popped'[d] = popped[d]
         PROVE  goal
  BY <1>same, <1>1, <1>2
<1> HIDE DEF goal
<1> USE DEF objects, queues, device, control
<1>3. ASSUME NEW e \in Commands, Enqueue(e) PROVE goal
  <2>1. /\ life' = [life EXCEPT ![e] = "live"]
        /\ UNCHANGED <<op, popped>>
    BY <1>3 DEF Enqueue
  <2>2. life'[d] = life[d] \/ life'[d] # "freed"
    BY <1>0, <2>1 DEF TypeOK
  <2>3. QED
    BY <1>same, <2>1, <2>2
<1>4. ASSUME NEW e \in Commands, Release(e) PROVE goal
  <2>1. UNCHANGED <<op, popped, status>>
    BY <1>4 DEF Release
  <2>2. Done(e) \/ life' = life
    BY <1>4 DEF Release, Alive
  <2>3. \A c \in Commands \ {e} : life'[c] = life[c]
    BY <1>0, <1>4 DEF TypeOK, Release
  <2>4. life'[d] = life[d] \/ Done(d)'
    BY <2>1, <2>2, <2>3 DEF Done
  <2>5. QED
    BY <1>same, <2>1, <2>4
<1>5. ASSUME NEW e \in Commands, Start(e) \/ Run(e) \/ End(e) PROVE goal
  <2>1. UNCHANGED <<life, popped>> /\ op[e] # None
    BY <1>5, NoneFacts DEF Start, Run, End, QUEUED, SUBMITTED, RUNNING, COMPLETE
  <2>2. \A c \in Commands \ {e} : op'[c] = op[c]
    BY <1>0, <1>5 DEF TypeOK, Start, Run, End
  <2>3. life[d] = "new" => d # e
    BY <2>1 DEF IInv, LifeInv
  <2>4. QED
    BY <1>same, <2>1, <2>2, <2>3
<1>leave. ASSUME NEW e \in Commands, life[e] # "new", Done(e), UNCHANGED op,
                 life' \in {life, LifeAfter(e)},
                 popped' \in {popped, [popped EXCEPT ![e] = TRUE]}
          PROVE  goal
  <2>1. Done(e)'
    BY <1>leave, Persistence
  <2>2. \A c \in Commands \ {e} : life'[c] = life[c] /\ popped'[c] = popped[c]
    BY <1>0, <1>leave DEF TypeOK, LifeAfter
  <2>3. QED
    BY <1>leave, <1>same, <2>1, <2>2
<1>6. CASE PopCompleted
  <2> DEFINE e == Head(completed[cur])
  <2>1. e \in Commands /\ life[e] # "new" /\ Done(e)
    BY <1>6, CompletedHead DEF DoneOf, Of
  <2>2. /\ UNCHANGED op /\ life' \in {life, LifeAfter(e)}
        /\ popped' \in {popped, [popped EXCEPT ![e] = TRUE]}
    BY <1>6 DEF PopCompleted
  <2> HIDE DEF e
  <2>3. QED
    BY <1>leave, <2>1, <2>2
<1>7. CASE PopInOrder
  <2> DEFINE e == inorder[cur][idx]
  <2>1. e \in Commands /\ life[e] # "new" /\ Done(e)
    BY <1>7, InOrderNext DEF Of, PopInOrder, DoneAt
  <2>2. /\ UNCHANGED op /\ life' \in {life, LifeAfter(e)}
        /\ popped' \in {popped, [popped EXCEPT ![e] = TRUE]}
    BY <1>7 DEF PopInOrder
  <2> HIDE DEF e
  <2>3. QED
    BY <1>leave, <2>1, <2>2
<1>8. CASE SubmitOutOfOrder \/ SubmitInOrder
  <2>1. PICK e \in Commands : /\ life[e] # "new"
                              /\ UNCHANGED op \/ SubmitCommand(e)
    <3>1. CASE SubmitOutOfOrder
      BY <3>1, NewNext DEF SubmitOutOfOrder, IdleOf, Of
    <3>2. CASE SubmitInOrder
      BY <3>2, InOrderNext DEF SubmitInOrder, Of
    <3>3. QED
      BY <1>8, <3>1, <3>2
  <2>2. UNCHANGED <<life, popped>>
    BY <1>8 DEF SubmitOutOfOrder, SubmitInOrder, SubmitCommand
  <2>3. \A c \in Commands \ {e} : op'[c] = op[c]
    BY <1>0, <2>1 DEF TypeOK, SubmitCommand
  <2>4. QED
    BY <1>same, <2>1, <2>2, <2>3
<1>9. CASE Quiet
  BY <1>9, <1>same, QuietChange
<1>10. ASSUME NEW e \in Commands, NEW s \in UserStatuses, SetUserEventStatus(e, s)
       PROVE  goal
  BY <1>10, <1>same DEF SetUserEventStatus
<1>11. CASE ForgetUserEvents
  BY <1>11, <1>same DEF ForgetUserEvents
<1>12. QED
  BY <1>3, <1>4, <1>5, <1>6, <1>7, <1>8, <1>9, <1>10, <1>11, NextCases

(* A command that was taken from its queue is not queued again.            *)
LEMMA NeverAgainQueued ==
    ASSUME IInv, [Next]_vars, NEW d \in Commands,
           life[d] # "new", status[d] # QUEUED
    PROVE  status'[d] # QUEUED
<1>0. TypeOK
  BY DEF IInv
<1> USE DEF objects, queues, device, control
<1>1. CASE Quiet
  BY <1>1, QuietChange
<1>2. ASSUME NEW e \in Commands, Enqueue(e) PROVE status'[d] # QUEUED
  BY <1>0, <1>2 DEF TypeOK, Enqueue, Enqueueable
<1>3. ASSUME NEW e \in Commands, Release(e) PROVE status'[d] # QUEUED
  BY <1>3 DEF Release
<1>4. ASSUME NEW e \in Commands, NEW s \in UserStatuses, SetUserEventStatus(e, s)
      PROVE  status'[d] # QUEUED
  BY <1>0, <1>4, StatusAssumption
  DEF TypeOK, SetUserEventStatus, COMPLETE, QUEUED
<1>5. ASSUME NEW e \in Commands, Start(e) \/ Run(e) \/ End(e)
      PROVE  status'[d] # QUEUED
  <2>1. PICK s \in {SUBMITTED, RUNNING, COMPLETE, FAILED} :
          status' = [status EXCEPT ![e] = s]
    BY <1>5 DEF Start, Run, End
  <2>2. QED
    BY <1>0, <2>1 DEF TypeOK, QUEUED, SUBMITTED, RUNNING, COMPLETE, FAILED
<1>6. CASE PopCompleted
  <2> DEFINE e == Head(completed[cur])
  <2>1. e \in Commands
    BY <1>6, CompletedHead DEF DoneOf, Of
  <2>2. status'[d] = IF d \in Terminated(e) THEN status[e] ELSE status[d]
    BY <1>6 DEF PopCompleted
  <2>3. d \in Terminated(e) => status[e] < 0 /\ status[e] \in Int
    BY <1>0, <2>1, TerminatedFacts, StatusIsInt
  <2>4. QED
    BY <2>2, <2>3 DEF QUEUED
<1>7. CASE PopInOrder \/ ForgetUserEvents
  BY <1>7 DEF PopInOrder, ForgetUserEvents
<1>8. CASE SubmitOutOfOrder \/ SubmitInOrder
  <2>1. UNCHANGED status \/ \E e : SubmitCommand(e)
    BY <1>8 DEF SubmitOutOfOrder, SubmitInOrder
  <2>2. status'[d] = status[d] \/ status'[d] \in {COMPLETE, FAILED}
    BY <1>0, <2>1 DEF TypeOK, SubmitCommand
  <2>3. QED
    BY <2>2 DEF QUEUED, COMPLETE, FAILED
<1>9. QED
  BY <1>1, <1>2, <1>3, <1>4, <1>5, <1>6, <1>7, <1>8, NextCases

(* The kernels on an accelerator. *)
InRing(e) ==
    \E k \in 1..Len(ring[Command[e].accel]) : ring[Command[e].accel][k] = e
Placed(e) ==
    /\ op[e] \in {SUBMITTED, RUNNING} => InRing(e)
    /\ e \in ended => op[e] = RUNNING /\ Head(ring[Command[e].accel]) = e
    /\ op[e] = RUNNING => status[e] # QUEUED

LEMMA RingStep ==
    ASSUME IInv, [Next]_vars
    PROVE  RingInv'
<1> SUFFICES ASSUME NEW d \in Commands, IsKernel(d) PROVE Placed(d)'
  BY DEF RingInv, Placed, InRing, IsKernel
<1>0. TypeOK
  BY DEF IInv
<1>1. \A e \in Commands : IsKernel(e) => Placed(e)
  BY DEF IInv, RingInv, Placed, InRing
<1> DEFINE a == Command[d].accel
<1>2. a \in Accels /\ ring[a] \in Seq(Commands)
  BY <1>0, CommandFacts DEF TypeOK
<1>waits. op[d] = RUNNING => status'[d] # QUEUED
  <2>1. op[d] = RUNNING => life[d] # "new" /\ status[d] # QUEUED
    BY <1>1, NoneFacts DEF Placed, IInv, LifeInv, RUNNING, COMPLETE, QUEUED
  <2>2. QED
    BY <2>1, NeverAgainQueued
<1>same. ASSUME \/ op'[d] = op[d]
                \/ op'[d] \notin {SUBMITTED, RUNNING} /\ d \notin ended,
                d \in ended' => d \in ended,
                ring'[a] = ring[a]
         PROVE  Placed(d)'
  <2>1. op'[d] \in {SUBMITTED, RUNNING} => InRing(d)'
    BY <1>1, <1>same DEF Placed, InRing
  <2>2. d \in ended' => op'[d] = RUNNING /\ Head(ring'[a]) = d
    BY <1>1, <1>same DEF Placed
  <2>3. op'[d] = RUNNING => status'[d] # QUEUED
    BY <1>same, <1>waits
  <2>4. QED
    BY <2>1, <2>2, <2>3 DEF Placed
<1> USE DEF objects, queues, device, control
<1>3. ASSUME NEW e \in Commands, Start(e) PROVE Placed(d)'
  <2>1. op' = [op EXCEPT ![e] = SUBMITTED] /\ op[e] = QUEUED /\ UNCHANGED ended
    BY <1>3 DEF Start
  <2>2. CASE ~(IsKernel(e) /\ Command[e].accel = a)
    <3>1. d # e
      BY <2>2
    <3>2. op'[d] = op[d]
      BY <1>0, <2>1, <3>1 DEF TypeOK
    <3>3. ring'[a] = ring[a]
      BY <1>0, <1>2, <1>3, <2>2 DEF TypeOK, Start
    <3>4. QED
      BY <1>same, <2>1, <3>2, <3>3
  <2>3. CASE IsKernel(e) /\ Command[e].accel = a
    <3>1. ring'[a] = Append(ring[a], e)
      BY <1>0, <1>2, <1>3, <2>3 DEF TypeOK, Start
    <3>2. /\ Len(ring'[a]) = Len(ring[a]) + 1 /\ Len(ring[a]) \in Nat
          /\ \A k \in 1..Len(ring[a]) : ring'[a][k] = ring[a][k]
          /\ ring'[a][Len(ring[a]) + 1] = e
      BY <1>2, <3>1, AppendProperties, LenProperties
    <3>3. CASE d = e
      <4>1. op[d] = QUEUED /\ d \notin ended
        BY <1>1, <2>1, <3>3 DEF Placed, QUEUED, RUNNING
      <4>2. InRing(d)'
        BY <3>2, <3>3 DEF InRing
      <4>3. QED
        BY <1>0, <2>1, <3>3, <4>1, <4>2 DEF TypeOK, Placed, SUBMITTED, RUNNING
    <3>4. CASE d # e
      <4>1. op'[d] = op[d]
        BY <1>0, <2>1, <3>4 DEF TypeOK
      <4>2. InRing(d) => InRing(d)'
        BY <3>2, SMTT(40) DEF InRing
      <4>3. InRing(d) => Head(ring'[a]) = Head(ring[a])
        <5>1. InRing(d) => ring[a] # <<>>
          BY <1>2, EmptySeq DEF InRing
        <5>2. QED
          BY <1>2, <3>1, <5>1, HeadTailAppend
      <4>4. QED
        BY <1>1, <1>waits, <2>1, <4>1, <4>2, <4>3 DEF Placed, RUNNING
    <3>5. QED
      BY <3>3, <3>4
  <2>4. QED
    BY <2>2, <2>3
<1>4. ASSUME NEW e \in Commands, Run(e) PROVE Placed(d)'
  <2>1. /\ op' = [op EXCEPT ![e] = RUNNING] /\ UNCHANGED <<ring, ended>>
        /\ op[e] = SUBMITTED
    BY <1>4 DEF Run
  <2>2. CASE d = e
    <3>1. InRing(d) /\ d \notin ended
      BY <1>1, <2>1, <2>2 DEF Placed, SUBMITTED, RUNNING
    <3>2. status'[d] # QUEUED
      BY <1>0, <1>4, <2>2 DEF TypeOK, Run, RUNNING, QUEUED
    <3>3. QED
      BY <2>1, <3>1, <3>2 DEF Placed, InRing
  <2>3. CASE d # e
    <3>1. op'[d] = op[d]
      BY <1>0, <2>1, <2>3 DEF TypeOK
    <3>2. QED
      BY <1>same, <2>1, <3>1
  <2>4. QED
    BY <2>2, <2>3
<1>5. ASSUME NEW e \in Commands, End(e) PROVE Placed(d)'
  <2>1. /\ op' = [op EXCEPT ![e] = COMPLETE] /\ op[e] = RUNNING
        /\ e \in ended /\ ended' = ended \ {e}
    BY <1>5 DEF End
  <2>2. CASE d = e
    <3>1. op'[d] = COMPLETE /\ d \notin ended'
      BY <1>0, <2>1, <2>2 DEF TypeOK
    <3>2. QED
      BY <3>1 DEF Placed, SUBMITTED, RUNNING, COMPLETE
  <2>3. CASE d # e /\ ~(IsKernel(e) /\ Command[e].accel = a)
    <3>1. op'[d] = op[d] /\ (d \in ended' => d \in ended)
      BY <1>0, <2>1, <2>3 DEF TypeOK
    <3>2. ring'[a] = ring[a]
      BY <1>0, <1>2, <1>5, <2>3 DEF TypeOK, End
    <3>3. QED
      BY <1>same, <3>1, <3>2
  <2>4. CASE d # e /\ IsKernel(e) /\ Command[e].accel = a
    <3>1. op'[d] = op[d]
      BY <1>0, <2>1, <2>4 DEF TypeOK
    <3>2. Head(ring[a]) = e /\ ring[a] # <<>>
      <4>1. InRing(e) /\ Head(ring[a]) = e
        BY <1>1, <2>1, <2>4 DEF Placed
      <4>2. QED
        BY <1>2, <2>4, <4>1, EmptySeq DEF InRing
    <3>3. d \notin ended'
      BY <1>1, <2>1, <2>4, <3>2 DEF Placed
    <3>4. ring'[a] = Tail(ring[a])
      BY <1>0, <1>2, <1>5, <2>4 DEF TypeOK, End
    <3>5. /\ Len(ring'[a]) = Len(ring[a]) - 1 /\ Len(ring[a]) \in Nat
          /\ \A k \in 1..Len(ring'[a]) : ring'[a][k] = ring[a][k + 1]
      BY <1>2, <3>2, <3>4, HeadTailProperties, LenProperties
    <3>6. ASSUME InRing(d) PROVE InRing(d)'
      <4>1. PICK k \in 1..Len(ring[a]) : ring[a][k] = d
        BY <3>6 DEF InRing
      <4>2. k # 1
        BY <2>4, <3>2, <4>1
      <4>3. k - 1 \in 1..Len(ring'[a]) /\ ring'[a][k - 1] = d
        BY <3>5, <4>1, <4>2
      <4>4. QED
        BY <4>3 DEF InRing
    <3>7. QED
      BY <1>1, <1>waits, <3>1, <3>3, <3>6 DEF Placed
  <2>5. QED
    BY <2>2, <2>3, <2>4
<1>6. CASE SubmitOutOfOrder \/ SubmitInOrder
  <2>1. UNCHANGED <<ring, ended>>
    BY <1>6 DEF SubmitOutOfOrder, SubmitInOrder
  <2>2. op'[d] = op[d] \/ (op'[d] \notin {SUBMITTED, RUNNING} /\ d \notin ended)
    <3>1. CASE UNCHANGED op
      BY <3>1
    <3>2. CASE ~UNCHANGED op
      <4>1. PICK e \in Commands :
              SubmitCommand(e) /\ (op[e] = None \/ status[e] = QUEUED)
        <5>1. CASE SubmitOutOfOrder
          BY <3>2, <5>1, NewNext DEF SubmitOutOfOrder, IdleOf, Of
        <5>2. CASE SubmitInOrder
          BY <3>2, <5>2, InOrderNext DEF SubmitInOrder, Of
        <5>3. QED
          BY <1>6, <5>1, <5>2
      <4>2. op' = [op EXCEPT ![e] = QUEUED]
        BY <3>2, <4>1 DEF SubmitCommand
      <4>3. op'[d] = op[d] \/ (d = e /\ op'[d] = QUEUED)
        BY <1>0, <4>2 DEF TypeOK
      <4>4. d = e => d \notin ended
        BY <1>1, <4>1, NoneFacts DEF Placed, RUNNING, COMPLETE, QUEUED
      <4>5. QED
        BY <4>3, <4>4 DEF QUEUED, SUBMITTED, RUNNING
    <3>3. QED
      BY <3>1, <3>2
  <2>3. QED
    BY <1>same, <2>1, <2>2
<1>7. CASE Quiet
  <2>1. UNCHANGED <<op, status, ring>>
    BY <1>7, QuietChange
  <2>2. \/ UNCHANGED ended
        \/ \E e \in Commands : /\ op[e] = RUNNING /\ AtHead(e)
                               /\ ended' = ended \cup {e}
    BY <1>7 DEF Quiet, Wake, EndRound, Nudged, Popped, Submitted, UpdateQueue,
                Interrupt, vars
  <2>3. CASE d \in ended' => d \in ended
    BY <1>same, <2>1, <2>3
  <2>4. CASE op[d] = RUNNING /\ AtHead(d)
    <3>1. InRing(d) /\ Head(ring[a]) = d
      BY <1>1, <2>4 DEF Placed, AtHead
    <3>2. QED
      BY <1>waits, <2>1, <2>4, <3>1 DEF Placed, InRing
  <2>5. QED
    BY <2>2, <2>3, <2>4
<1>8. ASSUME NEW e \in Commands,
             \/ Enqueue(e) \/ Release(e)
             \/ \E s \in UserStatuses : SetUserEventStatus(e, s)
      PROVE  Placed(d)'
  BY <1>8, <1>same DEF Enqueue, Release, SetUserEventStatus
<1>9. CASE PopCompleted \/ PopInOrder \/ ForgetUserEvents
  BY <1>9, <1>same DEF PopCompleted, PopInOrder, ForgetUserEvents
<1>10. QED
  BY <1>3, <1>4, <1>5, <1>6, <1>7, <1>8, <1>9, NextCases

----------------------------------------------------------------------------
LEMMA InitInv ==
    ASSUME Init
    PROVE  IInv
<1>1. /\ \A S : <<>> \in Seq(S)
      /\ IsInjective(<<>>)
  BY EmptySeq DEF IsInjective
<1>2. PICK W \in Workloads :
        /\ life = [e \in Commands |-> IF e \in W THEN "new" ELSE "freed"]
        /\ status = [e \in Commands |-> IF e \in W THEN QUEUED ELSE COMPLETE]
  BY DEF Init
<1>3. TypeOK
  <2>1. /\ life \in [Commands -> {"new", "live", "freed"}]
        /\ status \in [Commands -> UserStatuses \cup FAILED..QUEUED]
    BY <1>2 DEF FAILED, COMPLETE, QUEUED
  <2>2. /\ deps \in [Commands -> SUBSET Commands]
        /\ op \in [Commands -> COMPLETE..QUEUED \cup {None}]
        /\ follows \in [Commands -> SUBSET Commands]
    BY DEF Init
  <2>3. /\ on_doq \in [Commands -> BOOLEAN] /\ attached \in [Commands -> BOOLEAN]
        /\ held \in [Commands -> BOOLEAN] /\ popped \in [Commands -> BOOLEAN]
    BY DEF Init
  <2>4. /\ num_commands \in [Queues -> Int] /\ submitted \in [Queues -> Int]
        /\ commands \in [Queues -> SUBSET Commands]
        /\ last_barrier \in [Queues -> Commands \cup {None}]
    BY DEF Init
  <2>5. /\ inorder \in [Queues -> Seq(Commands)]
        /\ new_commands \in [Queues -> Seq(Commands)]
        /\ completed \in [Queues -> Seq(Commands)]
        /\ ring \in [Accels -> Seq(Commands)] /\ ended \subseteq Commands
    BY <1>1 DEF Init
  <2>6. /\ signalled \in BOOLEAN
        /\ at \in {"asleep", "round", "nudge", "pop", "submit"}
        /\ todo \subseteq Queues /\ cur \in Queues /\ idx \in Nat \ {0}
        /\ updates \in BOOLEAN /\ single \in BOOLEAN
    <3>1. signalled \in BOOLEAN /\ updates \in BOOLEAN /\ single \in BOOLEAN
      BY Zenon DEF Init
    <3>2. at = "asleep" /\ todo = {} /\ cur = UserQueue /\ idx = 1
      BY DEF Init
    <3>3. QED
      BY <3>1, <3>2, QueueFacts
  <2>7. QED
    BY <2>1, <2>2, <2>3, <2>4, <2>5, <2>6 DEF TypeOK
<1>4. ListsInv
  BY <1>1
  DEF Init, ListsInv, InOrderList, CompletedList, NewList, CommandSet
<1>5. ArcsInv /\ OpInv
  BY DEF Init, ArcsInv, OpInv
<1>6. RingInv
  BY NoneFacts DEF Init, RingInv, SUBMITTED, RUNNING, QUEUED, COMPLETE
<1>7. LifeInv
  BY <1>2 DEF Init, LifeInv, Done, COMPLETE
<1>8. QED
  BY <1>3, <1>4, <1>5, <1>6, <1>7 DEF IInv

LEMMA NextInv ==
    ASSUME IInv, [Next]_vars
    PROVE  IInv'
<1>1. ListsInv'
  BY InOrderListStep, CompletedListStep, NewListStep, CommandSetStep DEF ListsInv
<1>2. TypeOK'
  BY TypeStep
<1>3. QED
  BY <1>1, <1>2, ArcsStep, OpStep, LifeStep, RingStep DEF IInv

(* The inductive invariant. *)
THEOREM Invariant == Spec => []IInv
BY InitInv, NextInv, PTL DEF Spec

(* Every variable keeps its type: the queues, events and operations the    *)
(* update of acl_command_queue.cpp changes.                                *)
THEOREM TypeCorrect == Spec => []TypeOK
<1>1. IInv => TypeOK
  BY DEF IInv
<1>2. QED
  BY Invariant, <1>1, PTL

(* Nothing names an event that went back to the pool of its context, which *)
(* may use it for another command.                                         *)
THEOREM PoolForgotten == Spec => []FreedIsForgotten
<1>1. ASSUME IInv PROVE FreedIsForgotten
  <2> SUFFICES ASSUME NEW e \in Commands, life[e] = "freed"
               PROVE  /\ deps[e] = {} /\ Dependents(e) = {}
                      /\ \A q \in Queues : e \notin commands[q] /\ last_barrier[q] # e
                      /\ e \notin InUse
    BY DEF FreedIsForgotten
  <2>1. deps[e] = {} /\ Dependents(e) = {}
    BY <1>1 DEF IInv, ArcsInv, Dependents
  <2>2. \A q \in Queues : e \notin commands[q] /\ last_barrier[q] # e
    BY <1>1, NoneFacts DEF IInv, ListsInv, CommandSet, LiveOf
  <2>3. Done(e)
    BY <1>1 DEF IInv, LifeInv
  <2>4. e \notin InUse
    BY <1>1, <2>3, NoneFacts
    DEF IInv, OpInv, InUse, RUNNING, QUEUED, COMPLETE
  <2>5. QED
    BY <2>1, <2>2, <2>4
<1>2. QED
  BY Invariant, <1>1, PTL

(* A kernel whose end was reported is the oldest launch on its             *)
(* accelerator: the state End relies on when it takes the head of the      *)
(* ring.                                                                   *)
THEOREM EndsAtHead == Spec => []RingInv
<1>1. IInv => RingInv
  BY DEF IInv
<1>2. QED
  BY Invariant, <1>1, PTL

----------------------------------------------------------------------------
(* The count of submissions.  A command is on the device operation queue   *)
(* from its submission on, with an operation unless it was a marker, which *)
(* is done at once; one that was popped is done.                           *)
SubmittedInv ==
    \A e \in Commands :
        /\ popped[e] => Done(e)
        /\ life[e] = "new" => ~on_doq[e]
        /\ op[e] # None => on_doq[e]
        /\ on_doq[e] /\ ~Done(e) => op[e] # None

(* The same of one command, to prove it of each.                           *)
WellSubmitted(e) ==
    /\ popped[e] => Done(e)
    /\ life[e] = "new" => ~on_doq[e]
    /\ op[e] # None => on_doq[e]
    /\ on_doq[e] /\ ~Done(e) => op[e] # None

LEMMA SubmittedStep ==
    ASSUME IInv, SubmittedInv, [Next]_vars
    PROVE  SubmittedInv'
<1> SUFFICES ASSUME NEW d \in Commands PROVE WellSubmitted(d)'
  BY DEF SubmittedInv, WellSubmitted
<1>0. TypeOK /\ TypeOK' /\ WellSubmitted(d)
  BY TypeStep DEF IInv, SubmittedInv, WellSubmitted
<1>stays. /\ life[d] # "new" => life'[d] # "new"
          /\ life[d] # "new" /\ Done(d) => Done(d)'
  BY Persistence
<1>new. life[d] = "new" => op[d] = None /\ ~popped[d]
  BY DEF IInv, LifeInv
<1>same. ASSUME op'[d] = op[d], on_doq'[d] = on_doq[d], popped'[d] = popped[d],
                status'[d] = status[d],
                life'[d] = "new" => life[d] = "new"
         PROVE  WellSubmitted(d)'
  BY <1>0, <1>same DEF WellSubmitted, Done
<1> USE DEF objects, queues, device, control
<1>1. CASE Quiet
  BY <1>1, <1>same, QuietChange
<1>2. ASSUME NEW e \in Commands, Enqueue(e) PROVE WellSubmitted(d)'
  <2>1. UNCHANGED <<op, on_doq, popped>> /\ life[e] = "new" /\ life'[e] = "live"
    BY <1>0, <1>2 DEF TypeOK, Enqueue, Enqueueable
  <2>2. CASE d = e
    BY <1>0, <1>new, <2>1, <2>2 DEF WellSubmitted
  <2>3. CASE d # e
    <3>1. status'[d] = status[d] /\ life'[d] = life[d]
      BY <1>0, <1>2, <2>3 DEF TypeOK, Enqueue
    <3>2. QED
      BY <1>same, <2>1, <3>1
  <2>4. QED
    BY <2>2, <2>3
<1>3. ASSUME NEW e \in Commands, Release(e) PROVE WellSubmitted(d)'
  <2>1. UNCHANGED <<op, on_doq, popped, status>>
    BY <1>3 DEF Release
  <2>2. life' \in {life, [life EXCEPT ![e] = "freed"]}
    BY <1>3 DEF Release
  <2>3. life'[d] = "new" => life[d] = "new"
    BY <1>0, <2>2 DEF TypeOK
  <2>4. QED
    BY <1>same, <2>1, <2>3
<1>4. ASSUME NEW e \in Commands, NEW s \in UserStatuses, SetUserEventStatus(e, s)
      PROVE  WellSubmitted(d)'
  <2>1. /\ UNCHANGED <<op, on_doq, popped, life>> /\ life[e] = "live"
        /\ status' = [status EXCEPT ![e] = s] /\ s <= COMPLETE
    BY <1>4, StatusAssumption DEF SetUserEventStatus
  <2>2. CASE d = e
    <3>1. Done(d)'
      BY <1>0, <2>1, <2>2 DEF TypeOK, Done
    <3>2. QED
      BY <1>0, <2>1, <2>2, <3>1 DEF WellSubmitted
  <2>3. CASE d # e
    BY <1>0, <1>same, <2>1, <2>3 DEF TypeOK
  <2>4. QED
    BY <2>2, <2>3
<1>5. ASSUME NEW e \in Commands, Start(e) \/ Run(e) \/ End(e)
      PROVE  WellSubmitted(d)'
  <2>1. /\ UNCHANGED <<on_doq, popped, life>>
        /\ op[e] \in {QUEUED, SUBMITTED, RUNNING}
        /\ \E s \in {SUBMITTED, RUNNING, COMPLETE} : op' = [op EXCEPT ![e] = s]
        /\ \E s : status' = [status EXCEPT ![e] = s]
    <3>1. CASE Start(e)
      BY <3>1 DEF Start
    <3>2. CASE Run(e)
      BY <3>2 DEF Run
    <3>3. CASE End(e)
      BY <3>3 DEF End
    <3>4. QED
      BY <1>5, <3>1, <3>2, <3>3
  <2>2. CASE d = e
    <3>1. op[d] # None /\ op'[d] # None
      <4>1. PICK s \in {SUBMITTED, RUNNING, COMPLETE} : op' = [op EXCEPT ![e] = s]
        BY <2>1
      <4>2. op'[d] = s
        BY <1>0, <2>2, <4>1 DEF TypeOK
      <4>3. op[d] \in COMPLETE..QUEUED /\ op'[d] \in COMPLETE..QUEUED
        BY <2>1, <2>2, <4>2 DEF RUNNING, SUBMITTED, COMPLETE, QUEUED
      <4>4. QED
        BY <4>3, NoneFacts
    <3>2. ~Done(d) /\ life[d] # "new"
      BY <2>1, <2>2, <3>1
      DEF IInv, OpInv, RUNNING, SUBMITTED, QUEUED, COMPLETE
    <3>3. QED
      BY <1>0, <2>1, <3>1, <3>2 DEF WellSubmitted
  <2>3. CASE d # e
    BY <1>0, <1>same, <2>1, <2>3 DEF TypeOK
  <2>4. QED
    BY <2>2, <2>3
<1>6. CASE PopCompleted
  <2> DEFINE e == Head(completed[cur])
  <2>1. e \in Commands /\ Done(e) /\ life[e] # "new"
    BY <1>6, CompletedHead DEF DoneOf, Of
  <2>2. /\ UNCHANGED <<op, on_doq>> /\ popped' = [popped EXCEPT ![e] = TRUE]
        /\ status'[d] = IF d \in Terminated(e) THEN status[e] ELSE status[d]
    BY <1>6 DEF PopCompleted
  <2>3. life' \in {life, LifeAfter(e)}
    BY <1>6 DEF PopCompleted
  <2>4. life'[d] = "new" => life[d] = "new"
    BY <1>0, <2>1, <2>3 DEF TypeOK, LifeAfter
  <2>5. d \in Terminated(e) => Done(d)' /\ life[d] # "new"
    <3>1. d \in Terminated(e) => status[e] < 0 /\ status[e] \in Int /\ e \in deps[d]
      BY <1>0, <2>1, TerminatedFacts, StatusIsInt
    <3>2. d \in Terminated(e) => life[d] # "new"
      BY <3>1 DEF IInv, ArcsInv
    <3> HIDE DEF e
    <3>3. QED
      BY <2>2, <3>1, <3>2 DEF Done, COMPLETE
  <2>6. d = e => Done(d)'
    BY <1>stays, <2>1
  <2> HIDE DEF e
  <2>7. popped'[d] = (popped[d] \/ d = e)
    BY <1>0, <2>1, <2>2 DEF TypeOK
  <2>8. popped'[d] => Done(d)'
    BY <1>0, <1>new, <1>stays, <2>6, <2>7 DEF WellSubmitted
  <2>9. on_doq'[d] /\ ~Done(d)' => op'[d] # None
    BY <1>0, <1>stays, <2>2 DEF WellSubmitted
  <2>10. QED
    BY <1>0, <2>2, <2>4, <2>8, <2>9 DEF WellSubmitted
<1>7. CASE PopInOrder
  <2> DEFINE e == inorder[cur][idx]
  <2>1. e \in Commands /\ Done(e)
    BY <1>7, InOrderNext DEF PopInOrder, DoneAt, Of
  <2>2. /\ UNCHANGED <<op, on_doq, status>>
        /\ popped' \in {popped, [popped EXCEPT ![e] = TRUE]}
    BY <1>7 DEF PopInOrder
  <2>l. life' \in {life, LifeAfter(e)}
    BY <1>7 DEF PopInOrder
  <2> HIDE DEF e
  <2>3. life'[d] = "new" => life[d] = "new"
    BY <1>0, <2>1, <2>l DEF TypeOK, LifeAfter
  <2>4. popped'[d] => popped[d] \/ d = e
    BY <1>0, <2>1, <2>2 DEF TypeOK
  <2>5. QED
    BY <1>0, <2>1, <2>2, <2>3, <2>4 DEF WellSubmitted, Done
<1>8. ASSUME NEW e \in Commands, SubmitCommand(e), life[e] # "new", UNCHANGED life
      PROVE  WellSubmitted(d)'
  <2>1. CASE d # e
    <3>1. /\ UNCHANGED <<life, popped>>
          /\ op' \in {op, [op EXCEPT ![e] = QUEUED]}
          /\ \E s : status' \in {status, [status EXCEPT ![e] = s]}
          /\ on_doq' \in {on_doq, [on_doq EXCEPT ![e] = TRUE]}
      BY <1>8 DEF SubmitCommand
    <3>2. DOMAIN op = Commands /\ DOMAIN on_doq = Commands
          /\ DOMAIN status = Commands
      BY <1>0 DEF TypeOK
    <3>3. op'[d] = op[d] /\ on_doq'[d] = on_doq[d] /\ status'[d] = status[d]
      BY <2>1, <3>1, <3>2
    <3>4. QED
      BY <1>same, <3>1, <3>3
  <2>2. CASE d = e /\ status[e] = QUEUED /\ Command[e].kind # "sync"
    <3>1. op'[d] = QUEUED /\ on_doq'[d] = TRUE /\ UNCHANGED <<status, popped>>
      BY <1>0, <1>8, <2>2 DEF TypeOK, SubmitCommand
    <3>2. QUEUED # None
      BY NoneFacts DEF COMPLETE, QUEUED
    <3>3. QED
      BY <1>0, <1>8, <2>2, <3>1, <3>2 DEF WellSubmitted, Done
  <2>3. CASE d = e /\ ~(status[e] = QUEUED /\ Command[e].kind # "sync")
    <3>1. UNCHANGED <<op, popped>> /\ status'[d] \in {COMPLETE, FAILED}
      BY <1>0, <1>8, <2>3 DEF TypeOK, SubmitCommand
    <3>2. on_doq'[d] \in {on_doq[d], TRUE}
      BY <1>0, <1>8, <2>3 DEF TypeOK, SubmitCommand
    <3>3. Done(d)'
      BY <3>1 DEF Done, COMPLETE, FAILED
    <3>4. QED
      BY <1>0, <1>8, <2>3, <3>1, <3>2, <3>3 DEF WellSubmitted
  <2>4. QED
    BY <2>1, <2>2, <2>3
<1>9. CASE SubmitOutOfOrder
  <2> DEFINE e == new_commands[cur][idx]
  <2>1. e \in Commands /\ life[e] # "new"
    BY <1>9, NewNext DEF IdleOf, Of
  <2>2. \/ SubmitCommand(e) /\ UNCHANGED life
        \/ UNCHANGED <<op, on_doq, popped, status, life>>
    BY <1>9 DEF SubmitOutOfOrder, SubmitCommand
  <2>3. QED
    BY <1>8, <1>same, <2>1, <2>2
<1>10. CASE SubmitInOrder
  <2> DEFINE e == inorder[cur][idx]
  <2>1. e \in Commands /\ life[e] # "new"
    BY <1>10, InOrderNext DEF Of
  <2>2. \/ SubmitCommand(e) /\ UNCHANGED life
        \/ UNCHANGED <<op, on_doq, popped, status, life>>
    BY <1>10 DEF SubmitInOrder, SubmitCommand
  <2>3. QED
    BY <1>8, <1>same, <2>1, <2>2
<1>11. CASE ForgetUserEvents
  BY <1>11, <1>same DEF ForgetUserEvents
<1>12. QED
  BY <1>1, <1>2, <1>3, <1>4, <1>5, <1>6, <1>7, <1>9, <1>10, <1>11, NextCases

(* What an in-order queue has counted as submitted and nobody reported yet *)
(* as ended.                                                               *)
InFlight(q) == {e \in Commands : QueueOf(e) = q /\ on_doq[e] /\ ~Done(e)}
InFlightCounted == \A q \in InOrder : submitted[q] = Cardinality(InFlight(q))

(* A command goes in flight, or leaves. *)
LEMMA OneMoreInFlight ==
    ASSUME NEW q, NEW e \in InFlight(q)', e \notin InFlight(q),
           \A d \in Commands \ {e} : d \in InFlight(q)' <=> d \in InFlight(q)
    PROVE  Cardinality(InFlight(q)') = Cardinality(InFlight(q)) + 1
<1>1. InFlight(q) \subseteq Commands /\ InFlight(q)' \subseteq Commands
  BY DEF InFlight
<1>2. InFlight(q)' = InFlight(q) \cup {e}
  BY <1>1
<1>3. IsFiniteSet(InFlight(q))
  BY <1>1, FS_Subset, SizeAssumption
<1>4. QED
  BY <1>2, <1>3, FS_AddElement

LEMMA OneLessInFlight ==
    ASSUME NEW q, NEW e \in InFlight(q), e \notin InFlight(q)',
           \A d \in Commands \ {e} : d \in InFlight(q)' <=> d \in InFlight(q)
    PROVE  Cardinality(InFlight(q)') = Cardinality(InFlight(q)) - 1
<1>1. InFlight(q) \subseteq Commands /\ InFlight(q)' \subseteq Commands
  BY DEF InFlight
<1>2. InFlight(q)' = InFlight(q) \ {e}
  BY <1>1
<1>3. IsFiniteSet(InFlight(q))
  BY <1>1, FS_Subset, SizeAssumption
<1>4. QED
  BY <1>2, <1>3, FS_RemoveElement

LEMMA InFlightStep ==
    ASSUME IInv, SubmittedInv, [Next]_vars, INVALID \notin UserStatuses,
           InFlightCounted
    PROVE  InFlightCounted'
<1> SUFFICES ASSUME NEW q \in InOrder
             PROVE  submitted'[q] = Cardinality(InFlight(q)')
  BY DEF InFlightCounted
<1>0. TypeOK /\ q \in Queues /\ submitted[q] = Cardinality(InFlight(q))
  BY QueueFacts DEF IInv, InFlightCounted
<1>same. ASSUME submitted'[q] = submitted[q],
                \A d \in Commands : QueueOf(d) = q =>
                  /\ on_doq'[d] = on_doq[d]
                  /\ Done(d)' <=> Done(d)
         PROVE  submitted'[q] = Cardinality(InFlight(q)')
  <2>1. InFlight(q)' = InFlight(q)
    BY <1>same DEF InFlight, QueueOf
  <2>2. QED
    BY <1>0, <1>same, <2>1
<1>new. ASSUME NEW d \in Commands, life[d] = "new" PROVE ~on_doq[d]
  BY <1>new DEF SubmittedInv
<1> USE DEF objects, queues, device, control
<1>1. CASE Quiet
  BY <1>1, <1>same, QuietChange DEF Done
<1>2. ASSUME NEW e \in Commands, Enqueue(e)
      PROVE  submitted'[q] = Cardinality(InFlight(q)')
  <2>1. UNCHANGED <<on_doq, submitted>> /\ life[e] = "new"
    BY <1>2 DEF Enqueue, Enqueueable
  <2>2. \A d \in Commands \ {e} : status'[d] = status[d]
    BY <1>0, <1>2 DEF TypeOK, Enqueue
  <2>3. InFlight(q)' = InFlight(q)
    BY <1>new, <2>1, <2>2 DEF InFlight, QueueOf, Done
  <2>4. QED
    BY <1>0, <2>1, <2>3
<1>3. ASSUME NEW e \in Commands, Release(e)
      PROVE  submitted'[q] = Cardinality(InFlight(q)')
  BY <1>3, <1>same DEF Release, Done
<1>4. ASSUME NEW e \in Commands, NEW s \in UserStatuses, SetUserEventStatus(e, s)
      PROVE  submitted'[q] = Cardinality(InFlight(q)')
  <2>1. UNCHANGED <<on_doq, submitted>> /\ QueueOf(e) # q
    BY <1>4, CommandFacts, QueueFacts DEF SetUserEventStatus
  <2>2. \A d \in Commands \ {e} : status'[d] = status[d]
    BY <1>0, <1>4 DEF TypeOK, SetUserEventStatus
  <2>3. QED
    BY <1>same, <2>1, <2>2 DEF Done
<1>5. ASSUME NEW e \in Commands, Start(e) \/ Run(e)
      PROVE  submitted'[q] = Cardinality(InFlight(q)')
  <2>1. /\ UNCHANGED <<on_doq, submitted>> /\ op[e] \in {QUEUED, SUBMITTED}
        /\ \E s \in {SUBMITTED, RUNNING} : status' = [status EXCEPT ![e] = s]
    BY <1>5 DEF Start, Run
  <2>2. ~Done(e)
    BY <2>1, NoneFacts
    DEF IInv, OpInv, RUNNING, SUBMITTED, QUEUED, COMPLETE
  <2>3. PICK s \in {SUBMITTED, RUNNING} : status' = [status EXCEPT ![e] = s]
    BY <2>1
  <2>4. ~Done(e)'
    BY <1>0, <2>3 DEF TypeOK, Done, SUBMITTED, RUNNING, COMPLETE
  <2>5. \A d \in Commands \ {e} : status'[d] = status[d]
    BY <1>0, <2>3 DEF TypeOK
  <2>6. QED
    BY <1>same, <2>1, <2>2, <2>4, <2>5 DEF Done
<1>6. ASSUME NEW e \in Commands, End(e)
      PROVE  submitted'[q] = Cardinality(InFlight(q)')
  <2>1. PICK s \in {COMPLETE, FAILED} : status' = [status EXCEPT ![e] = s]
    BY <1>6 DEF End
  <2>2. /\ UNCHANGED on_doq /\ op[e] = RUNNING
        /\ submitted' = SubmittedAfter(e)
    BY <1>6 DEF End
  <2>3. op[e] # None
    BY <2>2, NoneFacts DEF RUNNING, COMPLETE, QUEUED
  <2>4. on_doq[e] /\ ~Done(e)
    BY <2>2, <2>3
    DEF IInv, OpInv, SubmittedInv, RUNNING, COMPLETE
  <2>5. Done(e)'
    BY <1>0, <2>1 DEF TypeOK, Done, COMPLETE, FAILED
  <2>6. \A d \in Commands \ {e} : status'[d] = status[d]
    BY <1>0, <2>1 DEF TypeOK
  <2>7. CASE QueueOf(e) # q
    <3>1. submitted'[q] = submitted[q]
      BY <1>0, <2>2, <2>7 DEF TypeOK, SubmittedAfter
    <3>2. QED
      BY <1>same, <2>2, <2>6, <2>7, <3>1 DEF Done
  <2>8. CASE QueueOf(e) = q
    <3>1. submitted'[q] = submitted[q] - 1
      BY <1>0, <2>2, <2>8 DEF TypeOK, SubmittedAfter
    <3>2. e \in InFlight(q) /\ e \notin InFlight(q)'
      BY <2>4, <2>5, <2>8 DEF InFlight
    <3>3. \A d \in Commands \ {e} : d \in InFlight(q)' <=> d \in InFlight(q)
      BY <2>2, <2>6 DEF InFlight, Done, QueueOf
    <3>4. QED
      BY <1>0, <3>1, <3>2, <3>3, OneLessInFlight
  <2>9. QED
    BY <2>7, <2>8
<1>7. CASE PopCompleted
  <2> DEFINE e == Head(completed[cur])
  <2>1. e \in Commands
    BY <1>7, CompletedHead DEF DoneOf, Of
  <2>2. status[e] # INVALID
    <3>1. \A d \in Commands : status[d] \in UserStatuses \cup FAILED..QUEUED
      BY <1>0 DEF TypeOK
    <3>2. INVALID \notin FAILED..QUEUED
      BY DEF INVALID, FAILED, QUEUED
    <3>3. QED
      BY <2>1, <3>1, <3>2
  <2>3. UNCHANGED on_doq /\ submitted'[q] = submitted[q]
    BY <1>0, <1>7, <2>2 DEF TypeOK, PopCompleted
  <2>4. \A d \in Terminated(e) :
          d \in Commands /\ (on_doq[d] => Done(d)) /\ Done(d)'
    <3> SUFFICES ASSUME NEW d \in Terminated(e)
                 PROVE  d \in Commands /\ (on_doq[d] => Done(d)) /\ Done(d)'
      OBVIOUS
    <3>1. /\ d \in Commands /\ e \in deps[d]
          /\ Command[e].kind = "user" /\ status[e] < 0
      BY <2>1, TerminatedFacts
    <3>2. op[d] = None
      BY <3>1 DEF IInv, OpInv, IsKernel
    <3>3. on_doq[d] => Done(d)
      BY <3>1, <3>2 DEF SubmittedInv
    <3>4. status'[d] = status[e] /\ status[e] \in Int
      BY <1>0, <1>7, <2>1, <3>1, StatusIsInt DEF PopCompleted
    <3>5. QED
      BY <3>1, <3>3, <3>4 DEF Done, COMPLETE
  <2>5. \A d \in Commands \ Terminated(e) : status'[d] = status[d]
    BY <1>7 DEF PopCompleted
  <2> HIDE DEF e
  <2>6. InFlight(q)' = InFlight(q)
    BY <2>3, <2>4, <2>5 DEF InFlight, Done, QueueOf
  <2>7. QED
    BY <1>0, <2>3, <2>6
<1>8. CASE PopInOrder \/ ForgetUserEvents
  BY <1>8, <1>same DEF PopInOrder, ForgetUserEvents, Done
<1>9. CASE SubmitOutOfOrder
  <2> DEFINE e == new_commands[cur][idx]
  <2>1. e \in Commands /\ QueueOf(e) = cur /\ cur \notin InOrder
    BY <1>9, NewNext DEF IdleOf, Of
  <2>2. SubmitCommand(e) \/ UNCHANGED <<on_doq, status, submitted>>
    BY <1>9 DEF SubmitOutOfOrder
  <2> HIDE DEF e
  <2>3. submitted'[q] = submitted[q]
    BY <2>1, <2>2 DEF SubmitCommand, CountSubmitted
  <2>4. \A d \in Commands \ {e} :
          status'[d] = status[d] /\ on_doq'[d] = on_doq[d]
    BY <1>0, <2>2 DEF TypeOK, SubmitCommand
  <2>5. QED
    BY <1>same, <2>1, <2>3, <2>4 DEF Done
<1>10. CASE SubmitInOrder
  <2> DEFINE e == inorder[cur][idx]
  <2>1. e \in Commands /\ QueueOf(e) = cur
    BY <1>10, InOrderNext DEF Of
  <2>2. \/ UNCHANGED <<on_doq, status, submitted>>
        \/ SubmitCommand(e) /\ status[e] = QUEUED /\ ~on_doq[e]
    BY <1>10 DEF SubmitInOrder
  <2> HIDE DEF e
  <2>3. CASE UNCHANGED <<on_doq, status, submitted>>
    BY <1>same, <2>3 DEF Done
  <2>4. CASE SubmitCommand(e) /\ status[e] = QUEUED /\ ~on_doq[e]
    <3>1. /\ \A d \in Commands \ {e} :
               status'[d] = status[d] /\ on_doq'[d] = on_doq[d]
          /\ on_doq'[e] = TRUE
      BY <1>0, <2>1, <2>4 DEF TypeOK, SubmitCommand
    <3>2. CASE Command[e].kind = "sync"
      <4>1. UNCHANGED submitted /\ status' = [status EXCEPT ![e] = COMPLETE]
        BY <2>4, <3>2 DEF SubmitCommand
      <4>2. status'[e] = COMPLETE
        BY <1>0, <2>1, <4>1 DEF TypeOK
      <4>3. e \notin InFlight(q)' /\ e \notin InFlight(q)
        BY <2>4, <4>2 DEF InFlight, Done, COMPLETE
      <4>4. \A d \in Commands \ {e} : d \in InFlight(q)' <=> d \in InFlight(q)
        BY <3>1 DEF InFlight, Done, QueueOf
      <4>5. InFlight(q)' \subseteq Commands /\ InFlight(q) \subseteq Commands
        BY DEF InFlight
      <4>6. InFlight(q)' = InFlight(q)
        BY <4>3, <4>4, <4>5
      <4>7. QED
        BY <1>0, <4>1, <4>6
    <3>3. CASE Command[e].kind # "sync"
      <4>1. UNCHANGED status /\ submitted' = CountSubmitted(e)
        BY <2>4, <3>3 DEF SubmitCommand
      <4>2. CASE QueueOf(e) # q
        <5>1. submitted'[q] = submitted[q]
          BY <1>0, <4>1, <4>2 DEF TypeOK, CountSubmitted
        <5>2. QED
          BY <1>same, <3>1, <4>1, <4>2, <5>1 DEF Done
      <4>3. CASE QueueOf(e) = q
        <5>1. submitted'[q] = submitted[q] + 1
          BY <1>0, <4>1, <4>3 DEF TypeOK, CountSubmitted
        <5>2. e \in InFlight(q)' /\ e \notin InFlight(q)
          BY <2>1, <2>4, <3>1, <4>1, <4>3
          DEF InFlight, Done, QUEUED, COMPLETE, QueueOf
        <5>3. \A d \in Commands \ {e} : d \in InFlight(q)' <=> d \in InFlight(q)
          BY <3>1, <4>1 DEF InFlight, Done, QueueOf
        <5>4. QED
          BY <1>0, <5>1, <5>2, <5>3, OneMoreInFlight
      <4>4. QED
        BY <4>2, <4>3
    <3>4. QED
      BY <3>2, <3>3
  <2>5. QED
    BY <2>2, <2>3, <2>4
<1>11. QED
  BY <1>1, <1>2, <1>3, <1>4, <1>5, <1>6, <1>7, <1>8, <1>9, <1>10, NextCases

LEMMA InitSubmitted ==
    ASSUME Init
    PROVE  SubmittedInv /\ InFlightCounted
<1>1. SubmittedInv
  BY DEF Init, SubmittedInv
<1>2. \A q \in InOrder : submitted[q] = 0 /\ InFlight(q) = {}
  BY QueueFacts DEF Init, InFlight
<1>3. QED
  BY <1>1, <1>2, FS_EmptySet DEF InFlightCounted

(* num_commands_submitted of an in-order queue counts the commands that    *)
(* were submitted and are not complete, whatever fails or is terminated,   *)
(* if no user event is given the status that acl_command_queue.cpp takes   *)
(* for the end of a device operation.                                      *)
THEOREM SubmissionsCounted ==
    ASSUME INVALID \notin UserStatuses
    PROVE  Spec => []CountsItsSubmissions
<1> DEFINE J == IInv /\ SubmittedInv /\ InFlightCounted
<1>1. Init => J
  BY InitInv, InitSubmitted
<1>2. J /\ [Next]_vars => J'
  BY NextInv, SubmittedStep, InFlightStep
<1>3. ASSUME J PROVE CountsItsSubmissions
  <2>1. ASSUME NEW e \in Commands, on_doq[e], ~Done(e)
        PROVE  life[e] = "live" /\ ~popped[e]
    BY <1>3, <2>1 DEF IInv, TypeOK, LifeInv, SubmittedInv
  <2>2. \A q : InFlight(q) = {e \in Unpopped(q) : on_doq[e] /\ ~Done(e)}
    BY <2>1 DEF InFlight, Unpopped
  <2>3. QED
    BY <1>3, <2>2 DEF InFlightCounted, CountsItsSubmissions
<1>4. QED
  BY <1>1, <1>2, <1>3, PTL DEF Spec

----------------------------------------------------------------------------
(* The count of commands.  What is left of a sequence without repetitions  *)
(* behind its head, and a sequence with one more element.                  *)
LEMMA TailMembers ==
    ASSUME NEW S, NEW s \in Seq(S), s # <<>>, IsInjective(s)
    PROVE  /\ Head(s) \in ToSet(s) /\ Tail(s) \in Seq(S)
           /\ ToSet(Tail(s)) = ToSet(s) \ {Head(s)}
           /\ IsInjective(Tail(s))
<1> DEFINE t == Tail(s)
<1>1. /\ Len(s) \in Nat \ {0} /\ t \in Seq(S) /\ Len(t) = Len(s) - 1
      /\ \A k \in 1..Len(s) - 1 : t[k] = s[k + 1]
      /\ Head(s) = s[1]
  BY HeadTailProperties, EmptySeq
<1>2. \A j, k \in 1..Len(s) : s[j] = s[k] => j = k
  BY PositionsOf
<1> HIDE DEF t
<1>3. \A j, k \in 1..Len(t) : t[j] = t[k] => j = k
  BY <1>1, <1>2
<1>4. \A x : x \in ToSet(t) <=> x \in ToSet(s) \ {Head(s)}
  <2> SUFFICES ASSUME NEW x PROVE x \in ToSet(t) <=> x \in ToSet(s) \ {Head(s)}
    OBVIOUS
  <2>1. x \in ToSet(t) <=> \E k \in 1..Len(t) : t[k] = x
    BY <1>1, SetOf
  <2>2. x \in ToSet(s) <=> \E k \in 1..Len(s) : s[k] = x
    BY SetOf
  <2>3. ASSUME NEW k \in 1..Len(t), t[k] = x PROVE x \in ToSet(s) \ {Head(s)}
    <3>1. k + 1 \in 1..Len(s) /\ 1 \in 1..Len(s) /\ s[k + 1] = x
      BY <1>1, <2>3
    <3>2. s[k + 1] # s[1]
      BY <1>1, <1>2, <3>1
    <3>3. QED
      BY <1>1, <2>2, <3>1, <3>2
  <2>4. ASSUME NEW k \in 1..Len(s), s[k] = x, x # Head(s)
        PROVE  \E j \in 1..Len(t) : t[j] = x
    <3>1. k - 1 \in 1..Len(t) /\ t[k - 1] = s[k]
      BY <1>1, <2>4
    <3>2. QED
      BY <2>4, <3>1
  <2>5. QED
    BY <2>1, <2>2, <2>3, <2>4
<1>5. Head(s) \in ToSet(s)
  BY <1>1, SetOf
<1>6. IsInjective(t)
  BY <1>1, <1>3, InjectiveIf
<1>7. QED
  BY <1>1, <1>4, <1>5, <1>6 DEF t

LEMMA AppendMembers ==
    ASSUME NEW S, NEW s \in Seq(S), NEW e
    PROVE  ToSet(Append(s, e)) = ToSet(s) \cup {e}
<1>1. s \in Seq(S \cup {e}) /\ e \in S \cup {e}
  BY SeqMonotonic
<1> DEFINE t == Append(s, e)
<1>2. /\ Len(s) \in Nat /\ t \in Seq(S \cup {e}) /\ Len(t) = Len(s) + 1
      /\ \A k \in 1..Len(s) : t[k] = s[k]
      /\ t[Len(s) + 1] = e
  BY <1>1, AppendProperties, LenProperties
<1> HIDE DEF t
<1>3. ASSUME NEW x PROVE x \in ToSet(t) <=> x \in ToSet(s) \cup {e}
  <2>1. x \in ToSet(t) <=> \E k \in 1..Len(t) : t[k] = x
    BY <1>2, SetOf
  <2>2. x \in ToSet(s) <=> \E k \in 1..Len(s) : s[k] = x
    BY SetOf
  <2>3. \A k \in 1..Len(t) : k = Len(s) + 1 \/ k \in 1..Len(s)
    BY <1>2
  <2>4. Len(s) + 1 \in 1..Len(t) /\ 1..Len(s) \subseteq 1..Len(t)
    BY <1>2
  <2>5. QED
    BY <1>2, <2>1, <2>2, <2>3, <2>4
<1>4. QED
  BY <1>3 DEF t

(* A step with no failed user event to pass on to an out-of-order queue.   *)
TerminatesInOrder ==
    \A e \in Commands : \A d \in Terminated(e) : QueueOf(d) \in InOrder

LEMMA TerminatedNone ==
    ASSUME TerminatesInOrder, NEW e \in Commands,
           NEW q \in Queues, q \notin InOrder
    PROVE  TerminatedOn(q, e) = <<>>
<1>1. {d \in Terminated(e) : QueueOf(d) = q} = {}
  BY DEF TerminatesInOrder
<1>2. TerminatedOn(q, e) \in Seq({})
  BY <1>1, TerminatedFacts, TerminatedOnType
<1>3. QED
  <2>1. TerminatedOn(q, e) # <<>> => Len(TerminatedOn(q, e)) \in Nat \ {0}
    BY <1>2, EmptySeq
  <2>2. \A k \in 1..Len(TerminatedOn(q, e)) : TerminatedOn(q, e)[k] \in {}
    BY <1>2, ElementOfSeq
  <2>3. QED
    BY <2>1, <2>2

(* Which steps change the events of a queue that were not popped.          *)
LEMMA UnpoppedKept ==
    ASSUME IInv, SubmittedInv, NEW q,
           \/ Quiet \/ ForgetUserEvents \/ SubmitOutOfOrder \/ SubmitInOrder
           \/ \E e \in Commands :
                \/ Release(e) \/ Start(e) \/ Run(e) \/ End(e)
                \/ \E s \in UserStatuses : SetUserEventStatus(e, s)
    PROVE  Unpopped(q)' = Unpopped(q)
<1>0. TypeOK
  BY DEF IInv
<1>same. ASSUME UNCHANGED <<life, popped>> PROVE Unpopped(q)' = Unpopped(q)
  BY <1>same DEF Unpopped, QueueOf
<1>1. CASE Quiet
  BY <1>1, <1>same, QuietChange DEF objects
<1>2. CASE ForgetUserEvents \/ SubmitOutOfOrder \/ SubmitInOrder
  <2>1. UNCHANGED <<life, popped>>
    BY <1>2
    DEF ForgetUserEvents, SubmitOutOfOrder, SubmitInOrder, SubmitCommand, objects
  <2>2. QED
    BY <1>same, <2>1
<1>3. ASSUME NEW e \in Commands,
             \/ Start(e) \/ Run(e) \/ End(e)
             \/ \E s \in UserStatuses : SetUserEventStatus(e, s)
      PROVE  Unpopped(q)' = Unpopped(q)
  BY <1>3, <1>same DEF Start, Run, End, SetUserEventStatus
<1>4. ASSUME NEW e \in Commands, Release(e) PROVE Unpopped(q)' = Unpopped(q)
  <2>1. UNCHANGED popped
    BY <1>4 DEF Release
  <2>a. CASE popped[e]
    <3>1. life' \in {life, [life EXCEPT ![e] = "freed"]}
      BY <1>4, <2>a DEF Release
    <3>2. \A d \in Commands \ {e} : life'[d] = life[d]
      BY <1>0, <3>1 DEF TypeOK
    <3>3. QED
      BY <2>1, <2>a, <3>2 DEF Unpopped, QueueOf
  <2>b. CASE ~popped[e]
    <3>1. UNCHANGED life
      BY Zenon, <1>4, <2>b DEF Release
    <3>2. QED
      BY <1>same, <2>1, <3>1
  <2>3. QED
    BY <2>a, <2>b
<1>5. QED
  BY <1>1, <1>2, <1>3, <1>4

LEMMA UnpoppedEnqueue ==
    ASSUME IInv, NEW q, NEW e \in Commands, Enqueue(e)
    PROVE  /\ e \notin Unpopped(q)
           /\ Unpopped(q)' =
                Unpopped(q) \cup (IF QueueOf(e) = q THEN {e} ELSE {})
<1>1. /\ life[e] = "new" /\ ~popped[e] /\ UNCHANGED popped
      /\ life' = [life EXCEPT ![e] = "live"]
  BY DEF IInv, LifeInv, Enqueue, Enqueueable
<1>2. \A d \in Commands : life'[d] = IF d = e THEN "live" ELSE life[d]
  BY <1>1 DEF IInv, TypeOK
<1>3. QED
  BY <1>1, <1>2 DEF Unpopped, QueueOf

LEMMA UnpoppedPop ==
    ASSUME IInv, NEW q, NEW e \in Commands,
           popped' = [popped EXCEPT ![e] = TRUE], life' \in {life, LifeAfter(e)}
    PROVE  Unpopped(q)' = Unpopped(q) \ {e}
<1>1. \A d \in Commands \ {e} : life'[d] = life[d] /\ popped'[d] = popped[d]
  BY DEF IInv, TypeOK, LifeAfter
<1>2. popped'[e]
  BY DEF IInv, TypeOK
<1>3. QED
  BY <1>1, <1>2 DEF Unpopped, QueueOf

(* An event that is waited for, or is being worked on, is in its queue.    *)
LEMMA NotDoneUnpopped ==
    ASSUME IInv, SubmittedInv, NEW e \in Commands, life[e] # "new", ~Done(e)
    PROVE  e \in Unpopped(QueueOf(e))
BY DEF IInv, TypeOK, LifeInv, SubmittedInv, Unpopped

----------------------------------------------------------------------------
(* num_commands, and the lists of each queue.                              *)
Counted(q) == num_commands[q] = Cardinality(Unpopped(q))
CountedInOrder(q) ==
    q \in InOrder => /\ ToSet(inorder[q]) = Unpopped(q)
                     /\ IsInjective(inorder[q])
CountedOutOfOrder(q) ==
    q \notin InOrder => /\ commands[q] = Unpopped(q)
                        /\ ToSet(completed[q]) \subseteq Unpopped(q)
                        /\ IsInjective(completed[q])
NewQueued(q) ==
    q \notin InOrder \cup {UserQueue} =>
        \A e \in ToSet(new_commands[q]) : status[e] = QUEUED
CountInv ==
    \A q \in Queues : /\ Counted(q) /\ CountedInOrder(q)
                      /\ CountedOutOfOrder(q) /\ NewQueued(q)

(* A user event that was popped is on new_commands until the update of its *)
(* queue forgets it, in the same visit: the scan starts at the front.      *)
Forgetting == at \in {"pop", "submit"} /\ cur = UserQueue
UserInv ==
    /\ at \notin {"pop", "submit"} \/ cur = UserQueue => idx = 1
    /\ ~Forgetting => ToSet(new_commands[UserQueue]) \subseteq Unpopped(UserQueue)

(* The update takes out of a queue an event that is in it, once.           *)
LEMMA HeadUnpopped ==
    ASSUME IInv, CountInv, PopCompleted
    PROVE  /\ Head(completed[cur]) \in Unpopped(cur)
           /\ ToSet(Tail(completed[cur])) \subseteq
                Unpopped(cur) \ {Head(completed[cur])}
           /\ IsInjective(Tail(completed[cur]))
<1>1. /\ cur \in Queues /\ cur \notin InOrder /\ completed[cur] # <<>>
      /\ completed[cur] \in Seq(Commands)
  BY CompletedHead DEF IInv, TypeOK, PopCompleted
<1>2. /\ ToSet(completed[cur]) \subseteq Unpopped(cur)
      /\ IsInjective(completed[cur])
  BY <1>1 DEF CountInv, CountedOutOfOrder
<1>3. QED
  BY <1>1, <1>2, TailMembers

LEMMA InOrderUnpopped ==
    ASSUME IInv, CountInv, PopInOrder
    PROVE  inorder[cur][idx] \in Unpopped(cur)
<1>1. /\ cur \in Queues /\ cur \in InOrder /\ idx \in 1..Len(inorder[cur])
      /\ inorder[cur] \in Seq(Of(cur))
  BY InOrderNext
<1>2. ToSet(inorder[cur]) = Unpopped(cur)
  BY <1>1 DEF CountInv, CountedInOrder
<1>3. QED
  BY <1>1, <1>2, PositionsOf

LEMMA CountedStep ==
    ASSUME IInv, SubmittedInv, CountInv, [Next]_vars, NEW q \in Queues
    PROVE  Counted(q)'
<1>0. TypeOK /\ num_commands[q] = Cardinality(Unpopped(q))
  BY DEF IInv, CountInv, Counted
<1>fin. IsFiniteSet(Unpopped(q))
  <2>1. Unpopped(q) \subseteq Commands
    BY DEF Unpopped
  <2>2. QED
    BY <2>1, FS_Subset, SizeAssumption
<1>same. ASSUME num_commands'[q] = num_commands[q], Unpopped(q)' = Unpopped(q)
         PROVE  Counted(q)'
  BY <1>0, <1>same DEF Counted
<1>pop. ASSUME NEW e \in Unpopped(q),
               num_commands'[q] = num_commands[q] - 1,
               Unpopped(q)' = Unpopped(q) \ {e}
        PROVE  Counted(q)'
  BY <1>0, <1>fin, <1>pop, FS_RemoveElement DEF Counted
<1> USE DEF objects, queues, device, control
<1>1. ASSUME NEW e \in Commands, Enqueue(e) PROVE Counted(q)'
  <2>1. /\ e \notin Unpopped(q)
        /\ Unpopped(q)' =
             Unpopped(q) \cup (IF QueueOf(e) = q THEN {e} ELSE {})
    BY <1>1, UnpoppedEnqueue
  <2>2. num_commands'[q] =
          IF QueueOf(e) = q THEN num_commands[q] + 1 ELSE num_commands[q]
    BY <1>0, <1>1 DEF TypeOK, Enqueue
  <2>3. CASE QueueOf(e) = q
    <3>1. Cardinality(Unpopped(q) \cup {e}) = Cardinality(Unpopped(q)) + 1
      BY <1>fin, <2>1, FS_AddElement
    <3>2. QED
      BY <1>0, <2>1, <2>2, <2>3, <3>1 DEF Counted
  <2>4. CASE QueueOf(e) # q
    BY <1>same, <2>1, <2>2, <2>4
  <2>5. QED
    BY <2>3, <2>4
<1>2. CASE PopCompleted
  <2> DEFINE e == Head(completed[cur])
  <2>1. e \in Unpopped(cur) /\ e \in Commands /\ QueueOf(e) = cur
    BY <1>2, HeadUnpopped DEF Unpopped
  <2>2. popped' = [popped EXCEPT ![e] = TRUE] /\ life' \in {life, LifeAfter(e)}
    BY <1>2 DEF PopCompleted
  <2>3. Unpopped(q)' = Unpopped(q) \ {e}
    BY <2>1, <2>2, UnpoppedPop
  <2>4. num_commands'[q] = IF q = cur THEN num_commands[q] - 1 ELSE num_commands[q]
    BY <1>0, <1>2 DEF TypeOK, PopCompleted
  <2> HIDE DEF e
  <2>5. q # cur => Unpopped(q)' = Unpopped(q)
    BY <2>1, <2>3 DEF Unpopped
  <2>6. QED
    BY <1>pop, <1>same, <2>1, <2>3, <2>4, <2>5
<1>3. CASE PopInOrder
  <2> DEFINE e == inorder[cur][idx]
  <2>1. e \in Unpopped(cur) /\ e \in Commands /\ QueueOf(e) = cur
    BY <1>3, InOrderUnpopped DEF Unpopped
  <2>2. CASE deps[e] = {}
    <3>1. popped' = [popped EXCEPT ![e] = TRUE] /\ life' \in {life, LifeAfter(e)}
      BY <1>3, <2>2 DEF PopInOrder
    <3>2. num_commands'[q] = IF q = cur THEN num_commands[q] - 1 ELSE num_commands[q]
      BY <1>0, <1>3, <2>2 DEF TypeOK, PopInOrder
    <3> HIDE DEF e
    <3>3. Unpopped(q)' = Unpopped(q) \ {e}
      BY <2>1, <3>1, UnpoppedPop
    <3>4. q # cur => Unpopped(q)' = Unpopped(q)
      BY <2>1, <3>3 DEF Unpopped
    <3>5. QED
      BY <1>pop, <1>same, <2>1, <3>2, <3>3, <3>4
  <2>3. CASE deps[e] # {}
    <3>1. UNCHANGED <<life, popped, num_commands>>
      BY <1>3, <2>3 DEF PopInOrder
    <3>2. Unpopped(q)' = Unpopped(q)
      BY <3>1 DEF Unpopped, QueueOf
    <3>3. QED
      BY <1>same, <3>1, <3>2
  <2>4. QED
    BY <2>2, <2>3
<1>4. CASE Quiet
  BY <1>4, <1>same, QuietChange, UnpoppedKept
<1>5. CASE ForgetUserEvents \/ SubmitOutOfOrder \/ SubmitInOrder
  <2>1. UNCHANGED num_commands
    BY <1>5
    DEF ForgetUserEvents, SubmitOutOfOrder, SubmitInOrder, SubmitCommand
  <2>2. QED
    BY <1>5, <1>same, <2>1, UnpoppedKept
<1>6. ASSUME NEW e \in Commands,
             \/ Release(e) \/ Start(e) \/ Run(e) \/ End(e)
             \/ \E s \in UserStatuses : SetUserEventStatus(e, s)
      PROVE  Counted(q)'
  <2>1. UNCHANGED num_commands
    BY <1>6 DEF Release, Start, Run, End, SetUserEventStatus
  <2>2. QED
    BY <1>6, <1>same, <2>1, UnpoppedKept
<1>7. QED
  BY <1>1, <1>2, <1>3, <1>4, <1>5, <1>6, NextCases

LEMMA CountedInOrderStep ==
    ASSUME IInv, SubmittedInv, CountInv, [Next]_vars, NEW q \in InOrder
    PROVE  CountedInOrder(q)'
<1>0. /\ TypeOK /\ q \in Queues /\ inorder[q] \in Seq(Of(q))
      /\ ToSet(inorder[q]) = Unpopped(q) /\ IsInjective(inorder[q])
  BY QueueFacts DEF IInv, ListsInv, InOrderList, CountInv, CountedInOrder
<1>same. ASSUME inorder'[q] = inorder[q], Unpopped(q)' = Unpopped(q)
         PROVE  CountedInOrder(q)'
  BY <1>0, <1>same DEF CountedInOrder
<1> USE DEF objects, queues, device, control
<1>1. ASSUME NEW e \in Commands, Enqueue(e) PROVE CountedInOrder(q)'
  <2>1. Unpopped(q)' = Unpopped(q) \cup (IF QueueOf(e) = q THEN {e} ELSE {})
    BY <1>1, UnpoppedEnqueue
  <2>2. e \notin Of(q)
    BY <1>1 DEF Enqueue, Enqueueable, Of
  <2>3. CASE QueueOf(e) = q
    <3>1. inorder'[q] = Append(inorder[q], e)
      BY <1>0, <1>1, <2>3 DEF TypeOK, Enqueue
    <3>2. ToSet(Append(inorder[q], e)) = ToSet(inorder[q]) \cup {e}
      BY <1>0, AppendMembers
    <3>3. IsInjective(Append(inorder[q], e))
      BY <1>0, <2>2, AppendInjectiveSeq
    <3>4. QED
      BY <1>0, <2>1, <2>3, <3>1, <3>2, <3>3 DEF CountedInOrder
  <2>4. CASE QueueOf(e) # q
    <3>1. inorder'[q] = inorder[q]
      BY <1>0, <1>1, <2>4 DEF TypeOK, Enqueue
    <3>2. QED
      BY <1>same, <2>1, <2>4, <3>1
  <2>5. QED
    BY <2>3, <2>4
<1>2. CASE PopCompleted
  <2> DEFINE e == Head(completed[cur])
  <2>1. e \in Commands /\ QueueOf(e) = cur /\ cur \notin InOrder
    BY <1>2, CompletedHead DEF DoneOf, Of
  <2>2. /\ popped' = [popped EXCEPT ![e] = TRUE]
        /\ life' \in {life, LifeAfter(e)} /\ UNCHANGED inorder
    BY <1>2 DEF PopCompleted
  <2> HIDE DEF e
  <2>3. Unpopped(q)' = Unpopped(q) \ {e}
    BY <2>1, <2>2, UnpoppedPop
  <2>4. QED
    BY <1>same, <2>1, <2>2, <2>3 DEF Unpopped
<1>3. CASE PopInOrder
  <2> DEFINE e == inorder[cur][idx]
  <2>1. /\ e \in Commands /\ QueueOf(e) = cur /\ cur \in Queues
        /\ idx \in 1..Len(inorder[cur])
    BY <1>3, InOrderNext DEF Of
  <2>2. CASE deps[e] = {}
    <3>1. /\ popped' = [popped EXCEPT ![e] = TRUE] /\ life' \in {life, LifeAfter(e)}
          /\ inorder' = [inorder EXCEPT ![cur] = RemoveAt(inorder[cur], idx)]
      BY <1>3, <2>2 DEF PopInOrder
    <3>2. Unpopped(q)' = Unpopped(q) \ {e}
      BY <2>1, <3>1, UnpoppedPop
    <3>3. CASE q = cur
      <4>1. inorder'[q] = RemoveAt(inorder[q], idx)
        BY <1>0, <3>1, <3>3 DEF TypeOK
      <4>2. /\ ToSet(RemoveAt(inorder[q], idx)) = ToSet(inorder[q]) \ {e}
            /\ IsInjective(RemoveAt(inorder[q], idx))
        BY <1>0, <2>1, <3>3, RemoveMembers, RemoveAtInjective
      <4>3. QED
        BY <1>0, <3>2, <4>1, <4>2 DEF CountedInOrder
    <3>4. CASE q # cur
      <4>1. inorder'[q] = inorder[q]
        BY <1>0, <3>1, <3>4 DEF TypeOK
      <4> HIDE DEF e
      <4>2. Unpopped(q)' = Unpopped(q)
        BY <2>1, <3>2, <3>4 DEF Unpopped
      <4>3. QED
        BY <1>same, <4>1, <4>2
    <3>5. QED
      BY <3>3, <3>4
  <2>3. CASE deps[e] # {}
    <3>1. UNCHANGED <<life, popped, inorder>>
      BY <1>3, <2>3 DEF PopInOrder
    <3>2. Unpopped(q)' = Unpopped(q)
      BY <3>1 DEF Unpopped, QueueOf
    <3>3. QED
      BY <1>same, <3>1, <3>2
  <2>4. QED
    BY <2>2, <2>3
<1>4. CASE Quiet
  BY <1>4, <1>same, QuietChange, UnpoppedKept
<1>5. CASE ForgetUserEvents \/ SubmitOutOfOrder \/ SubmitInOrder
  <2>1. UNCHANGED inorder
    BY <1>5 DEF ForgetUserEvents, SubmitOutOfOrder, SubmitInOrder
  <2>2. QED
    BY <1>5, <1>same, <2>1, UnpoppedKept
<1>6. ASSUME NEW e \in Commands,
             \/ Release(e) \/ Start(e) \/ Run(e) \/ End(e)
             \/ \E s \in UserStatuses : SetUserEventStatus(e, s)
      PROVE  CountedInOrder(q)'
  <2>1. UNCHANGED inorder
    BY <1>6 DEF Release, Start, Run, End, SetUserEventStatus
  <2>2. QED
    BY <1>6, <1>same, <2>1, UnpoppedKept
<1>7. QED
  BY <1>1, <1>2, <1>3, <1>4, <1>5, <1>6, NextCases

(* What the scan of an out-of-order queue looks at was not done yet.       *)
LEMMA NewUnpopped ==
    ASSUME IInv, SubmittedInv, CountInv, SubmitOutOfOrder
    PROVE  /\ status[new_commands[cur][idx]] = QUEUED
           /\ new_commands[cur][idx] \in Unpopped(cur)
<1> DEFINE e == new_commands[cur][idx]
<1>1. /\ cur \in Queues /\ cur \notin InOrder /\ cur # UserQueue
      /\ idx \in 1..Len(new_commands[cur])
      /\ new_commands[cur] \in Seq(IdleOf(cur)) /\ e \in IdleOf(cur)
  BY NewNext
<1>2. e \in ToSet(new_commands[cur])
  BY <1>1, PositionsOf
<1>3. status[e] = QUEUED
  BY <1>1, <1>2 DEF CountInv, NewQueued
<1>4. e \in Commands /\ life[e] # "new" /\ QueueOf(e) = cur /\ ~Done(e)
  BY <1>1, <1>3 DEF IdleOf, Of, Done, QUEUED, COMPLETE
<1> HIDE DEF e
<1>5. e \in Unpopped(cur)
  BY <1>4, NotDoneUnpopped
<1>6. QED
  BY <1>3, <1>5 DEF e

LEMMA NewQueuedStep ==
    ASSUME IInv, SubmittedInv, CountInv, TerminatesInOrder, [Next]_vars,
           NEW q \in Queues, q \notin InOrder, q # UserQueue
    PROVE  NewQueued(q)'
<1>0. /\ TypeOK /\ new_commands[q] \in Seq(IdleOf(q))
      /\ \A d \in ToSet(new_commands[q]) : status[d] = QUEUED
      /\ IsInjective(new_commands[q])
  BY DEF IInv, ListsInv, NewList, CountInv, NewQueued
<1>idle. \A d \in ToSet(new_commands[q]) : d \in IdleOf(q)
  BY <1>0, PositionsOf
<1>same. ASSUME \A d \in ToSet(new_commands'[q]) :
                  d \in ToSet(new_commands[q]) /\ status'[d] = status[d]
         PROVE  NewQueued(q)'
  BY <1>0, <1>same DEF NewQueued
<1>but. ASSUME NEW e \in Commands, e \notin ToSet(new_commands[q]),
               new_commands'[q] = new_commands[q],
               \A d \in Commands \ {e} : status'[d] = status[d]
        PROVE  NewQueued(q)'
  BY <1>idle, <1>same, <1>but DEF IdleOf, Of
<1> USE DEF objects, queues, device, control
<1>1. CASE Quiet
  BY <1>1, <1>same, QuietChange
<1>2. ASSUME NEW e \in Commands, Enqueue(e) PROVE NewQueued(q)'
  <2>1. e \notin ToSet(new_commands[q])
    BY <1>2, <1>idle DEF IdleOf, Of, Enqueue, Enqueueable
  <2>2. /\ \A d \in Commands \ {e} : status'[d] = status[d]
        /\ status'[e] = IF Command[e].kind = "user" THEN SUBMITTED ELSE QUEUED
    BY <1>0, <1>2 DEF TypeOK, Enqueue
  <2>3. CASE QueueOf(e) # q
    <3>1. new_commands'[q] = new_commands[q]
      BY <1>0, <1>2, <2>3 DEF TypeOK, Enqueue
    <3>2. QED
      BY <1>but, <2>1, <2>2, <3>1
  <2>4. CASE QueueOf(e) = q
    <3>1. new_commands'[q] = Append(new_commands[q], e)
      BY <1>0, <1>2, <2>4 DEF TypeOK, Enqueue
    <3>2. ToSet(Append(new_commands[q], e)) = ToSet(new_commands[q]) \cup {e}
      BY <1>0, AppendMembers
    <3>3. status'[e] = QUEUED
      BY <2>2, <2>4, CommandFacts
    <3>4. \A d \in ToSet(new_commands[q]) : status'[d] = QUEUED
      BY <1>0, <1>idle, <2>1, <2>2 DEF IdleOf, Of
    <3>5. QED
      BY <3>1, <3>2, <3>3, <3>4 DEF NewQueued
  <2>5. QED
    BY <2>3, <2>4
<1>3. ASSUME NEW e \in Commands, Release(e) PROVE NewQueued(q)'
  BY <1>3, <1>same DEF Release
<1>4. ASSUME NEW e \in Commands, NEW s \in UserStatuses, SetUserEventStatus(e, s)
      PROVE  NewQueued(q)'
  <2>1. e \notin ToSet(new_commands[q])
    BY <1>4, <1>idle, CommandFacts DEF SetUserEventStatus, IdleOf, Of
  <2>2. \A d \in Commands \ {e} : status'[d] = status[d]
    BY <1>0, <1>4 DEF TypeOK, SetUserEventStatus
  <2>3. new_commands'[q] = new_commands[q]
    BY <1>4 DEF SetUserEventStatus
  <2>4. QED
    BY <1>but, <2>1, <2>2, <2>3
<1>5. ASSUME NEW e \in Commands, Start(e) \/ Run(e) \/ End(e)
      PROVE  NewQueued(q)'
  <2>1. op[e] # None /\ new_commands'[q] = new_commands[q]
    BY <1>5, NoneFacts
    DEF Start, Run, End, QUEUED, SUBMITTED, RUNNING, COMPLETE
  <2>2. \E s : status' = [status EXCEPT ![e] = s]
    BY <1>5 DEF Start, Run, End
  <2>3. \A d \in Commands \ {e} : status'[d] = status[d]
    BY <1>0, <2>2 DEF TypeOK
  <2>4. e \notin ToSet(new_commands[q])
    BY <1>idle, <2>1 DEF IdleOf
  <2>5. QED
    BY <1>but, <2>1, <2>3, <2>4
<1>6. CASE PopCompleted
  <2> DEFINE e == Head(completed[cur])
  <2>1. e \in Commands
    BY <1>6, CompletedHead DEF DoneOf, Of
  <2>2. \A d \in Commands : d \notin Terminated(e) => status'[d] = status[d]
    BY <1>6 DEF PopCompleted
  <2>3. \A d \in Terminated(e) : QueueOf(d) \in InOrder
    BY <2>1 DEF TerminatesInOrder
  <2> HIDE DEF e
  <2>4. new_commands'[q] = new_commands[q]
    BY <1>6 DEF PopCompleted
  <2>5. QED
    BY <1>idle, <1>same, <2>2, <2>3, <2>4 DEF IdleOf, Of
<1>7. CASE PopInOrder
  BY <1>7, <1>same DEF PopInOrder
<1>8. CASE ForgetUserEvents
  <2>1. UNCHANGED status /\ new_commands'[q] = new_commands[q]
    BY <1>0, <1>8 DEF TypeOK, ForgetUserEvents
  <2>2. QED
    BY <1>same, <2>1
<1>9. CASE SubmitOutOfOrder
  <2> DEFINE e == new_commands[cur][idx]
  <2>1. /\ e \in Commands /\ QueueOf(e) = cur /\ cur \in Queues
        /\ idx \in 1..Len(new_commands[cur])
    BY <1>9, NewNext DEF IdleOf, Of
  <2>2. CASE ~(ReadyOutOfOrder(e) /\ SubmitSucceeds(e))
    <3>1. UNCHANGED <<status, new_commands>>
      BY <1>9, <2>2 DEF SubmitOutOfOrder
    <3>2. QED
      BY <1>same, <3>1
  <2>3. CASE ReadyOutOfOrder(e) /\ SubmitSucceeds(e)
    <3>1. /\ new_commands' =
               [new_commands EXCEPT ![cur] = RemoveAt(new_commands[cur], idx)]
          /\ SubmitCommand(e)
      BY <1>9, <2>3 DEF SubmitOutOfOrder
    <3>2. \A d \in Commands \ {e} : status'[d] = status[d]
      BY <1>0, <3>1 DEF TypeOK, SubmitCommand
    <3>3. CASE q = cur
      <4>1. new_commands'[q] = RemoveAt(new_commands[q], idx)
        BY <1>0, <3>1, <3>3 DEF TypeOK
      <4>2. ToSet(RemoveAt(new_commands[q], idx)) = ToSet(new_commands[q]) \ {e}
        BY <1>0, <2>1, <3>3, RemoveMembers
      <4> HIDE DEF e
      <4>3. QED
        BY <1>idle, <1>same, <3>2, <4>1, <4>2 DEF IdleOf, Of
    <3>4. CASE q # cur
      <4>1. new_commands'[q] = new_commands[q]
        BY <1>0, <3>1, <3>4 DEF TypeOK
      <4> HIDE DEF e
      <4>2. e \notin ToSet(new_commands[q])
        BY <1>idle, <2>1, <3>4 DEF IdleOf, Of
      <4>3. QED
        BY <1>but, <2>1, <3>2, <4>1, <4>2
    <3>5. QED
      BY <3>3, <3>4
  <2>4. QED
    BY <2>2, <2>3
<1>10. CASE SubmitInOrder
  <2> DEFINE e == inorder[cur][idx]
  <2>1. e \in Commands /\ QueueOf(e) = cur /\ cur \in InOrder
    BY <1>10, InOrderNext DEF Of
  <2>2. /\ SubmitCommand(e) \/ UNCHANGED status
        /\ new_commands'[q] = new_commands[q]
    BY <1>10 DEF SubmitInOrder
  <2> HIDE DEF e
  <2>3. e \notin ToSet(new_commands[q])
    BY <1>idle, <2>1 DEF IdleOf, Of
  <2>4. \A d \in Commands \ {e} : status'[d] = status[d]
    BY <1>0, <2>2 DEF TypeOK, SubmitCommand
  <2>5. QED
    BY <1>but, <2>1, <2>2, <2>3, <2>4
<1>11. QED
  BY <1>1, <1>2, <1>3, <1>4, <1>5, <1>6, <1>7, <1>8, <1>9, <1>10, NextCases

LEMMA CountedOutOfOrderStep ==
    ASSUME IInv, SubmittedInv, CountInv, TerminatesInOrder, [Next]_vars,
           NEW q \in Queues, q \notin InOrder
    PROVE  CountedOutOfOrder(q)'
<1>0. /\ TypeOK /\ commands[q] = Unpopped(q)
      /\ completed[q] \in Seq(DoneOf(q)) /\ completed[q] \in Seq(Commands)
      /\ ToSet(completed[q]) \subseteq Unpopped(q) /\ IsInjective(completed[q])
  BY DEF IInv, TypeOK, ListsInv, CompletedList, CountInv, CountedOutOfOrder
<1>same. ASSUME commands'[q] = commands[q], completed'[q] = completed[q],
                Unpopped(q)' = Unpopped(q)
         PROVE  CountedOutOfOrder(q)'
  BY <1>0, <1>same DEF CountedOutOfOrder
<1>after. ASSUME NEW e \in Commands, NEW s, completed' = CompletedAfter(e, s),
                 life[e] # "new", ~Done(e),
                 commands' = commands, Unpopped(q)' = Unpopped(q)
          PROVE  CountedOutOfOrder(q)'
  <2>1. \/ completed'[q] = completed[q]
        \/ completed'[q] = Append(completed[q], e) /\ q = QueueOf(e)
    BY <1>0, <1>after DEF TypeOK, CompletedAfter
  <2>2. CASE completed'[q] = Append(completed[q], e) /\ q = QueueOf(e)
    <3>1. e \in Unpopped(q)
      BY <1>after, <2>2, NotDoneUnpopped
    <3>2. ToSet(Append(completed[q], e)) = ToSet(completed[q]) \cup {e}
      BY <1>0, AppendMembers
    <3>3. e \notin DoneOf(q)
      BY <1>after DEF DoneOf
    <3>4. IsInjective(Append(completed[q], e))
      BY <1>0, <3>3, AppendInjectiveSeq
    <3>5. QED
      BY <1>0, <1>after, <2>2, <3>1, <3>2, <3>4 DEF CountedOutOfOrder
  <2>3. CASE completed'[q] = completed[q]
    BY <1>after, <1>same, <2>3
  <2>4. QED
    BY <2>1, <2>2, <2>3
<1> USE DEF objects, queues, device, control
<1>1. CASE Quiet
  BY <1>1, <1>same, QuietChange, UnpoppedKept
<1>2. ASSUME NEW e \in Commands, Enqueue(e) PROVE CountedOutOfOrder(q)'
  <2>1. Unpopped(q)' = Unpopped(q) \cup (IF QueueOf(e) = q THEN {e} ELSE {})
    BY <1>2, UnpoppedEnqueue
  <2>2. /\ UNCHANGED completed
        /\ commands'[q] =
             commands[q] \cup (IF QueueOf(e) = q THEN {e} ELSE {})
    <3>1. DOMAIN commands = Queues /\ q \notin InOrder
      BY <1>0 DEF TypeOK
    <3>2. /\ UNCHANGED completed
          /\ QueueOf(e) \in InOrder => commands' = commands
          /\ QueueOf(e) \notin InOrder =>
               commands' = [commands EXCEPT ![QueueOf(e)] = @ \cup {e}]
      BY <1>2 DEF Enqueue
    <3>3. QED
      BY <1>0, <3>1, <3>2
  <2>3. QED
    BY <1>0, <2>1, <2>2 DEF CountedOutOfOrder
<1>3. ASSUME NEW e \in Commands, Release(e) \/ Start(e) \/ Run(e)
      PROVE  CountedOutOfOrder(q)'
  <2>1. UNCHANGED <<commands, completed>>
    BY <1>3 DEF Release, Start, Run
  <2>2. Unpopped(q)' = Unpopped(q)
    BY <1>3, UnpoppedKept
  <2>3. QED
    BY <1>same, <2>1, <2>2
<1>4. ASSUME NEW e \in Commands, NEW s \in UserStatuses, SetUserEventStatus(e, s)
      PROVE  CountedOutOfOrder(q)'
  <2>1. /\ completed' = CompletedAfter(e, s) /\ UNCHANGED commands
        /\ life[e] # "new" /\ ~Done(e)
    BY <1>4 DEF SetUserEventStatus
  <2>2. Unpopped(q)' = Unpopped(q)
    BY <1>4, UnpoppedKept
  <2>3. QED
    BY <1>after, <2>1, <2>2
<1>5. ASSUME NEW e \in Commands, End(e) PROVE CountedOutOfOrder(q)'
  <2>1. /\ \E s : completed' = CompletedAfter(e, s)
        /\ UNCHANGED commands /\ op[e] = RUNNING
    BY <1>5 DEF End
  <2>2. life[e] # "new" /\ ~Done(e)
    BY <2>1, NoneFacts DEF IInv, OpInv, RUNNING, QUEUED, COMPLETE
  <2>3. Unpopped(q)' = Unpopped(q)
    BY <1>5, UnpoppedKept
  <2>4. QED
    BY <1>after, <2>1, <2>2, <2>3
<1>6. CASE PopCompleted
  <2> DEFINE e == Head(completed[cur])
  <2>1. /\ e \in Unpopped(cur) /\ e \in Commands /\ QueueOf(e) = cur
        /\ ToSet(Tail(completed[cur])) \subseteq Unpopped(cur) \ {e}
        /\ IsInjective(Tail(completed[cur]))
    BY <1>6, HeadUnpopped DEF Unpopped
  <2>2. popped' = [popped EXCEPT ![e] = TRUE] /\ life' \in {life, LifeAfter(e)}
    BY <1>6 DEF PopCompleted
  <2>3. Unpopped(q)' = Unpopped(q) \ {e}
    BY <2>1, <2>2, UnpoppedPop
  <2>4. TerminatedOn(q, e) = <<>>
    BY <2>1, TerminatedNone
  <2>5. completed'[q] = (IF q = cur THEN Tail(completed[q]) ELSE completed[q])
                          \o TerminatedOn(q, e)
    BY <1>6 DEF PopCompleted
  <2>6. commands'[q] = IF q = cur THEN commands[q] \ {e} ELSE commands[q]
    BY <1>0, <1>6 DEF TypeOK, PopCompleted
  <2>7. Tail(completed[cur]) \in Seq(DoneOf(cur))
    BY <1>6, CompletedHead
  <2> HIDE DEF e
  <2>8. CASE q = cur
    <3>1. completed'[q] = Tail(completed[q])
      BY <2>4, <2>5, <2>7, <2>8, ConcatEmptySeq
    <3>2. QED
      BY <1>0, <2>1, <2>3, <2>6, <2>8, <3>1 DEF CountedOutOfOrder
  <2>9. CASE q # cur
    <3>1. completed'[q] = completed[q]
      BY <1>0, <2>4, <2>5, <2>9, ConcatEmptySeq
    <3>2. Unpopped(q)' = Unpopped(q)
      BY <2>1, <2>3, <2>9 DEF Unpopped
    <3>3. QED
      BY <1>same, <2>6, <2>9, <3>1, <3>2
  <2>10. QED
    BY <2>8, <2>9
<1>7. CASE PopInOrder
  <2> DEFINE e == inorder[cur][idx]
  <2>1. e \in Commands /\ QueueOf(e) = cur /\ cur \in InOrder
    BY <1>7, InOrderNext DEF Of
  <2>2. UNCHANGED <<commands, completed>>
    BY <1>7 DEF PopInOrder
  <2>3. \/ UNCHANGED <<life, popped>>
        \/ popped' = [popped EXCEPT ![e] = TRUE] /\ life' \in {life, LifeAfter(e)}
    BY <1>7 DEF PopInOrder
  <2> HIDE DEF e
  <2>4. Unpopped(q)' \in {Unpopped(q), Unpopped(q) \ {e}}
    <3>1. CASE UNCHANGED <<life, popped>>
      BY <3>1 DEF Unpopped, QueueOf
    <3>2. QED
      BY <2>1, <2>3, <3>1, UnpoppedPop
  <2>5. e \notin Unpopped(q)
    BY <2>1 DEF Unpopped
  <2>6. QED
    BY <1>same, <2>2, <2>4, <2>5
<1>8. CASE ForgetUserEvents
  <2>1. UNCHANGED <<commands, completed>>
    BY <1>8 DEF ForgetUserEvents
  <2>2. QED
    BY <1>8, <1>same, <2>1, UnpoppedKept
<1>9. CASE SubmitOutOfOrder
  <2> DEFINE e == new_commands[cur][idx]
  <2>1. /\ e \in Commands /\ life[e] # "new" /\ status[e] = QUEUED
        /\ UNCHANGED commands
    BY <1>9, NewNext, NewUnpopped DEF IdleOf, Of, SubmitOutOfOrder
  <2>2. UNCHANGED completed \/ \E s : completed' = CompletedAfter(e, s)
    BY <1>9 DEF SubmitOutOfOrder, SubmitCommand
  <2>3. Unpopped(q)' = Unpopped(q)
    BY <1>9, UnpoppedKept
  <2>4. ~Done(e)
    BY <2>1 DEF Done, QUEUED, COMPLETE
  <2> HIDE DEF e
  <2>5. QED
    BY <1>after, <1>same, <2>1, <2>2, <2>3, <2>4
<1>10. CASE SubmitInOrder
  <2> DEFINE e == inorder[cur][idx]
  <2>1. e \in Commands /\ QueueOf(e) \in InOrder
    BY <1>10, InOrderNext DEF Of
  <2>2. UNCHANGED completed \/ \E s : completed' = CompletedAfter(e, s)
    BY <1>10 DEF SubmitInOrder, SubmitCommand
  <2>3. UNCHANGED <<commands, completed>>
    BY <1>10, <2>1, <2>2 DEF CompletedAfter, SubmitInOrder, SubmitCommand
  <2>4. Unpopped(q)' = Unpopped(q)
    BY <1>10, UnpoppedKept
  <2>5. QED
    BY <1>same, <2>3, <2>4
<1>11. QED
  BY <1>1, <1>2, <1>3, <1>4, <1>5, <1>6, <1>7, <1>8, <1>9, <1>10, NextCases

(* The queue of the user events.                                           *)
LEMMA UserStep ==
    ASSUME IInv, SubmittedInv, CountInv, UserInv, [Next]_vars
    PROVE  UserInv'
<1>0. /\ TypeOK /\ UserQueue \in Queues /\ UserQueue \notin InOrder
      /\ new_commands[UserQueue] \in Seq(Commands)
  BY QueueFacts DEF IInv, TypeOK
<1>rest. at \notin {"pop", "submit"} =>
           idx = 1 /\ ToSet(new_commands[UserQueue]) \subseteq Unpopped(UserQueue)
  BY DEF UserInv, Forgetting
<1> USE DEF objects, queues, device, control
<1>1. ASSUME NEW e \in Commands, Enqueue(e) PROVE UserInv'
  <2>1. /\ at = "asleep" /\ at' \in {"asleep", "round"}
        /\ UNCHANGED <<cur, idx>>
    BY <1>1 DEF Enqueue, Enqueueable, StartRound
  <2>2. Unpopped(UserQueue)' =
          Unpopped(UserQueue) \cup (IF QueueOf(e) = UserQueue THEN {e} ELSE {})
    BY <1>1, UnpoppedEnqueue
  <2>3. CASE QueueOf(e) = UserQueue
    <3>1. new_commands'[UserQueue] = Append(new_commands[UserQueue], e)
      BY <1>0, <1>1, <2>3 DEF TypeOK, Enqueue
    <3>2. ToSet(Append(new_commands[UserQueue], e)) =
            ToSet(new_commands[UserQueue]) \cup {e}
      BY <1>0, AppendMembers
    <3>3. QED
      BY <1>rest, <2>1, <2>2, <2>3, <3>1, <3>2 DEF UserInv
  <2>4. CASE QueueOf(e) # UserQueue
    <3>1. new_commands'[UserQueue] = new_commands[UserQueue]
      BY <1>0, <1>1, <2>4 DEF TypeOK, Enqueue
    <3>2. QED
      BY <1>rest, <2>1, <2>2, <2>4, <3>1 DEF UserInv
  <2>5. QED
    BY <2>3, <2>4
<1>2. ASSUME NEW e \in Commands,
             Release(e) \/ \E s \in UserStatuses : SetUserEventStatus(e, s)
      PROVE  UserInv'
  <2>1. /\ at = "asleep" /\ at' \in {"asleep", "round"}
        /\ UNCHANGED <<cur, idx, new_commands>>
    BY <1>2 DEF Release, SetUserEventStatus, StartRound
  <2>2. Unpopped(UserQueue)' = Unpopped(UserQueue)
    BY <1>2, UnpoppedKept
  <2>3. QED
    BY <1>rest, <2>1, <2>2 DEF UserInv
<1>3. ASSUME NEW e \in Commands, Start(e) \/ Run(e) \/ End(e) \/ Interrupt(e)
      PROVE  UserInv'
  <2>1. UNCHANGED <<at, cur, idx, new_commands>>
    BY <1>3 DEF Start, Run, End, Interrupt
  <2>2. Unpopped(UserQueue)' = Unpopped(UserQueue)
    BY <1>3, UnpoppedKept DEF Quiet
  <2>3. QED
    BY <2>1, <2>2 DEF UserInv, Forgetting
<1>4. CASE Wake \/ EndRound \/ \E q \in Queues : UpdateQueue(q)
  <2>1. /\ at \in {"asleep", "round"} /\ at' \notin {"pop", "submit"}
        /\ UNCHANGED <<idx, new_commands>>
    BY <1>4 DEF Wake, EndRound, UpdateQueue, StartRound
  <2>2. Unpopped(UserQueue)' = Unpopped(UserQueue)
    BY <1>4, UnpoppedKept DEF Quiet
  <2>3. QED
    BY <1>rest, <2>1, <2>2 DEF UserInv
<1>5. CASE Nudged \/ Popped
  <2>1. /\ at \in {"nudge", "pop"} /\ at' \in {"pop", "submit"}
        /\ UNCHANGED <<cur, idx, new_commands>>
    BY <1>5 DEF Nudged, Popped
  <2>2. Unpopped(UserQueue)' = Unpopped(UserQueue)
    BY <1>5, UnpoppedKept DEF Quiet
  <2>3. QED
    BY <2>1, <2>2 DEF UserInv, Forgetting
<1>6. CASE Submitted
  <2>1. /\ at = "submit" /\ at' = "round" /\ cur' = UserQueue /\ idx' = 1
        /\ UNCHANGED new_commands
    BY <1>6 DEF Submitted
  <2>2. Unpopped(UserQueue)' = Unpopped(UserQueue)
    BY <1>6, UnpoppedKept DEF Quiet
  <2>3. ToSet(new_commands[UserQueue]) \subseteq Unpopped(UserQueue)
    <3>1. CASE cur # UserQueue
      BY <3>1 DEF UserInv, Forgetting
    <3>2. CASE cur = UserQueue
      <4>1. idx = 1 /\ idx > Len(new_commands[UserQueue])
        BY <1>0, <1>6, <3>2 DEF UserInv, Submitted
      <4>2. Len(new_commands[UserQueue]) = 0
        BY <1>0, <4>1, LenProperties
      <4>3. ToSet(new_commands[UserQueue]) = {}
        BY <1>0, <4>2, PositionsOf
      <4>4. QED
        BY <4>3
    <3>3. QED
      BY <3>1, <3>2
  <2>4. QED
    BY <2>1, <2>2, <2>3 DEF UserInv
<1>7. CASE PopCompleted
  <2>1. at = "pop" /\ UNCHANGED <<at, cur, idx, new_commands>>
    BY <1>7 DEF PopCompleted
  <2>2. CASE cur = UserQueue
    BY <2>1, <2>2 DEF UserInv, Forgetting
  <2>3. CASE cur # UserQueue
    <3> DEFINE e == Head(completed[cur])
    <3>1. e \in Commands /\ QueueOf(e) = cur
      BY <1>7, CompletedHead DEF DoneOf, Of
    <3>2. popped' = [popped EXCEPT ![e] = TRUE] /\ life' \in {life, LifeAfter(e)}
      BY <1>7 DEF PopCompleted
    <3> HIDE DEF e
    <3>3. Unpopped(UserQueue)' = Unpopped(UserQueue) \ {e}
      BY <3>1, <3>2, UnpoppedPop
    <3>4. e \notin Unpopped(UserQueue)
      BY <2>3, <3>1 DEF Unpopped
    <3>5. QED
      BY <2>1, <3>3, <3>4 DEF UserInv, Forgetting
  <2>4. QED
    BY <2>2, <2>3
<1>8. CASE PopInOrder
  <2> DEFINE e == inorder[cur][idx]
  <2>1. e \in Commands /\ QueueOf(e) = cur /\ cur # UserQueue
    BY <1>0, <1>8, InOrderNext DEF Of
  <2>2. at = "pop" /\ UNCHANGED <<at, cur, new_commands>>
    BY <1>8 DEF PopInOrder
  <2>3. \/ UNCHANGED <<life, popped>>
        \/ popped' = [popped EXCEPT ![e] = TRUE] /\ life' \in {life, LifeAfter(e)}
    BY <1>8 DEF PopInOrder
  <2> HIDE DEF e
  <2>4. Unpopped(UserQueue)' \in {Unpopped(UserQueue), Unpopped(UserQueue) \ {e}}
    <3>1. CASE UNCHANGED <<life, popped>>
      BY <3>1 DEF Unpopped, QueueOf
    <3>2. QED
      BY <2>1, <2>3, <3>1, UnpoppedPop
  <2>5. e \notin Unpopped(UserQueue)
    BY <2>1 DEF Unpopped
  <2>6. QED
    BY <2>1, <2>2, <2>4, <2>5 DEF UserInv, Forgetting
<1>9. CASE SubmitOutOfOrder \/ SubmitInOrder
  <2>1. /\ at = "submit" /\ cur # UserQueue /\ UNCHANGED <<at, cur>>
        /\ new_commands'[UserQueue] = new_commands[UserQueue]
    BY <1>0, <1>9
    DEF TypeOK, SubmitOutOfOrder, SubmitInOrder
  <2>2. Unpopped(UserQueue)' = Unpopped(UserQueue)
    BY <1>9, UnpoppedKept
  <2>3. QED
    BY <2>1, <2>2 DEF UserInv, Forgetting
<1>10. CASE ForgetUserEvents
  <2>1. at = "submit" /\ cur = UserQueue /\ UNCHANGED <<at, cur, idx>>
    BY <1>10 DEF ForgetUserEvents
  <2>2. QED
    BY <2>1 DEF UserInv, Forgetting
<1>11. CASE UNCHANGED vars
  <2>1. UNCHANGED <<at, cur, idx, new_commands>>
    BY <1>11 DEF vars
  <2>2. Unpopped(UserQueue)' = Unpopped(UserQueue)
    BY <1>11, UnpoppedKept DEF Quiet
  <2>3. QED
    BY <2>1, <2>2 DEF UserInv, Forgetting
<1>12. QED
  BY <1>1, <1>2, <1>3, <1>4, <1>5, <1>6, <1>7, <1>8, <1>9, <1>10, <1>11,
     NextCases DEF Quiet

LEMMA CountInvStep ==
    ASSUME IInv, SubmittedInv, CountInv, TerminatesInOrder, [Next]_vars
    PROVE  CountInv'
<1> SUFFICES ASSUME NEW q \in Queues
             PROVE  /\ Counted(q)' /\ CountedInOrder(q)'
                    /\ CountedOutOfOrder(q)' /\ NewQueued(q)'
  BY DEF CountInv
<1>1. Counted(q)'
  BY CountedStep
<1>2. CountedInOrder(q)'
  BY CountedInOrderStep DEF CountedInOrder
<1>3. CountedOutOfOrder(q)'
  BY CountedOutOfOrderStep DEF CountedOutOfOrder
<1>4. NewQueued(q)'
  BY NewQueuedStep DEF NewQueued
<1>5. QED
  BY <1>1, <1>2, <1>3, <1>4

LEMMA InitCount ==
    ASSUME Init
    PROVE  CountInv /\ UserInv
<1>1. \A q : Unpopped(q) = {}
  BY DEF Init, Unpopped
<1>2. ToSet(<<>>) = {} /\ IsInjective(<<>>)
  BY DEF ToSet, IsInjective
<1>3. CountInv
  BY <1>1, <1>2, FS_EmptySet
  DEF Init, CountInv, Counted, CountedInOrder, CountedOutOfOrder, NewQueued
<1>4. UserInv
  BY <1>1, <1>2, QueueFacts DEF Init, UserInv
<1>5. QED
  BY <1>3, <1>4

(* num_commands of every queue counts the events in it, and between the    *)
(* updates its lists hold them once each, as long as a user event that     *)
(* fails terminates only commands of in-order queues.                      *)
THEOREM CommandsCounted ==
    Spec /\ []TerminatesInOrder => []CountsItsCommands
<1> DEFINE J == IInv /\ SubmittedInv /\ CountInv /\ UserInv
<1>1. Init => J
  BY InitInv, InitSubmitted, InitCount
<1>2. J /\ TerminatesInOrder /\ [Next]_vars => J'
  BY NextInv, SubmittedStep, CountInvStep, UserStep
<1>3. ASSUME J PROVE CountsItsCommands
  <2> SUFFICES ASSUME BetweenUpdates, NEW q \in Queues
               PROVE  /\ num_commands[q] = Cardinality(Unpopped(q))
                      /\ q \in InOrder => /\ ToSet(inorder[q]) = Unpopped(q)
                                          /\ IsInjective(inorder[q])
                      /\ q \notin InOrder =>
                           /\ commands[q] = Unpopped(q)
                           /\ ToSet(new_commands[q]) \cup ToSet(completed[q])
                                \subseteq commands[q]
                           /\ IsInjective(new_commands[q])
                           /\ IsInjective(completed[q])
    BY DEF CountsItsCommands
  <2>1. /\ Counted(q) /\ CountedInOrder(q) /\ CountedOutOfOrder(q)
        /\ NewQueued(q) /\ NewList(q) /\ new_commands[q] \in Seq(IdleOf(q))
    BY <1>3 DEF IInv, ListsInv, NewList, CountInv
  <2>2. q \notin InOrder => ToSet(new_commands[q]) \subseteq Unpopped(q)
    <3>1. CASE q = UserQueue
      BY <1>3, <3>1 DEF UserInv, Forgetting, BetweenUpdates
    <3>2. CASE q # UserQueue /\ q \notin InOrder
      <4> SUFFICES ASSUME NEW e \in ToSet(new_commands[q])
                   PROVE  e \in Unpopped(q)
        OBVIOUS
      <4>1. e \in IdleOf(q) /\ status[e] = QUEUED
        BY <2>1, <3>2, PositionsOf DEF NewQueued
      <4>2. /\ e \in Commands /\ life[e] # "new" /\ QueueOf(e) = q
            /\ ~Done(e)
        BY <4>1 DEF IdleOf, Of, Done, QUEUED, COMPLETE
      <4>3. QED
        BY <1>3, <4>2, NotDoneUnpopped
    <3>3. QED
      BY <3>1, <3>2
  <2>3. QED
    BY <2>1, <2>2
    DEF Counted, CountedInOrder, CountedOutOfOrder, NewList
<1>4. QED
  BY <1>1, <1>2, <1>3, PTL DEF Spec

----------------------------------------------------------------------------
(* The assertions.  Past the scan of an in-order queue: not to be          *)
(* submitted (any more).                                                   *)
Past(e) == status[e] # QUEUED \/ on_doq[e]

LEMMA PastStep ==
    ASSUME IInv, [Next]_vars, NEW d \in Commands, life[d] # "new"
    PROVE  /\ Past(d) => Past(d)'
           /\ on_doq[d] => on_doq'[d]
<1>0. TypeOK
  BY DEF IInv
<1>same. ASSUME status'[d] = status[d], on_doq'[d] = on_doq[d]
         PROVE  (Past(d) => Past(d)') /\ (on_doq[d] => on_doq'[d])
  BY <1>same DEF Past
<1>other. ASSUME status'[d] # QUEUED, on_doq'[d] = on_doq[d]
          PROVE  (Past(d) => Past(d)') /\ (on_doq[d] => on_doq'[d])
  BY <1>other DEF Past
<1> USE DEF objects, queues, device, control
<1>1. CASE Quiet
  BY <1>1, <1>same, QuietChange
<1>2. ASSUME NEW e \in Commands, Enqueue(e)
      PROVE  (Past(d) => Past(d)') /\ (on_doq[d] => on_doq'[d])
  <2>1. d # e
    BY <1>2 DEF Enqueue, Enqueueable
  <2>2. status'[d] = status[d] /\ on_doq'[d] = on_doq[d]
    BY <1>0, <1>2, <2>1 DEF TypeOK, Enqueue
  <2>3. QED
    BY <1>same, <2>2
<1>3. ASSUME NEW e \in Commands, Release(e)
      PROVE  (Past(d) => Past(d)') /\ (on_doq[d] => on_doq'[d])
  BY <1>3, <1>same DEF Release
<1>4. ASSUME NEW e \in Commands, NEW s \in UserStatuses, SetUserEventStatus(e, s)
      PROVE  (Past(d) => Past(d)') /\ (on_doq[d] => on_doq'[d])
  <2>1. /\ status' = [status EXCEPT ![e] = s] /\ UNCHANGED on_doq
        /\ s \in Int /\ s <= COMPLETE
    BY <1>4, StatusAssumption DEF SetUserEventStatus
  <2>2. status'[d] = IF d = e THEN s ELSE status[d]
    BY <1>0, <2>1 DEF TypeOK
  <2>3. s # QUEUED
    BY <2>1 DEF QUEUED, COMPLETE
  <2>4. QED
    BY <1>same, <1>other, <2>1, <2>2, <2>3
<1>5. ASSUME NEW e \in Commands, Start(e) \/ Run(e) \/ End(e)
      PROVE  (Past(d) => Past(d)') /\ (on_doq[d] => on_doq'[d])
  <2>1. /\ UNCHANGED on_doq
        /\ \E s \in {SUBMITTED, RUNNING, COMPLETE, FAILED} :
             status' = [status EXCEPT ![e] = s]
    <3>1. CASE Start(e)
      BY <3>1 DEF Start
    <3>2. CASE Run(e)
      BY <3>2 DEF Run
    <3>3. CASE End(e)
      BY <3>3 DEF End
    <3>4. QED
      BY <1>5, <3>1, <3>2, <3>3
  <2>2. PICK s \in {SUBMITTED, RUNNING, COMPLETE, FAILED} :
          status' = [status EXCEPT ![e] = s]
    BY <2>1
  <2>3. status'[d] = IF d = e THEN s ELSE status[d]
    BY <1>0, <2>2 DEF TypeOK
  <2>4. s # QUEUED
    BY DEF QUEUED, SUBMITTED, RUNNING, COMPLETE, FAILED
  <2>5. QED
    BY <1>same, <1>other, <2>1, <2>3, <2>4
<1>6. CASE PopCompleted
  <2> DEFINE e == Head(completed[cur])
  <2>1. e \in Commands /\ Done(e)
    BY <1>6, CompletedHead DEF DoneOf, Of
  <2>2. /\ UNCHANGED on_doq
        /\ status'[d] = IF d \in Terminated(e) THEN status[e] ELSE status[d]
    BY <1>6 DEF PopCompleted
  <2> HIDE DEF e
  <2>3. status[e] \in Int
    BY <1>0, <2>1, StatusIsInt
  <2>4. status[e] # QUEUED
    BY <2>1, <2>3 DEF Done, QUEUED, COMPLETE
  <2>5. QED
    BY <1>same, <1>other, <2>2, <2>4
<1>7. CASE PopInOrder \/ ForgetUserEvents
  BY <1>7, <1>same DEF PopInOrder, ForgetUserEvents
<1>8. ASSUME NEW e \in Commands, SubmitCommand(e)
      PROVE  (Past(d) => Past(d)') /\ (on_doq[d] => on_doq'[d])
  <2>1. /\ status' = status \/ \E s \in {COMPLETE, FAILED} :
                                 status' = [status EXCEPT ![e] = s]
        /\ on_doq' = on_doq \/ on_doq' = [on_doq EXCEPT ![e] = TRUE]
    BY <1>8 DEF SubmitCommand
  <2>2. /\ status'[d] = status[d] \/ status'[d] \in {COMPLETE, FAILED}
        /\ on_doq'[d] = on_doq[d] \/ on_doq'[d] = TRUE
    BY <1>0, <2>1 DEF TypeOK
  <2>3. status'[d] = status[d] \/ status'[d] # QUEUED
    BY <2>2 DEF QUEUED, COMPLETE, FAILED
  <2>4. QED
    BY <2>2, <2>3 DEF Past
<1>9. CASE SubmitOutOfOrder
  <2> DEFINE e == new_commands[cur][idx]
  <2>1. e \in Commands
    BY <1>9, NewNext DEF IdleOf, Of
  <2>2. SubmitCommand(e) \/ UNCHANGED <<on_doq, status>>
    BY <1>9 DEF SubmitOutOfOrder
  <2>3. QED
    BY <1>8, <1>same, <2>1, <2>2
<1>10. CASE SubmitInOrder
  <2> DEFINE e == inorder[cur][idx]
  <2>1. e \in Commands
    BY <1>10, InOrderNext DEF Of
  <2>2. SubmitCommand(e) \/ UNCHANGED <<on_doq, status>>
    BY <1>10 DEF SubmitInOrder
  <2>3. QED
    BY <1>8, <1>same, <2>1, <2>2
<1>11. QED
  BY <1>1, <1>2, <1>3, <1>4, <1>5, <1>6, <1>7, <1>9, <1>10, NextCases

(* A failed user event terminates only transfers and markers of in-order   *)
(* queues; a kernel that an in-order queue could submit finds room.        *)
TransfersTerminated ==
    \A e \in Commands : \A d \in Terminated(e) :
        QueueOf(d) \in InOrder /\ ~IsKernel(d)
KernelsFindRoom ==
    at = "submit" /\ cur \in InOrder /\ idx <= Len(inorder[cur]) =>
        LET e == inorder[cur][idx] IN
        IsKernel(e) /\ ~Past(e) /\ ReadyInOrder(idx) => Room

(* In an out-of-order queue, what was submitted or is done waits for       *)
(* nothing; a kernel gets its operation before its status changes.         *)
Freed(e) ==
    /\ /\ life[e] = "live" /\ QueueOf(e) \notin InOrder
       /\ Done(e) \/ op[e] # None \/ QueueOf(e) = UserQueue
       => deps[e] = {}
    /\ life[e] = "live" /\ IsKernel(e) /\ status[e] # QUEUED => op[e] # None
FreeInv == \A e \in Commands : Freed(e)

LEMMA FreeStep ==
    ASSUME IInv, SubmittedInv, CountInv, FreeInv, TransfersTerminated,
           [Next]_vars
    PROVE  FreeInv'
<1> SUFFICES ASSUME NEW d \in Commands PROVE Freed(d)'
  BY DEF FreeInv
<1>0. TypeOK /\ Freed(d)
  BY DEF IInv, FreeInv
<1>same. ASSUME life'[d] = "live" => life[d] = "live",
                status'[d] = status[d], op'[d] = op[d],
                deps'[d] \subseteq deps[d]
         PROVE  Freed(d)'
  BY <1>0, <1>same DEF Freed, Done, QueueOf, IsKernel
<1> USE DEF objects, queues, device, control
<1>1. CASE Quiet
  BY <1>1, <1>same, QuietChange
<1>2. ASSUME NEW e \in Commands, Enqueue(e) PROVE Freed(d)'
  <2>1. /\ UNCHANGED op
        /\ status'[e] = IF Command[e].kind = "user" THEN SUBMITTED ELSE QUEUED
        /\ deps'[e] = DependsOn(e)
    BY <1>0, <1>2 DEF TypeOK, Enqueue
  <2>2. CASE d = e
    <3>1. op'[e] = None
      BY <1>2, <2>1 DEF IInv, LifeInv, Enqueue, Enqueueable
    <3>2. ~Done(e)'
      BY <2>1 DEF Done, SUBMITTED, QUEUED, COMPLETE
    <3>3. QueueOf(e) = UserQueue => deps'[e] = {}
      <4> SUFFICES ASSUME QueueOf(e) = UserQueue PROVE deps'[e] = {}
        OBVIOUS
      <4>1. Command[e].waits = {} /\ ~Command[e].all
        BY QueueAssumption DEF QueueOf
      <4>2. WaitList(e) = {}
        BY <4>1 DEF WaitList
      <4>3. QED
        BY <2>1, <4>2 DEF DependsOn, Unfinished, Barrier
    <3>4. IsKernel(e) => status'[e] = QUEUED
      BY <2>1 DEF IsKernel
    <3>5. QED
      BY <2>2, <3>1, <3>2, <3>3, <3>4 DEF Freed, QueueOf, IsKernel
  <2>3. CASE d # e
    BY <1>0, <1>2, <1>same, <2>3 DEF TypeOK, Enqueue
  <2>4. QED
    BY <2>2, <2>3
<1>3. ASSUME NEW e \in Commands, Release(e) PROVE Freed(d)'
  <2>1. UNCHANGED <<op, status, deps>>
    BY <1>3 DEF Release
  <2>2. life' \in {life, [life EXCEPT ![e] = "freed"]}
    BY <1>3 DEF Release
  <2>3. life'[d] = "live" => life[d] = "live"
    BY <1>0, <2>2 DEF TypeOK
  <2>4. QED
    BY <1>same, <2>1, <2>3
<1>4. ASSUME NEW e \in Commands, NEW s \in UserStatuses, SetUserEventStatus(e, s)
      PROVE  Freed(d)'
  <2>1. /\ UNCHANGED <<life, op, deps>> /\ Command[e].kind = "user"
        /\ \A x \in Commands \ {e} : status'[x] = status[x]
    BY <1>0, <1>4 DEF TypeOK, SetUserEventStatus
  <2>2. CASE d = e
    <3>1. QueueOf(d) = UserQueue /\ ~IsKernel(d)
      BY <2>1, <2>2, CommandFacts DEF IsKernel
    <3>2. QED
      BY <1>0, <2>1, <3>1, QueueFacts DEF Freed, QueueOf, IsKernel
  <2>3. CASE d # e
    BY <1>same, <2>1, <2>3
  <2>4. QED
    BY <2>2, <2>3
<1>5. ASSUME NEW e \in Commands, Start(e) \/ Run(e) \/ End(e) PROVE Freed(d)'
  <2>1. /\ UNCHANGED <<life, deps>> /\ op[e] # None
        /\ \E s \in {SUBMITTED, RUNNING, COMPLETE} : op' = [op EXCEPT ![e] = s]
        /\ \E s : status' = [status EXCEPT ![e] = s]
    <3>1. QUEUED # None /\ SUBMITTED # None /\ RUNNING # None
      BY NoneFacts DEF QUEUED, SUBMITTED, RUNNING, COMPLETE
    <3>2. CASE Start(e)
      BY <3>1, <3>2 DEF Start
    <3>3. CASE Run(e)
      BY <3>1, <3>3 DEF Run
    <3>4. CASE End(e)
      BY <3>1, <3>4 DEF End
    <3>5. QED
      BY <1>5, <3>2, <3>3, <3>4
  <2>2. PICK s \in {SUBMITTED, RUNNING, COMPLETE} : op' = [op EXCEPT ![e] = s]
    BY <2>1
  <2>3. op'[d] = IF d = e THEN s ELSE op[d]
    BY <1>0, <2>2 DEF TypeOK
  <2>4. s # None
    BY NoneFacts DEF QUEUED, SUBMITTED, RUNNING, COMPLETE
  <2>5. CASE d = e
    BY <1>0, <2>1, <2>3, <2>4, <2>5 DEF Freed, QueueOf, IsKernel
  <2>6. CASE d # e
    <3>1. status'[d] = status[d]
      BY <1>0, <2>1, <2>6 DEF TypeOK
    <3>2. QED
      BY <1>same, <2>1, <2>3, <2>6, <3>1
  <2>7. QED
    BY <2>5, <2>6
<1>6. CASE PopCompleted
  <2> DEFINE e == Head(completed[cur])
  <2>1. e \in Commands
    BY <1>6, CompletedHead DEF DoneOf, Of
  <2>2. /\ UNCHANGED op /\ deps' = WithoutParent(e)
        /\ d \notin Terminated(e) => status'[d] = status[d]
    BY <1>6 DEF PopCompleted
  <2>3. life' \in {life, LifeAfter(e)}
    BY <1>6 DEF PopCompleted
  <2>4. d \in Terminated(e) => QueueOf(d) \in InOrder /\ ~IsKernel(d)
    BY <2>1 DEF TransfersTerminated
  <2> HIDE DEF e
  <2>5. /\ life'[d] = "live" => life[d] = "live"
        /\ deps'[d] \subseteq deps[d]
    BY <1>0, <2>1, <2>2, <2>3 DEF TypeOK, LifeAfter, WithoutParent
  <2>6. CASE d \in Terminated(e)
    BY <2>4, <2>6 DEF Freed, QueueOf, IsKernel
  <2>7. CASE d \notin Terminated(e)
    BY <1>same, <2>2, <2>5, <2>7
  <2>8. QED
    BY <2>6, <2>7
<1>7. CASE PopInOrder
  <2> DEFINE e == inorder[cur][idx]
  <2>1. e \in Commands
    BY <1>7, InOrderNext DEF Of
  <2>2. UNCHANGED <<op, status>> /\ deps' = WithoutParent(e)
    BY <1>7 DEF PopInOrder
  <2>3. life' \in {life, LifeAfter(e)}
    BY <1>7 DEF PopInOrder
  <2> HIDE DEF e
  <2>4. /\ life'[d] = "live" => life[d] = "live"
        /\ deps'[d] \subseteq deps[d]
    BY <1>0, <2>1, <2>2, <2>3 DEF TypeOK, LifeAfter, WithoutParent
  <2>5. QED
    BY <1>same, <2>2, <2>4
<1>8. CASE ForgetUserEvents
  BY <1>8, <1>same DEF ForgetUserEvents
<1>9. ASSUME NEW e \in Commands, SubmitCommand(e), status[e] = QUEUED,
             UNCHANGED life, \A x \in Commands \ {e} : deps'[x] = deps[x],
             deps'[e] \subseteq deps[e],
             QueueOf(e) \notin InOrder => deps'[e] = {}
      PROVE  Freed(d)'
  <2>1. \A x \in Commands \ {e} : status'[x] = status[x] /\ op'[x] = op[x]
    BY <1>0, <1>9 DEF TypeOK, SubmitCommand
  <2>2. CASE d # e
    BY <1>9, <1>same, <2>1, <2>2
  <2>3. CASE d = e
    <3>1. IsKernel(e) => op'[e] = QUEUED
      BY <1>0, <1>9 DEF TypeOK, SubmitCommand, IsKernel
    <3>2. QUEUED # None
      BY NoneFacts DEF QUEUED, COMPLETE
    <3>3. QED
      BY <1>9, <2>3, <3>1, <3>2 DEF Freed, QueueOf, IsKernel
  <2>4. QED
    BY <2>2, <2>3
<1>10. CASE SubmitOutOfOrder
  <2> DEFINE e == new_commands[cur][idx]
  <2>1. e \in Commands /\ status[e] = QUEUED
    BY <1>10, NewNext, NewUnpopped DEF IdleOf, Of
  <2>2. \/ UNCHANGED objects
        \/ /\ SubmitCommand(e) /\ UNCHANGED life
           /\ deps' = [deps EXCEPT ![e] = {}]
    BY <1>10 DEF SubmitOutOfOrder, SubmitCommand
  <2> HIDE DEF e
  <2>3. CASE UNCHANGED objects
    BY <1>same, <2>3
  <2>4. CASE /\ SubmitCommand(e) /\ UNCHANGED life
             /\ deps' = [deps EXCEPT ![e] = {}]
    <3>1. deps'[e] = {} /\ \A x \in Commands \ {e} : deps'[x] = deps[x]
      BY <1>0, <2>1, <2>4 DEF TypeOK
    <3>2. QED
      BY <1>9, <2>1, <2>4, <3>1
  <2>5. QED
    BY <2>2, <2>3, <2>4
<1>11. CASE SubmitInOrder
  <2> DEFINE e == inorder[cur][idx]
  <2>1. e \in Commands /\ QueueOf(e) \in InOrder
    BY <1>11, InOrderNext DEF Of
  <2>2. \/ UNCHANGED objects
        \/ SubmitCommand(e) /\ UNCHANGED <<life, deps>> /\ status[e] = QUEUED
    BY <1>11 DEF SubmitInOrder, SubmitCommand
  <2> HIDE DEF e
  <2>3. QED
    BY <1>9, <1>same, <2>1, <2>2
<1>12. QED
  BY <1>1, <1>2, <1>3, <1>4, <1>5, <1>6, <1>7, <1>8, <1>10, <1>11, NextCases

(* The scan leaves nothing behind it that could still be submitted, until  *)
(* it gives up, and so the list of an in-order queue has all that was      *)
(* submitted before all that was not.                                      *)
PassedInv ==
    at \in {"pop", "submit"} /\ cur \in InOrder /\ idx <= Len(inorder[cur]) =>
        \A k \in 1..idx - 1 : Past(inorder[cur][k])
OrderInv ==
    \A q \in InOrder : \A j, k \in 1..Len(inorder[q]) :
        j < k /\ on_doq[inorder[q][k]] => Past(inorder[q][j])

(* Of an element that is the same before and after the step. *)
PastAfter(e) == status'[e] # QUEUED \/ on_doq'[e]

LEMMA StaysPast ==
    ASSUME IInv, [Next]_vars, NEW d \in Commands,
           life[d] # "new", Past(d)
    PROVE  PastAfter(d)
BY PastStep DEF Past, PastAfter

LEMMA PassedStep ==
    ASSUME IInv, UserInv, KernelsFindRoom, PassedInv, [Next]_vars
    PROVE  PassedInv'
<1>0. TypeOK
  BY DEF IInv
<1> SUFFICES ASSUME at' \in {"pop", "submit"}, cur' \in InOrder,
                    idx' <= Len(inorder'[cur']), NEW k \in 1..idx' - 1
             PROVE  PastAfter(inorder'[cur'][k])
  BY DEF PassedInv, Past, PastAfter
<1>past. ASSUME cur \in InOrder, NEW i \in 1..Len(inorder[cur]),
                Past(inorder[cur][i])
         PROVE  PastAfter(inorder[cur][i])
  <2>1. inorder[cur] \in Seq(Of(cur))
    BY <1>past, QueueFacts DEF IInv, ListsInv, InOrderList
  <2>2. inorder[cur][i] \in Commands /\ life[inorder[cur][i]] # "new"
    BY <1>past, <2>1, ElementOfSeq DEF Of
  <2>3. QED
    BY <1>past, <2>2, StaysPast
<1>len. cur \in InOrder => Len(inorder[cur]) \in Nat /\ idx \in Nat \ {0}
  <2>1. cur \in InOrder => inorder[cur] \in Seq(Commands)
    BY <1>0 DEF TypeOK
  <2>2. QED
    BY <1>0, <2>1, LenProperties DEF TypeOK
<1>same. ASSUME at \in {"pop", "submit"}, UNCHANGED <<cur, idx, inorder>>
         PROVE  PastAfter(inorder'[cur'][k])
  <2>1. k \in 1..idx - 1 /\ k \in 1..Len(inorder[cur])
    BY <1>len, <1>same
  <2>2. Past(inorder[cur][k])
    BY <1>same, <2>1 DEF PassedInv
  <2>3. QED
    BY <1>past, <1>same, <2>1, <2>2
<1> USE DEF objects, queues, device, control
<1>1. CASE Quiet
  <2>1. CASE Nudged
    <3>1. idx' = 1
      BY <2>1 DEF Nudged, UserInv
    <3>2. QED
      BY <3>1
  <2>2. CASE Popped \/ UNCHANGED vars \/ \E e \in Commands : Interrupt(e)
    <3>1. at \in {"pop", "submit"} /\ UNCHANGED <<cur, idx, inorder>>
      BY <2>2 DEF Popped, Interrupt, vars
    <3>2. QED
      BY <1>same, <3>1
  <2>3. CASE Wake \/ EndRound \/ Submitted \/ \E q \in Queues : UpdateQueue(q)
    BY <2>3 DEF Wake, StartRound, EndRound, Submitted, UpdateQueue
  <2>4. QED
    BY <1>1, <2>1, <2>2, <2>3 DEF Quiet
<1>2. ASSUME NEW e \in Commands,
             \/ Enqueue(e) \/ Release(e)
             \/ \E s \in UserStatuses : SetUserEventStatus(e, s)
      PROVE  PastAfter(inorder'[cur'][k])
  BY <1>2 DEF Enqueue, Enqueueable, Release, SetUserEventStatus, StartRound
<1>3. ASSUME NEW e \in Commands, Start(e) \/ Run(e) \/ End(e)
      PROVE  PastAfter(inorder'[cur'][k])
  <2>1. UNCHANGED <<at, cur, idx, inorder>>
    BY <1>3 DEF Start, Run, End
  <2>2. QED
    BY <1>same, <2>1
<1>4. CASE PopCompleted
  <2>1. at = "pop" /\ UNCHANGED <<cur, idx, inorder>>
    BY <1>4 DEF PopCompleted
  <2>2. QED
    BY <1>same, <2>1
<1>5. CASE PopInOrder
  <2> DEFINE e == inorder[cur][idx]
  <2>1. /\ cur \in InOrder /\ cur \in Queues /\ idx \in 1..Len(inorder[cur])
        /\ inorder[cur] \in Seq(Of(cur)) /\ e \in Commands /\ at = "pop"
    BY <1>5, InOrderNext DEF Of, PopInOrder
  <2>2. Past(e)
    <3>1. Done(e) /\ status[e] \in Int
      BY <1>0, <1>5, <2>1, StatusIsInt DEF PopInOrder, DoneAt
    <3>2. QED
      BY <3>1 DEF Past, Done, QUEUED, COMPLETE
  <2>3. \A i \in 1..idx - 1 : Past(inorder[cur][i])
    BY <1>len, <2>1 DEF PassedInv
  <2>4. CASE deps[e] = {}
    <3>1. /\ inorder' = [inorder EXCEPT ![cur] = RemoveAt(inorder[cur], idx)]
          /\ UNCHANGED <<cur, idx>>
      BY <1>5, <2>4 DEF PopInOrder
    <3>2. inorder'[cur] = RemoveAt(inorder[cur], idx)
      BY <1>0, <2>1, <3>1 DEF TypeOK
    <3>3. /\ k \in 1..idx - 1 /\ k \in 1..Len(inorder[cur]) - 1
          /\ k \in 1..Len(inorder[cur])
      BY <1>len, <2>1, <3>1
    <3>4. \A i \in 1..Len(inorder[cur]) - 1 :
            RemoveAt(inorder[cur], idx)[i] =
              IF i < idx THEN inorder[cur][i] ELSE inorder[cur][i + 1]
      BY <2>1, RemoveAtProperties
    <3>5. inorder'[cur][k] = inorder[cur][k]
      BY <1>len, <2>1, <3>2, <3>3, <3>4
    <3>6. QED
      BY <1>past, <2>1, <2>3, <3>1, <3>3, <3>5
  <2>5. CASE deps[e] # {}
    <3>1. idx' = idx + 1 /\ UNCHANGED <<cur, inorder>>
      BY <1>5, <2>5 DEF PopInOrder
    <3>2. k \in 1..Len(inorder[cur]) /\ (k = idx \/ k \in 1..idx - 1)
      BY <1>len, <2>1, <3>1
    <3>3. Past(inorder[cur][k])
      BY <2>2, <2>3, <3>2
    <3>4. QED
      BY <1>past, <2>1, <3>1, <3>2, <3>3
  <2>6. QED
    BY <2>4, <2>5
<1>6. CASE SubmitOutOfOrder \/ ForgetUserEvents
  BY <1>6, QueueFacts DEF SubmitOutOfOrder, ForgetUserEvents
<1>7. CASE SubmitInOrder
  <2> DEFINE e == inorder[cur][idx]
  <2>1. /\ cur \in InOrder /\ cur \in Queues /\ idx \in 1..Len(inorder[cur])
        /\ e \in Commands /\ at = "submit" /\ UNCHANGED cur
    BY <1>7, InOrderNext DEF Of, SubmitInOrder
  <2>2. UNCHANGED inorder
    BY <1>7 DEF SubmitInOrder
  <2>3. \A i \in 1..idx - 1 : Past(inorder[cur][i])
    BY <1>len, <2>1 DEF PassedInv
  <2>4. idx' = idx + 1 /\ PastAfter(e)
    <3>1. CASE Past(e)
      <4>1. idx' = idx + 1
        BY <1>7, <3>1 DEF SubmitInOrder, Past
      <4>2. QED
        BY <1>past, <2>1, <3>1, <4>1
    <3>2. CASE ~Past(e)
      <4>1. idx' = IF ReadyInOrder(idx) /\ IsKernel(e) THEN idx + 1
                   ELSE Len(inorder[cur]) + 1
        BY <1>7, <3>2 DEF SubmitInOrder, Past
      <4>2. ReadyInOrder(idx) /\ IsKernel(e)
        BY <1>len, <2>1, <2>2, <4>1
      <4>3. Room
        BY <1>len, <2>1, <3>2, <4>2 DEF KernelsFindRoom
      <4>4. SubmitCommand(e)
        BY <1>7, <3>2, <4>2, <4>3 DEF SubmitInOrder, SubmitSucceeds, Past
      <4>5. status[e] = QUEUED
        BY <3>2 DEF Past
      <4>6. on_doq'[e] = TRUE
        BY <1>0, <2>1, <4>4, <4>5 DEF TypeOK, SubmitCommand
      <4>7. QED
        BY <4>1, <4>2, <4>6 DEF PastAfter
    <3>3. QED
      BY <3>1, <3>2
  <2>5. k \in 1..Len(inorder[cur]) /\ (k = idx \/ k \in 1..idx - 1)
    BY <1>len, <2>1, <2>4
  <2>6. CASE k = idx
    BY <2>1, <2>2, <2>4, <2>6
  <2>7. CASE k \in 1..idx - 1
    BY <1>past, <2>1, <2>2, <2>3, <2>5, <2>7
  <2>8. QED
    BY <2>5, <2>6, <2>7
<1>8. QED
  BY <1>1, <1>2, <1>3, <1>4, <1>5, <1>6, <1>7, NextCases

LEMMA OrderStep ==
    ASSUME IInv, SubmittedInv, CountInv, PassedInv, OrderInv, [Next]_vars
    PROVE  OrderInv'
<1> SUFFICES ASSUME NEW q \in InOrder,
                    NEW j \in 1..Len(inorder'[q]), NEW k \in 1..Len(inorder'[q]),
                    j < k, on_doq'[inorder'[q][k]]
             PROVE  PastAfter(inorder'[q][j])
  BY DEF OrderInv, Past, PastAfter
<1>0. TypeOK /\ q \in Queues
  BY QueueFacts DEF IInv
<1>list. /\ inorder[q] \in Seq(Of(q)) /\ Len(inorder[q]) \in Nat
         /\ \A i \in 1..Len(inorder[q]) :
              /\ inorder[q][i] \in Commands /\ QueueOf(inorder[q][i]) = q
              /\ life[inorder[q][i]] # "new"
  <2>1. inorder[q] \in Seq(Of(q))
    BY <1>0 DEF IInv, ListsInv, InOrderList
  <2>2. \A i \in 1..Len(inorder[q]) : inorder[q][i] \in Of(q)
    BY <2>1, ElementOfSeq
  <2>3. QED
    BY <2>1, <2>2, LenProperties DEF Of
<1>old. ASSUME NEW a \in 1..Len(inorder[q]), NEW b \in 1..Len(inorder[q]),
               a < b, on_doq[inorder[q][b]]
        PROVE  PastAfter(inorder[q][a])
  <2>1. Past(inorder[q][a])
    BY <1>old DEF OrderInv
  <2>2. QED
    BY <1>list, <2>1, StaysPast
<1>same. ASSUME UNCHANGED <<inorder, on_doq>> PROVE PastAfter(inorder'[q][j])
  BY <1>old, <1>same
<1> USE DEF objects, queues, device, control
<1>1. CASE Quiet
  BY <1>1, <1>same, QuietChange
<1>2. ASSUME NEW e \in Commands, Enqueue(e) PROVE PastAfter(inorder'[q][j])
  <2>1. UNCHANGED on_doq
    BY <1>2 DEF Enqueue
  <2>2. inorder'[q] = inorder[q] \/ inorder'[q] = Append(inorder[q], e)
    <3>1. \/ inorder' = inorder
          \/ inorder' = [inorder EXCEPT ![QueueOf(e)] = Append(@, e)]
      BY <1>2 DEF Enqueue
    <3>2. DOMAIN inorder = Queues
      BY <1>0 DEF TypeOK
    <3>3. QED
      BY <1>0, <3>1, <3>2
  <2>3. CASE inorder'[q] = inorder[q]
    BY <1>old, <2>1, <2>3
  <2>4. CASE inorder'[q] = Append(inorder[q], e)
    <3>1. inorder[q] \in Seq(Commands)
      BY <1>0 DEF TypeOK
    <3>2. /\ Len(inorder'[q]) = Len(inorder[q]) + 1
          /\ \A i \in 1..Len(inorder[q]) : inorder'[q][i] = inorder[q][i]
          /\ inorder'[q][Len(inorder[q]) + 1] = e
      BY <2>4, <3>1, AppendProperties
    <3>3. j \in 1..Len(inorder[q])
      BY <1>list, <3>2
    <3>4. CASE k \in 1..Len(inorder[q])
      BY <1>old, <2>1, <3>2, <3>3, <3>4
    <3>5. CASE k = Len(inorder[q]) + 1
      <4>1. ~on_doq[e]
        BY <1>2, <2>1, <3>2, <3>5 DEF Enqueue, Enqueueable, SubmittedInv
      <4>2. QED
        BY <2>1, <3>2, <3>5, <4>1
    <3>6. QED
      BY <1>list, <3>2, <3>4, <3>5
  <2>5. QED
    BY <2>2, <2>3, <2>4
<1>3. ASSUME NEW e \in Commands,
             \/ Release(e) \/ Start(e) \/ Run(e) \/ End(e)
             \/ \E s \in UserStatuses : SetUserEventStatus(e, s)
      PROVE  PastAfter(inorder'[q][j])
  BY <1>3, <1>same DEF Release, Start, Run, End, SetUserEventStatus
<1>4. CASE PopCompleted \/ ForgetUserEvents
  BY <1>4, <1>same DEF PopCompleted, ForgetUserEvents
<1>5. CASE PopInOrder
  <2>1. /\ UNCHANGED on_doq
        /\ UNCHANGED inorder
             \/ inorder' = [inorder EXCEPT ![cur] = RemoveAt(inorder[cur], idx)]
    BY <1>5 DEF PopInOrder
  <2>2. idx \in 1..Len(inorder[cur])
    BY <1>5, InOrderNext
  <2>3. CASE inorder'[q] = inorder[q]
    BY <1>old, <2>1, <2>3
  <2>4. CASE q = cur /\ inorder'[q] = RemoveAt(inorder[q], idx)
    <3>1. idx \in 1..Len(inorder[q]) /\ inorder[q] \in Seq(Of(q))
      BY <1>list, <2>2, <2>4
    <3> DEFINE l == inorder[q]
               r == RemoveAt(l, idx)
    <3>2. r = inorder'[q] /\ j \in 1..Len(r) /\ k \in 1..Len(r) /\ j < k
      BY <2>4
    <3>3. \E x, y \in 1..Len(l) : x < y /\ r[j] = l[x] /\ r[k] = l[y]
      <4> HIDE DEF l
      <4> QED
        BY <3>1, <3>2, RemoveAtOrder DEF l
    <3> HIDE DEF r
    <3>4. QED
      BY <1>old, <2>1, <3>2, <3>3
  <2>5. QED
    BY <1>0, <2>1, <2>3, <2>4 DEF TypeOK
<1>6. CASE SubmitOutOfOrder
  <2> DEFINE e == new_commands[cur][idx]
  <2>1. e \in Commands /\ QueueOf(e) = cur /\ cur \notin InOrder
    BY <1>6, NewNext DEF IdleOf, Of
  <2>2. UNCHANGED inorder
    BY <1>6 DEF SubmitOutOfOrder
  <2>3. on_doq' \in {on_doq, [on_doq EXCEPT ![e] = TRUE]}
    BY <1>6 DEF SubmitOutOfOrder, SubmitCommand
  <2> HIDE DEF e
  <2>4. \A x \in Commands \ {e} : on_doq'[x] = on_doq[x]
    BY <1>0, <2>3 DEF TypeOK
  <2>5. on_doq[inorder[q][k]]
    BY <1>list, <2>1, <2>2, <2>4
  <2>6. QED
    BY <1>old, <2>2, <2>5
<1>7. CASE SubmitInOrder
  <2> DEFINE e == inorder[cur][idx]
  <2>1. /\ e \in Commands /\ QueueOf(e) = cur /\ cur \in InOrder
        /\ idx \in 1..Len(inorder[cur]) /\ at = "submit"
    BY <1>7, InOrderNext DEF Of, SubmitInOrder
  <2>2. UNCHANGED inorder
    BY <1>7 DEF SubmitInOrder
  <2>3. on_doq' \in {on_doq, [on_doq EXCEPT ![e] = TRUE]}
    BY <1>7 DEF SubmitInOrder, SubmitCommand
  <2>4. \A x \in Commands \ {e} : on_doq'[x] = on_doq[x]
    BY <1>0, <2>3 DEF TypeOK
  <2>5. CASE inorder[q][k] # e
    <3>1. on_doq[inorder[q][k]]
      BY <1>list, <2>2, <2>4, <2>5
    <3>2. QED
      BY <1>old, <2>2, <3>1
  <2>6. CASE inorder[q][k] = e
    <3>1. q = cur
      BY <1>list, <2>1, <2>2, <2>6
    <3>2. IsInjective(inorder[q])
      BY <1>0 DEF CountInv, CountedInOrder
    <3>3. k = idx
      BY <1>list, <2>1, <2>2, <2>6, <3>1, <3>2, PositionsOf
    <3>4. j \in 1..idx - 1
      BY <3>3
    <3>5. idx <= Len(inorder[cur])
      BY <1>list, <2>1, <3>1
    <3>6. Past(inorder[q][j])
      BY <2>1, <3>1, <3>4, <3>5 DEF PassedInv
    <3>7. QED
      BY <1>list, <2>2, <3>6, StaysPast
  <2>7. QED
    BY <2>5, <2>6
<1>8. QED
  BY <1>1, <1>2, <1>3, <1>4, <1>5, <1>6, <1>7, NextCases

LEMMA InitAssertions ==
    ASSUME Init
    PROVE  FreeInv /\ PassedInv /\ OrderInv
<1>1. FreeInv
  BY DEF Init, FreeInv, Freed, IsKernel
<1>2. PassedInv
  BY DEF Init, PassedInv
<1>3. OrderInv
  <2>1. \A q \in InOrder : inorder[q] = <<>> /\ Len(inorder[q]) = 0
    BY QueueFacts DEF Init
  <2>2. QED
    BY <2>1 DEF OrderInv
<1>4. QED
  BY <1>1, <1>2, <1>3

(* A completed event of an out-of-order queue waits for nothing.           *)
LEMMA PopsWell ==
    ASSUME IInv, CountInv, FreeInv
    PROVE  ~PopFails
<1> SUFFICES ASSUME PopFails PROVE FALSE
  OBVIOUS
<1> DEFINE e == Head(completed[cur])
<1>1. /\ cur \in Queues /\ cur \notin InOrder /\ completed[cur] # <<>>
      /\ deps[e] # {}
  BY DEF PopFails, IInv, TypeOK
<1>2. completed[cur] \in Seq(DoneOf(cur))
  BY <1>1 DEF IInv, ListsInv, CompletedList
<1>3. e \in DoneOf(cur) /\ e \in ToSet(completed[cur])
  <2>1. e = completed[cur][1] /\ 1 \in 1..Len(completed[cur])
    BY <1>1, <1>2, HeadTailProperties, EmptySeq, LenProperties
  <2>2. QED
    BY <1>2, <2>1, PositionsOf
<1>4. e \in Unpopped(cur)
  BY <1>1, <1>3 DEF CountInv, CountedOutOfOrder
<1> HIDE DEF e
<1>5. e \in Commands /\ life[e] = "live" /\ QueueOf(e) \notin InOrder /\ Done(e)
  BY <1>1, <1>3, <1>4 DEF DoneOf, Of, Unpopped
<1>6. QED
  BY <1>1, <1>5 DEF FreeInv, Freed

(* In front of a kernel that is not submitted yet, all of an in-order      *)
(* queue is past the scan: what is in flight is in front of it, and what   *)
(* is just in front of it has an operation if it is a kernel.              *)
LEMMA SubmitsWell ==
    ASSUME IInv, SubmittedInv, InFlightCounted, CountInv, FreeInv, PassedInv,
           OrderInv
    PROVE  ~SubmitFails
<1> SUFFICES ASSUME SubmitFails PROVE FALSE
  OBVIOUS
<1>0. /\ TypeOK /\ cur \in Queues /\ cur # UserQueue /\ at = "submit"
      /\ idx \in Nat \ {0}
  BY DEF SubmitFails, IInv, TypeOK
<1>1. CASE cur \notin InOrder
  <2> DEFINE e == new_commands[cur][idx]
  <2>1. /\ new_commands[cur] \in Seq(IdleOf(cur))
        /\ idx <= Len(new_commands[cur])
    BY <1>0, <1>1 DEF SubmitFails, IInv, ListsInv, NewList
  <2>2. idx \in 1..Len(new_commands[cur])
    BY <1>0, <2>1, LenProperties
  <2>3. e \in IdleOf(cur) /\ e \in ToSet(new_commands[cur])
    BY <2>1, <2>2, PositionsOf
  <2>4. status[e] = QUEUED /\ e \in Commands
    BY <1>0, <1>1, <2>3 DEF CountInv, NewQueued, IdleOf, Of
  <2>5. NoParentOp(e)
    BY <1>1, <2>4 DEF SubmitFails, NoQueue
  <2> HIDE DEF e
  <2>6. PICK p \in Commands :
          /\ deps[e] = {p} /\ QueueOf(p) \notin InOrder /\ IsKernel(p)
          /\ status[p] <= SUBMITTED /\ op[p] = None
    BY <2>5 DEF NoParentOp
  <2>7. life[p] = "live"
    BY <2>4, <2>6 DEF IInv, ArcsInv
  <2>8. status[p] # QUEUED
    BY <2>6 DEF SUBMITTED, QUEUED
  <2>9. QED
    BY <2>6, <2>7, <2>8 DEF FreeInv, Freed
<1>2. CASE cur \in InOrder
  <2> DEFINE l == inorder[cur]
             e == l[idx]
  <2>1. /\ NoLaunchBefore(idx) /\ l \in Seq(Of(cur)) /\ idx \in 1..Len(l)
        /\ Len(l) \in Nat
    <3>1. l \in Seq(Of(cur)) /\ idx <= Len(l) /\ NoLaunchBefore(idx)
      BY <1>0, <1>2 DEF SubmitFails, IInv, ListsInv, InOrderList
    <3>2. QED
      BY <1>0, <3>1, LenProperties
  <2>2. /\ status[e] = QUEUED /\ ~on_doq[e] /\ submitted[cur] # 0
        /\ idx > 1 => SameKernel(l[idx - 1], e) /\ op[l[idx - 1]] = None
    BY <2>1 DEF NoLaunchBefore
  <2>3. ToSet(l) = Unpopped(cur)
    BY <1>0, <1>2 DEF CountInv, CountedInOrder
  <2>4. PICK f \in InFlight(cur) : TRUE
    BY <1>2, <2>2, FS_EmptySet DEF InFlightCounted
  <2>5. f \in Commands /\ QueueOf(f) = cur /\ on_doq[f] /\ ~Done(f)
    BY <2>4 DEF InFlight
  <2>6. f \in ToSet(l)
    BY <2>3, <2>5, NotDoneUnpopped DEF SubmittedInv
  <2>7. PICK j \in 1..Len(l) : l[j] = f
    BY <2>1, <2>6, PositionsOf
  <2>8. idx > 1
    <3>1. j # idx
      BY <2>2, <2>5, <2>7
    <3>2. ~(idx < j)
      BY <1>2, <2>1, <2>2, <2>5, <2>7 DEF OrderInv, Past
    <3>3. QED
      BY <2>1, <2>7, <3>1, <3>2
  <2> DEFINE p == l[idx - 1]
  <2>9. idx - 1 \in 1..Len(l) /\ idx - 1 \in 1..idx - 1 /\ idx <= Len(l)
    BY <2>1, <2>8
  <2>10. p \in Unpopped(cur)
    BY <2>1, <2>3, <2>9, PositionsOf
  <2>11. Past(p)
    BY <1>0, <1>2, <2>9 DEF PassedInv
  <2>12. IsKernel(p) /\ op[p] = None
    BY <2>2, <2>8 DEF SameKernel
  <2> HIDE DEF p
  <2>13. p \in Commands /\ life[p] = "live"
    BY <2>10 DEF Unpopped
  <2>14. CASE status[p] # QUEUED
    BY <2>12, <2>13, <2>14 DEF FreeInv, Freed
  <2>15. CASE status[p] = QUEUED
    BY <2>11, <2>12, <2>13, <2>15
    DEF Past, SubmittedInv, Done, QUEUED, COMPLETE
  <2>16. QED
    BY <2>14, <2>15
<1>3. QED
  BY <1>1, <1>2

(* The assertions of acl_remove_first_event_dependency and of              *)
(* acl_set_execution_status hold, and no submission reads the operation of *)
(* a launch that has none or a place in front of the first command, as     *)
(* long as a failed user event terminates only transfers and markers of    *)
(* in-order queues and a kernel that is ready finds room.  (Without room,  *)
(* a kernel is passed over and submitted later than one behind it.)        *)
THEOREM AssertionsKept ==
    ASSUME INVALID \notin UserStatuses
    PROVE  Spec /\ []TransfersTerminated /\ []KernelsFindRoom
             => []AssertionsHold
<1> DEFINE J == /\ IInv /\ SubmittedInv /\ InFlightCounted /\ CountInv
                /\ UserInv /\ FreeInv /\ PassedInv /\ OrderInv
<1>1. Init => J
  BY InitInv, InitSubmitted, InitCount, InitAssertions
<1>2. J /\ TransfersTerminated /\ KernelsFindRoom /\ [Next]_vars => J'
  <2> SUFFICES ASSUME J, TransfersTerminated, KernelsFindRoom, [Next]_vars
               PROVE  J'
    OBVIOUS
  <2>1. TerminatesInOrder
    BY DEF TransfersTerminated, TerminatesInOrder
  <2>2. IInv' /\ SubmittedInv' /\ InFlightCounted'
    BY NextInv, SubmittedStep, InFlightStep
  <2>3. CountInv' /\ UserInv'
    BY <2>1, CountInvStep, UserStep
  <2>4. FreeInv' /\ PassedInv' /\ OrderInv'
    BY FreeStep, PassedStep, OrderStep
  <2>5. QED
    BY <2>2, <2>3, <2>4
<1>3. J => AssertionsHold
  BY PopsWell, SubmitsWell DEF AssertionsHold
<1>4. QED
  BY <1>1, <1>2, <1>3, PTL DEF Spec

(* With as many slots in the device operation queue as there are commands, *)
(* a kernel that an in-order queue could submit finds room.                *)
THEOREM RoomForAll ==
    ASSUME Cardinality(Commands) <= Slots
    PROVE  Spec => []KernelsFindRoom
<1> DEFINE J == IInv /\ SubmittedInv
<1>1. Init => J
  BY InitInv, InitSubmitted
<1>2. J /\ [Next]_vars => J'
  BY NextInv, SubmittedStep
<1>3. ASSUME J PROVE KernelsFindRoom
  <2> SUFFICES ASSUME cur \in InOrder, idx <= Len(inorder[cur]),
                      ~Past(inorder[cur][idx])
               PROVE  Room
    BY DEF KernelsFindRoom
  <2> DEFINE e == inorder[cur][idx]
  <2>1. inorder[cur] \in Seq(Commands) /\ idx \in Nat \ {0}
    BY <1>3 DEF IInv, TypeOK
  <2>2. idx \in 1..Len(inorder[cur])
    BY <2>1, LenProperties
  <2>3. e \in Commands /\ op[e] = None
    <3>1. e \in Commands
      BY <2>1, <2>2, ElementOfSeq
    <3>2. QED
      BY <1>3, <3>1 DEF Past, SubmittedInv
  <2> HIDE DEF e
  <2>4. e \notin InUse
    BY <2>3, NoneFacts DEF InUse, RUNNING, QUEUED, COMPLETE
  <2>5. InUse \subseteq Commands /\ InUse # Commands
    BY <2>3, <2>4 DEF InUse
  <2>6. Cardinality(InUse) \in Nat /\ Cardinality(Commands) \in Nat
    BY <2>5, SizeAssumption, FS_Subset, FS_CardinalityType
  <2>7. Cardinality(InUse) < Cardinality(Commands)
    <3>1. /\ Cardinality(InUse) <= Cardinality(Commands)
          /\ Cardinality(InUse) = Cardinality(Commands) => InUse = Commands
      BY <2>5, SizeAssumption, FS_Subset
    <3>2. QED
      BY <2>5, <2>6, <3>1
  <2>8. QED
    BY <2>6, <2>7, SizeAssumption DEF Room
<1>4. QED
  BY <1>1, <1>2, <1>3, PTL DEF Spec

----------------------------------------------------------------------------
(* When the threads go back to sleep nothing is left to do.                *)

(* Nothing ended that the updates have not looked at, unless one is about  *)
(* to look at the device or was asked for.                                 *)
NoneEnded == \A e \in Commands : op[e] = RUNNING => e \notin ended
Fresh ==
    /\ ~single
    /\ \/ at = "round" /\ todo = Queues
       \/ at = "nudge" /\ todo = Queues \ {cur}

(* What an update leaves behind in a queue: a command that waits, or has   *)
(* no room; in an in-order queue also, at the front, commands that are     *)
(* done but wait for others, and that nothing waits for any more.          *)
Stuck(q, k) == deps[new_commands[q][k]] # {} \/ ~Room
PassedOver(q, k) ==
    deps[inorder[q][k]] # {} /\ Dependents(inorder[q][k]) = {}
DoneFront(q) ==
    \A k \in 1..Len(inorder[q]) :
        (\A j \in 1..k : Done(inorder[q][j])) => PassedOver(q, k)
FrontBlocked(q) ==
    inorder[q] # <<>> =>
        LET e == inorder[q][1] IN
        status[e] = QUEUED /\ ~on_doq[e] /\ deps[e] = {} => ~Room

AtRest(q) ==
    IF q \in InOrder
    THEN DoneFront(q) /\ FrontBlocked(q)
    ELSE /\ completed[q] = <<>>
         /\ q # UserQueue => \A k \in 1..Len(new_commands[q]) : Stuck(q, k)

(* What is so of the queue that is being updated, up to where the update   *)
(* is.                                                                     *)
Visiting == at \in {"nudge", "pop", "submit"}
CurRest ==
    /\ at = "pop" /\ cur \in InOrder =>
         \A k \in 1..Len(inorder[cur]) : k < idx => PassedOver(cur, k)
    /\ at = "submit" /\ cur \in InOrder =>
         DoneFront(cur) /\ (idx > 1 => FrontBlocked(cur))
    /\ at = "submit" /\ cur \notin InOrder =>
         /\ completed[cur] = <<>>
         /\ cur # UserQueue =>
              \A k \in 1..Len(new_commands[cur]) : k < idx => Stuck(cur, k)

(* A queue is still to be visited in this round, or it is at rest.  The    *)
(* single visit of a release, which is not repeated, finds all at rest.    *)
Visited ==
    /\ \A q \in Queues :
         \/ ~single /\ (q \in todo \/ (Visiting /\ q = cur))
         \/ AtRest(q)
    /\ single \/ CurRest

ControlInv ==
    /\ at = "asleep" => todo = {} /\ ~updates /\ ~single
    /\ at = "pop" /\ cur \notin InOrder => idx = 1
    /\ at = "pop" /\ cur \in InOrder =>
         \A k \in 1..Len(inorder[cur]) : k < idx => Done(inorder[cur][k])
    /\ \A q \in InOrder : completed[q] = <<>>
EndedInv ==
    /\ \A e \in ended : op[e] = RUNNING
    /\ signalled \/ Fresh \/ NoneEnded
VisitInv == signalled \/ (updates /\ ~single) \/ Visited

(* What a command follows was enqueued before it.                          *)
FollowsInv ==
    /\ \A d \in Commands : \A f \in follows[d] : life[f] # "new"
    /\ \A q \in InOrder : \A j, k \in 1..Len(inorder[q]) :
         j < k => inorder[q][k] \notin follows[inorder[q][j]]

LEMMA ControlStep ==
    ASSUME IInv, SubmittedInv, CountInv, UserInv, ControlInv, [Next]_vars
    PROVE  ControlInv'
<1> USE DEF objects, queues, device, control
<1>0. TypeOK
  BY DEF IInv
<1>1. at' = "asleep" => todo' = {} /\ ~updates' /\ ~single'
  <2>1. CASE Quiet
    BY <2>1
    DEF Quiet, Wake, StartRound, EndRound, Nudged, Popped, Submitted, UpdateQueue,
        Interrupt, vars, ControlInv
  <2>2. ASSUME NEW e \in Commands,
               \/ Enqueue(e) \/ Release(e)
               \/ \E s \in UserStatuses : SetUserEventStatus(e, s)
        PROVE  at' = "asleep" => todo' = {} /\ ~updates' /\ ~single'
    BY <2>2
    DEF Enqueue, Enqueueable, Release, SetUserEventStatus, StartRound, ControlInv
  <2>3. ASSUME NEW e \in Commands, Start(e) \/ Run(e) \/ End(e)
        PROVE  at' = "asleep" => todo' = {} /\ ~updates' /\ ~single'
    BY <2>3 DEF Start, Run, End, ControlInv
  <2>4. CASE PopCompleted \/ PopInOrder \/ SubmitOutOfOrder \/ ForgetUserEvents
             \/ SubmitInOrder
    BY <2>4
    DEF PopCompleted, PopInOrder, SubmitOutOfOrder, ForgetUserEvents, SubmitInOrder
  <2>5. QED
    BY <2>1, <2>2, <2>3, <2>4, NextCases
<1>2. at' = "pop" /\ cur' \notin InOrder => idx' = 1
  <2>1. CASE Nudged
    BY <2>1 DEF Nudged, UserInv
  <2>2. CASE PopCompleted \/ PopInOrder
    BY <2>2 DEF PopCompleted, PopInOrder, ControlInv
  <2>3. CASE Wake \/ EndRound \/ Popped \/ Submitted
             \/ \E q \in Queues : UpdateQueue(q)
    BY <2>3 DEF Wake, StartRound, EndRound, Popped, Submitted, UpdateQueue
  <2>4. ASSUME NEW e \in Commands, Interrupt(e)
        PROVE  at' = "pop" /\ cur' \notin InOrder => idx' = 1
    BY <2>4 DEF Interrupt, ControlInv
  <2>5. CASE UNCHANGED vars
    BY <2>5 DEF vars, ControlInv
  <2>6. ASSUME NEW e \in Commands,
               \/ Enqueue(e) \/ Release(e)
               \/ \E s \in UserStatuses : SetUserEventStatus(e, s)
        PROVE  at' = "pop" /\ cur' \notin InOrder => idx' = 1
    BY <2>6 DEF Enqueue, Enqueueable, Release, SetUserEventStatus, StartRound
  <2>7. ASSUME NEW e \in Commands, Start(e) \/ Run(e) \/ End(e)
        PROVE  at' = "pop" /\ cur' \notin InOrder => idx' = 1
    BY <2>7 DEF Start, Run, End, Updating
  <2>8. CASE SubmitOutOfOrder \/ ForgetUserEvents \/ SubmitInOrder
    BY <2>8 DEF SubmitOutOfOrder, ForgetUserEvents, SubmitInOrder
  <2>9. QED
    BY <2>1, <2>2, <2>3, <2>4, <2>5, <2>6, <2>7, <2>8, NextCases DEF Quiet
<1>3. ASSUME NEW q \in InOrder PROVE completed'[q] = <<>>
  <2>0. q \in Queues /\ completed[q] = <<>>
    BY QueueFacts DEF ControlInv
  <2>after. ASSUME NEW e \in Commands, NEW s, completed' = CompletedAfter(e, s)
            PROVE  completed'[q] = <<>>
    <3>1. QueueOf(e) \in Queues
      BY CommandFacts
    <3>2. CASE QueueOf(e) = q
      BY <2>0, <2>after, <3>2 DEF CompletedAfter
    <3>3. CASE QueueOf(e) # q
      BY <1>0, <2>0, <2>after, <3>1, <3>3 DEF CompletedAfter, TypeOK
    <3>4. QED
      BY <3>2, <3>3
  <2>1. CASE Quiet
    BY <2>0, <2>1, QuietChange
  <2>2. ASSUME NEW e \in Commands, Enqueue(e) \/ Release(e) \/ Start(e) \/ Run(e)
        PROVE  completed'[q] = <<>>
    BY <2>0, <2>2 DEF Enqueue, Release, Start, Run
  <2>3. ASSUME NEW e \in Commands, NEW s \in UserStatuses, SetUserEventStatus(e, s)
        PROVE  completed'[q] = <<>>
    BY <2>3, <2>after DEF SetUserEventStatus
  <2>4. ASSUME NEW e \in Commands, End(e) PROVE completed'[q] = <<>>
    BY <2>4, <2>after DEF End
  <2>5. CASE PopCompleted
    BY <2>0, <2>5 DEF PopCompleted
  <2>6. CASE PopInOrder \/ ForgetUserEvents
    BY <2>0, <2>6 DEF PopInOrder, ForgetUserEvents
  <2>7. CASE SubmitOutOfOrder
    <3>1. new_commands[cur][idx] \in Commands
      BY <2>7, NewNext DEF IdleOf, Of
    <3>2. \/ completed' = completed
          \/ \E s : completed' = CompletedAfter(new_commands[cur][idx], s)
      BY <2>7 DEF SubmitOutOfOrder, SubmitCommand
    <3>3. QED
      BY <2>0, <2>after, <3>1, <3>2
  <2>8. CASE SubmitInOrder
    <3>1. inorder[cur][idx] \in Commands
      BY <2>8, InOrderNext DEF Of
    <3>2. \/ completed' = completed
          \/ \E s : completed' = CompletedAfter(inorder[cur][idx], s)
      BY <2>8 DEF SubmitInOrder, SubmitCommand
    <3>3. QED
      BY <2>0, <2>after, <3>1, <3>2
  <2>9. QED
    BY <2>1, <2>2, <2>3, <2>4, <2>5, <2>6, <2>7, <2>8, NextCases
<1>4. ASSUME at' = "pop", cur' \in InOrder,
             NEW k \in 1..Len(inorder'[cur']), k < idx'
      PROVE  status'[inorder'[cur'][k]] <= COMPLETE
  <2>1. CASE Nudged
    <3>1. idx' = 1
      BY <2>1 DEF Nudged, UserInv
    <3>2. QED
      BY <1>4, <3>1
  <2>2. CASE PopInOrder
    <3>0. cur \in InOrder /\ at = "pop" /\ cur' = cur /\ status' = status
      BY <2>2 DEF PopInOrder
    <3>1. /\ inorder[cur] \in Seq(Of(cur)) /\ idx \in 1..Len(inorder[cur])
          /\ Len(inorder[cur]) \in Nat
      BY <2>2, InOrderNext, LenProperties
    <3>2. Done(inorder[cur][idx]) /\ \A m \in 1..Len(inorder[cur]) :
                                        m < idx => Done(inorder[cur][m])
      BY <2>2, <3>0 DEF PopInOrder, DoneAt, ControlInv
    <3>3. CASE inorder' = inorder /\ idx' = idx + 1
      BY <1>4, <3>0, <3>1, <3>2, <3>3 DEF Done
    <3>4. CASE /\ inorder' = [inorder EXCEPT ![cur] = RemoveAt(inorder[cur], idx)]
               /\ idx' = idx
      <4>1. inorder'[cur] = RemoveAt(inorder[cur], idx)
        BY <1>0, <3>4 DEF TypeOK
      <4>2. /\ Len(inorder'[cur]) = Len(inorder[cur]) - 1
            /\ \A m \in 1..Len(inorder[cur]) - 1 :
                 inorder'[cur][m] = IF m < idx THEN inorder[cur][m]
                                               ELSE inorder[cur][m + 1]
        BY <3>1, <4>1, RemoveAtProperties
      <4>3. k \in 1..Len(inorder[cur]) /\ inorder'[cur][k] = inorder[cur][k]
        BY <1>4, <3>0, <3>1, <3>4, <4>2
      <4>4. QED
        BY <1>4, <3>0, <3>2, <3>4, <4>3 DEF Done
    <3>5. QED
      BY <2>2, <3>3, <3>4 DEF PopInOrder
  <2>3. CASE PopCompleted
    BY <1>4, <2>3 DEF PopCompleted
  <2>4. CASE Wake \/ EndRound \/ Popped \/ Submitted
             \/ \E q \in Queues : UpdateQueue(q)
    BY <1>4, <2>4 DEF Wake, StartRound, EndRound, Popped, Submitted, UpdateQueue
  <2>5. ASSUME NEW e \in Commands, Interrupt(e)
        PROVE  status'[inorder'[cur'][k]] <= COMPLETE
    BY <1>4, <2>5 DEF Interrupt, ControlInv, Done
  <2>6. CASE UNCHANGED vars
    BY <1>4, <2>6 DEF vars, ControlInv, Done
  <2>7. ASSUME NEW e \in Commands,
               \/ Enqueue(e) \/ Release(e)
               \/ \E s \in UserStatuses : SetUserEventStatus(e, s)
        PROVE  at' # "pop"
    BY <2>7 DEF Enqueue, Enqueueable, Release, SetUserEventStatus, StartRound
  <2>8. ASSUME NEW e \in Commands, Start(e) \/ Run(e) \/ End(e)
        PROVE  at' # "pop"
    BY <2>8 DEF Start, Run, End, Updating
  <2>9. CASE SubmitOutOfOrder \/ ForgetUserEvents \/ SubmitInOrder
    BY <1>4, <2>9 DEF SubmitOutOfOrder, ForgetUserEvents, SubmitInOrder
  <2>10. QED
    BY <1>4, <2>1, <2>2, <2>3, <2>4, <2>5, <2>6, <2>7, <2>8, <2>9, NextCases
    DEF Quiet
<1>5. QED
  <2>1. at' = "pop" /\ cur' \in InOrder =>
          \A k \in 1..Len(inorder'[cur']) : k < idx' => Done(inorder[cur][k])'
    BY <1>4 DEF Done
  <2>2. QED
    BY <1>1, <1>2, <1>3, <2>1 DEF ControlInv

(* An operation that runs belongs to a command that is in its queue.       *)
LEMMA RunningCounted ==
    ASSUME IInv, SubmittedInv, CountInv, NEW e \in Commands,
           op[e] \in RUNNING..QUEUED
    PROVE  num_commands[QueueOf(e)] # 0
<1>1. ~Done(e) /\ life[e] # "new"
  BY NoneFacts DEF IInv, OpInv, RUNNING, QUEUED, COMPLETE
<1>2. e \in Unpopped(QueueOf(e)) /\ QueueOf(e) \in Queues
  BY <1>1, NotDoneUnpopped, CommandFacts
<1>3. IsFiniteSet(Unpopped(QueueOf(e)))
  <2>1. Unpopped(QueueOf(e)) \subseteq Commands
    BY DEF Unpopped
  <2>2. QED
    BY <2>1, FS_Subset, SizeAssumption
<1>4. Cardinality(Unpopped(QueueOf(e))) # 0
  BY <1>2, <1>3, FS_EmptySet
<1>5. QED
  BY <1>2, <1>4 DEF CountInv, Counted

LEMMA EndedStep ==
    ASSUME IInv, SubmittedInv, CountInv, EndedInv, [Next]_vars
    PROVE  EndedInv'
<1> USE DEF objects, queues, device, control
<1>0. TypeOK
  BY DEF IInv
<1>keep. ASSUME op' = op, ended' = ended
         PROVE  (\A e \in ended' : op'[e] = RUNNING) /\ (NoneEnded' <=> NoneEnded)
  BY <1>keep DEF EndedInv, NoneEnded
<1>1. CASE Wake \/ \E e \in Commands :
                     \/ Enqueue(e) \/ \E s \in UserStatuses : SetUserEventStatus(e, s)
  <2>1. UNCHANGED <<op, ended>>
    BY <1>1 DEF Wake, Enqueue, SetUserEventStatus
  <2>2. signalled' \/ (at' = "round" /\ todo' = Queues /\ ~single')
    BY <1>1 DEF Wake, Enqueue, SetUserEventStatus, StartRound
  <2>3. QED
    BY <1>keep, <2>1, <2>2 DEF EndedInv, Fresh
<1>2. ASSUME NEW e \in Commands, Release(e) PROVE EndedInv'
  <2>1. UNCHANGED <<op, ended, signalled>> /\ at = "asleep"
    BY <1>2 DEF Release
  <2>2. ~Fresh
    BY <2>1 DEF Fresh
  <2>3. QED
    BY <1>keep, <2>1, <2>2 DEF EndedInv
<1>3. ASSUME NEW q \in Queues, UpdateQueue(q) PROVE EndedInv'
  <2>1. UNCHANGED <<op, ended, signalled, single>> /\ at = "round"
    BY <1>3 DEF UpdateQueue
  <2>2. Fresh => Fresh'
    BY <1>3, <2>1 DEF Fresh, UpdateQueue
  <2>3. QED
    BY <1>keep, <2>1, <2>2 DEF EndedInv
<1>4. CASE EndRound
  <2>1. UNCHANGED <<op, ended, signalled>> /\ at = "round"
    BY <1>4 DEF EndRound
  <2>2. Fresh => NoneEnded
    <3> SUFFICES ASSUME Fresh, NEW e \in Commands, op[e] = RUNNING PROVE FALSE
      BY DEF NoneEnded
    <3>1. todo = Queues
      BY <2>1 DEF Fresh
    <3>2. num_commands[QueueOf(e)] = 0
      BY <1>4, <3>1, CommandFacts DEF EndRound
    <3>3. QED
      BY <3>2, RunningCounted DEF RUNNING, QUEUED
  <2>3. QED
    BY <1>keep, <2>1, <2>2 DEF EndedInv
<1>5. CASE Nudged
  <2>1. UNCHANGED <<op, ended, signalled>> /\ Settled
    BY <1>5 DEF Nudged
  <2>2. NoneEnded
    BY <2>1 DEF Settled, NoneEnded, InUse, RUNNING, QUEUED
  <2>3. QED
    BY <1>keep, <2>1, <2>2 DEF EndedInv
<1>6. CASE Popped \/ Submitted \/ PopInOrder \/ ForgetUserEvents
  <2>1. UNCHANGED <<op, ended, signalled>> /\ at \in {"pop", "submit"}
    BY <1>6 DEF Popped, Submitted, PopInOrder, ForgetUserEvents
  <2>2. ~Fresh
    BY <2>1 DEF Fresh
  <2>3. QED
    BY <1>keep, <2>1, <2>2 DEF EndedInv
<1>7. CASE PopCompleted
  <2>1. UNCHANGED <<op, ended>> /\ (signalled => signalled') /\ at = "pop"
    BY <1>7 DEF PopCompleted
  <2>2. ~Fresh
    BY <2>1 DEF Fresh
  <2>3. QED
    BY <1>keep, <2>1, <2>2 DEF EndedInv
<1>8. ASSUME NEW e \in Commands, Interrupt(e) PROVE EndedInv'
  BY <1>8 DEF Interrupt, EndedInv
<1>9. CASE UNCHANGED vars
  BY <1>9 DEF vars, EndedInv, NoneEnded, Fresh
<1>10. ASSUME NEW e \in Commands, Start(e) \/ Run(e) PROVE EndedInv'
  <2>1. UNCHANGED <<ended, signalled, control>> /\ op[e] # RUNNING
    BY <1>10 DEF Start, Run, SUBMITTED, RUNNING, QUEUED
  <2>2. \A d \in Commands : d # e => op'[d] = op[d]
    BY <1>0, <1>10 DEF TypeOK, Start, Run
  <2>3. e \notin ended /\ ended \subseteq Commands
    BY <1>0, <2>1 DEF EndedInv, TypeOK
  <2>4. NoneEnded => NoneEnded'
    BY <2>1, <2>2, <2>3 DEF NoneEnded
  <2>5. Fresh' <=> Fresh
    BY <2>1 DEF Fresh
  <2>6. QED
    BY <2>1, <2>2, <2>3, <2>4, <2>5 DEF EndedInv
<1>11. ASSUME NEW e \in Commands, End(e) PROVE EndedInv'
  <2>1. UNCHANGED <<signalled, control>> /\ ended' = ended \ {e}
        /\ op[e] = RUNNING /\ e \in ended
    BY <1>11 DEF End
  <2>2. \A d \in Commands : d # e => op'[d] = op[d]
    BY <1>0, <1>11 DEF TypeOK, End
  <2>3. ~NoneEnded /\ ended \subseteq Commands
    BY <1>0, <2>1 DEF NoneEnded, TypeOK
  <2>4. Fresh' <=> Fresh
    BY <2>1 DEF Fresh
  <2>5. QED
    BY <2>1, <2>2, <2>3, <2>4 DEF EndedInv
<1>submit. ASSUME at = "submit", UNCHANGED ended, signalled => signalled',
                  NEW e \in Commands, op[e] = None, op' = op \/ op' = [op EXCEPT ![e] = QUEUED]
           PROVE  EndedInv'
  <2>1. e \notin ended
    BY <1>submit, NoneFacts DEF EndedInv, RUNNING, COMPLETE, QUEUED
  <2>2. \A d \in Commands : d # e => op'[d] = op[d]
    BY <1>0, <1>submit DEF TypeOK
  <2>3. NoneEnded => NoneEnded'
    BY <1>submit, <2>1, <2>2 DEF NoneEnded
  <2>4. ~Fresh /\ ended \subseteq Commands
    BY <1>0, <1>submit DEF Fresh, TypeOK
  <2>5. QED
    BY <1>submit, <2>1, <2>2, <2>3, <2>4 DEF EndedInv
<1>12. CASE SubmitOutOfOrder
  <2> DEFINE e == new_commands[cur][idx]
  <2>1. e \in Commands /\ op[e] = None
    BY <1>12, NewNext DEF IdleOf, Of
  <2>2. at = "submit" /\ UNCHANGED ended /\ (signalled => signalled')
        /\ (op' = op \/ op' = [op EXCEPT ![e] = QUEUED])
    BY <1>12 DEF SubmitOutOfOrder, SubmitCommand
  <2> HIDE DEF e
  <2>3. QED
    BY <1>submit, <2>1, <2>2
<1>13. CASE SubmitInOrder
  <2> DEFINE e == inorder[cur][idx]
  <2>1. e \in Commands
    BY <1>13, InOrderNext DEF Of
  <2>2. at = "submit" /\ UNCHANGED ended /\ (signalled => signalled')
        /\ (op' = op \/ (~on_doq[e] /\ op' = [op EXCEPT ![e] = QUEUED]))
    BY <1>13 DEF SubmitInOrder, SubmitCommand
  <2> HIDE DEF e
  <2>3. CASE op' = op
    <3>1. ~Fresh
      BY <2>2 DEF Fresh
    <3>2. QED
      BY <1>keep, <2>2, <2>3, <3>1 DEF EndedInv
  <2>4. CASE op' # op
    BY <1>submit, <2>1, <2>2, <2>4 DEF SubmittedInv
  <2>5. QED
    BY <2>3, <2>4
<1>14. QED
  BY <1>1, <1>2, <1>3, <1>4, <1>5, <1>6, <1>7, <1>8, <1>9, <1>10, <1>11, <1>12,
     <1>13, NextCases DEF Quiet

(* What an event follows when it is enqueued has been enqueued.            *)
LEMMA FollowsEnqueued ==
    ASSUME IInv, NEW e \in Commands, Enqueue(e), NEW f \in Follows(e)
    PROVE  f \in Commands /\ life[f] # "new"
<1> DEFINE q == QueueOf(e)
<1>1. q \in Queues /\ Command[e].waits \subseteq Commands
  BY CommandFacts
<1>2. /\ commands[q] \subseteq LiveOf(q)
      /\ last_barrier[q] = None \/ last_barrier[q] \in commands[q]
      /\ inorder[q] \in Seq(Of(q))
  BY <1>1 DEF IInv, ListsInv, CommandSet, InOrderList
<1>3. \A w \in WaitList(e) \cup LastBarrier(e) : w \in Commands /\ life[w] # "new"
  BY <1>1, <1>2 DEF Enqueue, Enqueueable, WaitList, LastBarrier, LiveOf, Of
<1>4. \A w \in ToSet(inorder[q]) : w \in Commands /\ life[w] # "new"
  BY <1>2, PositionsOf DEF Of
<1>5. QED
  BY <1>3, <1>4 DEF Follows

LEMMA FollowsStep ==
    ASSUME IInv, FollowsInv, [Next]_vars
    PROVE  FollowsInv'
<1> USE DEF objects, queues, device, control
<1>0. TypeOK
  BY DEF IInv
<1>1. follows' = follows \/ \E e \in Commands : Enqueue(e)
  <2>1. CASE Quiet
    BY <2>1
    DEF Quiet, Wake, EndRound, Nudged, Popped, Submitted, UpdateQueue, Interrupt,
        vars
  <2>2. ASSUME NEW e \in Commands,
               \/ Release(e) \/ Start(e) \/ Run(e) \/ End(e)
               \/ \E s \in UserStatuses : SetUserEventStatus(e, s)
        PROVE  follows' = follows
    BY <2>2 DEF Release, Start, Run, End, SetUserEventStatus
  <2>3. CASE PopCompleted \/ PopInOrder \/ SubmitOutOfOrder \/ ForgetUserEvents
             \/ SubmitInOrder
    BY <2>3
    DEF PopCompleted, PopInOrder, SubmitOutOfOrder, ForgetUserEvents, SubmitInOrder
  <2>4. QED
    BY <2>1, <2>2, <2>3, NextCases
<1>2. ASSUME NEW d \in Commands, NEW f \in follows'[d] PROVE life'[f] # "new"
  <2>1. f \in Commands /\ life[f] # "new"
    <3>1. CASE f \in follows[d]
      BY <1>0, <3>1 DEF FollowsInv, TypeOK
    <3>2. CASE f \notin follows[d]
      <4>1. PICK e \in Commands : Enqueue(e)
        BY <1>1, <1>2, <3>2
      <4>2. follows' = [follows EXCEPT ![e] = Follows(e)]
        BY <4>1 DEF Enqueue
      <4>3. f \in Follows(e)
        BY <1>0, <1>2, <3>2, <4>2 DEF TypeOK
      <4>4. QED
        BY <4>1, <4>3, FollowsEnqueued
    <3>3. QED
      BY <3>1, <3>2
  <2>2. QED
    BY <2>1, Persistence
<1>3. ASSUME NEW q \in InOrder, NEW j \in 1..Len(inorder'[q]),
             NEW k \in 1..Len(inorder'[q]), j < k
      PROVE  inorder'[q][k] \notin follows'[inorder'[q][j]]
  <2>0. /\ q \in Queues /\ inorder[q] \in Seq(Of(q)) /\ inorder[q] \in Seq(Commands)
        /\ Len(inorder[q]) \in Nat
        /\ \A x \in 1..Len(inorder[q]) :
             inorder[q][x] \in Commands /\ life[inorder[q][x]] # "new"
    <3>1. q \in Queues
      BY QueueFacts
    <3>2. inorder[q] \in Seq(Of(q)) /\ inorder[q] \in Seq(Commands)
      BY <1>0, <3>1 DEF TypeOK, IInv, ListsInv, InOrderList
    <3>3. QED
      BY <3>1, <3>2, PositionsOf DEF Of
  <2>1. CASE inorder'[q] = inorder[q] /\ follows' = follows
    BY <1>3, <2>1 DEF FollowsInv
  <2>2. ASSUME NEW e \in Commands, Enqueue(e)
        PROVE  inorder'[q][k] \notin follows'[inorder'[q][j]]
    <3>1. life[e] = "new" /\ follows' = [follows EXCEPT ![e] = Follows(e)]
      BY <2>2 DEF Enqueue, Enqueueable
    <3>2. \A x \in 1..Len(inorder[q]) :
            /\ follows'[inorder[q][x]] = follows[inorder[q][x]]
            /\ e \notin follows[inorder[q][x]]
      BY <1>0, <2>0, <3>1 DEF FollowsInv, TypeOK
    <3>3. CASE inorder'[q] = inorder[q]
      <4>1. inorder[q][k] \notin follows[inorder[q][j]]
        BY <1>3, <3>3 DEF FollowsInv
      <4>2. QED
        BY <3>2, <3>3, <4>1
    <3>4. CASE inorder'[q] # inorder[q]
      <4>0. \/ inorder' = inorder
            \/ inorder' = [inorder EXCEPT ![QueueOf(e)] = Append(@, e)]
        BY <2>2 DEF Enqueue
      <4>1. inorder'[q] = Append(inorder[q], e)
        BY <1>0, <2>0, <3>4, <4>0 DEF TypeOK
      <4>2. /\ Len(inorder'[q]) = Len(inorder[q]) + 1
            /\ \A x \in 1..Len(inorder[q]) : inorder'[q][x] = inorder[q][x]
            /\ inorder'[q][Len(inorder[q]) + 1] = e
        BY <2>0, <4>1, AppendProperties
      <4>3. j \in 1..Len(inorder[q]) /\ inorder'[q][j] = inorder[q][j]
        BY <1>3, <2>0, <4>2
      <4>4. CASE k \in 1..Len(inorder[q])
        <5>1. inorder[q][k] \notin follows[inorder[q][j]]
          BY <1>3, <4>3, <4>4 DEF FollowsInv
        <5>2. QED
          BY <3>2, <4>2, <4>3, <4>4, <5>1
      <4>5. CASE k = Len(inorder[q]) + 1
        BY <3>2, <4>2, <4>3, <4>5
      <4>6. QED
        BY <2>0, <4>2, <4>4, <4>5
    <3>5. QED
      BY <3>3, <3>4
  <2>3. CASE PopInOrder /\ inorder'[q] # inorder[q]
    <3>1. follows' = follows /\ q = cur /\ inorder'[q] = RemoveAt(inorder[q], idx)
      BY <1>0, <2>0, <2>3 DEF PopInOrder, TypeOK
    <3>2. idx \in 1..Len(inorder[q])
      BY <2>3, <3>1, InOrderNext
    <3>3. \E x, y \in 1..Len(inorder[q]) :
            x < y /\ inorder'[q][j] = inorder[q][x] /\ inorder'[q][k] = inorder[q][y]
      <4>1. /\ j \in 1..Len(RemoveAt(inorder[q], idx))
            /\ k \in 1..Len(RemoveAt(inorder[q], idx))
        BY <3>1
      <4>2. \E x, y \in 1..Len(inorder[q]) :
              /\ x < y /\ RemoveAt(inorder[q], idx)[j] = inorder[q][x]
              /\ RemoveAt(inorder[q], idx)[k] = inorder[q][y]
        BY <1>3, <2>0, <3>2, <4>1, RemoveAtOrder
      <4>3. QED
        BY <3>1, <4>2
    <3>4. QED
      BY <3>1, <3>3 DEF FollowsInv
  <2>4. inorder'[q] = inorder[q] \/ PopInOrder \/ \E e \in Commands : Enqueue(e)
    <3>1. CASE Quiet
      BY <3>1, QuietChange
    <3>2. ASSUME NEW e \in Commands,
                 \/ Release(e) \/ Start(e) \/ Run(e) \/ End(e)
                 \/ \E s \in UserStatuses : SetUserEventStatus(e, s)
          PROVE  inorder' = inorder
      BY <3>2 DEF Release, Start, Run, End, SetUserEventStatus
    <3>3. CASE PopCompleted \/ SubmitOutOfOrder \/ ForgetUserEvents \/ SubmitInOrder
      BY <3>3
      DEF PopCompleted, SubmitOutOfOrder, ForgetUserEvents, SubmitInOrder
    <3>4. QED
      BY <3>1, <3>2, <3>3, NextCases
  <2>5. QED
    BY <1>1, <2>1, <2>2, <2>3, <2>4
<1>4. QED
  BY <1>2, <1>3 DEF FollowsInv

(* A step that frees no room and leaves a command no more ready than it    *)
(* was, and no more done.                                                  *)
Calm(d) ==
    /\ status'[d] <= COMPLETE => Done(d)
    /\ deps[d] # {} => deps'[d] # {}
    /\ status'[d] = QUEUED /\ ~on_doq'[d] /\ deps'[d] = {} =>
         status[d] = QUEUED /\ ~on_doq[d] /\ deps[d] = {}
Shrinks == \A d \in Commands : deps'[d] \subseteq deps[d]
NoMoreRoom == Cardinality(InUse') < Slots => Room

(* Such a step leaves at rest what is.                                     *)
LEMMA RestKept ==
    ASSUME IInv, NEW q \in Queues, NoMoreRoom, Shrinks,
           \A d \in Of(q) : Calm(d), inorder'[q] = inorder[q]
    PROVE  /\ \A k \in 1..Len(inorder[q]) :
                q \in InOrder /\ PassedOver(q, k) => PassedOver(q, k)'
           /\ q \in InOrder /\ DoneFront(q) => DoneFront(q)'
           /\ q \in InOrder /\ FrontBlocked(q) => FrontBlocked(q)'
<1>0. /\ inorder[q] \in Seq(Of(q)) /\ Len(inorder[q]) \in Nat
      /\ \A k \in 1..Len(inorder[q]) : inorder[q][k] \in Of(q)
  BY PositionsOf DEF IInv, ListsInv, InOrderList
<1>1. ASSUME NEW k \in 1..Len(inorder[q]), PassedOver(q, k)
      PROVE  PassedOver(q, k)'
  <2> DEFINE e == inorder[q][k]
  <2>1. e \in Of(q) /\ deps[e] # {} /\ Dependents(e) = {}
    BY <1>0, <1>1 DEF PassedOver
  <2> HIDE DEF e
  <2>2. deps'[e] # {}
    BY <2>1 DEF Calm
  <2>3. {d \in Commands : e \in deps'[d]} = {}
    BY <2>1 DEF Shrinks, Dependents
  <2>4. QED
    BY <2>2, <2>3 DEF PassedOver, Dependents, e
<1>2. ASSUME DoneFront(q) PROVE DoneFront(q)'
  <2> SUFFICES ASSUME NEW k \in 1..Len(inorder[q]),
                      \A j \in 1..k : status'[inorder[q][j]] <= COMPLETE
               PROVE  PassedOver(q, k)'
    BY DEF DoneFront, Done
  <2>1. \A j \in 1..k : Done(inorder[q][j])
    BY <1>0 DEF Calm
  <2>2. PassedOver(q, k)
    BY <1>2, <2>1 DEF DoneFront
  <2>3. QED
    BY <1>1, <2>2
<1>3. ASSUME FrontBlocked(q) PROVE FrontBlocked(q)'
  <2> DEFINE e == inorder[q][1]
  <2> SUFFICES ASSUME inorder[q] # <<>>, status'[e] = QUEUED, ~on_doq'[e],
                      deps'[e] = {}
               PROVE  ~(Cardinality(InUse') < Slots)
    BY DEF FrontBlocked, Room
  <2>1. e \in Of(q)
    <3>1. 1 \in 1..Len(inorder[q])
      BY <1>0, EmptySeq
    <3>2. QED
      BY <1>0, <3>1
  <2>2. status[e] = QUEUED /\ ~on_doq[e] /\ deps[e] = {}
    BY <2>1 DEF Calm
  <2>3. QED
    BY <1>3, <2>2 DEF FrontBlocked, NoMoreRoom
<1>4. QED
  BY <1>1, <1>2, <1>3

LEMMA StuckKept ==
    ASSUME IInv, NEW q \in Queues, NoMoreRoom,
           \A d \in Of(q) : Calm(d), new_commands'[q] = new_commands[q],
           NEW k \in 1..Len(new_commands[q]), Stuck(q, k)
    PROVE  Stuck(q, k)'
<1> DEFINE e == new_commands[q][k]
<1>1. e \in Of(q)
  <2>1. new_commands[q] \in Seq(IdleOf(q))
    BY DEF IInv, ListsInv, NewList
  <2>2. QED
    BY <2>1, PositionsOf DEF IdleOf
<1>2. deps[e] # {} \/ ~Room
  BY DEF Stuck
<1> HIDE DEF e
<1>3. deps'[e] # {} \/ ~(Cardinality(InUse') < Slots)
  BY <1>1, <1>2 DEF Calm, NoMoreRoom
<1>4. QED
  BY <1>3 DEF Stuck, Room, e

LEMMA AtRestKept ==
    ASSUME IInv, NEW q \in Queues, NoMoreRoom, Shrinks,
           \A d \in Of(q) : Calm(d), inorder'[q] = inorder[q],
           completed'[q] = completed[q],
           q = UserQueue \/ new_commands'[q] = new_commands[q], AtRest(q)
    PROVE  AtRest(q)'
<1>1. CASE q \in InOrder
  BY <1>1, RestKept DEF AtRest
<1>2. CASE q \notin InOrder
  <2>1. /\ completed[q] = <<>>
        /\ q # UserQueue => \A k \in 1..Len(new_commands[q]) : Stuck(q, k)
    BY <1>2 DEF AtRest
  <2>2. ASSUME q # UserQueue, NEW k \in 1..Len(new_commands[q]) PROVE Stuck(q, k)'
    BY <2>1, <2>2, StuckKept
  <2>3. q # UserQueue => \A k \in 1..Len(new_commands'[q]) : Stuck(q, k)'
    BY <2>2
  <2>4. QED
    BY <1>2, <2>1, <2>3 DEF AtRest
<1>3. QED
  BY <1>1, <1>2

(* A step that changes neither a list nor a dependency.                    *)
Still ==
    /\ UNCHANGED <<inorder, completed, new_commands, deps>>
    /\ NoMoreRoom /\ \A d \in Commands : Calm(d)

LEMMA StillRests ==
    ASSUME IInv, Still
    PROVE  /\ \A q \in Queues : AtRest(q) => AtRest(q)'
           /\ cur' = cur /\ idx' = idx /\ at' = at /\ CurRest => CurRest'
<1>1. /\ \A q \in Queues : \A d \in Of(q) : Calm(d)
      /\ NoMoreRoom /\ Shrinks
      /\ UNCHANGED <<inorder, completed, new_commands>>
  BY DEF Still, Of, Shrinks
<1>2. \A q \in Queues : AtRest(q) => AtRest(q)'
  BY <1>1, AtRestKept
<1>3. ASSUME cur' = cur, idx' = idx, at' = at, CurRest
      PROVE  CurRest'
  <2>0. cur \in Queues
    BY DEF IInv, TypeOK
  <2>1. ASSUME at = "pop", cur \in InOrder, NEW k \in 1..Len(inorder[cur]), k < idx
        PROVE  PassedOver(cur, k)'
    <3>1. PassedOver(cur, k)
      BY <1>3, <2>1 DEF CurRest
    <3>2. QED
      BY <1>1, <1>3, <2>0, <2>1, <3>1, RestKept
  <2>2. ASSUME at = "submit", cur \in InOrder
        PROVE  DoneFront(cur)' /\ (idx > 1 => FrontBlocked(cur)')
    <3>1. DoneFront(cur) /\ (idx > 1 => FrontBlocked(cur))
      BY <1>3, <2>2 DEF CurRest
    <3>2. QED
      BY <1>1, <1>3, <2>0, <2>2, <3>1, RestKept
  <2>3. ASSUME at = "submit", cur \notin InOrder, cur # UserQueue,
               NEW k \in 1..Len(new_commands[cur]), k < idx
        PROVE  Stuck(cur, k)'
    <3>1. Stuck(cur, k)
      BY <1>3, <2>3 DEF CurRest
    <3>2. QED
      BY <1>1, <1>3, <2>0, <3>1, StuckKept
  <2>4. at = "submit" /\ cur \notin InOrder => completed'[cur] = <<>>
    BY <1>1, <1>3 DEF CurRest
  <2>5. QED
    BY <1>1, <1>3, <2>1, <2>2, <2>3, <2>4 DEF CurRest
<1>4. QED
  BY <1>2, <1>3

(* A queue that counts no commands is at rest.                             *)
LEMMA EmptyAtRest ==
    ASSUME IInv, SubmittedInv, CountInv, NEW q \in Queues, num_commands[q] = 0
    PROVE  AtRest(q)
<1>1. Unpopped(q) = {}
  <2>1. Unpopped(q) \subseteq Commands
    BY DEF Unpopped
  <2>2. IsFiniteSet(Unpopped(q))
    BY <2>1, FS_Subset, SizeAssumption
  <2>3. Cardinality(Unpopped(q)) = 0
    BY DEF CountInv, Counted
  <2>4. QED
    BY <2>2, <2>3, FS_EmptySet
<1>2. CASE q \in InOrder
  <2>1. inorder[q] \in Seq(Of(q)) /\ ToSet(inorder[q]) = {}
    BY <1>1, <1>2 DEF IInv, ListsInv, InOrderList, CountInv, CountedInOrder
  <2>2. \A k \in 1..Len(inorder[q]) : FALSE
    BY <2>1, PositionsOf
  <2>3. inorder[q] = <<>>
    <3>1. Len(inorder[q]) \in Nat
      BY <2>1, LenProperties
    <3>2. Len(inorder[q]) = 0
      BY <2>2, <3>1
    <3>3. QED
      BY <2>1, <3>2, EmptySeq
  <2>4. QED
    BY <1>2, <2>2, <2>3 DEF AtRest, DoneFront, FrontBlocked
<1>3. CASE q \notin InOrder
  <2>1. completed[q] = <<>>
    <3>1. completed[q] \in Seq(DoneOf(q)) /\ ToSet(completed[q]) = {}
      BY <1>1, <1>3 DEF IInv, ListsInv, CompletedList, CountInv, CountedOutOfOrder
    <3>2. \A k \in 1..Len(completed[q]) : FALSE
      BY <3>1, PositionsOf
    <3>3. Len(completed[q]) \in Nat
      BY <3>1, LenProperties
    <3>4. Len(completed[q]) = 0
      BY <3>2, <3>3
    <3>5. QED
      BY <3>1, <3>4, EmptySeq
  <2>2. ASSUME q # UserQueue, NEW k \in 1..Len(new_commands[q]) PROVE FALSE
    <3> DEFINE e == new_commands[q][k]
    <3>1. new_commands[q] \in Seq(IdleOf(q))
      BY DEF IInv, ListsInv, NewList
    <3>2. e \in IdleOf(q) /\ e \in ToSet(new_commands[q])
      BY <3>1, PositionsOf
    <3>3. status[e] = QUEUED
      BY <1>3, <2>2, <3>2 DEF CountInv, NewQueued
    <3> HIDE DEF e
    <3>4. e \in Commands /\ life[e] # "new" /\ QueueOf(e) = q /\ ~Done(e)
      BY <3>2, <3>3 DEF IdleOf, Of, Done, QUEUED, COMPLETE
    <3>5. QED
      BY <1>1, <3>4, NotDoneUnpopped
  <2>3. QED
    BY <1>3, <2>1, <2>2 DEF AtRest
<1>4. QED
  BY <1>2, <1>3

(* What is in flight is in front: if the first command is not submitted,   *)
(* none is, and if it waits for nothing, it is ready.                      *)
LEMMA HeadReady ==
    ASSUME IInv, SubmittedInv, InFlightCounted, CountInv, OrderInv,
           NEW q \in InOrder, inorder[q] # <<>>,
           status[inorder[q][1]] = QUEUED, ~on_doq[inorder[q][1]],
           deps[inorder[q][1]] = {}
    PROVE  submitted[q] = 0 /\ (q = cur => ReadyInOrder(1))
<1> DEFINE l == inorder[q]
           e == l[1]
<1>0. /\ q \in Queues /\ l \in Seq(Of(q)) /\ Len(l) \in Nat /\ 1 \in 1..Len(l)
      /\ e \in Of(q)
  <2>1. q \in Queues
    BY QueueFacts
  <2>2. l \in Seq(Of(q))
    BY <2>1 DEF IInv, ListsInv, InOrderList
  <2>3. Len(l) \in Nat /\ 1 \in 1..Len(l)
    BY <2>2, EmptySeq, LenProperties
  <2>4. QED
    BY <2>1, <2>2, <2>3, ElementOfSeq
<1>1. ASSUME NEW f \in InFlight(q) PROVE FALSE
  <2>1. f \in Commands /\ QueueOf(f) = q /\ on_doq[f] /\ ~Done(f)
    BY DEF InFlight
  <2>2. f \in ToSet(l)
    BY <1>0, <2>1, NotDoneUnpopped DEF SubmittedInv, CountInv, CountedInOrder
  <2>3. PICK j \in 1..Len(l) : l[j] = f
    BY <1>0, <2>2, PositionsOf
  <2>4. 1 < j
    BY <1>0, <2>1, <2>3
  <2>5. QED
    BY <1>0, <2>1, <2>3, <2>4 DEF OrderInv, Past
<1>2. submitted[q] = 0
  <2>1. InFlight(q) = {}
    BY <1>1
  <2>2. QED
    BY <2>1, FS_EmptySet DEF InFlightCounted
<1>3. ASSUME q = cur PROVE ReadyInOrder(1)
  <2>1. e = inorder[cur][1] /\ QueueOf(e) = q /\ deps[e] = {} /\ submitted[cur] = 0
    BY <1>0, <1>2, <1>3 DEF Of
  <2> HIDE DEF e
  <2>2. ParentsLaunched(e) /\ ~SubbuffersInTheWay(e)
    BY <1>2, <2>1 DEF ParentsLaunched, SubbuffersInTheWay
  <2>3. QED
    BY <2>1, <2>2 DEF ReadyInOrder
<1>4. QED
  BY <1>2, <1>3

(* The steps that change neither a list nor a dependency.                  *)
LEMMA MoreInUse ==
    ASSUME TypeOK, NEW e \in Commands, op' = [op EXCEPT ![e] = QUEUED]
    PROVE  NoMoreRoom
<1>1. InUse \subseteq InUse' /\ InUse' \subseteq Commands
  BY DEF InUse, TypeOK, RUNNING, QUEUED
<1>2. IsFiniteSet(InUse') /\ IsFiniteSet(InUse)
  BY <1>1, FS_Subset, SizeAssumption
<1>3. /\ Cardinality(InUse) <= Cardinality(InUse')
      /\ Cardinality(InUse) \in Nat /\ Cardinality(InUse') \in Nat
  BY <1>1, <1>2, FS_Subset, FS_CardinalityType
<1>4. QED
  BY <1>3, SizeAssumption DEF NoMoreRoom, Room

LEMMA SameIsStill ==
    ASSUME UNCHANGED <<inorder, completed, new_commands, deps, op, status, on_doq>>
    PROVE  Still
<1>1. InUse' = InUse
  BY DEF InUse
<1>2. QED
  BY <1>1 DEF Still, NoMoreRoom, Room, Calm, Done

LEMMA StartIsStill ==
    ASSUME IInv, NEW e \in Commands, Start(e) \/ Run(e)
    PROVE  Still
<1>0. TypeOK
  BY DEF IInv
<1>1. /\ op[e] \in RUNNING..QUEUED
      /\ UNCHANGED <<deps, on_doq, inorder, completed, new_commands>>
      /\ \E s \in {SUBMITTED, RUNNING} :
           op' = [op EXCEPT ![e] = s] /\ status' = [status EXCEPT ![e] = s]
  BY DEF Start, Run, queues, RUNNING, SUBMITTED, QUEUED
<1>2. PICK s \in {SUBMITTED, RUNNING} :
        op' = [op EXCEPT ![e] = s] /\ status' = [status EXCEPT ![e] = s]
  BY <1>1
<1>3. \A d \in Commands : op'[d] = (IF d = e THEN s ELSE op[d])
                          /\ status'[d] = (IF d = e THEN s ELSE status[d])
  BY <1>0, <1>2 DEF TypeOK
<1>4. InUse' = InUse
  BY <1>1, <1>3 DEF InUse, SUBMITTED, RUNNING, QUEUED
<1>5. ASSUME NEW d \in Commands PROVE Calm(d)
  BY <1>1, <1>3 DEF Calm, Done, SUBMITTED, RUNNING, COMPLETE, QUEUED
<1>6. QED
  BY <1>1, <1>4, <1>5 DEF Still, NoMoreRoom, Room

LEMMA VisitKept ==
    ASSUME IInv, VisitInv, Still, signalled => signalled', updates => updates',
           UNCHANGED <<single, todo, cur, at>>,
           ~single /\ CurRest => CurRest'
    PROVE  VisitInv'
<1>1. CASE signalled \/ (updates /\ ~single)
  BY <1>1 DEF VisitInv
<1>2. CASE Visited
  <2>1. \A q \in Queues : AtRest(q) => AtRest(q)'
    BY StillRests
  <2>2. Visiting' = Visiting
    BY DEF Visiting
  <2>3. Visited'
    BY <1>2, <2>1, <2>2 DEF Visited
  <2>4. QED
    BY <2>3 DEF VisitInv
<1>3. QED
  BY <1>1, <1>2 DEF VisitInv

(* The visits of the queues that pop ... *)
LEMMA VisitPop ==
    ASSUME IInv, ControlInv, VisitInv, PopInOrder
    PROVE  VisitInv'
<1> DEFINE e == inorder[cur][idx]
<1>1. /\ cur \in InOrder /\ cur \in Queues /\ idx \in 1..Len(inorder[cur])
      /\ at = "pop" /\ Len(inorder[cur]) \in Nat
  BY InOrderNext, LenProperties DEF PopInOrder
<1>2. \A j \in 1..idx : Done(inorder[cur][j])
  BY <1>1 DEF PopInOrder, DoneAt, ControlInv
<1>3. UNCHANGED <<signalled, single, todo, cur, at>>
  BY DEF PopInOrder
<1>4. ASSUME single, AtRest(cur) PROVE PassedOver(cur, idx)
  BY <1>1, <1>2, <1>4 DEF AtRest, DoneFront
<1>5. CASE signalled
  BY <1>3, <1>5 DEF VisitInv
<1>6. CASE updates /\ ~single
  <2>1. updates' = TRUE \/ updates' = (updates \/ Dependents(e) # {})
    BY DEF PopInOrder
  <2>2. updates'
    BY <1>6, <2>1
  <2>3. QED
    BY <1>3, <1>6, <2>2 DEF VisitInv
<1>7. CASE Visited
  <2>1. CASE deps[e] = {} \/ Dependents(e) # {}
    <3>1. updates'
      BY <2>1 DEF PopInOrder
    <3>2. ~single
      BY <1>1, <1>4, <1>7, <2>1 DEF Visited, PassedOver
    <3>3. QED
      BY <1>3, <3>1, <3>2 DEF VisitInv
  <2>2. CASE deps[e] # {} /\ Dependents(e) = {}
    <3>1. /\ deps' = WithoutParent(e) /\ idx' = idx + 1
          /\ UNCHANGED <<status, on_doq, op, inorder, completed, new_commands>>
          /\ updates => updates'
      BY <2>2 DEF PopInOrder
    <3>2. deps' = deps
      <4>1. \A d \in Commands : deps[d] \ {e} = deps[d]
        BY <2>2 DEF Dependents
      <4>2. deps \in [Commands -> SUBSET Commands]
        BY DEF IInv, TypeOK
      <4>3. QED
        BY <3>1, <4>1, <4>2 DEF WithoutParent
    <3>3. Still
      BY <3>1, <3>2, SameIsStill
    <3>4. ASSUME CurRest PROVE CurRest'
      <4>1. ASSUME NEW k \in 1..Len(inorder[cur]), k < idx + 1
            PROVE  PassedOver(cur, k)
        <5>1. k < idx \/ k = idx
          BY <1>1, <4>1
        <5>2. QED
          BY <1>1, <2>2, <3>4, <5>1 DEF CurRest, PassedOver
      <4>2. \A k \in 1..Len(inorder[cur]) : k < idx + 1 => PassedOver(cur, k)'
        BY <1>3, <3>1, <3>2, <4>1 DEF PassedOver, Dependents
      <4>3. QED
        BY <1>1, <1>3, <3>1, <4>2 DEF CurRest
    <3>5. QED
      BY <1>3, <3>1, <3>3, <3>4, VisitKept
  <2>3. QED
    BY <2>1, <2>2
<1>8. QED
  BY <1>5, <1>6, <1>7 DEF VisitInv

LEMMA VisitPopped ==
    ASSUME IInv, ControlInv, VisitInv, Popped
    PROVE  VisitInv'
<1>0. /\ at = "pop" /\ at' = "submit" /\ cur \in Queues
      /\ UNCHANGED <<objects, queues, device, signalled, todo, cur, idx, updates,
                     single>>
  BY DEF Popped, IInv, TypeOK
<1>1. Still
  BY <1>0, SameIsStill DEF objects, queues, device
<1>2. CASE signalled \/ (updates /\ ~single)
  BY <1>0, <1>2 DEF VisitInv
<1>3. CASE Visited
  <2>1. \A q \in Queues : AtRest(q) => AtRest(q)'
    BY <1>1, StillRests
  <2>2. ASSUME ~single PROVE CurRest'
    <3>0. CurRest
      BY <1>3, <2>2 DEF Visited
    <3>1. CASE cur \in InOrder
      <4>0. /\ inorder[cur] \in Seq(Commands) /\ Len(inorder[cur]) \in Nat
            /\ idx \in Nat \ {0}
        BY <1>0, LenProperties DEF IInv, TypeOK
      <4>1. DoneFront(cur)
        <5> SUFFICES ASSUME NEW k \in 1..Len(inorder[cur]),
                            \A j \in 1..k : Done(inorder[cur][j])
                     PROVE  PassedOver(cur, k)
          BY DEF DoneFront
        <5>1. ~DoneAt(cur, idx)
          BY <3>1 DEF Popped
        <5>2. k < idx
          BY <4>0, <5>1 DEF DoneAt
        <5>3. QED
          BY <1>0, <3>0, <3>1, <5>2 DEF CurRest
      <4>2. ASSUME idx > 1 PROVE FrontBlocked(cur)
        <5>1. inorder[cur] # <<>> => 1 \in 1..Len(inorder[cur])
          BY <4>0, EmptySeq
        <5>2. inorder[cur] # <<>> => PassedOver(cur, 1)
          BY <1>0, <3>0, <3>1, <4>0, <4>2, <5>1 DEF CurRest
        <5>3. QED
          BY <5>2 DEF FrontBlocked, PassedOver
      <4>3. DoneFront(cur)' /\ (idx > 1 => FrontBlocked(cur)')
        <5>1. Shrinks /\ NoMoreRoom /\ \A d \in Of(cur) : Calm(d)
          BY <1>1 DEF Still, Shrinks, Of
        <5>2. QED
          BY <1>0, <1>1, <3>1, <4>1, <4>2, <5>1, RestKept DEF Still
      <4>4. QED
        BY <1>0, <3>1, <4>3 DEF CurRest
    <3>2. CASE cur \notin InOrder
      <4>1. completed'[cur] = <<>> /\ idx' = 1 /\ at' = "submit" /\ cur' = cur
        BY <1>0, <3>2 DEF Popped, ControlInv, queues
      <4>2. \A k \in 1..Len(new_commands'[cur]) : ~(k < idx')
        BY <4>1
      <4>3. QED
        BY <3>2, <4>1, <4>2 DEF CurRest
    <3>3. QED
      BY <3>1, <3>2
  <2>3. Visiting' = Visiting /\ Visiting
    BY <1>0 DEF Visiting
  <2>4. Visited'
    BY <1>0, <1>3, <2>1, <2>2, <2>3 DEF Visited
  <2>5. QED
    BY <2>4 DEF VisitInv
<1>4. QED
  BY <1>2, <1>3 DEF VisitInv

(* ... and of those that submit.                                           *)
LEMMA VisitSubmitInOrder ==
    ASSUME IInv, SubmittedInv, InFlightCounted, CountInv, OrderInv, VisitInv,
           SubmitInOrder
    PROVE  VisitInv'
<1> DEFINE e == inorder[cur][idx]
<1>0. /\ cur \in InOrder /\ cur \in Queues /\ idx \in 1..Len(inorder[cur])
      /\ e \in Commands /\ inorder[cur] # <<>> /\ Len(inorder[cur]) \in Nat
      /\ at = "submit"
  <2>1. /\ cur \in InOrder /\ cur \in Queues /\ idx \in 1..Len(inorder[cur])
        /\ e \in Commands /\ inorder[cur] \in Seq(Of(cur))
    BY InOrderNext DEF Of
  <2>2. QED
    BY <2>1, EmptySeq, LenProperties DEF SubmitInOrder
<1>1. /\ UNCHANGED <<at, todo, cur, single, deps, inorder, new_commands>>
      /\ idx' \in Nat /\ idx' > 1
  BY <1>0 DEF SubmitInOrder, objects, queues
<1> DEFINE Submits == status[e] = QUEUED /\ ~on_doq[e] /\ ReadyInOrder(idx)
                    /\ SubmitSucceeds(e)
<1>2. CASE Submits
  <2>1. /\ updates' = TRUE /\ SubmitCommand(e)
    BY <1>2 DEF SubmitInOrder
  <2>2. CASE ~single \/ Command[e].kind = "sync"
    <3>1. single => signalled'
      BY <1>2, <2>1, <2>2 DEF SubmitCommand
    <3>2. QED
      BY <1>1, <2>1, <3>1 DEF VisitInv
  <2>3. CASE single /\ Command[e].kind # "sync"
    <3>1. /\ op' = [op EXCEPT ![e] = QUEUED]
          /\ on_doq' = [on_doq EXCEPT ![e] = TRUE]
          /\ UNCHANGED <<status, completed, signalled>>
      BY <1>2, <2>1, <2>3 DEF SubmitCommand
    <3> HIDE DEF e
    <3>2. NoMoreRoom
      BY <1>0, <3>1, MoreInUse DEF IInv
    <3>3. ASSUME NEW d \in Commands PROVE Calm(d)
      <4>1. on_doq'[d] = (IF d = e THEN TRUE ELSE on_doq[d])
        BY <1>0, <3>1 DEF IInv, TypeOK
      <4>2. QED
        BY <1>1, <3>1, <4>1 DEF Calm, Done
    <3>4. Still
      BY <1>1, <3>1, <3>2, <3>3 DEF Still
    <3>5. QED
      BY <1>1, <2>1, <2>3, <3>1, <3>4, VisitKept
  <2>4. QED
    BY <2>2, <2>3
<1>3. CASE ~Submits
  <2>1. UNCHANGED <<objects, queues, signalled, updates>>
    BY <1>3 DEF SubmitInOrder
  <2>2. Still
    BY <1>1, <2>1, SameIsStill DEF objects, queues
  <2>3. ASSUME CurRest PROVE CurRest'
    <3>1. DoneFront(cur) /\ (idx > 1 => FrontBlocked(cur))
      BY <1>0, <2>3 DEF CurRest
    <3>2. ASSUME idx = 1 PROVE FrontBlocked(cur)
      <4> SUFFICES ASSUME status[e] = QUEUED, ~on_doq[e], deps[e] = {}
                   PROVE  ~Room
        BY <3>2 DEF FrontBlocked
      <4>1. ReadyInOrder(idx)
        BY <1>0, <3>2, HeadReady
      <4>2. ~SubmitSucceeds(e)
        BY <1>3, <4>1
      <4>3. QED
        BY <4>2 DEF SubmitSucceeds
    <3>3. FrontBlocked(cur)
      BY <1>0, <3>1, <3>2
    <3>4. Shrinks /\ NoMoreRoom /\ \A d \in Of(cur) : Calm(d)
      BY <2>2 DEF Still, Shrinks, Of
    <3>5. DoneFront(cur)' /\ FrontBlocked(cur)'
      BY <1>0, <1>1, <3>1, <3>3, <3>4, RestKept
    <3>6. QED
      BY <1>0, <1>1, <3>5 DEF CurRest
  <2>4. QED
    BY <1>1, <2>1, <2>2, <2>3, VisitKept
<1>4. QED
  BY <1>2, <1>3

LEMMA VisitSubmitOutOfOrder ==
    ASSUME IInv, SubmittedInv, CountInv, VisitInv, SubmitOutOfOrder
    PROVE  VisitInv'
<1> DEFINE l == new_commands[cur]
           e == l[idx]
<1>0. TypeOK
  BY DEF IInv
<1>1. /\ cur \in Queues /\ cur \notin InOrder /\ cur # UserQueue
      /\ idx \in 1..Len(l) /\ l \in Seq(IdleOf(cur)) /\ Len(l) \in Nat
      /\ e \in IdleOf(cur) /\ e \in Commands /\ QueueOf(e) = cur
      /\ e \in ToSet(l) /\ at = "submit"
  <2>1. /\ cur \in Queues /\ cur \notin InOrder /\ cur # UserQueue
        /\ idx \in 1..Len(l) /\ l \in Seq(IdleOf(cur)) /\ e \in IdleOf(cur)
    BY NewNext
  <2>2. Len(l) \in Nat /\ e \in ToSet(l)
    BY <2>1, PositionsOf
  <2>3. QED
    BY <2>1, <2>2 DEF IdleOf, Of, SubmitOutOfOrder
<1>2. status[e] = QUEUED
  BY <1>1 DEF CountInv, NewQueued
<1>3. UNCHANGED <<at, todo, cur, single, inorder>>
  BY DEF SubmitOutOfOrder
<1>4. CASE ReadyOutOfOrder(e) /\ SubmitSucceeds(e)
  <2>1. /\ updates' = TRUE /\ SubmitCommand(e) /\ deps' = [deps EXCEPT ![e] = {}]
        /\ new_commands' = [new_commands EXCEPT ![cur] = RemoveAt(l, idx)]
    BY <1>4 DEF SubmitOutOfOrder
  <2>2. CASE ~single \/ Command[e].kind = "sync" \/ signalled
    <3>1. single => signalled'
      BY <1>2, <2>1, <2>2 DEF SubmitCommand
    <3>2. QED
      BY <1>3, <2>1, <3>1 DEF VisitInv
  <2>3. CASE single /\ Command[e].kind # "sync" /\ ~signalled
    <3>1. /\ op' = [op EXCEPT ![e] = QUEUED]
          /\ on_doq' = [on_doq EXCEPT ![e] = TRUE]
          /\ UNCHANGED <<status, completed>>
      BY <1>2, <2>1, <2>3 DEF SubmitCommand
    <3>2. \A q \in Queues : AtRest(q)
      BY <2>3 DEF VisitInv, Visited
    <3>3. NoMoreRoom
      BY <1>0, <1>1, <3>1, MoreInUse
    <3>4. Shrinks /\ \A d \in Commands \ {e} : deps'[d] = deps[d]
      BY <1>0, <2>1 DEF TypeOK, Shrinks
    <3>5. \A d \in Commands \ {e} : Calm(d)
      <4>1. \A d \in Commands \ {e} : on_doq'[d] = on_doq[d] /\ status'[d] = status[d]
        BY <1>0, <3>1 DEF TypeOK
      <4>2. QED
        BY <3>4, <4>1 DEF Calm, Done
    <3>6. ASSUME NEW q \in Queues, q # cur PROVE AtRest(q)'
      <4>1. \A d \in Of(q) : Calm(d)
        BY <1>1, <3>5, <3>6 DEF Of
      <4>2. new_commands'[q] = new_commands[q]
        BY <1>0, <2>1, <3>6 DEF TypeOK
      <4>3. QED
        BY <1>3, <3>1, <3>2, <3>3, <3>4, <4>1, <4>2, AtRestKept
    <3>7. AtRest(cur)'
      <4> DEFINE r == RemoveAt(l, idx)
      <4>0. completed[cur] = <<>> /\ \A k \in 1..Len(l) : Stuck(cur, k)
        BY <1>1, <3>2 DEF AtRest
      <4>1. /\ Len(r) = Len(l) - 1 /\ new_commands'[cur] = r
            /\ \A k \in 1..Len(l) - 1 : r[k] = IF k < idx THEN l[k] ELSE l[k + 1]
        <5>1. new_commands'[cur] = r
          BY <1>0, <1>1, <2>1 DEF TypeOK
        <5>2. l \in Seq(IdleOf(cur)) /\ idx \in 1..Len(l)
          BY <1>1
        <5> HIDE DEF l
        <5>3. /\ Len(r) = Len(l) - 1
              /\ \A k \in 1..Len(l) - 1 : r[k] = IF k < idx THEN l[k] ELSE l[k + 1]
          BY <5>2, RemoveAtProperties
        <5>4. QED
          BY <5>1, <5>3
      <4>2. \A j, k \in 1..Len(l) : l[j] = l[k] => j = k
        <5>1. IsInjective(l)
          BY <1>1 DEF IInv, ListsInv, NewList
        <5>2. QED
          BY <1>1, <5>1, PositionsOf
      <4> HIDE DEF r
      <4>3. ASSUME NEW k \in 1..Len(r)
            PROVE  deps'[r[k]] # {} \/ ~(Cardinality(InUse') < Slots)
        <5>1. PICK x \in 1..Len(l) : x # idx /\ r[k] = l[x]
          <6>1. CASE k < idx
            BY <1>1, <4>1, <6>1
          <6>2. CASE ~(k < idx)
            <7>1. k + 1 \in 1..Len(l) /\ k + 1 # idx /\ r[k] = l[k + 1]
              BY <1>1, <4>1, <6>2
            <7>2. QED
              BY <7>1
          <6>3. QED
            BY <6>1, <6>2
        <5>2. l[x] # e /\ l[x] \in Commands
          <6>1. l[x] # e
            BY <1>1, <4>2, <5>1
          <6>2. l[x] \in IdleOf(cur)
            BY <1>1, <5>1, ElementOfSeq
          <6>3. QED
            BY <6>1, <6>2 DEF IdleOf, Of
        <5>3. deps[l[x]] # {} \/ ~Room
          BY <4>0, <5>1 DEF Stuck
        <5>4. QED
          BY <3>3, <3>4, <5>1, <5>2, <5>3 DEF NoMoreRoom
      <4>4. \A k \in 1..Len(r) : deps'[r[k]] # {} \/ ~Room'
        BY <4>3 DEF Room
      <4>5. QED
        BY <1>1, <1>3, <3>1, <4>0, <4>1, <4>4 DEF AtRest, Stuck
    <3>8. Visited'
      <4>1. \A q \in Queues : AtRest(q)'
        BY <1>3, <3>6, <3>7
      <4>2. QED
        BY <1>3, <2>3, <4>1 DEF Visited
    <3>9. QED
      BY <3>8 DEF VisitInv
  <2>4. QED
    BY <2>2, <2>3
<1>5. CASE ~(ReadyOutOfOrder(e) /\ SubmitSucceeds(e))
  <2>1. idx' = idx + 1
        /\ UNCHANGED <<objects, completed, new_commands, signalled, updates>>
    BY <1>5 DEF SubmitOutOfOrder
  <2>2. Still
    BY <1>3, <2>1, SameIsStill DEF objects
  <2>3. ASSUME CurRest PROVE CurRest'
    <3>1. completed[cur] = <<>> /\ \A k \in 1..Len(l) : k < idx => Stuck(cur, k)
      BY <1>1, <2>3 DEF CurRest
    <3>2. Stuck(cur, idx)
      BY <1>5 DEF ReadyOutOfOrder, SubmitSucceeds, Stuck
    <3>3. \A k \in 1..Len(l) : k < idx + 1 => Stuck(cur, k)
      BY <1>1, <3>1, <3>2
    <3>4. NoMoreRoom /\ \A d \in Of(cur) : Calm(d)
      BY <2>2 DEF Still, Of
    <3>5. ASSUME NEW k \in 1..Len(l), k < idx + 1 PROVE Stuck(cur, k)'
      <4>1. new_commands'[cur] = new_commands[cur] /\ Stuck(cur, k)
        BY <2>1, <3>3, <3>5
      <4>2. \A q \in Queues : q = cur => Stuck(q, k)'
        BY <1>1, <3>4, <3>5, <4>1, StuckKept
      <4>3. QED
        BY <1>1, <1>3, <4>2
    <3>6. QED
      BY <1>1, <1>3, <2>1, <3>1, <3>5 DEF CurRest
  <2>4. QED
    BY <1>3, <2>1, <2>2, <2>3, VisitKept
<1>6. QED
  BY <1>4, <1>5

LEMMA VisitStep ==
    ASSUME IInv, SubmittedInv, InFlightCounted, CountInv, UserInv, OrderInv,
           ControlInv, EndedInv, VisitInv, [Next]_vars
    PROVE  VisitInv'
<1> USE DEF objects, queues, device, control
<1>0. TypeOK
  BY DEF IInv
<1>round. ASSUME at' = "round", todo' = Queues, single' = FALSE PROVE VisitInv'
  BY <1>round DEF VisitInv, Visited, CurRest
<1>rest. ASSUME Still, \A q \in Queues : AtRest(q),
                single' \/ at' \in {"asleep", "round"}
         PROVE  VisitInv'
  <2>1. \A q \in Queues : AtRest(q)'
    BY <1>rest, StillRests
  <2>2. single' \/ CurRest'
    BY <1>rest DEF CurRest
  <2>3. Visited'
    BY <2>1, <2>2 DEF Visited
  <2>4. QED
    BY <2>3 DEF VisitInv
<1>1. CASE Wake
  BY <1>1, <1>round DEF Wake, StartRound
<1>2. ASSUME NEW e \in Commands,
             \/ Enqueue(e) \/ Interrupt(e)
             \/ \E s \in UserStatuses : SetUserEventStatus(e, s)
      PROVE  VisitInv'
  <2>1. signalled' \/ (at' = "round" /\ todo' = Queues /\ single' = FALSE)
    BY <1>2 DEF Enqueue, Interrupt, SetUserEventStatus, StartRound
  <2>2. QED
    BY <1>round, <2>1 DEF VisitInv
<1>3. ASSUME NEW e \in Commands, Release(e) PROVE VisitInv'
  <2>1. /\ at = "asleep" /\ UNCHANGED signalled
        /\ UNCHANGED <<inorder, completed, new_commands, deps, op, status, on_doq>>
    BY <1>3 DEF Release
  <2>2. todo = {} /\ ~updates /\ ~single /\ ~Visiting
    BY <2>1 DEF ControlInv, Visiting
  <2>3. CASE signalled
    BY <2>1, <2>3 DEF VisitInv
  <2>4. CASE ~signalled
    <3>1. \A q \in Queues : AtRest(q)
      BY <2>2, <2>4 DEF VisitInv, Visited
    <3>2. single' \/ at' = "asleep"
      BY <1>3, <2>1 DEF Release
    <3>3. QED
      BY <1>rest, <2>1, <3>1, <3>2, SameIsStill
  <2>5. QED
    BY <2>3, <2>4
<1>4. ASSUME NEW q \in Queues, UpdateQueue(q) PROVE VisitInv'
  <2>1. /\ UNCHANGED <<inorder, completed, new_commands, deps, op, status, on_doq>>
        /\ UNCHANGED <<signalled, updates, single>>
        /\ at = "round" /\ at' = "nudge" /\ todo' = todo \ {q} /\ cur' = q
    BY <1>4 DEF UpdateQueue
  <2>2. CASE signalled \/ (updates /\ ~single)
    BY <2>1, <2>2 DEF VisitInv
  <2>3. CASE Visited
    <3>1. \A r \in Queues : AtRest(r) => AtRest(r)'
      BY <2>1, SameIsStill, StillRests
    <3>2. ~Visiting /\ Visiting' /\ CurRest'
      BY <2>1 DEF Visiting, CurRest
    <3>3. \A r \in Queues :
            (~single' /\ (r \in todo' \/ (Visiting' /\ r = cur'))) \/ AtRest(r)'
      BY <2>1, <2>3, <3>1, <3>2 DEF Visited
    <3>4. Visited'
      BY <3>2, <3>3 DEF Visited
    <3>5. QED
      BY <3>4 DEF VisitInv
  <2>4. QED
    BY <2>2, <2>3 DEF VisitInv
<1>5. CASE EndRound
  <2>1. /\ UNCHANGED <<inorder, completed, new_commands, deps, op, status, on_doq>>
        /\ UNCHANGED signalled /\ at = "round"
        /\ \A q \in todo : num_commands[q] = 0
    BY <1>5 DEF EndRound
  <2>2. CASE signalled
    BY <2>1, <2>2 DEF VisitInv
  <2>3. CASE AnotherRound
    BY <1>5, <1>round, <2>3 DEF EndRound
  <2>4. CASE ~signalled /\ ~AnotherRound
    <3>1. Visited /\ ~Visiting
      BY <2>1, <2>4 DEF VisitInv, AnotherRound, Visiting
    <3>2. ASSUME NEW q \in Queues PROVE AtRest(q)
      <4>1. q \in todo => AtRest(q)
        BY <2>1, EmptyAtRest
      <4>2. QED
        BY <3>1, <4>1 DEF Visited
    <3>3. at' = "asleep"
      BY <1>5, <2>4 DEF EndRound
    <3>4. QED
      BY <1>rest, <2>1, <3>2, <3>3, SameIsStill
  <2>5. QED
    BY <2>2, <2>3, <2>4
<1>6. CASE Nudged
  <2>1. /\ UNCHANGED <<inorder, completed, new_commands, deps, op, status, on_doq>>
        /\ UNCHANGED <<signalled, updates, single, todo, cur, idx>>
        /\ at = "nudge" /\ at' = "pop"
    BY <1>6 DEF Nudged
  <2>2. CASE signalled \/ (updates /\ ~single)
    BY <2>1, <2>2 DEF VisitInv
  <2>3. CASE Visited
    <3>1. \A r \in Queues : AtRest(r) => AtRest(r)'
      BY <2>1, SameIsStill, StillRests
    <3>2. idx' = 1
      BY <2>1 DEF UserInv
    <3>3. Visiting /\ Visiting' /\ CurRest'
      <4>1. \A k \in 1..Len(inorder'[cur']) : ~(k < idx')
        BY <3>2
      <4>2. QED
        BY <2>1, <4>1 DEF Visiting, CurRest
    <3>4. \A r \in Queues :
            (~single' /\ (r \in todo' \/ (Visiting' /\ r = cur'))) \/ AtRest(r)'
      BY <2>1, <2>3, <3>1, <3>3 DEF Visited
    <3>5. Visited'
      BY <3>3, <3>4 DEF Visited
    <3>6. QED
      BY <3>5 DEF VisitInv
  <2>4. QED
    BY <2>2, <2>3 DEF VisitInv
<1>7. CASE PopCompleted
  <2>1. /\ completed[cur] # <<>> /\ cur \in Queues /\ cur \notin InOrder
        /\ updates' = TRUE /\ single' = single /\ (signalled => signalled')
    BY <1>0, <1>7 DEF PopCompleted, TypeOK
  <2>2. signalled \/ ~single
    BY <2>1 DEF VisitInv, Visited, AtRest
  <2>3. QED
    BY <2>1, <2>2 DEF VisitInv
<1>8. CASE ForgetUserEvents
  <2>1. /\ updates' = TRUE /\ UNCHANGED <<single, signalled>> /\ cur = UserQueue
        /\ UNCHANGED <<inorder, completed, deps, op, status, on_doq>>
        /\ new_commands' = [new_commands EXCEPT ![cur] = <<>>]
    BY <1>8 DEF ForgetUserEvents
  <2>2. CASE signalled \/ ~single
    BY <2>1, <2>2 DEF VisitInv
  <2>3. CASE ~signalled /\ single
    <3>1. \A q \in Queues : AtRest(q)
      BY <2>3 DEF VisitInv, Visited
    <3>2. NoMoreRoom /\ Shrinks /\ \A q \in Queues : \A d \in Of(q) : Calm(d)
      BY <2>1 DEF NoMoreRoom, Room, InUse, Shrinks, Calm, Done
    <3>3. \A q \in Queues : q = UserQueue \/ new_commands'[q] = new_commands[q]
      BY <1>0, <2>1 DEF TypeOK
    <3>4. \A q \in Queues : AtRest(q)'
      BY <2>1, <3>1, <3>2, <3>3, AtRestKept
    <3>5. Visited'
      BY <2>1, <2>3, <3>4 DEF Visited
    <3>6. QED
      BY <3>5 DEF VisitInv
  <2>4. QED
    BY <2>2, <2>3
<1>9. CASE Submitted
  <2>1. /\ UNCHANGED <<inorder, completed, new_commands, deps, op, status, on_doq>>
        /\ UNCHANGED <<signalled, updates, single, todo>>
        /\ at = "submit" /\ at' = "round" /\ cur \in Queues
    BY <1>0, <1>9 DEF Submitted, TypeOK
  <2>2. CASE signalled \/ (updates /\ ~single)
    BY <2>1, <2>2 DEF VisitInv
  <2>3. CASE Visited
    <3>1. \A r \in Queues : AtRest(r) => AtRest(r)'
      BY <2>1, SameIsStill, StillRests
    <3>2. ASSUME ~single PROVE AtRest(cur)
      <4>0. CurRest
        BY <2>3, <3>2 DEF Visited
      <4>1. CASE cur \in InOrder
        <5>1. inorder[cur] \in Seq(Commands) /\ idx \in Nat \ {0}
              /\ idx > Len(inorder[cur])
          BY <1>0, <1>9, <2>1, <4>1 DEF Submitted, TypeOK
        <5>2. idx > 1 \/ inorder[cur] = <<>>
          BY <5>1, EmptySeq, LenProperties
        <5>3. FrontBlocked(cur)
          BY <2>1, <4>0, <4>1, <5>2 DEF CurRest, FrontBlocked
        <5>4. QED
          BY <2>1, <4>0, <4>1, <5>3 DEF CurRest, AtRest
      <4>2. CASE cur \notin InOrder
        <5>1. new_commands[cur] \in Seq(Commands) /\ idx \in Nat \ {0}
              /\ idx > Len(new_commands[cur])
          BY <1>0, <1>9, <2>1, <4>2 DEF Submitted, TypeOK
        <5>2. \A k \in 1..Len(new_commands[cur]) : k < idx
          BY <5>1, LenProperties
        <5>3. QED
          BY <2>1, <4>0, <4>2, <5>2 DEF CurRest, AtRest
      <4>3. QED
        BY <4>1, <4>2
    <3>3. \A r \in Queues : (~single' /\ r \in todo') \/ AtRest(r)'
      BY <2>1, <2>3, <3>1, <3>2 DEF Visited
    <3>4. CurRest'
      BY <2>1 DEF CurRest
    <3>5. Visited'
      BY <3>3, <3>4 DEF Visited
    <3>6. QED
      BY <3>5 DEF VisitInv
  <2>4. QED
    BY <2>2, <2>3 DEF VisitInv
<1>10. ASSUME NEW e \in Commands, Start(e) \/ Run(e) PROVE VisitInv'
  <2>1. Still /\ UNCHANGED <<signalled, updates, single, todo, cur, at, idx>>
    BY <1>10, StartIsStill DEF Start, Run
  <2>2. QED
    BY <2>1, StillRests, VisitKept
<1>11. ASSUME NEW e \in Commands, End(e) PROVE VisitInv'
  <2>1. /\ UNCHANGED <<signalled, updates, single, todo, cur, at>>
        /\ op[e] = RUNNING /\ e \in ended /\ at \in {"nudge", "submit"}
    BY <1>11 DEF End, Updating
  <2>2. signalled \/ Fresh
    BY <2>1 DEF EndedInv, NoneEnded
  <2>3. CASE signalled
    BY <2>1, <2>3 DEF VisitInv
  <2>4. CASE Fresh
    <3>1. at' = "nudge" /\ ~single' /\ todo' = Queues \ {cur'}
      BY <2>1, <2>4 DEF Fresh
    <3>2. \A q \in Queues : q \in todo' \/ q = cur'
      BY <3>1
    <3>3. Visiting' /\ CurRest'
      BY <3>1 DEF Visiting, CurRest
    <3>4. Visited'
      BY <3>1, <3>2, <3>3 DEF Visited
    <3>5. QED
      BY <3>4 DEF VisitInv
  <2>5. QED
    BY <2>2, <2>3, <2>4
<1>12. CASE UNCHANGED vars
  <2>1. Still /\ UNCHANGED <<signalled, updates, single, todo, cur, at, idx>>
    BY <1>12, SameIsStill DEF vars
  <2>2. QED
    BY <2>1, StillRests, VisitKept
<1>13. QED
  BY <1>1, <1>2, <1>3, <1>4, <1>5, <1>6, <1>7, <1>8, <1>9, <1>10, <1>11, <1>12,
     VisitPop, VisitPopped, VisitSubmitInOrder, VisitSubmitOutOfOrder, NextCases
  DEF Quiet

LEMMA InitVisit ==
    ASSUME Init
    PROVE  ControlInv /\ EndedInv /\ VisitInv /\ FollowsInv
<1>1. /\ \A q \in Queues : completed[q] = <<>> /\ new_commands[q] = <<>>
                           /\ inorder[q] = <<>>
      /\ \A q \in InOrder : Len(inorder[q]) = 0
      /\ at = "asleep" /\ todo = {} /\ ~updates /\ ~single /\ ended = {}
  BY QueueFacts DEF Init
<1>2. ControlInv
  BY <1>1, QueueFacts DEF ControlInv
<1>3. EndedInv
  BY <1>1 DEF EndedInv, NoneEnded
<1>4. ASSUME NEW q \in Queues PROVE AtRest(q)
  <2>1. CASE q \in InOrder
    BY <1>1, <2>1 DEF AtRest, DoneFront, FrontBlocked
  <2>2. CASE q \notin InOrder
    <3>1. Len(new_commands[q]) = 0
      BY <1>1
    <3>2. QED
      BY <1>1, <2>2, <3>1 DEF AtRest
  <2>3. QED
    BY <2>1, <2>2
<1>5. VisitInv
  <2>1. CurRest
    BY <1>1 DEF CurRest
  <2>2. QED
    BY <1>4, <2>1 DEF VisitInv, Visited
<1>6. FollowsInv
  BY <1>1 DEF Init, FollowsInv
<1>7. QED
  BY <1>2, <1>3, <1>5, <1>6

(* Of an in-order queue at rest, only the first command could be ready     *)
(* with nothing left that it follows.                                      *)
LEMMA RestIsNothing ==
    ASSUME IInv, CountInv, ControlInv, VisitInv, FollowsInv
    PROVE  NothingLeftToDo
<1> SUFFICES ASSUME at = "asleep", ~signalled, NEW q \in Queues
             PROVE  /\ completed[q] = <<>>
                    /\ q \in InOrder /\ DoneAt(q, 1) => deps[inorder[q][1]] # {}
                    /\ q \notin InOrder \cup {UserQueue} =>
                         \A e \in ToSet(new_commands[q]) : deps[e] # {} \/ ~Room
                    /\ q \in InOrder =>
                         \A e \in Unpopped(q) :
                             /\ status[e] = QUEUED /\ ~on_doq[e] /\ deps[e] = {}
                             /\ \A f \in Unpopped(q) \ {e} : e \in follows[f]
                             => ~Room
  BY DEF NothingLeftToDo
<1>1. AtRest(q)
  BY DEF ControlInv, VisitInv, Visited, Visiting
<1>2. completed[q] = <<>>
  BY <1>1 DEF AtRest, ControlInv
<1>3. ASSUME q \in InOrder, DoneAt(q, 1) PROVE deps[inorder[q][1]] # {}
  <2>1. inorder[q] \in Seq(Commands) /\ Len(inorder[q]) \in Nat
    BY LenProperties DEF IInv, TypeOK
  <2>2. 1 \in 1..Len(inorder[q]) /\ \A j \in 1..1 : Done(inorder[q][j])
    BY <1>3, <2>1 DEF DoneAt
  <2>3. PassedOver(q, 1)
    BY <1>1, <1>3, <2>2 DEF AtRest, DoneFront
  <2>4. QED
    BY <2>3 DEF PassedOver
<1>4. ASSUME q \notin InOrder \cup {UserQueue}, NEW e \in ToSet(new_commands[q])
      PROVE  deps[e] # {} \/ ~Room
  <2>1. new_commands[q] \in Seq(Commands)
    BY DEF IInv, TypeOK
  <2>2. PICK k \in 1..Len(new_commands[q]) : new_commands[q][k] = e
    BY <2>1, PositionsOf
  <2>3. QED
    BY <1>1, <1>4, <2>2 DEF AtRest, Stuck
<1>5. ASSUME q \in InOrder, NEW e \in Unpopped(q),
             status[e] = QUEUED, ~on_doq[e], deps[e] = {},
             \A f \in Unpopped(q) \ {e} : e \in follows[f]
      PROVE  ~Room
  <2>1. inorder[q] \in Seq(Of(q)) /\ ToSet(inorder[q]) = Unpopped(q)
    BY <1>5 DEF IInv, ListsInv, InOrderList, CountInv, CountedInOrder
  <2>2. PICK k \in 1..Len(inorder[q]) : inorder[q][k] = e
    BY <2>1, PositionsOf
  <2>3. Len(inorder[q]) \in Nat /\ 1 \in 1..Len(inorder[q]) /\ inorder[q] # <<>>
    BY <2>1, <2>2, EmptySeq, LenProperties
  <2>4. inorder[q][1] = e
    <3> SUFFICES ASSUME inorder[q][1] # e PROVE FALSE
      OBVIOUS
    <3>1. inorder[q][1] \in Unpopped(q) \ {e}
      BY <2>1, <2>3, PositionsOf
    <3>2. 1 < k
      BY <2>2, <2>3
    <3>3. inorder[q][k] \notin follows[inorder[q][1]]
      BY <1>5, <2>2, <2>3, <3>2 DEF FollowsInv
    <3>4. QED
      BY <1>5, <2>2, <3>1, <3>3
  <2>5. QED
    BY <1>1, <1>5, <2>3, <2>4 DEF AtRest, FrontBlocked
<1>6. QED
  BY <1>2, <1>3, <1>4, <1>5

(* When the threads go back to sleep and no signal is pending, no update   *)
(* is owed to any queue: nothing completed is still in its queue, and      *)
(* nothing that could be submitted is left there.  This holds if a failed  *)
(* user event terminates only commands of in-order queues and a kernel     *)
(* that is ready finds room.  (Without room, a kernel is passed over for   *)
(* one behind it, and waits for that one when there is room again.)        *)
THEOREM NothingForgotten ==
    ASSUME INVALID \notin UserStatuses
    PROVE  Spec /\ []TerminatesInOrder /\ []KernelsFindRoom
             => []NothingLeftToDo
<1> DEFINE J == /\ IInv /\ SubmittedInv /\ InFlightCounted /\ CountInv
                /\ UserInv /\ PassedInv /\ OrderInv
                /\ ControlInv /\ EndedInv /\ VisitInv /\ FollowsInv
<1>1. Init => J
  BY InitInv, InitSubmitted, InitCount, InitAssertions, InitVisit
<1>2. J /\ TerminatesInOrder /\ KernelsFindRoom /\ [Next]_vars => J'
  <2> SUFFICES ASSUME J, TerminatesInOrder, KernelsFindRoom, [Next]_vars
               PROVE  J'
    OBVIOUS
  <2>1. IInv' /\ SubmittedInv' /\ InFlightCounted'
    BY NextInv, SubmittedStep, InFlightStep
  <2>2. CountInv' /\ UserInv'
    BY CountInvStep, UserStep
  <2>3. PassedInv' /\ OrderInv'
    BY PassedStep, OrderStep
  <2>4. ControlInv' /\ EndedInv' /\ VisitInv' /\ FollowsInv'
    BY ControlStep, EndedStep, VisitStep, FollowsStep
  <2>5. QED
    BY <2>1, <2>2, <2>3, <2>4
<1>3. J => NothingLeftToDo
  BY RestIsNothing
<1>4. QED
  BY <1>1, <1>2, <1>3, PTL DEF Spec

----------------------------------------------------------------------------
(* Commands start in order.                                                *)

(* A host that enqueues a command behind a barrier gives it a wait list    *)
(* (acl_create_event looks at the barrier only then).                      *)
BarriersNamed ==
    \A e \in Commands :
        Enqueueable(e) /\ LastBarrier(e) # {} => WaitList(e) # {}

(* What the status of a command and its place in a ring say of its         *)
(* operation.                                                              *)
StatusKnown(e) ==
    /\ \/ Command[e].kind = "user" \/ status[e] = QUEUED \/ Done(e)
       \/ op[e] # None
    /\ op[e] = COMPLETE => Done(e)
    /\ IsKernel(e) /\ op[e] \in {QUEUED, None} =>
         e \notin ToSet(ring[Command[e].accel])
StatusInv == \A e \in Commands : StatusKnown(e)

(* In front of a submitted command of an in-order queue, all that is not   *)
(* done are launches of the same kernel that have reached the device.      *)
LaunchedBefore(f, e) == SameKernel(f, e) /\ Launched(f)
LineInv ==
    /\ \A q \in Queues \ InOrder : inorder[q] = <<>>
    /\ \A q \in InOrder : \A j, k \in 1..Len(inorder[q]) :
         j < k /\ on_doq[inorder[q][k]] =>
             \/ Done(inorder[q][j])
             \/ LaunchedBefore(inorder[q][j], inorder[q][k])

(* What a command follows and is not done still holds it back: by a        *)
(* dependency, in its queue, or, once it is submitted, on the device,      *)
(* where it can only be a launch of the same kernel in front of it.        *)
InFront(f, e) ==
    /\ QueueOf(e) \in InOrder
    /\ LET l == inorder[QueueOf(e)] IN
       \E j, k \in 1..Len(l) : j < k /\ l[j] = f /\ l[k] = e
AheadInRing(f, e) ==
    LET r == ring[Command[e].accel] IN
    \A k \in 1..Len(r) : r[k] = e => \E j \in 1..Len(r) : j < k /\ r[j] = f
HoldsBack(f, e) ==
    \/ Done(f)
    \/ op[e] = None /\ (f \in deps[e] \/ InFront(f, e))
    \/ op[e] # None /\ LaunchedBefore(f, e) /\ AheadInRing(f, e)
HeldInv ==
    \A e \in Commands : life[e] = "live" /\ ~Done(e) =>
        \A f \in follows[e] : HoldsBack(f, e)

(* How the operation of a command changes.                                 *)
LEMMA OpChange ==
    ASSUME IInv, SubmittedInv, [Next]_vars
    PROVE  \/ op' = op /\ on_doq' = on_doq
           \/ \E e \in Commands : Start(e) \/ Run(e) \/ End(e)
           \/ SubmitOutOfOrder /\ SubmitCommand(new_commands[cur][idx])
           \/ /\ SubmitInOrder /\ ~on_doq[inorder[cur][idx]]
              /\ status[inorder[cur][idx]] = QUEUED /\ ReadyInOrder(idx)
              /\ SubmitCommand(inorder[cur][idx])
<1> USE DEF objects, queues, device, control
<1>1. CASE Quiet
  BY <1>1, QuietChange
<1>2. ASSUME NEW e \in Commands,
             \/ Enqueue(e) \/ Release(e)
             \/ \E s \in UserStatuses : SetUserEventStatus(e, s)
      PROVE  op' = op /\ on_doq' = on_doq
  BY <1>2 DEF Enqueue, Release, SetUserEventStatus
<1>3. CASE PopCompleted \/ PopInOrder \/ ForgetUserEvents
  BY <1>3 DEF PopCompleted, PopInOrder, ForgetUserEvents
<1>4. CASE SubmitOutOfOrder
  BY <1>4 DEF SubmitOutOfOrder
<1>5. CASE SubmitInOrder
  BY <1>5 DEF SubmitInOrder
<1>6. QED
  BY <1>1, <1>2, <1>3, <1>4, <1>5, NextCases

(* A submission, in either kind of queue.                                  *)
LEMMA SubmitChange ==
    ASSUME IInv, SubmittedInv, NEW e \in Commands, op[e] = None, SubmitCommand(e)
    PROVE  /\ \A d \in Commands : d # e =>
                /\ op'[d] = op[d] /\ on_doq'[d] = on_doq[d]
                /\ status'[d] = status[d]
           /\ \/ /\ op'[e] = QUEUED /\ status'[e] = status[e]
                 /\ on_doq'[e]
                 /\ Command[e].kind # "sync"
              \/ /\ op'[e] = None /\ status'[e] <= COMPLETE
                 /\ status[e] = QUEUED => Command[e].kind = "sync"
<1>0. TypeOK
  BY DEF IInv
<1>1. CASE status[e] = QUEUED /\ Command[e].kind # "sync"
  BY <1>0, <1>1 DEF TypeOK, SubmitCommand
<1>2. CASE ~(status[e] = QUEUED /\ Command[e].kind # "sync")
  <2>1. PICK s \in {COMPLETE, FAILED} :
          status' = [status EXCEPT ![e] = s] /\ op' = op
    BY <1>2 DEF SubmitCommand
  <2>2. on_doq' = on_doq \/ on_doq' = [on_doq EXCEPT ![e] = TRUE]
    BY DEF SubmitCommand
  <2>3. QED
    BY <1>0, <1>2, <2>1, <2>2 DEF TypeOK, COMPLETE, FAILED
<1>3. QED
  BY <1>1, <1>2

LEMMA OpKept ==
    ASSUME IInv, SubmittedInv, [Next]_vars, NEW d \in Commands, op[d] # None
    PROVE  op'[d] # None /\ (Launched(d) => Launched(d)')
<1>0. TypeOK
  BY DEF IInv
<1> USE DEF Launched, QUEUED, SUBMITTED, RUNNING, COMPLETE
<1>1. CASE op' = op
  BY <1>1
<1>2. ASSUME NEW e \in Commands, Start(e) \/ Run(e) \/ End(e)
      PROVE  op'[d] # None /\ (Launched(d) => Launched(d)')
  <2>1. PICK s \in COMPLETE..SUBMITTED : op' = [op EXCEPT ![e] = s]
    BY <1>2 DEF Start, Run, End
  <2>2. op'[d] = IF d = e THEN s ELSE op[d]
    BY <1>0, <2>1 DEF TypeOK
  <2>3. QED
    BY <2>2, NoneFacts
<1>3. ASSUME NEW e \in Commands, op[e] = None, SubmitCommand(e)
      PROVE  op'[d] # None /\ (Launched(d) => Launched(d)')
  BY <1>3, SubmitChange
<1>4. CASE SubmitOutOfOrder /\ SubmitCommand(new_commands[cur][idx])
  <2>1. new_commands[cur][idx] \in IdleOf(cur)
    BY <1>4, NewNext
  <2>2. QED
    BY <1>3, <1>4, <2>1 DEF IdleOf, Of
<1>5. CASE /\ SubmitInOrder /\ ~on_doq[inorder[cur][idx]]
           /\ SubmitCommand(inorder[cur][idx])
  <2>1. inorder[cur][idx] \in Commands
    BY <1>5, InOrderNext DEF Of
  <2>2. op[inorder[cur][idx]] = None
    BY <1>5, <2>1 DEF SubmittedInv
  <2>3. QED
    BY <1>3, <1>5, <2>1, <2>2
<1>6. QED
  BY <1>1, <1>2, <1>4, <1>5, OpChange

LEMMA StatusStep ==
    ASSUME IInv, SubmittedInv, StatusInv, [Next]_vars
    PROVE  StatusInv'
<1>0. TypeOK
  BY DEF IInv
<1> SUFFICES ASSUME NEW d \in Commands PROVE StatusKnown(d)'
  BY DEF StatusInv
<1>d. StatusKnown(d)
  BY DEF StatusInv
<1>ring. IsKernel(d) => /\ ring[Command[d].accel] \in Seq(Commands)
                        /\ Command[d].accel \in Accels
  BY <1>0, CommandFacts DEF TypeOK
<1> USE DEF objects, queues, device, control
<1>same. ASSUME op'[d] = op[d], status'[d] = status[d] \/ status'[d] <= COMPLETE,
                IsKernel(d) /\ op[d] \in {QUEUED, None} /\
                  d \in ToSet(ring'[Command[d].accel]) =>
                    d \in ToSet(ring[Command[d].accel])
         PROVE  StatusKnown(d)'
  BY <1>d, <1>same DEF StatusKnown, Done, IsKernel
<1>1. CASE Quiet
  BY <1>1, <1>same, QuietChange
<1>2. ASSUME NEW e \in Commands, Enqueue(e) PROVE StatusKnown(d)'
  <2>1. UNCHANGED <<op, ring>> /\ life[e] = "new"
    BY <1>2 DEF Enqueue, Enqueueable
  <2>2. status'[d] = IF d = e THEN (IF Command[e].kind = "user" THEN SUBMITTED
                                    ELSE QUEUED)
                     ELSE status[d]
    BY <1>0, <1>2 DEF TypeOK, Enqueue
  <2>3. CASE d # e
    BY <1>same, <2>1, <2>2, <2>3
  <2>4. CASE d = e
    <3>1. op[d] = None
      BY <2>1, <2>4 DEF IInv, LifeInv
    <3>2. QED
      BY <1>d, <2>1, <2>2, <2>4, <3>1, NoneFacts
      DEF StatusKnown, IsKernel, COMPLETE, QUEUED
  <2>5. QED
    BY <2>3, <2>4
<1>3. ASSUME NEW e \in Commands, Release(e) PROVE StatusKnown(d)'
  BY <1>3, <1>same DEF Release
<1>4. ASSUME NEW e \in Commands, NEW s \in UserStatuses, SetUserEventStatus(e, s)
      PROVE  StatusKnown(d)'
  <2>1. status'[d] = status[d] \/ status'[d] <= COMPLETE
    BY <1>0, <1>4, StatusAssumption DEF TypeOK, SetUserEventStatus
  <2>2. UNCHANGED <<op, ring>>
    BY <1>4 DEF SetUserEventStatus
  <2>3. QED
    BY <1>same, <2>1, <2>2
<1>5. ASSUME NEW e \in Commands, Start(e) PROVE StatusKnown(d)'
  <2>1. op'[d] = (IF d = e THEN SUBMITTED ELSE op[d])
        /\ status'[d] = (IF d = e THEN SUBMITTED ELSE status[d])
    BY <1>0, <1>5 DEF TypeOK, Start
  <2>2. CASE d = e
    BY <2>1, <2>2, NoneFacts DEF StatusKnown, SUBMITTED, QUEUED, COMPLETE
  <2>3. CASE d # e
    <3>1. ASSUME IsKernel(d)
          PROVE  d \in ToSet(ring'[Command[d].accel]) =>
                   d \in ToSet(ring[Command[d].accel])
      <4>1. \/ ring'[Command[d].accel] = ring[Command[d].accel]
            \/ ring'[Command[d].accel] = Append(ring[Command[d].accel], e)
        BY <1>0, <1>5, <1>ring, <3>1 DEF TypeOK, Start
      <4>2. QED
        <5> DEFINE r == ring[Command[d].accel]
        <5>1. r \in Seq(Commands)
          BY <1>ring, <3>1
        <5> HIDE DEF r
        <5>2. ToSet(Append(r, e)) = ToSet(r) \cup {e}
          BY <5>1, AppendMembers
        <5>3. QED
          BY <2>3, <4>1, <5>2 DEF r
    <3>2. QED
      BY <1>same, <2>1, <2>3, <3>1
  <2>4. QED
    BY <2>2, <2>3
<1>6. ASSUME NEW e \in Commands, Run(e) PROVE StatusKnown(d)'
  <2>1. op'[d] = (IF d = e THEN RUNNING ELSE op[d])
        /\ status'[d] = (IF d = e THEN RUNNING ELSE status[d])
        /\ UNCHANGED ring
    BY <1>0, <1>6 DEF TypeOK, Run
  <2>2. CASE d = e
    BY <2>1, <2>2, NoneFacts DEF StatusKnown, RUNNING, QUEUED, COMPLETE
  <2>3. CASE d # e
    BY <1>same, <2>1, <2>3
  <2>4. QED
    BY <2>2, <2>3
<1>7. ASSUME NEW e \in Commands, End(e) PROVE StatusKnown(d)'
  <2>1. PICK s \in {COMPLETE, FAILED} :
          op' = [op EXCEPT ![e] = COMPLETE] /\ status' = [status EXCEPT ![e] = s]
    BY <1>7 DEF End
  <2>2. op'[d] = (IF d = e THEN COMPLETE ELSE op[d])
        /\ status'[d] = (IF d = e THEN s ELSE status[d])
    BY <1>0, <2>1 DEF TypeOK
  <2>3. CASE d = e
    BY <2>2, <2>3, NoneFacts
    DEF StatusKnown, Done, QUEUED, COMPLETE, FAILED
  <2>4. CASE d # e
    <3>1. ASSUME IsKernel(d)
          PROVE  d \in ToSet(ring'[Command[d].accel]) =>
                   d \in ToSet(ring[Command[d].accel])
      <4>1. \/ ring'[Command[d].accel] = ring[Command[d].accel]
            \/ /\ ring'[Command[d].accel] = Tail(ring[Command[d].accel])
               /\ ring[Command[d].accel] # <<>>
        <5>1. IsKernel(e) => ring[Command[e].accel] # <<>>
          <6>1. ASSUME IsKernel(e)
                PROVE  \E k \in 1..Len(ring[Command[e].accel]) : TRUE
            BY <1>7, <6>1 DEF End, IInv, RingInv
          <6>2. QED
            BY <6>1
        <5>2. QED
          BY <1>0, <1>7, <1>ring, <3>1, <5>1 DEF TypeOK, End
      <4>2. CASE ring'[Command[d].accel] = Tail(ring[Command[d].accel])
                 /\ ring[Command[d].accel] # <<>>
        <5> DEFINE r == ring[Command[d].accel]
        <5>1. /\ r \in Seq(Commands) /\ Len(r) \in Nat \ {0}
              /\ Tail(r) \in Seq(Commands) /\ Len(Tail(r)) = Len(r) - 1
              /\ \A k \in 1..Len(r) - 1 : Tail(r)[k] = r[k + 1]
          BY <1>ring, <3>1, <4>2, HeadTailProperties, EmptySeq
        <5> DEFINE t == Tail(r)
        <5>t. t \in Seq(Commands)
          BY <5>1
        <5> HIDE DEF t
        <5>2. ASSUME d \in ToSet(t) PROVE d \in ToSet(r)
          <6>1. PICK k \in 1..Len(t) : t[k] = d
            BY <5>t, <5>2, PositionsOf
          <6>2. k + 1 \in 1..Len(r) /\ r[k + 1] = d
            BY <5>1, <6>1 DEF t
          <6>3. QED
            BY <5>1, <6>2, PositionsOf
        <5>3. QED
          BY <4>2, <5>2 DEF t
      <4>3. QED
        BY <4>1, <4>2
    <3>2. QED
      BY <1>same, <2>2, <2>4, <3>1
  <2>5. QED
    BY <2>3, <2>4
<1>8. CASE PopCompleted
  <2> DEFINE e == Head(completed[cur])
  <2>1. e \in Commands /\ UNCHANGED <<op, ring>>
        /\ status'[d] = IF d \in Terminated(e) THEN status[e] ELSE status[d]
    BY <1>8, CompletedHead DEF DoneOf, Of, PopCompleted
  <2>2. d \in Terminated(e) => status[e] < 0 /\ status[e] \in Int
    BY <1>0, <2>1, TerminatedFacts, StatusIsInt
  <2> HIDE DEF e
  <2>3. QED
    BY <1>same, <2>1, <2>2 DEF COMPLETE
<1>9. CASE PopInOrder \/ ForgetUserEvents
  BY <1>9, <1>same DEF PopInOrder, ForgetUserEvents
<1>submit. ASSUME NEW e \in Commands, op[e] = None, SubmitCommand(e), UNCHANGED ring
           PROVE  StatusKnown(d)'
  <2>1. CASE d # e
    BY <1>same, <1>submit, <2>1, SubmitChange
  <2>2. CASE d = e
    <3>1. /\ (op'[d] = QUEUED /\ status'[d] = status[d]) \/ op'[d] = None
          /\ op'[d] = None => status'[d] <= COMPLETE
      BY <1>submit, <2>2, NoneFacts, SubmitChange DEF QUEUED, COMPLETE
    <3>2. QED
      BY <1>d, <1>submit, <2>2, <3>1, NoneFacts
      DEF StatusKnown, Done, IsKernel, QUEUED, COMPLETE
  <2>3. QED
    BY <2>1, <2>2
<1>10. CASE SubmitOutOfOrder
  <2> DEFINE e == new_commands[cur][idx]
  <2>1. e \in Commands /\ op[e] = None /\ UNCHANGED ring
    BY <1>10, NewNext DEF IdleOf, Of, SubmitOutOfOrder
  <2>2. SubmitCommand(e) \/ UNCHANGED <<op, status>>
    BY <1>10 DEF SubmitOutOfOrder
  <2> HIDE DEF e
  <2>3. QED
    BY <1>same, <1>submit, <2>1, <2>2
<1>11. CASE SubmitInOrder
  <2> DEFINE e == inorder[cur][idx]
  <2>1. e \in Commands /\ UNCHANGED ring
    BY <1>11, InOrderNext DEF Of, SubmitInOrder
  <2>2. (~on_doq[e] /\ SubmitCommand(e)) \/ UNCHANGED <<op, status>>
    BY <1>11 DEF SubmitInOrder
  <2> HIDE DEF e
  <2>3. ~on_doq[e] => op[e] = None
    BY <2>1 DEF SubmittedInv
  <2>4. QED
    BY <1>same, <1>submit, <2>1, <2>2, <2>3
<1>12. QED
  BY <1>1, <1>2, <1>3, <1>4, <1>5, <1>6, <1>7, <1>8, <1>9, <1>10, <1>11, NextCases

(* A command that an in-order queue submits is behind nothing else.        *)
LEMMA ReadyBehind ==
    ASSUME IInv, SubmittedInv, InFlightCounted, PassedInv, StatusInv, LineInv,
           SubmitInOrder, ReadyInOrder(idx), NEW j \in 1..idx - 1
    PROVE  \/ Done(inorder[cur][j])
           \/ LaunchedBefore(inorder[cur][j], inorder[cur][idx])
<1> DEFINE l == inorder[cur]
           e == l[idx]
           f == l[j]
<1>0. /\ cur \in InOrder /\ cur \in Queues /\ idx \in 1..Len(l)
      /\ l \in Seq(Of(cur)) /\ e \in Of(cur) /\ Len(l) \in Nat /\ idx <= Len(l)
      /\ at = "submit"
  BY InOrderNext, LenProperties DEF SubmitInOrder
<1>1. f \in Of(cur) /\ j \in 1..Len(l)
  BY <1>0, ElementOfSeq
<1>2. f \in Commands /\ QueueOf(f) = cur /\ Command[f].kind # "user"
  BY <1>0, <1>1, CommandFacts, QueueFacts DEF Of
<1>3. Past(f)
  BY <1>0, <1>1 DEF PassedInv
<1>4. CASE submitted[cur] = 0
  <2>1. InFlight(cur) = {}
    <3>1. InFlight(cur) \subseteq Commands
      BY DEF InFlight
    <3>2. IsFiniteSet(InFlight(cur)) /\ Cardinality(InFlight(cur)) = 0
      BY <1>0, <1>4, <3>1, FS_Subset, SizeAssumption DEF InFlightCounted
    <3>3. QED
      BY <3>2, FS_EmptySet
  <2> HIDE DEF f
  <2>2. ~on_doq[f] \/ Done(f)
    BY <1>2, <2>1 DEF InFlight
  <2>3. ~on_doq[f] => op[f] = None /\ status[f] # QUEUED
    BY <1>2, <1>3 DEF Past, SubmittedInv
  <2>4. Done(f)
    BY <1>2, <2>2, <2>3 DEF StatusInv, StatusKnown
  <2>5. QED
    BY <2>4 DEF f
<1>5. CASE submitted[cur] # 0
  <2> DEFINE p == l[idx - 1]
  <2>1. IsKernel(e) /\ idx > 1 /\ SameKernel(p, e) /\ Launched(p)
    BY <1>5 DEF ReadyInOrder
  <2>2. CASE j = idx - 1
    BY <2>1, <2>2 DEF LaunchedBefore
  <2>3. CASE j # idx - 1
    <3>1. j < idx - 1 /\ idx - 1 \in 1..Len(l)
      BY <1>0, <2>1, <2>3
    <3>2. p \in Of(cur)
      BY <1>0, <3>1, ElementOfSeq
    <3>3. op[p] # None => on_doq[p]
      BY <3>2 DEF Of, SubmittedInv
    <3>4. on_doq[p]
      BY <2>1, <3>3 DEF Launched
    <3>5. Done(f) \/ LaunchedBefore(f, p)
      BY <1>0, <1>1, <3>1, <3>4 DEF LineInv
    <3>6. QED
      BY <2>1, <3>5 DEF LaunchedBefore, SameKernel
  <2>4. QED
    BY <2>2, <2>3
<1>6. QED
  BY <1>4, <1>5

(* Of elements that are the same before and after the step.                *)
DoneAfter(f) == status'[f] <= COMPLETE
LaunchedAfter(f) == op'[f] # None /\ op'[f] <= SUBMITTED

LEMMA DoneStays ==
    ASSUME IInv, [Next]_vars, NEW f \in Commands, life[f] # "new", Done(f)
    PROVE  DoneAfter(f)
BY Persistence DEF Done, DoneAfter

LEMMA LaunchedStays ==
    ASSUME IInv, SubmittedInv, [Next]_vars, NEW f \in Commands, Launched(f)
    PROVE  LaunchedAfter(f)
BY OpKept DEF Launched, LaunchedAfter

LEMMA LineKept ==
    ASSUME IInv, SubmittedInv, InFlightCounted, CountInv, PassedInv, StatusInv,
           LineInv, [Next]_vars, NEW q \in InOrder,
           NEW x \in 1..Len(inorder[q]), NEW y \in 1..Len(inorder[q]), x < y,
           on_doq'[inorder[q][y]]
    PROVE  \/ DoneAfter(inorder[q][x])
           \/ /\ SameKernel(inorder[q][x], inorder[q][y])
              /\ LaunchedAfter(inorder[q][x])
<1> DEFINE f == inorder[q][x]
           e == inorder[q][y]
<1>0. /\ q \in Queues /\ inorder[q] \in Seq(Of(q)) /\ Len(inorder[q]) \in Nat
      /\ f \in Of(q) /\ e \in Of(q)
  <2>1. q \in Queues
    BY QueueFacts
  <2>2. inorder[q] \in Seq(Of(q))
    BY <2>1 DEF IInv, ListsInv, InOrderList
  <2>3. QED
    BY <2>1, <2>2, PositionsOf
<1>1. /\ f \in Commands /\ life[f] # "new" /\ e \in Commands /\ QueueOf(e) = q
  BY <1>0 DEF Of
<1>2. SUFFICES Done(f) \/ LaunchedBefore(f, e)
  <2> HIDE DEF f, e
  <2>1. CASE Done(f)
    BY <1>1, <2>1, DoneStays DEF f
  <2>2. CASE LaunchedBefore(f, e)
    <3>1. SameKernel(f, e) /\ Launched(f)
      BY <2>2 DEF LaunchedBefore
    <3>2. LaunchedAfter(f)
      BY <1>1, <3>1, LaunchedStays
    <3>3. QED
      BY <3>1, <3>2 DEF e, f
  <2>3. QED
    BY <1>2, <2>1, <2>2 DEF f, e
<1>3. CASE on_doq[e]
  BY <1>3 DEF LineInv
<1>4. CASE ~on_doq[e]
  <2>1. CASE op' = op /\ on_doq' = on_doq
    BY <1>4, <2>1
  <2>2. ASSUME NEW d \in Commands, Start(d) \/ Run(d) \/ End(d) PROVE FALSE
    BY <1>4, <2>2 DEF Start, Run, End
  <2>3. CASE SubmitOutOfOrder /\ SubmitCommand(new_commands[cur][idx])
    <3> DEFINE d == new_commands[cur][idx]
    <3>1. d \in Commands /\ QueueOf(d) = cur /\ cur \notin InOrder /\ op[d] = None
      BY <2>3, NewNext DEF IdleOf, Of
    <3> HIDE DEF d, e
    <3>2. d # e
      BY <1>1, <3>1
    <3>3. on_doq'[e] = on_doq[e]
      BY <1>1, <2>3, <3>1, <3>2, SubmitChange DEF d
    <3>4. QED
      BY <1>4, <3>3 DEF e
  <2>4. CASE /\ SubmitInOrder /\ ~on_doq[inorder[cur][idx]]
             /\ status[inorder[cur][idx]] = QUEUED /\ ReadyInOrder(idx)
             /\ SubmitCommand(inorder[cur][idx])
    <3> DEFINE d == inorder[cur][idx]
    <3>1. d \in Commands /\ QueueOf(d) = cur /\ idx \in 1..Len(inorder[cur])
      BY <2>4, InOrderNext DEF Of
    <3>2. op[d] = None
      BY <2>4, <3>1 DEF SubmittedInv
    <3>3. d = e
      <4> HIDE DEF d, e
      <4>1. d # e => on_doq'[e] = on_doq[e]
        BY <1>1, <2>4, <3>1, <3>2, SubmitChange DEF d
      <4>2. QED
        BY <1>4, <4>1 DEF e
    <3>4. q = cur
      BY <1>1, <3>1, <3>3
    <3>5. y = idx
      <4>1. IsInjective(inorder[q])
        BY <1>0 DEF CountInv, CountedInOrder
      <4>2. \A j, k \in 1..Len(inorder[q]) : inorder[q][j] = inorder[q][k] => j = k
        BY <1>0, <4>1, PositionsOf
      <4>3. QED
        BY <3>1, <3>3, <3>4, <4>2
    <3>6. x \in 1..idx - 1
      BY <1>0, <3>5
    <3>7. QED
      BY <2>4, <3>4, <3>5, <3>6, ReadyBehind
  <2>5. QED
    BY <2>1, <2>2, <2>3, <2>4, OpChange
<1>5. QED
  BY <1>3, <1>4

(* How the list of a queue changes.                                        *)
LEMMA ListChange ==
    ASSUME IInv, [Next]_vars, NEW q \in Queues
    PROVE  \/ inorder'[q] = inorder[q]
           \/ /\ q \in InOrder
              /\ \E e \in Commands :
                   /\ Enqueue(e) /\ QueueOf(e) = q
                   /\ inorder'[q] = Append(inorder[q], e)
           \/ /\ q \in InOrder
              /\ PopInOrder /\ q = cur /\ deps[inorder[q][idx]] = {}
              /\ inorder'[q] = RemoveAt(inorder[q], idx)
<1>0. TypeOK
  BY DEF IInv
<1> USE DEF objects, queues, device, control
<1>1. CASE Quiet
  BY <1>1, QuietChange
<1>2. ASSUME NEW e \in Commands, Enqueue(e)
      PROVE  \/ inorder'[q] = inorder[q]
             \/ /\ q \in InOrder /\ QueueOf(e) = q
                /\ inorder'[q] = Append(inorder[q], e)
  BY <1>0, <1>2 DEF TypeOK, Enqueue
<1>3. ASSUME NEW e \in Commands,
             \/ Release(e) \/ Start(e) \/ Run(e) \/ End(e)
             \/ \E s \in UserStatuses : SetUserEventStatus(e, s)
      PROVE  inorder' = inorder
  BY <1>3 DEF Release, Start, Run, End, SetUserEventStatus
<1>4. CASE PopCompleted \/ SubmitOutOfOrder \/ ForgetUserEvents \/ SubmitInOrder
  BY <1>4
  DEF PopCompleted, SubmitOutOfOrder, ForgetUserEvents, SubmitInOrder
<1>5. CASE PopInOrder
  BY <1>0, <1>5 DEF TypeOK, PopInOrder
<1>6. QED
  BY <1>1, <1>2, <1>3, <1>4, <1>5, NextCases

(* Two elements of an in-order queue were there before, in the same order, *)
(* unless the second one is new.                                           *)
LEMMA PlacesBefore ==
    ASSUME IInv, [Next]_vars, NEW q \in InOrder,
           NEW j \in 1..Len(inorder'[q]), NEW k \in 1..Len(inorder'[q]), j < k
    PROVE  \/ \E x, y \in 1..Len(inorder[q]) :
                /\ x < y
                /\ inorder'[q][j] = inorder[q][x] /\ inorder'[q][k] = inorder[q][y]
           \/ \E e \in Commands : Enqueue(e) /\ inorder'[q][k] = e
<1>0. /\ q \in Queues /\ inorder[q] \in Seq(Of(q))
      /\ inorder[q] \in Seq(Commands) /\ Len(inorder[q]) \in Nat
  <2>1. q \in Queues
    BY QueueFacts
  <2>2. inorder[q] \in Seq(Of(q)) /\ inorder[q] \in Seq(Commands)
    BY <2>1 DEF IInv, TypeOK, ListsInv, InOrderList
  <2>3. QED
    BY <2>1, <2>2, LenProperties
<1>1. CASE inorder'[q] = inorder[q]
  BY <1>1
<1>2. ASSUME NEW e \in Commands, Enqueue(e), inorder'[q] = Append(inorder[q], e)
      PROVE  \/ \E x, y \in 1..Len(inorder[q]) :
                  /\ x < y
                  /\ inorder'[q][j] = inorder[q][x]
                  /\ inorder'[q][k] = inorder[q][y]
             \/ Enqueue(e) /\ inorder'[q][k] = e
  <2>1. /\ Len(inorder'[q]) = Len(inorder[q]) + 1
        /\ \A i \in 1..Len(inorder[q]) : inorder'[q][i] = inorder[q][i]
        /\ inorder'[q][Len(inorder[q]) + 1] = e
    BY <1>0, <1>2, AppendProperties
  <2>2. j \in 1..Len(inorder[q])
    BY <1>0, <2>1
  <2>3. k \in 1..Len(inorder[q]) \/ k = Len(inorder[q]) + 1
    BY <1>0, <2>1
  <2>4. QED
    BY <1>2, <2>1, <2>2, <2>3
<1>3. CASE PopInOrder /\ q = cur /\ inorder'[q] = RemoveAt(inorder[q], idx)
  <2>1. idx \in 1..Len(inorder[q])
    BY <1>3, InOrderNext
  <2>2. /\ j \in 1..Len(RemoveAt(inorder[q], idx))
        /\ k \in 1..Len(RemoveAt(inorder[q], idx))
    BY <1>3
  <2>3. \E x, y \in 1..Len(inorder[q]) :
          /\ x < y /\ RemoveAt(inorder[q], idx)[j] = inorder[q][x]
          /\ RemoveAt(inorder[q], idx)[k] = inorder[q][y]
    <3> DEFINE l == inorder[q]
    <3>1. l \in Seq(Commands) /\ idx \in 1..Len(l) /\ j < k
      BY <1>0, <2>1
    <3>2. j \in 1..Len(RemoveAt(l, idx)) /\ k \in 1..Len(RemoveAt(l, idx))
      BY <2>2
    <3> HIDE DEF l
    <3>3. \E x, y \in 1..Len(l) :
            /\ x < y /\ RemoveAt(l, idx)[j] = l[x] /\ RemoveAt(l, idx)[k] = l[y]
      BY <3>1, <3>2, RemoveAtOrder
    <3>4. QED
      BY <3>3 DEF l
  <2>4. QED
    BY <1>3, <2>3
<1>4. QED
  BY <1>0, <1>1, <1>2, <1>3, ListChange

LEMMA LineStep ==
    ASSUME IInv, SubmittedInv, InFlightCounted, CountInv, PassedInv, StatusInv,
           LineInv, [Next]_vars
    PROVE  LineInv'
<1>1. ASSUME NEW q \in Queues \ InOrder PROVE inorder'[q] = <<>>
  BY <1>1, ListChange DEF LineInv
<1>2. ASSUME NEW q \in InOrder, NEW j \in 1..Len(inorder'[q]),
             NEW k \in 1..Len(inorder'[q]), j < k, on_doq'[inorder'[q][k]]
      PROVE  \/ DoneAfter(inorder'[q][j])
             \/ /\ SameKernel(inorder'[q][j], inorder'[q][k])
                /\ LaunchedAfter(inorder'[q][j])
  <2>1. ASSUME NEW e \in Commands, Enqueue(e), inorder'[q][k] = e PROVE FALSE
    BY <1>2, <2>1 DEF Enqueue, Enqueueable, SubmittedInv
  <2>2. PICK x, y \in 1..Len(inorder[q]) :
          /\ x < y
          /\ inorder'[q][j] = inorder[q][x] /\ inorder'[q][k] = inorder[q][y]
    BY <1>2, <2>1, PlacesBefore
  <2>3. on_doq'[inorder[q][y]]
    BY <1>2, <2>2
  <2>4. \/ DoneAfter(inorder[q][x])
        \/ /\ SameKernel(inorder[q][x], inorder[q][y])
           /\ LaunchedAfter(inorder[q][x])
    BY <2>2, <2>3, LineKept
  <2>5. QED
    BY <2>2, <2>4
<1>3. QED
  BY <1>1, <1>2
  DEF LineInv, LaunchedBefore, DoneAfter, LaunchedAfter, Done, Launched,
      SameKernel, IsKernel

(* A command comes to life when it is enqueued.                            *)
LEMMA ComesToLife ==
    ASSUME IInv, [Next]_vars, NEW e \in Commands,
           life'[e] = "live", ~(status'[e] <= COMPLETE), ~Enqueue(e)
    PROVE  life[e] = "live" /\ follows'[e] = follows[e]
<1>0. TypeOK
  BY DEF IInv
<1> USE DEF objects, queues, device, control
<1>1. ASSUME NEW d \in Commands, Enqueue(d)
      PROVE  life'[e] = life[e] /\ follows'[e] = follows[e]
  <2>1. d # e
    BY <1>1
  <2>2. QED
    BY <1>0, <1>1, <2>1 DEF TypeOK, Enqueue
<1> DEFINE Frees == \/ life' = life
                    \/ \E d \in Commands : life' = [life EXCEPT ![d] = "freed"]
<1>q. ASSUME Quiet PROVE follows' = follows /\ Frees
  <2>1. follows' = follows
    BY <1>q
    DEF Quiet, Wake, EndRound, Nudged, Popped, Submitted, UpdateQueue, Interrupt,
        vars
  <2>2. life' = life
    BY <1>q, QuietChange
  <2>3. follows' = follows /\ Frees
    BY <2>1, <2>2
  <2>4. QED
    BY <2>3
<1>3. ASSUME NEW d \in Commands,
             \/ Release(d) \/ Start(d) \/ Run(d) \/ End(d)
             \/ \E s \in UserStatuses : SetUserEventStatus(d, s)
      PROVE  follows' = follows /\ Frees
  BY <1>3 DEF Release, Start, Run, End, SetUserEventStatus
<1>4. ASSUME PopCompleted PROVE follows' = follows /\ Frees
  <2> DEFINE d == Head(completed[cur])
  <2>1. d \in Commands /\ life' \in {life, LifeAfter(d)} /\ follows' = follows
    BY <1>4, CompletedHead DEF PopCompleted, DoneOf, Of
  <2> HIDE DEF d
  <2>2. QED
    BY <2>1 DEF LifeAfter
<1>5. ASSUME PopInOrder PROVE follows' = follows /\ Frees
  <2> DEFINE d == inorder[cur][idx]
  <2>1. d \in Commands /\ life' \in {life, LifeAfter(d)} /\ follows' = follows
    BY <1>5, InOrderNext DEF PopInOrder, Of
  <2> HIDE DEF d
  <2>2. QED
    BY <2>1 DEF LifeAfter
<1>6. ASSUME SubmitOutOfOrder \/ ForgetUserEvents \/ SubmitInOrder
      PROVE  follows' = follows /\ Frees
  BY <1>6 DEF SubmitOutOfOrder, ForgetUserEvents, SubmitInOrder, SubmitCommand
<1>7. life[e] # "freed"
  <2>1. life[e] = "freed" => DoneAfter(e)
    BY DoneStays DEF IInv, LifeInv
  <2>2. QED
    BY <2>1 DEF DoneAfter
<1>8. follows'[e] = follows[e] /\ (life[e] = "new" => life'[e] # "live")
  <2>1. \/ \E d \in Commands : Enqueue(d)
        \/ follows' = follows /\ Frees
    <3> HIDE DEF Frees
    <3>1. QED
      BY <1>3, <1>4, <1>5, <1>6, <1>q, NextCases
  <2>2. CASE \E d \in Commands : Enqueue(d)
    BY <1>1, <2>2
  <2>3. CASE follows' = follows /\ life' = life
    BY <2>3
  <2>4. ASSUME NEW d \in Commands, follows' = follows, life' = [life EXCEPT ![d] = "freed"]
        PROVE  follows'[e] = follows[e] /\ (life[e] = "new" => life'[e] # "live")
    BY <1>0, <2>4 DEF TypeOK
  <2>5. QED
    BY <2>1, <2>2, <2>3, <2>4
<1>9. QED
  BY <1>0, <1>7, <1>8 DEF TypeOK

(* A command loses a dependency when the other one leaves its queue, or    *)
(* when it is submitted.                                                   *)
LEMMA DepsLost ==
    ASSUME IInv, [Next]_vars, NEW e \in Commands, life[e] # "new",
           NEW f \in deps[e], f \notin deps'[e]
    PROVE  \/ DoneAfter(f)
           \/ /\ SubmitOutOfOrder /\ e = new_commands[cur][idx]
              /\ ReadyOutOfOrder(e) /\ SubmitCommand(e)
<1>0. TypeOK /\ f \in Commands
  BY DEF IInv, TypeOK
<1>life. life[f] # "new"
  BY DEF IInv, ArcsInv
<1> USE DEF objects, queues, device, control
<1>1. CASE Quiet
  BY <1>1, QuietChange
<1>2. ASSUME NEW d \in Commands, Enqueue(d) PROVE FALSE
  <2>1. d # e /\ deps' = [deps EXCEPT ![d] = DependsOn(d)]
    BY <1>2 DEF Enqueue, Enqueueable
  <2>2. QED
    BY <1>0, <2>1 DEF TypeOK
<1>3. ASSUME NEW d \in Commands,
             \/ Release(d) \/ Start(d) \/ Run(d) \/ End(d)
             \/ \E s \in UserStatuses : SetUserEventStatus(d, s)
      PROVE  FALSE
  BY <1>3 DEF Release, Start, Run, End, SetUserEventStatus
<1>4. CASE PopCompleted
  <2> DEFINE d == Head(completed[cur])
  <2>1. d \in Commands /\ Done(d) /\ deps' = WithoutParent(d)
    BY <1>4, CompletedHead DEF PopCompleted, DoneOf, Of
  <2> HIDE DEF d
  <2>2. f = d
    BY <2>1 DEF WithoutParent
  <2>3. QED
    BY <1>0, <1>life, <2>1, <2>2, DoneStays
<1>5. CASE PopInOrder
  <2> DEFINE d == inorder[cur][idx]
  <2>1. d \in Commands /\ Done(d) /\ deps' = WithoutParent(d)
    BY <1>5, InOrderNext DEF PopInOrder, DoneAt, Of
  <2> HIDE DEF d
  <2>2. f = d
    BY <2>1 DEF WithoutParent
  <2>3. QED
    BY <1>0, <1>life, <2>1, <2>2, DoneStays
<1>6. CASE SubmitOutOfOrder
  <2> DEFINE d == new_commands[cur][idx]
  <2>1. d \in Commands
    BY <1>6, NewNext DEF IdleOf, Of
  <2>2. \/ deps' = deps
        \/ /\ deps' = [deps EXCEPT ![d] = {}]
           /\ ReadyOutOfOrder(d) /\ SubmitCommand(d)
    BY <1>6 DEF SubmitOutOfOrder
  <2> HIDE DEF d
  <2>3. ReadyOutOfOrder(d) /\ SubmitCommand(d) /\ d = e
    BY <1>0, <2>1, <2>2 DEF TypeOK
  <2>4. QED
    BY <1>6, <2>3 DEF d
<1>7. CASE ForgetUserEvents \/ SubmitInOrder
  BY <1>7 DEF ForgetUserEvents, SubmitInOrder
<1>8. QED
  BY <1>1, <1>2, <1>3, <1>4, <1>5, <1>6, <1>7, NextCases

(* Removing one element leaves the others in order.                        *)
LEMMA RemoveAtKeeps ==
    ASSUME NEW S, NEW s \in Seq(S), NEW i \in 1..Len(s),
           NEW x \in 1..Len(s), NEW y \in 1..Len(s), x < y, x # i, y # i
    PROVE  \E j, k \in 1..Len(RemoveAt(s, i)) :
             j < k /\ RemoveAt(s, i)[j] = s[x] /\ RemoveAt(s, i)[k] = s[y]
<1> DEFINE r == RemoveAt(s, i)
           j == IF x < i THEN x ELSE x - 1
           k == IF y < i THEN y ELSE y - 1
<1>1. Len(s) \in Nat
  BY LenProperties
<1>2. /\ Len(r) = Len(s) - 1
      /\ \A z \in 1..Len(s) - 1 : r[z] = IF z < i THEN s[z] ELSE s[z + 1]
  BY RemoveAtProperties
<1> HIDE DEF r
<1>3. j \in 1..Len(s) - 1 /\ k \in 1..Len(s) - 1 /\ j < k
  BY <1>1
<1>4. r[j] = s[x]
  <2>1. IF j < i THEN j = x ELSE j + 1 = x
    BY <1>1
  <2> HIDE DEF j
  <2>2. QED
    BY <1>2, <1>3, <2>1
<1>5. r[k] = s[y]
  <2>1. IF k < i THEN k = y ELSE k + 1 = y
    BY <1>1
  <2> HIDE DEF k
  <2>2. QED
    BY <1>2, <1>3, <2>1
<1>6. QED
  <2> HIDE DEF j, k
  <2>1. QED
    BY <1>1, <1>2, <1>3, <1>4, <1>5 DEF r

(* The same of the ways to hold a command back.                            *)
InFrontAfter(f, e) ==
    /\ QueueOf(e) \in InOrder
    /\ LET l == inorder'[QueueOf(e)] IN
       \E j, k \in 1..Len(l) : j < k /\ l[j] = f /\ l[k] = e
AheadAfter(f, e) ==
    LET r == ring'[Command[e].accel] IN
    \A k \in 1..Len(r) : r[k] = e => \E j \in 1..Len(r) : j < k /\ r[j] = f
HeldAfter(f, e) ==
    \/ DoneAfter(f)
    \/ op'[e] = None /\ (f \in deps'[e] \/ InFrontAfter(f, e))
    \/ op'[e] # None /\ SameKernel(f, e) /\ LaunchedAfter(f) /\ AheadAfter(f, e)

(* A new command is held back by all it follows.                           *)
LEMMA HeldWhenNew ==
    ASSUME IInv, LineInv, BarriersNamed, NEW e \in Commands, Enqueue(e),
           NEW f \in Follows(e)
    PROVE  HeldAfter(f, e)
<1> DEFINE q == QueueOf(e)
<1>0. TypeOK /\ q \in Queues /\ DOMAIN inorder = Queues
  BY CommandFacts DEF IInv, TypeOK
<1>1. op'[e] = None
  BY DEF Enqueue, Enqueueable, IInv, LifeInv
<1>2. deps'[e] = DependsOn(e)
  BY <1>0 DEF TypeOK, Enqueue
<1>3. CASE f \in WaitList(e)
  <2>1. f \in DependsOn(e)
    BY <1>3 DEF Follows, Unfinished, DependsOn
  <2>2. QED
    BY <1>1, <1>2, <2>1 DEF HeldAfter
<1>4. CASE f \in LastBarrier(e)
  <2>1. Barrier(e) = LastBarrier(e)
    BY <1>4 DEF BarriersNamed, Enqueue, Barrier
  <2>2. f \in DependsOn(e)
    BY <1>4, <2>1 DEF DependsOn
  <2>3. QED
    BY <1>1, <1>2, <2>2 DEF HeldAfter
<1>5. CASE f \in ToSet(inorder[q])
  <2>1. inorder[q] \in Seq(Commands)
    BY <1>0 DEF TypeOK
  <2>2. PICK j \in 1..Len(inorder[q]) : inorder[q][j] = f
    BY <1>5, <2>1, PositionsOf
  <2>3. q \in InOrder
    <3>1. q \notin InOrder => inorder[q] = <<>>
      BY <1>0 DEF LineInv
    <3>2. QED
      BY <2>2, <3>1
  <2>4. inorder'[q] = Append(inorder[q], e)
    BY <1>0, <2>3 DEF Enqueue
  <2>5. /\ Len(inorder[q]) \in Nat /\ Len(inorder'[q]) = Len(inorder[q]) + 1
        /\ \A i \in 1..Len(inorder[q]) : inorder'[q][i] = inorder[q][i]
        /\ inorder'[q][Len(inorder[q]) + 1] = e
    BY <2>1, <2>4, AppendProperties, LenProperties
  <2>6. /\ j < Len(inorder'[q]) /\ inorder'[q][j] = f
        /\ inorder'[q][Len(inorder'[q])] = e
        /\ j \in 1..Len(inorder'[q])
        /\ Len(inorder'[q]) \in 1..Len(inorder'[q])
    BY <2>2, <2>5
  <2>7. InFrontAfter(f, e)
    BY <2>3, <2>6 DEF InFrontAfter
  <2>8. QED
    BY <1>1, <2>7 DEF HeldAfter
<1>6. QED
  BY <1>3, <1>4, <1>5 DEF Follows

(* A command stays in front until one of the two is done.                  *)
LEMMA FrontKept ==
    ASSUME IInv, [Next]_vars, NEW e \in Commands, NEW f \in Commands,
           InFront(f, e)
    PROVE  InFrontAfter(f, e) \/ DoneAfter(f) \/ DoneAfter(e)
<1> DEFINE q == QueueOf(e)
<1>0. /\ q \in InOrder /\ q \in Queues /\ inorder[q] \in Seq(Commands)
      /\ inorder[q] \in Seq(Of(q)) /\ Len(inorder[q]) \in Nat
  <2>1. q \in InOrder /\ q \in Queues
    BY QueueFacts DEF InFront
  <2>2. inorder[q] \in Seq(Commands) /\ inorder[q] \in Seq(Of(q))
    BY <2>1 DEF IInv, TypeOK, ListsInv, InOrderList
  <2>3. QED
    BY <2>1, <2>2, LenProperties
<1>1. PICK x, y \in 1..Len(inorder[q]) :
        x < y /\ inorder[q][x] = f /\ inorder[q][y] = e
  BY DEF InFront
<1>2. CASE inorder'[q] = inorder[q]
  BY <1>0, <1>1, <1>2 DEF InFrontAfter
<1>3. ASSUME NEW d \in Commands, inorder'[q] = Append(inorder[q], d)
      PROVE  InFrontAfter(f, e)
  <2>1. /\ Len(inorder'[q]) = Len(inorder[q]) + 1
        /\ \A i \in 1..Len(inorder[q]) : inorder'[q][i] = inorder[q][i]
    BY <1>0, <1>3, AppendProperties
  <2>2. /\ x \in 1..Len(inorder'[q]) /\ y \in 1..Len(inorder'[q])
        /\ inorder'[q][x] = f /\ inorder'[q][y] = e
    BY <1>0, <1>1, <2>1
  <2>3. QED
    BY <1>0, <1>1, <2>2 DEF InFrontAfter
<1>4. CASE PopInOrder /\ q = cur /\ inorder'[q] = RemoveAt(inorder[q], idx)
  <2>1. /\ idx \in 1..Len(inorder[q]) /\ Done(inorder[q][idx])
        /\ life[inorder[q][idx]] # "new"
    BY <1>4, InOrderNext DEF PopInOrder, DoneAt, Of
  <2>2. CASE idx = x
    BY <1>1, <2>1, <2>2, DoneStays
  <2>3. CASE idx = y
    BY <1>1, <2>1, <2>3, DoneStays
  <2>4. CASE x # idx /\ y # idx
    <3> DEFINE l == inorder[q]
               r == RemoveAt(l, idx)
    <3>1. l \in Seq(Commands) /\ idx \in 1..Len(l) /\ x < y
      BY <1>0, <1>1, <2>1
    <3>2. x \in 1..Len(l) /\ y \in 1..Len(l) /\ x # idx /\ y # idx
      BY <2>4
    <3> HIDE DEF l
    <3>3. \E j, k \in 1..Len(r) : j < k /\ r[j] = l[x] /\ r[k] = l[y]
      BY <3>1, <3>2, RemoveAtKeeps
    <3>4. r = inorder'[q]
      BY <1>4 DEF l
    <3> HIDE DEF r
    <3>5. QED
      BY <1>0, <1>1, <3>3, <3>4 DEF l, InFrontAfter
  <2>5. QED
    BY <2>2, <2>3, <2>4
<1>5. QED
  BY <1>0, <1>2, <1>3, <1>4, ListChange

(* A command that is submitted is held back only by launches of the same   *)
(* kernel.                                                                 *)
LEMMA HeldWhenSubmitted ==
    ASSUME IInv, SubmittedInv, InFlightCounted, CountInv, PassedInv, StatusInv,
           LineInv, [Next]_vars, NEW e \in Commands, NEW f \in Commands,
           op[e] = None, op'[e] # None, f \in deps[e] \/ InFront(f, e),
           life[f] # "new"
    PROVE  HeldAfter(f, e)
<1>0. TypeOK
  BY DEF IInv
<1>1. CASE op' = op
  BY <1>1
<1>2. ASSUME NEW d \in Commands, Start(d) \/ Run(d) \/ End(d) PROVE FALSE
  BY <1>0, <1>2, NoneFacts
  DEF TypeOK, Start, Run, End, QUEUED, SUBMITTED, RUNNING, COMPLETE
<1>fin. ASSUME Done(f) \/ LaunchedBefore(f, e), UNCHANGED ring
        PROVE  HeldAfter(f, e)
  <2>1. CASE Done(f)
    BY <2>1, DoneStays DEF HeldAfter
  <2>2. CASE LaunchedBefore(f, e)
    <3>1. SameKernel(f, e) /\ LaunchedAfter(f)
      BY <2>2, LaunchedStays DEF LaunchedBefore
    <3>2. IsKernel(e) /\ Command[e].accel \in Accels
      BY <3>1, CommandFacts DEF SameKernel
    <3>3. e \notin ToSet(ring[Command[e].accel])
      BY <3>2 DEF StatusInv, StatusKnown
    <3>4. ring[Command[e].accel] \in Seq(Commands)
      BY <1>0, <3>2 DEF TypeOK
    <3>5. \A k \in 1..Len(ring[Command[e].accel]) : ring[Command[e].accel][k] # e
      BY <3>3, <3>4, PositionsOf
    <3>6. AheadAfter(f, e)
      BY <1>fin, <3>5 DEF AheadAfter
    <3>7. QED
      BY <3>1, <3>6 DEF HeldAfter
  <2>3. QED
    BY <1>fin, <2>1, <2>2
<1>3. CASE SubmitOutOfOrder /\ SubmitCommand(new_commands[cur][idx])
  <2> DEFINE d == new_commands[cur][idx]
  <2>1. d \in Commands /\ QueueOf(d) = cur /\ cur \notin InOrder /\ op[d] = None
    BY <1>3, NewNext DEF IdleOf, Of
  <2>2. UNCHANGED ring /\ (op' = op \/ ReadyOutOfOrder(d))
    BY <1>3 DEF SubmitOutOfOrder, device, objects
  <2>3. SubmitCommand(d)
    BY <1>3
  <2> HIDE DEF d
  <2>4. d = e
    BY <1>0, <2>1, <2>3, SubmitChange
  <2>5. ReadyOutOfOrder(e) /\ f \in deps[e]
    BY <2>1, <2>2, <2>4 DEF InFront
  <2>6. LaunchedBefore(f, e)
    BY <2>5 DEF ReadyOutOfOrder, CanFastRelaunch, LaunchedBefore
  <2>7. QED
    BY <1>fin, <2>2, <2>6
<1>4. CASE /\ SubmitInOrder /\ ~on_doq[inorder[cur][idx]]
           /\ status[inorder[cur][idx]] = QUEUED /\ ReadyInOrder(idx)
           /\ SubmitCommand(inorder[cur][idx])
  <2> DEFINE d == inorder[cur][idx]
  <2>1. /\ d \in Commands /\ QueueOf(d) = cur /\ cur \in InOrder /\ cur \in Queues
        /\ idx \in 1..Len(inorder[cur]) /\ inorder[cur] \in Seq(Of(cur))
    BY <1>4, InOrderNext DEF Of
  <2>2. op[d] = None
    BY <1>4, <2>1 DEF SubmittedInv
  <2>3. SubmitCommand(d) /\ UNCHANGED ring
    BY <1>4 DEF SubmitInOrder, device
  <2>4. d = e
    <3> HIDE DEF d
    <3>1. QED
      BY <2>1, <2>2, <2>3, SubmitChange
  <2>5. CASE f \in deps[e]
    <3>1. LaunchedBefore(f, e)
      BY <1>4, <2>4, <2>5 DEF ReadyInOrder, ParentsLaunched, LaunchedBefore
    <3>2. QED
      BY <1>fin, <2>3, <3>1
  <2>6. CASE InFront(f, e)
    <3>1. QueueOf(e) = cur
      BY <2>1, <2>4
    <3>2. PICK x, y \in 1..Len(inorder[cur]) :
            x < y /\ inorder[cur][x] = f /\ inorder[cur][y] = e
      BY <2>6, <3>1 DEF InFront
    <3>3. y = idx
      <4>1. IsInjective(inorder[cur])
        BY <2>1 DEF CountInv, CountedInOrder
      <4>2. \A j, k \in 1..Len(inorder[cur]) :
              inorder[cur][j] = inorder[cur][k] => j = k
        BY <2>1, <4>1, PositionsOf
      <4>3. QED
        BY <2>1, <2>4, <3>2, <4>2
    <3>4. x \in 1..idx - 1
      BY <2>1, <3>2, <3>3
    <3>5. Done(f) \/ LaunchedBefore(f, e)
      BY <1>4, <2>4, <3>2, <3>4, ReadyBehind
    <3>6. QED
      BY <1>fin, <2>3, <3>5
  <2>7. QED
    BY <2>5, <2>6
<1>5. QED
  BY <1>1, <1>2, <1>3, <1>4, OpChange

(* On the device a command stays behind the launches in front of it.       *)
LEMMA HeldOnDevice ==
    ASSUME IInv, SubmittedInv, StatusInv, [Next]_vars,
           NEW e \in Commands, NEW f \in Commands, life[f] # "new",
           op[e] # None, LaunchedBefore(f, e), AheadInRing(f, e)
    PROVE  HeldAfter(f, e)
<1> DEFINE a == Command[e].accel
           r == ring[a]
<1>0. TypeOK
  BY DEF IInv
<1>1. /\ op'[e] # None /\ SameKernel(f, e) /\ LaunchedAfter(f)
      /\ IsKernel(f) /\ Command[f].accel = a /\ a \in Accels
  BY OpKept, LaunchedStays, CommandFacts DEF LaunchedBefore, SameKernel
<1>2. /\ r \in Seq(Commands) /\ Len(r) \in Nat
      /\ \A k \in 1..Len(r) : r[k] = e => \E j \in 1..Len(r) : j < k /\ r[j] = f
  BY <1>0, <1>1, LenProperties DEF TypeOK, AheadInRing
<1>3. SUFFICES DoneAfter(f) \/ AheadAfter(f, e)
  BY <1>1, <1>3 DEF HeldAfter
<1>4. CASE ring'[a] = r
  BY <1>2, <1>4 DEF AheadAfter
<1>5. ASSUME NEW d \in Commands, Start(d), ring'[a] = Append(r, d)
      PROVE  DoneAfter(f) \/ AheadAfter(f, e)
  <2>1. /\ Len(ring'[a]) = Len(r) + 1 /\ ring'[a][Len(r) + 1] = d
        /\ \A k \in 1..Len(r) : ring'[a][k] = r[k]
    BY <1>2, <1>5, AppendProperties
  <2>2. CASE Done(f)
    BY <2>2, DoneStays
  <2>3. CASE ~Done(f)
    <3>1. op[f] \in {SUBMITTED, RUNNING}
      BY <1>0, <1>1, <2>3, NoneFacts
      DEF LaunchedBefore, Launched, StatusInv, StatusKnown, TypeOK, QUEUED,
          SUBMITTED, RUNNING, COMPLETE
    <3>2. PICK i \in 1..Len(r) : r[i] = f
      BY <1>1, <3>1 DEF IInv, RingInv
    <3>3. ASSUME NEW k \in 1..Len(ring'[a]), ring'[a][k] = e
          PROVE  \E j \in 1..Len(ring'[a]) : j < k /\ ring'[a][j] = f
      <4>1. CASE k \in 1..Len(r)
        <5>1. PICK j \in 1..Len(r) : j < k /\ r[j] = f
          BY <1>2, <2>1, <3>3, <4>1
        <5>2. ring'[a][j] = f /\ j \in 1..Len(ring'[a])
          <6> HIDE DEF r, a
          <6>1. QED
            BY <1>2, <2>1, <5>1
        <5>3. QED
          BY <5>1, <5>2
      <4>2. CASE k = Len(r) + 1
        <5>1. i < k /\ i \in 1..Len(ring'[a])
          BY <1>2, <2>1, <3>2, <4>2
        <5>2. ring'[a][i] = f
          BY <2>1, <3>2
        <5>3. QED
          BY <5>1, <5>2
      <4>3. k \in 1..Len(r) \/ k = Len(r) + 1
        BY <1>2, <2>1, <3>3
      <4>4. QED
        BY <4>1, <4>2, <4>3
    <3>4. QED
      BY <3>3 DEF AheadAfter
  <2>4. QED
    BY <2>2, <2>3
<1>6. ASSUME NEW d \in Commands, End(d), IsKernel(d), Command[d].accel = a,
             ring'[a] = Tail(r)
      PROVE  DoneAfter(f) \/ AheadAfter(f, e)
  <2>1. Head(r) = d /\ \E k \in 1..Len(r) : r[k] = d
    BY <1>6 DEF End, IInv, RingInv
  <2>2. /\ r[1] = d /\ Len(ring'[a]) = Len(r) - 1 /\ Len(r) \in Nat \ {0}
        /\ \A k \in 1..Len(r) - 1 : ring'[a][k] = r[k + 1]
    BY <1>2, <1>6, <2>1, HeadTailProperties, EmptySeq
  <2>3. CASE f = d
    <3>1. PICK s \in {COMPLETE, FAILED} : status' = [status EXCEPT ![d] = s]
      BY <1>6 DEF End
    <3>2. QED
      BY <1>0, <2>3, <3>1 DEF TypeOK, DoneAfter, COMPLETE, FAILED
  <2>4. CASE f # d
    <3>1. ASSUME NEW k \in 1..Len(ring'[a]), ring'[a][k] = e
          PROVE  \E j \in 1..Len(ring'[a]) : j < k /\ ring'[a][j] = f
      <4>1. k + 1 \in 1..Len(r) /\ r[k + 1] = e
        BY <2>2, <3>1
      <4>2. PICK j \in 1..Len(r) : j < k + 1 /\ r[j] = f
        BY <1>2, <4>1
      <4>3. j # 1
        BY <2>2, <2>4, <4>2
      <4>4. j - 1 \in 1..Len(ring'[a]) /\ j - 1 < k /\ ring'[a][j - 1] = f
        BY <2>2, <4>2, <4>3
      <4>5. QED
        BY <4>4
    <3>2. QED
      BY <3>1 DEF AheadAfter
  <2>5. QED
    BY <2>3, <2>4
<1>7. \/ ring'[a] = r
      \/ \E d \in Commands : Start(d) /\ ring'[a] = Append(r, d)
      \/ \E d \in Commands : /\ End(d) /\ IsKernel(d) /\ Command[d].accel = a
                             /\ ring'[a] = Tail(r)
  <2> USE DEF objects, queues, device, control
  <2>1. CASE Quiet
    BY <2>1, QuietChange
  <2>2. ASSUME NEW d \in Commands,
               \/ Enqueue(d) \/ Release(d) \/ Run(d)
               \/ \E s \in UserStatuses : SetUserEventStatus(d, s)
        PROVE  ring'[a] = r
    BY <2>2 DEF Enqueue, Release, Run, SetUserEventStatus
  <2>3. ASSUME NEW d \in Commands, Start(d)
        PROVE  ring'[a] = r \/ ring'[a] = Append(r, d)
    BY <1>0, <1>1, <2>3 DEF TypeOK, Start
  <2>4. ASSUME NEW d \in Commands, End(d)
        PROVE  \/ ring'[a] = r
               \/ IsKernel(d) /\ Command[d].accel = a /\ ring'[a] = Tail(r)
    <3>1. CASE IsKernel(d)
      <4>1. ring' = [ring EXCEPT ![Command[d].accel] = Tail(@)]
        BY <2>4, <3>1 DEF End
      <4>2. QED
        BY <1>0, <1>1, <3>1, <4>1 DEF TypeOK
    <3>2. CASE ~IsKernel(d)
      BY <2>4, <3>2 DEF End
    <3>3. QED
      BY <3>1, <3>2
  <2>5. CASE PopCompleted \/ PopInOrder \/ SubmitOutOfOrder
             \/ ForgetUserEvents \/ SubmitInOrder
    BY <2>5
    DEF PopCompleted, PopInOrder, SubmitOutOfOrder, ForgetUserEvents,
        SubmitInOrder
  <2>6. QED
    <3> HIDE DEF r, a
    <3>1. QED
      BY <2>1, <2>2, <2>3, <2>4, <2>5, NextCases
<1>8. QED
  <2> HIDE DEF r, a
  <2>1. QED
    BY <1>4, <1>5, <1>6, <1>7

LEMMA HeldStep ==
    ASSUME IInv, SubmittedInv, InFlightCounted, CountInv, PassedInv, StatusInv,
           LineInv, FollowsInv, BarriersNamed, HeldInv, [Next]_vars
    PROVE  HeldInv'
<1> SUFFICES ASSUME NEW e \in Commands, life'[e] = "live",
                    ~(status'[e] <= COMPLETE), NEW f \in follows'[e]
             PROVE  HoldsBack(f, e)'
  BY DEF HeldInv, Done
<1> SUFFICES HeldAfter(f, e)
  <2>1. ASSUME InFrontAfter(f, e) PROVE InFront(f, e)'
    BY <2>1 DEF InFront, InFrontAfter, QueueOf
  <2>2. ASSUME AheadAfter(f, e) PROVE AheadInRing(f, e)'
    BY <2>2 DEF AheadInRing, AheadAfter
  <2>3. ASSUME SameKernel(f, e), LaunchedAfter(f) PROVE LaunchedBefore(f, e)'
    BY <2>3
    DEF LaunchedBefore, Launched, LaunchedAfter, SameKernel, IsKernel
  <2>4. ASSUME DoneAfter(f) PROVE Done(f)'
    BY <2>4 DEF Done, DoneAfter
  <2>5. QED
    BY <2>1, <2>2, <2>3, <2>4 DEF HoldsBack, HeldAfter
<1>0. TypeOK
  BY DEF IInv
<1>1. CASE Enqueue(e)
  <2>1. follows'[e] = Follows(e)
    BY <1>0, <1>1 DEF TypeOK, Enqueue
  <2>2. QED
    BY <1>1, <2>1, HeldWhenNew
<1>2. CASE ~Enqueue(e)
  <2>1. life[e] = "live" /\ f \in follows[e]
    BY <1>2, ComesToLife
  <2>2. f \in Commands /\ life[f] # "new"
    BY <1>0, <2>1 DEF TypeOK, FollowsInv
  <2>3. ~Done(e)
    <3>1. Done(e) => DoneAfter(e)
      BY <2>1, DoneStays
    <3>2. QED
      BY <3>1 DEF DoneAfter
  <2>4. HoldsBack(f, e)
    BY <2>1, <2>3 DEF HeldInv
  <2>5. CASE Done(f)
    BY <2>2, <2>5, DoneStays DEF HeldAfter
  <2>6. CASE op[e] # None /\ LaunchedBefore(f, e) /\ AheadInRing(f, e)
    BY <2>2, <2>6, HeldOnDevice
  <2>7. CASE op[e] = None /\ (f \in deps[e] \/ InFront(f, e))
    <3>1. CASE op'[e] # None
      BY <2>2, <2>7, <3>1, HeldWhenSubmitted
    <3>2. CASE op'[e] = None
      <4>1. CASE InFront(f, e)
        <5>1. InFrontAfter(f, e) \/ DoneAfter(f) \/ DoneAfter(e)
          BY <2>2, <4>1, FrontKept
        <5>2. QED
          BY <3>2, <5>1 DEF HeldAfter, DoneAfter
      <4>2. CASE f \in deps[e] /\ f \in deps'[e]
        BY <3>2, <4>2 DEF HeldAfter
      <4>3. CASE f \in deps[e] /\ f \notin deps'[e]
        <5>1. CASE DoneAfter(f)
          BY <5>1 DEF HeldAfter
        <5>2. CASE SubmitOutOfOrder /\ SubmitCommand(e)
          <6>1. status'[e] <= COMPLETE
            BY <2>7, <3>2, <5>2, NoneFacts, SubmitChange DEF QUEUED, COMPLETE
          <6>2. QED
            BY <6>1
        <5>3. QED
          BY <2>1, <4>3, <5>1, <5>2, DepsLost
      <4>4. QED
        BY <2>7, <4>1, <4>2, <4>3
    <3>3. QED
      BY <3>1, <3>2
  <2>8. QED
    BY <2>4, <2>5, <2>6, <2>7 DEF HoldsBack
<1>3. QED
  BY <1>1, <1>2

LEMMA InitHeld ==
    ASSUME Init
    PROVE  StatusInv /\ LineInv /\ HeldInv
<1>1. StatusInv
  <2> SUFFICES ASSUME NEW e \in Commands PROVE StatusKnown(e)
    BY DEF StatusInv
  <2>1. op[e] = None /\ (status[e] = QUEUED \/ Done(e))
    BY DEF Init, Done, COMPLETE
  <2>2. ASSUME IsKernel(e) PROVE e \notin ToSet(ring[Command[e].accel])
    <3>1. ring[Command[e].accel] = <<>>
      BY <2>2, CommandFacts DEF Init
    <3> DEFINE r == ring[Command[e].accel]
    <3>l. Len(r) = 0
      BY <3>1, EmptySeq
    <3>2. r \in Seq(Commands)
      BY <3>1, EmptySeq
    <3> HIDE DEF r
    <3>3. \A x \in ToSet(r) : \E k \in 1..Len(r) : r[k] = x
      BY <3>2, PositionsOf
    <3>4. e \notin ToSet(r)
      BY <3>l, <3>3
    <3>5. QED
      BY <3>4 DEF r
  <2>3. QED
    BY <2>1, <2>2, NoneFacts DEF StatusKnown, COMPLETE, QUEUED
<1>2. LineInv
  <2>1. \A q \in Queues : inorder[q] = <<>>
    BY DEF Init
  <2>2. QED
    BY <2>1, QueueFacts DEF LineInv
<1>3. HeldInv
  BY DEF Init, HeldInv
<1>4. QED
  BY <1>1, <1>2, <1>3

(* A marker or barrier completes where it is submitted.                    *)
LEMMA SyncCompletes ==
    ASSUME IInv, [Next]_vars, NEW e \in Commands,
           Command[e].kind = "sync", status[e] = QUEUED, status'[e] = COMPLETE
    PROVE  \/ /\ SubmitOutOfOrder /\ e = new_commands[cur][idx]
              /\ ReadyOutOfOrder(e)
           \/ /\ SubmitInOrder /\ e = inorder[cur][idx] /\ ReadyInOrder(idx)
<1>0. TypeOK /\ (op[e] # None => FALSE)
  BY DEF IInv, OpInv
<1> USE DEF objects, queues, device, control
<1>1. CASE Quiet
  BY <1>1, QuietChange DEF QUEUED, COMPLETE
<1>2. ASSUME NEW d \in Commands, Enqueue(d) PROVE FALSE
  BY <1>0, <1>2 DEF TypeOK, Enqueue, QUEUED, SUBMITTED, COMPLETE
<1>3. ASSUME NEW d \in Commands,
             \/ Start(d) \/ Run(d) \/ End(d)
             \/ \E s \in UserStatuses : SetUserEventStatus(d, s)
      PROVE  FALSE
  <2>1. d # e
    BY <1>0, <1>3, NoneFacts
    DEF Start, Run, End, SetUserEventStatus, QUEUED, SUBMITTED, RUNNING, COMPLETE
  <2>2. PICK s : status' = [status EXCEPT ![d] = s]
    BY <1>3 DEF Start, Run, End, SetUserEventStatus
  <2>3. status'[e] = status[e]
    BY <1>0, <2>1, <2>2 DEF TypeOK
  <2>4. QED
    BY <2>3 DEF QUEUED, COMPLETE
<1>4. ASSUME \/ PopInOrder \/ ForgetUserEvents
             \/ \E d \in Commands : Release(d)
      PROVE  FALSE
  BY <1>4 DEF PopInOrder, ForgetUserEvents, Release, QUEUED, COMPLETE
<1>5. CASE PopCompleted
  <2> DEFINE d == Head(completed[cur])
  <2>1. /\ d \in Commands
        /\ status'[e] = IF e \in Terminated(d) THEN status[d] ELSE status[e]
    BY <1>5, CompletedHead DEF DoneOf, Of, PopCompleted
  <2>2. e \in Terminated(d) => status[d] < 0
    <3> HIDE DEF d
    <3>1. QED
      BY <2>1, TerminatedFacts
  <2> HIDE DEF d
  <2>3. QED
    BY <2>1, <2>2 DEF QUEUED, COMPLETE
<1>6. CASE SubmitOutOfOrder
  <2> DEFINE d == new_commands[cur][idx]
  <2>1. d \in Commands
    BY <1>6, NewNext DEF IdleOf, Of
  <2>2. status' = status \/ (ReadyOutOfOrder(d) /\ SubmitCommand(d))
    <3>1. CASE ReadyOutOfOrder(d) /\ SubmitSucceeds(d)
      BY <1>6, <3>1 DEF SubmitOutOfOrder
    <3>2. CASE ~(ReadyOutOfOrder(d) /\ SubmitSucceeds(d))
      BY <1>6, <3>2 DEF SubmitOutOfOrder
    <3>3. QED
      BY <3>1, <3>2
  <2> HIDE DEF d
  <2>3. status' # status
    BY DEF QUEUED, COMPLETE
  <2>4. d = e
    BY <1>0, <2>1, <2>2, <2>3 DEF SubmitCommand, TypeOK, QUEUED, COMPLETE
  <2>5. QED
    BY <1>6, <2>2, <2>3, <2>4 DEF d
<1>7. CASE SubmitInOrder
  <2> DEFINE d == inorder[cur][idx]
  <2>1. d \in Commands
    BY <1>7, InOrderNext DEF Of
  <2>2. status' = status \/ (ReadyInOrder(idx) /\ SubmitCommand(d))
    <3>1. CASE /\ ~(status[d] # QUEUED \/ on_doq[d])
               /\ ReadyInOrder(idx) /\ SubmitSucceeds(d)
      BY <1>7, <3>1 DEF SubmitInOrder
    <3>2. CASE ~(/\ ~(status[d] # QUEUED \/ on_doq[d])
                 /\ ReadyInOrder(idx) /\ SubmitSucceeds(d))
      BY <1>7, <3>2 DEF SubmitInOrder
    <3>3. QED
      BY <3>1, <3>2
  <2> HIDE DEF d
  <2>3. status' # status
    BY DEF QUEUED, COMPLETE
  <2>4. d = e
    BY <1>0, <2>1, <2>2, <2>3 DEF SubmitCommand, TypeOK, QUEUED, COMPLETE
  <2>5. QED
    BY <1>7, <2>2, <2>3, <2>4 DEF d
<1>8. QED
  BY <1>1, <1>2, <1>3, <1>4, <1>5, <1>6, <1>7, NextCases

(* What a command on the device follows is done or before it in the ring.  *)
LEMMA ExecutesBehind ==
    ASSUME IInv, HeldInv, NEW e \in Commands, Executes(e), NEW f \in follows[e]
    PROVE  Over(f)
<1>0. TypeOK
  BY DEF IInv
<1>1. op[e] # None /\ op[e] # COMPLETE
  BY NoneFacts DEF Executes, SUBMITTED, RUNNING, COMPLETE, QUEUED
<1>2. life[e] = "live" /\ ~Done(e)
  BY <1>0, <1>1 DEF IInv, OpInv, LifeInv, TypeOK
<1>3. Done(f) \/ (SameKernel(f, e) /\ AheadInRing(f, e))
  BY <1>1, <1>2 DEF HeldInv, HoldsBack, LaunchedBefore
<1>4. ASSUME SameKernel(f, e), AheadInRing(f, e) PROVE f \in ended
  <2> DEFINE r == ring[Command[e].accel]
  <2>1. IsKernel(e) /\ r \in Seq(Commands) /\ DOMAIN r = 1..Len(r)
    BY <1>0, <1>4, CommandFacts, LenProperties DEF SameKernel, TypeOK
  <2>2. PICK k \in 1..Len(r) : r[k] = e
    BY <2>1 DEF Executes, IInv, RingInv
  <2>3. PICK j \in 1..Len(r) : j < k /\ r[j] = f
    BY <1>4, <2>2 DEF AheadInRing
  <2>4. f \in Before(e)
    BY <2>1, <2>2, <2>3 DEF Before
  <2>5. QED
    BY <2>1, <2>4 DEF Executes
<1>5. QED
  BY <1>3, <1>4 DEF Over

LEMMA SyncBehind ==
    ASSUME IInv, SubmittedInv, InFlightCounted, CountInv, PassedInv, StatusInv,
           LineInv, FollowsInv, HeldInv, [Next]_vars,
           NEW e \in Commands, Command[e].kind = "sync",
           status[e] = QUEUED, status'[e] = COMPLETE, NEW f \in follows'[e]
    PROVE  Over(f)'
<1>0. TypeOK
  BY DEF IInv
<1>1. CASE UNCHANGED follows /\ Done(f)
  <2>1. f \in Commands /\ life[f] # "new"
    BY <1>0, <1>1 DEF TypeOK, FollowsInv
  <2>2. QED
    BY <1>1, <2>1, DoneStays DEF Over, DoneAfter, Done
<1>2. UNCHANGED follows
  BY SyncCompletes DEF SubmitOutOfOrder, SubmitInOrder
<1>3. Done(f)
  <2>0. f \in follows[e]
    BY <1>2
  <2>1. op[e] = None /\ ~IsKernel(e) /\ ~Done(e)
    BY DEF IInv, OpInv, IsKernel, Done, QUEUED, COMPLETE
  <2>2. ASSUME life[e] # "new", deps[e] = {}, InFront(f, e) => Done(f)
        PROVE  Done(f)
    <3>1. life[e] = "live"
      BY <1>0, <2>1, <2>2 DEF IInv, LifeInv, TypeOK
    <3>2. HoldsBack(f, e)
      BY <2>0, <2>1, <3>1 DEF HeldInv
    <3>3. QED
      BY <2>1, <2>2, <3>2 DEF HoldsBack
  <2>3. CASE /\ SubmitOutOfOrder /\ e = new_commands[cur][idx]
             /\ ReadyOutOfOrder(e)
    <3>1. QueueOf(e) = cur /\ life[e] # "new" /\ cur \notin InOrder
      BY <2>3, NewNext DEF IdleOf, Of
    <3>2. deps[e] = {}
      BY <2>1, <2>3 DEF ReadyOutOfOrder, CanFastRelaunch, SameKernel
    <3>3. ~InFront(f, e)
      BY <3>1 DEF InFront
    <3>4. QED
      BY <2>2, <3>1, <3>2, <3>3
  <2>4. CASE SubmitInOrder /\ e = inorder[cur][idx] /\ ReadyInOrder(idx)
    <3>1. /\ QueueOf(e) = cur /\ life[e] # "new" /\ cur \in Queues
          /\ cur \in InOrder
          /\ idx \in 1..Len(inorder[cur]) /\ inorder[cur] \in Seq(Of(cur))
      BY <2>4, InOrderNext DEF Of
    <3>2. deps[e] = {}
      BY <2>1, <2>4 DEF ReadyInOrder
    <3>3. ASSUME InFront(f, e) PROVE Done(f)
      <4>1. PICK x, y \in 1..Len(inorder[cur]) :
              x < y /\ inorder[cur][x] = f /\ inorder[cur][y] = e
        BY <3>1, <3>3 DEF InFront
      <4>2. y = idx
        <5>1. IsInjective(inorder[cur])
          BY <3>1 DEF CountInv, CountedInOrder
        <5>2. \A j, k \in 1..Len(inorder[cur]) :
                inorder[cur][j] = inorder[cur][k] => j = k
          BY <3>1, <5>1, PositionsOf
        <5>3. QED
          BY <2>4, <3>1, <4>1, <5>2
      <4>3. x \in 1..idx - 1
        BY <3>1, <4>1, <4>2
      <4>4. Done(f) \/ LaunchedBefore(f, e)
        BY <2>4, <4>1, <4>3, ReadyBehind
      <4>5. QED
        BY <2>1, <4>4 DEF LaunchedBefore, SameKernel
    <3>4. QED
      BY <2>2, <3>1, <3>2, <3>3
  <2>5. QED
    BY <2>3, <2>4, SyncCompletes
<1>4. QED
  BY <1>1, <1>2, <1>3

(* A command does not execute before all it must not overtake has ended, a *)
(* kernel that was relaunched behind another one included.  This holds if  *)
(* a failed user event terminates only commands of in-order queues, a      *)
(* kernel that is ready finds room, and what is enqueued behind a barrier  *)
(* has a wait list.                                                        *)
THEOREM CommandsStartInOrder ==
    ASSUME INVALID \notin UserStatuses
    PROVE  Spec /\ []TerminatesInOrder /\ []KernelsFindRoom /\ []BarriersNamed
             => StartsInOrder
<1> DEFINE J == /\ IInv /\ SubmittedInv /\ InFlightCounted /\ CountInv
                /\ UserInv /\ PassedInv /\ StatusInv /\ LineInv
                /\ FollowsInv /\ HeldInv
           Behind == \A e \in Commands : Executes(e) => \A f \in follows[e] : Over(f)
           InTurn == \A e \in Commands : Begins(e) => \A f \in follows'[e] : Over(f)'
<1>1. Init => J
  BY InitInv, InitSubmitted, InitCount, InitAssertions, InitVisit, InitHeld
<1>2. J /\ TerminatesInOrder /\ KernelsFindRoom /\ BarriersNamed /\ [Next]_vars
        => J'
  <2> SUFFICES ASSUME J, TerminatesInOrder, KernelsFindRoom, BarriersNamed,
                      [Next]_vars
               PROVE  J'
    OBVIOUS
  <2>1. IInv' /\ SubmittedInv' /\ InFlightCounted'
    BY NextInv, SubmittedStep, InFlightStep
  <2>2. CountInv' /\ UserInv' /\ PassedInv'
    BY CountInvStep, UserStep, PassedStep
  <2>3. StatusInv' /\ LineInv'
    BY StatusStep, LineStep
  <2>4. FollowsInv' /\ HeldInv'
    BY FollowsStep, HeldStep
  <2>5. QED
    BY <2>1, <2>2, <2>3, <2>4
<1>3. J => Behind
  BY ExecutesBehind
<1>4. J /\ Behind' /\ [Next]_vars => [InTurn]_vars
  BY SyncBehind DEF Begins
<1>5. QED
  BY <1>1, <1>2, <1>3, <1>4, PTL DEF Spec, StartsInOrder
=============================================================================
