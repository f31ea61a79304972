-------------------------- MODULE ThreadPoolProofs --------------------------
(***************************************************************************)
(* Proofs about ThreadPool for any number of workers, tasks and slots.     *)
(* The core is PermitsMatchSlots: counting, for every slot, the one permit *)
(* that stands for it, and finding the tasks in consecutive slots.         *)
(***************************************************************************)
EXTENDS ThreadPool, FiniteSetTheorems, SequenceTheorems, TLAPS

LEMMA ThreadsAreFinite == IsFiniteSet(Thread)
BY PoolConstants, FS_AddElement DEF Thread

\* A count of threads is a natural number, and positive when one is counted.
LEMMA CountType ==
  ASSUME NEW L
  PROVE  /\ IsFiniteSet({t \in Thread : pc[t] \in L})
         /\ Count(L) \in Nat
         /\ \A t \in Thread : pc[t] \in L => Count(L) >= 1
<1> DEFINE S == {t \in Thread : pc[t] \in L}
<1>1. IsFiniteSet(S)
  BY ThreadsAreFinite, FS_Subset
<1>2. Cardinality(S) \in Nat /\ (Cardinality(S) = 0 <=> S = {})
  BY <1>1, FS_CardinalityType, FS_EmptySet
<1>3. ASSUME NEW t \in Thread, pc[t] \in L PROVE S # {}
  BY <1>3
<1> QED
  BY <1>1, <1>2, <1>3 DEF Count

\* What a step of one thread does to a count of threads.
LEMMA CountChange ==
  ASSUME TypeOK, NEW t \in Thread, NEW l \in Label, Goto(t, l), NEW L
  PROVE  Count(L)' = Count(L) + (IF l \in L THEN 1 ELSE 0) - (IF pc[t] \in L THEN 1 ELSE 0)
<1> DEFINE S == {u \in Thread : pc[u] \in L}
<1>1. IsFiniteSet(S) /\ Cardinality(S) \in Nat
  BY CountType DEF Count
<1>2. pc' = [pc EXCEPT ![t] = l] /\ pc \in [Thread -> Label]
  BY DEF Goto, TypeOK
<1>3. CASE l \in L
  <2>1. \A u \in Thread : pc'[u] \in L <=> pc[u] \in L \/ u = t
    BY <1>2, <1>3
  <2>3. S' = S \cup {t}
    BY <2>1
  <2>2. t \in S <=> pc[t] \in L
    OBVIOUS
  <2>4. Cardinality(S \cup {t}) = IF t \in S THEN Cardinality(S) ELSE Cardinality(S) + 1
    BY <1>1, FS_AddElement
  <2>5. Count(L) = Cardinality(S) /\ Count(L)' = Cardinality(S')
    BY DEF Count
  <2> HIDE DEF S
  <2> QED
    BY <1>1, <1>3, <2>2, <2>3, <2>4, <2>5
<1>4. CASE l \notin L
  <2>1. S' = S \ {t}
    BY <1>2, <1>4
  <2>2. t \in S <=> pc[t] \in L
    OBVIOUS
  <2> QED
    BY <1>1, <1>4, <2>1, <2>2, FS_RemoveElement DEF Count
<1> QED
  BY <1>3, <1>4

\* The four groups of threads permits are held by.
Putting == {"lockProductor", "put"}
Announcing == {"postReady"}
Taking == {"lockConsumer", "take"}
Freeing == {"postFree"}

LEMMA CountTypes ==
  /\ Count(Putting) \in Nat
  /\ Count(Announcing) \in Nat
  /\ Count(Taking) \in Nat
  /\ Count(Freeing) \in Nat
BY CountType

\* No thread changes group.
LEMMA CountSame ==
  ASSUME UNCHANGED pc
  PROVE  \A L : Count(L)' = Count(L)
BY DEF Count

\* (pos + 1) % Capacity is the next slot of the ring.
LEMMA AfterWraps ==
  ASSUME NEW pos \in Slot
  PROVE  /\ After(pos) = IF pos + 1 = Capacity THEN 0 ELSE pos + 1
         /\ After(pos) \in Slot
BY PoolConstants DEF After, Slot

LEMMA RingSlotType ==
  ASSUME consumerPos \in Slot, NEW k \in Slot
  PROVE  /\ RingSlot(k) \in Slot
         /\ \A j \in Slot : RingSlot(j) = RingSlot(k) => j = k
BY PoolConstants DEF Slot, RingSlot

-----------------------------------------------------------------------------
(* Types and mutexes                                                       *)

LEMMA InitTypeOK == Init => TypeOK
BY PoolConstants DEF Init, TypeOK, Slot, Label

\* A worker about to take a task finds one in its slot.
FindsATask == \A w \in Worker : pc[w] = "take" => queue[consumerPos] # NoTask

LEMMA NextTypeOK == TypeOK /\ FindsATask /\ [Next]_vars => TypeOK'
<1> SUFFICES ASSUME TypeOK, FindsATask, [Next]_vars PROVE TypeOK'
  OBVIOUS
<1> USE DEF TypeOK, Goto, Hold, Create, Label, ring, semaphores, mutexes, history
<1>0. Main \in Thread /\ Worker \subseteq Thread
  BY DEF Thread
<1>1. ASSUME NEW task \in Task, MainPush(task) PROVE TypeOK'
  BY <1>0, <1>1 DEF MainPush
<1>2. ASSUME NEW task \in Task, NEW w \in Worker, TryPush(w, task) \/ TryPushFails(w, task)
      PROVE  TypeOK'
  <2>1. freeSlots' \in Nat
    BY <1>2 DEF TryPush, TryPushFails
  <2> QED
    BY <1>0, <1>2, <2>1 DEF TryPush, TryPushFails
<1>3. ASSUME WaitFree PROVE TypeOK'
  BY <1>0, <1>3 DEF WaitFree
<1>4. ASSUME NEW t \in Thread, LockProductor(t) PROVE TypeOK'
  BY <1>4 DEF LockProductor
<1>5. ASSUME NEW t \in Thread, Put(t) PROVE TypeOK'
  BY <1>5, AfterWraps DEF Put
<1>6. ASSUME NEW t \in Thread, PostReady(t) PROVE TypeOK'
  BY <1>6 DEF PostReady
<1>7. ASSUME NEW w \in Worker, WaitReady(w) PROVE TypeOK'
  BY <1>0, <1>7 DEF WaitReady
<1>8. ASSUME NEW w \in Worker, LockConsumer(w) PROVE TypeOK'
  BY <1>0, <1>8 DEF LockConsumer
<1>9. ASSUME NEW w \in Worker, Take(w) PROVE TypeOK'
  BY <1>0, <1>9, AfterWraps DEF Take, FindsATask
<1>10. ASSUME NEW w \in Worker, PostFree(w) \/ Finish(w) PROVE TypeOK'
  BY <1>0, <1>10 DEF PostFree, Finish
<1>11. ASSUME UNCHANGED vars PROVE TypeOK'
  BY <1>11 DEF vars
<1> QED
  BY <1>1, <1>2, <1>3, <1>4, <1>5, <1>6, <1>7, <1>8, <1>9, <1>10, <1>11
  DEF Next, PoolStep, WorkerStep

\* A mutex is held by the one thread that is in its critical section.
MutexesHeld ==
  \A t \in Thread :
    /\ pc[t] = "put" <=> productorMutex = t
    /\ pc[t] = "take" <=> consumerMutex = t

\* Whoever is about to put a task has one.
HasTask == \A t \in Thread : pc[t] \in {"waitFree"} \cup Putting => hand[t] \in Task

LEMMA InitLocal == Init => MutexesHeld /\ HasTask
BY PoolConstants DEF Init, MutexesHeld, HasTask, Putting

LEMMA NextLocal ==
  TypeOK /\ MutexesHeld /\ HasTask /\ [Next]_vars => MutexesHeld' /\ HasTask'
<1> SUFFICES ASSUME TypeOK, MutexesHeld, HasTask, [Next]_vars
             PROVE  MutexesHeld' /\ HasTask'
  OBVIOUS
<1> USE DEF TypeOK, MutexesHeld, HasTask, Putting, Goto, Hold, mutexes
<1>0. Main \in Thread /\ Worker \subseteq Thread /\ Nobody \notin Thread
  BY PoolConstants DEF Thread
<1>1. ASSUME NEW task \in Task, MainPush(task) PROVE MutexesHeld' /\ HasTask'
  BY <1>0, <1>1 DEF MainPush
<1>2. ASSUME NEW task \in Task, NEW w \in Worker, TryPush(w, task) \/ TryPushFails(w, task)
      PROVE  MutexesHeld' /\ HasTask'
  BY <1>0, <1>2 DEF TryPush, TryPushFails
<1>3. ASSUME WaitFree PROVE MutexesHeld' /\ HasTask'
  BY <1>0, <1>3 DEF WaitFree
<1>4. ASSUME NEW t \in Thread, LockProductor(t) PROVE MutexesHeld' /\ HasTask'
  BY <1>0, <1>4 DEF LockProductor
<1>5. ASSUME NEW t \in Thread, Put(t) PROVE MutexesHeld' /\ HasTask'
  BY <1>0, <1>5 DEF Put
<1>6. ASSUME NEW t \in Thread, PostReady(t) PROVE MutexesHeld' /\ HasTask'
  BY <1>0, <1>6 DEF PostReady
<1>7. ASSUME NEW w \in Worker, WaitReady(w) PROVE MutexesHeld' /\ HasTask'
  BY <1>0, <1>7 DEF WaitReady
<1>8. ASSUME NEW w \in Worker, LockConsumer(w) PROVE MutexesHeld' /\ HasTask'
  BY <1>0, <1>8 DEF LockConsumer
<1>9. ASSUME NEW w \in Worker, Take(w) PROVE MutexesHeld' /\ HasTask'
  BY <1>0, <1>9 DEF Take
<1>10. ASSUME NEW w \in Worker, PostFree(w) \/ Finish(w) PROVE MutexesHeld' /\ HasTask'
  BY <1>0, <1>10 DEF PostFree, Finish
<1>11. ASSUME UNCHANGED vars PROVE MutexesHeld' /\ HasTask'
  BY <1>11 DEF vars
<1> QED
  BY <1>1, <1>2, <1>3, <1>4, <1>5, <1>6, <1>7, <1>8, <1>9, <1>10, <1>11
  DEF Next, PoolStep, WorkerStep

-----------------------------------------------------------------------------
(* Permits and slots                                                       *)

\* PermitsMatchSlots in terms of the groups, with the count of tasks named.
LEMMA InRingIs ==
  /\ InRing = readyTasks + Count(Announcing) + Count(Taking)
  /\ PermitsMatchSlots <=>
       /\ freeSlots + Count(Putting) + Count(Freeing) + InRing = Capacity
       /\ \A k \in Slot : queue[RingSlot(k)] # NoTask <=> k < InRing
       /\ InRing < Capacity => productorPos = RingSlot(InRing)
       /\ InRing = Capacity => productorPos = consumerPos
BY DEF InRing, PermitsMatchSlots, Putting, Announcing, Taking, Freeing

LEMMA InRingType == TypeOK => InRing \in Nat
BY InRingIs, CountTypes DEF TypeOK

LEMMA InitPermits == Init => PermitsMatchSlots
<1> SUFFICES ASSUME Init PROVE PermitsMatchSlots
  OBVIOUS
<1>1. \A t \in Thread : pc[t] \in {"idle", "waitReady"}
  BY DEF Init
<1>2. \A L : L \cap {"idle", "waitReady"} = {} => Count(L) = 0
  <2> TAKE L
  <2> HAVE L \cap {"idle", "waitReady"} = {}
  <2>1. {t \in Thread : pc[t] \in L} = {}
    BY <1>1
  <2> QED
    BY <2>1, FS_EmptySet DEF Count
<1>3. /\ Count(Putting) = 0
      /\ Count(Announcing) = 0
      /\ Count(Taking) = 0
      /\ Count(Freeing) = 0
  BY <1>2 DEF Putting, Announcing, Taking, Freeing
<1>4. InRing = 0
  BY <1>3, InRingIs DEF Init
<1> QED
  BY <1>3, <1>4, InRingIs, PoolConstants DEF Init, RingSlot, Slot

\* The effect of one thread's step on every group at once.
LEMMA GroupsChange ==
  ASSUME TypeOK, NEW t \in Thread, NEW l \in Label, Goto(t, l)
  PROVE  /\ Count(Putting)' = Count(Putting)
              + (IF l \in Putting THEN 1 ELSE 0) - (IF pc[t] \in Putting THEN 1 ELSE 0)
         /\ Count(Announcing)' = Count(Announcing)
              + (IF l \in Announcing THEN 1 ELSE 0) - (IF pc[t] \in Announcing THEN 1 ELSE 0)
         /\ Count(Taking)' = Count(Taking)
              + (IF l \in Taking THEN 1 ELSE 0) - (IF pc[t] \in Taking THEN 1 ELSE 0)
         /\ Count(Freeing)' = Count(Freeing)
              + (IF l \in Freeing THEN 1 ELSE 0) - (IF pc[t] \in Freeing THEN 1 ELSE 0)
BY CountChange

\* A step that leaves the ring and both sums of permits alone.
LEMMA SameRing ==
  ASSUME PermitsMatchSlots, UNCHANGED ring,
         (freeSlots + Count(Putting) + Count(Freeing))'
           = freeSlots + Count(Putting) + Count(Freeing),
         InRing' = InRing
  PROVE  PermitsMatchSlots'
BY DEF PermitsMatchSlots, Putting, Freeing, ring, RingSlot

LEMMA InRingNext == InRing' = readyTasks' + Count(Announcing)' + Count(Taking)'
BY DEF InRing, Announcing, Taking

\* Putting a task: it goes into the first slot after the tasks in the ring.
LEMMA PutPermits ==
  ASSUME TypeOK, HasTask, PermitsMatchSlots, NEW t \in Thread, Put(t)
  PROVE  /\ InRing < Capacity
         /\ InRing' = InRing + 1
         /\ PermitsMatchSlots'
<1> DEFINE n == InRing
<1>1. Goto(t, "postReady") /\ "postReady" \in Label /\ pc[t] = "put"
  BY DEF Put, Label
<1>2. /\ Count(Putting)' = Count(Putting) - 1
      /\ Count(Announcing)' = Count(Announcing) + 1
      /\ Count(Taking)' = Count(Taking)
      /\ Count(Freeing)' = Count(Freeing)
  BY <1>1, GroupsChange, CountTypes DEF Putting, Announcing, Taking, Freeing
<1>3. Count(Putting) >= 1
  BY <1>1, CountType DEF Putting
<1>4. /\ freeSlots \in Nat /\ readyTasks \in Nat /\ Capacity \in Nat \ {0}
      /\ freeSlots' = freeSlots /\ readyTasks' = readyTasks
      /\ consumerPos \in Slot /\ consumerPos' = consumerPos
  BY PoolConstants DEF TypeOK, Put, semaphores
<1>5. freeSlots + Count(Putting) + Count(Freeing) + n = Capacity
  BY InRingIs
<1>6. n \in Slot
  BY <1>3, <1>4, <1>5, CountTypes, InRingType DEF Slot
<1>7. InRing' = n + 1
  BY <1>2, <1>4, InRingIs, InRingNext, CountTypes
<1>8. (freeSlots + Count(Putting) + Count(Freeing) + InRing)' = Capacity
  BY <1>2, <1>4, <1>5, <1>6, <1>7, CountTypes DEF Slot
<1>9. productorPos = RingSlot(n) /\ productorPos \in Slot
  BY <1>4, <1>6, InRingIs DEF Slot, TypeOK
<1>10. \A k \in Slot : RingSlot(k)' = RingSlot(k)
  BY <1>4 DEF RingSlot
<1>11. \A k \in Slot : queue'[RingSlot(k)] # NoTask <=> k < n + 1
  <2> TAKE k \in Slot
  <2>1. hand[t] # NoTask
    BY <1>1, PoolConstants DEF HasTask, Putting
  <2>2. RingSlot(k) \in Slot /\ (RingSlot(k) = RingSlot(n) => k = n)
    BY <1>4, <1>6, RingSlotType
  <2>3. queue'[RingSlot(k)] = IF k = n THEN hand[t] ELSE queue[RingSlot(k)]
    BY <1>9, <2>2 DEF Put, TypeOK
  <2>4. queue[RingSlot(k)] # NoTask <=> k < n
    BY InRingIs
  <2> QED
    BY <1>6, <2>1, <2>3, <2>4 DEF Slot
<1>12. productorPos' = IF RingSlot(n) + 1 = Capacity THEN 0 ELSE RingSlot(n) + 1
  BY <1>9, AfterWraps DEF Put
<1>13. /\ n + 1 < Capacity => productorPos' = RingSlot(n + 1)
       /\ n + 1 = Capacity => productorPos' = consumerPos
  BY <1>4, <1>6, <1>12 DEF RingSlot, Slot
<1>14. PermitsMatchSlots'
  <2>1. \A k \in Slot : (queue[RingSlot(k)] # NoTask)' <=> (k < InRing)'
    BY <1>7, <1>10, <1>11
  <2>2. (InRing < Capacity => productorPos = RingSlot(InRing))'
    BY <1>4, <1>7, <1>13 DEF RingSlot
  <2>3. (InRing = Capacity => productorPos = consumerPos)'
    BY <1>4, <1>7, <1>13
  <2> QED
    BY <1>8, <2>1, <2>2, <2>3 DEF PermitsMatchSlots, Putting, Freeing
<1> QED
  BY <1>4, <1>6, <1>7, <1>14 DEF Slot

\* Taking a task: the ring is not empty, and its first slot becomes its last.
LEMMA TakePermits ==
  ASSUME TypeOK, PermitsMatchSlots, NEW w \in Thread, Take(w)
  PROVE  /\ InRing >= 1
         /\ queue[consumerPos] # NoTask
         /\ InRing' = InRing - 1
         /\ \A k \in Slot : k + 1 \in Slot => RingSlot(k)' = RingSlot(k + 1)
         /\ PermitsMatchSlots'
<1> DEFINE n == InRing
<1>1. Goto(w, "postFree") /\ "postFree" \in Label /\ pc[w] = "take"
  BY DEF Take, Label
<1>2. /\ Count(Putting)' = Count(Putting)
      /\ Count(Announcing)' = Count(Announcing)
      /\ Count(Taking)' = Count(Taking) - 1
      /\ Count(Freeing)' = Count(Freeing) + 1
  BY <1>1, GroupsChange, CountTypes DEF Putting, Announcing, Taking, Freeing
<1>3. Count(Taking) >= 1
  BY <1>1, CountType DEF Taking
<1>4. /\ freeSlots \in Nat /\ readyTasks \in Nat /\ Capacity \in Nat \ {0}
      /\ freeSlots' = freeSlots /\ readyTasks' = readyTasks
      /\ consumerPos \in Slot /\ productorPos \in Slot /\ productorPos' = productorPos
  BY PoolConstants DEF TypeOK, Take, semaphores
<1>5. freeSlots + Count(Putting) + Count(Freeing) + n = Capacity
  BY InRingIs
<1>6. n \in 1 .. Capacity
  BY <1>3, <1>4, <1>5, CountTypes, InRingIs
<1>7. InRing' = n - 1
  BY <1>2, <1>4, InRingIs, InRingNext, CountTypes
<1>8. (freeSlots + Count(Putting) + Count(Freeing) + InRing)' = Capacity
  BY <1>2, <1>4, <1>5, <1>6, <1>7, CountTypes
<1>9. RingSlot(0) = consumerPos /\ 0 \in Slot
  BY <1>4 DEF RingSlot, Slot
<1>10. queue[consumerPos] # NoTask
  BY <1>6, <1>9, InRingIs
<1>11. consumerPos' = IF consumerPos + 1 = Capacity THEN 0 ELSE consumerPos + 1
  BY <1>4, AfterWraps DEF Take
<1>12. \A k \in Slot : RingSlot(k)' = IF k + 1 \in Slot THEN RingSlot(k + 1) ELSE consumerPos
  BY <1>4, <1>11 DEF RingSlot, Slot
<1>13. \A k \in Slot : queue'[RingSlot(k)'] # NoTask <=> k < n - 1
  <2> TAKE k \in Slot
  <2>1. CASE k + 1 \in Slot
    <3>1. RingSlot(k)' = RingSlot(k + 1) /\ RingSlot(k + 1) # consumerPos
          /\ RingSlot(k + 1) \in Slot
      BY <1>4, <1>9, <1>12, <2>1, RingSlotType DEF Slot
    <3>2. queue'[RingSlot(k + 1)] = queue[RingSlot(k + 1)]
      BY <3>1 DEF Take, TypeOK
    <3>3. queue[RingSlot(k + 1)] # NoTask <=> k + 1 < n
      BY <2>1, InRingIs
    <3> QED
      BY <1>6, <3>1, <3>2, <3>3 DEF Slot
  <2>2. CASE k + 1 \notin Slot
    <3>1. RingSlot(k)' = consumerPos /\ k + 1 = Capacity
      BY <1>4, <1>12, <2>2 DEF Slot
    <3>2. queue'[consumerPos] = NoTask
      BY <1>4 DEF Take, TypeOK
    <3> QED
      BY <1>4, <1>6, <3>1, <3>2 DEF Slot
  <2> QED
    BY <2>1, <2>2
<1>14. n - 1 \in Slot
  BY <1>4, <1>6 DEF Slot
<1>15. \A k \in Slot : k = n - 1 => productorPos = RingSlot(k)'
  <2>1. n < Capacity => productorPos = RingSlot(n)
    BY InRingIs
  <2>2. n = Capacity => productorPos = consumerPos
    BY InRingIs
  <2> HIDE DEF n
  <2> QED
    BY <1>4, <1>6, <1>11, <2>1, <2>2 DEF RingSlot, Slot
<1>16. PermitsMatchSlots'
  <2>1. \A k \in Slot : (queue[RingSlot(k)] # NoTask)' <=> (k < InRing)'
    BY <1>7, <1>13
  <2>2. (InRing < Capacity => productorPos = RingSlot(InRing))'
    BY <1>4, <1>7, <1>14, <1>15 DEF RingSlot
  <2>3. InRing' # Capacity
    BY <1>4, <1>6, <1>7
  <2> QED
    BY <1>8, <2>1, <2>2, <2>3 DEF PermitsMatchSlots, Putting, Freeing
<1> QED
  BY <1>6, <1>7, <1>10, <1>12, <1>16

\* Every other step moves a permit from one holder to the next.
LEMMA OtherPermits ==
  ASSUME TypeOK, PermitsMatchSlots, [Next]_vars,
         \A t \in Thread : ~Put(t), \A w \in Worker : ~Take(w)
  PROVE  InRing' = InRing /\ UNCHANGED ring /\ PermitsMatchSlots'
<1> DEFINE P == freeSlots + Count(Putting) + Count(Freeing)
<1> SUFFICES P' = P /\ InRing' = InRing /\ UNCHANGED ring
  BY SameRing
<1>0. Main \in Thread /\ Worker \subseteq Thread
  BY DEF Thread
<1>a. /\ freeSlots \in Nat /\ readyTasks \in Nat
       /\ Count(Putting) \in Nat /\ Count(Announcing) \in Nat
       /\ Count(Taking) \in Nat /\ Count(Freeing) \in Nat
  BY CountTypes DEF TypeOK
<1>b. /\ InRing = readyTasks + Count(Announcing) + Count(Taking)
        /\ InRing' = readyTasks' + Count(Announcing)' + Count(Taking)'
  BY InRingIs, InRingNext
<1>1. ASSUME NEW task \in Task, MainPush(task)
      PROVE  P' = P /\ InRing' = InRing /\ UNCHANGED ring
  <2>1. Goto(Main, "waitFree") /\ "waitFree" \in Label /\ pc[Main] = "idle"
    BY <1>1 DEF MainPush, Label
  <2>2. /\ Count(Putting)' = Count(Putting)
        /\ Count(Announcing)' = Count(Announcing)
        /\ Count(Taking)' = Count(Taking)
        /\ Count(Freeing)' = Count(Freeing)
    BY <1>0, <1>a, <2>1, GroupsChange DEF Putting, Announcing, Taking, Freeing
  <2>3. /\ freeSlots' = freeSlots /\ readyTasks' = readyTasks
        /\ UNCHANGED ring
    BY <1>1 DEF MainPush, semaphores
  <2> QED
    BY <1>a, <1>b, <2>2, <2>3
<1>2. ASSUME NEW task \in Task, NEW w \in Worker, TryPush(w, task)
      PROVE  P' = P /\ InRing' = InRing /\ UNCHANGED ring
  <2>1. Goto(w, "lockProductor") /\ "lockProductor" \in Label /\ pc[w] = "run"
    BY <1>2 DEF TryPush, Label
  <2>2. /\ Count(Putting)' = Count(Putting) + 1
        /\ Count(Announcing)' = Count(Announcing)
        /\ Count(Taking)' = Count(Taking)
        /\ Count(Freeing)' = Count(Freeing)
    BY <1>0, <1>a, <2>1, GroupsChange DEF Putting, Announcing, Taking, Freeing
  <2>3. /\ freeSlots' = freeSlots - 1 /\ readyTasks' = readyTasks
        /\ UNCHANGED ring
    BY <1>2 DEF TryPush, semaphores
  <2> QED
    BY <1>a, <1>b, <2>2, <2>3
<1>3. ASSUME NEW task \in Task, NEW w \in Worker, TryPushFails(w, task)
      PROVE  P' = P /\ InRing' = InRing /\ UNCHANGED ring
  <2>1. UNCHANGED <<freeSlots, readyTasks, ring, pc>>
    BY <1>3 DEF TryPushFails, semaphores
  <2> QED
    BY <1>b, <2>1, CountSame
<1>4. ASSUME WaitFree
      PROVE  P' = P /\ InRing' = InRing /\ UNCHANGED ring
  <2>1. Goto(Main, "lockProductor") /\ "lockProductor" \in Label /\ pc[Main] = "waitFree"
    BY <1>4 DEF WaitFree, Label
  <2>2. /\ Count(Putting)' = Count(Putting) + 1
        /\ Count(Announcing)' = Count(Announcing)
        /\ Count(Taking)' = Count(Taking)
        /\ Count(Freeing)' = Count(Freeing)
    BY <1>0, <1>a, <2>1, GroupsChange DEF Putting, Announcing, Taking, Freeing
  <2>3. /\ freeSlots' = freeSlots - 1 /\ readyTasks' = readyTasks
        /\ UNCHANGED ring
    BY <1>4 DEF WaitFree, semaphores
  <2> QED
    BY <1>a, <1>b, <2>2, <2>3
<1>5. ASSUME NEW t \in Thread, LockProductor(t)
      PROVE  P' = P /\ InRing' = InRing /\ UNCHANGED ring
  <2>1. Goto(t, "put") /\ "put" \in Label /\ pc[t] = "lockProductor"
    BY <1>5 DEF LockProductor, Label
  <2>2. /\ Count(Putting)' = Count(Putting)
        /\ Count(Announcing)' = Count(Announcing)
        /\ Count(Taking)' = Count(Taking)
        /\ Count(Freeing)' = Count(Freeing)
    BY <1>0, <1>a, <2>1, GroupsChange DEF Putting, Announcing, Taking, Freeing
  <2>3. /\ freeSlots' = freeSlots /\ readyTasks' = readyTasks
        /\ UNCHANGED ring
    BY <1>5 DEF LockProductor, semaphores
  <2> QED
    BY <1>a, <1>b, <2>2, <2>3
<1>6. ASSUME NEW t \in Thread, PostReady(t)
      PROVE  P' = P /\ InRing' = InRing /\ UNCHANGED ring
  <2>0. PICK l \in {"idle", "waitReady"} : Goto(t, l)
    BY <1>6 DEF PostReady
  <2>1. l \in Label /\ pc[t] = "postReady"
    BY <1>6 DEF PostReady, Label
  <2>2. /\ Count(Putting)' = Count(Putting)
        /\ Count(Announcing)' = Count(Announcing) - 1
        /\ Count(Taking)' = Count(Taking)
        /\ Count(Freeing)' = Count(Freeing)
    BY <1>0, <1>a, <2>0, <2>1, GroupsChange DEF Putting, Announcing, Taking, Freeing
  <2>3. /\ freeSlots' = freeSlots /\ readyTasks' = readyTasks + 1
        /\ UNCHANGED ring
    BY <1>6 DEF PostReady, semaphores
  <2> QED
    BY <1>a, <1>b, <2>2, <2>3
<1>7. ASSUME NEW w \in Worker, WaitReady(w)
      PROVE  P' = P /\ InRing' = InRing /\ UNCHANGED ring
  <2>1. Goto(w, "lockConsumer") /\ "lockConsumer" \in Label /\ pc[w] = "waitReady"
    BY <1>7 DEF WaitReady, Label
  <2>2. /\ Count(Putting)' = Count(Putting)
        /\ Count(Announcing)' = Count(Announcing)
        /\ Count(Taking)' = Count(Taking) + 1
        /\ Count(Freeing)' = Count(Freeing)
    BY <1>0, <1>a, <2>1, GroupsChange DEF Putting, Announcing, Taking, Freeing
  <2>3. /\ freeSlots' = freeSlots /\ readyTasks' = readyTasks - 1
        /\ UNCHANGED ring
    BY <1>7 DEF WaitReady, semaphores
  <2> QED
    BY <1>a, <1>b, <2>2, <2>3
<1>8. ASSUME NEW w \in Worker, LockConsumer(w)
      PROVE  P' = P /\ InRing' = InRing /\ UNCHANGED ring
  <2>1. Goto(w, "take") /\ "take" \in Label /\ pc[w] = "lockConsumer"
    BY <1>8 DEF LockConsumer, Label
  <2>2. /\ Count(Putting)' = Count(Putting)
        /\ Count(Announcing)' = Count(Announcing)
        /\ Count(Taking)' = Count(Taking)
        /\ Count(Freeing)' = Count(Freeing)
    BY <1>0, <1>a, <2>1, GroupsChange DEF Putting, Announcing, Taking, Freeing
  <2>3. /\ freeSlots' = freeSlots /\ readyTasks' = readyTasks
        /\ UNCHANGED ring
    BY <1>8 DEF LockConsumer, semaphores
  <2> QED
    BY <1>a, <1>b, <2>2, <2>3
<1>9. ASSUME NEW w \in Worker, PostFree(w)
      PROVE  P' = P /\ InRing' = InRing /\ UNCHANGED ring
  <2>1. Goto(w, "run") /\ "run" \in Label /\ pc[w] = "postFree"
    BY <1>9 DEF PostFree, Label
  <2>2. /\ Count(Putting)' = Count(Putting)
        /\ Count(Announcing)' = Count(Announcing)
        /\ Count(Taking)' = Count(Taking)
        /\ Count(Freeing)' = Count(Freeing) - 1
    BY <1>0, <1>a, <2>1, GroupsChange DEF Putting, Announcing, Taking, Freeing
  <2>3. /\ freeSlots' = freeSlots + 1 /\ readyTasks' = readyTasks
        /\ UNCHANGED ring
    BY <1>9 DEF PostFree, semaphores
  <2> QED
    BY <1>a, <1>b, <2>2, <2>3
<1>10. ASSUME NEW w \in Worker, Finish(w)
      PROVE  P' = P /\ InRing' = InRing /\ UNCHANGED ring
  <2>1. Goto(w, "waitReady") /\ "waitReady" \in Label /\ pc[w] = "run"
    BY <1>10 DEF Finish, Label
  <2>2. /\ Count(Putting)' = Count(Putting)
        /\ Count(Announcing)' = Count(Announcing)
        /\ Count(Taking)' = Count(Taking)
        /\ Count(Freeing)' = Count(Freeing)
    BY <1>0, <1>a, <2>1, GroupsChange DEF Putting, Announcing, Taking, Freeing
  <2>3. /\ freeSlots' = freeSlots /\ readyTasks' = readyTasks
        /\ UNCHANGED ring
    BY <1>10 DEF Finish, semaphores
  <2> QED
    BY <1>a, <1>b, <2>2, <2>3
<1>11. ASSUME UNCHANGED vars PROVE P' = P /\ InRing' = InRing /\ UNCHANGED ring
  <2>1. UNCHANGED <<freeSlots, readyTasks, ring, pc>>
    BY <1>11 DEF vars, semaphores
  <2> QED
    BY <1>b, <2>1, CountSame
<1> QED
  BY <1>1, <1>2, <1>3, <1>4, <1>5, <1>6, <1>7, <1>8, <1>9, <1>10, <1>11
  DEF Next, PoolStep, WorkerStep

\* What the permits give: neither side is ever on a slot the other works on.
LEMMA PermitsPreventRaces ==
  TypeOK /\ MutexesHeld /\ PermitsMatchSlots => NoSlotRace /\ FindsATask
<1> SUFFICES ASSUME TypeOK, MutexesHeld, PermitsMatchSlots
             PROVE  NoSlotRace /\ FindsATask
  OBVIOUS
<1>1. /\ Capacity \in Nat \ {0} /\ freeSlots \in Nat /\ readyTasks \in Nat
      /\ consumerPos \in Slot /\ 0 \in Slot /\ RingSlot(0) = consumerPos
  BY PoolConstants DEF TypeOK, Slot, RingSlot
<1>2. ASSUME NEW u \in Thread, pc[u] = "take" PROVE InRing >= 1
  <2>1. Count(Taking) >= 1
    BY <1>2, CountType DEF Taking
  <2> QED
    BY <1>1, <2>1, InRingIs, CountTypes
<1>3. ASSUME NEW t \in Thread, pc[t] = "put"
      PROVE  InRing \in Slot /\ productorPos = RingSlot(InRing)
  <2>1. Count(Putting) >= 1
    BY <1>3, CountType DEF Putting
  <2>2. InRing < Capacity
    BY <1>1, <2>1, InRingIs, InRingType, CountTypes
  <2> QED
    BY <1>1, <2>2, InRingIs, InRingType DEF Slot
<1>4. FindsATask
  <2> SUFFICES ASSUME NEW w \in Worker, pc[w] = "take" PROVE queue[consumerPos] # NoTask
    BY DEF FindsATask
  <2>1. InRing >= 1
    BY <1>2 DEF Thread
  <2> QED
    BY <1>1, <2>1, InRingIs, InRingType
<1>5. ASSUME NEW t \in Thread, NEW u \in Thread, pc[t] = "put", pc[u] = "take"
      PROVE  productorPos # consumerPos
  <2>1. InRing \in Slot /\ InRing # 0 /\ productorPos = RingSlot(InRing)
    BY <1>1, <1>2, <1>3, <1>5 DEF Slot
  <2> QED
    BY <1>1, <2>1, RingSlotType
<1> QED
  BY <1>4, <1>5 DEF NoSlotRace, MutexesHeld

Inv == TypeOK /\ MutexesHeld /\ HasTask /\ PermitsMatchSlots

LEMMA NextInv == Inv /\ [Next]_vars => Inv'
<1> SUFFICES ASSUME Inv, [Next]_vars PROVE Inv'
  OBVIOUS
<1>1. TypeOK' /\ MutexesHeld' /\ HasTask'
  BY PermitsPreventRaces, NextTypeOK, NextLocal DEF Inv
<1>2. PermitsMatchSlots'
  BY PutPermits, TakePermits, OtherPermits DEF Inv, Thread
<1> QED
  BY <1>1, <1>2 DEF Inv

\* The inductive invariant of the pool.
THEOREM Invariance == Spec => []Inv
<1>1. Init => Inv
  BY InitTypeOK, InitLocal, InitPermits DEF Inv
<1> QED
  BY <1>1, NextInv, PTL DEF Spec

\* The ring, the positions and the semaphores keep their types.
THEOREM TypeCorrect == Spec => []TypeOK
BY Invariance, PTL DEF Inv

\* Every slot is accounted for by one permit and the tasks are consecutive.
THEOREM PermitsAreRight == Spec => []PermitsMatchSlots
BY Invariance, PTL DEF Inv

\* No two threads work on one slot, whatever the number of workers and slots.
THEOREM RaceFreedom == Spec => []NoSlotRace
BY Invariance, PermitsPreventRaces, PTL DEF Inv

-----------------------------------------------------------------------------
(* A task enters the ring once                                             *)

Producing == {"waitFree"} \cup Putting

\* A task on its way into the ring exists nowhere else, and everything that is
\* or was in the ring has been created: a new task is like none of them.
EntersOnce ==
  /\ served \subseteq created
  /\ \A i \in Slot : queue[i] \in Task => queue[i] \in created
  /\ \A t \in Thread : hand[t] \in Task => hand[t] \in created
  /\ \A t \in Thread : pc[t] \in Producing =>
       /\ hand[t] \notin served
       /\ \A i \in Slot : queue[i] # hand[t]
       /\ \A u \in Thread : u # t => hand[u] # hand[t]

LEMMA InitEntersOnce == Init => EntersOnce
BY PoolConstants DEF Init, EntersOnce, Producing, Putting

LEMMA NextEntersOnce == Inv /\ EntersOnce /\ [Next]_vars => EntersOnce'
<1> SUFFICES ASSUME Inv, EntersOnce, [Next]_vars PROVE EntersOnce'
  OBVIOUS
<1> USE PoolConstants DEF EntersOnce, TypeOK, Producing, Putting, Goto, Hold,
                          ring, history
<1>0. /\ Main \in Thread /\ Worker \subseteq Thread
      /\ TypeOK /\ HasTask /\ FindsATask
  BY PermitsPreventRaces DEF Inv, Thread
<1>1. ASSUME NEW task \in Task, NEW t \in Thread, NEW l \in Label, Create(task),
             Hold(t, task), Goto(t, l), UNCHANGED ring
      PROVE  EntersOnce'
  BY <1>0, <1>1 DEF Create, HasTask
<1>2. ASSUME NEW task \in Task, NEW w \in Worker, TryPushFails(w, task)
      PROVE  EntersOnce'
  BY <1>0, <1>2 DEF TryPushFails, Create, HasTask
<1>3. ASSUME NEW t \in Thread, Put(t) PROVE EntersOnce'
  <2>1. hand[t] \in Task /\ hand[t] \in created /\ pc[t] \in Producing
    BY <1>0, <1>3 DEF Put, HasTask
  <2>2. \A u \in Thread : u # t => hand'[u] = hand[u] /\ pc'[u] = pc[u]
    BY <1>0, <1>3 DEF Put
  <2>3. hand'[t] = NoTask /\ pc'[t] = "postReady"
    BY <1>0, <1>3 DEF Put
  <2>4. \A i \in Slot : queue'[i] = queue[i] \/ queue'[i] = hand[t]
    BY <1>0, <1>3 DEF Put
  <2>5. served' = served /\ created' = created
    BY <1>3 DEF Put
  <2> QED
    BY <1>0, <2>1, <2>2, <2>3, <2>4, <2>5 DEF HasTask
<1>4. ASSUME NEW w \in Worker, Take(w) PROVE EntersOnce'
  <2>1. queue[consumerPos] \in Task /\ queue[consumerPos] \in created
    BY <1>0, <1>4 DEF Take, FindsATask
  <2>2. \A u \in Thread : u # w => hand'[u] = hand[u] /\ pc'[u] = pc[u]
    BY <1>0, <1>4 DEF Take
  <2>3. hand'[w] = queue[consumerPos] /\ pc'[w] = "postFree"
    BY <1>0, <1>4 DEF Take
  <2>4. \A i \in Slot : queue'[i] = queue[i] \/ queue'[i] = NoTask
    BY <1>0, <1>4 DEF Take
  <2>5. served' = served \cup {queue[consumerPos]} /\ created' = created
    BY <1>4 DEF Take
  <2> QED
    BY <1>0, <2>1, <2>2, <2>3, <2>4, <2>5 DEF HasTask
<1>5. ASSUME NEW w \in Worker, Finish(w) PROVE EntersOnce'
  BY <1>0, <1>5 DEF Finish, HasTask
<1>6. ASSUME NEW t \in Thread, LockProductor(t) \/ PostReady(t) PROVE EntersOnce'
  BY <1>0, <1>6 DEF LockProductor, PostReady
<1>7. ASSUME WaitFree PROVE EntersOnce'
  BY <1>0, <1>7 DEF WaitFree
<1>8. ASSUME NEW w \in Worker, WaitReady(w) \/ LockConsumer(w) \/ PostFree(w)
      PROVE  EntersOnce'
  BY <1>0, <1>8 DEF WaitReady, LockConsumer, PostFree
<1>9. ASSUME UNCHANGED vars PROVE EntersOnce'
  BY <1>9 DEF vars
<1>10. "waitFree" \in Label /\ "lockProductor" \in Label
  BY DEF Label
<1> QED
  BY <1>0, <1>1, <1>2, <1>3, <1>4, <1>5, <1>6, <1>7, <1>8, <1>9, <1>10
  DEF Next, PoolStep, WorkerStep, MainPush, TryPush

-----------------------------------------------------------------------------
(* The ring is a queue                                                     *)

\* The sequence the refinement maps the ring to.
RingTasks == [k \in 1 .. InRing |-> queue[RingSlot(k - 1)]]

LEMMA RingTasksType ==
  ASSUME Inv
  PROVE  /\ RingTasks \in Seq(Task)
         /\ Len(RingTasks) = InRing
         /\ InRing \in 0 .. Capacity
<1>1. InRing \in 0 .. Capacity
  BY InRingIs, InRingType, CountTypes, PoolConstants DEF Inv, TypeOK
<1>2. \A k \in 1 .. InRing : queue[RingSlot(k - 1)] \in Task
  <2> TAKE k \in 1 .. InRing
  <2>1. k - 1 \in Slot /\ k - 1 < InRing
    BY <1>1, PoolConstants DEF Slot
  <2>2. RingSlot(k - 1) \in Slot
    BY <2>1, RingSlotType DEF Inv, TypeOK
  <2>3. queue[RingSlot(k - 1)] # NoTask
    BY <2>1, InRingIs DEF Inv
  <2> QED
    BY <2>2, <2>3 DEF Inv, TypeOK
<1>3. RingTasks \in Seq(Task)
  BY <1>1, <1>2, IsASeq DEF RingTasks
<1>4. DOMAIN RingTasks = 1 .. InRing
  BY DEF RingTasks
<1> QED
  BY <1>1, <1>3, <1>4, LenProperties

\* A task is in the sequence only if it is in a slot.
LEMMA RingTasksAreInSlots ==
  ASSUME Inv, NEW k \in DOMAIN RingTasks
  PROVE  \E i \in Slot : RingTasks[k] = queue[i]
<1>1. k \in 1 .. InRing /\ InRing \in 0 .. Capacity
  BY RingTasksType DEF RingTasks
<1>2. k - 1 \in Slot
  BY <1>1, PoolConstants DEF Slot
<1> QED
  BY <1>1, <1>2, RingSlotType DEF RingTasks, Inv, TypeOK

LEMMA PutIsPut ==
  ASSUME Inv, Inv', EntersOnce, NEW t \in Thread, Put(t)
  PROVE  Queue!Put(hand[t]) /\ hand[t] \in Task
<1>1. pc[t] = "put" /\ hand[t] \in Task
  BY DEF Put, Inv, HasTask, Putting
<1>2. /\ InRing < Capacity
      /\ InRing' = InRing + 1
  BY PutPermits DEF Inv
<1>3. InRing \in Slot /\ InRing \in Nat /\ Capacity \in Nat
  BY <1>2, InRingType, PoolConstants DEF Inv, Slot
<1>4. productorPos = RingSlot(InRing) /\ consumerPos' = consumerPos
  BY <1>2, InRingIs DEF Inv, Put
<1>5. /\ RingTasks \in Seq(Task) /\ Len(RingTasks) = InRing
      /\ Append(RingTasks, hand[t]) \in Seq(Task)
      /\ Len(Append(RingTasks, hand[t])) = InRing + 1
      /\ \A k \in 1 .. InRing : Append(RingTasks, hand[t])[k] = RingTasks[k]
      /\ Append(RingTasks, hand[t])[InRing + 1] = hand[t]
  BY <1>1, RingTasksType, AppendProperties
<1>6. /\ RingTasks' \in Seq(Task) /\ Len(RingTasks') = InRing + 1
      /\ \A k \in 1 .. InRing + 1 : RingTasks'[k] = queue'[RingSlot(k - 1)]
  <2>1. (RingTasks \in Seq(Task) /\ Len(RingTasks) = InRing)'
    BY RingTasksType, PTL
  <2> QED
    BY <1>2, <1>4, <2>1 DEF RingTasks, RingSlot
<1>7. \A k \in 1 .. InRing + 1 : RingTasks'[k] = Append(RingTasks, hand[t])[k]
  <2> TAKE k \in 1 .. InRing + 1
  <2>1. k - 1 \in Slot /\ RingSlot(k - 1) \in Slot
    BY <1>3, RingSlotType DEF Slot, Inv, TypeOK
  <2>2. CASE k = InRing + 1
    <3>1. k - 1 = InRing
      BY <1>3, <2>2 DEF Slot
    <3> QED
      BY <1>4, <1>5, <1>6, <2>1, <2>2, <3>1 DEF Put, Inv, TypeOK
  <2>3. CASE k \in 1 .. InRing
    <3>1. RingSlot(k - 1) # RingSlot(InRing)
      BY <1>3, <2>1, <2>3, RingSlotType DEF Slot, Inv, TypeOK
    <3>2. queue'[RingSlot(k - 1)] = queue[RingSlot(k - 1)]
      BY <1>4, <2>1, <3>1 DEF Put, Inv, TypeOK
    <3> QED
      BY <1>5, <1>6, <2>3, <3>2 DEF RingTasks
  <2>4. k = InRing + 1 \/ k \in 1 .. InRing
    BY <1>3
  <2> QED
    BY <2>2, <2>3, <2>4
<1>8. RingTasks' = Append(RingTasks, hand[t])
  BY <1>5, <1>6, <1>7, SeqEqual
<1>9. ~\E k \in DOMAIN RingTasks : RingTasks[k] = hand[t]
  BY <1>1, RingTasksAreInSlots DEF EntersOnce, Producing, Putting
<1>10. hand[t] \notin served /\ served' = served
  BY <1>1 DEF EntersOnce, Producing, Putting, Put, history
<1> QED
  BY <1>1, <1>2, <1>5, <1>8, <1>9, <1>10 DEF Queue!Put, Queue!InQueue, RingTasks

LEMMA TakeIsTake ==
  ASSUME Inv, Inv', NEW w \in Worker, Take(w)
  PROVE  Queue!Take
<1>1. /\ InRing >= 1
      /\ InRing' = InRing - 1
      /\ \A k \in Slot : k + 1 \in Slot => RingSlot(k)' = RingSlot(k + 1)
  BY TakePermits DEF Inv, Thread
<1>2. InRing \in 1 .. Capacity /\ Capacity \in Nat \ {0}
  BY <1>1, RingTasksType, PoolConstants
<1>3. RingTasks \in Seq(Task) /\ Len(RingTasks) = InRing /\ RingTasks # << >>
  BY <1>2, RingTasksType, EmptySeq
<1>4. /\ Tail(RingTasks) \in Seq(Task)
      /\ Len(Tail(RingTasks)) = InRing - 1
      /\ \A k \in 1 .. InRing - 1 : Tail(RingTasks)[k] = RingTasks[k + 1]
  BY <1>3, HeadTailProperties
<1>5. (RingTasks \in Seq(Task) /\ Len(RingTasks) = InRing)'
  BY RingTasksType, PTL
<1>6. consumerPos \in Slot /\ RingSlot(0) = consumerPos /\ 0 \in Slot
  BY PoolConstants DEF Inv, TypeOK, RingSlot, Slot
<1>7. \A k \in 1 .. InRing - 1 : RingTasks'[k] = Tail(RingTasks)[k]
  <2> TAKE k \in 1 .. InRing - 1
  <2>1. k - 1 \in Slot /\ k \in Slot /\ (k - 1) + 1 = k
    BY <1>2 DEF Slot
  <2>2. RingSlot(k - 1)' = RingSlot(k)
    BY <1>1, <2>1
  <2>3. RingTasks'[k] = queue'[RingSlot(k - 1)']
    BY <1>1, <1>2 DEF RingTasks
  <2>4. RingSlot(k) # consumerPos
    BY <1>2, <1>6, <2>1, RingSlotType DEF Slot
  <2>5. RingSlot(k) \in Slot
    BY <1>6, <2>1, RingSlotType
  <2>6. queue'[RingSlot(k)] = queue[RingSlot(k)]
    BY <1>6, <2>4, <2>5 DEF Take, Inv, TypeOK
  <2>7. RingTasks[k + 1] = queue[RingSlot(k)]
    BY <1>2 DEF RingTasks
  <2> QED
    BY <1>4, <2>2, <2>3, <2>6, <2>7
<1>8. RingTasks' = Tail(RingTasks)
  BY <1>1, <1>4, <1>5, <1>7, SeqEqual
<1>9. Head(RingTasks) = queue[consumerPos]
  <2>1. RingTasks[1] = queue[consumerPos]
    BY <1>2, <1>6 DEF RingTasks
  <2> QED
    BY <1>3, <2>1
<1> QED
  BY <1>3, <1>8, <1>9 DEF Queue!Take, RingTasks, Take

LEMMA NextQueue ==
  Inv /\ Inv' /\ EntersOnce /\ [Next]_vars => [Queue!Next]_(Queue!vars)
<1> SUFFICES ASSUME Inv, Inv', EntersOnce, [Next]_vars
             PROVE  [Queue!Next]_(Queue!vars)
  OBVIOUS
<1>1. ASSUME \A t \in Thread : ~Put(t), \A w \in Worker : ~Take(w)
      PROVE  UNCHANGED Queue!vars
  <2>1. InRing' = InRing /\ UNCHANGED ring
    BY <1>1, OtherPermits DEF Inv
  <2>2. served' = served
    BY <1>1 DEF Next, PoolStep, WorkerStep, MainPush, TryPush, TryPushFails, Create,
                WaitFree, LockProductor, PostReady, WaitReady, LockConsumer, PostFree,
                Finish, vars, history
  <2> QED
    BY <2>1, <2>2 DEF Queue!vars, ring, RingSlot
<1> QED
  BY <1>1, PutIsPut, TakeIsTake DEF Queue!Next

LEMMA InitQueue == Init => Queue!Init
<1> SUFFICES ASSUME Init PROVE Queue!Init
  OBVIOUS
<1>1. Inv
  BY InitTypeOK, InitLocal, InitPermits DEF Inv
<1>2. InRing = 0
  <2>1. queue[RingSlot(0)] = NoTask /\ 0 \in Slot
    BY PoolConstants DEF Init, RingSlot, Slot
  <2>2. ~(0 < InRing)
    BY <1>1, <2>1, InRingIs DEF Inv
  <2> QED
    BY <1>1, <2>2, InRingType DEF Inv
<1>3. RingTasks = << >>
  BY <1>1, <1>2, RingTasksType, EmptySeq
<1> QED
  BY <1>3 DEF Queue!Init, RingTasks, Init

\* Tasks leave the ring in the order in which they entered it, each once, and
\* there are never more of them than slots.
THEOREM PoolImplementsQueue == Spec => ImplementsQueue
<1>1. Spec => []EntersOnce
  BY InitEntersOnce, NextEntersOnce, Invariance, PTL DEF Spec
<1> QED
  BY <1>1, InitQueue, NextQueue, Invariance, PTL DEF Spec, ImplementsQueue, Queue!Spec
=============================================================================
