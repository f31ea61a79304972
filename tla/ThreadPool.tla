---------------------------- MODULE ThreadPool -----------------------------
(***************************************************************************)
(* src/ThreadPool.hpp: a ring of task slots between producers and worker   *)
(* threads, with one semaphore counting free slots, one counting ready     *)
(* tasks, and a mutex on each side.  The two sides share no lock: only the *)
(* semaphores keep them off each other's slots.                            *)
(*                                                                         *)
(* Producers are the main thread (push, which blocks) and the workers      *)
(* themselves (try_push, at the end of a task that has more to do).        *)
(* Semaphore operations, taking a mutex and the body it protects are       *)
(* separate steps; the end of a body gives the mutex back.                 *)
(***************************************************************************)
EXTENDS Integers, Sequences, FiniteSets

CONSTANTS
  Worker,    \* _worker_threads
  Main,      \* the thread that runs the server loop
  Task,      \* tasks; no two std::function objects are the same task
  Capacity,  \* _task_queue_capacity
  NoTask,    \* Task(), an empty std::function
  Nobody     \* an unlocked mutex

Thread == Worker \cup {Main}

Slot == 0 .. Capacity - 1

ASSUME PoolConstants ==
  /\ Capacity \in Nat \ {0}
  /\ IsFiniteSet(Worker)
  /\ Main \notin Worker
  /\ NoTask \notin Task
  /\ Nobody \notin Thread

VARIABLES
  queue,           \* _task_queue
  productorPos,    \* _productor_pos
  consumerPos,     \* _consumer_pos
  freeSlots,       \* _free_slots
  readyTasks,      \* _ready_tasks
  productorMutex,  \* who holds _productor_mutex
  consumerMutex,   \* who holds _consumer_mutex
  pc,              \* where each thread is
  hand,            \* the task a thread is about to queue, has taken or runs
  created,         \* history: the tasks that exist so far
  served           \* history: the tasks taken out of the ring

ring == <<queue, productorPos, consumerPos>>
semaphores == <<freeSlots, readyTasks>>
mutexes == <<productorMutex, consumerMutex>>
history == <<created, served>>
vars == <<ring, semaphores, mutexes, pc, hand, history>>

Goto(t, label) == pc' = [pc EXCEPT ![t] = label]

Hold(t, task) == hand' = [hand EXCEPT ![t] = task]

Create(task) ==
  /\ task \notin created
  /\ created' = created \cup {task}
  /\ UNCHANGED served

\* _pos++ and, before the mutex is released, _pos %= _task_queue_capacity
After(pos) == (pos + 1) % Capacity

-----------------------------------------------------------------------------
(* Producers                                                               *)

\* push: the main thread has a task
MainPush(task) ==
  /\ pc[Main] = "idle"
  /\ Create(task)
  /\ Hold(Main, task)
  /\ Goto(Main, "waitFree")
  /\ UNCHANGED <<ring, semaphores, mutexes>>

\* push: sem_wait(&_free_slots)
WaitFree ==
  /\ pc[Main] = "waitFree" /\ freeSlots > 0
  /\ freeSlots' = freeSlots - 1
  /\ Goto(Main, "lockProductor")
  /\ UNCHANGED <<ring, readyTasks, mutexes, hand, history>>

\* try_push, sem_trywait succeeds.  Calling it is the last thing a task does,
\* so the worker's hand passes from the task that ends to its successor.
TryPush(w, task) ==
  /\ pc[w] = "run" /\ freeSlots > 0
  /\ Create(task)
  /\ freeSlots' = freeSlots - 1
  /\ Hold(w, task)
  /\ Goto(w, "lockProductor")
  /\ UNCHANGED <<ring, readyTasks, mutexes>>

\* try_push, sem_trywait fails: the caller runs the successor itself
TryPushFails(w, task) ==
  /\ pc[w] = "run" /\ freeSlots = 0
  /\ Create(task)
  /\ Hold(w, task)
  /\ UNCHANGED <<ring, semaphores, mutexes, pc>>

\* Mutant: the producers' mutex is not taken
EnterProductor(t) ==
  /\ pc[t] = "lockProductor"
  /\ productorMutex' = t
  /\ Goto(t, "put")
  /\ UNCHANGED <<ring, semaphores, consumerMutex, hand, history>>

LockProductor(t) ==
  /\ pc[t] = "lockProductor" /\ productorMutex = Nobody
  /\ productorMutex' = t
  /\ Goto(t, "put")
  /\ UNCHANGED <<ring, semaphores, consumerMutex, hand, history>>

\* Mutant: the position is not wrapped
PutNoWrap(t) ==
  /\ pc[t] = "put"
  /\ queue' = [queue EXCEPT ![productorPos] = hand[t]]
  /\ productorPos' = productorPos + 1
  /\ productorMutex' = Nobody
  /\ Hold(t, NoTask)
  /\ Goto(t, "postReady")
  /\ UNCHANGED <<consumerPos, semaphores, consumerMutex, history>>

Put(t) ==
  /\ pc[t] = "put"
  /\ queue' = [queue EXCEPT ![productorPos] = hand[t]]
  /\ productorPos' = After(productorPos)
  /\ productorMutex' = Nobody
  /\ Hold(t, NoTask)
  /\ Goto(t, "postReady")
  /\ UNCHANGED <<consumerPos, semaphores, consumerMutex, history>>

\* Mutant: the waiting workers are not told
ForgetPostReady(t) ==
  /\ pc[t] = "postReady"
  /\ Goto(t, IF t = Main THEN "idle" ELSE "waitReady")
  /\ UNCHANGED <<ring, semaphores, mutexes, hand, history>>

\* sem_post(&_ready_tasks); the main thread goes on, a worker's task is over
PostReady(t) ==
  /\ pc[t] = "postReady"
  /\ readyTasks' = readyTasks + 1
  /\ Goto(t, IF t = Main THEN "idle" ELSE "waitReady")
  /\ UNCHANGED <<ring, freeSlots, mutexes, hand, history>>

-----------------------------------------------------------------------------
(* Workers: ThreadRUN                                                      *)

WaitReady(w) ==
  /\ pc[w] = "waitReady" /\ readyTasks > 0
  /\ readyTasks' = readyTasks - 1
  /\ Goto(w, "lockConsumer")
  /\ UNCHANGED <<ring, freeSlots, mutexes, hand, history>>

\* Mutant: the slot is given back before its task is taken
TakeAndPost(w) ==
  /\ pc[w] = "lockConsumer" /\ consumerMutex = Nobody
  /\ consumerMutex' = w
  /\ freeSlots' = freeSlots + 1
  /\ Goto(w, "take")
  /\ UNCHANGED <<ring, readyTasks, productorMutex, hand, history>>

LockConsumer(w) ==
  /\ pc[w] = "lockConsumer" /\ consumerMutex = Nobody
  /\ consumerMutex' = w
  /\ Goto(w, "take")
  /\ UNCHANGED <<ring, semaphores, productorMutex, hand, history>>

Take(w) ==
  /\ pc[w] = "take"
  /\ Hold(w, queue[consumerPos])
  /\ queue' = [queue EXCEPT ![consumerPos] = NoTask]
  /\ consumerPos' = After(consumerPos)
  /\ consumerMutex' = Nobody
  /\ served' = served \cup {queue[consumerPos]}
  /\ Goto(w, "postFree")
  /\ UNCHANGED <<productorPos, semaphores, productorMutex, created>>

\* Mutant: the slot is given back twice
PostFreeTwice(w) ==
  /\ pc[w] = "postFree"
  /\ freeSlots' = freeSlots + 2
  /\ Goto(w, "run")
  /\ UNCHANGED <<ring, readyTasks, mutexes, hand, history>>

\* sem_post(&_free_slots)
PostFree(w) ==
  /\ pc[w] = "postFree"
  /\ freeSlots' = freeSlots + 1
  /\ Goto(w, "run")
  /\ UNCHANGED <<ring, readyTasks, mutexes, hand, history>>

\* task() returns and has no successor
Finish(w) ==
  /\ pc[w] = "run"
  /\ Hold(w, NoTask)
  /\ Goto(w, "waitReady")
  /\ UNCHANGED <<ring, semaphores, mutexes, history>>

-----------------------------------------------------------------------------

Init ==
  /\ queue = [i \in Slot |-> NoTask]
  /\ productorPos = 0
  /\ consumerPos = 0
  /\ freeSlots = Capacity
  /\ readyTasks = 0
  /\ productorMutex = Nobody
  /\ consumerMutex = Nobody
  /\ pc = [t \in Thread |-> IF t = Main THEN "idle" ELSE "waitReady"]
  /\ hand = [t \in Thread |-> NoTask]
  /\ created = {}
  /\ served = {}

\* What a thread does inside the pool
PoolStep(t) == LockProductor(t) \/ Put(t) \/ PostReady(t)

WorkerStep(w) ==
  WaitReady(w) \/ LockConsumer(w) \/ Take(w) \/ PostFree(w) \/ Finish(w)

Next ==
  \/ \E task \in Task :
       \/ MainPush(task)
       \/ \E w \in Worker : TryPush(w, task) \/ TryPushFails(w, task)
  \/ WaitFree
  \/ \E t \in Thread : PoolStep(t)
  \/ \E w \in Worker : WorkerStep(w)

\* Threads are scheduled and tasks return; nobody has to create a task
Fairness ==
  /\ \A t \in Thread : WF_vars(PoolStep(t))
  /\ \A w \in Worker : WF_vars(WorkerStep(w))

Spec == Init /\ [][Next]_vars /\ Fairness

-----------------------------------------------------------------------------
(* Properties                                                              *)

Label ==
  {"idle", "waitFree", "lockProductor", "put", "postReady",
   "waitReady", "lockConsumer", "take", "postFree", "run"}

TypeOK ==
  /\ queue \in [Slot -> Task \cup {NoTask}]
  /\ productorPos \in Slot
  /\ consumerPos \in Slot
  /\ freeSlots \in Nat
  /\ readyTasks \in Nat
  /\ productorMutex \in Thread \cup {Nobody}
  /\ consumerMutex \in Thread \cup {Nobody}
  /\ pc \in [Thread -> Label]
  /\ hand \in [Thread -> Task \cup {NoTask}]
  /\ created \subseteq Task
  /\ served \subseteq Task

\* Two threads never work on one slot: neither two producers nor two workers
\* are in their critical sections together, and when a producer and a worker
\* are, which no mutex prevents, their positions differ.
NoSlotRace ==
  \A t, u \in Thread :
    /\ pc[t] = "put" /\ pc[u] = "put" => t = u
    /\ pc[t] = "take" /\ pc[u] = "take" => t = u
    /\ pc[t] = "put" /\ pc[u] = "take" => productorPos # consumerPos

Count(labels) == Cardinality({t \in Thread : pc[t] \in labels})

\* The number of tasks in the ring: announced by readyTasks, not announced yet,
\* or promised to a worker that has not taken its task yet
InRing == readyTasks + Count({"postReady"}) + Count({"lockConsumer", "take"})

\* The slot of the k-th task from the consumers' end
RingSlot(k) ==
  IF consumerPos + k < Capacity THEN consumerPos + k ELSE consumerPos + k - Capacity

\* Every slot is accounted for by exactly one permit, and the tasks lie in
\* consecutive slots from _consumer_pos on, with no gap: a worker whose wait
\* succeeds always finds a task, and a producer always finds an empty slot.
PermitsMatchSlots ==
  /\ freeSlots + Count({"lockProductor", "put"}) + Count({"postFree"}) + InRing = Capacity
  /\ \A k \in Slot : queue[RingSlot(k)] # NoTask <=> k < InRing
  /\ InRing < Capacity => productorPos = RingSlot(InRing)
  /\ InRing = Capacity => productorPos = consumerPos

Queue == INSTANCE TaskQueue WITH
  queued <- [k \in 1 .. InRing |-> queue[RingSlot(k - 1)]]

\* The ring is a bounded first-in-first-out queue: tasks leave it in the order
\* in which they were put there, and none is lost, repeated or overwritten.
ImplementsQueue == Queue!Spec

\* A task that is in the ring is some day taken by a worker.
QueuedTaskIsServed ==
  \A task \in Task : (\E i \in Slot : queue[i] = task) ~> task \in served
=============================================================================
