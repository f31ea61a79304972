--------------------------- MODULE ReactorProofs ---------------------------
(***************************************************************************)
(* Safety of Reactor for any number of connections, workers, descriptors   *)
(* and requests, and any sizes of ring, pipe, socket and reads.  The       *)
(* invariant is built in layers, each inductive relative to the ones       *)
(* before it: types with the registry of descriptors, where connections in *)
(* use are named, and the number of tasks of a connection, counted in the  *)
(* workers, in the ring and in the hand of the main thread.                *)
(***************************************************************************)
EXTENDS Reactor, SequenceTheorems, FiniteSetTheorems, FunctionTheorems, TLAPS

-----------------------------------------------------------------------------
(* Facts about the operators                                               *)

LEMMA MinOfTwo ==
  ASSUME NEW a \in Nat, NEW b \in Nat
  PROVE  Min({a, b}) = IF a <= b THEN a ELSE b
<1> DEFINE m == IF a <= b THEN a ELSE b
<1>1. m \in {a, b} /\ \A y \in {a, b} : m <= y
  OBVIOUS
<1>2. \A x \in {a, b} : (\A y \in {a, b} : x <= y) => x = m
  OBVIOUS
<1> HIDE DEF m
<1>3. Min({a, b}) = m
  BY <1>1, <1>2 DEF Min
<1> QED
  BY <1>3 DEF m

\* A chunk and what it leaves.
LEMMA Split ==
  ASSUME NEW S, NEW s \in Seq(S), NEW k \in 0 .. Len(s)
  PROVE  /\ SubSeq(s, 1, k) \in Seq(S) /\ Len(SubSeq(s, 1, k)) = k
         /\ SubSeq(s, k + 1, Len(s)) \in Seq(S)
         /\ Len(SubSeq(s, k + 1, Len(s))) = Len(s) - k
         /\ \A i \in 1 .. k : SubSeq(s, 1, k)[i] = s[i]
         /\ \A i \in 1 .. Len(s) - k : SubSeq(s, k + 1, Len(s))[i] = s[k + i]
<1>1. Len(s) \in Nat /\ \A i \in 1 .. Len(s) : s[i] \in S
  BY ElementOfSeq, LenProperties
<1>2. \A i \in 1 .. k : s[i] \in S
  BY <1>1
<1>3. \A i \in k + 1 .. Len(s) : s[i] \in S
  BY <1>1
<1>4. /\ SubSeq(s, 1, k) \in Seq(S)
      /\ Len(SubSeq(s, 1, k)) = IF 1 <= k THEN k - 1 + 1 ELSE 0
      /\ \A i \in 1 .. k - 1 + 1 : SubSeq(s, 1, k)[i] = s[1 + i - 1]
  BY <1>2, SubSeqProperties, 1 \in Int, k \in Int
<1>5. /\ SubSeq(s, k + 1, Len(s)) \in Seq(S)
      /\ Len(SubSeq(s, k + 1, Len(s))) =
           IF k + 1 <= Len(s) THEN Len(s) - (k + 1) + 1 ELSE 0
      /\ \A i \in 1 .. Len(s) - (k + 1) + 1 :
           SubSeq(s, k + 1, Len(s))[i] = s[k + 1 + i - 1]
  BY <1>1, <1>3, SubSeqProperties, k + 1 \in Int, Len(s) \in Int
<1> QED
  BY <1>1, <1>4, <1>5

\* What is left of a request buffer is a sequence of its pieces.
LEMMA LeftIsASequence ==
  ASSUME ConnectionTypeOK, PoolTypeOK, NEW w \in Worker, NEW c \in Conn
  PROVE  LeftOf(w, c) \in Seq(RequestPiece)
<1> DEFINE b == buffer[c]
           t == worker[w].took
<1>1. b \in Seq(RequestPiece) /\ t \in Nat
  BY DEF ConnectionTypeOK, PoolTypeOK, WorkerState
<1>2. Len(b) \in Nat /\ \A i \in 1 .. Len(b) : b[i] \in RequestPiece
  BY <1>1, ElementOfSeq, LenProperties
<1>3. \A i \in t + 1 .. Len(b) : b[i] \in RequestPiece
  BY <1>1, <1>2
<1> HIDE DEF b, t
<1>4. SubSeq(b, t + 1, Len(b)) \in Seq(RequestPiece)
  BY <1>1, <1>2, <1>3, SubSeqProperties
<1> QED
  BY <1>4 DEF LeftOf, b, t

-----------------------------------------------------------------------------
(* Types, and where connections are named                                  *)

InUse(c) == c \in Conn /\ socket[c] = "open"

\* Tasks, notifications and the main thread name connections in use, and a
\* worker is at a step of the task it has.
NamesInUse ==
  /\ pushing # None => InUse(pushing)
  /\ \A i \in 1 .. Len(queue) : InUse(queue[i].c)
  /\ \A w \in Worker :
       /\ IF worker[w].pc = "idle" THEN worker[w].c = None ELSE InUse(worker[w].c)
       /\ worker[w].pc = "send" => worker[w].task # Handler
       /\ worker[w].pc = "parse" => worker[w].task = Handler /\ worker[w].took = 0
  /\ \A i \in 1 .. Len(pipe) :
       \E c \in Conn : socket[c] = "open" /\ pipe[i].id = identifier[c]
  /\ \A i \in 1 .. Len(notes) :
       \E c \in Conn : socket[c] = "open" /\ notes[i].id = identifier[c]
  /\ IF main.pc \in {"read", "write"}
     THEN InUse(main.c) /\ ~isClosed[main.c]
     ELSE main.c = None /\ ~main.out

\* A socket never holds more than it has room for.
SocketsHold == \A c \in Conn : Len(outbox[c]) <= SocketRoom

\* Only a connection that was accepted is closed.
ClosedWasOpen == \A c \in Conn : isClosed[c] => socket[c] = "open"

Base == TypeOK /\ NamesInUse /\ SocketsHold /\ ClosedWasOpen

LEMMA InitBase == Init => Base
<1> SUFFICES ASSUME Init PROVE Base
  OBVIOUS
<1>1. ConnectionTypeOK
  BY ConnectionConstants, EmptySeq DEF Init, ConnectionTypeOK, Identifier
<1>2. PoolTypeOK
  BY ConnectionConstants, EmptySeq DEF Init, PoolTypeOK, Idle, WorkerState, Task
<1>3. NetworkTypeOK
  BY EmptySeq DEF Init, NetworkTypeOK
<1>4. ServerTypeOK
  <2>1. 0 \in 0 .. UseTimes - 1
    BY ReactorConstants
  <2> QED
    BY <2>1, EmptySeq DEF Init, ServerTypeOK
<1>5. RegistryOK
  BY DEF Init, RegistryOK
<1>6. NamesInUse
  BY EmptySeq DEF Init, NamesInUse, Idle
<1>7. SocketsHold
  BY EmptySeq, ReactorConstants DEF Init, SocketsHold
<1>8. ClosedWasOpen
  BY DEF Init, ClosedWasOpen
<1> QED
  BY <1>1, <1>2, <1>3, <1>4, <1>5, <1>6, <1>7, <1>8 DEF Base, TypeOK

\* One notification more.
LEMMA NotifyTypes ==
  ASSUME Base, NEW c, InUse(c), NEW op \in {"w", "c"}, Notify(op, c)
  PROVE  /\ pipe' \in Seq(Notification) /\ Len(pipe') <= PipeCapacity
         /\ Len(pipe') = Len(pipe) + 1
         /\ \A i \in 1 .. Len(pipe) : pipe'[i] = pipe[i]
         /\ pipe'[Len(pipe')] = [op |-> op, id |-> identifier[c]]
<1>1. pipe \in Seq(Notification) /\ Len(pipe) \in Nat
  BY LenProperties DEF Base, TypeOK, PoolTypeOK
<1>2. [op |-> op, id |-> identifier[c]] \in Notification
  BY DEF Base, TypeOK, ConnectionTypeOK, InUse, Notification
<1>3. PipeCapacity \in Nat
  BY ConnectionConstants
<1> QED
  BY <1>1, <1>2, <1>3, AppendProperties DEF Notify

\* One task more in the ring.
LEMMA QueueTypes ==
  ASSUME Base, Len(queue) < RingCapacity, NEW t \in [task : Task, c : Conn],
         queue' = Append(queue, t)
  PROVE  /\ queue' \in Seq([task : Task, c : Conn]) /\ Len(queue') <= RingCapacity
         /\ Len(queue') = Len(queue) + 1
         /\ \A i \in 1 .. Len(queue) : queue'[i] = queue[i]
         /\ queue'[Len(queue')] = t
<1>1. queue \in Seq([task : Task, c : Conn]) /\ Len(queue) \in Nat
  BY LenProperties DEF Base, TypeOK, PoolTypeOK
<1>3. RingCapacity \in Nat
  BY ConnectionConstants
<1> QED
  BY <1>1, <1>3, AppendProperties

-----------------------------------------------------------------------------
(* Base is kept by the steps of a worker                                   *)

LEMMA TakeBase ==
  ASSUME Base, NEW w \in Worker, Take(w), UNCHANGED <<socket, notes, main>>
  PROVE  ConnectionTypeOK' /\ PoolTypeOK' /\ NamesInUse'
<1> DEFINE T == [task : Task, c : Conn]
           t == Head(queue)
<1>1. queue \in Seq(T) /\ queue # << >> /\ Len(queue) <= RingCapacity
  BY DEF Base, TypeOK, PoolTypeOK, Take
<1>2. /\ t \in T /\ t = queue[1] /\ Len(queue) \in Nat \ {0}
      /\ queue' = Tail(queue) /\ queue' \in Seq(T) /\ Len(queue') = Len(queue) - 1
      /\ \A i \in 1 .. Len(queue') : queue'[i] = queue[i + 1]
  <2>1. t \in T /\ Tail(queue) \in Seq(T) /\ Len(Tail(queue)) = Len(queue) - 1
    BY <1>1, HeadTailProperties
  <2>2. \A i \in 1 .. Len(Tail(queue)) : Tail(queue)[i] = queue[i + 1]
    BY <1>1, HeadTailProperties
  <2>3. Len(queue) \in Nat \ {0} /\ queue' = Tail(queue)
    BY <1>1, EmptySeq DEF Take
  <2>4. t = queue[1]
    BY <1>1
  <2> QED
    BY <2>1, <2>2, <2>3, <2>4
<1>3. InUse(t.c) /\ \A i \in 1 .. Len(queue) : InUse(queue[i].c)
  BY <1>2 DEF Base, NamesInUse
<1>4. \/ worker' = [worker EXCEPT ![w] = Idle] /\ UNCHANGED subTask
      \/ /\ subTask' = [subTask EXCEPT ![t.c] = None]
         /\ worker' = [worker EXCEPT ![w] =
              [pc |-> IF t.task = Handler THEN "parse" ELSE "send",
               c |-> t.c, task |-> t.task, took |-> 0]]
  BY DEF Take, Begin, Rest
<1>5. UNCHANGED <<body, identifier, isClosed, buffer, processing, response,
                  pushing, pipe, asked, raced, socket, notes, main>>
  BY DEF Take, history
<1>6. Idle \in WorkerState /\ Idle.pc = "idle" /\ Idle.c = None
  BY DEF Idle, WorkerState, Task
<1> HIDE DEF t, T
<1>7. t.c \in Conn /\ t.task \in Task
  BY <1>2 DEF T
<1>8. ConnectionTypeOK'
  BY <1>4, <1>5, <1>7 DEF Base, TypeOK, ConnectionTypeOK
<1>9. PoolTypeOK'
  <2>0. [pc |-> IF t.task = Handler THEN "parse" ELSE "send",
         c |-> t.c, task |-> t.task, took |-> 0] \in WorkerState
    BY <1>7 DEF WorkerState
  <2>1. worker' \in [Worker -> WorkerState]
    BY <1>4, <1>6, <2>0 DEF Base, TypeOK, PoolTypeOK
  <2>2. Len(queue') <= RingCapacity
    BY <1>1, <1>2, ConnectionConstants
  <2> QED
    BY <1>2, <1>5, <2>1, <2>2 DEF Base, TypeOK, PoolTypeOK, T
<1>10. NamesInUse'
  <2>1. \A i \in 1 .. Len(queue') : InUse(queue'[i].c)
    BY <1>2, <1>3
  <2>2. \A u \in Worker :
          /\ IF worker'[u].pc = "idle" THEN worker'[u].c = None ELSE InUse(worker'[u].c)
          /\ worker'[u].pc = "send" => worker'[u].task # Handler
          /\ worker'[u].pc = "parse" => worker'[u].task = Handler /\ worker'[u].took = 0
    <3>1. \A u \in Worker \ {w} : worker'[u] = worker[u]
      BY <1>4 DEF Base, TypeOK, PoolTypeOK
    <3>2. \/ worker'[w] = Idle
          \/ worker'[w] = [pc |-> IF t.task = Handler THEN "parse" ELSE "send",
                           c |-> t.c, task |-> t.task, took |-> 0]
      BY <1>4 DEF Base, TypeOK, PoolTypeOK
    <3>3. t.c \in Conn /\ t.c # None
      BY <1>7, ConnectionConstants
    <3>4. ASSUME NEW u \in Worker \ {w} PROVE <2>2!(u)
      BY <3>1, <3>4 DEF Base, NamesInUse
    <3>5. <2>2!(w)
      BY <1>3, <1>6, <3>2
    <3> QED
      BY <3>4, <3>5
  <2> QED
    BY <1>5, <2>1, <2>2 DEF Base, NamesInUse, InUse
<1> QED
  BY <1>8, <1>9, <1>10

\* What a step of worker w that keeps to its connection has to satisfy.
LEMMA WorkerNames ==
  ASSUME Base, NEW w \in Worker, NEW s \in WorkerState,
         worker' = [worker EXCEPT ![w] = s],
         s.pc = "idle" => s.c = None,
         s.pc # "idle" => InUse(s.c),
         s.pc = "send" => s.task # Handler,
         s.pc = "parse" => s.task = Handler /\ s.took = 0,
         \/ UNCHANGED pipe
         \/ \E op \in {"w", "c"}, c \in Conn : InUse(c) /\ Notify(op, c),
         \/ UNCHANGED queue
         \/ \E t \in [task : Task, c : Conn] :
              InUse(t.c) /\ Len(queue) < RingCapacity /\ queue' = Append(queue, t),
         UNCHANGED <<pushing, identifier, isClosed, socket, notes, main>>
  PROVE  /\ NamesInUse'
         /\ worker' \in [Worker -> WorkerState]
         /\ pipe' \in Seq(Notification) /\ Len(pipe') <= PipeCapacity
         /\ queue' \in Seq([task : Task, c : Conn]) /\ Len(queue') <= RingCapacity
<1>1. worker' \in [Worker -> WorkerState]
  BY DEF Base, TypeOK, PoolTypeOK
<1> DEFINE
      QueueOK ==
        /\ queue' \in Seq([task : Task, c : Conn]) /\ Len(queue') <= RingCapacity
        /\ \A i \in 1 .. Len(queue') : InUse(queue'[i].c)
      PipeOK ==
        /\ pipe' \in Seq(Notification) /\ Len(pipe') <= PipeCapacity
        /\ \A i \in 1 .. Len(pipe') :
             \E c \in Conn : socket[c] = "open" /\ pipe'[i].id = identifier[c]
<1>2. QueueOK
  <2>1. CASE UNCHANGED queue
    BY <2>1 DEF Base, TypeOK, PoolTypeOK, NamesInUse
  <2>2. ASSUME NEW t \in [task : Task, c : Conn], InUse(t.c),
               Len(queue) < RingCapacity, queue' = Append(queue, t)
        PROVE  QueueOK
    <3>0. Len(queue) \in Nat
      BY LenProperties DEF Base, TypeOK, PoolTypeOK
    <3>1. /\ queue' \in Seq([task : Task, c : Conn]) /\ Len(queue') <= RingCapacity
          /\ Len(queue') = Len(queue) + 1
          /\ \A i \in 1 .. Len(queue) : queue'[i] = queue[i]
          /\ queue'[Len(queue')] = t
      BY <2>2, QueueTypes
    <3>2. \A i \in 1 .. Len(queue) : InUse(queue[i].c)
      BY DEF Base, NamesInUse
    <3>3. \A i \in 1 .. Len(queue') : InUse(queue'[i].c)
      BY <2>2, <3>0, <3>1, <3>2
    <3> QED
      BY <3>1, <3>3
  <2> QED
    BY <2>1, <2>2
<1>3. PipeOK
  <2>1. CASE UNCHANGED pipe
    BY <2>1 DEF Base, TypeOK, PoolTypeOK, NamesInUse
  <2>2. ASSUME NEW op \in {"w", "c"}, NEW c \in Conn, InUse(c), Notify(op, c)
        PROVE  PipeOK
    <3>0. Len(pipe) \in Nat
      BY LenProperties DEF Base, TypeOK, PoolTypeOK
    <3>1. /\ pipe' \in Seq(Notification) /\ Len(pipe') <= PipeCapacity
          /\ Len(pipe') = Len(pipe) + 1
          /\ \A i \in 1 .. Len(pipe) : pipe'[i] = pipe[i]
          /\ pipe'[Len(pipe')] = [op |-> op, id |-> identifier[c]]
      BY <2>2, NotifyTypes
    <3>2. \A i \in 1 .. Len(pipe) :
            \E d \in Conn : socket[d] = "open" /\ pipe[i].id = identifier[d]
      BY DEF Base, NamesInUse
    <3>3. \A i \in 1 .. Len(pipe') :
            \E d \in Conn : socket[d] = "open" /\ pipe'[i].id = identifier[d]
      BY <2>2, <3>0, <3>1, <3>2 DEF InUse
    <3> QED
      BY <3>1, <3>3
  <2> QED
    BY <2>1, <2>2
<1>4. \A u \in Worker :
        /\ IF worker'[u].pc = "idle" THEN worker'[u].c = None ELSE InUse(worker'[u].c)
        /\ worker'[u].pc = "send" => worker'[u].task # Handler
        /\ worker'[u].pc = "parse" => worker'[u].task = Handler /\ worker'[u].took = 0
  <2>1. worker'[w] = s /\ \A u \in Worker \ {w} : worker'[u] = worker[u]
    BY DEF Base, TypeOK, PoolTypeOK
  <2> QED
    BY <2>1 DEF Base, NamesInUse
<1>5. NamesInUse'
  BY <1>2, <1>3, <1>4 DEF Base, NamesInUse, InUse
<1> QED
  BY <1>1, <1>2, <1>3, <1>5

\* A worker at work, and where it goes.
LEMMA AtWork ==
  ASSUME Base, NEW w \in Worker, worker[w].pc # "idle"
  PROVE  worker[w] \in WorkerState /\ InUse(worker[w].c)
BY DEF Base, TypeOK, PoolTypeOK, NamesInUse

Labels == {"idle", "parse", "send", "notify", "finish", "leave", "chain"}

LEMMA GotoIs ==
  ASSUME Base, NEW w \in Worker, NEW label \in Labels, Goto(w, label)
  PROVE  \E s \in WorkerState :
           /\ worker' = [worker EXCEPT ![w] = s]
           /\ s.pc = label /\ s.c = worker[w].c
           /\ s.task = worker[w].task /\ s.took = worker[w].took
<1> DEFINE s == [worker[w] EXCEPT !.pc = label]
<1>1. worker[w] \in WorkerState
  BY DEF Base, TypeOK, PoolTypeOK
<1>2. /\ s \in WorkerState /\ s.pc = label /\ s.c = worker[w].c
      /\ s.task = worker[w].task /\ s.took = worker[w].took
  BY <1>1 DEF WorkerState, Labels
<1>3. worker' = [worker EXCEPT ![w] = s]
  BY DEF Goto
<1> QED
  BY <1>2, <1>3

LEMMA TookIs ==
  ASSUME Base, NEW w \in Worker, NEW label \in Labels, NEW n \in Nat, Took(w, label, n)
  PROVE  \E s \in WorkerState :
           /\ worker' = [worker EXCEPT ![w] = s]
           /\ s.pc = label /\ s.c = worker[w].c
           /\ s.task = worker[w].task /\ s.took = n
<1> DEFINE s == [worker[w] EXCEPT !.pc = label, !.took = n]
<1>1. worker[w] \in WorkerState
  BY DEF Base, TypeOK, PoolTypeOK
<1>2. /\ s \in WorkerState /\ s.pc = label /\ s.c = worker[w].c
      /\ s.task = worker[w].task /\ s.took = n
  BY <1>1 DEF WorkerState, Labels
<1>3. worker' = [worker EXCEPT ![w] = s]
  BY DEF Took
<1> QED
  BY <1>2, <1>3

LEMMA IdleIs ==
  /\ Idle \in WorkerState /\ Idle.pc = "idle" /\ Idle.c = None
  /\ Idle.task = Handler /\ Idle.took = 0
BY DEF Idle, WorkerState, Task

\* What a worker looks at.
LEMMA HandledIs ==
  ASSUME Base, NEW c \in Conn
  PROVE  /\ \E n \in 0 .. Len(buffer[c]) : Handled(c) = 1 .. n
         /\ \A i \in Handled(c) : i \in Nat /\ i \in 1 .. Len(buffer[c])
         /\ \A i \in Handled(c) : buffer[c][i] \in RequestPiece
         /\ Cardinality(Handled(c)) \in 0 .. Len(buffer[c])
<1>1. buffer[c] \in Seq(RequestPiece) /\ Len(buffer[c]) \in Nat
  BY LenProperties DEF Base, TypeOK, ConnectionTypeOK
<1>2. HandleSize \in Nat
  BY ConnectionConstants
<1> DEFINE n == Min({Len(buffer[c]), HandleSize})
<1>3. n \in 0 .. Len(buffer[c]) /\ Handled(c) = 1 .. n
  BY <1>1, <1>2, MinOfTwo DEF Handled
<1> HIDE DEF n
<1>4. Cardinality(1 .. n) = n
  BY <1>3, FS_Interval
<1>5. \A i \in 1 .. Len(buffer[c]) : buffer[c][i] \in RequestPiece
  BY <1>1, ElementOfSeq
<1> QED
  BY <1>1, <1>3, <1>4, <1>5

LEMMA ParseOnBase ==
  ASSUME Base, NEW w \in Worker, NEW c \in Conn, ParseOn(w, c),
         UNCHANGED <<socket, notes, main>>
  PROVE  ConnectionTypeOK' /\ PoolTypeOK' /\ NamesInUse'
<1>1. worker[w].pc # "idle" /\ InUse(worker[w].c)
  BY AtWork DEF ParseOn, At
<1>2. Cardinality(Handled(c)) \in Nat
  BY HandledIs, LenProperties DEF Base, TypeOK, ConnectionTypeOK
<1>3. PICK s \in WorkerState :
        worker' = [worker EXCEPT ![w] = s] /\ s.pc = "finish" /\ s.c = worker[w].c
  BY <1>2, TookIs DEF ParseOn, Labels
<1>4. UNCHANGED <<connection, pushing, queue, pipe, asked, raced>>
  BY DEF ParseOn, history
<1>5. ConnectionTypeOK'
  BY <1>4 DEF Base, TypeOK, ConnectionTypeOK, connection
<1>6. NamesInUse' /\ worker' \in [Worker -> WorkerState]
  BY <1>1, <1>3, <1>4, WorkerNames DEF connection
<1> QED
  BY <1>4, <1>5, <1>6 DEF Base, TypeOK, PoolTypeOK

\* AskToClose and NotifyResponse name a connection in use.
LEMMA ParseBase ==
  ASSUME Base, NEW w \in Worker, NEW c \in Conn, Parse(w, c),
         UNCHANGED <<socket, notes, main>>
  PROVE  ConnectionTypeOK' /\ PoolTypeOK' /\ NamesInUse'
<1>0. PICK end \in Ends(c) : Parse(w, c)!(end)
  BY DEF Parse
<1> DEFINE r == buffer[c][end].request
           kind == body[c][r].kind
<1>1. worker[w].c = c /\ InUse(c)
  BY <1>0, AtWork DEF At
<1>2. end \in Nat /\ r \in Nat \ {0}
  BY <1>0, HandledIs DEF Ends, RequestPiece
<1>3. UNCHANGED <<body, identifier, isClosed, buffer, processing, pushing,
                  queue, raced>>
  BY <1>0
<1>4. \/ /\ kind = "malformed" /\ AskToClose(c) /\ Rest(w)
         /\ UNCHANGED <<response, subTask>>
      \/ /\ subTask' = [subTask EXCEPT ![c] = IF kind = "download" THEN SendFile(r, 1) ELSE @]
         /\ Respond(c, r, 0)
         /\ UNCHANGED <<pipe, asked>> \/ AskToClose(c)
         /\ Took(w, "notify", end)
  BY <1>0
<1> HIDE DEF r, kind
<1>5. SendFile(r, 1) \in Task
  BY <1>2 DEF SendFile, Task
<1>6. subTask' \in [Conn -> Task \cup {None}]
  BY <1>4, <1>5 DEF Base, TypeOK, ConnectionTypeOK
<1>7. response' \in [Conn -> Seq(AnswerPiece)]
  <2>1. <<r, 0>> \in AnswerPiece /\ response \in [Conn -> Seq(AnswerPiece)]
    BY <1>2 DEF AnswerPiece, Base, TypeOK, ConnectionTypeOK
  <2>2. Append(response[c], <<r, 0>>) \in Seq(AnswerPiece)
    BY <2>1, AppendProperties
  <2> QED
    BY <1>4, <2>1, <2>2 DEF Respond
<1>8. ConnectionTypeOK'
  BY <1>3, <1>6, <1>7 DEF Base, TypeOK, ConnectionTypeOK
<1>9. PICK s \in WorkerState :
        /\ worker' = [worker EXCEPT ![w] = s]
        /\ \/ s.pc = "idle" /\ s.c = None
           \/ s.pc = "notify" /\ s.c = c
  BY <1>1, <1>2, <1>4, TookIs, IdleIs DEF Rest, Labels
<1>10. asked' \subseteq Conn
  BY <1>4 DEF AskToClose, Base, TypeOK, PoolTypeOK
<1>11. UNCHANGED pipe \/ Notify("c", c)
  BY <1>4 DEF AskToClose
<1>12. /\ NamesInUse' /\ worker' \in [Worker -> WorkerState]
       /\ pipe' \in Seq(Notification) /\ Len(pipe') <= PipeCapacity
  BY <1>1, <1>3, <1>9, <1>11, WorkerNames
<1> QED
  BY <1>3, <1>8, <1>10, <1>12 DEF Base, TypeOK, PoolTypeOK

LEMMA AppendPieceBase ==
  ASSUME Base, NEW w \in Worker, NEW c \in Conn, AppendPiece(w, c),
         UNCHANGED <<socket, notes, main>>
  PROVE  ConnectionTypeOK' /\ PoolTypeOK' /\ NamesInUse'
<1> DEFINE r == worker[w].task[2]
           k == worker[w].task[3]
<1>1. worker[w].c = c /\ InUse(c) /\ worker[w].pc = "send"
  BY AtWork DEF At, AppendPiece
<1>2. r \in Nat \ {0} /\ k \in Nat \ {0}
  BY <1>1, AtWork DEF Base, NamesInUse, WorkerState, Task
<1>3. UNCHANGED <<body, identifier, isClosed, buffer, processing, subTask,
                  pushing, queue, raced>>
  BY DEF AppendPiece
<1>4. \/ Goto(w, "finish") /\ UNCHANGED <<response, pipe, asked>>
      \/ Respond(c, r, k) /\ Goto(w, "notify") /\ UNCHANGED <<pipe, asked>>
      \/ AskToClose(c) /\ Rest(w) /\ UNCHANGED response
  BY DEF AppendPiece
<1> HIDE DEF r, k
<1>7. response' \in [Conn -> Seq(AnswerPiece)]
  <2>1. <<r, k>> \in AnswerPiece /\ response \in [Conn -> Seq(AnswerPiece)]
    BY <1>2 DEF AnswerPiece, Base, TypeOK, ConnectionTypeOK
  <2>2. Append(response[c], <<r, k>>) \in Seq(AnswerPiece)
    BY <2>1, AppendProperties
  <2> QED
    BY <1>4, <2>1, <2>2 DEF Respond
<1>8. ConnectionTypeOK'
  BY <1>3, <1>7 DEF Base, TypeOK, ConnectionTypeOK
<1>9. PICK s \in WorkerState :
        /\ worker' = [worker EXCEPT ![w] = s]
        /\ \/ s.pc = "idle" /\ s.c = None
           \/ s.pc \in {"notify", "finish"} /\ s.c = c
  BY <1>1, <1>4, GotoIs, IdleIs DEF Rest, Labels
<1>10. asked' \subseteq Conn
  BY <1>4 DEF AskToClose, Base, TypeOK, PoolTypeOK
<1>11. UNCHANGED pipe \/ Notify("c", c)
  BY <1>4 DEF AskToClose
<1>12. /\ NamesInUse' /\ worker' \in [Worker -> WorkerState]
       /\ pipe' \in Seq(Notification) /\ Len(pipe') <= PipeCapacity
  BY <1>1, <1>3, <1>9, <1>11, WorkerNames
<1> QED
  BY <1>3, <1>8, <1>10, <1>12 DEF Base, TypeOK, PoolTypeOK

LEMMA NotifyResponseBase ==
  ASSUME Base, NEW w \in Worker, NEW c \in Conn, NotifyResponse(w, c),
         UNCHANGED <<socket, notes, main>>
  PROVE  ConnectionTypeOK' /\ PoolTypeOK' /\ NamesInUse'
<1> DEFINE task == worker[w].task
<1>1. worker[w].c = c /\ InUse(c) /\ task \in Task
  BY AtWork DEF At, NotifyResponse, WorkerState
<1>3. UNCHANGED <<body, identifier, isClosed, buffer, processing, response,
                  pushing, queue, asked, raced>>
  BY DEF NotifyResponse, history
<1>4. /\ Notify("w", c) /\ Goto(w, "finish")
      /\ subTask' = [subTask EXCEPT ![c] = NextPiece(c, task)]
  BY DEF NotifyResponse
<1> HIDE DEF task
<1>5. NextPiece(c, task) \in Task \cup {None}
  <2>1. subTask[c] \in Task \cup {None}
    BY DEF Base, TypeOK, ConnectionTypeOK
  <2>2. task # Handler => SendFile(task[2], task[3] + 1) \in Task
    BY <1>1 DEF Task, SendFile
  <2> QED
    BY <2>1, <2>2 DEF NextPiece
<1>8. ConnectionTypeOK'
  BY <1>3, <1>4, <1>5 DEF Base, TypeOK, ConnectionTypeOK
<1>9. PICK s \in WorkerState :
        worker' = [worker EXCEPT ![w] = s] /\ s.pc = "finish" /\ s.c = c
  BY <1>1, <1>4, GotoIs DEF Labels
<1>12. /\ NamesInUse' /\ worker' \in [Worker -> WorkerState]
       /\ pipe' \in Seq(Notification) /\ Len(pipe') <= PipeCapacity
  BY <1>1, <1>3, <1>4, <1>9, WorkerNames
<1> QED
  BY <1>3, <1>8, <1>12 DEF Base, TypeOK, PoolTypeOK

\* The ways in which a chain goes on with t.
LEMMA ChainIs ==
  ASSUME Base, NEW w \in Worker, NEW t \in [task : Task, c : Conn], InUse(t.c),
         Chain(w, t)
  PROVE  \E s \in WorkerState :
           /\ worker' = [worker EXCEPT ![w] = s]
           /\ \/ /\ s = Idle /\ Len(queue) < RingCapacity
                 /\ queue' = Append(queue, t)
                 /\ subTask' = [subTask EXCEPT ![t.c] = t.task]
              \/ /\ s = Idle /\ isClosed[t.c]
                 /\ subTask' = [subTask EXCEPT ![t.c] = t.task]
                 /\ UNCHANGED queue
              \/ /\ s = [pc |-> IF t.task = Handler THEN "parse" ELSE "send",
                         c |-> t.c, task |-> t.task, took |-> 0]
                 /\ subTask' = [subTask EXCEPT ![t.c] = None]
                 /\ UNCHANGED queue
<1>1. [pc |-> IF t.task = Handler THEN "parse" ELSE "send",
       c |-> t.c, task |-> t.task, took |-> 0] \in WorkerState
  BY DEF WorkerState
<1> QED
  BY <1>1, IdleIs DEF Chain, Begin, Rest

LEMMA SuccessorType ==
  ASSUME Base, NEW c \in Conn, NEW left, Successor(c, left) # None
  PROVE  [task |-> Successor(c, left), c |-> c] \in [task : Task, c : Conn]
BY DEF Base, TypeOK, ConnectionTypeOK, Successor, Task

LEMMA FinishBase ==
  ASSUME Base, NEW w \in Worker, NEW c \in Conn, Finish(w, c),
         UNCHANGED <<socket, notes, main>>
  PROVE  ConnectionTypeOK' /\ PoolTypeOK' /\ NamesInUse'
<1> DEFINE left == LeftOf(w, c)
           next == Successor(c, left)
           t == [task |-> next, c |-> c]
<1>1. worker[w].c = c /\ InUse(c)
  BY AtWork DEF At, Finish
<1>2. left \in Seq(RequestPiece)
  BY LeftIsASequence DEF Base, TypeOK
<1>3. UNCHANGED <<body, identifier, isClosed, response, pushing, pipe, asked, raced>>
  BY DEF Finish, history
<1>4. /\ buffer' = [buffer EXCEPT ![c] = left]
      /\ \/ /\ processing' = [processing EXCEPT ![c] = FALSE]
            /\ Goto(w, "leave") /\ UNCHANGED <<subTask, queue>>
         \/ next # None /\ Chain(w, t) /\ UNCHANGED processing
  BY DEF Finish
<1>5. next # None => t \in [task : Task, c : Conn] /\ next \in Task
  BY SuccessorType
<1> HIDE DEF left, next
<1>6. PICK s \in WorkerState :
        /\ worker' = [worker EXCEPT ![w] = s]
        /\ \/ s.pc = "leave" /\ s.c = c
           \/ s.pc = "idle" /\ s.c = None
           \/ /\ s.pc = (IF s.task = Handler THEN "parse" ELSE "send")
              /\ s.c = c /\ s.took = 0
        /\ \/ UNCHANGED queue
           \/ next # None /\ Len(queue) < RingCapacity /\ queue' = Append(queue, t)
        /\ \/ UNCHANGED subTask
           \/ next # None /\ subTask' = [subTask EXCEPT ![c] = next]
           \/ subTask' = [subTask EXCEPT ![c] = None]
  <2>1. CASE Goto(w, "leave") /\ UNCHANGED <<subTask, queue>>
    BY <1>1, <2>1, GotoIs DEF Labels
  <2>2. CASE next # None /\ Chain(w, t)
    BY <1>1, <1>5, <2>2, ChainIs, IdleIs
  <2> QED
    BY <1>4, <2>1, <2>2
<1>7. ConnectionTypeOK'
  BY <1>2, <1>3, <1>4, <1>5, <1>6 DEF Base, TypeOK, ConnectionTypeOK
<1>8. UNCHANGED queue \/ \E u \in [task : Task, c : Conn] :
        InUse(u.c) /\ Len(queue) < RingCapacity /\ queue' = Append(queue, u)
  BY <1>1, <1>5, <1>6
<1>9. /\ NamesInUse' /\ worker' \in [Worker -> WorkerState]
      /\ queue' \in Seq([task : Task, c : Conn]) /\ Len(queue') <= RingCapacity
  BY <1>1, <1>3, <1>6, <1>8, WorkerNames
<1> QED
  BY <1>3, <1>7, <1>9 DEF Base, TypeOK, PoolTypeOK

LEMMA LeaveBase ==
  ASSUME Base, NEW w \in Worker, NEW c \in Conn, Leave(w, c) \/ Abandon(w),
         UNCHANGED <<socket, notes, main>>
  PROVE  ConnectionTypeOK' /\ PoolTypeOK' /\ NamesInUse'
<1>1. PICK s \in WorkerState :
        /\ worker' = [worker EXCEPT ![w] = s]
        /\ \/ s.pc = "idle" /\ s.c = None
           \/ s.pc = "chain" /\ s.c = c /\ InUse(c)
  <2>1. CASE Leave(w, c)
    <3>1. worker[w].c = c /\ InUse(c)
      BY <2>1, AtWork DEF At, Leave
    <3> QED
      BY <2>1, <3>1, GotoIs, IdleIs DEF Leave, Rest, Labels
  <2>2. CASE Abandon(w)
    BY <2>2, IdleIs DEF Abandon, Rest
  <2> QED
    BY <2>1, <2>2
<1>2. UNCHANGED <<connection, pushing, queue, pipe, asked>> /\ raced' \subseteq Conn
  BY DEF Leave, Abandon, history, Base, TypeOK, PoolTypeOK
<1>3. ConnectionTypeOK'
  BY <1>2 DEF Base, TypeOK, ConnectionTypeOK, connection
<1>4. NamesInUse' /\ worker' \in [Worker -> WorkerState]
  BY <1>1, <1>2, WorkerNames DEF connection
<1> QED
  BY <1>2, <1>3, <1>4 DEF Base, TypeOK, PoolTypeOK

LEMMA PoolStepBase ==
  ASSUME Base, NEW w \in Worker, PoolStep(w)
  PROVE  Base'
<1>1. UNCHANGED <<socket, notes, main>>
  BY DEF PoolStep, network
<1>2. ConnectionTypeOK' /\ PoolTypeOK' /\ NamesInUse'
  <2>0. WorkerStep(w)
    BY DEF PoolStep
  <2>1. CASE Take(w)
    BY <1>1, <2>1, TakeBase
  <2>2. ASSUME NEW c \in Conn, ParseOn(w, c) \/ Parse(w, c)
        PROVE  ConnectionTypeOK' /\ PoolTypeOK' /\ NamesInUse'
    BY <1>1, <2>2, ParseOnBase, ParseBase
  <2>3. ASSUME NEW c \in Conn, AppendPiece(w, c) \/ NotifyResponse(w, c)
        PROVE  ConnectionTypeOK' /\ PoolTypeOK' /\ NamesInUse'
    BY <1>1, <2>3, AppendPieceBase, NotifyResponseBase
  <2>4. ASSUME NEW c \in Conn, Finish(w, c) \/ Leave(w, c)
        PROVE  ConnectionTypeOK' /\ PoolTypeOK' /\ NamesInUse'
    BY <1>1, <2>4, FinishBase, LeaveBase
  <2>5. CASE Abandon(w)
    <3>1. PICK c \in Conn : TRUE
      BY <2>5 DEF Abandon, Base, TypeOK, PoolTypeOK
    <3> QED
      BY <1>1, <2>5, <3>1, LeaveBase
  <2> QED
    BY <2>0, <2>1, <2>2, <2>3, <2>4, <2>5 DEF WorkerStep
<1>3. UNCHANGED <<network, registry, wantsOut, events, notes, main, cut, unarmed>>
      /\ (ready' = ready \/ ready' = ready \cup {PipeFd})
  BY DEF PoolStep
<1>4. NetworkTypeOK' /\ ServerTypeOK'
  BY <1>3 DEF Base, TypeOK, NetworkTypeOK, ServerTypeOK, network, client, registry
<1>5. UNCHANGED <<isClosed, identifier>>
  BY DEF PoolStep, WorkerStep, Take, Abandon, ParseOn, Parse, AppendPiece,
         NotifyResponse, Finish, Leave, connection
<1>6. RegistryOK'
  BY <1>3, <1>5 DEF Base, TypeOK, RegistryOK, Fd, network, registry
<1>7. SocketsHold'
  BY <1>3 DEF Base, SocketsHold, network
<1>8. ClosedWasOpen'
  BY <1>3, <1>5 DEF Base, ClosedWasOpen, network
<1> QED
  BY <1>2, <1>4, <1>6, <1>7, <1>8 DEF Base, TypeOK

-----------------------------------------------------------------------------
(* Base is kept by the main thread                                         *)

\* Two connections in use have different descriptors.
LEMMA FdsDiffer ==
  ASSUME Base, NEW c \in Conn, NEW d \in Conn, c # d,
         socket[c] = "open", ~isClosed[c], socket[d] = "open", ~isClosed[d]
  PROVE  Fd(c) # Fd(d)
BY DEF Base, TypeOK, RegistryOK

LEMMA ExceptBase ==
  ASSUME Base, NEW c, InUse(c), ~isClosed[c], Except(c),
         UNCHANGED <<socket, identifier, useTimes>>
  PROVE  /\ isClosed' \in [Conn -> BOOLEAN]
         /\ connections' \in [NetFd -> Conn \cup {None}]
         /\ wantsOut' \subseteq Conn /\ cut' \subseteq Conn
         /\ ready' \subseteq NetFd \cup {ListenFd, PipeFd}
         /\ RegistryOK'
<1>0. c \in Conn /\ socket[c] = "open"
  BY DEF InUse
<1>1. isClosed' = [isClosed EXCEPT ![c] = TRUE] /\ isClosed' \in [Conn -> BOOLEAN]
  BY <1>0 DEF Except, Base, TypeOK, ConnectionTypeOK
<1>2. /\ connections' = [connections EXCEPT ![Fd(c)] = None]
      /\ connections' \in [NetFd -> Conn \cup {None}]
  BY DEF Except, Base, TypeOK, ServerTypeOK
<1>3. /\ wantsOut' \subseteq Conn /\ cut' \subseteq Conn
      /\ ready' \subseteq NetFd \cup {ListenFd, PipeFd}
  BY DEF Except, Base, TypeOK, ServerTypeOK
<1>4. connections[Fd(c)] = c /\ Fd(c) \in NetFd
  BY <1>0 DEF Base, TypeOK, RegistryOK
<1>5. ASSUME NEW f \in NetFd, connections'[f] # None
      PROVE  /\ socket'[connections'[f]] = "open" /\ ~isClosed'[connections'[f]]
             /\ identifier'[connections'[f]] = [fd |-> f, use |-> useTimes'[f]]
  <2>1. f # Fd(c) /\ connections'[f] = connections[f] /\ connections[f] \in Conn
    BY <1>2, <1>5 DEF Base, TypeOK, ServerTypeOK
  <2>2. /\ socket[connections[f]] = "open" /\ ~isClosed[connections[f]]
        /\ identifier[connections[f]] = [fd |-> f, use |-> useTimes[f]]
    BY <1>5, <2>1 DEF Base, TypeOK, RegistryOK
  <2>3. connections[f] # c
    BY <2>1, <2>2 DEF Fd
  <2> QED
    BY <1>1, <2>1, <2>2, <2>3 DEF Base, TypeOK, ConnectionTypeOK
<1>6. ASSUME NEW d \in Conn, socket'[d] = "open"
      PROVE  /\ Fd(d)' \in NetFd
             /\ ~isClosed'[d] => connections'[Fd(d)'] = d
  <2>1. Fd(d)' = Fd(d) /\ Fd(d) \in NetFd /\ (~isClosed[d] => connections[Fd(d)] = d)
    BY <1>6 DEF Base, TypeOK, RegistryOK, Fd
  <2>2. ~isClosed'[d] => ~isClosed[d] /\ d # c
    BY <1>1 DEF Base, TypeOK, ConnectionTypeOK
  <2>3. d # c /\ ~isClosed[d] => Fd(d) # Fd(c)
    BY <1>4, <2>1
  <2> QED
    BY <1>2, <2>1, <2>2, <2>3 DEF Base, TypeOK, ServerTypeOK
<1>7. RegistryOK'
  BY <1>5, <1>6 DEF RegistryOK
<1> QED
  BY <1>1, <1>2, <1>3, <1>7

LEMMA WriteBase ==
  ASSUME Base, NEW c, InUse(c), ~isClosed[c], Write(c),
         UNCHANGED <<socket, identifier, useTimes>>
  PROVE  /\ isClosed' \in [Conn -> BOOLEAN]
         /\ connections' \in [NetFd -> Conn \cup {None}]
         /\ wantsOut' \subseteq Conn /\ cut' \subseteq Conn /\ unarmed' \subseteq Conn
         /\ ready' \subseteq NetFd \cup {ListenFd, PipeFd}
         /\ response' \in [Conn -> Seq(AnswerPiece)]
         /\ outbox' \in [Conn -> Seq(AnswerPiece)]
         /\ RegistryOK' /\ SocketsHold'
<1> DEFINE k == Min({Len(response[c]), SocketRoom - Len(outbox[c])})
<1>0. c \in Conn /\ socket[c] = "open" /\ Fd(c) \in NetFd
  BY DEF InUse, Base, TypeOK, RegistryOK
<1>1. /\ response[c] \in Seq(AnswerPiece) /\ outbox[c] \in Seq(AnswerPiece)
      /\ Len(response[c]) \in Nat /\ Len(outbox[c]) \in Nat
      /\ SocketRoom - Len(outbox[c]) \in Nat
  BY <1>0, LenProperties, ReactorConstants
     DEF Base, TypeOK, ConnectionTypeOK, NetworkTypeOK, SocketsHold
<1>2. k \in 0 .. Len(response[c]) /\ k <= SocketRoom - Len(outbox[c])
  BY <1>1, MinOfTwo
<1>3. \/ UNCHANGED <<isClosed, response, outbox, connections, wantsOut, ready, cut>>
         /\ (UNCHANGED unarmed \/ unarmed' = unarmed \cup {c})
      \/ Except(c) /\ UNCHANGED <<response, outbox, unarmed>>
      \/ /\ outbox' = [outbox EXCEPT ![c] = @ \o SubSeq(response[c], 1, k)]
         /\ response' = [response EXCEPT ![c] = SubSeq(@, k + 1, Len(@))]
         /\ wantsOut' = InterestAfter(c, response'[c])
         /\ ready' = IF Readable(c) THEN ready \cup {Fd(c)} ELSE ready
         /\ cut' = IF response'[c] = <<>> THEN cut \ {c} ELSE cut \cup {c}
         /\ UNCHANGED <<isClosed, connections, unarmed>>
  BY DEF Write
<1> HIDE DEF k
<1>4. CASE UNCHANGED <<isClosed, response, outbox, connections, wantsOut, ready, cut>>
           /\ (UNCHANGED unarmed \/ unarmed' = unarmed \cup {c})
  BY <1>0, <1>4 DEF Base, TypeOK, ConnectionTypeOK, NetworkTypeOK, ServerTypeOK,
                    RegistryOK, SocketsHold, Fd
<1>5. CASE Except(c) /\ UNCHANGED <<response, outbox, unarmed>>
  <2>1. /\ isClosed' \in [Conn -> BOOLEAN]
        /\ connections' \in [NetFd -> Conn \cup {None}]
        /\ wantsOut' \subseteq Conn /\ cut' \subseteq Conn
        /\ ready' \subseteq NetFd \cup {ListenFd, PipeFd}
        /\ RegistryOK'
    BY <1>5, ExceptBase
  <2> QED
    BY <1>5, <2>1 DEF Base, TypeOK, ConnectionTypeOK, NetworkTypeOK, ServerTypeOK,
                      SocketsHold
<1>6. CASE <1>3!3
  <2>1. /\ SubSeq(response[c], 1, k) \in Seq(AnswerPiece)
        /\ Len(SubSeq(response[c], 1, k)) = k
        /\ SubSeq(response[c], k + 1, Len(response[c])) \in Seq(AnswerPiece)
    BY <1>1, <1>2, Split
  <2>2. /\ outbox[c] \o SubSeq(response[c], 1, k) \in Seq(AnswerPiece)
        /\ Len(outbox[c] \o SubSeq(response[c], 1, k)) = Len(outbox[c]) + k
    BY <1>1, <2>1, ConcatProperties
  <2>3. response' \in [Conn -> Seq(AnswerPiece)] /\ outbox' \in [Conn -> Seq(AnswerPiece)]
    BY <1>6, <2>1, <2>2 DEF Base, TypeOK, ConnectionTypeOK, NetworkTypeOK
  <2>4. SocketsHold'
    <3>1. Len(outbox'[c]) <= SocketRoom
      BY <1>0, <1>1, <1>2, <1>6, <2>2, ReactorConstants DEF Base, TypeOK, NetworkTypeOK
    <3>2. \A d \in Conn \ {c} : outbox'[d] = outbox[d]
      BY <1>6 DEF Base, TypeOK, NetworkTypeOK
    <3> QED
      BY <3>1, <3>2 DEF Base, SocketsHold
  <2>5. /\ wantsOut' \subseteq Conn /\ cut' \subseteq Conn /\ unarmed' \subseteq Conn
        /\ ready' \subseteq NetFd \cup {ListenFd, PipeFd}
    BY <1>0, <1>6 DEF InterestAfter, Base, TypeOK, ServerTypeOK
  <2>6. RegistryOK'
    BY <1>6 DEF Base, TypeOK, RegistryOK, Fd
  <2> QED
    BY <1>6, <2>3, <2>4, <2>5, <2>6 DEF Base, TypeOK, ConnectionTypeOK, ServerTypeOK
<1> QED
  BY <1>3, <1>4, <1>5, <1>6

\* What a step that leaves the workers alone has to satisfy.
LEMMA NamesKept ==
  ASSUME Base, UNCHANGED worker,
         \A c \in Conn : socket[c] = "open" =>
           socket'[c] = "open" /\ identifier'[c] = identifier[c],
         UNCHANGED pushing \/ pushing' = None \/ InUse(pushing'),
         UNCHANGED queue \/ \A i \in 1 .. Len(queue') : InUse(queue'[i].c),
         UNCHANGED pipe \/ pipe' = <<>>,
         \A i \in 1 .. Len(notes') :
           \E c \in Conn : socket[c] = "open" /\ notes'[i].id = identifier[c],
         IF main'.pc \in {"read", "write"}
         THEN main'.c \in Conn /\ socket'[main'.c] = "open" /\ ~isClosed'[main'.c]
         ELSE main'.c = None /\ ~main'.out
  PROVE  NamesInUse'
<1>1. pushing' # None => pushing' \in Conn /\ socket'[pushing'] = "open"
  BY DEF Base, NamesInUse, InUse
<1>2. \A i \in 1 .. Len(queue') : queue'[i].c \in Conn /\ socket'[queue'[i].c] = "open"
  BY DEF Base, NamesInUse, InUse
<1>3. \A w \in Worker :
        /\ IF worker'[w].pc = "idle" THEN worker'[w].c = None
           ELSE worker'[w].c \in Conn /\ socket'[worker'[w].c] = "open"
        /\ worker'[w].pc = "send" => worker'[w].task # Handler
        /\ worker'[w].pc = "parse" => worker'[w].task = Handler /\ worker'[w].took = 0
  BY DEF Base, NamesInUse, InUse
<1>4. \A i \in 1 .. Len(pipe') :
        \E c \in Conn : socket'[c] = "open" /\ pipe'[i].id = identifier'[c]
  <2>1. CASE pipe' = <<>>
    BY <2>1, EmptySeq
  <2>2. CASE UNCHANGED pipe
    BY <2>2 DEF Base, NamesInUse
  <2> QED
    BY <2>1, <2>2
<1>5. \A i \in 1 .. Len(notes') :
        \E c \in Conn : socket'[c] = "open" /\ notes'[i].id = identifier'[c]
  OBVIOUS
<1> QED
  BY <1>1, <1>2, <1>3, <1>4, <1>5 DEF NamesInUse, InUse

\* A step that does not touch the tasks or the pool.
LEMMA ConnectionKept ==
  ASSUME Base, UNCHANGED connectionVars
  PROVE  ConnectionTypeOK' /\ PoolTypeOK'
BY DEF Base, TypeOK, ConnectionTypeOK, PoolTypeOK, connectionVars, connection,
       pool, history

LEMMA NetworkKept ==
  ASSUME Base, UNCHANGED network
  PROVE  NetworkTypeOK' /\ SocketsHold'
BY DEF Base, TypeOK, NetworkTypeOK, SocketsHold, network, client

LEMMA RegistryKept ==
  ASSUME Base, UNCHANGED <<registry, socket, isClosed, identifier>>
  PROVE  /\ connections' \in [NetFd -> Conn \cup {None}]
         /\ useTimes' \in [NetFd -> 0 .. UseTimes - 1]
         /\ namesakes' \subseteq Conn
         /\ RegistryOK'
BY DEF Base, TypeOK, ServerTypeOK, RegistryOK, Fd, registry

\* A step of the event loop alone.
LEMMA LoopBase ==
  ASSUME Base, UNCHANGED <<connectionVars, network, registry, cut, unarmed, wantsOut>>,
         ready' \subseteq NetFd \cup {ListenFd, PipeFd},
         events' \subseteq
           [fd : NetFd \cup {ListenFd, PipeFd}, in : BOOLEAN, out : BOOLEAN],
         UNCHANGED notes,
         main' \in [pc : {"loop", "accept", "read", "write", "notes"},
                    c : Conn \cup {None}, out : BOOLEAN],
         IF main'.pc \in {"read", "write"}
         THEN main'.c \in Conn /\ socket[main'.c] = "open" /\ ~isClosed[main'.c]
         ELSE main'.c = None /\ ~main'.out
  PROVE  Base'
<1>1. UNCHANGED <<socket, isClosed, identifier, pushing, queue, pipe, worker>>
  BY DEF network, connectionVars, connection, pool
<1>2. ConnectionTypeOK' /\ PoolTypeOK' /\ NetworkTypeOK' /\ SocketsHold'
  BY ConnectionKept, NetworkKept
<1>3. /\ connections' \in [NetFd -> Conn \cup {None}]
      /\ useTimes' \in [NetFd -> 0 .. UseTimes - 1]
      /\ namesakes' \subseteq Conn
      /\ RegistryOK'
  BY <1>1, RegistryKept
<1>4. ServerTypeOK'
  BY <1>3 DEF Base, TypeOK, ServerTypeOK
<1>5. \A i \in 1 .. Len(notes') :
        \E c \in Conn : socket[c] = "open" /\ notes'[i].id = identifier[c]
  BY DEF Base, NamesInUse
<1>6. NamesInUse'
  BY <1>1, <1>5, NamesKept
<1>7. ClosedWasOpen'
  BY <1>1 DEF Base, ClosedWasOpen
<1> QED
  BY <1>2, <1>3, <1>4, <1>6, <1>7 DEF Base, TypeOK

LEMMA EpollWaitBase == Base /\ EpollWait => Base'
<1> SUFFICES ASSUME Base, EpollWait PROVE Base'
  OBVIOUS
<1>1. events' \subseteq
        [fd : NetFd \cup {ListenFd, PipeFd}, in : BOOLEAN, out : BOOLEAN]
  <2>1. ready \subseteq NetFd \cup {ListenFd, PipeFd}
    BY DEF Base, TypeOK, ServerTypeOK
  <2>2. \A f \in ready :
          Report(f) \in [fd : NetFd \cup {ListenFd, PipeFd}, in : BOOLEAN, out : BOOLEAN]
    BY <2>1 DEF Report, Readable, Writable
  <2> QED
    BY <2>2 DEF EpollWait
<1>2. UNCHANGED <<connectionVars, network, registry, cut, unarmed, wantsOut, notes, main>>
      /\ ready' = {}
  BY DEF EpollWait
<1>3. main' \in [pc : {"loop", "accept", "read", "write", "notes"},
                 c : Conn \cup {None}, out : BOOLEAN]
  BY <1>2 DEF Base, TypeOK, ServerTypeOK
<1>4. IF main'.pc \in {"read", "write"}
      THEN main'.c \in Conn /\ socket[main'.c] = "open" /\ ~isClosed[main'.c]
      ELSE main'.c = None /\ ~main'.out
  BY <1>2 DEF Base, NamesInUse, InUse
<1> QED
  BY <1>1, <1>2, <1>3, <1>4, LoopBase

LEMMA DoneBase == Base /\ (AcceptDone \/ NotesDone) => Base'
<1> SUFFICES ASSUME Base, AcceptDone \/ NotesDone PROVE Base'
  OBVIOUS
<1>1. /\ UNCHANGED <<connectionVars, network, registry, epoll, notes, cut, unarmed>>
      /\ main' = [pc |-> "loop", c |-> None, out |-> FALSE]
  BY DEF AcceptDone, NotesDone, Loop, MainGoto
<1>2. UNCHANGED <<wantsOut, ready, events>>
  BY <1>1 DEF epoll
<1>3. /\ ready' \subseteq NetFd \cup {ListenFd, PipeFd}
      /\ events' \subseteq
           [fd : NetFd \cup {ListenFd, PipeFd}, in : BOOLEAN, out : BOOLEAN]
  BY <1>2 DEF Base, TypeOK, ServerTypeOK
<1> QED
  BY <1>1, <1>2, <1>3, LoopBase

LEMMA ReadDoneBase == ASSUME NEW c \in Conn, Base, ReadDone(c) PROVE Base'
<1>1. /\ UNCHANGED <<connectionVars, network, registry, epoll, notes, cut, unarmed>>
      /\ main.pc = "read" /\ main.c = c
      /\ \/ main' = [pc |-> "write", c |-> c, out |-> FALSE]
         \/ main' = [pc |-> "loop", c |-> None, out |-> FALSE]
  BY DEF ReadDone, Loop, MainGoto
<1>2. UNCHANGED <<wantsOut, ready, events>>
  BY <1>1 DEF epoll
<1>3. /\ ready' \subseteq NetFd \cup {ListenFd, PipeFd}
      /\ events' \subseteq
           [fd : NetFd \cup {ListenFd, PipeFd}, in : BOOLEAN, out : BOOLEAN]
  BY <1>2 DEF Base, TypeOK, ServerTypeOK
<1>4. socket[c] = "open" /\ ~isClosed[c]
  BY <1>1 DEF Base, NamesInUse, InUse
<1>5. main' \in [pc : {"loop", "accept", "read", "write", "notes"},
                 c : Conn \cup {None}, out : BOOLEAN]
  <2>1. CASE main' = [pc |-> "write", c |-> c, out |-> FALSE]
    BY <2>1
  <2>2. CASE main' = [pc |-> "loop", c |-> None, out |-> FALSE]
    BY <2>2
  <2> QED
    BY <1>1, <2>1, <2>2
<1>6. IF main'.pc \in {"read", "write"}
      THEN main'.c \in Conn /\ socket[main'.c] = "open" /\ ~isClosed[main'.c]
      ELSE main'.c = None /\ ~main'.out
  <2>1. CASE main' = [pc |-> "write", c |-> c, out |-> FALSE]
    BY <1>4, <2>1
  <2>2. CASE main' = [pc |-> "loop", c |-> None, out |-> FALSE]
    BY <2>2
  <2> QED
    BY <1>1, <2>1, <2>2
<1> QED
  BY <1>1, <1>2, <1>3, <1>5, <1>6, LoopBase

LEMMA DispatchBase == ASSUME Base, NEW e \in events, Dispatch(e) PROVE Base'
<1>1. UNCHANGED <<connection, pool, history, network, registry, wantsOut, ready,
                  cut, unarmed>>
      /\ events' \subseteq events /\ e \in events
  BY DEF Dispatch
<1>2. events' \subseteq
        [fd : NetFd \cup {ListenFd, PipeFd}, in : BOOLEAN, out : BOOLEAN]
      /\ ready' \subseteq NetFd \cup {ListenFd, PipeFd}
      /\ e.in \in BOOLEAN /\ e.out \in BOOLEAN
  BY <1>1 DEF Base, TypeOK, ServerTypeOK
<1>3. main.pc = "loop" /\ main.c = None /\ ~main.out
  BY DEF Dispatch, Base, NamesInUse
<1>4. CASE UNCHANGED <<pipe, notes>> /\ e.fd = ListenFd /\ MainGoto("accept", None, FALSE)
  <2>1. UNCHANGED connectionVars
    BY <1>1, <1>4 DEF connectionVars
  <2>2. main' = [pc |-> "accept", c |-> None, out |-> FALSE]
    BY <1>4 DEF MainGoto
  <2> QED
    BY <1>1, <1>2, <1>4, <2>1, <2>2, LoopBase
<1>5. CASE /\ UNCHANGED <<pipe, notes>> /\ e.fd \in NetFd
           /\ LET c == connections[e.fd]
              IN IF c = None THEN UNCHANGED main
                 ELSE MainGoto(IF e.in THEN "read" ELSE "write", c, e.out)
  <2> DEFINE c == connections[e.fd]
  <2>1. UNCHANGED connectionVars
    BY <1>1, <1>5 DEF connectionVars
  <2>2. CASE c = None
    BY <1>1, <1>2, <1>3, <1>5, <2>1, <2>2, LoopBase DEF Base, TypeOK, ServerTypeOK
  <2>3. CASE c # None
    <3>1. c \in Conn /\ socket[c] = "open" /\ ~isClosed[c]
      BY <1>5, <2>3 DEF Base, TypeOK, ServerTypeOK, RegistryOK
    <3>2. main' = [pc |-> IF e.in THEN "read" ELSE "write", c |-> c, out |-> e.out]
      BY <1>5, <2>3 DEF MainGoto
    <3> HIDE DEF c
    <3>3. /\ main' \in [pc : {"loop", "accept", "read", "write", "notes"},
                        c : Conn \cup {None}, out : BOOLEAN]
          /\ main'.pc \in {"read", "write"} /\ main'.c = c
      BY <1>2, <3>1, <3>2
    <3> QED
      BY <1>1, <1>2, <1>5, <2>1, <3>1, <3>3, LoopBase
  <2> QED
    BY <2>2, <2>3
<1>6. CASE notes' = pipe /\ pipe' = <<>> /\ MainGoto("notes", None, FALSE)
  <2>1. main' = [pc |-> "notes", c |-> None, out |-> FALSE]
    BY <1>6 DEF MainGoto
  <2>2. UNCHANGED <<body, identifier, isClosed, buffer, processing, subTask, response,
                    pushing, queue, worker, asked, raced, socket, cut, unarmed, wantsOut>>
    BY <1>1 DEF connection, pool, history, network
  <2>3. ConnectionTypeOK' /\ PoolTypeOK'
    BY <1>6, <2>2, EmptySeq, ConnectionConstants
       DEF Base, TypeOK, ConnectionTypeOK, PoolTypeOK
  <2>4. NetworkTypeOK' /\ SocketsHold'
    BY <1>1, NetworkKept
  <2>5. /\ connections' \in [NetFd -> Conn \cup {None}]
        /\ useTimes' \in [NetFd -> 0 .. UseTimes - 1]
        /\ namesakes' \subseteq Conn
        /\ RegistryOK'
    BY <1>1, <2>2, RegistryKept
  <2>6. notes' \in Seq(Notification)
    BY <1>6 DEF Base, TypeOK, PoolTypeOK
  <2>7. ServerTypeOK'
    BY <1>2, <2>1, <2>2, <2>5, <2>6 DEF Base, TypeOK, ServerTypeOK
  <2>8. \A i \in 1 .. Len(notes') :
          \E c \in Conn : socket[c] = "open" /\ notes'[i].id = identifier[c]
    BY <1>6 DEF Base, NamesInUse
  <2>9. NamesInUse'
    BY <1>6, <2>1, <2>2, <2>8, NamesKept
  <2>10. ClosedWasOpen'
    BY <2>2 DEF Base, ClosedWasOpen
  <2> QED
    BY <2>3, <2>4, <2>5, <2>7, <2>9, <2>10 DEF Base, TypeOK
<1> QED
  BY <1>4, <1>5, <1>6 DEF Dispatch

LEMMA AcceptBase == ASSUME NEW c \in Conn, Base, Accept(c) PROVE Base'
<1>1. PICK f \in FreeFd :
        /\ socket[c] = "backlog" /\ socket' = [socket EXCEPT ![c] = "open"]
        /\ useTimes' = CountUse(f)
        /\ identifier' = [identifier EXCEPT ![c] = [fd |-> f, use |-> useTimes'[f]]]
        /\ connections' = [connections EXCEPT ![f] = c]
        /\ namesakes' \subseteq namesakes \cup {c}
        /\ ready' = IF Readable(c) THEN ready \cup {f} ELSE ready
        /\ UNCHANGED <<body, isClosed, buffer, processing, subTask, response, pool,
                       pipe, history, client, inbox, outbox, wantsOut, events,
                       notes, main, cut, unarmed>>
  BY DEF Accept
<1>2. f \in NetFd /\ connections[f] = None /\ f \in Int
  BY ReactorConstants DEF FreeFd
<1>3. useTimes' \in [NetFd -> 0 .. UseTimes - 1]
      /\ \A g \in NetFd \ {f} : useTimes'[g] = useTimes[g]
  <2>1. UseTimes \in Nat \ {0}
    BY ReactorConstants
  <2>2. (useTimes[f] + 1) % UseTimes \in 0 .. UseTimes - 1
    BY <1>2, <2>1 DEF Base, TypeOK, ServerTypeOK
  <2> QED
    BY <1>1, <1>2, <2>2 DEF CountUse, Base, TypeOK, ServerTypeOK
<1>4. /\ socket' \in [Conn -> {"none", "backlog", "open", "refused"}]
      /\ socket'[c] = "open" /\ \A d \in Conn \ {c} : socket'[d] = socket[d]
  BY <1>1 DEF Base, TypeOK, NetworkTypeOK
<1>5. /\ connections' \in [NetFd -> Conn \cup {None}] /\ connections'[f] = c
      /\ \A g \in NetFd \ {f} : connections'[g] = connections[g]
  BY <1>1, <1>2 DEF Base, TypeOK, ServerTypeOK
<1>6. /\ identifier' \in [Conn -> Identifier]
      /\ identifier'[c] = [fd |-> f, use |-> useTimes'[f]]
      /\ \A d \in Conn \ {c} : identifier'[d] = identifier[d]
  <2>1. [fd |-> f, use |-> useTimes'[f]] \in Identifier
    BY <1>2, <1>3 DEF Identifier
  <2> QED
    BY <1>1, <2>1 DEF Base, TypeOK, ConnectionTypeOK
<1>7. UNCHANGED <<body, isClosed, buffer, processing, subTask, response, pushing,
                  queue, worker, pipe, asked, raced, gone, sending, got, inbox,
                  outbox, wantsOut, events, notes, main, cut, unarmed>>
  BY <1>1 DEF pool, history, client
<1>8. ConnectionTypeOK' /\ PoolTypeOK'
  BY <1>6, <1>7 DEF Base, TypeOK, ConnectionTypeOK, PoolTypeOK
<1>9. NetworkTypeOK' /\ SocketsHold'
  BY <1>4, <1>7 DEF Base, TypeOK, NetworkTypeOK, SocketsHold
<1>10. ServerTypeOK'
  <2>1. ready' \subseteq NetFd \cup {ListenFd, PipeFd}
    BY <1>1, <1>2 DEF Base, TypeOK, ServerTypeOK
  <2>2. namesakes' \subseteq Conn
    BY <1>1 DEF Base, TypeOK, ServerTypeOK
  <2> QED
    BY <1>3, <1>5, <1>7, <2>1, <2>2 DEF Base, TypeOK, ServerTypeOK
<1>11. ~isClosed[c]
  BY <1>1 DEF Base, ClosedWasOpen
<1>12. \A g \in NetFd : connections'[g] # None =>
         /\ socket'[connections'[g]] = "open" /\ ~isClosed'[connections'[g]]
         /\ identifier'[connections'[g]] = [fd |-> g, use |-> useTimes'[g]]
  <2>1. ASSUME NEW g \in NetFd \ {f}, connections'[g] # None
        PROVE  /\ socket'[connections'[g]] = "open" /\ ~isClosed'[connections'[g]]
               /\ identifier'[connections'[g]] = [fd |-> g, use |-> useTimes'[g]]
    <3>1. /\ connections'[g] = connections[g] /\ connections[g] \in Conn
          /\ socket[connections[g]] = "open" /\ ~isClosed[connections[g]]
          /\ identifier[connections[g]] = [fd |-> g, use |-> useTimes[g]]
      BY <1>5, <2>1 DEF Base, TypeOK, ServerTypeOK, RegistryOK
    <3>2. connections[g] # c
      BY <1>1, <3>1
    <3> QED
      BY <1>3, <1>4, <1>6, <1>7, <3>1, <3>2
  <2> QED
    BY <1>4, <1>5, <1>6, <1>7, <1>11, <2>1
<1>13. \A d \in Conn : socket'[d] = "open" =>
         /\ identifier'[d].fd \in NetFd
         /\ ~isClosed'[d] => connections'[identifier'[d].fd] = d
  <2>1. ASSUME NEW d \in Conn \ {c}, socket'[d] = "open"
        PROVE  /\ identifier'[d].fd \in NetFd
               /\ ~isClosed'[d] => connections'[identifier'[d].fd] = d
    <3>1. /\ identifier'[d] = identifier[d] /\ identifier[d].fd \in NetFd
          /\ ~isClosed[d] => connections[identifier[d].fd] = d
      BY <1>4, <1>6, <2>1 DEF Base, TypeOK, RegistryOK, Fd
    <3>2. ~isClosed[d] => identifier[d].fd # f
      BY <1>2, <3>1, ConnectionConstants
    <3> QED
      BY <1>5, <1>7, <3>1, <3>2
  <2> QED
    BY <1>2, <1>5, <1>6, <2>1
<1>14. RegistryOK'
  BY <1>12, <1>13 DEF RegistryOK, Fd
<1>15. NamesInUse'
  <2>1. \A d \in Conn : socket[d] = "open" =>
          socket'[d] = "open" /\ identifier'[d] = identifier[d]
    BY <1>1, <1>4, <1>6
  <2>2. \A i \in 1 .. Len(notes') :
          \E d \in Conn : socket[d] = "open" /\ notes'[i].id = identifier[d]
    BY <1>7 DEF Base, NamesInUse
  <2>3. main'.pc = "accept" /\ main'.c = None /\ ~main'.out
    BY <1>7 DEF Accept, Base, NamesInUse
  <2> QED
    BY <1>7, <2>1, <2>2, <2>3, NamesKept
<1>16. ClosedWasOpen'
  BY <1>4, <1>7 DEF Base, ClosedWasOpen
<1> QED
  BY <1>8, <1>9, <1>10, <1>14, <1>15, <1>16 DEF Base, TypeOK

\* A step of a client, or one that only moves a socket that is not open.
LEMMA NetworkBase ==
  ASSUME Base,
         UNCHANGED <<connectionVars, registry, wantsOut, events, notes, main, cut,
                     unarmed>>,
         NetworkTypeOK', SocketsHold',
         \A c \in Conn : (socket'[c] = "open") = (socket[c] = "open"),
         ready' \subseteq NetFd \cup {ListenFd, PipeFd}
  PROVE  Base'
<1>1. UNCHANGED <<isClosed, identifier, pushing, queue, pipe, worker>>
  BY DEF connectionVars, connection, pool
<1>2. ConnectionTypeOK' /\ PoolTypeOK'
  BY ConnectionKept
<1>3. ServerTypeOK'
  BY DEF Base, TypeOK, ServerTypeOK, registry
<1>4. RegistryOK'
  <2>1. \A f \in NetFd : connections[f] \in Conn \cup {None}
    BY DEF Base, TypeOK, ServerTypeOK
  <2> QED
    BY <1>1, <2>1 DEF Base, TypeOK, RegistryOK, Fd, registry
<1>5. NamesInUse'
  <2>1. \A c \in Conn : socket[c] = "open" =>
          socket'[c] = "open" /\ identifier'[c] = identifier[c]
    BY <1>1
  <2>2. \A i \in 1 .. Len(notes') :
          \E c \in Conn : socket[c] = "open" /\ notes'[i].id = identifier[c]
    BY DEF Base, NamesInUse
  <2>3. IF main'.pc \in {"read", "write"}
        THEN main'.c \in Conn /\ socket'[main'.c] = "open" /\ ~isClosed'[main'.c]
        ELSE main'.c = None /\ ~main'.out
    BY <1>1 DEF Base, NamesInUse, InUse
  <2> QED
    BY <1>1, <2>1, <2>2, <2>3, NamesKept
<1>6. ClosedWasOpen'
  BY <1>1 DEF Base, ClosedWasOpen
<1> QED
  BY <1>2, <1>3, <1>4, <1>5, <1>6 DEF Base, TypeOK

LEMMA RefuseBase ==
  ASSUME NEW c \in Conn, Base, Refuse(c) \/ Connect(c)
  PROVE  Base'
<1>1. /\ socket[c] \in {"none", "backlog"}
      /\ \E s \in {"backlog", "refused"} : socket' = [socket EXCEPT ![c] = s]
      /\ ready' \in {ready, ready \cup {ListenFd}}
      /\ UNCHANGED <<connectionVars, gone, sending, got, inbox, outbox, registry,
                     wantsOut, events, notes, main, cut, unarmed>>
  BY DEF Refuse, Connect, client, epoll
<1>2. NetworkTypeOK' /\ SocketsHold'
  BY <1>1 DEF Base, TypeOK, NetworkTypeOK, SocketsHold
<1>3. \A d \in Conn : (socket'[d] = "open") = (socket[d] = "open")
  BY <1>1 DEF Base, TypeOK, NetworkTypeOK
<1>4. ready' \subseteq NetFd \cup {ListenFd, PipeFd}
  BY <1>1 DEF Base, TypeOK, ServerTypeOK
<1> QED
  BY <1>1, <1>2, <1>3, <1>4, NetworkBase

\* What arrives wakes a registered descriptor.
LEMMA WakeType ==
  ASSUME Base, NEW c \in Conn, Wake(c) \/ UNCHANGED ready
  PROVE  ready' \subseteq NetFd \cup {ListenFd, PipeFd}
BY DEF Wake, Registered, Base, TypeOK, ServerTypeOK, RegistryOK

LEMMA ClientBase ==
  ASSUME NEW c \in Conn, Base, ClientSend(c) \/ ClientReceive(c) \/ ClientClose(c)
  PROVE  Base'
<1>1. /\ Wake(c) \/ UNCHANGED ready
      /\ UNCHANGED <<connectionVars, socket, registry, wantsOut, events, notes, main,
                     cut, unarmed>>
  BY DEF ClientSend, ClientReceive, ClientClose
<1>2. ready' \subseteq NetFd \cup {ListenFd, PipeFd}
  BY <1>1, WakeType
<1>3. NetworkTypeOK' /\ SocketsHold'
  <2>1. CASE ClientSend(c)
    <3> DEFINE r == sending[c][1]
               n == sending[c][2] + 1
               last == n = body[c][r].size
    <3>1. /\ sending' = [sending EXCEPT ![c] = IF last THEN <<r + 1, 0>> ELSE <<r, n>>]
          /\ inbox' = [inbox EXCEPT ![c] = Append(@, [request |-> r, last |-> last])]
          /\ UNCHANGED <<gone, got, outbox, socket>>
      BY <2>1 DEF ClientSend
    <3>2. r \in Nat \ {0} /\ n \in Nat \ {0} /\ last \in BOOLEAN
      BY DEF Base, TypeOK, NetworkTypeOK
    <3> HIDE DEF r, n, last
    <3>3. [request |-> r, last |-> last] \in RequestPiece
      BY <3>2 DEF RequestPiece
    <3>4. Append(inbox[c], [request |-> r, last |-> last]) \in Seq(RequestPiece)
      BY <3>3, AppendProperties DEF Base, TypeOK, NetworkTypeOK
    <3>5. (IF last THEN <<r + 1, 0>> ELSE <<r, n>>) \in (Nat \ {0}) \X Nat
      BY <3>2
    <3> QED
      BY <3>1, <3>4, <3>5 DEF Base, TypeOK, NetworkTypeOK, SocketsHold
  <2>2. CASE ClientReceive(c)
    <3>1. /\ outbox[c] \in Seq(AnswerPiece) /\ outbox[c] # <<>>
          /\ got[c] \in Seq(AnswerPiece) /\ Len(outbox[c]) \in Nat
      BY <2>2, LenProperties DEF ClientReceive, Base, TypeOK, NetworkTypeOK
    <3>2. /\ Head(outbox[c]) \in AnswerPiece /\ Tail(outbox[c]) \in Seq(AnswerPiece)
          /\ Len(Tail(outbox[c])) = Len(outbox[c]) - 1
      BY <3>1, HeadTailProperties
    <3>3. Append(got[c], Head(outbox[c])) \in Seq(AnswerPiece)
      BY <3>1, <3>2, AppendProperties
    <3>4. /\ got' = [got EXCEPT ![c] = Append(@, Head(outbox[c]))]
          /\ outbox' = [outbox EXCEPT ![c] = Tail(@)]
          /\ UNCHANGED <<gone, sending, inbox, socket>>
      BY <2>2 DEF ClientReceive
    <3>5. NetworkTypeOK'
      BY <3>2, <3>3, <3>4 DEF Base, TypeOK, NetworkTypeOK
    <3>6. Len(Tail(outbox[c])) <= SocketRoom
      BY <3>1, <3>2, ReactorConstants DEF Base, SocketsHold
    <3>7. SocketsHold'
      BY <3>4, <3>6 DEF Base, TypeOK, NetworkTypeOK, SocketsHold
    <3> QED
      BY <3>5, <3>7
  <2>3. CASE ClientClose(c)
    BY <2>3, ReactorConstants DEF ClientClose, Base, TypeOK, NetworkTypeOK, SocketsHold
  <2> QED
    BY <2>1, <2>2, <2>3
<1> QED
  BY <1>1, <1>2, <1>3, NetworkBase

LEMMA ReadPushBase == Base /\ ReadPush => Base'
<1> SUFFICES ASSUME Base, ReadPush PROVE Base'
  OBVIOUS
<1> DEFINE t == [task |-> Handler, c |-> pushing]
<1>1. /\ pushing # None /\ Len(queue) < RingCapacity /\ queue' = Append(queue, t)
      /\ pushing' = None
      /\ UNCHANGED <<body, identifier, isClosed, buffer, processing, subTask, response,
                     worker, pipe, asked, raced>>
      /\ UNCHANGED <<network, registry, wantsOut, ready, events, notes, main, cut,
                     unarmed>>
  BY DEF ReadPush, Push, connection, history, reactorVars, epoll
<1>2. InUse(pushing) /\ t \in [task : Task, c : Conn] /\ t.c = pushing
  BY <1>1 DEF Base, NamesInUse, InUse, Task
<1> HIDE DEF t
<1>3. /\ queue' \in Seq([task : Task, c : Conn]) /\ Len(queue') <= RingCapacity
      /\ Len(queue') = Len(queue) + 1
      /\ \A i \in 1 .. Len(queue) : queue'[i] = queue[i]
      /\ queue'[Len(queue')] = t
  BY <1>1, <1>2, QueueTypes
<1>4. ConnectionTypeOK' /\ PoolTypeOK'
  BY <1>1, <1>3 DEF Base, TypeOK, ConnectionTypeOK, PoolTypeOK
<1>5. NetworkTypeOK' /\ SocketsHold'
  BY <1>1, NetworkKept
<1>6. UNCHANGED socket
  BY <1>1 DEF network
<1>7. /\ connections' \in [NetFd -> Conn \cup {None}]
      /\ useTimes' \in [NetFd -> 0 .. UseTimes - 1]
      /\ namesakes' \subseteq Conn
      /\ RegistryOK'
  BY <1>1, <1>6, RegistryKept
<1>8. ServerTypeOK'
  BY <1>1, <1>7 DEF Base, TypeOK, ServerTypeOK
<1>9. \A i \in 1 .. Len(queue') : InUse(queue'[i].c)
  <2>1. Len(queue) \in Nat
    BY LenProperties DEF Base, TypeOK, PoolTypeOK
  <2>2. \A i \in 1 .. Len(queue) : InUse(queue[i].c)
    BY DEF Base, NamesInUse
  <2> QED
    BY <1>2, <1>3, <2>1, <2>2
<1>10. NamesInUse'
  <2>1. \A i \in 1 .. Len(notes') :
          \E c \in Conn : socket[c] = "open" /\ notes'[i].id = identifier[c]
    BY <1>1 DEF Base, NamesInUse
  <2>2. IF main'.pc \in {"read", "write"}
        THEN main'.c \in Conn /\ socket'[main'.c] = "open" /\ ~isClosed'[main'.c]
        ELSE main'.c = None /\ ~main'.out
    BY <1>1, <1>6 DEF Base, NamesInUse, InUse
  <2> QED
    BY <1>1, <1>6, <1>9, <2>1, <2>2, NamesKept
<1>11. ClosedWasOpen'
  BY <1>1, <1>6 DEF Base, ClosedWasOpen
<1> QED
  BY <1>4, <1>5, <1>7, <1>8, <1>10, <1>11 DEF Base, TypeOK

\* What is read, and what stays in the kernel.
LEMMA ChunkIs ==
  ASSUME Base, NEW c \in Conn
  PROVE  LET k == Min({Len(inbox[c]), ReadSize})
         IN /\ k \in 0 .. Len(inbox[c])
            /\ SubSeq(inbox[c], 1, k) \in Seq(RequestPiece)
            /\ SubSeq(inbox[c], k + 1, Len(inbox[c])) \in Seq(RequestPiece)
            /\ buffer[c] \o SubSeq(inbox[c], 1, k) \in Seq(RequestPiece)
<1> DEFINE k == Min({Len(inbox[c]), ReadSize})
<1>1. /\ inbox[c] \in Seq(RequestPiece) /\ buffer[c] \in Seq(RequestPiece)
      /\ Len(inbox[c]) \in Nat /\ ReadSize \in Nat
  BY LenProperties, ReactorConstants
     DEF Base, TypeOK, ConnectionTypeOK, NetworkTypeOK
<1>2. k \in 0 .. Len(inbox[c])
  BY <1>1, MinOfTwo
<1> HIDE DEF k
<1>3. /\ SubSeq(inbox[c], 1, k) \in Seq(RequestPiece)
      /\ SubSeq(inbox[c], k + 1, Len(inbox[c])) \in Seq(RequestPiece)
  BY <1>1, <1>2, Split
<1>4. buffer[c] \o SubSeq(inbox[c], 1, k) \in Seq(RequestPiece)
  BY <1>1, <1>3, ConcatProperties
<1> QED
  BY <1>2, <1>3, <1>4 DEF k

LEMMA ReadChunkBase == ASSUME NEW c \in Conn, Base, ReadChunk(c) PROVE Base'
<1> DEFINE k == Min({Len(inbox[c]), ReadSize})
           s == SubSeq(inbox[c], 1, k)
           left == SubSeq(inbox[c], k + 1, Len(inbox[c]))
<1>1. /\ main.pc = "read" /\ main.c = c
      /\ buffer' = [buffer EXCEPT ![c] = @ \o s]
      /\ processing' = [processing EXCEPT ![c] = TRUE]
      /\ pushing' \in {None, c}
      /\ UNCHANGED <<body, identifier, isClosed, subTask, response, queue, worker,
                     pipe, asked, raced>>
      /\ inbox' = [inbox EXCEPT ![c] = left]
      /\ UNCHANGED <<gone, sending, got, outbox, socket, registry, wantsOut, ready,
                     events, notes, main, cut, unarmed>>
  BY DEF ReadChunk, Receive, history, client, epoll
<1>2. /\ buffer[c] \o s \in Seq(RequestPiece) /\ left \in Seq(RequestPiece)
  BY ChunkIs
<1> HIDE DEF s, left, k
<1>3. ConnectionTypeOK' /\ PoolTypeOK'
  BY <1>1, <1>2 DEF Base, TypeOK, ConnectionTypeOK, PoolTypeOK
<1>4. NetworkTypeOK' /\ SocketsHold'
  BY <1>1, <1>2 DEF Base, TypeOK, NetworkTypeOK, SocketsHold
<1>5. /\ connections' \in [NetFd -> Conn \cup {None}]
      /\ useTimes' \in [NetFd -> 0 .. UseTimes - 1]
      /\ namesakes' \subseteq Conn
      /\ RegistryOK'
  BY <1>1, RegistryKept
<1>6. ServerTypeOK'
  BY <1>1, <1>5 DEF Base, TypeOK, ServerTypeOK
<1>7. NamesInUse'
  <2>1. \A i \in 1 .. Len(notes') :
          \E d \in Conn : socket[d] = "open" /\ notes'[i].id = identifier[d]
    BY <1>1 DEF Base, NamesInUse
  <2>2. socket[c] = "open" /\ ~isClosed[c]
    BY <1>1 DEF Base, NamesInUse, InUse
  <2>3. pushing' = None \/ InUse(pushing')
    BY <1>1, <2>2 DEF InUse
  <2> QED
    BY <1>1, <2>1, <2>2, <2>3, NamesKept
<1>8. ClosedWasOpen'
  BY <1>1 DEF Base, ClosedWasOpen
<1> QED
  BY <1>3, <1>4, <1>5, <1>6, <1>7, <1>8 DEF Base, TypeOK

\* A step of the main thread that may close c or write to its socket.
LEMMA CloseOrWriteBase ==
  ASSUME Base, NEW c, InUse(c), ~isClosed[c],
         Write(c) \/ (Except(c) /\ UNCHANGED <<response, outbox, unarmed>>),
         UNCHANGED <<body, identifier, buffer, processing, subTask, pool, pipe, history,
                     client, inbox, socket, useTimes, namesakes, events>>,
         notes' \in Seq(Notification),
         \A i \in 1 .. Len(notes') :
           \E d \in Conn : socket[d] = "open" /\ notes'[i].id = identifier[d],
         main' \in [pc : {"loop", "accept", "read", "write", "notes"},
                    c : Conn \cup {None}, out : BOOLEAN],
         main'.pc \notin {"read", "write"}, main'.c = None, ~main'.out
  PROVE  Base'
<1>1. /\ isClosed' \in [Conn -> BOOLEAN]
      /\ connections' \in [NetFd -> Conn \cup {None}]
      /\ wantsOut' \subseteq Conn /\ cut' \subseteq Conn /\ unarmed' \subseteq Conn
      /\ ready' \subseteq NetFd \cup {ListenFd, PipeFd}
      /\ response' \in [Conn -> Seq(AnswerPiece)]
      /\ outbox' \in [Conn -> Seq(AnswerPiece)]
      /\ RegistryOK' /\ SocketsHold'
  <2>1. CASE Write(c)
    BY <2>1, WriteBase
  <2>2. CASE Except(c) /\ UNCHANGED <<response, outbox, unarmed>>
    <3>1. /\ isClosed' \in [Conn -> BOOLEAN]
          /\ connections' \in [NetFd -> Conn \cup {None}]
          /\ wantsOut' \subseteq Conn /\ cut' \subseteq Conn
          /\ ready' \subseteq NetFd \cup {ListenFd, PipeFd}
          /\ RegistryOK'
      BY <2>2, ExceptBase
    <3> QED
      BY <2>2, <3>1 DEF Base, TypeOK, ConnectionTypeOK, NetworkTypeOK, ServerTypeOK,
                        SocketsHold
  <2> QED
    BY <2>1, <2>2
<1>2. UNCHANGED <<pushing, queue, worker, asked, raced, gone, sending, got>>
  BY DEF pool, history, client
<1>3. ConnectionTypeOK' /\ PoolTypeOK'
  BY <1>1, <1>2 DEF Base, TypeOK, ConnectionTypeOK, PoolTypeOK
<1>4. NetworkTypeOK' /\ ServerTypeOK'
  BY <1>1, <1>2 DEF Base, TypeOK, NetworkTypeOK, ServerTypeOK
<1>5. NamesInUse'
  BY <1>2, NamesKept
<1>6. ClosedWasOpen'
  <2>1. isClosed' = isClosed \/ isClosed' = [isClosed EXCEPT ![c] = TRUE]
    BY DEF Write, Except
  <2> QED
    BY <2>1 DEF Base, TypeOK, ConnectionTypeOK, ClosedWasOpen, InUse
<1> QED
  BY <1>1, <1>3, <1>4, <1>5, <1>6 DEF Base, TypeOK

LEMMA EventBase ==
  ASSUME NEW c \in Conn, Base, ReadClosed(c) \/ WriteEvent(c)
  PROVE  Base'
<1>1. /\ Write(c) \/ (Except(c) /\ UNCHANGED <<response, outbox, unarmed>>)
      /\ UNCHANGED <<body, identifier, buffer, processing, subTask, pool, pipe, history,
                     client, inbox, socket, useTimes, namesakes, events,
                     notes>>
      /\ main.pc \in {"read", "write"} /\ main.c = c
      /\ main' = [pc |-> "loop", c |-> None, out |-> FALSE]
  BY DEF ReadClosed, WriteEvent, Loop, MainGoto, network
<1>2. InUse(c) /\ ~isClosed[c]
  BY <1>1 DEF Base, NamesInUse
<1>3. /\ notes' \in Seq(Notification)
      /\ \A i \in 1 .. Len(notes') :
           \E d \in Conn : socket[d] = "open" /\ notes'[i].id = identifier[d]
  BY <1>1 DEF Base, NamesInUse, TypeOK, ServerTypeOK
<1>4. /\ main' \in [pc : {"loop", "accept", "read", "write", "notes"},
                    c : Conn \cup {None}, out : BOOLEAN]
      /\ main'.pc \notin {"read", "write"} /\ main'.c = None /\ ~main'.out
  BY <1>1
<1> QED
  BY <1>1, <1>2, <1>3, <1>4, CloseOrWriteBase

LEMMA NoteBase == Base /\ Note => Base'
<1> SUFFICES ASSUME Base, Note PROVE Base'
  OBVIOUS
<1> DEFINE n == Head(notes)
           c == connections[n.id.fd]
<1>1. /\ notes \in Seq(Notification) /\ notes # <<>> /\ notes' = Tail(notes)
      /\ Len(notes) \in Nat \ {0}
  BY EmptySeq, LenProperties DEF Note, Base, TypeOK, ServerTypeOK
<1>2. /\ notes' \in Seq(Notification) /\ n = notes[1]
      /\ \A i \in 1 .. Len(notes') : notes'[i] = notes[i + 1]
      /\ Len(notes') = Len(notes) - 1
  BY <1>1, HeadTailProperties
<1>3. /\ \A i \in 1 .. Len(notes') :
           \E d \in Conn : socket[d] = "open" /\ notes'[i].id = identifier[d]
      /\ \E d \in Conn : socket[d] = "open" /\ n.id = identifier[d]
  <2>1. \A i \in 1 .. Len(notes) :
          \E d \in Conn : socket[d] = "open" /\ notes[i].id = identifier[d]
    BY DEF Base, NamesInUse
  <2> QED
    BY <1>1, <1>2, <2>1
<1>4. c \in Conn \cup {None} /\ n.id.fd \in NetFd
  BY <1>3 DEF Base, TypeOK, ServerTypeOK, RegistryOK, Fd
<1>5. /\ UNCHANGED <<body, identifier, buffer, processing, subTask, pool, pipe, history,
                     client, inbox, socket, useTimes, namesakes, events, main>>
      /\ main.pc = "notes"
      /\ \/ UNCHANGED <<isClosed, response, outbox, connections, wantsOut, ready, cut,
                        unarmed>>
         \/ c # None /\ (Write(c) \/ (Except(c) /\ UNCHANGED <<response, outbox, unarmed>>))
  BY DEF Note
<1>6. /\ main' \in [pc : {"loop", "accept", "read", "write", "notes"},
                    c : Conn \cup {None}, out : BOOLEAN]
      /\ main'.pc \notin {"read", "write"} /\ main'.c = None /\ ~main'.out
  BY <1>5 DEF Base, TypeOK, ServerTypeOK, NamesInUse
<1>7. c # None => InUse(c) /\ ~isClosed[c]
  BY <1>4 DEF Base, TypeOK, RegistryOK, InUse
<1> HIDE DEF n, c
<1>8. CASE c # None /\ (Write(c) \/ (Except(c) /\ UNCHANGED <<response, outbox, unarmed>>))
  BY <1>2, <1>3, <1>5, <1>6, <1>7, <1>8, CloseOrWriteBase
<1>9. CASE UNCHANGED <<isClosed, response, outbox, connections, wantsOut, ready, cut,
                       unarmed>>
  <2>1. UNCHANGED <<pushing, queue, worker, asked, raced, gone, sending, got>>
    BY <1>5 DEF pool, history, client
  <2>2. ConnectionTypeOK' /\ PoolTypeOK'
    BY <1>5, <1>9, <2>1 DEF Base, TypeOK, ConnectionTypeOK, PoolTypeOK
  <2>3. NetworkTypeOK' /\ ServerTypeOK' /\ SocketsHold'
    BY <1>2, <1>5, <1>9, <2>1 DEF Base, TypeOK, NetworkTypeOK, ServerTypeOK, SocketsHold
  <2>4. RegistryOK' /\ ClosedWasOpen'
    BY <1>5, <1>9 DEF Base, TypeOK, RegistryOK, ClosedWasOpen, Fd
  <2>5. NamesInUse'
    BY <1>3, <1>5, <1>6, <1>9, <2>1, NamesKept
  <2> QED
    BY <2>2, <2>3, <2>4, <2>5 DEF Base, TypeOK
<1> QED
  BY <1>5, <1>8, <1>9

LEMMA StutterBase == Base /\ UNCHANGED vars => Base'
<1> SUFFICES ASSUME Base, UNCHANGED vars PROVE Base'
  OBVIOUS
<1>1. /\ UNCHANGED <<connectionVars, network, registry, cut, unarmed, wantsOut, ready,
                     events, notes, main>>
  BY DEF vars, reactorVars, epoll
<1>2. /\ ready' \subseteq NetFd \cup {ListenFd, PipeFd}
      /\ events' \subseteq
           [fd : NetFd \cup {ListenFd, PipeFd}, in : BOOLEAN, out : BOOLEAN]
      /\ main' \in [pc : {"loop", "accept", "read", "write", "notes"},
                    c : Conn \cup {None}, out : BOOLEAN]
  BY <1>1 DEF Base, TypeOK, ServerTypeOK
<1>3. IF main'.pc \in {"read", "write"}
      THEN main'.c \in Conn /\ socket[main'.c] = "open" /\ ~isClosed[main'.c]
      ELSE main'.c = None /\ ~main'.out
  BY <1>1 DEF Base, NamesInUse, InUse
<1> QED
  BY <1>1, <1>2, <1>3, LoopBase

LEMMA NextBase == Base /\ [Next]_vars => Base'
<1> SUFFICES ASSUME Base, [Next]_vars PROVE Base'
  OBVIOUS
<1>1. CASE MainStep
  <2>1. CASE EpollWait \/ AcceptDone \/ ReadPush \/ Note \/ NotesDone
    BY <2>1, EpollWaitBase, DoneBase, ReadPushBase, NoteBase
  <2>2. ASSUME NEW e \in events, Dispatch(e) PROVE Base'
    BY <2>2, DispatchBase
  <2>3. ASSUME NEW c \in Conn, Accept(c) \/ Refuse(c) PROVE Base'
    BY <2>3, AcceptBase, RefuseBase
  <2>4. ASSUME NEW c \in Conn, ReadChunk(c) \/ ReadDone(c) PROVE Base'
    BY <2>4, ReadChunkBase, ReadDoneBase
  <2>5. ASSUME NEW c \in Conn, ReadClosed(c) \/ WriteEvent(c) PROVE Base'
    BY <2>5, EventBase
  <2> QED
    BY <1>1, <2>1, <2>2, <2>3, <2>4, <2>5 DEF MainStep
<1>2. ASSUME NEW w \in Worker, PoolStep(w) PROVE Base'
  BY <1>2, PoolStepBase
<1>3. ASSUME NEW c \in Conn, ClientStep(c) PROVE Base'
  BY <1>3, ClientBase, RefuseBase DEF ClientStep
<1>4. CASE UNCHANGED vars
  BY <1>4, StutterBase
<1> QED
  BY <1>1, <1>2, <1>3, <1>4 DEF Next

LEMMA BaseHolds == Spec => []Base
<1> QED
  BY InitBase, NextBase, PTL DEF Spec

\* For any number of connections, workers, descriptors and use counts, and any
\* sizes, every variable has its type: ring and pipe never hold more than they
\* can, and _connections, the descriptors and their use counts agree with the
\* connections that are open.
THEOREM TypeCorrect == Spec => []TypeOK
<1>1. Base => TypeOK
  BY DEF Base
<1> QED
  BY <1>1, BaseHolds, PTL

-----------------------------------------------------------------------------
(* One task while _is_processing is set, and one for bytes that wait       *)

One(b) == IF b THEN 1 ELSE 0

Counted(s, c) == s.c = c /\ s.pc # "leave"

-----------------------------------------------------------------------------
(* Counting                                                                *)

LEMMA CountTypes ==
  ASSUME Base, NEW c \in Conn
  PROVE  /\ IsFiniteSet(Tasks(c)) /\ Cardinality(Tasks(c)) \in Nat
         /\ IsFiniteSet(Queued(c)) /\ Cardinality(Queued(c)) \in Nat
         /\ Waiting(c) \in {0, 1} /\ NumTasks(c) \in Nat
         /\ \A w \in Worker : Counted(worker[w], c) => NumTasks(c) >= 1
<1>1. IsFiniteSet(Tasks(c))
  BY ConnectionConstants, FS_Subset DEF Tasks
<1>2. IsFiniteSet(Queued(c))
  <2>1. Len(queue) \in Nat /\ DOMAIN queue = 1 .. Len(queue)
    BY LenProperties DEF Base, TypeOK, PoolTypeOK
  <2>2. IsFiniteSet(1 .. Len(queue))
    BY <2>1, FS_Interval
  <2> QED
    BY <2>1, <2>2, FS_Subset DEF Queued
<1>3. Cardinality(Tasks(c)) \in Nat /\ Cardinality(Queued(c)) \in Nat
  BY <1>1, <1>2, FS_CardinalityType
<1>4. Waiting(c) \in {0, 1}
  BY DEF Waiting
<1>5. ASSUME NEW w \in Worker, Counted(worker[w], c)
      PROVE  Cardinality(Tasks(c)) # 0
  <2>1. w \in Tasks(c)
    BY <1>5 DEF Tasks, Counted
  <2> QED
    BY <1>1, <2>1, FS_EmptySet
<1> QED
  BY <1>1, <1>2, <1>3, <1>4, <1>5 DEF NumTasks

\* One worker's step.
LEMMA TasksChange ==
  ASSUME Base, NEW w \in Worker, NEW s, worker' = [worker EXCEPT ![w] = s],
         NEW c \in Conn
  PROVE  Cardinality(Tasks(c)') =
           Cardinality(Tasks(c)) + One(Counted(s, c)) - One(Counted(worker[w], c))
<1> DEFINE S == Tasks(c) \ {w}
<1>1. IsFiniteSet(Tasks(c)) /\ Cardinality(Tasks(c)) \in Nat
  BY CountTypes
<1>2. /\ IsFiniteSet(S)
      /\ Cardinality(S) =
           IF w \in Tasks(c) THEN Cardinality(Tasks(c)) - 1 ELSE Cardinality(Tasks(c))
  BY <1>1, FS_RemoveElement
<1>3. /\ IsFiniteSet(S \cup {w})
      /\ Cardinality(S \cup {w}) =
           IF w \in S THEN Cardinality(S) ELSE Cardinality(S) + 1
  BY <1>2, FS_AddElement
<1>4. Tasks(c)' = IF Counted(s, c) THEN S \cup {w} ELSE S
  <2>1. worker'[w] = s /\ \A u \in Worker \ {w} : worker'[u] = worker[u]
    BY DEF Base, TypeOK, PoolTypeOK
  <2> QED
    BY <2>1 DEF Tasks, Counted
<1>5. w \in Tasks(c) <=> Counted(worker[w], c)
  BY DEF Tasks, Counted
<1>6. w \notin S
  OBVIOUS
<1> HIDE DEF S
<1> QED
  BY <1>1, <1>2, <1>3, <1>4, <1>5, <1>6 DEF One

\* One task more in the ring.
LEMMA QueueGrows ==
  ASSUME Base, NEW t \in [task : Task, c : Conn], Len(queue) < RingCapacity,
         queue' = Append(queue, t), NEW c \in Conn
  PROVE  Cardinality(Queued(c)') = Cardinality(Queued(c)) + One(t.c = c)
<1> DEFINE n == Len(queue) + 1
<1>1. /\ queue' \in Seq([task : Task, c : Conn]) /\ Len(queue') = n
      /\ \A i \in 1 .. Len(queue) : queue'[i] = queue[i]
      /\ queue'[n] = t
  BY QueueTypes
<1>2. /\ Len(queue) \in Nat /\ DOMAIN queue = 1 .. Len(queue)
      /\ DOMAIN queue' = 1 .. n
  BY <1>1, LenProperties DEF Base, TypeOK, PoolTypeOK
<1>3. IsFiniteSet(Queued(c)) /\ Cardinality(Queued(c)) \in Nat
  BY CountTypes
<1>4. n \notin Queued(c)
  BY <1>2 DEF Queued
<1>5. Queued(c)' = IF t.c = c THEN Queued(c) \cup {n} ELSE Queued(c)
  BY <1>1, <1>2 DEF Queued
<1>6. Cardinality(Queued(c) \cup {n}) = Cardinality(Queued(c)) + 1
  BY <1>3, <1>4, FS_AddElement
<1> QED
  BY <1>3, <1>5, <1>6 DEF One

\* The oldest task leaves the ring.
LEMMA QueueShrinks ==
  ASSUME Base, queue # <<>>, queue' = Tail(queue), NEW c \in Conn
  PROVE  Cardinality(Queued(c)') = Cardinality(Queued(c)) - One(Head(queue).c = c)
<1> DEFINE S == Queued(c) \ {1}
           T == {i \in DOMAIN queue' : queue'[i].c = c}
           f == [i \in T |-> i + 1]
<1>1. /\ queue \in Seq([task : Task, c : Conn]) /\ Len(queue) \in Nat \ {0}
      /\ DOMAIN queue = 1 .. Len(queue) /\ Head(queue) = queue[1]
  BY EmptySeq, LenProperties DEF Base, TypeOK, PoolTypeOK
<1>2. /\ queue' \in Seq([task : Task, c : Conn]) /\ Len(queue') = Len(queue) - 1
      /\ \A i \in 1 .. Len(queue') : queue'[i] = queue[i + 1]
  <2>1. /\ Tail(queue) \in Seq([task : Task, c : Conn])
        /\ Len(Tail(queue)) = Len(queue) - 1
        /\ \A i \in 1 .. Len(Tail(queue)) : Tail(queue)[i] = queue[i + 1]
    BY <1>1, HeadTailProperties
  <2> QED
    BY <2>1
<1>3. DOMAIN queue' = 1 .. Len(queue) - 1
  BY <1>2, LenProperties
<1>4. IsFiniteSet(Queued(c)) /\ Cardinality(Queued(c)) \in Nat
  BY CountTypes
<1>5. /\ IsFiniteSet(S)
      /\ Cardinality(S) =
           IF 1 \in Queued(c) THEN Cardinality(Queued(c)) - 1 ELSE Cardinality(Queued(c))
  BY <1>4, FS_RemoveElement
<1>6. 1 \in Queued(c) <=> Head(queue).c = c
  BY <1>1 DEF Queued
<1>7. /\ \A i \in S : i - 1 \in T
      /\ \A i \in T : i + 1 \in S /\ i \in Int
  BY <1>1, <1>2, <1>3 DEF Queued
<1>8. Cardinality(T) = Cardinality(S)
  <2>1. f \in [T -> S] /\ \A a, b \in T : f[a] = f[b] => a = b
    BY <1>7
  <2>2. \A y \in S : \E a \in T : f[a] = y
    <3>1. ASSUME NEW y \in S PROVE f[y - 1] = y /\ y - 1 \in T
      BY <1>1, <1>7 DEF Queued
    <3> QED
      BY <3>1
  <2> HIDE DEF f, S, T
  <2>3. f \in Bijection(T, S)
    BY <2>1, <2>2, Fun_IsBij
  <2>4. ExistsBijection(T, S)
    BY <2>3 DEF ExistsBijection
  <2>5. ExistsBijection(S, T)
    BY <2>4, Fun_ExistsBijSymmetric
  <2> QED
    BY <1>5, <2>5, FS_Bijection
<1>9. Queued(c)' = T
  BY DEF Queued
<1> HIDE DEF S, T, f
<1> QED
  BY <1>4, <1>5, <1>6, <1>8, <1>9 DEF One

\* A step that leaves the pool alone.
LEMMA CountKept ==
  ASSUME NEW c, UNCHANGED <<worker, queue, pushing>>
  PROVE  NumTasks(c)' = NumTasks(c)
BY DEF NumTasks, Tasks, Queued, Waiting

\* A worker's step that leaves ring and main thread alone.
LEMMA WorkerCount ==
  ASSUME Base, NEW w \in Worker, NEW s, worker' = [worker EXCEPT ![w] = s],
         UNCHANGED <<queue, pushing>>, NEW c \in Conn
  PROVE  NumTasks(c)' = NumTasks(c) + One(Counted(s, c)) - One(Counted(worker[w], c))
<1>1. Cardinality(Tasks(c)') =
        Cardinality(Tasks(c)) + One(Counted(s, c)) - One(Counted(worker[w], c))
  BY TasksChange
<1>2. Queued(c)' = Queued(c) /\ Waiting(c)' = Waiting(c)
  BY DEF Queued, Waiting
<1>3. NumTasks(c)' = Cardinality(Tasks(c)') + Cardinality(Queued(c)') + Waiting(c)'
  BY DEF NumTasks
<1>4. /\ Cardinality(Tasks(c)) \in Nat /\ Cardinality(Queued(c)) \in Nat
      /\ Waiting(c) \in {0, 1}
  BY CountTypes
<1> QED
  BY <1>1, <1>2, <1>3, <1>4 DEF NumTasks, One

-----------------------------------------------------------------------------
(* One task while _is_processing is set, none and no bytes while it is not *)

OwnTask(c) ==
  /\ IF processing[c]
     THEN \/ NumTasks(c) = 1
          \/ NumTasks(c) = 0 /\ (isClosed[c] \/ c \in asked)
     ELSE NumTasks(c) = 0
  /\ buffer[c] # <<>> => processing[c]

TaskInv == \A c \in Conn \ raced : OwnTask(c)

LEMMA OwnTaskKept ==
  ASSUME NEW c, OwnTask(c), NumTasks(c)' = NumTasks(c), processing'[c] = processing[c],
         isClosed[c] => isClosed'[c], asked \subseteq asked',
         buffer'[c] # <<>> => processing[c]
  PROVE  OwnTask(c)'
BY DEF OwnTask

\* A worker that works for c holds its only task.
LEMMA WorkerOwns ==
  ASSUME Base, NEW c \in Conn, OwnTask(c), NEW w \in Worker, Counted(worker[w], c)
  PROVE  processing[c] /\ NumTasks(c) = 1
BY CountTypes DEF OwnTask

\* A worker that gives up or ends the chain of c.
LEMMA WorkerRests ==
  ASSUME Base, NEW c \in Conn, OwnTask(c), NEW w \in Worker, Counted(worker[w], c),
         NEW s, worker' = [worker EXCEPT ![w] = s], ~Counted(s, c),
         UNCHANGED <<queue, pushing>>,
         \/ processing'[c] = processing[c] /\ (isClosed'[c] \/ c \in asked')
         \/ ~processing'[c] /\ buffer'[c] = <<>>
  PROVE  OwnTask(c)'
<1> DEFINE a == One(Counted(s, c))
           b == One(Counted(worker[w], c))
<1>1. processing[c] /\ NumTasks(c) = 1
  BY WorkerOwns
<1>2. NumTasks(c)' = NumTasks(c) + a - b
  BY WorkerCount
<1>3. a = 0 /\ b = 1
  BY DEF One
<1> HIDE DEF a, b
<1>4. NumTasks(c)' = 0
  BY <1>1, <1>2, <1>3
<1> QED
  BY <1>1, <1>4 DEF OwnTask

\* A step of worker w for c in which c keeps its worker.
LEMMA WorkerKeeps ==
  ASSUME Base, NEW w \in Worker, NEW c \in Conn, worker[w].c = c, worker[w].pc # "leave",
         NEW s, worker' = [worker EXCEPT ![w] = s], s.c = c, s.pc # "leave",
         UNCHANGED <<queue, pushing>>, NEW d \in Conn
  PROVE  NumTasks(d)' = NumTasks(d)
<1>1. Counted(s, d) = Counted(worker[w], d)
  BY DEF Counted
<1>2. NumTasks(d) \in Nat
  BY CountTypes
<1>3. NumTasks(d)' = NumTasks(d) + One(Counted(s, d)) - One(Counted(worker[w], d))
  BY WorkerCount
<1> QED
  BY <1>1, <1>2, <1>3 DEF One

\* A step of worker w for c is nobody else's.
LEMMA OthersKeep ==
  ASSUME Base, NEW w \in Worker, NEW c \in Conn, worker[w].c = c,
         NEW s, worker' = [worker EXCEPT ![w] = s], s.c \in {c, None},
         UNCHANGED <<queue, pushing>>, NEW d \in Conn, d # c
  PROVE  NumTasks(d)' = NumTasks(d)
<1>1. ~Counted(s, d) /\ ~Counted(worker[w], d)
  BY ConnectionConstants DEF Counted
<1>2. NumTasks(d) \in Nat
  BY CountTypes
<1>3. NumTasks(d)' = NumTasks(d) + One(Counted(s, d)) - One(Counted(worker[w], d))
  BY WorkerCount
<1>4. One(Counted(s, d)) = 0 /\ One(Counted(worker[w], d)) = 0
  BY <1>1 DEF One
<1> QED
  BY <1>2, <1>3, <1>4

\* A worker gives up the chain of c, which it has asked to close.
LEMMA RestTask ==
  ASSUME Base, NEW w \in Worker, NEW c \in Conn, worker[w].c = c, worker[w].pc # "leave",
         Rest(w), c \in asked', asked \subseteq asked',
         UNCHANGED <<isClosed, buffer, processing, pushing, queue>>,
         NEW d \in Conn, OwnTask(d)
  PROVE  OwnTask(d)'
<1>1. worker' = [worker EXCEPT ![w] = Idle] /\ Idle.c = None
  BY IdleIs DEF Rest
<1>2. Counted(worker[w], c) /\ ~Counted(Idle, c)
  BY <1>1, ConnectionConstants DEF Counted
<1>3. CASE d = c
  BY <1>1, <1>2, <1>3, WorkerRests
<1>4. CASE d # c
  <2>1. NumTasks(d)' = NumTasks(d)
    BY <1>1, <1>4, OthersKeep
  <2> QED
    BY <2>1, OwnTaskKept DEF OwnTask
<1> QED
  BY <1>3, <1>4

LEMMA TakeTask ==
  ASSUME Base, TaskInv, NEW w \in Worker, Take(w), NEW d \in Conn \ raced
  PROVE  OwnTask(d)'
<1> DEFINE t == Head(queue)
<1>1. /\ worker[w].pc = "idle" /\ queue # <<>> /\ queue' = Tail(queue)
      /\ UNCHANGED <<isClosed, buffer, processing, pushing, asked, raced>>
  BY DEF Take, history
<1>2. \/ (isClosed[t.c] \/ t.c \in raced) /\ worker' = [worker EXCEPT ![w] = Idle]
      \/ worker' = [worker EXCEPT ![w] =
            [pc |-> IF t.task = Handler THEN "parse" ELSE "send",
             c |-> t.c, task |-> t.task, took |-> 0]]
  BY DEF Take, Begin, Rest
<1>3. worker[w].c = None /\ d # None
  BY <1>1, ConnectionConstants DEF Base, NamesInUse
<1>4. Cardinality(Queued(d)') = Cardinality(Queued(d)) - One(t.c = d)
  BY <1>1, QueueShrinks
<1>5. /\ Cardinality(Tasks(d)) \in Nat /\ Cardinality(Queued(d)) \in Nat
      /\ Waiting(d) \in {0, 1}
      /\ NumTasks(d)' = Cardinality(Tasks(d)') + Cardinality(Queued(d)') + Waiting(d)
      /\ NumTasks(d) = Cardinality(Tasks(d)) + Cardinality(Queued(d)) + Waiting(d)
  BY <1>1, CountTypes DEF NumTasks, Waiting
<1>6. ~Counted(worker[w], d)
  BY <1>3 DEF Counted
<1> HIDE DEF t
<1>7. CASE (isClosed[t.c] \/ t.c \in raced) /\ worker' = [worker EXCEPT ![w] = Idle]
  <2>1. Cardinality(Tasks(d)') = Cardinality(Tasks(d))
    <3>1. Cardinality(Tasks(d)') =
            Cardinality(Tasks(d)) + One(Counted(Idle, d)) - One(Counted(worker[w], d))
      BY <1>7, TasksChange
    <3>2. One(Counted(Idle, d)) = 0 /\ One(Counted(worker[w], d)) = 0
      BY <1>3, <1>6, IdleIs DEF One, Counted
    <3> QED
      BY <1>5, <3>1, <3>2
  <2>2. CASE t.c = d
    <3>1. isClosed[d] /\ NumTasks(d)' = NumTasks(d) - 1
      BY <1>4, <1>5, <1>7, <2>1, <2>2 DEF One
    <3>2. Cardinality(Queued(d)) # 0
      <4>1. queue \in Seq([task : Task, c : Conn]) /\ Len(queue) \in Nat \ {0}
        BY <1>1, EmptySeq, LenProperties DEF Base, TypeOK, PoolTypeOK
      <4>2. 1 \in Queued(d)
        BY <2>2, <4>1 DEF Queued, t
      <4> QED
        BY <4>2, CountTypes, FS_EmptySet
    <3>3. NumTasks(d) >= 1
      BY <1>5, <3>2
    <3>4. processing[d] /\ NumTasks(d) = 1
      BY <3>3 DEF TaskInv, OwnTask
    <3> QED
      BY <1>1, <3>1, <3>4 DEF OwnTask
  <2>3. CASE t.c # d
    <3>1. NumTasks(d)' = NumTasks(d)
      BY <1>4, <1>5, <2>1, <2>3 DEF One
    <3> QED
      BY <1>1, <3>1, OwnTaskKept DEF TaskInv, OwnTask
  <2> QED
    BY <2>2, <2>3
<1>8. ASSUME NEW s, worker' = [worker EXCEPT ![w] = s],
             s = [pc |-> IF t.task = Handler THEN "parse" ELSE "send",
                  c |-> t.c, task |-> t.task, took |-> 0]
      PROVE  OwnTask(d)'
  <2>1. Counted(s, d) <=> t.c = d
    BY <1>8 DEF Counted
  <2>2. Cardinality(Tasks(d)') = Cardinality(Tasks(d)) + One(t.c = d)
    <3>1. Cardinality(Tasks(d)') =
            Cardinality(Tasks(d)) + One(Counted(s, d)) - One(Counted(worker[w], d))
      BY <1>8, TasksChange
    <3>2. One(Counted(s, d)) = One(t.c = d) /\ One(Counted(worker[w], d)) = 0
      BY <1>6, <2>1 DEF One
    <3>3. One(t.c = d) \in {0, 1}
      BY DEF One
    <3> QED
      BY <1>5, <3>1, <3>2, <3>3
  <2>3. NumTasks(d)' = NumTasks(d)
    BY <1>4, <1>5, <2>2 DEF One
  <2> QED
    BY <1>1, <2>3, OwnTaskKept DEF TaskInv, OwnTask
<1> QED
  BY <1>2, <1>7, <1>8

LEMMA ParseTask ==
  ASSUME Base, TaskInv, NEW w \in Worker, NEW c \in Conn, ParseOn(w, c) \/ Parse(w, c),
         NEW d \in Conn \ raced
  PROVE  OwnTask(d)'
<1>1. /\ worker[w].pc = "parse" /\ worker[w].c = c /\ c \notin raced
      /\ UNCHANGED <<isClosed, buffer, processing, pushing, queue>>
      /\ asked \subseteq asked'
  BY DEF ParseOn, Parse, At, AskToClose, connection, history
<1>2. \/ \E n \in Nat, label \in {"finish", "notify"} : Took(w, label, n)
      \/ Rest(w) /\ c \in asked'
  <2>1. CASE ParseOn(w, c)
    <3>1. Cardinality(Handled(c)) \in Nat
      <4>1. PICK n \in 0 .. Len(buffer[c]) : Handled(c) = 1 .. n
        BY HandledIs
      <4>2. n \in Nat
        BY LenProperties DEF Base, TypeOK, ConnectionTypeOK
      <4> QED
        BY <4>1, <4>2, FS_Interval, FS_CardinalityType, 1 \in Int
    <3> QED
      BY <2>1, <3>1 DEF ParseOn
  <2>2. CASE Parse(w, c)
    <3>1. \A end \in Ends(c) : end \in Nat
      BY HandledIs DEF Ends
    <3> QED
      BY <2>2, <3>1 DEF Parse, AskToClose
  <2> QED
    BY <2>1, <2>2
<1>3. OwnTask(d)
  BY DEF TaskInv
<1>4. CASE \E n \in Nat, label \in {"finish", "notify"} : Took(w, label, n)
  <2>1. PICK s \in WorkerState :
          worker' = [worker EXCEPT ![w] = s] /\ s.pc # "leave" /\ s.c = c
    BY <1>1, <1>4, TookIs DEF Labels
  <2>2. NumTasks(d)' = NumTasks(d)
    BY <1>1, <2>1, WorkerKeeps
  <2> QED
    BY <1>1, <1>3, <2>2, OwnTaskKept DEF OwnTask
<1>5. CASE Rest(w) /\ c \in asked'
  BY <1>1, <1>3, <1>5, RestTask
<1> QED
  BY <1>2, <1>4, <1>5

LEMMA AppendPieceTask ==
  ASSUME Base, TaskInv, NEW w \in Worker, NEW c \in Conn,
         AppendPiece(w, c) \/ NotifyResponse(w, c), NEW d \in Conn \ raced
  PROVE  OwnTask(d)'
<1>1. /\ worker[w].pc \in {"send", "notify"} /\ worker[w].c = c /\ c \notin raced
      /\ UNCHANGED <<isClosed, buffer, processing, pushing, queue>>
      /\ asked \subseteq asked'
  BY DEF AppendPiece, NotifyResponse, At, AskToClose, history
<1>2. \/ \E label \in {"finish", "notify"} : Goto(w, label)
      \/ Rest(w) /\ c \in asked'
  BY DEF AppendPiece, NotifyResponse, AskToClose
<1>3. OwnTask(d)
  BY DEF TaskInv
<1>4. CASE \E label \in {"finish", "notify"} : Goto(w, label)
  <2>1. PICK s \in WorkerState :
          worker' = [worker EXCEPT ![w] = s] /\ s.pc # "leave" /\ s.c = c
    BY <1>1, <1>4, GotoIs DEF Labels
  <2>2. NumTasks(d)' = NumTasks(d)
    BY <1>1, <2>1, WorkerKeeps
  <2> QED
    BY <1>1, <1>3, <2>2, OwnTaskKept DEF OwnTask
<1>5. CASE Rest(w) /\ c \in asked'
  BY <1>1, <1>3, <1>5, RestTask
<1> QED
  BY <1>2, <1>4, <1>5

\* The task goes from the worker's hand to the ring.
LEMMA Handover ==
  ASSUME Base, NEW w \in Worker, NEW c \in Conn, worker[w].c = c, worker[w].pc # "leave",
         worker' = [worker EXCEPT ![w] = Idle], UNCHANGED pushing,
         NEW t \in [task : Task, c : Conn], t.c = c, Len(queue) < RingCapacity,
         queue' = Append(queue, t), NEW d \in Conn
  PROVE  NumTasks(d)' = NumTasks(d)
<1> DEFINE a == One(Counted(Idle, d))
           b == One(Counted(worker[w], d))
           e == One(t.c = d)
<1>1. a = 0 /\ b = e /\ e \in {0, 1}
  BY IdleIs, ConnectionConstants DEF One, Counted
<1>2. Cardinality(Tasks(d)') = Cardinality(Tasks(d)) + a - b
  BY TasksChange
<1>3. Cardinality(Queued(d)') = Cardinality(Queued(d)) + e
  BY QueueGrows
<1>4. /\ Cardinality(Tasks(d)) \in Nat /\ Cardinality(Queued(d)) \in Nat
      /\ Waiting(d) \in {0, 1}
      /\ NumTasks(d)' = Cardinality(Tasks(d)') + Cardinality(Queued(d)') + Waiting(d)
      /\ NumTasks(d) = Cardinality(Tasks(d)) + Cardinality(Queued(d)) + Waiting(d)
  BY CountTypes DEF NumTasks, Waiting
<1> HIDE DEF a, b, e
<1> QED
  BY <1>1, <1>2, <1>3, <1>4

LEMMA FinishTask ==
  ASSUME Base, TaskInv, NEW w \in Worker, NEW c \in Conn, Finish(w, c),
         NEW d \in Conn \ raced
  PROVE  OwnTask(d)'
<1> DEFINE left == LeftOf(w, c)
           next == Successor(c, left)
           t == [task |-> next, c |-> c]
<1>1. /\ worker[w].pc = "finish" /\ worker[w].c = c /\ c \notin raced
      /\ buffer' = [buffer EXCEPT ![c] = left]
      /\ UNCHANGED <<isClosed, pushing, asked, raced>>
  BY DEF Finish, At, history
<1>2. \/ /\ next = None /\ processing' = [processing EXCEPT ![c] = FALSE]
         /\ Goto(w, "leave") /\ UNCHANGED queue
      \/ next # None /\ Chain(w, t) /\ UNCHANGED processing
  BY DEF Finish
<1>3. next = None => left = <<>>
  BY ConnectionConstants DEF Successor, Task
<1>4. next # None => t \in [task : Task, c : Conn]
  BY SuccessorType
<1>5. OwnTask(d) /\ OwnTask(c)
  BY <1>1 DEF TaskInv
<1>6. /\ \A e \in Conn \ {c} : buffer'[e] = buffer[e]
      /\ buffer'[c] = left
  BY <1>1 DEF Base, TypeOK, ConnectionTypeOK
<1>7. InUse(c) /\ Counted(worker[w], c)
  BY <1>1, AtWork DEF Counted
<1> HIDE DEF left, next
<1>8. CASE next = None
  <2>1. PICK s \in WorkerState :
          worker' = [worker EXCEPT ![w] = s] /\ s.pc = "leave" /\ s.c = c
    BY <1>1, <1>2, <1>8, GotoIs DEF Labels
  <2>2. processing' = [processing EXCEPT ![c] = FALSE] /\ UNCHANGED queue
    BY <1>2, <1>8
  <2>3. CASE d = c
    <3>1. ~processing'[c] /\ buffer'[c] = <<>>
      BY <1>3, <1>6, <1>8, <2>2 DEF Base, TypeOK, ConnectionTypeOK
    <3>2. ~Counted(s, c)
      BY <2>1 DEF Counted
    <3> QED
      BY <1>1, <1>5, <1>7, <2>1, <2>2, <2>3, <3>1, <3>2, WorkerRests
  <2>4. CASE d # c
    <3>1. NumTasks(d)' = NumTasks(d)
      BY <1>1, <2>1, <2>2, <2>4, OthersKeep
    <3>2. processing'[d] = processing[d]
      BY <2>2, <2>4 DEF Base, TypeOK, ConnectionTypeOK
    <3> QED
      BY <1>1, <1>5, <1>6, <2>4, <3>1, <3>2, OwnTaskKept DEF OwnTask
  <2> QED
    BY <2>3, <2>4
<1>9. CASE next # None
  <2>1. /\ t \in [task : Task, c : Conn] /\ t.c = c /\ Chain(w, t)
        /\ UNCHANGED processing
    BY <1>2, <1>4, <1>9
  <2>2. PICK s \in WorkerState :
          /\ worker' = [worker EXCEPT ![w] = s]
          /\ \/ s = Idle /\ Len(queue) < RingCapacity /\ queue' = Append(queue, t)
             \/ s = Idle /\ isClosed[c] /\ UNCHANGED queue
             \/ s.c = c /\ s.pc # "leave" /\ UNCHANGED queue
    BY <1>7, <2>1, ChainIs
  <2> HIDE DEF t
  <2>3. processing[c]
    BY <1>5, <1>7, WorkerOwns
  <2>4. buffer'[d] # <<>> => processing[d]
    BY <1>5, <1>6, <2>3 DEF OwnTask
  <2>5. CASE s = Idle /\ Len(queue) < RingCapacity /\ queue' = Append(queue, t)
    <3>1. NumTasks(d)' = NumTasks(d)
      BY <1>1, <2>1, <2>2, <2>5, Handover
    <3> QED
      BY <1>1, <1>5, <2>1, <2>4, <3>1, OwnTaskKept
  <2>6. CASE s = Idle /\ isClosed[c] /\ UNCHANGED queue
    <3>1. s.c = None /\ ~Counted(s, c)
      BY <2>6, IdleIs, ConnectionConstants DEF Counted
    <3>2. CASE d = c
      <4>1. processing'[c] = processing[c] /\ isClosed'[c]
        BY <1>1, <2>1, <2>6
      <4> QED
        BY <1>1, <1>5, <1>7, <2>2, <2>6, <3>1, <3>2, <4>1, WorkerRests
    <3>3. CASE d # c
      <4>1. NumTasks(d)' = NumTasks(d)
        BY <1>1, <2>2, <2>6, <3>1, <3>3, OthersKeep
      <4> QED
        BY <1>1, <1>5, <2>1, <2>4, <4>1, OwnTaskKept
    <3> QED
      BY <3>2, <3>3
  <2>7. CASE s.c = c /\ s.pc # "leave" /\ UNCHANGED queue
    <3>1. NumTasks(d)' = NumTasks(d)
      BY <1>1, <2>2, <2>7, WorkerKeeps
    <3> QED
      BY <1>1, <1>5, <2>1, <2>4, <3>1, OwnTaskKept
  <2> QED
    BY <2>2, <2>5, <2>6, <2>7
<1> QED
  BY <1>8, <1>9

LEMMA LeaveTask ==
  ASSUME Base, TaskInv, NEW w \in Worker, NEW c \in Conn, Leave(w, c),
         NEW d \in Conn \ raced'
  PROVE  OwnTask(d)'
<1>1. /\ worker[w].pc = "leave" /\ worker[w].c = c /\ raced \subseteq raced'
      /\ UNCHANGED <<isClosed, buffer, processing, pushing, queue, asked>>
  BY DEF Leave, At, connection
<1>2. \/ worker' = [worker EXCEPT ![w] = Idle]
      \/ Goto(w, "chain") /\ c \in raced'
  BY DEF Leave, Rest
<1>3. OwnTask(d)
  BY <1>1 DEF TaskInv
<1>4. NumTasks(d)' = NumTasks(d)
  <2>1. CASE worker' = [worker EXCEPT ![w] = Idle]
    <3> DEFINE a == One(Counted(Idle, d))
               b == One(Counted(worker[w], d))
    <3>1. a = 0 /\ b = 0
      BY <1>1, IdleIs, ConnectionConstants DEF One, Counted
    <3>2. NumTasks(d)' = NumTasks(d) + a - b /\ NumTasks(d) \in Nat
      BY <1>1, <2>1, WorkerCount, CountTypes
    <3> HIDE DEF a, b
    <3> QED
      BY <3>1, <3>2
  <2>2. CASE Goto(w, "chain") /\ c \in raced'
    <3>1. PICK s \in WorkerState : worker' = [worker EXCEPT ![w] = s] /\ s.c = c
      BY <1>1, <2>2, GotoIs DEF Labels
    <3>2. d # c
      BY <2>2
    <3> QED
      BY <1>1, <3>1, <3>2, OthersKeep
  <2> QED
    BY <1>2, <2>1, <2>2
<1> QED
  BY <1>1, <1>3, <1>4, OwnTaskKept DEF OwnTask

LEMMA AbandonTask ==
  ASSUME Base, TaskInv, NEW w \in Worker, Abandon(w), NEW d \in Conn \ raced
  PROVE  OwnTask(d)'
<1>1. /\ worker[w].c \in raced /\ worker' = [worker EXCEPT ![w] = Idle]
      /\ UNCHANGED <<isClosed, buffer, processing, pushing, queue, asked>>
  BY DEF Abandon, Rest, connection, history
<1>2. worker[w].c \in Conn /\ worker[w].c # d
  BY <1>1 DEF Base, TypeOK, PoolTypeOK
<1>3. NumTasks(d)' = NumTasks(d)
  BY <1>1, <1>2, OthersKeep, IdleIs
<1> QED
  BY <1>1, <1>3, OwnTaskKept DEF TaskInv, OwnTask

LEMMA PoolStepTask ==
  ASSUME Base, TaskInv, NEW w \in Worker, PoolStep(w)
  PROVE  TaskInv'
<1> SUFFICES ASSUME NEW d \in Conn \ raced' PROVE OwnTask(d)'
  BY DEF TaskInv
<1>1. WorkerStep(w)
  BY DEF PoolStep
<1>2. CASE Take(w)
  BY <1>2, TakeTask DEF Take, history
<1>3. CASE Abandon(w)
  BY <1>3, AbandonTask DEF Abandon, history
<1>4. ASSUME NEW c \in Conn, ParseOn(w, c) \/ Parse(w, c) PROVE OwnTask(d)'
  <2>1. UNCHANGED raced
    BY <1>4 DEF ParseOn, Parse, history
  <2> QED
    BY <1>4, <2>1, ParseTask
<1>5. ASSUME NEW c \in Conn, AppendPiece(w, c) \/ NotifyResponse(w, c)
      PROVE  OwnTask(d)'
  <2>1. UNCHANGED raced
    BY <1>5 DEF AppendPiece, NotifyResponse, history
  <2> QED
    BY <1>5, <2>1, AppendPieceTask
<1>6. ASSUME NEW c \in Conn, Finish(w, c) PROVE OwnTask(d)'
  BY <1>6, FinishTask DEF Finish, history
<1>7. ASSUME NEW c \in Conn, Leave(w, c) PROVE OwnTask(d)'
  BY <1>7, LeaveTask
<1> QED
  BY <1>1, <1>2, <1>3, <1>4, <1>5, <1>6, <1>7 DEF WorkerStep

\* push puts the task that the main thread holds into the ring.
LEMMA PushTask ==
  ASSUME Base, TaskInv, Push, NEW d \in Conn \ raced
  PROVE  OwnTask(d)'
<1> DEFINE t == [task |-> Handler, c |-> pushing]
           e == One(t.c = d)
<1>1. /\ pushing # None /\ Len(queue) < RingCapacity /\ queue' = Append(queue, t)
      /\ pushing' = None
      /\ UNCHANGED <<isClosed, buffer, processing, worker, asked>>
  BY DEF Push, connection, history
<1>2. t \in [task : Task, c : Conn]
  BY <1>1 DEF Base, TypeOK, PoolTypeOK, Task
<1>3. Cardinality(Queued(d)') = Cardinality(Queued(d)) + e
  BY <1>1, <1>2, QueueGrows
<1>4. /\ Cardinality(Tasks(d)) \in Nat /\ Cardinality(Queued(d)) \in Nat
      /\ NumTasks(d)' = Cardinality(Tasks(d)') + Cardinality(Queued(d)') + Waiting(d)'
      /\ NumTasks(d) = Cardinality(Tasks(d)) + Cardinality(Queued(d)) + Waiting(d)
      /\ Tasks(d)' = Tasks(d)
  BY <1>1, CountTypes DEF NumTasks, Tasks
<1>5. Waiting(d) = e /\ Waiting(d)' = 0 /\ e \in {0, 1}
  BY <1>1, ConnectionConstants DEF Waiting, One
<1> HIDE DEF e, t
<1>6. NumTasks(d)' = NumTasks(d)
  BY <1>3, <1>4, <1>5
<1> QED
  BY <1>1, <1>6, OwnTaskKept DEF TaskInv, OwnTask

\* A chunk starts a chain where there is none.
LEMMA ReceiveTask ==
  ASSUME Base, TaskInv, NEW c \in Conn, NEW s, Receive(c, s), NEW d \in Conn \ raced
  PROVE  OwnTask(d)'
<1>1. /\ pushing = None
      /\ buffer' = [buffer EXCEPT ![c] = @ \o s]
      /\ processing' = [processing EXCEPT ![c] = TRUE]
      /\ pushing' = IF processing[c] THEN None ELSE c
      /\ UNCHANGED <<isClosed, queue, worker, asked>>
  BY DEF Receive, history
<1>2. /\ Cardinality(Tasks(d)) \in Nat /\ Cardinality(Queued(d)) \in Nat
      /\ NumTasks(d)' = Cardinality(Tasks(d)) + Cardinality(Queued(d)) + Waiting(d)'
      /\ NumTasks(d) = Cardinality(Tasks(d)) + Cardinality(Queued(d)) + Waiting(d)
  BY <1>1, CountTypes DEF NumTasks, Tasks, Queued
<1>3. Waiting(d) = 0
  BY <1>1, ConnectionConstants DEF Waiting
<1>4. OwnTask(d)
  BY DEF TaskInv
<1>5. CASE d = c /\ ~processing[c]
  <2>1. Waiting(d)' = 1
    BY <1>1, <1>5 DEF Waiting
  <2>2. NumTasks(d) = 0
    BY <1>4, <1>5 DEF OwnTask
  <2>3. NumTasks(d)' = 1
    BY <1>2, <1>3, <2>1, <2>2
  <2>4. processing'[d]
    BY <1>1, <1>5 DEF Base, TypeOK, ConnectionTypeOK
  <2> QED
    BY <2>3, <2>4 DEF OwnTask
<1>6. CASE ~(d = c /\ ~processing[c])
  <2>1. Waiting(d)' = 0
    BY <1>1, <1>6, ConnectionConstants DEF Waiting
  <2>2. NumTasks(d)' = NumTasks(d)
    BY <1>2, <1>3, <2>1
  <2>3. processing'[d] = processing[d]
    BY <1>1, <1>6 DEF Base, TypeOK, ConnectionTypeOK
  <2>4. buffer'[d] # <<>> => processing[d]
    BY <1>1, <1>4, <1>6 DEF Base, TypeOK, ConnectionTypeOK, OwnTask
  <2> QED
    BY <1>1, <1>4, <2>2, <2>3, <2>4, OwnTaskKept
<1> QED
  BY <1>5, <1>6

\* A step that leaves the pool and the tasks alone, and may close a connection.
LEMMA ElsewhereTask ==
  ASSUME Base, TaskInv,
         UNCHANGED <<pushing, queue, worker, processing, buffer, asked, raced>>,
         \A d \in Conn : isClosed[d] => isClosed'[d]
  PROVE  TaskInv'
<1> SUFFICES ASSUME NEW d \in Conn \ raced PROVE OwnTask(d)'
  BY DEF TaskInv
<1>1. NumTasks(d)' = NumTasks(d)
  BY CountKept
<1> QED
  BY <1>1, OwnTaskKept DEF TaskInv, OwnTask

LEMMA ClosedStays ==
  ASSUME Base, NEW c, Write(c) \/ Except(c) \/ UNCHANGED isClosed
  PROVE  \A d \in Conn : isClosed[d] => isClosed'[d]
BY DEF Write, Except, Base, TypeOK, ConnectionTypeOK

LEMMA MainStepTask == Base /\ TaskInv /\ MainStep => TaskInv'
<1> SUFFICES ASSUME Base, TaskInv, MainStep PROVE TaskInv'
  OBVIOUS
<1>1. CASE ReadPush
  <2>1. Push /\ UNCHANGED raced
    BY <1>1 DEF ReadPush, Push, history
  <2> QED
    BY <2>1, PushTask DEF TaskInv
<1>2. ASSUME NEW c \in Conn, ReadChunk(c) PROVE TaskInv'
  <2>1. PICK s : Receive(c, s)
    BY <1>2 DEF ReadChunk
  <2>2. UNCHANGED raced
    BY <2>1 DEF Receive, history
  <2> QED
    BY <2>1, <2>2, ReceiveTask DEF TaskInv
<1>3. CASE EpollWait \/ AcceptDone \/ NotesDone
  <2>1. UNCHANGED connectionVars
    BY <1>3 DEF EpollWait, AcceptDone, NotesDone
  <2> QED
    BY <2>1, ElsewhereTask DEF connectionVars, connection, pool, history
<1>4. ASSUME NEW c \in Conn, Refuse(c) \/ ReadDone(c) PROVE TaskInv'
  <2>1. UNCHANGED connectionVars
    BY <1>4 DEF Refuse, ReadDone
  <2> QED
    BY <2>1, ElsewhereTask DEF connectionVars, connection, pool, history
<1>5. ASSUME NEW e \in events, Dispatch(e) PROVE TaskInv'
  <2>1. UNCHANGED <<connection, pool, history>>
    BY <1>5 DEF Dispatch
  <2> QED
    BY <2>1, ElsewhereTask DEF connection, pool, history
<1>6. ASSUME NEW c \in Conn, Accept(c) PROVE TaskInv'
  <2>1. UNCHANGED <<isClosed, buffer, processing, pool, history>>
    BY <1>6 DEF Accept
  <2> QED
    BY <2>1, ElsewhereTask DEF pool, history
<1>7. ASSUME NEW c \in Conn, ReadClosed(c) \/ WriteEvent(c) PROVE TaskInv'
  <2>1. /\ Except(c) \/ Write(c)
        /\ UNCHANGED <<buffer, processing, pool, history>>
    BY <1>7 DEF ReadClosed, WriteEvent
  <2>2. \A d \in Conn : isClosed[d] => isClosed'[d]
    BY <2>1, ClosedStays
  <2> QED
    BY <2>1, <2>2, ElsewhereTask DEF pool, history
<1>8. CASE Note
  <2>1. /\ \E c : Except(c) \/ Write(c) \/ UNCHANGED isClosed
        /\ UNCHANGED <<buffer, processing, pool, history>>
    BY <1>8 DEF Note
  <2>2. \A d \in Conn : isClosed[d] => isClosed'[d]
    BY <2>1, ClosedStays
  <2> QED
    BY <2>1, <2>2, ElsewhereTask DEF pool, history
<1> QED
  BY <1>1, <1>2, <1>3, <1>4, <1>5, <1>6, <1>7, <1>8 DEF MainStep

LEMMA NextTask == Base /\ TaskInv /\ [Next]_vars => TaskInv'
<1> SUFFICES ASSUME Base, TaskInv, [Next]_vars PROVE TaskInv'
  OBVIOUS
<1>1. ASSUME NEW c \in Conn, ClientStep(c) PROVE TaskInv'
  <2>1. UNCHANGED connectionVars
    BY <1>1 DEF ClientStep, Connect, ClientSend, ClientReceive, ClientClose
  <2> QED
    BY <2>1, ElsewhereTask DEF connectionVars, connection, pool, history
<1>2. CASE UNCHANGED vars
  BY <1>2, ElsewhereTask DEF vars, connectionVars, connection, pool, history
<1> QED
  BY <1>1, <1>2, MainStepTask, PoolStepTask DEF Next

LEMMA InitTask == Init => TaskInv
<1> SUFFICES ASSUME Init, NEW c \in Conn PROVE OwnTask(c)
  BY DEF TaskInv
<1>1. Tasks(c) = {} /\ Queued(c) = {} /\ Waiting(c) = 0
  BY ConnectionConstants DEF Init, Tasks, Queued, Waiting, Idle
<1>2. NumTasks(c) = 0
  BY <1>1, FS_EmptySet DEF NumTasks
<1> QED
  BY <1>2 DEF Init, OwnTask

LEMMA TaskInvHolds == Spec => [](Base /\ TaskInv)
<1>1. Init => Base /\ TaskInv
  BY InitBase, InitTask
<1>2. Base /\ TaskInv /\ [Next]_vars => (Base /\ TaskInv)'
  BY NextBase, NextTask
<1> QED
  BY <1>1, <1>2, PTL DEF Spec

\* Until two workers meet in a connection, _is_processing says exactly that one
\* of its tasks is in the pool or on its way there, whatever the number of
\* workers and slots and however the chunks arrive; a chain that has been given
\* up leaves a connection that is closed or has been asked to.
THEOREM ProcessingIsOneTask == Spec => []ProcessingMeansOneTask
<1>1. TaskInv => ProcessingMeansOneTask
  BY DEF TaskInv, OwnTask, ProcessingMeansOneTask
<1> QED
  BY <1>1, TaskInvHolds, PTL

\* For all sizes of ring, reads and parts, no byte waits in a request buffer
\* without a task that is going to read it: the end of a chain and the next
\* chunk do not miss each other.
THEOREM BufferedDataIsParsed == Spec => []BufferedDataHasATask
<1>1. TaskInv => BufferedDataHasATask
  BY DEF TaskInv, OwnTask, BufferedDataHasATask
<1> QED
  BY <1>1, TaskInvHolds, PTL
=============================================================================
