---------------------------- MODULE Connection -----------------------------
(***************************************************************************)
(* src/HTTPconnection.hpp: the tasks that the worker threads run for a     *)
(* connection.  handler parses a piece of the request buffer; sendFile     *)
(* appends one piece of a file to the response buffer; each of them ends   *)
(* by choosing what the connection does next, so that a connection walks   *)
(* through the pool as a chain of tasks, and _is_processing says that the  *)
(* chain is alive.  The main thread (module Reactor) starts a chain, and   *)
(* learns through the pipe that there is something to send or to close.    *)
(*                                                                         *)
(* The pool is the queue that ThreadPool implements.  Bytes are abstracted *)
(* to pieces.  A piece of a request names the request and says whether it  *)
(* is the last one; a response has a head, piece 0, and the pieces of the  *)
(* file that sendFile adds.                                                *)
(***************************************************************************)
EXTENDS Integers, Sequences, FiniteSets, FiniteSetsExt

CONSTANTS
  Conn,          \* connections, each a client of its own
  Worker,        \* worker threads
  None,          \* no connection, and an empty _sub_task
  Scenario,      \* what the clients may ask for, see body
  HandleSize,    \* per_handle_request_size, in pieces
  RingCapacity,  \* _task_queue_capacity
  PipeCapacity   \* notifications that fit into the pipe

Kind == {"plain", "showlist", "malformed", "download"}

Request ==
  {r \in [kind : Kind, size : Nat \ {0}, pieces : Nat] :
     r.kind # "download" => r.pieces = 0}

Handler == <<"handler">>
SendFile(r, k) == <<"sendFile", r, k>>

Task == {Handler} \cup {"sendFile"} \X (Nat \ {0}) \X (Nat \ {0})

ASSUME ConnectionConstants ==
  /\ IsFiniteSet(Conn) /\ IsFiniteSet(Worker) /\ None \notin Conn \cup Task
  /\ Scenario \subseteq [Conn -> Seq(Request)]
  /\ {HandleSize, RingCapacity, PipeCapacity} \subseteq Nat \ {0}

VARIABLES
  body,        \* body[c]: the requests that the client of c sends
  identifier,  \* _net_fd_identifier, "fd_usetime"
  isClosed,    \* _is_closed
  buffer,      \* _request_buffer
  processing,  \* _is_processing
  subTask,     \* _sub_task
  response,    \* _response_buffer
  pushing,     \* the connection for which the main thread is inside push
  queue,       \* the ring of the thread pool
  pipe,        \* notifications written and not read
  worker,      \* where each worker thread is
  asked,       \* history: the connections notify_close_curent_connection named
  raced        \* history: the connections that two workers worked for at once

connection == <<body, identifier, isClosed, buffer, processing, subTask,
                response>>
pool == <<pushing, queue, worker>>
history == <<asked, raced>>
connectionVars == <<connection, pool, pipe, history>>

Idle == [pc |-> "idle", c |-> None, task |-> Handler, took |-> 0]

Goto(w, label) == worker' = [worker EXCEPT ![w].pc = label]

Rest(w) == worker' = [worker EXCEPT ![w] = Idle]

\* notify_close_curent_connection, notify_new_message_need_send: a write to
\* the pipe, which blocks while the pipe is full
Notify(op, c) ==
  /\ Len(pipe) < PipeCapacity
  /\ pipe' = Append(pipe, [op |-> op, id |-> identifier[c]])

AskToClose(c) == Notify("c", c) /\ asked' = asked \cup {c}

\* The main thread waits for room in the ring with _request_mutex in its hand
RequestMutexFree(c) == pushing # c

-----------------------------------------------------------------------------
(* The main thread's side: NetReader's loop body and push                  *)

\* Mutant: a chain is started for every chunk
ReceiveAlways(c, s) ==
  /\ pushing = None
  /\ buffer' = [buffer EXCEPT ![c] = @ \o s]
  /\ processing' = [processing EXCEPT ![c] = TRUE]
  /\ pushing' = c
  /\ UNCHANGED <<body, identifier, isClosed, subTask, response, queue,
                 worker, pipe, history>>

Receive(c, s) ==
  /\ pushing = None
  /\ buffer' = [buffer EXCEPT ![c] = @ \o s]
  /\ processing' = [processing EXCEPT ![c] = TRUE]
  /\ pushing' = IF processing[c] THEN None ELSE c
  /\ UNCHANGED <<body, identifier, isClosed, subTask, response, queue,
                 worker, pipe, history>>

Push ==
  /\ pushing # None /\ Len(queue) < RingCapacity
  /\ queue' = Append(queue, [task |-> Handler, c |-> pushing])
  /\ pushing' = None
  /\ UNCHANGED <<connection, worker, pipe, history>>

-----------------------------------------------------------------------------
(* The tasks                                                               *)

\* handler and sendFile first return if the connection is closed, then empty
\* _sub_task.
Begin(w, t) ==
  /\ subTask' = [subTask EXCEPT ![t.c] = None]
  /\ worker' = [worker EXCEPT ![w] =
       [pc |-> IF t.task = Handler THEN "parse" ELSE "send",
        c |-> t.c, task |-> t.task, took |-> 0]]

\* Nothing is known about a connection that two workers entered at once: its
\* tasks are dropped.
Take(w) ==
  /\ worker[w].pc = "idle" /\ queue # <<>>
  /\ queue' = Tail(queue)
  /\ LET t == Head(queue)
     IN \/ (isClosed[t.c] \/ t.c \in raced) /\ Rest(w) /\ UNCHANGED subTask
        \/ ~isClosed[t.c] /\ t.c \notin raced /\ Begin(w, t)
  /\ UNCHANGED <<body, identifier, isClosed, buffer, processing, response,
                 pushing, pipe, history>>

At(w, label, c) ==
  worker[w].pc = label /\ worker[w].c = c /\ c \notin raced

Took(w, label, n) ==
  worker' = [worker EXCEPT ![w].pc = label, ![w].took = n]

Respond(c, r, k) == response' = [response EXCEPT ![c] = Append(@, <<r, k>>)]

\* The ends of requests among the first HandleSize pieces of the buffer
Handled(c) == 1 .. Min({Len(buffer[c]), HandleSize})
Ends(c) == {i \in Handled(c) : buffer[c][i].last}

\* handler: llhttp_execute.  The parser stops at the end of a message
\* (on_message_complete appends the response and returns HPE_PAUSED); without
\* one it keeps its state at the end of what it was given (HPE_OK).  The
\* request buffer is cut in Finish.
ParseOn(w, c) ==
  /\ At(w, "parse", c) /\ RequestMutexFree(c) /\ Ends(c) = {}
  /\ Took(w, "finish", Cardinality(Handled(c)))
  /\ UNCHANGED <<connection, pushing, queue, pipe, history>>

\* on_message_complete for the request that has arrived whole, r
Parse(w, c) == \E end \in Ends(c) :
  LET r == buffer[c][end].request
      kind == body[c][r].kind
  IN
  /\ At(w, "parse", c) /\ RequestMutexFree(c)
  /\ \A i \in Ends(c) : end <= i
  /\ \/ /\ kind = "malformed"
        /\ AskToClose(c)
        /\ Rest(w)
        /\ UNCHANGED <<response, subTask>>
     \/ /\ kind # "malformed"
        /\ subTask' = [subTask EXCEPT ![c] =
             IF kind = "download" THEN SendFile(r, 1) ELSE @]
        /\ Respond(c, r, 0)
        /\ \/ UNCHANGED <<pipe, asked>>
           \/ \* process_showlist_request: default.html cannot be read
              kind = "showlist" /\ AskToClose(c)
        /\ Took(w, "notify", end)
  /\ UNCHANGED <<body, identifier, isClosed, buffer, processing, pushing,
                 queue, raced>>

\* sendFile up to the append to the response buffer: start_pos >= end_pos
\* sends nothing, a file that cannot be read closes the connection
AppendPiece(w, c) ==
  LET r == worker[w].task[2]
      k == worker[w].task[3]
  IN
  /\ At(w, "send", c)
  /\ \/ /\ k > body[c][r].pieces
        /\ Goto(w, "finish")
        /\ UNCHANGED <<response, pipe, asked>>
     \/ /\ k <= body[c][r].pieces
        /\ Respond(c, r, k)
        /\ Goto(w, "notify")
        /\ UNCHANGED <<pipe, asked>>
     \/ /\ k <= body[c][r].pieces
        /\ AskToClose(c)
        /\ Rest(w)
        /\ UNCHANGED response
  /\ UNCHANGED <<body, identifier, isClosed, buffer, processing, subTask,
                 pushing, queue, raced>>

\* What sendFile does after its notification: it is its own successor until
\* the range is sent
NextPiece(c, task) ==
  IF task # Handler /\ task[3] < body[c][task[2]].pieces
  THEN SendFile(task[2], task[3] + 1)
  ELSE subTask[c]

NotifyResponse(w, c) ==
  /\ At(w, "notify", c)
  /\ Notify("w", c)
  /\ subTask' = [subTask EXCEPT ![c] = NextPiece(c, worker[w].task)]
  /\ Goto(w, "finish")
  /\ UNCHANGED <<body, identifier, isClosed, buffer, processing, response,
                 pushing, queue, history>>

\* Mutant: the free slots are not asked
ChainBlind(w, t) ==
  /\ queue' = Append(queue, t)
  /\ subTask' = [subTask EXCEPT ![t.c] = t.task]
  /\ Rest(w)

\* Mutant: a successor that finds no slot is lost
ChainLossy(w, t) ==
  /\ queue' = IF Len(queue) < RingCapacity THEN Append(queue, t) ELSE queue
  /\ subTask' = [subTask EXCEPT ![t.c] = t.task]
  /\ Rest(w)

\* try_push, or a direct call when the ring is full
Chain(w, t) ==
  \/ /\ Len(queue) < RingCapacity
     /\ queue' = Append(queue, t)
     /\ subTask' = [subTask EXCEPT ![t.c] = t.task]
     /\ Rest(w)
  \/ /\ Len(queue) >= RingCapacity /\ isClosed[t.c]
     /\ subTask' = [subTask EXCEPT ![t.c] = t.task]
     /\ Rest(w)
     /\ UNCHANGED queue
  \/ /\ Len(queue) >= RingCapacity /\ ~isClosed[t.c]
     /\ Begin(w, t)
     /\ UNCHANGED queue

\* Mutant: a request in the buffer goes before the rest of the download
SuccessorForgets(c, left) == IF left = <<>> THEN subTask[c] ELSE Handler

\* Mutant: a chain without a successor ends whatever is in the buffer
SuccessorEarly(c, left) == subTask[c]

\* With no successor and an empty buffer the chain ends, with a buffer that is
\* not empty it goes on in handler
Successor(c, left) ==
  IF subTask[c] = None /\ left # <<>> THEN Handler ELSE subTask[c]

LeftOf(w, c) == SubSeq(buffer[c], worker[w].took + 1, Len(buffer[c]))

\* The end of handler and of sendFile.  Under _request_mutex the bytes parsed
\* are erased and the successor is chosen; it is queued or run after the mutex
\* is free, which nobody can tell: no other thread starts a chain while
\* _is_processing is set.
Finish(w, c) ==
  LET left == LeftOf(w, c)
      next == Successor(c, left)
  IN
  /\ At(w, "finish", c) /\ RequestMutexFree(c)
  /\ buffer' = [buffer EXCEPT ![c] = left]
  /\ \/ /\ next = None
        /\ processing' = [processing EXCEPT ![c] = FALSE]
        /\ Goto(w, "leave")
        /\ UNCHANGED <<subTask, queue>>
     \/ /\ next # None
        /\ Chain(w, [task |-> next, c |-> c])
        /\ UNCHANGED processing
  /\ UNCHANGED <<body, identifier, isClosed, response, pushing, pipe,
                 history>>

\* The chain has ended and _request_mutex is free, but the task still reads
\* _sub_task.  If a new chain has put a successor there meanwhile, this worker
\* goes on with that successor, too.
Leave(w, c) ==
  /\ At(w, "leave", c)
  /\ \/ subTask[c] = None /\ Rest(w) /\ UNCHANGED raced
     \/ /\ subTask[c] # None
        /\ raced' = raced \cup {c}
        /\ Goto(w, "chain")
  /\ UNCHANGED <<connection, pushing, queue, pipe, asked>>

\* Two workers share a parser: not followed any further
Abandon(w) ==
  /\ worker[w].c \in raced
  /\ Rest(w)
  /\ UNCHANGED <<connection, pushing, queue, pipe, history>>

WorkerStep(w) ==
  \/ Take(w)
  \/ Abandon(w)
  \/ \E c \in Conn :
       \/ ParseOn(w, c)
       \/ Parse(w, c)
       \/ AppendPiece(w, c)
       \/ NotifyResponse(w, c)
       \/ Finish(w, c)
       \/ Leave(w, c)

-----------------------------------------------------------------------------
(* Types                                                                   *)

RequestPiece == [request : Nat \ {0}, last : BOOLEAN]
AnswerPiece == (Nat \ {0}) \X Nat
Identifier == [fd : Int, use : Nat]
Notification == [op : {"w", "c"}, id : Identifier]

WorkerState ==
  [pc : {"idle", "parse", "send", "notify", "finish", "leave", "chain"},
   c : Conn \cup {None}, task : Task, took : Nat]

ConnectionTypeOK ==
  /\ body \in Scenario
  /\ identifier \in [Conn -> Identifier]
  /\ isClosed \in [Conn -> BOOLEAN]
  /\ buffer \in [Conn -> Seq(RequestPiece)]
  /\ processing \in [Conn -> BOOLEAN]
  /\ subTask \in [Conn -> Task \cup {None}]
  /\ response \in [Conn -> Seq(AnswerPiece)]

PoolTypeOK ==
  /\ pushing \in Conn \cup {None}
  /\ queue \in Seq([task : Task, c : Conn]) /\ Len(queue) <= RingCapacity
  /\ pipe \in Seq(Notification) /\ Len(pipe) <= PipeCapacity
  /\ worker \in [Worker -> WorkerState]
  /\ asked \subseteq Conn /\ raced \subseteq Conn
=============================================================================
