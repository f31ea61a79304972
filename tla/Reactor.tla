------------------------------ MODULE Reactor ------------------------------
(***************************************************************************)
(* src/cloud_backup_server.hpp: the main thread, an edge-triggered epoll   *)
(* loop over the listening socket, the read end of the pipe and the        *)
(* connections, together with the workers of module Connection and the     *)
(* clients at the other end of the sockets.                                *)
(*                                                                         *)
(* A socket is a buffer in each direction.  Connections are known by their *)
(* descriptor, which the kernel gives to the next connection once it is    *)
(* closed; the pipe names a connection by descriptor and use count.        *)
(***************************************************************************)
EXTENDS Connection

CONSTANTS
  Quitter,    \* the clients that may close their end at any time
  ListenFd,   \* the listening socket
  PipeFd,     \* the read end of the pipe
  NetFd,      \* the descriptors the kernel has for connections
  UseTimes,   \* use counts wrap here
  ReadSize,   \* tcp_buffer_read_size - 1, in pieces
  SocketRoom  \* pieces that fit into a socket's send buffer

ASSUME ReactorConstants ==
  /\ NetFd \subseteq Nat \ {ListenFd, PipeFd} /\ IsFiniteSet(NetFd)
  /\ {ListenFd, PipeFd} \subseteq Nat /\ ListenFd # PipeFd
  /\ {UseTimes, ReadSize, SocketRoom} \subseteq Nat \ {0}
  /\ Quitter \subseteq Conn

VARIABLES
  socket,       \* what the kernel knows of a connection
  gone,         \* the clients that have closed their end
  sending,      \* the request the client sends, how many pieces are sent
  inbox,        \* pieces received by the kernel, not read
  outbox,       \* pieces written, not received by the client
  got,          \* pieces the client has received
  connections,  \* _connections
  useTimes,     \* _record_net_fd_use_time
  namesakes,    \* history: connections whose identifier was still in use, Accept
  wantsOut,     \* the connections registered with EPOLLOUT
  ready,        \* epoll's ready list: descriptors with an event to report
  events,       \* what epoll_wait returned and the loop has yet to dispatch
  notes,        \* the notifications PipeDataReader has read
  main,         \* where the main thread is
  cut,          \* history: the connections whose last write left something
  unarmed       \* history: a write met a full socket after one that was not cut

client == <<gone, sending, got>>
network == <<client, inbox, outbox, socket>>
registry == <<connections, useTimes, namesakes>>
epoll == <<wantsOut, ready, events>>
reactorVars == <<network, registry, epoll, notes, main, cut, unarmed>>
vars == <<connectionVars, reactorVars>>

Init ==
  /\ body \in Scenario
  /\ identifier = [c \in Conn |-> [fd |-> -1, use |-> 0]]
  /\ isClosed = [c \in Conn |-> FALSE]
  /\ buffer = [c \in Conn |-> <<>>]
  /\ processing = [c \in Conn |-> FALSE]
  /\ subTask = [c \in Conn |-> None]
  /\ response = [c \in Conn |-> <<>>]
  /\ pushing = None /\ queue = <<>> /\ pipe = <<>>
  /\ worker = [w \in Worker |-> Idle]
  /\ asked = {} /\ raced = {}
  /\ socket = [c \in Conn |-> "none"]
  /\ gone = {}
  /\ sending = [c \in Conn |-> <<1, 0>>]
  /\ inbox = [c \in Conn |-> <<>>]
  /\ outbox = [c \in Conn |-> <<>>] /\ got = [c \in Conn |-> <<>>]
  /\ connections = [f \in NetFd |-> None]
  /\ useTimes = [f \in NetFd |-> 0] /\ namesakes = {}
  /\ wantsOut = {} /\ ready = {} /\ events = {} /\ notes = <<>>
  /\ main = [pc |-> "loop", c |-> None, out |-> FALSE]
  /\ cut = {} /\ unarmed = {}

Fd(c) == identifier[c].fd
Registered(c) == socket[c] = "open" /\ ~isClosed[c]

\* What poll says of a connection's socket
Readable(c) == inbox[c] # <<>> \/ c \in gone
Writable(c) == Len(outbox[c]) < SocketRoom

-----------------------------------------------------------------------------
(* Clients.  Data and a FIN that arrive, and room in a full send buffer    *)
(* that EPOLLOUT waits for, put the descriptor on epoll's ready list.      *)

HasMore(c) == sending[c][1] <= Len(body[c])

Wake(c) == ready' = IF Registered(c) THEN ready \cup {Fd(c)} ELSE ready

\* A client that has something to ask
Connect(c) ==
  /\ socket[c] = "none" /\ HasMore(c)
  /\ socket' = [socket EXCEPT ![c] = "backlog"]
  /\ ready' = ready \cup {ListenFd}
  /\ UNCHANGED <<connectionVars, client, inbox, outbox, registry, wantsOut,
                 events, notes, main, cut, unarmed>>

ClientSend(c) ==
  LET r == sending[c][1]
      n == sending[c][2] + 1
      last == n = body[c][r].size
  IN
  /\ socket[c] \in {"backlog", "open"} /\ ~isClosed[c] /\ c \notin gone
  /\ HasMore(c)
  /\ sending' = [sending EXCEPT ![c] = IF last THEN <<r + 1, 0>> ELSE <<r, n>>]
  /\ inbox' = [inbox EXCEPT ![c] = Append(@, [request |-> r, last |-> last])]
  /\ Wake(c)
  /\ UNCHANGED <<connectionVars, gone, got, outbox, socket, registry, wantsOut,
                 events, notes, main, cut, unarmed>>

ClientReceive(c) ==
  /\ outbox[c] # <<>> /\ c \notin gone
  /\ got' = [got EXCEPT ![c] = Append(@, Head(outbox[c]))]
  /\ outbox' = [outbox EXCEPT ![c] = Tail(@)]
  /\ IF c \in wantsOut THEN Wake(c) ELSE UNCHANGED ready
  /\ UNCHANGED <<connectionVars, gone, sending, inbox, socket, registry,
                 wantsOut, events, notes, main, cut, unarmed>>

ClientClose(c) ==
  /\ c \in Quitter \ gone /\ socket[c] \in {"backlog", "open"}
  /\ gone' = gone \cup {c}
  /\ Wake(c)
  /\ UNCHANGED <<connectionVars, sending, got, inbox, outbox, socket, registry,
                 wantsOut, events, notes, main, cut, unarmed>>

-----------------------------------------------------------------------------
(* The event loop                                                          *)

MainGoto(pc, c, out) == main' = [pc |-> pc, c |-> c, out |-> out]
Loop == MainGoto("loop", None, FALSE)

Report(f) ==
  IF f \in {ListenFd, PipeFd} THEN [fd |-> f, in |-> TRUE, out |-> FALSE]
  ELSE LET c == connections[f]
       IN [fd |-> f, in |-> Readable(c), out |-> c \in wantsOut /\ Writable(c)]

\* epoll_wait: one report for each descriptor on the list that still has an
\* event; edge-triggered, so the list is empty afterwards
EpollWait ==
  /\ main.pc = "loop" /\ events = {} /\ ready # {}
  /\ events' = {e \in {Report(f) : f \in ready} : e.in \/ e.out}
  /\ ready' = {}
  /\ UNCHANGED <<connectionVars, network, registry, wantsOut, notes, main,
                 cut, unarmed>>

\* Dispatcher, one event: which of them comes first is up to the ready list
Dispatch(e) ==
  /\ main.pc = "loop" /\ e \in events
  /\ events' = events \ {e}
  /\ \/ /\ e.fd = ListenFd
        /\ MainGoto("accept", None, FALSE)
        /\ UNCHANGED <<pipe, notes>>
     \/ \* PipeDataReader reads all there is
        /\ e.fd = PipeFd
        /\ notes' = pipe /\ pipe' = <<>>
        /\ MainGoto("notes", None, FALSE)
     \/ /\ e.fd \in NetFd
        /\ LET c == connections[e.fd]
           IN IF c = None THEN UNCHANGED main
              ELSE MainGoto(IF e.in THEN "read" ELSE "write", c, e.out)
        /\ UNCHANGED <<pipe, notes>>
  /\ UNCHANGED <<connection, pool, history, network, registry, wantsOut, ready,
                 cut, unarmed>>

FreeFd == {f \in NetFd : connections[f] = None}

\* Mutant: the use count is left alone
CountNoUse(f) == useTimes

CountUse(f) == [useTimes EXCEPT ![f] = (@ + 1) % UseTimes]

\* A notification with this identifier is on its way, or a worker has yet to
\* finish a task that may send one
StillNamed(id) ==
  \/ \E n \in Range(pipe) \cup Range(notes) : n.op = "c" /\ n.id = id
  \/ \E w \in Worker : worker[w].c # None /\ identifier[worker[w].c] = id

\* Accepter and AddConnection for one connection; EpollAdd reports at once
\* what has already arrived.  With no descriptor left accept fails for good
\* and the loop spins.
Accept(c) == \E f \in FreeFd :
  /\ main.pc = "accept" /\ socket[c] = "backlog"
  /\ \A g \in FreeFd : f <= g
  /\ socket' = [socket EXCEPT ![c] = "open"]
  /\ useTimes' = CountUse(f)
  /\ identifier' = [identifier EXCEPT ![c] = [fd |-> f, use |-> useTimes'[f]]]
  /\ namesakes' = IF StillNamed(identifier'[c]) THEN namesakes \cup {c} ELSE namesakes
  /\ connections' = [connections EXCEPT ![f] = c]
  /\ ready' = IF Readable(c) THEN ready \cup {f} ELSE ready
  /\ UNCHANGED <<body, isClosed, buffer, processing, subTask, response, pool,
                 pipe, history, client, inbox, outbox, wantsOut, events, notes,
                 main, cut, unarmed>>

\* AddConnection: SetNonBlock or EpollAdd fails
Refuse(c) ==
  /\ main.pc = "accept" /\ socket[c] = "backlog" /\ FreeFd # {}
  /\ socket' = [socket EXCEPT ![c] = "refused"]
  /\ UNCHANGED <<connectionVars, client, inbox, outbox, registry, epoll, notes,
                 main, cut, unarmed>>

AcceptDone ==
  /\ main.pc = "accept" /\ \A c \in Conn : socket[c] # "backlog"
  /\ Loop
  /\ UNCHANGED <<connectionVars, network, registry, epoll, notes, cut, unarmed>>

\* NetExcepter
Except(c) ==
  /\ isClosed' = [isClosed EXCEPT ![c] = TRUE]
  /\ connections' = [connections EXCEPT ![Fd(c)] = None]
  /\ wantsOut' = wantsOut \ {c}
  /\ ready' = ready \ {Fd(c)}
  /\ cut' = cut \ {c}

\* NetReader: a chunk is read
ReadChunk(c) ==
  LET k == Min({Len(inbox[c]), ReadSize})
  IN
  /\ main.pc = "read" /\ main.c = c /\ inbox[c] # <<>>
  /\ Receive(c, SubSeq(inbox[c], 1, k))
  /\ inbox' = [inbox EXCEPT ![c] = SubSeq(@, k + 1, Len(@))]
  /\ UNCHANGED <<client, outbox, socket, registry, epoll, notes, main, cut,
                 unarmed>>

\* NetReader: push returns
ReadPush ==
  /\ Push
  /\ UNCHANGED reactorVars

\* NetReader: EAGAIN; NetWriter is next if the event says so
ReadDone(c) ==
  /\ main.pc = "read" /\ main.c = c /\ pushing = None
  /\ inbox[c] = <<>> /\ c \notin gone
  /\ IF main.out THEN MainGoto("write", c, FALSE) ELSE Loop
  /\ UNCHANGED <<connectionVars, network, registry, epoll, notes, cut, unarmed>>

\* NetReader: end of file, or the connection has been reset.  NetWriter then
\* finds no connection.
ReadClosed(c) ==
  /\ main.pc = "read" /\ main.c = c /\ pushing = None /\ c \in gone
  /\ Except(c)
  /\ Loop
  /\ UNCHANGED <<body, identifier, buffer, processing, subTask, response,
                 pool, pipe, history, network, useTimes, namesakes, events,
                 notes, unarmed>>

\* Mutant: a write that leaves something does not ask for EPOLLOUT
InterestForgotten(c, left) == wantsOut \ {c}

InterestAfter(c, left) == IF left = <<>> THEN wantsOut \ {c} ELSE wantsOut \cup {c}

\* NetWriter.  The socket takes what it has room for; EpollMod looks at the
\* socket again.  A full socket is left as it is, EPOLLOUT or not.
Write(c) ==
  LET k == Min({Len(response[c]), SocketRoom - Len(outbox[c])})
  IN
  \/ /\ response[c] = <<>>
     /\ UNCHANGED <<isClosed, response, outbox, connections, wantsOut, ready,
                    cut, unarmed>>
  \/ /\ response[c] # <<>> /\ c \in gone
     /\ Except(c)
     /\ UNCHANGED <<response, outbox, unarmed>>
  \/ /\ response[c] # <<>> /\ k = 0
     /\ unarmed' = IF c \in cut THEN unarmed ELSE unarmed \cup {c}
     /\ UNCHANGED <<isClosed, response, outbox, connections, wantsOut, ready,
                    cut>>
  \/ /\ response[c] # <<>> /\ k > 0
     /\ outbox' = [outbox EXCEPT ![c] = @ \o SubSeq(response[c], 1, k)]
     /\ response' = [response EXCEPT ![c] = SubSeq(@, k + 1, Len(@))]
     /\ wantsOut' = InterestAfter(c, response'[c])
     /\ ready' = IF Readable(c) THEN ready \cup {Fd(c)} ELSE ready
     /\ cut' = IF response'[c] = <<>> THEN cut \ {c} ELSE cut \cup {c}
     /\ UNCHANGED <<isClosed, connections, unarmed>>

WriteEvent(c) ==
  /\ main.pc = "write" /\ main.c = c
  /\ Write(c)
  /\ Loop
  /\ UNCHANGED <<body, identifier, buffer, processing, subTask, pool, pipe,
                 history, client, inbox, socket, useTimes, namesakes, events,
                 notes>>

\* PipeDataHandler, one notification: dropped unless the descriptor is in use
\* and its use count is the one of the notification
Note ==
  LET n == Head(notes)
      c == connections[n.id.fd]
  IN
  /\ main.pc = "notes" /\ notes # <<>>
  /\ notes' = Tail(notes)
  /\ \/ /\ c = None \/ n.id.use # useTimes[n.id.fd]
        /\ UNCHANGED <<isClosed, response, outbox, connections, wantsOut,
                       ready, cut, unarmed>>
     \/ /\ c # None /\ n.id.use = useTimes[n.id.fd]
        /\ \/ n.op = "w" /\ Write(c)
           \/ n.op = "c" /\ Except(c) /\ UNCHANGED <<response, outbox, unarmed>>
  /\ UNCHANGED <<body, identifier, buffer, processing, subTask, pool, pipe,
                 history, client, inbox, socket, useTimes, namesakes, events,
                 main>>

NotesDone ==
  /\ main.pc = "notes" /\ notes = <<>>
  /\ Loop
  /\ UNCHANGED <<connectionVars, network, registry, epoll, notes, cut, unarmed>>

MainStep ==
  \/ EpollWait
  \/ \E e \in events : Dispatch(e)
  \/ AcceptDone
  \/ ReadPush
  \/ Note
  \/ NotesDone
  \/ \E c \in Conn : \/ Accept(c)
                     \/ Refuse(c)
                     \/ ReadChunk(c)
                     \/ ReadDone(c)
                     \/ ReadClosed(c)
                     \/ WriteEvent(c)

ClientStep(c) ==
  \/ Connect(c)
  \/ ClientSend(c)
  \/ ClientReceive(c)
  \/ ClientClose(c)

\* A write to the pipe is an event on its read end
PoolStep(w) ==
  /\ WorkerStep(w)
  /\ ready' = IF pipe' = pipe THEN ready ELSE ready \cup {PipeFd}
  /\ UNCHANGED <<network, registry, wantsOut, events, notes, main, cut, unarmed>>

Next ==
  \/ MainStep
  \/ \E w \in Worker : PoolStep(w)
  \/ \E c \in Conn : ClientStep(c)

\* The threads run; a client reads what reaches it
Fairness ==
  /\ WF_vars(MainStep)
  /\ \A w \in Worker : WF_vars(PoolStep(w))
  /\ \A c \in Conn : WF_vars(ClientReceive(c))

Spec == Init /\ [][Next]_vars /\ Fairness

-----------------------------------------------------------------------------
(* Properties                                                              *)

NetworkTypeOK ==
  /\ socket \in [Conn -> {"none", "backlog", "open", "refused"}]
  /\ gone \subseteq Conn
  /\ sending \in [Conn -> (Nat \ {0}) \X Nat]
  /\ inbox \in [Conn -> Seq(RequestPiece)]
  /\ outbox \in [Conn -> Seq(AnswerPiece)]
  /\ got \in [Conn -> Seq(AnswerPiece)]

ServerTypeOK ==
  /\ connections \in [NetFd -> Conn \cup {None}]
  /\ useTimes \in [NetFd -> 0 .. UseTimes - 1] /\ namesakes \subseteq Conn
  /\ wantsOut \subseteq Conn
  /\ ready \subseteq NetFd \cup {ListenFd, PipeFd}
  /\ events \subseteq
       [fd : NetFd \cup {ListenFd, PipeFd}, in : BOOLEAN, out : BOOLEAN]
  /\ notes \in Seq(Notification)
  /\ main \in [pc : {"loop", "accept", "read", "write", "notes"},
               c : Conn \cup {None}, out : BOOLEAN]
  /\ cut \subseteq Conn /\ unarmed \subseteq Conn

\* A connection in use has a descriptor of the kernel's, with its last use
\* count, and is the one registered there.
RegistryOK ==
  /\ \A f \in NetFd : connections[f] # None =>
       /\ socket[connections[f]] = "open" /\ ~isClosed[connections[f]]
       /\ identifier[connections[f]] = [fd |-> f, use |-> useTimes[f]]
  /\ \A c \in Conn : socket[c] = "open" =>
       /\ Fd(c) \in NetFd
       /\ ~isClosed[c] => connections[Fd(c)] = c

\* Every variable has a value of its type, in particular ring and pipe never
\* hold more than they can, and the registry of descriptors is right.
TypeOK ==
  ConnectionTypeOK /\ PoolTypeOK /\ NetworkTypeOK /\ ServerTypeOK /\ RegistryOK

Tasks(c) == {w \in Worker : worker[w].c = c /\ worker[w].pc # "leave"}
Queued(c) == {i \in DOMAIN queue : queue[i].c = c}
Waiting(c) == IF pushing = c THEN 1 ELSE 0
NumTasks(c) == Cardinality(Tasks(c)) + Cardinality(Queued(c)) + Waiting(c)

\* The comment at HTTPconnection.hpp:48: _is_processing, which shares a mutex
\* with the request buffer, keeps a connection to one task at a time.
OneTaskPerConnection == \A c \in Conn : NumTasks(c) <= 1

\* Until two workers have met in a connection, it has exactly one task while
\* _is_processing is set and none while it is not; a chain that was given up
\* with _is_processing set has asked for the connection to be closed, or has
\* found it closed.
ProcessingMeansOneTask ==
  \A c \in Conn \ raced :
    IF processing[c]
    THEN \/ NumTasks(c) = 1
         \/ NumTasks(c) = 0 /\ (isClosed[c] \/ c \in asked)
    ELSE NumTasks(c) = 0

\* No bytes wait in a request buffer that no task is going to read.
BufferedDataHasATask ==
  \A c \in Conn \ (raced \cup asked) :
    buffer[c] # <<>> /\ ~isClosed[c] => NumTasks(c) = 1

\* The piece of the answers of c that follows p.
After(c, p) ==
  IF p[2] < body[c][p[1]].pieces THEN <<p[1], p[2] + 1>> ELSE <<p[1] + 1, 0>>

\* The pieces the client has received, those in the socket and those still in
\* the response buffer are the answers to its requests, in the order of the
\* requests, each piece once, however many tasks and writes they took.
ResponsesInOrder ==
  \A c \in Conn \ raced :
    LET s == got[c] \o outbox[c] \o response[c]
    IN /\ s # <<>> => s[1] = <<1, 0>>
       /\ \A i \in 1 .. Len(s) - 1 : s[i + 1] = After(c, s[i])

\* What is between the two ends of the pipe, and the write a worker is about to
\* do or the main thread is in.
Announced(c) ==
  \/ \E n \in Range(pipe) \cup Range(notes) : n.op = "w" /\ n.id = identifier[c]
  \/ \E w \in Worker : worker[w].pc = "notify" /\ worker[w].c = c

\* epoll is going to report the socket of c once it has room
Armed(c) ==
  /\ c \in wantsOut
  /\ Writable(c) =>
       \/ Fd(c) \in ready
       \/ \E e \in events : e.fd = Fd(c) /\ e.out
       \/ main.c = c /\ (main.pc = "write" \/ main.out)

\* Data in the response buffer of an open connection is on its way: there is a
\* notification about it or epoll is going to report room for it.  The only
\* exception is a connection for which NetWriter met a full socket without
\* EPOLLOUT (see EverythingIsSent).
ResponsesAreAnnounced ==
  \A c \in Conn \ (raced \cup unarmed) :
    response[c] # <<>> /\ ~isClosed[c] => Announced(c) \/ Armed(c)

\* The connections that have had this descriptor
Users(f) == {c \in Conn : socket[c] = "open" /\ Fd(c) = f}

\* A connection is closed for a reason of its own: its client has left or one
\* of its tasks has asked for it.  A late notification reaches the next
\* connection on the same descriptor only if the use count has wrapped and the
\* notification, or the task that sends it, is older than that connection.
ClosesAreAsked ==
  \A c \in Conn : isClosed[c] =>
    \/ c \in gone \cup asked
    \/ c \in namesakes /\ Cardinality(Users(Fd(c))) > UseTimes

\* The client has every answer to the requests it has sent whole, and the
\* server waits for more.
Served(c) ==
  /\ inbox[c] = <<>> /\ buffer[c] = <<>> /\ response[c] = <<>> /\ ~processing[c]
  /\ IF got[c] = <<>> THEN sending[c][1] = 1
     ELSE After(c, got[c][Len(got[c])]) = <<sending[c][1], 0>>

\* Every client ends up served, with the pool as small and as full as it is,
\* unless it has left, the server has given up its connection, two workers
\* have met in it, or a write met a full socket without EPOLLOUT.
EveryRequestIsAnswered ==
  <>[](\A c \in Conn :
         \/ socket[c] \in {"none", "refused"} \/ c \in gone \/ isClosed[c]
         \/ c \in raced
         \/ c \in unarmed /\ response[c] # <<>>
         \/ Served(c))

\* The comments at HTTPconnection.hpp:51 and cloud_backup_server.hpp:176: what
\* is put into the response buffer is sent to the client, which the 'w' of the
\* pipe sees to; here unless the connection is closed.
EverythingIsSent ==
  \A c \in Conn : response[c] # <<>> ~> (response[c] = <<>> \/ isClosed[c])
=============================================================================
