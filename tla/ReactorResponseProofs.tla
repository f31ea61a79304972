----------------------- MODULE ReactorResponseProofs -----------------------
(***************************************************************************)
(* What becomes of the responses of a connection, for any number of        *)
(* connections and workers and all sizes.  What a task puts into the       *)
(* response buffer is on its way to the client, by a notification or by    *)
(* epoll; a late notification reaches the next connection on its           *)
(* descriptor only after use counts have wrapped; and the answers come in  *)
(* the order of the requests, each piece once.  For the last, the          *)
(* invariant says what the only task of a connection is going to answer    *)
(* next.                                                                   *)
(***************************************************************************)
EXTENDS ReactorProofs

-----------------------------------------------------------------------------
(* Responses are announced                                                 *)

OnItsWay(c) == response[c] # <<>> /\ ~isClosed[c] => Announced(c) \/ Armed(c)

\* EPOLLOUT is asked for exactly while the last write left something, and
\* PipeDataHandler goes through its notifications before the loop goes on.
EpollInv ==
  /\ cut = wantsOut
  /\ main.pc # "notes" => notes = <<>>
  /\ \A c \in Conn : response[c] # <<>> => socket[c] = "open"

ResponseInv == EpollInv /\ \A c \in Conn \ (raced \cup unarmed) : OnItsWay(c)

Told(c) ==
  \/ \E i \in 1 .. Len(pipe) : pipe[i].op = "w" /\ pipe[i].id = identifier[c]
  \/ \E i \in 1 .. Len(notes) : notes[i].op = "w" /\ notes[i].id = identifier[c]

Telling(c) == \E w \in Worker : worker[w].pc = "notify" /\ worker[w].c = c

LEMMA AnnouncedIs ==
  ASSUME Base, NEW c \in Conn
  PROVE  Announced(c) <=> Told(c) \/ Telling(c)
<1>1. DOMAIN pipe = 1 .. Len(pipe) /\ DOMAIN notes = 1 .. Len(notes)
  BY LenProperties DEF Base, TypeOK, PoolTypeOK, ServerTypeOK
<1>2. /\ Range(pipe) = {pipe[i] : i \in 1 .. Len(pipe)}
      /\ Range(notes) = {notes[i] : i \in 1 .. Len(notes)}
  BY <1>1 DEF Range
<1> QED
  BY <1>2 DEF Announced, Told, Telling

LEMMA AnnouncedNext ==
  ASSUME Base', NEW c \in Conn
  PROVE  Announced(c)' <=> Told(c)' \/ Telling(c)'
<1>1. DOMAIN pipe' = 1 .. Len(pipe') /\ DOMAIN notes' = 1 .. Len(notes')
  BY LenProperties DEF Base, TypeOK, PoolTypeOK, ServerTypeOK
<1>2. /\ Range(pipe') = {pipe'[i] : i \in 1 .. Len(pipe')}
      /\ Range(notes') = {notes'[i] : i \in 1 .. Len(notes')}
  BY <1>1 DEF Range
<1> QED
  BY <1>2 DEF Announced, Told, Telling

\* A step that does not consume the notifications about c.
LEMMA ToldKept ==
  ASSUME Base, NEW c \in Conn, Told(c), identifier'[c] = identifier[c], UNCHANGED notes,
         \/ UNCHANGED pipe
         \/ \E op \in {"w", "c"}, d \in Conn : InUse(d) /\ Notify(op, d)
  PROVE  Told(c)'
<1>1. CASE UNCHANGED pipe
  BY <1>1 DEF Told
<1>2. ASSUME NEW op \in {"w", "c"}, NEW d, InUse(d), Notify(op, d) PROVE Told(c)'
  <2>1. /\ Len(pipe') = Len(pipe) + 1
        /\ \A i \in 1 .. Len(pipe) : pipe'[i] = pipe[i]
    BY <1>2, NotifyTypes
  <2>2. Len(pipe) \in Nat
    BY LenProperties DEF Base, TypeOK, PoolTypeOK
  <2> QED
    BY <2>1, <2>2 DEF Told
<1> QED
  BY <1>1, <1>2

\* A step of a worker that was not about to announce anything.
LEMMA TellingKept ==
  ASSUME Base, NEW c \in Conn, Telling(c),
         NEW w \in Worker, worker[w].pc # "notify" \/ worker[w].c # c,
         NEW s, worker' = [worker EXCEPT ![w] = s]
  PROVE  Telling(c)'
BY DEF Telling, Base, TypeOK, PoolTypeOK

\* What a step of a worker leaves as it is.
LEMMA PoolStepEpoll ==
  ASSUME Base, NEW w \in Worker, PoolStep(w), NEW c \in Conn
  PROVE  /\ UNCHANGED <<network, registry, wantsOut, events, notes, main, cut, unarmed,
                        identifier, isClosed>>
         /\ ready \subseteq ready' /\ raced \subseteq raced'
         /\ Armed(c) => Armed(c)'
<1>1. /\ UNCHANGED <<network, registry, wantsOut, events, notes, main, cut, unarmed>>
      /\ ready \subseteq ready'
  BY DEF PoolStep
<1>2. UNCHANGED <<identifier, isClosed>> /\ raced \subseteq raced'
  BY DEF PoolStep, WorkerStep, Take, Abandon, ParseOn, Parse, AppendPiece,
         NotifyResponse, Finish, Leave, connection, history
<1> QED
  BY <1>1, <1>2 DEF Armed, Writable, Fd, network

LEMMA OnlyOneWorker ==
  ASSUME NEW w \in Worker, WorkerStep(w)
  PROVE  \E s : worker' = [worker EXCEPT ![w] = s]
<1>1. ASSUME NEW l, Goto(w, l) PROVE \E s : worker' = [worker EXCEPT ![w] = s]
  BY <1>1 DEF Goto
<1>2. ASSUME NEW l, NEW n, Took(w, l, n) PROVE \E s : worker' = [worker EXCEPT ![w] = s]
  BY <1>2 DEF Took
<1>3. ASSUME Rest(w) PROVE \E s : worker' = [worker EXCEPT ![w] = s]
  BY <1>3 DEF Rest
<1>4. ASSUME NEW t, Begin(w, t) PROVE \E s : worker' = [worker EXCEPT ![w] = s]
  BY <1>4 DEF Begin
<1>5. CASE Take(w) \/ Abandon(w)
  BY <1>3, <1>4, <1>5 DEF Take, Abandon
<1>6. ASSUME NEW c \in Conn, ParseOn(w, c) \/ Parse(w, c)
      PROVE  \E s : worker' = [worker EXCEPT ![w] = s]
  BY <1>2, <1>3, <1>6 DEF ParseOn, Parse
<1>7. ASSUME NEW c \in Conn, AppendPiece(w, c) \/ NotifyResponse(w, c) \/ Leave(w, c)
      PROVE  \E s : worker' = [worker EXCEPT ![w] = s]
  BY <1>1, <1>3, <1>7 DEF AppendPiece, NotifyResponse, Leave
<1>8. ASSUME NEW c \in Conn, Finish(w, c)
      PROVE  \E s : worker' = [worker EXCEPT ![w] = s]
  BY <1>1, <1>3, <1>4, <1>8 DEF Finish, Chain
<1> QED
  BY <1>5, <1>6, <1>7, <1>8 DEF WorkerStep

LEMMA PoolStepAnnounced ==
  ASSUME Base, ResponseInv, NEW w \in Worker, PoolStep(w), NEW c \in Conn \ raced',
         Announced(c)
  PROVE  Announced(c)'
<1>1. WorkerStep(w) /\ UNCHANGED <<notes, identifier>> /\ c \notin raced
  BY PoolStepEpoll DEF PoolStep
<1>2. Told(c) \/ Telling(c)
  BY AnnouncedIs
<1>3. SUFFICES Told(c)' \/ Telling(c)'
  BY PoolStepBase, AnnouncedNext
<1>4. PICK s : worker' = [worker EXCEPT ![w] = s]
  BY <1>1, OnlyOneWorker
<1>5. ASSUME worker[w].pc # "notify" \/ worker[w].c # c, UNCHANGED pipe
      PROVE  Told(c)' \/ Telling(c)'
  BY <1>1, <1>2, <1>4, <1>5, ToldKept, TellingKept
<1>6. ASSUME worker[w].pc # "notify" \/ worker[w].c # c,
             NEW op \in {"w", "c"}, NEW d \in Conn, InUse(d), Notify(op, d)
      PROVE  Told(c)' \/ Telling(c)'
  BY <1>1, <1>2, <1>4, <1>6, ToldKept, TellingKept
<1>7. CASE Take(w)
  BY <1>5, <1>7 DEF Take
<1>8. CASE Abandon(w)
  BY <1>1, <1>5, <1>8 DEF Abandon
<1>9. ASSUME NEW d \in Conn, ParseOn(w, d) \/ Finish(w, d) \/ Leave(w, d)
      PROVE  Told(c)' \/ Telling(c)'
  BY <1>5, <1>9 DEF ParseOn, Finish, Leave, At
<1>10. ASSUME NEW d \in Conn, Parse(w, d) \/ AppendPiece(w, d)
       PROVE  Told(c)' \/ Telling(c)'
  <2>1. worker[w].pc \in {"parse", "send"} /\ worker[w].c = d
    BY <1>10 DEF Parse, AppendPiece, At
  <2>2. InUse(d)
    BY <2>1, AtWork
  <2>3. UNCHANGED pipe \/ Notify("c", d)
    BY <1>10 DEF Parse, AppendPiece, AskToClose
  <2> QED
    BY <1>5, <1>6, <2>1, <2>2, <2>3
<1>11. ASSUME NEW d \in Conn, NotifyResponse(w, d)
       PROVE  Told(c)' \/ Telling(c)'
  <2>1. worker[w].pc = "notify" /\ worker[w].c = d /\ Notify("w", d)
    BY <1>11 DEF NotifyResponse, At
  <2>2. InUse(d)
    BY <2>1, AtWork
  <2>3. CASE d # c
    BY <1>6, <2>1, <2>2, <2>3
  <2>4. CASE d = c
    <3>1. /\ Len(pipe') = Len(pipe) + 1
          /\ pipe'[Len(pipe')] = [op |-> "w", id |-> identifier[c]]
      BY <2>1, <2>2, <2>4, NotifyTypes
    <3>2. Len(pipe) \in Nat
      BY LenProperties DEF Base, TypeOK, PoolTypeOK
    <3>3. Len(pipe') \in 1 .. Len(pipe')
      BY <3>1, <3>2
    <3> QED
      BY <1>1, <3>1, <3>3 DEF Told
  <2> QED
    BY <2>3, <2>4
<1> QED
  BY <1>1, <1>7, <1>8, <1>9, <1>10, <1>11 DEF WorkerStep

\* A worker that adds to the response buffer is about to announce it.
LEMMA PoolStepResponse ==
  ASSUME Base, ResponseInv, NEW w \in Worker, PoolStep(w), NEW c \in Conn \ raced'
  PROVE  \/ response'[c] = response[c]
         \/ Announced(c)' /\ socket[c] = "open"
<1>1. WorkerStep(w)
  BY DEF PoolStep
<1>2. ASSUME NEW d \in Conn, Parse(w, d) \/ AppendPiece(w, d)
      PROVE  \/ response'[c] = response[c]
             \/ Announced(c)' /\ socket[c] = "open"
  <2>1. worker[w].pc \in {"parse", "send"} /\ worker[w].c = d
    BY <1>2 DEF Parse, AppendPiece, At
  <2>2. InUse(d)
    BY <2>1, AtWork
  <2>3. \/ UNCHANGED response
        \/ /\ \E r, k : Respond(d, r, k)
           /\ \/ Goto(w, "notify")
              \/ \E n : Took(w, "notify", n)
    BY <1>2 DEF Parse, AppendPiece
  <2>4. ASSUME NEW r, NEW k, Respond(d, r, k), d # c PROVE response'[c] = response[c]
    BY <2>4 DEF Respond, Base, TypeOK, ConnectionTypeOK
  <2>5. ASSUME Goto(w, "notify") \/ (\E n : Took(w, "notify", n)), d = c
        PROVE  Announced(c)'
    <3>1. worker'[w].pc = "notify" /\ worker'[w].c = c
      BY <2>1, <2>5 DEF Goto, Took, Base, TypeOK, PoolTypeOK, WorkerState
    <3> QED
      BY <3>1 DEF Announced
  <2> QED
    BY <2>2, <2>3, <2>4, <2>5 DEF InUse
<1>3. CASE Take(w) \/ Abandon(w)
  BY <1>3 DEF Take, Abandon, connection
<1>4. ASSUME NEW d \in Conn,
             ParseOn(w, d) \/ NotifyResponse(w, d) \/ Finish(w, d) \/ Leave(w, d)
      PROVE  response'[c] = response[c]
  BY <1>4 DEF ParseOn, NotifyResponse, Finish, Leave, connection
<1> QED
  BY <1>1, <1>2, <1>3, <1>4 DEF WorkerStep

LEMMA PoolStepResponses ==
  ASSUME Base, ResponseInv, NEW w \in Worker, PoolStep(w)
  PROVE  \A c \in Conn \ (raced' \cup unarmed') : OnItsWay(c)'
<1> SUFFICES ASSUME NEW c \in Conn \ (raced' \cup unarmed') PROVE OnItsWay(c)'
  OBVIOUS
<1>1. c \in Conn \ (raced \cup unarmed) /\ UNCHANGED isClosed /\ (Armed(c) => Armed(c)')
  BY PoolStepEpoll
<1>2. CASE Announced(c)'
  BY <1>2 DEF OnItsWay
<1>3. CASE response'[c] = response[c]
  BY <1>1, <1>3, PoolStepAnnounced DEF ResponseInv, OnItsWay
<1> QED
  BY <1>2, <1>3, PoolStepResponse

\* What a write or a close leaves in the registration of c and of the others.
LEMMA ExceptEpoll ==
  ASSUME Base, EpollInv, NEW c, InUse(c), ~isClosed[c], Except(c)
  PROVE  /\ isClosed'[c] /\ cut' = wantsOut'
         /\ \A d \in Conn \ {c} :
              /\ isClosed'[d] = isClosed[d]
              /\ d \in wantsOut => d \in wantsOut'
              /\ InUse(d) /\ ~isClosed[d] /\ Fd(d) \in ready => Fd(d) \in ready'
<1>1. /\ isClosed' = [isClosed EXCEPT ![c] = TRUE]
      /\ wantsOut' = wantsOut \ {c} /\ ready' = ready \ {Fd(c)} /\ cut' = cut \ {c}
  BY DEF Except
<1>2. \A d \in Conn \ {c} : InUse(d) /\ ~isClosed[d] => Fd(d) # Fd(c)
  BY FdsDiffer DEF InUse
<1> QED
  BY <1>1, <1>2 DEF InUse, EpollInv, Base, TypeOK, ConnectionTypeOK

LEMMA WriteEpoll ==
  ASSUME Base, EpollInv, NEW c, InUse(c), ~isClosed[c], Write(c)
  PROVE  /\ cut' = wantsOut'
         /\ \/ isClosed'[c] \/ response'[c] = <<>> \/ c \in unarmed'
            \/ c \in wantsOut' /\ ~Writable(c)'
         /\ \A d \in Conn \ {c} :
              /\ isClosed'[d] = isClosed[d] /\ response'[d] = response[d]
              /\ outbox'[d] = outbox[d]
              /\ d \in wantsOut => d \in wantsOut'
              /\ InUse(d) /\ ~isClosed[d] /\ Fd(d) \in ready => Fd(d) \in ready'
         /\ unarmed \subseteq unarmed'
<1> DEFINE k == Min({Len(response[c]), SocketRoom - Len(outbox[c])})
<1>1. /\ response[c] \in Seq(AnswerPiece) /\ outbox[c] \in Seq(AnswerPiece)
      /\ Len(response[c]) \in Nat /\ Len(outbox[c]) \in Nat
      /\ SocketRoom - Len(outbox[c]) \in Nat /\ SocketRoom \in Nat /\ c \in Conn
  BY LenProperties, ReactorConstants
     DEF Base, TypeOK, ConnectionTypeOK, NetworkTypeOK, SocketsHold, InUse
<1>2. /\ k \in Nat /\ k <= Len(response[c])
      /\ k = Len(response[c]) \/ k = SocketRoom - Len(outbox[c])
  <2> DEFINE m == Len(response[c])
             room == SocketRoom - Len(outbox[c])
  <2>1. m \in Nat /\ room \in Nat
    BY <1>1
  <2> HIDE DEF m, room
  <2>2. Min({m, room}) = IF m <= room THEN m ELSE room
    BY <2>1, MinOfTwo
  <2>3. /\ Min({m, room}) \in Nat /\ Min({m, room}) <= m
        /\ Min({m, room}) = m \/ Min({m, room}) = room
    BY <2>1, <2>2
  <2> QED
    BY <2>3 DEF m, room
<1> HIDE DEF k
<1>3. CASE response[c] = <<>> /\ UNCHANGED <<isClosed, response, outbox, connections,
                                             wantsOut, ready, cut, unarmed>>
  BY <1>3 DEF EpollInv
<1>4. CASE Except(c) /\ UNCHANGED <<response, outbox, unarmed>>
  BY <1>4, ExceptEpoll
<1>5. CASE /\ response[c] # <<>> /\ k = 0
           /\ unarmed' = IF c \in cut THEN unarmed ELSE unarmed \cup {c}
           /\ UNCHANGED <<isClosed, response, outbox, connections, wantsOut, ready, cut>>
  <2>1. Len(response[c]) # 0
    BY <1>1, <1>5, EmptySeq
  <2>2. Len(outbox[c]) = SocketRoom
    BY <1>1, <1>2, <1>5, <2>1
  <2>3. ~Writable(c)'
    BY <1>1, <1>5, <2>2 DEF Writable
  <2> QED
    BY <1>5, <2>3 DEF EpollInv
<1>6. CASE /\ response[c] # <<>> /\ k > 0
           /\ outbox' = [outbox EXCEPT ![c] = @ \o SubSeq(response[c], 1, k)]
           /\ response' = [response EXCEPT ![c] = SubSeq(@, k + 1, Len(@))]
           /\ wantsOut' = InterestAfter(c, response'[c])
           /\ ready' = IF Readable(c) THEN ready \cup {Fd(c)} ELSE ready
           /\ cut' = IF response'[c] = <<>> THEN cut \ {c} ELSE cut \cup {c}
           /\ UNCHANGED <<isClosed, connections, unarmed>>
  <2>1. k \in 0 .. Len(response[c])
    BY <1>1, <1>2
  <2>2. /\ SubSeq(response[c], 1, k) \in Seq(AnswerPiece)
        /\ Len(SubSeq(response[c], 1, k)) = k
        /\ SubSeq(response[c], k + 1, Len(response[c])) \in Seq(AnswerPiece)
        /\ Len(SubSeq(response[c], k + 1, Len(response[c]))) = Len(response[c]) - k
    BY <1>1, <2>1, Split
  <2>3. Len(outbox[c] \o SubSeq(response[c], 1, k)) = Len(outbox[c]) + k
    BY <1>1, <2>2, ConcatProperties
  <2>4. /\ response'[c] = SubSeq(response[c], k + 1, Len(response[c]))
        /\ outbox'[c] = outbox[c] \o SubSeq(response[c], 1, k)
        /\ \A d \in Conn \ {c} : response'[d] = response[d] /\ outbox'[d] = outbox[d]
    BY <1>1, <1>6 DEF Base, TypeOK, ConnectionTypeOK, NetworkTypeOK
  <2>5. response'[c] # <<>> => ~Writable(c)'
    <3>1. SUFFICES ASSUME response'[c] # <<>> PROVE Len(outbox'[c]) = SocketRoom
      BY <1>1 DEF Writable
    <3>2. Len(response[c]) - k # 0
      BY <2>2, <2>4, <3>1, EmptySeq
    <3>3. k = SocketRoom - Len(outbox[c])
      BY <1>1, <1>2, <3>2
    <3>4. Len(outbox'[c]) = Len(outbox[c]) + k
      BY <2>3, <2>4
    <3> QED
      BY <1>1, <3>3, <3>4
  <2>6. /\ wantsOut' = IF response'[c] = <<>> THEN wantsOut \ {c} ELSE wantsOut \cup {c}
        /\ cut' = IF response'[c] = <<>> THEN cut \ {c} ELSE cut \cup {c}
        /\ UNCHANGED <<isClosed, unarmed>>
        /\ ready \subseteq ready'
    BY <1>6 DEF InterestAfter
  <2>7. /\ cut' = wantsOut' /\ (response'[c] # <<>> => c \in wantsOut')
        /\ wantsOut \ {c} \subseteq wantsOut'
    BY <2>6 DEF EpollInv
  <2> QED
    BY <2>4, <2>5, <2>6, <2>7
<1> QED
  BY <1>3, <1>4, <1>5, <1>6 DEF Write, k

\* A step of the loop or of a client: responses and notifications stay.
LEMMA ElsewhereResponse ==
  ASSUME Base, ResponseInv,
         UNCHANGED <<pipe, notes, worker, response, raced, cut, unarmed, wantsOut>>,
         main'.pc = "notes" => main.pc = "notes",
         main.pc = "notes" /\ main'.pc # "notes" => notes = <<>>,
         \A c \in Conn : response[c] # <<>> =>
           /\ socket'[c] = socket[c] /\ isClosed'[c] = isClosed[c]
           /\ identifier'[c] = identifier[c]
           /\ ~isClosed[c] /\ Armed(c) => Armed(c)'
  PROVE  ResponseInv'
<1>1. EpollInv'
  BY DEF ResponseInv, EpollInv
<1>2. ASSUME NEW c \in Conn \ (raced \cup unarmed) PROVE OnItsWay(c)'
  <2>1. CASE response[c] = <<>>
    BY <2>1 DEF OnItsWay
  <2>2. CASE response[c] # <<>>
    <3>1. Announced(c) => Announced(c)'
      BY <2>2 DEF Announced
    <3> QED
      BY <2>2, <3>1 DEF ResponseInv, OnItsWay
  <2> QED
    BY <2>1, <2>2
<1> QED
  BY <1>1, <1>2 DEF ResponseInv

\* What c is armed by when nothing but the ready list changes.
LEMMA ArmedKept ==
  ASSUME NEW c, Armed(c), UNCHANGED <<wantsOut, events, main>>, ready \subseteq ready',
         outbox'[c] = outbox[c], identifier'[c] = identifier[c]
  PROVE  Armed(c)'
BY DEF Armed, Writable, Fd

LEMMA ClientResponse ==
  ASSUME Base, ResponseInv, NEW c \in Conn, ClientStep(c)
  PROVE  ResponseInv'
<1>1. /\ UNCHANGED <<connectionVars, wantsOut, events, notes, main, cut, unarmed>>
      /\ ready \subseteq ready'
  BY DEF ClientStep, Connect, ClientSend, ClientReceive, ClientClose, Wake
<1>2. UNCHANGED <<pipe, worker, response, raced, isClosed, identifier>>
  BY <1>1 DEF connectionVars, connection, pool, history
<1>3. \A d \in Conn : response[d] # <<>> => socket'[d] = socket[d]
  <2>1. CASE Connect(c)
    BY <2>1 DEF Connect, ResponseInv, EpollInv, Base, TypeOK, NetworkTypeOK
  <2>2. CASE ClientSend(c) \/ ClientReceive(c) \/ ClientClose(c)
    BY <2>2 DEF ClientSend, ClientReceive, ClientClose
  <2> QED
    BY <2>1, <2>2 DEF ClientStep
<1>4. ASSUME NEW d \in Conn, response[d] # <<>>, ~isClosed[d], Armed(d)
      PROVE  Armed(d)'
  <2>1. CASE outbox'[d] = outbox[d]
    BY <1>1, <1>2, <1>4, <2>1, ArmedKept
  <2>2. CASE outbox'[d] # outbox[d]
    <3>1. ClientReceive(c)
      BY <2>2 DEF ClientStep, Connect, ClientSend, ClientReceive, ClientClose
    <3>2. d = c
      BY <2>2, <3>1 DEF ClientReceive, Base, TypeOK, NetworkTypeOK
    <3>3. c \in wantsOut /\ socket[c] = "open"
      BY <1>4, <3>2 DEF Armed, ResponseInv, EpollInv
    <3>4. ready' = ready \cup {Fd(c)}
      BY <1>4, <3>1, <3>2, <3>3 DEF ClientReceive, Wake, Registered
    <3> QED
      BY <1>1, <1>2, <3>2, <3>3, <3>4 DEF Armed, Fd
  <2> QED
    BY <2>1, <2>2
<1> QED
  BY <1>1, <1>2, <1>3, <1>4, ElsewhereResponse

LEMMA EpollWaitResponse ==
  ASSUME Base, ResponseInv, EpollWait
  PROVE  ResponseInv'
<1>1. /\ UNCHANGED <<connectionVars, network, registry, wantsOut, notes, main, cut,
                     unarmed>>
      /\ main.pc = "loop" /\ events = {}
      /\ events' = {e \in {Report(f) : f \in ready} : e.in \/ e.out}
  BY DEF EpollWait
<1>2. UNCHANGED <<pipe, worker, response, raced, isClosed, identifier, socket, outbox>>
  BY <1>1 DEF connectionVars, connection, pool, history, network
<1>3. ASSUME NEW c \in Conn, response[c] # <<>>, ~isClosed[c], Armed(c)
      PROVE  Armed(c)'
  <2>1. c \in wantsOut
    BY <1>3 DEF Armed
  <2>2. CASE ~Writable(c)
    BY <1>1, <1>2, <2>1, <2>2 DEF Armed, Writable
  <2>3. CASE Writable(c)
    <3>1. Fd(c) \in ready
      BY <1>1, <1>3, <2>3 DEF Armed, Base, NamesInUse
    <3>2. /\ connections[Fd(c)] = c /\ Fd(c) \in NetFd
          /\ Fd(c) \notin {ListenFd, PipeFd}
      BY <1>3, ReactorConstants
         DEF ResponseInv, EpollInv, Base, TypeOK, RegistryOK
    <3>3. Report(Fd(c)) = [fd |-> Fd(c), in |-> Readable(c), out |-> TRUE]
      BY <2>1, <2>3, <3>2 DEF Report
    <3>4. Report(Fd(c)) \in events' /\ Report(Fd(c)).fd = Fd(c) /\ Report(Fd(c)).out
      BY <1>1, <3>1, <3>3
    <3> QED
      BY <1>1, <1>2, <2>1, <3>4 DEF Armed, Fd
  <2> QED
    BY <2>2, <2>3
<1> QED
  BY <1>1, <1>2, <1>3, ElsewhereResponse

\* Steps of the main thread between two events or about a new connection.
LEMMA QuietResponse ==
  ASSUME Base, ResponseInv, AcceptDone \/ NotesDone \/ ReadPush
  PROVE  ResponseInv'
<1>1. UNCHANGED <<pipe, notes, worker, response, raced, cut, unarmed, wantsOut, socket,
                  isClosed, identifier, outbox, ready, events>>
  BY DEF AcceptDone, NotesDone, ReadPush, Push, connectionVars, connection, pool,
         history, network, epoll, reactorVars
<1>2. \/ main.pc \in {"accept", "notes"} /\ main'.pc = "loop"
      \/ UNCHANGED main
  BY DEF AcceptDone, NotesDone, ReadPush, Loop, MainGoto, reactorVars
<1>3. main.pc = "notes" /\ main'.pc # "notes" => notes = <<>>
  BY DEF AcceptDone, NotesDone, ReadPush, reactorVars
<1>4. ASSUME NEW c \in Conn, Armed(c) PROVE Armed(c)'
  <2>1. main.pc \in {"accept", "notes"} => main.c # c
    BY ConnectionConstants DEF Base, NamesInUse
  <2> QED
    BY <1>1, <1>2, <1>4, <2>1, ArmedKept DEF Armed, Writable, Fd
<1> QED
  BY <1>1, <1>2, <1>3, <1>4, ElsewhereResponse

LEMMA AcceptResponse ==
  ASSUME Base, ResponseInv, NEW d \in Conn, Accept(d) \/ Refuse(d)
  PROVE  ResponseInv'
<1>1. /\ UNCHANGED <<pipe, notes, worker, response, raced, cut, unarmed, wantsOut,
                     isClosed, outbox, events, main>>
      /\ ready \subseteq ready' /\ socket[d] = "backlog"
      /\ \E x : socket' = [socket EXCEPT ![d] = x]
      /\ UNCHANGED identifier \/ \E x : identifier' = [identifier EXCEPT ![d] = x]
  BY DEF Accept, Refuse, connectionVars, connection, pool, history, epoll
<1>2. \A c \in Conn : response[c] # <<>> => c # d
  BY <1>1 DEF ResponseInv, EpollInv
<1>3. \A c \in Conn \ {d} : socket'[c] = socket[c] /\ identifier'[c] = identifier[c]
  BY <1>1 DEF Base, TypeOK, NetworkTypeOK, ConnectionTypeOK
<1> QED
  BY <1>1, <1>2, <1>3, ArmedKept, ElsewhereResponse

LEMMA ReadResponse ==
  ASSUME Base, ResponseInv, NEW d \in Conn, ReadChunk(d) \/ ReadDone(d)
  PROVE  ResponseInv'
<1>1. /\ UNCHANGED <<pipe, notes, worker, response, raced, cut, unarmed, wantsOut,
                     isClosed, outbox, events, ready, socket, identifier>>
      /\ main.pc = "read" /\ main.c = d
      /\ \/ UNCHANGED main
         \/ main' = IF main.out THEN [pc |-> "write", c |-> d, out |-> FALSE]
                    ELSE [pc |-> "loop", c |-> None, out |-> FALSE]
  BY DEF ReadChunk, Receive, ReadDone, Loop, MainGoto, connectionVars, connection, pool,
         history, epoll, network
<1>2. ASSUME NEW c \in Conn, Armed(c) PROVE Armed(c)'
  <2>1. CASE UNCHANGED main
    BY <1>1, <1>2, <2>1, ArmedKept
  <2>2. CASE main.out /\ main' = [pc |-> "write", c |-> d, out |-> FALSE]
    BY <1>1, <1>2, <2>2 DEF Armed, Writable, Fd
  <2>3. CASE ~main.out /\ main' = [pc |-> "loop", c |-> None, out |-> FALSE]
    BY <1>1, <1>2, <2>3 DEF Armed, Writable, Fd
  <2> QED
    BY <1>1, <2>1, <2>2, <2>3
<1>3. main.pc # "notes" /\ main'.pc # "notes"
  BY <1>1
<1> QED
  BY <1>1, <1>2, <1>3, ElsewhereResponse

LEMMA DispatchResponse ==
  ASSUME Base, ResponseInv, NEW e \in events, Dispatch(e)
  PROVE  ResponseInv'
<1>1. /\ UNCHANGED <<worker, response, raced, cut, unarmed, wantsOut, isClosed, outbox,
                     ready, socket, identifier>>
      /\ main.pc = "loop" /\ main.c = None /\ ~main.out /\ notes = <<>>
      /\ events' = events \ {e}
  BY DEF Dispatch, connection, pool, history, network, Base, NamesInUse, ResponseInv,
         EpollInv
<1>2. \A c \in Conn : ~(main.c = c /\ (main.pc = "write" \/ main.out))
  BY <1>1, ConnectionConstants
<1>3. ASSUME NEW c \in Conn, socket[c] = "open", ~isClosed[c], Armed(c)
      PROVE  Armed(c)'
  <2>1. CASE \E g \in events' : g.fd = Fd(c) /\ g.out
    BY <1>1, <1>3, <2>1 DEF Armed, Fd
  <2>2. CASE ~Writable(c) \/ Fd(c) \in ready
    BY <1>1, <1>3, <2>2 DEF Armed, Writable, Fd
  <2>3. CASE e.fd = Fd(c) /\ e.out
    <3>1. connections[Fd(c)] = c /\ Fd(c) \in NetFd /\ Fd(c) \notin {ListenFd, PipeFd}
      BY <1>3, ReactorConstants DEF Base, TypeOK, RegistryOK
    <3>2. c # None
      BY ConnectionConstants
    <3>3. MainGoto(IF e.in THEN "read" ELSE "write", c, e.out)
      BY <2>3, <3>1, <3>2 DEF Dispatch
    <3>4. main'.c = c /\ main'.out
      BY <2>3, <3>3 DEF MainGoto
    <3> QED
      BY <1>1, <1>3, <3>4 DEF Armed
  <2> QED
    BY <1>1, <1>2, <1>3, <2>1, <2>2, <2>3 DEF Armed
<1>4. CASE e.fd = PipeFd /\ notes' = pipe /\ pipe' = <<>> /\ MainGoto("notes", None, FALSE)
  <2>1. EpollInv'
    BY <1>1, <1>4 DEF ResponseInv, EpollInv, MainGoto
  <2>2. ASSUME NEW c \in Conn \ (raced \cup unarmed) PROVE OnItsWay(c)'
    <3>1. Announced(c) => Announced(c)'
      <4>1. Base'
        BY DispatchBase
      <4>2. Told(c) => Told(c)'
        BY <1>1, <1>4, EmptySeq DEF Told
      <4>3. Telling(c) => Telling(c)'
        BY <1>1 DEF Telling
      <4> QED
        BY <4>1, <4>2, <4>3, AnnouncedIs, AnnouncedNext
    <3> QED
      BY <1>1, <1>3, <3>1 DEF ResponseInv, EpollInv, OnItsWay
  <2> QED
    BY <1>1, <2>1, <2>2 DEF ResponseInv
<1>5. CASE UNCHANGED <<pipe, notes>> /\ main'.pc # "notes"
  BY <1>1, <1>3, <1>5, ElsewhereResponse DEF ResponseInv, EpollInv
<1>6. \/ e.fd = PipeFd /\ notes' = pipe /\ pipe' = <<>> /\ MainGoto("notes", None, FALSE)
      \/ UNCHANGED <<pipe, notes>> /\ main'.pc # "notes"
  <2>1. CASE e.fd = ListenFd /\ MainGoto("accept", None, FALSE) /\ UNCHANGED <<pipe, notes>>
    BY <2>1 DEF MainGoto
  <2>2. CASE /\ UNCHANGED <<pipe, notes>>
             /\ \/ UNCHANGED main
                \/ \E c, out : MainGoto(IF e.in THEN "read" ELSE "write", c, out)
    BY <1>1, <2>2 DEF MainGoto
  <2> QED
    BY <2>1, <2>2 DEF Dispatch
<1> QED
  BY <1>4, <1>5, <1>6

\* What a write to b or a close of b means for the others.
LEMMA OthersOnTheirWay ==
  ASSUME Base, ResponseInv, NEW b, InUse(b), ~isClosed[b],
         Write(b) \/ (Except(b) /\ UNCHANGED <<response, outbox, unarmed>>),
         UNCHANGED <<socket, identifier, events, worker, pipe>>,
         NEW c \in Conn \ {b}, OnItsWay(c), response[c] # <<>>,
         \A n : n.id = identifier[c] /\ n \in Range(notes) => n \in Range(notes'),
         UNCHANGED main \/ main.c # c
  PROVE  OnItsWay(c)'
<1>1. /\ isClosed'[c] = isClosed[c] /\ response'[c] = response[c]
      /\ outbox'[c] = outbox[c]
      /\ c \in wantsOut => c \in wantsOut'
      /\ InUse(c) /\ ~isClosed[c] /\ Fd(c) \in ready => Fd(c) \in ready'
  BY WriteEpoll, ExceptEpoll DEF ResponseInv
<1>2. InUse(c)
  BY DEF ResponseInv, EpollInv, InUse
<1>3. Announced(c) => Announced(c)'
  BY DEF Announced
<1>4. ~isClosed[c] /\ Armed(c) => Armed(c)'
  BY <1>1, <1>2 DEF Armed, Writable, Fd
<1> QED
  BY <1>1, <1>3, <1>4 DEF OnItsWay

\* What a write to b or a close of b means for b.
LEMMA OwnOnItsWay ==
  ASSUME Base, ResponseInv, NEW b, InUse(b), ~isClosed[b],
         Write(b) \/ (Except(b) /\ UNCHANGED <<response, outbox, unarmed>>),
         b \notin unarmed'
  PROVE  OnItsWay(b)' /\ cut' = wantsOut'
<1>1. cut' = wantsOut'
  BY WriteEpoll, ExceptEpoll DEF ResponseInv
<1>2. \/ isClosed'[b] \/ response'[b] = <<>>
      \/ b \in wantsOut' /\ ~Writable(b)'
  BY WriteEpoll, ExceptEpoll DEF ResponseInv
<1> QED
  BY <1>1, <1>2 DEF OnItsWay, Armed

LEMMA CloseOrWriteKeeps ==
  ASSUME Base, ResponseInv, NEW b, InUse(b), ~isClosed[b],
         Write(b) \/ (Except(b) /\ UNCHANGED <<response, outbox, unarmed>>),
         UNCHANGED socket
  PROVE  /\ cut' = wantsOut' /\ unarmed \subseteq unarmed'
         /\ \A c \in Conn : response'[c] # <<>> => socket'[c] = "open"
<1>1. cut' = wantsOut' /\ unarmed \subseteq unarmed'
  BY WriteEpoll, ExceptEpoll DEF ResponseInv
<1>2. \A c \in Conn \ {b} : response'[c] = response[c]
  BY WriteEpoll DEF ResponseInv
<1> QED
  BY <1>1, <1>2 DEF ResponseInv, EpollInv, InUse

LEMMA EventResponse ==
  ASSUME Base, ResponseInv, NEW b \in Conn, ReadClosed(b) \/ WriteEvent(b)
  PROVE  ResponseInv'
<1>1. /\ Write(b) \/ (Except(b) /\ UNCHANGED <<response, outbox, unarmed>>)
      /\ UNCHANGED <<socket, identifier, events, worker, pipe, notes, raced>>
      /\ main.pc \in {"read", "write"} /\ main.c = b
      /\ main' = [pc |-> "loop", c |-> None, out |-> FALSE]
  BY DEF ReadClosed, WriteEvent, Loop, MainGoto, network, pool, history
<1>2. InUse(b) /\ ~isClosed[b]
  BY <1>1 DEF Base, NamesInUse
<1>3. /\ cut' = wantsOut' /\ unarmed \subseteq unarmed'
      /\ \A c \in Conn : response'[c] # <<>> => socket'[c] = "open"
  BY <1>1, <1>2, CloseOrWriteKeeps
<1>4. EpollInv'
  BY <1>1, <1>3 DEF ResponseInv, EpollInv
<1>5. ASSUME NEW c \in Conn \ (raced' \cup unarmed') PROVE OnItsWay(c)'
  <2>1. CASE c = b
    BY <1>1, <1>2, <2>1, OwnOnItsWay
  <2>2. CASE c # b /\ response[c] # <<>>
    <3>1. OnItsWay(c)
      BY <1>1, <1>3 DEF ResponseInv
    <3> QED
      BY <1>1, <1>2, <2>2, <3>1, OthersOnTheirWay
  <2>3. CASE c # b /\ response[c] = <<>>
    <3>1. response'[c] = response[c]
      BY <1>1, <1>2, <2>3, WriteEpoll DEF ResponseInv
    <3> QED
      BY <2>3, <3>1 DEF OnItsWay
  <2> QED
    BY <2>1, <2>2, <2>3
<1> QED
  BY <1>4, <1>5 DEF ResponseInv

\* A notification that is not about c goes, those about c stay.
LEMMA NotesShrink ==
  ASSUME Base, notes # <<>>, notes' = Tail(notes), NEW id, Head(notes).id # id
  PROVE  \A n : n.id = id /\ n \in Range(notes) => n \in Range(notes')
<1>1. /\ notes \in Seq(Notification) /\ Len(notes) \in Nat \ {0}
      /\ DOMAIN notes = 1 .. Len(notes) /\ Head(notes) = notes[1]
  BY EmptySeq, LenProperties DEF Base, TypeOK, ServerTypeOK
<1>2. /\ Tail(notes) \in Seq(Notification) /\ Len(Tail(notes)) = Len(notes) - 1
      /\ \A i \in 1 .. Len(Tail(notes)) : Tail(notes)[i] = notes[i + 1]
  BY <1>1, HeadTailProperties
<1>3. DOMAIN notes' = 1 .. Len(notes) - 1
  BY <1>2, LenProperties
<1>4. ASSUME NEW n, n.id = id, n \in Range(notes) PROVE n \in Range(notes')
  <2>1. PICK i \in 1 .. Len(notes) : n = notes[i]
    BY <1>1, <1>4 DEF Range
  <2>2. i # 1
    BY <1>1, <1>4, <2>1
  <2>3. i - 1 \in 1 .. Len(notes) - 1 /\ notes'[i - 1] = n
    BY <1>1, <1>2, <2>1, <2>2
  <2> QED
    BY <1>3, <2>3 DEF Range
<1> QED
  BY <1>4

LEMMA NoteResponse ==
  ASSUME Base, ResponseInv, Note
  PROVE  ResponseInv'
<1> DEFINE n == Head(notes)
           b == connections[n.id.fd]
<1>1. /\ notes \in Seq(Notification) /\ notes # <<>> /\ notes' = Tail(notes)
      /\ Len(notes) \in Nat \ {0} /\ n = notes[1]
  BY EmptySeq, LenProperties DEF Note, Base, TypeOK, ServerTypeOK
<1>2. PICK d \in Conn : socket[d] = "open" /\ n.id = identifier[d]
  BY <1>1 DEF Base, NamesInUse
<1>3. n.id.fd \in NetFd /\ b \in Conn \cup {None}
  BY <1>2 DEF Base, TypeOK, ServerTypeOK, RegistryOK, Fd
<1>4. /\ UNCHANGED <<socket, identifier, events, worker, pipe, raced, main>>
      /\ main.pc = "notes"
      /\ \/ /\ b = None \/ n.id.use # useTimes[n.id.fd]
            /\ UNCHANGED <<isClosed, response, outbox, connections, wantsOut, ready, cut,
                           unarmed>>
         \/ /\ b # None /\ n.id.use = useTimes[n.id.fd]
            /\ Write(b) \/ (Except(b) /\ UNCHANGED <<response, outbox, unarmed>>)
  BY DEF Note, pool, history
<1>5. ASSUME NEW c \in Conn, socket[c] = "open", ~isClosed[c], n.id = identifier[c]
      PROVE  b = c /\ n.id.use = useTimes[n.id.fd]
  <2>1. connections[Fd(c)] = c /\ Fd(c) \in NetFd
    BY <1>5 DEF Base, TypeOK, RegistryOK
  <2>2. identifier[c] = [fd |-> Fd(c), use |-> useTimes[Fd(c)]]
    BY <2>1, ConnectionConstants DEF Base, TypeOK, RegistryOK
  <2>3. n.id.fd = Fd(c) /\ n.id.use = useTimes[Fd(c)]
    BY <1>5, <2>2 DEF Fd
  <2> QED
    BY <2>1, <2>3
<1>6. b # None => InUse(b) /\ ~isClosed[b]
  BY <1>3 DEF Base, TypeOK, RegistryOK, InUse
<1> HIDE DEF b
<1>7. CASE /\ b = None \/ n.id.use # useTimes[n.id.fd]
           /\ UNCHANGED <<isClosed, response, outbox, connections, wantsOut, ready, cut,
                          unarmed>>
  <2>1. EpollInv'
    BY <1>4, <1>7 DEF ResponseInv, EpollInv
  <2>2. ASSUME NEW c \in Conn \ (raced \cup unarmed) PROVE OnItsWay(c)'
    <3>1. CASE response[c] = <<>> \/ isClosed[c]
      BY <1>7, <3>1 DEF OnItsWay
    <3>2. CASE response[c] # <<>> /\ ~isClosed[c]
      <4>1. socket[c] = "open"
        BY <3>2 DEF ResponseInv, EpollInv
      <4>2. n.id # identifier[c]
        BY <1>5, <1>7, <3>2, <4>1, ConnectionConstants
      <4>3. \A x : x.id = identifier[c] /\ x \in Range(notes) => x \in Range(notes')
        BY <1>1, <4>2, NotesShrink
      <4>4. Announced(c) => Announced(c)'
        BY <1>4, <4>3 DEF Announced
      <4>5. Armed(c) => Armed(c)'
        BY <1>4, <1>7, ArmedKept
      <4> QED
        BY <1>7, <4>4, <4>5 DEF ResponseInv, OnItsWay
    <3> QED
      BY <3>1, <3>2
  <2> QED
    BY <1>4, <1>7, <2>1, <2>2 DEF ResponseInv
<1>8. CASE /\ b # None /\ n.id.use = useTimes[n.id.fd]
           /\ Write(b) \/ (Except(b) /\ UNCHANGED <<response, outbox, unarmed>>)
  <2>1. InUse(b) /\ ~isClosed[b]
    BY <1>6, <1>8
  <2>2. /\ cut' = wantsOut' /\ unarmed \subseteq unarmed'
        /\ \A c \in Conn : response'[c] # <<>> => socket'[c] = "open"
    BY <1>4, <1>8, <2>1, CloseOrWriteKeeps
  <2>3. EpollInv'
    BY <1>4, <2>2 DEF EpollInv
  <2>4. ASSUME NEW c \in Conn \ (raced' \cup unarmed') PROVE OnItsWay(c)'
    <3>1. CASE c = b
      BY <1>8, <2>1, <3>1, OwnOnItsWay
    <3>2. CASE c # b /\ response[c] # <<>> /\ ~isClosed[c]
      <4>1. OnItsWay(c)
        BY <1>4, <2>2 DEF ResponseInv
      <4>2. socket[c] = "open"
        BY <3>2 DEF ResponseInv, EpollInv
      <4>3. n.id # identifier[c]
        BY <1>5, <3>2, <4>2
      <4>4. \A x : x.id = identifier[c] /\ x \in Range(notes) => x \in Range(notes')
        BY <1>1, <4>3, NotesShrink
      <4> QED
        BY <1>4, <1>8, <2>1, <3>2, <4>1, <4>4, OthersOnTheirWay
    <3>3. CASE c # b /\ (response[c] = <<>> \/ isClosed[c])
      <4>1. response'[c] = response[c] /\ isClosed'[c] = isClosed[c]
        BY <1>8, <2>1, <3>3, WriteEpoll, ExceptEpoll DEF ResponseInv
      <4> QED
        BY <3>3, <4>1 DEF OnItsWay
    <3> QED
      BY <3>1, <3>2, <3>3
  <2> QED
    BY <2>3, <2>4 DEF ResponseInv
<1> QED
  BY <1>4, <1>7, <1>8

LEMMA PoolStepInv ==
  ASSUME Base, ResponseInv, NEW w \in Worker, PoolStep(w)
  PROVE  ResponseInv'
<1>1. /\ UNCHANGED <<cut, wantsOut, main, notes, socket>>
  BY PoolStepEpoll DEF PoolStep, network
<1>2. ASSUME NEW c \in Conn, response'[c] # response[c] PROVE socket[c] = "open"
  <2>1. WorkerStep(w)
    BY DEF PoolStep
  <2>2. PICK d \in Conn : Parse(w, d) \/ AppendPiece(w, d)
    BY <1>2, <2>1 DEF WorkerStep, Take, Abandon, ParseOn, NotifyResponse, Finish, Leave,
                      connection
  <2>3. InUse(d)
    BY <2>2, AtWork DEF Parse, AppendPiece, At
  <2>4. UNCHANGED response \/ \E r, k : Respond(d, r, k)
    BY <2>2 DEF Parse, AppendPiece
  <2>5. d = c
    BY <1>2, <2>4 DEF Respond, Base, TypeOK, ConnectionTypeOK
  <2> QED
    BY <2>3, <2>5 DEF InUse
<1>3. EpollInv'
  BY <1>1, <1>2 DEF ResponseInv, EpollInv
<1> QED
  BY <1>3, PoolStepResponses DEF ResponseInv

LEMMA NextResponse == Base /\ ResponseInv /\ [Next]_vars => ResponseInv'
<1> SUFFICES ASSUME Base, ResponseInv, [Next]_vars PROVE ResponseInv'
  OBVIOUS
<1>1. CASE MainStep
  <2>1. CASE AcceptDone \/ NotesDone \/ ReadPush
    BY <2>1, QuietResponse
  <2>2. CASE EpollWait \/ Note
    BY <2>2, EpollWaitResponse, NoteResponse
  <2>3. ASSUME NEW e \in events, Dispatch(e) PROVE ResponseInv'
    BY <2>3, DispatchResponse
  <2>4. ASSUME NEW c \in Conn, Accept(c) \/ Refuse(c) PROVE ResponseInv'
    BY <2>4, AcceptResponse
  <2>5. ASSUME NEW c \in Conn, ReadChunk(c) \/ ReadDone(c) PROVE ResponseInv'
    BY <2>5, ReadResponse
  <2>6. ASSUME NEW c \in Conn, ReadClosed(c) \/ WriteEvent(c) PROVE ResponseInv'
    BY <2>6, EventResponse
  <2> QED
    BY <1>1, <2>1, <2>2, <2>3, <2>4, <2>5, <2>6 DEF MainStep
<1>2. CASE UNCHANGED vars
  <2>1. UNCHANGED <<pipe, notes, worker, response, raced, cut, unarmed, wantsOut, socket,
                    isClosed, identifier, outbox, ready, events, main>>
    BY <1>2 DEF vars, connectionVars, connection, pool, history, reactorVars, network,
                epoll
  <2> QED
    BY <2>1, ArmedKept, ElsewhereResponse
<1> QED
  BY <1>1, <1>2, PoolStepInv, ClientResponse DEF Next

LEMMA InitResponse == Init => ResponseInv
BY DEF Init, ResponseInv, EpollInv, OnItsWay

\* Whatever the number of connections and the room in a socket, what is in the
\* response buffer of an open connection has a notification on its way or
\* EPOLLOUT armed for it, unless NetWriter has met a full socket without
\* EPOLLOUT or two workers have met in the connection.
THEOREM ResponsesOnTheirWay == Spec => []ResponsesAreAnnounced
<1>1. Init => Base /\ ResponseInv
  BY InitBase, InitResponse
<1>2. Base /\ ResponseInv /\ [Next]_vars => (Base /\ ResponseInv)'
  BY NextBase, NextResponse
<1>3. ResponseInv => ResponsesAreAnnounced
  BY DEF ResponseInv, OnItsWay, ResponsesAreAnnounced
<1> QED
  BY <1>1, <1>2, <1>3, PTL DEF Spec

-----------------------------------------------------------------------------
(* Closes are asked for                                                    *)

\* Until the use counts of a descriptor wrap they count its connections, and
\* two connections with one identifier are more than UseTimes apart.
IdInv ==
  /\ \A f \in NetFd : Cardinality(Users(f)) < UseTimes =>
       /\ useTimes[f] = Cardinality(Users(f))
       /\ \A c \in Users(f) : identifier[c].use \in 1 .. useTimes[f]
  /\ \A c, d \in Conn :
       /\ socket[c] = "open" /\ socket[d] = "open" /\ c # d
       /\ identifier[c] = identifier[d]
       => Cardinality(Users(Fd(c))) > UseTimes

AskedFor(n) ==
  n.op = "c" => \E c \in asked : socket[c] = "open" /\ n.id = identifier[c]

\* Nothing is on its way that would close c, and no worker has a task of
\* another connection that may send it.
Unnamed(c) ==
  /\ \A i \in 1 .. Len(pipe) : ~(pipe[i].op = "c" /\ pipe[i].id = identifier[c])
  /\ \A i \in 1 .. Len(notes) : ~(notes[i].op = "c" /\ notes[i].id = identifier[c])
  /\ \A w \in Worker :
       worker[w].c \notin {None, c} => identifier[worker[w].c] # identifier[c]

CloseInv ==
  /\ IdInv
  /\ \A i \in 1 .. Len(pipe) : AskedFor(pipe[i])
  /\ \A i \in 1 .. Len(notes) : AskedFor(notes[i])
  /\ \A c \in Conn \ (namesakes \cup asked) :
       socket[c] = "open" /\ ~isClosed[c] => Unnamed(c)
  /\ ClosesAreAsked

LEMMA UsersAreFinite ==
  \A f : IsFiniteSet(Users(f)) /\ Cardinality(Users(f)) \in Nat
BY ConnectionConstants, FS_Subset, FS_CardinalityType DEF Users

LEMMA UsersKept ==
  ASSUME UNCHANGED identifier,
         \A c \in Conn : (socket'[c] = "open") = (socket[c] = "open")
  PROVE  \A f : Users(f)' = Users(f)
BY DEF Users, Fd

LEMMA IdKept ==
  ASSUME IdInv, UNCHANGED <<useTimes, identifier>>,
         \A c \in Conn : (socket'[c] = "open") = (socket[c] = "open")
  PROVE  IdInv'
<1>1. \A f : Users(f)' = Users(f)
  BY UsersKept
<1> QED
  BY <1>1 DEF IdInv, Fd

\* Two connections registered at once have different identifiers.
LEMMA RegisteredOnce ==
  ASSUME Base, NEW c \in Conn, NEW d \in Conn, InUse(c), InUse(d),
         ~isClosed[c], ~isClosed[d], identifier[c] = identifier[d]
  PROVE  c = d
BY DEF Base, TypeOK, RegistryOK, InUse, Fd

\* The notifications after a step that writes at most one.
LEMMA NotificationsAre ==
  ASSUME Base,
         UNCHANGED pipe \/ pipe' = <<>>
           \/ \E c \in Conn : InUse(c) /\ (Notify("w", c) \/ Notify("c", c)),
         UNCHANGED notes \/ notes' = pipe \/ (notes # <<>> /\ notes' = Tail(notes))
  PROVE  /\ \A i \in 1 .. Len(pipe') :
              \/ \E j \in 1 .. Len(pipe) : pipe'[i] = pipe[j]
              \/ \E c \in Conn : /\ InUse(c)
                                 /\ \/ /\ Notify("w", c)
                                       /\ pipe'[i] = [op |-> "w", id |-> identifier[c]]
                                    \/ /\ Notify("c", c)
                                       /\ pipe'[i] = [op |-> "c", id |-> identifier[c]]
         /\ \A i \in 1 .. Len(notes') :
              \/ \E j \in 1 .. Len(pipe) : notes'[i] = pipe[j]
              \/ \E j \in 1 .. Len(notes) : notes'[i] = notes[j]
<1>1. ASSUME NEW i \in 1 .. Len(pipe')
      PROVE  \/ \E j \in 1 .. Len(pipe) : pipe'[i] = pipe[j]
             \/ \E c \in Conn : /\ InUse(c)
                                /\ \/ /\ Notify("w", c)
                                      /\ pipe'[i] = [op |-> "w", id |-> identifier[c]]
                                   \/ /\ Notify("c", c)
                                      /\ pipe'[i] = [op |-> "c", id |-> identifier[c]]
  <2>1. CASE UNCHANGED pipe
    BY <1>1, <2>1
  <2>2. CASE pipe' = <<>>
    BY <1>1, <2>2, EmptySeq
  <2>3. ASSUME NEW c \in Conn, InUse(c), NEW op \in {"w", "c"}, Notify(op, c)
        PROVE  \/ \E j \in 1 .. Len(pipe) : pipe'[i] = pipe[j]
               \/ pipe'[i] = [op |-> op, id |-> identifier[c]]
    <3>1. /\ Len(pipe') = Len(pipe) + 1
          /\ \A j \in 1 .. Len(pipe) : pipe'[j] = pipe[j]
          /\ pipe'[Len(pipe')] = [op |-> op, id |-> identifier[c]]
      BY <2>3, NotifyTypes
    <3>2. Len(pipe) \in Nat
      BY LenProperties DEF Base, TypeOK, PoolTypeOK
    <3>3. i \in 1 .. Len(pipe) \/ i = Len(pipe')
      BY <1>1, <3>1, <3>2
    <3> QED
      BY <3>1, <3>3
  <2> QED
    BY <2>1, <2>2, <2>3
<1>2. ASSUME NEW i \in 1 .. Len(notes')
      PROVE  \/ \E j \in 1 .. Len(pipe) : notes'[i] = pipe[j]
             \/ \E j \in 1 .. Len(notes) : notes'[i] = notes[j]
  <2>1. CASE UNCHANGED notes \/ notes' = pipe
    BY <1>2, <2>1
  <2>2. CASE notes # <<>> /\ notes' = Tail(notes)
    <3>1. notes \in Seq(Notification) /\ Len(notes) \in Nat
      BY LenProperties DEF Base, TypeOK, ServerTypeOK
    <3>2. /\ Len(notes') = Len(notes) - 1
          /\ \A j \in 1 .. Len(notes') : notes'[j] = notes[j + 1]
      BY <2>2, <3>1, HeadTailProperties
    <3>3. i + 1 \in 1 .. Len(notes) /\ notes'[i] = notes[i + 1]
      BY <1>2, <3>1, <3>2
    <3> QED
      BY <3>3
  <2> QED
    BY <2>1, <2>2
<1> QED
  BY <1>1, <1>2

\* A step that accepts nobody: who asks for a close is a worker with a task of
\* the connection it names, and a task that is taken is of a registered one.
LEMMA CloseKept ==
  ASSUME Base, CloseInv, UNCHANGED <<useTimes, identifier, namesakes>>,
         \A c \in Conn : (socket'[c] = "open") = (socket[c] = "open"),
         asked \subseteq asked', gone \subseteq gone',
         UNCHANGED pipe \/ pipe' = <<>>
           \/ \E c \in Conn : /\ InUse(c)
                              /\ \/ Notify("w", c)
                                 \/ /\ Notify("c", c) /\ c \in asked'
                                    /\ \E w \in Worker : worker[w].c = c,
         UNCHANGED notes \/ notes' = pipe \/ (notes # <<>> /\ notes' = Tail(notes)),
         \A w \in Worker :
           \/ worker'[w].c \in {None, worker[w].c}
           \/ InUse(worker'[w].c) /\ ~isClosed[worker'[w].c],
         \A c \in Conn : isClosed[c] => isClosed'[c],
         \A c \in Conn : isClosed'[c] =>
           \/ isClosed[c] \/ c \in gone' \cup asked'
           \/ c \in namesakes /\ Cardinality(Users(Fd(c))) > UseTimes
  PROVE  CloseInv'
<1>1. IdInv'
  BY IdKept DEF CloseInv
<1>2. /\ \A i \in 1 .. Len(pipe') :
           \/ \E j \in 1 .. Len(pipe) : pipe'[i] = pipe[j]
           \/ \E c \in Conn : /\ InUse(c)
                              /\ \/ /\ Notify("w", c)
                                    /\ pipe'[i] = [op |-> "w", id |-> identifier[c]]
                                 \/ /\ Notify("c", c)
                                    /\ pipe'[i] = [op |-> "c", id |-> identifier[c]]
      /\ \A i \in 1 .. Len(notes') :
           \/ \E j \in 1 .. Len(pipe) : notes'[i] = pipe[j]
           \/ \E j \in 1 .. Len(notes) : notes'[i] = notes[j]
  BY NotificationsAre
<1>3. ASSUME NEW i \in 1 .. Len(pipe'), ~ \E j \in 1 .. Len(pipe) : pipe'[i] = pipe[j]
      PROVE  \/ pipe'[i].op = "w"
             \/ \E c \in asked', w \in Worker :
                  /\ c \in Conn /\ InUse(c) /\ worker[w].c = c
                  /\ pipe'[i].id = identifier[c]
  <2>1. PICK c \in Conn :
          /\ InUse(c)
          /\ \/ Notify("w", c) /\ pipe'[i] = [op |-> "w", id |-> identifier[c]]
             \/ Notify("c", c) /\ pipe'[i] = [op |-> "c", id |-> identifier[c]]
    BY <1>2, <1>3
  <2>2. CASE pipe'[i] = [op |-> "w", id |-> identifier[c]]
    BY <2>2
  <2>3. CASE Notify("c", c) /\ pipe'[i] = [op |-> "c", id |-> identifier[c]]
    <3>1. pipe' = Append(pipe, [op |-> "c", id |-> identifier[c]])
      BY <2>3 DEF Notify
    <3>2. PICK d \in Conn : /\ InUse(d)
                            /\ \/ Notify("w", d)
                               \/ /\ Notify("c", d) /\ d \in asked'
                                  /\ \E w \in Worker : worker[w].c = d
      <4>1. ~UNCHANGED pipe /\ pipe' # <<>>
        BY <1>3, EmptySeq
      <4> QED
        BY <4>1
    <3>3. /\ Len(pipe) \in Nat /\ Len(pipe') = Len(pipe) + 1
          /\ pipe'[Len(pipe')] = [op |-> "c", id |-> identifier[c]]
      BY <2>1, <2>3, NotifyTypes, LenProperties DEF Base, TypeOK, PoolTypeOK
    <3>4. CASE Notify("w", d)
      <4>1. pipe'[Len(pipe')] = [op |-> "w", id |-> identifier[d]]
        BY <3>2, <3>4, NotifyTypes
      <4>2. [op |-> "w", id |-> identifier[d]].op # [op |-> "c", id |-> identifier[c]].op
        OBVIOUS
      <4> QED
        BY <3>3, <4>1, <4>2
    <3>5. CASE Notify("c", d)
      <4>1. pipe'[Len(pipe')] = [op |-> "c", id |-> identifier[d]]
        BY <3>2, <3>5, NotifyTypes
      <4>2. [op |-> "c", id |-> identifier[d]].id = [op |-> "c", id |-> identifier[c]].id
        BY <3>3, <4>1
      <4>3. identifier[d] = identifier[c] /\ pipe'[i].id = identifier[c]
        BY <2>3, <4>2
      <4>4. Notify("w", d) \/ (d \in asked' /\ \E w \in Worker : worker[w].c = d)
        BY <3>2
      <4>5. CASE Notify("w", d)
        BY <3>4, <4>5
      <4>6. CASE d \in asked' /\ \E w \in Worker : worker[w].c = d
        BY <3>2, <4>3, <4>6
      <4> QED
        BY <4>4, <4>5, <4>6
    <3> QED
      BY <3>2, <3>4, <3>5
  <2> QED
    BY <2>1, <2>2, <2>3
<1> DEFINE Then(n) == n.op = "c" =>
             \E c \in asked' : socket'[c] = "open" /\ n.id = identifier'[c]
<1>4. \A n : AskedFor(n) => Then(n)
  BY DEF AskedFor, Base, TypeOK, PoolTypeOK
<1>5. \A i \in 1 .. Len(pipe') : Then(pipe'[i])
  <2>1. ASSUME NEW i \in 1 .. Len(pipe') PROVE Then(pipe'[i])
    <3>1. CASE \E j \in 1 .. Len(pipe) : pipe'[i] = pipe[j]
      BY <1>4, <3>1 DEF CloseInv
    <3>2. CASE ~ \E j \in 1 .. Len(pipe) : pipe'[i] = pipe[j]
      BY <1>3, <3>2 DEF InUse
    <3> QED
      BY <3>1, <3>2
  <2> QED
    BY <2>1
<1>6. \A i \in 1 .. Len(notes') : Then(notes'[i])
  BY <1>2, <1>4 DEF CloseInv
<1>7. ASSUME NEW c \in Conn \ (namesakes' \cup asked'), socket'[c] = "open", ~isClosed'[c]
      PROVE  Unnamed(c)'
  <2>1. socket[c] = "open" /\ ~isClosed[c] /\ Unnamed(c)
    BY <1>7 DEF CloseInv
  <2>2. ASSUME NEW d \in Conn, NEW w \in Worker, d # c, worker[w].c = d
        PROVE  identifier[d] # identifier[c]
    BY <2>1, <2>2, ConnectionConstants DEF Unnamed
  <2>3. \A i \in 1 .. Len(pipe') : ~(pipe'[i].op = "c" /\ pipe'[i].id = identifier[c])
    <3>1. ASSUME NEW i \in 1 .. Len(pipe'), pipe'[i].op = "c", pipe'[i].id = identifier[c]
          PROVE  FALSE
      <4>1. CASE \E j \in 1 .. Len(pipe) : pipe'[i] = pipe[j]
        BY <2>1, <3>1, <4>1 DEF Unnamed
      <4>2. CASE ~ \E j \in 1 .. Len(pipe) : pipe'[i] = pipe[j]
        BY <1>3, <1>7, <2>2, <3>1, <4>2
      <4> QED
        BY <4>1, <4>2
    <3> QED
      BY <3>1
  <2>4. \A i \in 1 .. Len(notes') : ~(notes'[i].op = "c" /\ notes'[i].id = identifier[c])
    BY <1>2, <2>1 DEF Unnamed
  <2>5. ASSUME NEW w \in Worker, worker'[w].c \notin {None, c}
        PROVE  identifier[worker'[w].c] # identifier[c]
    <3>1. CASE worker'[w].c \in {None, worker[w].c}
      BY <2>1, <2>5, <3>1 DEF Unnamed
    <3>2. CASE InUse(worker'[w].c) /\ ~isClosed[worker'[w].c]
      BY <2>1, <2>5, <3>2, RegisteredOnce DEF InUse
    <3> QED
      BY <3>1, <3>2
  <2> QED
    BY <2>3, <2>4, <2>5 DEF Unnamed
<1>8. ClosesAreAsked'
  <2>1. \A f : Users(f)' = Users(f)
    BY UsersKept
  <2>2. ASSUME NEW c \in Conn, isClosed'[c]
        PROVE  \/ c \in gone' \cup asked'
               \/ c \in namesakes' /\ (Cardinality(Users(Fd(c))) > UseTimes)'
    <3>1. Users(Fd(c))' = Users(Fd(c))
      BY <2>1 DEF Users, Fd
    <3> QED
      BY <2>2, <3>1 DEF CloseInv, ClosesAreAsked
  <2> QED
    BY <2>2 DEF ClosesAreAsked
<1> QED
  BY <1>1, <1>5, <1>6, <1>7, <1>8 DEF CloseInv, AskedFor

LEMMA PoolStepClose ==
  ASSUME Base, CloseInv, NEW w \in Worker, PoolStep(w)
  PROVE  CloseInv'
<1>1. UNCHANGED <<useTimes, identifier, namesakes, socket, gone, notes, isClosed>>
  BY DEF PoolStep, WorkerStep, Take, Abandon, ParseOn, Parse, AppendPiece,
         NotifyResponse, Finish, Leave, connection, network, client, registry
<1>2. WorkerStep(w)
  BY DEF PoolStep
<1>3. \A v \in Worker :
        \/ worker'[v].c \in {None, worker[v].c}
        \/ InUse(worker'[v].c) /\ ~isClosed[worker'[v].c]
  <2>1. worker \in [Worker -> WorkerState]
    BY DEF Base, TypeOK, PoolTypeOK
  <2>2. ASSUME NEW c \in Conn,
               ParseOn(w, c) \/ Parse(w, c) \/ AppendPiece(w, c) \/ NotifyResponse(w, c)
                 \/ Leave(w, c)
        PROVE  \A v \in Worker : worker'[v].c \in {None, worker[v].c}
    <3>1. \/ \E label : Goto(w, label)
          \/ \E label, n : Took(w, label, n)
          \/ Rest(w)
      BY <2>2 DEF ParseOn, Parse, AppendPiece, NotifyResponse, Leave
    <3>2. ASSUME NEW label, Goto(w, label) PROVE worker'[w].c = worker[w].c
      BY <2>1, <3>2 DEF Goto, WorkerState
    <3>3. ASSUME NEW label, NEW n, Took(w, label, n) PROVE worker'[w].c = worker[w].c
      BY <2>1, <3>3 DEF Took, WorkerState
    <3>4. Rest(w) => worker'[w].c = None
      BY <2>1 DEF Rest, Idle
    <3>5. \A v \in Worker \ {w} : worker'[v] = worker[v]
      BY <2>1, <3>1 DEF Goto, Took, Rest
    <3> QED
      BY <3>1, <3>2, <3>3, <3>4, <3>5
  <2>3. CASE Abandon(w)
    BY <2>1, <2>3 DEF Abandon, Rest, Idle
  <2>4. CASE Take(w)
    <3>1. Head(queue) = queue[1] /\ 1 \in 1 .. Len(queue)
      BY <2>4, EmptySeq, LenProperties, HeadTailProperties
         DEF Take, Base, TypeOK, PoolTypeOK
    <3>2. InUse(Head(queue).c)
      BY <3>1 DEF Base, NamesInUse
    <3> QED
      BY <2>1, <2>4, <3>2 DEF Take, Rest, Begin, Idle
  <2>5. ASSUME NEW c \in Conn, Finish(w, c)
        PROVE  \A v \in Worker : worker'[v].c \in {None, worker[v].c}
    <3>1. worker[w].c = c
      BY <2>5 DEF Finish, At
    <3>2. \/ Goto(w, "leave") \/ Rest(w)
          \/ \E task : Begin(w, [task |-> task, c |-> c])
      BY <2>5 DEF Finish, Chain
    <3> QED
      BY <2>1, <3>1, <3>2 DEF Goto, Rest, Begin, Idle, WorkerState
  <2> QED
    BY <1>2, <2>2, <2>3, <2>4, <2>5 DEF WorkerStep
<1>4. CASE Take(w) \/ Abandon(w)
  BY <1>1, <1>3, <1>4, CloseKept DEF Take, Abandon, history
<1>5. ASSUME NEW c \in Conn, ParseOn(w, c) \/ Finish(w, c) \/ Leave(w, c)
      PROVE  CloseInv'
  BY <1>1, <1>3, <1>5, CloseKept DEF ParseOn, Finish, Leave, history
<1>6. ASSUME NEW c \in Conn, Parse(w, c) \/ AppendPiece(w, c) \/ NotifyResponse(w, c)
      PROVE  CloseInv'
  <2>1. InUse(c) /\ worker[w].c = c
    BY <1>6, AtWork DEF Parse, AppendPiece, NotifyResponse, At
  <2>2. \/ UNCHANGED pipe /\ UNCHANGED asked
        \/ Notify("w", c) /\ UNCHANGED asked
        \/ Notify("c", c) /\ asked' = asked \cup {c}
    BY <1>6 DEF Parse, AppendPiece, NotifyResponse, AskToClose, history
  <2> QED
    BY <1>1, <1>3, <2>1, <2>2, CloseKept
<1> QED
  BY <1>2, <1>4, <1>5, <1>6 DEF WorkerStep

\* A new connection on descriptor f.
LEMMA AcceptIs ==
  ASSUME Base, NEW c \in Conn, Accept(c)
  PROVE  \E f \in NetFd :
    /\ socket[c] = "backlog" /\ socket'[c] = "open"
    /\ \A d \in Conn \ {c} : socket'[d] = socket[d]
    /\ identifier'[c] = [fd |-> f, use |-> useTimes'[f]]
    /\ \A d \in Conn \ {c} : identifier'[d] = identifier[d]
    /\ useTimes'[f] = (useTimes[f] + 1) % UseTimes
    /\ \A g \in NetFd \ {f} : useTimes'[g] = useTimes[g]
    /\ Users(f)' = Users(f) \cup {c} /\ c \notin Users(f)
    /\ \A g \in NetFd \ {f} : Users(g)' = Users(g)
    /\ Cardinality(Users(f)') = Cardinality(Users(f)) + 1
<1>1. PICK f \in FreeFd :
        /\ socket[c] = "backlog" /\ socket' = [socket EXCEPT ![c] = "open"]
        /\ useTimes' = [useTimes EXCEPT ![f] = (@ + 1) % UseTimes]
        /\ identifier' = [identifier EXCEPT ![c] = [fd |-> f, use |-> useTimes'[f]]]
  BY DEF Accept, CountUse
<1>2. f \in NetFd
  BY DEF FreeFd
<1>3. /\ socket'[c] = "open" /\ \A d \in Conn \ {c} : socket'[d] = socket[d]
      /\ identifier'[c] = [fd |-> f, use |-> useTimes'[f]]
      /\ \A d \in Conn \ {c} : identifier'[d] = identifier[d]
      /\ useTimes'[f] = (useTimes[f] + 1) % UseTimes
      /\ \A g \in NetFd \ {f} : useTimes'[g] = useTimes[g]
  BY <1>1, <1>2 DEF Base, TypeOK, NetworkTypeOK, ConnectionTypeOK, ServerTypeOK
<1>4. /\ Users(f)' = Users(f) \cup {c} /\ c \notin Users(f)
      /\ \A g \in NetFd \ {f} : Users(g)' = Users(g)
  BY <1>1, <1>3 DEF Users, Fd
<1>5. Cardinality(Users(f) \cup {c}) = Cardinality(Users(f)) + 1
  BY <1>4, UsersAreFinite, FS_AddElement
<1> QED
  BY <1>1, <1>2, <1>3, <1>4, <1>5

\* The use count of a new connection is one that no connection on its
\* descriptor had before, until UseTimes of them have had it.
LEMMA AcceptId ==
  ASSUME Base, IdInv, NEW c \in Conn, Accept(c)
  PROVE  /\ IdInv'
         /\ \A d \in Conn : socket[d] = "open" =>
              Cardinality(Users(Fd(d))) <= Cardinality(Users(Fd(d)))'
<1>1. PICK f \in NetFd :
        /\ socket[c] = "backlog" /\ socket'[c] = "open"
        /\ \A d \in Conn \ {c} : socket'[d] = socket[d]
        /\ identifier'[c] = [fd |-> f, use |-> useTimes'[f]]
        /\ \A d \in Conn \ {c} : identifier'[d] = identifier[d]
        /\ useTimes'[f] = (useTimes[f] + 1) % UseTimes
        /\ \A g \in NetFd \ {f} : useTimes'[g] = useTimes[g]
        /\ Users(f)' = Users(f) \cup {c} /\ c \notin Users(f)
        /\ \A g \in NetFd \ {f} : Users(g)' = Users(g)
        /\ Cardinality(Users(f)') = Cardinality(Users(f)) + 1
  BY AcceptIs
<1>2. PICK n \in Nat : n = Cardinality(Users(f))
  BY UsersAreFinite
<1>3. UseTimes \in Nat \ {0}
  BY ReactorConstants
<1>4. n < UseTimes => useTimes[f] = n /\ \A d \in Users(f) : identifier[d].use \in 1 .. n
  BY <1>2 DEF IdInv
<1>5. n + 1 < UseTimes => useTimes'[f] = n + 1
  BY <1>1, <1>2, <1>3, <1>4
<1>6. n + 1 = UseTimes => useTimes'[f] = 0
  BY <1>1, <1>2, <1>3, <1>4
<1>7. ASSUME NEW g \in NetFd, Cardinality(Users(g)') < UseTimes
      PROVE  /\ useTimes'[g] = Cardinality(Users(g)')
             /\ \A d \in Users(g)' : identifier'[d].use \in 1 .. useTimes'[g]
  <2>1. CASE g = f
    <3>1. Cardinality(Users(g)') = n + 1 /\ n + 1 < UseTimes
      BY <1>1, <1>2, <1>7, <2>1
    <3>2. identifier'[c].use = n + 1 /\ useTimes'[g] = n + 1
      BY <1>1, <1>5, <2>1, <3>1
    <3>3. ASSUME NEW d \in Users(f) PROVE identifier'[d].use \in 1 .. n + 1
      <4>1. d \in Conn \ {c}
        BY <1>1 DEF Users
      <4>2. identifier'[d] = identifier[d]
        BY <1>1, <4>1
      <4>3. identifier[d].use \in 1 .. n
        BY <1>3, <1>4, <3>1
      <4> QED
        BY <4>2, <4>3
    <3>4. n + 1 \in 1 .. n + 1
      OBVIOUS
    <3> QED
      BY <1>1, <2>1, <3>1, <3>2, <3>3, <3>4
  <2>2. CASE g # f
    <3>1. Users(g)' = Users(g) /\ useTimes'[g] = useTimes[g]
      BY <1>1, <2>2
    <3>2. \A d \in Users(g) : identifier'[d] = identifier[d]
      BY <1>1 DEF Users
    <3>3. Cardinality(Users(g)) < UseTimes
      BY <1>7, <3>1
    <3> QED
      BY <3>1, <3>2, <3>3 DEF IdInv
  <2> QED
    BY <2>1, <2>2
<1>8. \A g \in NetFd : Cardinality(Users(g)) <= Cardinality(Users(g)')
  <2>1. \A g \in NetFd \ {f} : Cardinality(Users(g)) <= Cardinality(Users(g)')
    BY <1>1, UsersAreFinite
  <2>2. Cardinality(Users(f)) <= Cardinality(Users(f)')
    BY <1>1, <1>2
  <2> QED
    BY <2>1, <2>2
<1>9. \A d \in Conn : socket[d] = "open" =>
        d # c /\ Fd(d) \in NetFd /\ Fd(d)' = Fd(d) /\ d \in Users(Fd(d))
  BY <1>1 DEF Base, TypeOK, RegistryOK, Users, Fd
<1>10. ASSUME NEW d \in Conn, socket[d] = "open"
       PROVE  Cardinality(Users(Fd(d))) <= Cardinality(Users(Fd(d)))'
  <2>1. PICK g \in NetFd : g = Fd(d) /\ g = Fd(d)'
    BY <1>9, <1>10
  <2>2. Users(Fd(d)) = Users(g) /\ Users(Fd(d))' = Users(g)'
    BY <2>1 DEF Users, Fd
  <2> QED
    BY <1>8, <2>1, <2>2
<1>11. ASSUME NEW d \in Conn, d # c, socket'[d] = "open", identifier'[d] = identifier'[c]
       PROVE  Fd(d)' = f /\ Fd(c)' = f /\ Cardinality(Users(f)') > UseTimes
  <2>1. socket[d] = "open" /\ identifier[d] = [fd |-> f, use |-> useTimes'[f]]
    BY <1>1, <1>11
  <2>2. Fd(d)' = f /\ Fd(c)' = f /\ d \in Users(f) /\ identifier[d].use = useTimes'[f]
    BY <1>1, <1>11, <2>1 DEF Fd, Users
  <2>3. n >= UseTimes
    <3>1. CASE n + 1 < UseTimes
      BY <1>3, <1>4, <1>5, <2>2, <3>1
    <3>2. CASE n + 1 = UseTimes
      BY <1>3, <1>4, <1>6, <2>2, <3>2
    <3> QED
      BY <1>3, <3>1, <3>2
  <2> QED
    BY <1>1, <1>2, <1>3, <2>2, <2>3
<1>12. ASSUME NEW d \in Conn, NEW e \in Conn, socket'[d] = "open", socket'[e] = "open",
              d # e, identifier'[d] = identifier'[e]
       PROVE  (Cardinality(Users(Fd(d))) > UseTimes)'
  <2>1. CASE d = c \/ e = c
    <3>1. Fd(d)' = f /\ Cardinality(Users(f)') > UseTimes
      BY <1>11, <1>12, <2>1
    <3>2. Users(Fd(d))' = Users(f)'
      BY <3>1 DEF Users, Fd
    <3> QED
      BY <3>1, <3>2
  <2>2. CASE d # c /\ e # c
    <3>1. /\ socket[d] = "open" /\ socket[e] = "open" /\ identifier[d] = identifier[e]
          /\ Fd(d)' = Fd(d) /\ Fd(d) \in NetFd
      BY <1>1, <1>9, <1>12, <2>2
    <3>2. Cardinality(Users(Fd(d))) > UseTimes
      BY <1>12, <3>1 DEF IdInv
    <3>3. Cardinality(Users(Fd(d))) <= Cardinality(Users(Fd(d)))'
      BY <1>9, <1>10, <3>1
    <3>4. Cardinality(Users(Fd(d))) \in Nat /\ Cardinality(Users(Fd(d)))' \in Nat
      <4>1. Cardinality(Users(Fd(d)))' \in Nat
        BY ConnectionConstants, FS_Subset, FS_CardinalityType DEF Users
      <4> QED
        BY <4>1, UsersAreFinite
    <3> QED
      BY <1>3, <3>2, <3>3, <3>4
  <2> QED
    BY <2>1, <2>2
<1> QED
  BY <1>7, <1>12, <1>10 DEF IdInv

LEMMA AcceptClose ==
  ASSUME Base, CloseInv, NEW c \in Conn, Accept(c)
  PROVE  CloseInv'
<1>1. /\ UNCHANGED <<isClosed, pipe, asked, gone, notes, worker>>
      /\ namesakes' = IF StillNamed(identifier'[c]) THEN namesakes \cup {c} ELSE namesakes
  BY DEF Accept, history, client, pool
<1>2. /\ socket[c] = "backlog" /\ socket'[c] = "open"
      /\ \A d \in Conn \ {c} : socket'[d] = socket[d] /\ identifier'[d] = identifier[d]
  BY AcceptIs
<1>3. /\ IdInv'
      /\ \A d \in Conn : socket[d] = "open" =>
           Cardinality(Users(Fd(d))) <= Cardinality(Users(Fd(d)))'
  BY AcceptId DEF CloseInv
<1>4. ASSUME NEW n, AskedFor(n)
      PROVE  n.op = "c" => \E d \in asked' : socket'[d] = "open" /\ n.id = identifier'[d]
  BY <1>1, <1>2, <1>4 DEF AskedFor, Base, TypeOK, PoolTypeOK
<1>5. /\ (\A i \in 1 .. Len(pipe) : AskedFor(pipe[i]))'
      /\ (\A i \in 1 .. Len(notes) : AskedFor(notes[i]))'
  BY <1>1, <1>4 DEF CloseInv, AskedFor
<1>6. ASSUME NEW d \in Conn \ (namesakes' \cup asked'), socket'[d] = "open", ~isClosed'[d]
      PROVE  Unnamed(d)'
  <2>1. \A w \in Worker : worker[w].c = None \/ worker[w].c \in Conn \ {c}
    <3>1. ASSUME NEW w \in Worker PROVE worker[w].c = None \/ InUse(worker[w].c)
      BY AtWork DEF Base, NamesInUse
    <3> QED
      BY <1>2, <3>1 DEF InUse
  <2>2. CASE d = c
    <3>1. ~StillNamed(identifier'[c])
      BY <1>1, <1>6, <2>2
    <3>2. DOMAIN pipe = 1 .. Len(pipe) /\ DOMAIN notes = 1 .. Len(notes)
      BY LenProperties DEF Base, TypeOK, PoolTypeOK, ServerTypeOK
    <3>3. /\ \A i \in 1 .. Len(pipe) : pipe[i] \in Range(pipe)
          /\ \A i \in 1 .. Len(notes) : notes[i] \in Range(notes)
      BY <3>2 DEF Range
    <3>4. /\ \A i \in 1 .. Len(pipe) : ~(pipe[i].op = "c" /\ pipe[i].id = identifier'[c])
          /\ \A i \in 1 .. Len(notes) : ~(notes[i].op = "c" /\ notes[i].id = identifier'[c])
      BY <3>1, <3>3 DEF StillNamed
    <3>5. \A w \in Worker : worker[w].c # None =>
            identifier'[worker[w].c] # identifier'[c]
      BY <1>2, <2>1, <3>1 DEF StillNamed
    <3> QED
      BY <1>1, <2>2, <3>4, <3>5 DEF Unnamed
  <2>3. CASE d # c
    <3>1. Unnamed(d) /\ identifier'[d] = identifier[d]
      BY <1>1, <1>2, <1>6, <2>3 DEF CloseInv
    <3>2. ASSUME NEW w \in Worker, worker[w].c \notin {None, d}
          PROVE  identifier'[worker[w].c] # identifier'[d]
      BY <1>2, <2>1, <3>1, <3>2 DEF Unnamed
    <3> QED
      BY <1>1, <3>1, <3>2 DEF Unnamed
  <2> QED
    BY <2>2, <2>3
<1>7. ASSUME NEW d \in Conn, isClosed'[d]
      PROVE  \/ d \in gone' \cup asked'
             \/ d \in namesakes' /\ (Cardinality(Users(Fd(d))) > UseTimes)'
  <2>1. socket[d] = "open" /\ isClosed[d]
    BY <1>1, <1>7 DEF Base, ClosedWasOpen
  <2>2. CASE d \in gone \cup asked
    BY <1>1, <2>2
  <2>3. CASE d \in namesakes /\ Cardinality(Users(Fd(d))) > UseTimes
    <3>1. /\ Cardinality(Users(Fd(d))) <= Cardinality(Users(Fd(d)))'
          /\ Cardinality(Users(Fd(d))) \in Nat /\ Cardinality(Users(Fd(d)))' \in Nat
          /\ UseTimes \in Nat
      <4>1. Cardinality(Users(Fd(d)))' \in Nat
        BY ConnectionConstants, FS_Subset, FS_CardinalityType DEF Users
      <4> QED
        BY <1>3, <2>1, <4>1, UsersAreFinite, ReactorConstants
    <3> QED
      BY <1>1, <2>3, <3>1
  <2> QED
    BY <2>1, <2>2, <2>3 DEF CloseInv, ClosesAreAsked
<1>8. ClosesAreAsked'
  BY <1>7 DEF ClosesAreAsked
<1> QED
  BY <1>3, <1>5, <1>6, <1>8 DEF CloseInv

\* Who a write closes has left.
LEMMA WriteCloses ==
  ASSUME Base, NEW b, InUse(b), Write(b)
  PROVE  \A c \in Conn :
           (isClosed[c] => isClosed'[c]) /\ (isClosed'[c] => isClosed[c] \/ c \in gone)
BY DEF Write, Except, Base, TypeOK, ConnectionTypeOK

LEMMA NoteClose ==
  ASSUME Base, CloseInv, Note
  PROVE  CloseInv'
<1> DEFINE n == Head(notes)
           b == connections[n.id.fd]
<1>1. /\ notes \in Seq(Notification) /\ notes # <<>> /\ notes' = Tail(notes)
      /\ Len(notes) \in Nat \ {0} /\ n = notes[1]
  BY EmptySeq, LenProperties DEF Note, Base, TypeOK, ServerTypeOK
<1>2. PICK d \in Conn : socket[d] = "open" /\ n.id = identifier[d]
  BY <1>1 DEF Base, NamesInUse
<1>3. n.id.fd \in NetFd /\ b \in Conn \cup {None}
  BY <1>2 DEF Base, TypeOK, ServerTypeOK, RegistryOK, Fd
<1>4. /\ UNCHANGED <<socket, identifier, useTimes, namesakes, pipe, asked, gone, worker>>
      /\ \/ UNCHANGED isClosed
         \/ b # None /\ Write(b)
         \/ b # None /\ n.id.use = useTimes[n.id.fd] /\ n.op = "c" /\ Except(b)
  BY DEF Note, history, client, pool
<1>5. b # None => /\ b \in Conn /\ InUse(b) /\ ~isClosed[b]
                  /\ n.id.use = useTimes[n.id.fd] => n.id = identifier[b]
  <2>1. b # None => /\ b \in Conn /\ socket[b] = "open" /\ ~isClosed[b]
                    /\ identifier[b] = [fd |-> n.id.fd, use |-> useTimes[n.id.fd]]
    BY <1>3 DEF Base, TypeOK, RegistryOK
  <2>2. n.id \in Identifier
    BY <1>2 DEF Base, TypeOK, ConnectionTypeOK
  <2> QED
    BY <2>1, <2>2 DEF InUse, Identifier
<1>6. AskedFor(n) /\ \A c \in Conn : Unnamed(c) => ~(n.op = "c" /\ n.id = identifier[c])
  BY <1>1 DEF CloseInv, Unnamed
<1> HIDE DEF n, b
<1>7. \A c \in Conn :
        /\ isClosed[c] => isClosed'[c]
        /\ isClosed'[c] =>
             \/ isClosed[c] \/ c \in gone \cup asked
             \/ c \in namesakes /\ Cardinality(Users(Fd(c))) > UseTimes
  <2>1. CASE UNCHANGED isClosed
    BY <2>1
  <2>2. CASE b # None /\ Write(b)
    BY <1>5, <2>2, WriteCloses
  <2>3. CASE b # None /\ n.id.use = useTimes[n.id.fd] /\ n.op = "c" /\ Except(b)
    <3>1. /\ b \in Conn /\ socket[b] = "open" /\ ~isClosed[b] /\ n.id = identifier[b]
      BY <1>5, <2>3 DEF InUse
    <3>2. PICK c \in asked : socket[c] = "open" /\ n.id = identifier[c]
      BY <1>6, <2>3 DEF AskedFor
    <3>3. b \in asked \/ (b \in namesakes /\ Cardinality(Users(Fd(b))) > UseTimes)
      <4>1. b \in namesakes \cup asked
        BY <1>6, <2>3, <3>1 DEF CloseInv
      <4>2. c \in Conn
        BY DEF Base, TypeOK, PoolTypeOK
      <4>3. c # b => Cardinality(Users(Fd(b))) > UseTimes
        BY <3>1, <3>2, <4>2 DEF CloseInv, IdInv
      <4> QED
        BY <4>1, <4>3
    <3>4. isClosed' = [isClosed EXCEPT ![b] = TRUE]
      BY <2>3 DEF Except
    <3> QED
      BY <3>1, <3>3, <3>4 DEF Base, TypeOK, ConnectionTypeOK
  <2> QED
    BY <1>4, <2>1, <2>2, <2>3
<1> QED
  BY <1>1, <1>4, <1>7, CloseKept

LEMMA MainStepClose ==
  ASSUME Base, CloseInv, MainStep
  PROVE  CloseInv'
<1>1. CASE EpollWait \/ AcceptDone \/ NotesDone \/ ReadPush
  <2>1. UNCHANGED <<useTimes, identifier, namesakes, socket, asked, gone, pipe, notes,
                    isClosed, worker>>
    BY <1>1 DEF EpollWait, AcceptDone, NotesDone, ReadPush, Push, reactorVars,
                connectionVars, connection, pool, history, network, client, registry
  <2> QED
    BY <2>1, CloseKept
<1>2. ASSUME NEW e \in events, Dispatch(e) PROVE CloseInv'
  <2>1. /\ UNCHANGED <<useTimes, identifier, namesakes, socket, asked, gone, isClosed,
                       worker>>
        /\ \/ UNCHANGED <<pipe, notes>>
           \/ notes' = pipe /\ pipe' = <<>>
    BY <1>2 DEF Dispatch, connection, pool, history, network, client, registry
  <2> QED
    BY <2>1, CloseKept
<1>3. ASSUME NEW c \in Conn, Refuse(c) PROVE CloseInv'
  <2>1. /\ UNCHANGED <<useTimes, identifier, namesakes, asked, gone, pipe, notes,
                       isClosed, worker>>
        /\ socket[c] = "backlog" /\ socket' = [socket EXCEPT ![c] = "refused"]
    BY <1>3 DEF Refuse, connectionVars, connection, pool, history, client, registry
  <2>2. \A d \in Conn : (socket'[d] = "open") = (socket[d] = "open")
    BY <2>1 DEF Base, TypeOK, NetworkTypeOK
  <2> QED
    BY <2>1, <2>2, CloseKept
<1>4. ASSUME NEW c \in Conn, ReadChunk(c) \/ ReadDone(c) PROVE CloseInv'
  <2>1. UNCHANGED <<useTimes, identifier, namesakes, socket, asked, gone, pipe, notes,
                    isClosed, worker>>
    BY <1>4 DEF ReadChunk, ReadDone, Receive, connectionVars, connection, pool, history,
                network, client, registry
  <2> QED
    BY <2>1, CloseKept
<1>5. ASSUME NEW c \in Conn, ReadClosed(c) \/ WriteEvent(c) PROVE CloseInv'
  <2>1. /\ UNCHANGED <<useTimes, identifier, namesakes, socket, asked, gone, pipe, notes,
                       worker>>
        /\ ((Except(c) /\ c \in gone) \/ Write(c))
        /\ main.pc \in {"read", "write"} /\ main.c = c
    BY <1>5 DEF ReadClosed, WriteEvent, pool, history, network, client
  <2>2. InUse(c)
    BY <2>1 DEF Base, NamesInUse
  <2>3. \A d \in Conn :
          (isClosed[d] => isClosed'[d]) /\ (isClosed'[d] => isClosed[d] \/ d \in gone)
    BY <2>1, <2>2, WriteCloses DEF Except, Base, TypeOK, ConnectionTypeOK
  <2> QED
    BY <2>1, <2>3, CloseKept
<1> QED
  BY <1>1, <1>2, <1>3, <1>4, <1>5, AcceptClose, NoteClose DEF MainStep

LEMMA NextClose ==
  ASSUME Base, CloseInv, [Next]_vars
  PROVE  CloseInv'
<1>1. ASSUME NEW c \in Conn, ClientStep(c) PROVE CloseInv'
  <2>1. /\ UNCHANGED <<useTimes, identifier, namesakes, asked, pipe, notes, isClosed,
                       worker>>
        /\ gone \subseteq gone'
        /\ \/ UNCHANGED socket
           \/ socket[c] = "none" /\ socket' = [socket EXCEPT ![c] = "backlog"]
    BY <1>1 DEF ClientStep, Connect, ClientSend, ClientReceive, ClientClose,
                connectionVars, connection, pool, history, client, registry
  <2>2. \A d \in Conn : (socket'[d] = "open") = (socket[d] = "open")
    BY <2>1 DEF Base, TypeOK, NetworkTypeOK
  <2> QED
    BY <2>1, <2>2, CloseKept
<1>2. CASE UNCHANGED vars
  <2>1. UNCHANGED <<useTimes, identifier, namesakes, socket, asked, gone, pipe, notes,
                    isClosed, worker>>
    BY <1>2 DEF vars, reactorVars, connectionVars, connection, pool, history, network,
                client, registry
  <2> QED
    BY <2>1, CloseKept
<1> QED
  BY <1>1, <1>2, MainStepClose, PoolStepClose DEF Next

LEMMA InitClose == Init => CloseInv
<1> SUFFICES ASSUME Init PROVE CloseInv
  OBVIOUS
<1>1. \A f : Users(f) = {}
  BY DEF Init, Users
<1>2. IdInv
  BY <1>1, FS_EmptySet DEF Init, IdInv
<1> QED
  BY <1>2, EmptySeq DEF Init, CloseInv, ClosesAreAsked

\* However many connections a descriptor sees and wherever use counts wrap,
\* who is closed has left or was asked for, and the only exception is a
\* connection whose descriptor had been used more often than there are use
\* counts, and whose identifier was still in a notification or in the hand of
\* a worker when the connection was accepted.
THEOREM ClosedOnlyWhenAsked == Spec => []ClosesAreAsked
<1>1. Init => Base /\ CloseInv
  BY InitBase, InitClose
<1>2. Base /\ CloseInv /\ [Next]_vars => (Base /\ CloseInv)'
  BY NextBase, NextClose
<1>3. CloseInv => ClosesAreAsked
  BY DEF CloseInv
<1> QED
  BY <1>1, <1>2, <1>3, PTL DEF Spec

-----------------------------------------------------------------------------
(* Answers come in order: sequences                                        *)

LEMMA MoveHead ==
  ASSUME NEW S, NEW a \in Seq(S), NEW b \in Seq(S), b # <<>>
  PROVE  Append(a, Head(b)) \o Tail(b) = a \o b
<1>1. /\ Head(b) \in S /\ Tail(b) \in Seq(S) /\ Len(Tail(b)) = Len(b) - 1
      /\ \A i \in 1 .. Len(Tail(b)) : Tail(b)[i] = b[i + 1]
      /\ Head(b) = b[1]
  BY HeadTailProperties
<1>2. Len(a) \in Nat /\ Len(b) \in Nat \ {0}
  BY EmptySeq, LenProperties
<1> DEFINE x == Append(a, Head(b))
<1>3. /\ x \in Seq(S) /\ Len(x) = Len(a) + 1
      /\ \A i \in 1 .. Len(a) : x[i] = a[i]
      /\ x[Len(a) + 1] = b[1]
  BY <1>1, AppendProperties
<1> HIDE DEF x
<1>4. /\ a \o b \in Seq(S) /\ Len(a \o b) = Len(a) + Len(b)
      /\ \A i \in 1 .. Len(a) + Len(b) :
           (a \o b)[i] = IF i <= Len(a) THEN a[i] ELSE b[i - Len(a)]
  BY ConcatProperties
<1>5. /\ x \o Tail(b) \in Seq(S) /\ Len(x \o Tail(b)) = Len(x) + Len(Tail(b))
      /\ \A i \in 1 .. Len(x) + Len(Tail(b)) :
           (x \o Tail(b))[i] = IF i <= Len(x) THEN x[i] ELSE Tail(b)[i - Len(x)]
  BY <1>1, <1>3, ConcatProperties
<1>6. \A i \in 1 .. Len(a) + Len(b) : (x \o Tail(b))[i] = (a \o b)[i]
  <2> SUFFICES ASSUME NEW i \in 1 .. Len(a) + Len(b)
               PROVE  (x \o Tail(b))[i] = (a \o b)[i]
    OBVIOUS
  <2>1. CASE i <= Len(a)
    BY <1>1, <1>2, <1>3, <1>4, <1>5, <2>1
  <2>2. CASE i = Len(a) + 1
    BY <1>1, <1>2, <1>3, <1>4, <1>5, <2>2
  <2>3. CASE i > Len(a) + 1
    <3>1. i - Len(x) \in 1 .. Len(Tail(b)) /\ i - Len(x) + 1 = i - Len(a)
      BY <1>1, <1>2, <1>3, <2>3
    <3>2. (x \o Tail(b))[i] = Tail(b)[i - Len(x)]
      BY <1>1, <1>2, <1>3, <1>5, <2>3
    <3>3. (a \o b)[i] = b[i - Len(a)]
      BY <1>2, <1>4, <2>3
    <3> QED
      BY <1>1, <3>1, <3>2, <3>3
  <2>4. i <= Len(a) \/ i = Len(a) + 1 \/ i > Len(a) + 1
    BY <1>2
  <2> QED
    BY <2>1, <2>2, <2>3, <2>4
<1>7. Len(x \o Tail(b)) = Len(a \o b)
  BY <1>1, <1>2, <1>3, <1>4, <1>5
<1>8. \A i \in 1 .. Len(x \o Tail(b)) : (x \o Tail(b))[i] = (a \o b)[i]
  BY <1>4, <1>6, <1>7
<1>9. x \o Tail(b) = a \o b
  BY <1>4, <1>5, <1>7, <1>8, SeqEqual
<1> QED
  BY <1>9 DEF x

LEMMA MovePrefix ==
  ASSUME NEW S, NEW a \in Seq(S), NEW b \in Seq(S), NEW k \in 0 .. Len(b)
  PROVE  (a \o SubSeq(b, 1, k)) \o SubSeq(b, k + 1, Len(b)) = a \o b
<1> DEFINE x == SubSeq(b, 1, k)
           y == SubSeq(b, k + 1, Len(b))
<1>1. x \in Seq(S) /\ y \in Seq(S)
  BY Split
<1>2. Len(b) \in Nat
  BY LenProperties
<1>3. x \o y = SubSeq(b, 1, Len(b))
  <2>1. 1 \in 1 .. Len(b) + 1 /\ k \in 1 - 1 .. Len(b) /\ Len(b) \in k .. Len(b)
    BY <1>2
  <2> QED
    BY <2>1, ConcatAdjacentSubSeq
<1>4. SubSeq(b, 1, Len(b)) = b
  BY SubSeqFull
<1> HIDE DEF x, y
<1>5. (a \o x) \o y = a \o (x \o y)
  BY <1>1, ConcatAssociative, SMTT(30)
<1> QED
  BY <1>3, <1>4, <1>5 DEF x, y

LEMMA AppendLast ==
  ASSUME NEW S, NEW a \in Seq(S), NEW b \in Seq(S), NEW e \in S
  PROVE  a \o Append(b, e) = Append(a \o b, e)
<1>1. Append(b, e) = b \o <<e>> /\ <<e>> \in Seq(S)
  BY AppendIsConcat
<1>2. a \o b \in Seq(S)
  BY ConcatProperties
<1>3. Append(a \o b, e) = (a \o b) \o <<e>>
  BY <1>2, AppendIsConcat
<1>4. (a \o b) \o <<e>> = a \o (b \o <<e>>)
  BY <1>1, ConcatAssociative
<1> QED
  BY <1>1, <1>3, <1>4

LEMMA DropFirst ==
  ASSUME NEW S, NEW a \in Seq(S), NEW b \in Seq(S), NEW k \in 0 .. Len(a)
  PROVE  /\ Len(SubSeq(a, k + 1, Len(a)) \o b) = Len(a \o b) - k
         /\ \A i \in 1 .. Len(a \o b) - k :
              (SubSeq(a, k + 1, Len(a)) \o b)[i] = (a \o b)[i + k]
<1> DEFINE x == SubSeq(a, k + 1, Len(a))
<1>1. /\ x \in Seq(S) /\ Len(x) = Len(a) - k
      /\ \A i \in 1 .. Len(a) - k : x[i] = a[k + i]
  BY Split
<1>2. Len(a) \in Nat /\ Len(b) \in Nat
  BY LenProperties
<1> HIDE DEF x
<1>3. /\ Len(a \o b) = Len(a) + Len(b)
      /\ \A i \in 1 .. Len(a) + Len(b) :
           (a \o b)[i] = IF i <= Len(a) THEN a[i] ELSE b[i - Len(a)]
  BY ConcatProperties
<1>4. /\ Len(x \o b) = Len(x) + Len(b)
      /\ \A i \in 1 .. Len(x) + Len(b) :
           (x \o b)[i] = IF i <= Len(x) THEN x[i] ELSE b[i - Len(x)]
  BY <1>1, ConcatProperties
<1>5. ASSUME NEW i \in 1 .. Len(a \o b) - k PROVE (x \o b)[i] = (a \o b)[i + k]
  <2>1. i \in 1 .. Len(x) + Len(b) /\ i + k \in 1 .. Len(a) + Len(b)
    BY <1>1, <1>2, <1>3
  <2>2. CASE i <= Len(x)
    <3>1. i \in 1 .. Len(a) - k /\ i + k <= Len(a) /\ k + i = i + k
      BY <1>1, <1>2, <2>1, <2>2
    <3> QED
      BY <1>1, <1>3, <1>4, <2>1, <2>2, <3>1
  <2>3. CASE i > Len(x)
    <3>1. ~(i <= Len(x)) /\ ~(i + k <= Len(a)) /\ i + k - Len(a) = i - Len(x)
      BY <1>1, <1>2, <2>1, <2>3
    <3> QED
      BY <1>3, <1>4, <2>1, <3>1
  <2> QED
    BY <1>1, <1>2, <2>1, <2>2, <2>3
<1>6. Len(x \o b) = Len(a \o b) - k
  BY <1>1, <1>2, <1>3, <1>4
<1> QED
  BY <1>5, <1>6 DEF x

-----------------------------------------------------------------------------
(* The invariant                                                           *)

\* Everything answered so far: at the client, in the socket, in the buffer
Answers(c) == got[c] \o outbox[c] \o response[c]

\* The pieces of requests that wait for handler, and the request of the i-th of
\* them, or the one that the client sends next
Asking(c) == buffer[c] \o inbox[c]

RequestAt(c, i) ==
  IF i <= Len(Asking(c)) THEN Asking(c)[i].request ELSE sending[c][1]

\* The requests wait one behind the other, each of them up to its last piece.
StreamOK(c) ==
  /\ \A i \in 1 .. Len(Asking(c)) :
       /\ RequestAt(c, i) \in DOMAIN body[c]
       /\ Asking(c)[i].last => RequestAt(c, i + 1) = RequestAt(c, i) + 1
  /\ \A i, j \in 1 .. Len(Asking(c)) + 1 :
       i <= j /\ (\A k \in i .. j - 1 : ~Asking(c)[k].last)
         => RequestAt(c, j) = RequestAt(c, i)

InOrder(c, s) ==
  /\ s # <<>> => s[1] = <<1, 0>>
  /\ \A i \in 1 .. Len(s) - 1 : s[i + 1] = After(c, s[i])

\* With n pieces of the buffer parsed, the answers go on with task t: handler
\* is due for the next request, sendFile for piece t[3] of its own.
Due(c, n, t) ==
  LET s == Answers(c)
  IN IF t \in {Handler, None}
     THEN IF s = <<>> THEN RequestAt(c, n + 1) = 1
          ELSE After(c, s[Len(s)]) = <<RequestAt(c, n + 1), 0>>
     ELSE /\ s # <<>> /\ s[Len(s)] = <<t[2], t[3] - 1>>
          /\ t[2] \in DOMAIN body[c] /\ t[3] - 1 <= body[c][t[2]].pieces
          /\ RequestAt(c, n + 1) = t[2] + 1

\* What a worker at step s of a task for c is going to do or to leave behind
Ahead(c, s) ==
  CASE s.pc \in {"parse", "send"} -> s.task
    [] s.pc = "notify" -> NextPiece(c, s.task)
    [] s.pc = "finish" -> subTask[c]

WorkerDue(c, s) ==
  s.c = c /\ s.pc \in {"parse", "send", "notify", "finish"} =>
    /\ s.took <= Len(buffer[c]) /\ Due(c, s.took, Ahead(c, s))
    /\ s.pc \in {"parse", "send"} \/ (s.pc = "notify" /\ s.task # Handler)
         => subTask[c] = None

TasksDue(c) ==
  /\ ~processing[c] \/ pushing = c => Due(c, 0, Handler)
  /\ \A i \in 1 .. Len(queue) : queue[i].c = c => Due(c, 0, queue[i].task)
  /\ \A w \in Worker : WorkerDue(c, worker[w])

OrderOf(c) == StreamOK(c) /\ InOrder(c, Answers(c)) /\ TasksDue(c)

OrderInv == \A c \in Conn \ raced : OrderOf(c)

LEMMA SequencesAre ==
  ASSUME Base, NEW c \in Conn
  PROVE  /\ {got[c], outbox[c], response[c]} \subseteq Seq(AnswerPiece)
         /\ {buffer[c], inbox[c]} \subseteq Seq(RequestPiece)
         /\ got[c] \o outbox[c] \in Seq(AnswerPiece)
         /\ Answers(c) \in Seq(AnswerPiece) /\ Len(Answers(c)) \in Nat
         /\ Asking(c) \in Seq(RequestPiece) /\ Len(Asking(c)) \in Nat
         /\ Len(buffer[c]) \in Nat /\ Len(buffer[c]) <= Len(Asking(c))
         /\ \A i \in 1 .. Len(buffer[c]) : Asking(c)[i] = buffer[c][i]
<1>1. /\ {got[c], outbox[c], response[c]} \subseteq Seq(AnswerPiece)
      /\ {buffer[c], inbox[c]} \subseteq Seq(RequestPiece)
  BY DEF Base, TypeOK, ConnectionTypeOK, NetworkTypeOK
<1>2. got[c] \o outbox[c] \in Seq(AnswerPiece)
  BY <1>1, ConcatProperties
<1>3. Answers(c) \in Seq(AnswerPiece)
  BY <1>1, <1>2, ConcatProperties DEF Answers
<1>4. /\ Asking(c) \in Seq(RequestPiece)
      /\ Len(Asking(c)) = Len(buffer[c]) + Len(inbox[c])
      /\ \A i \in 1 .. Len(buffer[c]) + Len(inbox[c]) :
           Asking(c)[i] = IF i <= Len(buffer[c]) THEN buffer[c][i]
                          ELSE inbox[c][i - Len(buffer[c])]
  BY <1>1, ConcatProperties DEF Asking
<1>5. /\ Len(buffer[c]) \in Nat /\ Len(inbox[c]) \in Nat
      /\ Len(Answers(c)) \in Nat /\ Len(Asking(c)) \in Nat
  BY <1>1, <1>3, <1>4, LenProperties
<1>6. /\ Len(buffer[c]) <= Len(Asking(c))
      /\ \A i \in 1 .. Len(buffer[c]) : Asking(c)[i] = buffer[c][i]
  <2> DEFINE m == Len(buffer[c])
             n == Len(inbox[c])
  <2>1. m \in Nat /\ n \in Nat
    BY <1>5
  <2> HIDE DEF m, n
  <2>2. m <= m + n /\ \A i \in 1 .. m : i \in 1 .. m + n /\ i <= m
    BY <2>1
  <2> USE DEF m, n
  <2> QED
    BY <1>4, <2>2
<1> QED
  BY <1>1, <1>2, <1>3, <1>4, <1>5, <1>6

LEMMA DueKept ==
  ASSUME NEW c, NEW n, NEW t, Answers(c)' = Answers(c), body' = body,
         RequestAt(c, n + 1)' = RequestAt(c, n + 1)
  PROVE  Due(c, n, t)' = Due(c, n, t)
BY DEF Due, After

\* A step that answers nothing and moves no task.
LEMMA QuietOrder ==
  ASSUME Base, NEW c \in Conn, OrderOf(c), UNCHANGED <<body, worker, queue, subTask>>,
         ~processing'[c] \/ pushing' = c => ~processing[c] \/ pushing = c,
         Answers(c)' = Answers(c), StreamOK(c)',
         Len(buffer[c]) <= Len(buffer'[c]), Len(buffer'[c]) \in Nat,
         \A i \in 1 .. Len(buffer[c]) + 1 : RequestAt(c, i)' = RequestAt(c, i)
  PROVE  OrderOf(c)'
<1>1. Len(buffer[c]) \in Nat
  BY SequencesAre
<1>2. \A n \in 0 .. Len(buffer[c]) : \A t : Due(c, n, t)' = Due(c, n, t)
  <2> SUFFICES ASSUME NEW n \in 0 .. Len(buffer[c]), NEW t
               PROVE  Due(c, n, t)' = Due(c, n, t)
    OBVIOUS
  <2>1. n + 1 \in 1 .. Len(buffer[c]) + 1
    BY <1>1
  <2>2. RequestAt(c, n + 1)' = RequestAt(c, n + 1)
    BY <2>1
  <2> QED
    BY <2>2, DueKept
<1>3. InOrder(c, Answers(c))'
  BY DEF OrderOf, InOrder, After
<1>4. /\ (~processing'[c] \/ pushing' = c => Due(c, 0, Handler)')
      /\ \A i \in 1 .. Len(queue) : queue[i].c = c => Due(c, 0, queue[i].task)'
  BY <1>1, <1>2 DEF OrderOf, TasksDue
<1>5. ASSUME NEW w \in Worker PROVE WorkerDue(c, worker[w])'
  <2> DEFINE s == worker[w]
  <2>1. WorkerDue(c, s) /\ s.took \in Nat
    BY DEF OrderOf, TasksDue, Base, TypeOK, PoolTypeOK, WorkerState
  <2>2. s.c = c /\ s.pc \in {"parse", "send", "notify", "finish"}
          => Due(c, s.took, Ahead(c, s))' = Due(c, s.took, Ahead(c, s))
    <3>1. Ahead(c, s)' = Ahead(c, s)
      BY DEF Ahead, NextPiece
    <3>2. s.c = c /\ s.pc \in {"parse", "send", "notify", "finish"}
            => s.took \in 0 .. Len(buffer[c])
      BY <1>1, <2>1 DEF WorkerDue
    <3>3. \A t : s.c = c /\ s.pc \in {"parse", "send", "notify", "finish"}
            => Due(c, s.took, t)' = Due(c, s.took, t)
      BY <1>2, <3>2
    <3> QED
      BY <3>1, <3>3
  <2> QED
    BY <1>1, <2>1, <2>2 DEF WorkerDue
<1> QED
  BY <1>3, <1>4, <1>5 DEF OrderOf, TasksDue

LEMMA StreamKept ==
  ASSUME NEW c, StreamOK(c), Asking(c)' = Asking(c), body' = body,
         sending'[c][1] = sending[c][1]
  PROVE  /\ StreamOK(c)'
         /\ \A i : RequestAt(c, i)' = RequestAt(c, i)
BY DEF StreamOK, RequestAt

\* The client sends a piece.
LEMMA StreamGrows ==
  ASSUME Base, NEW c \in Conn, StreamOK(c), body' = body,
         sending[c][1] \in DOMAIN body[c], NEW last \in BOOLEAN,
         Asking(c)' = Append(Asking(c), [request |-> sending[c][1], last |-> last]),
         sending'[c][1] = IF last THEN sending[c][1] + 1 ELSE sending[c][1]
  PROVE  /\ StreamOK(c)'
         /\ \A i \in 1 .. Len(Asking(c)) + 1 : RequestAt(c, i)' = RequestAt(c, i)
<1> DEFINE a == Asking(c)
           p == [request |-> sending[c][1], last |-> last]
           m == Len(a)
           r == sending[c][1]
<1>1. a \in Seq(RequestPiece) /\ m \in Nat /\ p \in RequestPiece /\ r \in Nat
  BY SequencesAre DEF RequestPiece, Base, TypeOK, NetworkTypeOK
<1>2. /\ Len(Asking(c)') = m + 1
      /\ \A i \in 1 .. m : Asking(c)'[i] = a[i]
      /\ Asking(c)'[m + 1] = p
  BY <1>1, AppendProperties
<1>3. \A i \in 1 .. m + 1 : RequestAt(c, i)' = RequestAt(c, i)
  BY <1>1, <1>2 DEF RequestAt
<1>4. RequestAt(c, m + 1) = r /\ RequestAt(c, m + 2)' = IF last THEN r + 1 ELSE r
  BY <1>1, <1>2 DEF RequestAt
<1>5. \A i \in 1 .. m + 1 :
        /\ RequestAt(c, i)' \in DOMAIN body[c]
        /\ Asking(c)'[i].last => RequestAt(c, i + 1)' = RequestAt(c, i)' + 1
  <2> SUFFICES ASSUME NEW i \in 1 .. m + 1
               PROVE  /\ RequestAt(c, i)' \in DOMAIN body[c]
                      /\ Asking(c)'[i].last => RequestAt(c, i + 1)' = RequestAt(c, i)' + 1
    OBVIOUS
  <2>1. CASE i \in 1 .. m
    <3>1. i + 1 \in 1 .. m + 1
      BY <1>1, <2>1
    <3> QED
      BY <1>2, <1>3, <2>1, <3>1 DEF StreamOK
  <2>2. CASE i = m + 1
    <3>1. RequestAt(c, i + 1)' = sending'[c][1]
      BY <1>1, <1>2, <2>2 DEF RequestAt
    <3>2. RequestAt(c, i)' = r
      BY <1>1, <1>2, <2>2 DEF RequestAt
    <3> QED
      BY <1>2, <2>2, <3>1, <3>2
  <2> QED
    BY <1>1, <2>1, <2>2
<1>6. ASSUME NEW i \in 1 .. m + 2, NEW j \in 1 .. m + 2, i <= j,
             \A k \in i .. j - 1 : ~Asking(c)'[k].last
      PROVE  RequestAt(c, j)' = RequestAt(c, i)'
  <2>1. CASE j <= m + 1
    <3>1. i \in 1 .. m + 1 /\ j \in 1 .. m + 1 /\ i .. j - 1 \subseteq 1 .. m
      BY <1>1, <1>6, <2>1
    <3>2. \A k \in i .. j - 1 : ~a[k].last
      BY <1>2, <1>6, <3>1
    <3>3. RequestAt(c, j) = RequestAt(c, i)
      BY <1>6, <3>1, <3>2 DEF StreamOK
    <3> QED
      BY <1>3, <3>1, <3>3
  <2>2. CASE j = m + 2 /\ i = m + 2
    BY <2>2
  <2>3. CASE j = m + 2 /\ i <= m + 1
    <3>1. i \in 1 .. m + 1 /\ m + 1 \in i .. j - 1 /\ i .. m \subseteq i .. j - 1
      BY <1>1, <1>6, <2>3
    <3>2. ~last
      BY <1>2, <1>6, <3>1
    <3>3. i .. m + 1 - 1 \subseteq i .. j - 1 /\ i .. m + 1 - 1 \subseteq 1 .. m
      BY <1>1, <3>1
    <3>4. \A k \in i .. m + 1 - 1 : ~a[k].last
      BY <1>2, <1>6, <3>3
    <3>5. RequestAt(c, m + 1) = RequestAt(c, i)
      BY <1>1, <3>1, <3>4 DEF StreamOK
    <3>6. RequestAt(c, j)' = r
      BY <1>1, <1>2, <2>3, <3>2 DEF RequestAt
    <3>7. RequestAt(c, i)' = RequestAt(c, i)
      BY <1>3, <3>1
    <3> QED
      BY <1>4, <3>5, <3>6, <3>7
  <2> QED
    BY <1>1, <1>6, <2>1, <2>2, <2>3
<1>7. Len(Asking(c)') + 1 = m + 2
  BY <1>1, <1>2
<1> HIDE DEF m, r, a
<1>8. StreamOK(c)'
  BY <1>2, <1>5, <1>6, <1>7 DEF StreamOK
<1> QED
  BY <1>3, <1>8 DEF m, a

-----------------------------------------------------------------------------
(* Clients and the main thread                                             *)

\* A step that at most moves answers towards the clients.
LEMMA ElsewhereOrder ==
  ASSUME Base, OrderInv,
         UNCHANGED <<body, worker, queue, subTask, processing, pushing, buffer, inbox,
                     sending, raced>>,
         \A c \in Conn : Answers(c)' = Answers(c)
  PROVE  OrderInv'
<1> SUFFICES ASSUME NEW c \in Conn \ raced PROVE OrderOf(c)'
  BY DEF OrderInv
<1>1. OrderOf(c) /\ Len(buffer[c]) \in Nat
  BY SequencesAre DEF OrderInv
<1>2. StreamOK(c)' /\ \A i : RequestAt(c, i)' = RequestAt(c, i)
  BY <1>1, StreamKept DEF OrderOf, Asking
<1> QED
  BY <1>1, <1>2, QuietOrder

LEMMA WriteAnswers ==
  ASSUME Base, NEW b, InUse(b), Write(b), UNCHANGED got
  PROVE  \A c \in Conn : Answers(c)' = Answers(c)
<1> DEFINE m == Len(response[b])
           n == SocketRoom - Len(outbox[b])
           k == Min({m, n})
<1>1. b \in Conn
  BY DEF InUse
<1>2. CASE UNCHANGED <<response, outbox>>
  BY <1>2 DEF Answers
<1>3. CASE /\ k > 0
           /\ outbox' = [outbox EXCEPT ![b] = @ \o SubSeq(response[b], 1, k)]
           /\ response' = [response EXCEPT ![b] = SubSeq(@, k + 1, Len(@))]
  <2>1. /\ got[b] \in Seq(AnswerPiece) /\ outbox[b] \in Seq(AnswerPiece)
        /\ response[b] \in Seq(AnswerPiece)
    BY <1>1, SequencesAre
  <2>2. k \in 0 .. Len(response[b])
    <3>1. m \in Nat /\ n \in Nat
      BY <1>1, <2>1, LenProperties, ReactorConstants DEF Base, SocketsHold
    <3> HIDE DEF n
    <3>2. k = IF m <= n THEN m ELSE n
      BY <3>1, MinOfTwo
    <3> QED
      BY <3>1, <3>2
  <2> HIDE DEF k
  <2> DEFINE x == SubSeq(response[b], 1, k)
             y == SubSeq(response[b], k + 1, Len(response[b]))
  <2>3. x \in Seq(AnswerPiece) /\ y \in Seq(AnswerPiece)
    BY <2>1, <2>2, Split
  <2>4. outbox'[b] = outbox[b] \o x /\ response'[b] = y
    BY <1>1, <1>3 DEF Base, TypeOK, ConnectionTypeOK, NetworkTypeOK
  <2>5. got[b] \o outbox[b] \in Seq(AnswerPiece)
    BY <2>1, ConcatProperties
  <2>6. ((got[b] \o outbox[b]) \o x) \o y = (got[b] \o outbox[b]) \o response[b]
    <3> DEFINE g == got[b] \o outbox[b]
               z == response[b]
    <3>1. g \in Seq(AnswerPiece) /\ z \in Seq(AnswerPiece) /\ k \in 0 .. Len(z)
      BY <2>1, <2>2, <2>5
    <3> HIDE DEF g, z
    <3>2. (g \o SubSeq(z, 1, k)) \o SubSeq(z, k + 1, Len(z)) = g \o z
      BY <3>1, MovePrefix
    <3> QED
      BY <3>2 DEF g, z
  <2>7. (got[b] \o outbox[b]) \o x = got[b] \o (outbox[b] \o x)
    <3> DEFINE g == got[b]
               o == outbox[b]
    <3>1. g \in Seq(AnswerPiece) /\ o \in Seq(AnswerPiece) /\ x \in Seq(AnswerPiece)
      BY <2>1, <2>3
    <3> HIDE DEF g, o, x
    <3>2. (g \o o) \o x = g \o (o \o x)
      BY <3>1, ConcatAssociative
    <3> QED
      BY <3>2 DEF g, o
  <2> HIDE DEF x, y
  <2>8. Answers(b)' = Answers(b)
    BY <2>4, <2>6, <2>7 DEF Answers
  <2>9. \A c \in Conn \ {b} : outbox'[c] = outbox[c] /\ response'[c] = response[c]
    BY <1>3 DEF Base, TypeOK, ConnectionTypeOK, NetworkTypeOK
  <2> QED
    BY <2>8, <2>9 DEF Answers
<1> QED
  BY <1>2, <1>3 DEF Write

LEMMA ClientOrder ==
  ASSUME Base, OrderInv, NEW b \in Conn, ClientStep(b)
  PROVE  OrderInv'
<1>1. CASE Connect(b) \/ ClientClose(b)
  <2>1. UNCHANGED <<body, worker, queue, subTask, processing, pushing, buffer, inbox,
                    sending, raced, got, outbox, response>>
    BY <1>1 DEF Connect, ClientClose, connectionVars, connection, pool, history, client
  <2> QED
    BY <2>1, ElsewhereOrder DEF Answers
<1>2. CASE ClientReceive(b)
  <2>1. /\ outbox[b] # <<>>
        /\ got' = [got EXCEPT ![b] = Append(@, Head(outbox[b]))]
        /\ outbox' = [outbox EXCEPT ![b] = Tail(@)]
        /\ UNCHANGED <<body, worker, queue, subTask, processing, pushing, buffer, inbox,
                       sending, raced, response>>
    BY <1>2 DEF ClientReceive, connectionVars, connection, pool, history
  <2>2. got'[b] \o outbox'[b] = got[b] \o outbox[b]
    <3>1. got[b] \in Seq(AnswerPiece) /\ outbox[b] \in Seq(AnswerPiece)
      BY SequencesAre
    <3>2. got'[b] = Append(got[b], Head(outbox[b])) /\ outbox'[b] = Tail(outbox[b])
      BY <2>1 DEF Base, TypeOK, NetworkTypeOK
    <3> QED
      BY <2>1, <3>1, <3>2, MoveHead
  <2>3. \A c \in Conn \ {b} : got'[c] = got[c] /\ outbox'[c] = outbox[c]
    BY <2>1 DEF Base, TypeOK, NetworkTypeOK
  <2>4. \A c \in Conn : Answers(c)' = Answers(c)
    BY <2>1, <2>2, <2>3 DEF Answers
  <2> QED
    BY <2>1, <2>4, ElsewhereOrder
<1>3. CASE ClientSend(b)
  <2> DEFINE r == sending[b][1]
             n == sending[b][2] + 1
             last == n = body[b][r].size
             p == [request |-> r, last |-> last]
  <2>1. /\ r <= Len(body[b])
        /\ sending' = [sending EXCEPT ![b] = IF last THEN <<r + 1, 0>> ELSE <<r, n>>]
        /\ inbox' = [inbox EXCEPT ![b] = Append(@, p)]
        /\ UNCHANGED <<body, worker, queue, subTask, processing, pushing, buffer, raced,
                       got, outbox, response>>
    BY <1>3 DEF ClientSend, HasMore, connectionVars, connection, pool, history
  <2>2. last \in BOOLEAN /\ r \in Nat \ {0} /\ p \in RequestPiece
    BY DEF Base, TypeOK, NetworkTypeOK, RequestPiece
  <2>3. r \in DOMAIN body[b]
    <3>1. body[b] \in Seq(Request)
      BY ConnectionConstants DEF Base, TypeOK, ConnectionTypeOK
    <3>2. DOMAIN body[b] = 1 .. Len(body[b]) /\ Len(body[b]) \in Nat
      BY <3>1, LenProperties
    <3> QED
      BY <2>1, <2>2, <3>2
  <2>4. /\ sending'[b][1] = IF last THEN r + 1 ELSE r
        /\ inbox'[b] = Append(inbox[b], p)
        /\ \A c \in Conn \ {b} : sending'[c] = sending[c] /\ inbox'[c] = inbox[c]
    BY <2>1 DEF Base, TypeOK, NetworkTypeOK
  <2>5. Asking(b)' = Append(Asking(b), p)
    <3>1. buffer[b] \in Seq(RequestPiece) /\ inbox[b] \in Seq(RequestPiece)
      BY SequencesAre
    <3> DEFINE x == buffer[b]
               y == inbox[b]
    <3>2. x \in Seq(RequestPiece) /\ y \in Seq(RequestPiece) /\ p \in RequestPiece
      BY <2>2, <3>1
    <3> HIDE DEF p, x, y
    <3>3. x \o Append(y, p) = Append(x \o y, p)
      BY <3>2, AppendLast
    <3> QED
      BY <2>1, <2>4, <3>3 DEF Asking, x, y
  <2> HIDE DEF last
  <2> SUFFICES ASSUME NEW c \in Conn \ raced PROVE OrderOf(c)'
    BY <2>1 DEF OrderInv
  <2>6. OrderOf(c) /\ Len(buffer[c]) \in Nat /\ Answers(c)' = Answers(c)
    BY <2>1, SequencesAre DEF OrderInv, Answers
  <2>7. CASE c = b
    <3>1. /\ StreamOK(b)'
          /\ \A i \in 1 .. Len(Asking(b)) + 1 : RequestAt(b, i)' = RequestAt(b, i)
      BY <2>1, <2>2, <2>3, <2>4, <2>5, <2>6, <2>7, StreamGrows DEF OrderOf
    <3>2. 1 .. Len(buffer[b]) + 1 \subseteq 1 .. Len(Asking(b)) + 1
      BY SequencesAre
    <3> QED
      BY <2>1, <2>6, <2>7, <3>1, <3>2, QuietOrder
  <2>8. CASE c # b
    <3>1. StreamOK(c)' /\ \A i : RequestAt(c, i)' = RequestAt(c, i)
      BY <2>1, <2>4, <2>6, <2>8, StreamKept DEF OrderOf, Asking
    <3> QED
      BY <2>1, <2>6, <3>1, QuietOrder
  <2> QED
    BY <2>7, <2>8
<1> QED
  BY <1>1, <1>2, <1>3 DEF ClientStep

LEMMA ReadChunkOrder ==
  ASSUME Base, OrderInv, NEW b \in Conn, ReadChunk(b)
  PROVE  OrderInv'
<1> DEFINE m == Len(inbox[b])
           k == Min({m, ReadSize})
           s == SubSeq(inbox[b], 1, k)
<1>1. /\ pushing = None
      /\ buffer' = [buffer EXCEPT ![b] = @ \o s]
      /\ processing' = [processing EXCEPT ![b] = TRUE]
      /\ pushing' = IF processing[b] THEN None ELSE b
      /\ inbox' = [inbox EXCEPT ![b] = SubSeq(@, k + 1, Len(@))]
      /\ UNCHANGED <<body, worker, queue, subTask, response, raced, got, outbox, sending>>
  BY DEF ReadChunk, Receive, history, client
<1>2. buffer[b] \in Seq(RequestPiece) /\ inbox[b] \in Seq(RequestPiece)
  BY SequencesAre
<1>3. k \in 0 .. Len(inbox[b])
  <2>1. m \in Nat /\ ReadSize \in Nat
    BY <1>2, LenProperties, ReactorConstants
  <2>2. k = IF m <= ReadSize THEN m ELSE ReadSize
    BY <2>1, MinOfTwo
  <2> QED
    BY <2>1, <2>2
<1> HIDE DEF k
<1>4. /\ buffer'[b] = buffer[b] \o s
      /\ inbox'[b] = SubSeq(inbox[b], k + 1, Len(inbox[b]))
      /\ \A c \in Conn \ {b} :
           /\ buffer'[c] = buffer[c] /\ inbox'[c] = inbox[c]
           /\ processing'[c] = processing[c]
      /\ processing'[b]
  BY <1>1 DEF Base, TypeOK, ConnectionTypeOK, NetworkTypeOK
<1>5. s \in Seq(RequestPiece)
  BY <1>2, <1>3, Split
<1>6. Asking(b)' = Asking(b)
  <2> DEFINE x == buffer[b]
             y == inbox[b]
  <2>1. x \in Seq(RequestPiece) /\ y \in Seq(RequestPiece) /\ k \in 0 .. Len(y)
    BY <1>2, <1>3
  <2> HIDE DEF x, y
  <2>2. (x \o SubSeq(y, 1, k)) \o SubSeq(y, k + 1, Len(y)) = x \o y
    BY <2>1, MovePrefix
  <2> QED
    BY <1>4, <2>2 DEF Asking, x, y
<1>7. Len(buffer'[b]) \in Nat /\ Len(buffer[b]) <= Len(buffer'[b])
  <2>1. /\ Len(buffer[b] \o s) = Len(buffer[b]) + Len(s)
        /\ Len(buffer[b]) \in Nat /\ Len(s) \in Nat
    BY <1>2, <1>5, ConcatProperties, LenProperties
  <2> HIDE DEF s
  <2> QED
    BY <1>4, <2>1
<1> SUFFICES ASSUME NEW c \in Conn \ raced PROVE OrderOf(c)'
  BY <1>1 DEF OrderInv
<1>8. OrderOf(c) /\ Len(buffer[c]) \in Nat /\ Answers(c)' = Answers(c)
  BY <1>1, SequencesAre DEF OrderInv, Answers
<1>9. StreamOK(c)' /\ \A i : RequestAt(c, i)' = RequestAt(c, i)
  <2>1. Asking(c)' = Asking(c)
    BY <1>4, <1>6 DEF Asking
  <2> QED
    BY <1>1, <1>8, <2>1, StreamKept DEF OrderOf
<1>10. Len(buffer[c]) <= Len(buffer'[c]) /\ Len(buffer'[c]) \in Nat
  <2>1. CASE c = b
    BY <1>7, <2>1
  <2>2. CASE c # b
    BY <1>4, <1>8, <2>2
  <2> QED
    BY <2>1, <2>2
<1>11. ~processing'[c] \/ pushing' = c => ~processing[c] \/ pushing = c
  BY <1>1, <1>4, ConnectionConstants
<1> QED
  BY <1>1, <1>8, <1>9, <1>10, <1>11, QuietOrder

\* The only task of a connection
LEMMA OnlyTask ==
  ASSUME Base, TaskInv, NEW c \in Conn \ raced
  PROVE  /\ \A w \in Worker : Counted(worker[w], c) =>
              /\ processing[c] /\ pushing # c
              /\ \A u \in Worker \ {w} : ~Counted(worker[u], c)
              /\ \A i \in 1 .. Len(queue) : queue[i].c # c
         /\ \A i \in 1 .. Len(queue) : queue[i].c = c =>
              /\ processing[c] /\ pushing # c
              /\ \A j \in 1 .. Len(queue) \ {i} : queue[j].c # c
         /\ pushing = c => processing[c]
<1>1. /\ IsFiniteSet(Tasks(c)) /\ Cardinality(Tasks(c)) \in Nat
      /\ IsFiniteSet(Queued(c)) /\ Cardinality(Queued(c)) \in Nat
      /\ Waiting(c) \in {0, 1}
      /\ NumTasks(c) = Cardinality(Tasks(c)) + Cardinality(Queued(c)) + Waiting(c)
  BY CountTypes DEF NumTasks
<1>2. NumTasks(c) <= 1 /\ (NumTasks(c) # 0 => processing[c])
  BY DEF TaskInv, OwnTask
<1>3. /\ \A w \in Worker : Counted(worker[w], c) <=> w \in Tasks(c)
      /\ \A i \in 1 .. Len(queue) : queue[i].c = c <=> i \in Queued(c)
      /\ pushing = c <=> Waiting(c) = 1
  <2>1. DOMAIN queue = 1 .. Len(queue)
    BY LenProperties DEF Base, TypeOK, PoolTypeOK
  <2> QED
    BY <2>1 DEF Tasks, Queued, Waiting, Counted
<1>4. /\ Cardinality(Tasks(c)) = 0 => Tasks(c) = {}
      /\ Cardinality(Queued(c)) = 0 => Queued(c) = {}
  BY <1>1, FS_EmptySet
<1>5. ASSUME NEW x \in Tasks(c)
      PROVE  /\ Cardinality(Tasks(c)) = 1 /\ Cardinality(Queued(c)) = 0 /\ Waiting(c) = 0
             /\ Tasks(c) = {x}
  <2>1. Cardinality(Tasks(c)) # 0
    BY <1>1, FS_EmptySet
  <2>2. Cardinality(Tasks(c)) = 1 /\ Cardinality(Queued(c)) = 0 /\ Waiting(c) = 0
    BY <1>1, <1>2, <2>1
  <2>3. PICK y : Tasks(c) = {y}
    BY <1>1, <2>2, FS_Singleton
  <2> QED
    BY <2>2, <2>3
<1>6. ASSUME NEW x \in Queued(c)
      PROVE  Cardinality(Tasks(c)) = 0 /\ Waiting(c) = 0 /\ Queued(c) = {x}
  <2>1. Cardinality(Queued(c)) # 0
    BY <1>1, FS_EmptySet
  <2>2. Cardinality(Queued(c)) = 1 /\ Cardinality(Tasks(c)) = 0 /\ Waiting(c) = 0
    BY <1>1, <1>2, <2>1
  <2>3. PICK y : Queued(c) = {y}
    BY <1>1, <2>2, FS_Singleton
  <2> QED
    BY <2>2, <2>3
<1>7. ASSUME NEW w \in Worker, Counted(worker[w], c)
      PROVE  /\ processing[c] /\ pushing # c
             /\ \A u \in Worker \ {w} : ~Counted(worker[u], c)
             /\ \A i \in 1 .. Len(queue) : queue[i].c # c
  <2>1. /\ Tasks(c) = {w} /\ Cardinality(Tasks(c)) = 1 /\ Queued(c) = {}
        /\ Cardinality(Queued(c)) = 0 /\ Waiting(c) = 0
    BY <1>3, <1>4, <1>5, <1>7
  <2>2. processing[c]
    BY <1>1, <1>2, <2>1
  <2> QED
    BY <1>3, <2>1, <2>2
<1>8. ASSUME NEW i \in 1 .. Len(queue), queue[i].c = c
      PROVE  /\ processing[c] /\ pushing # c
             /\ \A j \in 1 .. Len(queue) \ {i} : queue[j].c # c
  <2>1. Queued(c) = {i} /\ Waiting(c) = 0 /\ Cardinality(Queued(c)) # 0
    BY <1>1, <1>3, <1>6, <1>8, FS_EmptySet
  <2>2. processing[c]
    BY <1>1, <1>2, <2>1
  <2> QED
    BY <1>3, <2>1, <2>2
<1>9. pushing = c => processing[c]
  BY <1>1, <1>2, <1>3
<1> QED
  BY <1>7, <1>8, <1>9

\* push puts the task that the main thread holds into the ring.
LEMMA PushOrder ==
  ASSUME Base, TaskInv, OrderInv, ReadPush
  PROVE  OrderInv'
<1> DEFINE t == [task |-> Handler, c |-> pushing]
<1>1. /\ pushing # None /\ Len(queue) < RingCapacity /\ queue' = Append(queue, t)
      /\ pushing' = None
      /\ UNCHANGED <<body, worker, subTask, processing, buffer, inbox, sending, raced, got,
                     outbox, response>>
  BY DEF ReadPush, Push, connection, history, reactorVars, network, client
<1>2. t \in [task : Task, c : Conn]
  BY <1>1 DEF Base, TypeOK, PoolTypeOK, Task
<1>3. /\ Len(queue') = Len(queue) + 1 /\ Len(queue) \in Nat
      /\ \A i \in 1 .. Len(queue) : queue'[i] = queue[i]
      /\ queue'[Len(queue')] = t
  BY <1>1, <1>2, QueueTypes, LenProperties DEF Base, TypeOK, PoolTypeOK
<1> SUFFICES ASSUME NEW c \in Conn \ raced PROVE OrderOf(c)'
  BY <1>1 DEF OrderInv
<1>4. OrderOf(c)
  BY DEF OrderInv
<1>5. /\ StreamOK(c)' /\ InOrder(c, Answers(c))'
      /\ \A n, x : Due(c, n, x)' = Due(c, n, x)
  <2>1. Answers(c)' = Answers(c) /\ \A i : RequestAt(c, i)' = RequestAt(c, i)
    BY <1>1 DEF Answers, RequestAt, Asking
  <2>2. StreamOK(c)'
    BY <1>1, <1>4, StreamKept DEF OrderOf, Asking
  <2> QED
    BY <1>1, <1>4, <2>1, <2>2, DueKept DEF OrderOf, InOrder, After
<1>6. \A w \in Worker : WorkerDue(c, worker[w])'
  <2> SUFFICES ASSUME NEW w \in Worker PROVE WorkerDue(c, worker[w])'
    OBVIOUS
  <2>1. WorkerDue(c, worker[w])
    BY <1>4 DEF OrderOf, TasksDue
  <2>2. Ahead(c, worker[w])' = Ahead(c, worker[w])
    BY <1>1 DEF Ahead, NextPiece
  <2> QED
    BY <1>1, <1>5, <2>1, <2>2 DEF WorkerDue
<1>7. ASSUME NEW i \in 1 .. Len(queue'), queue'[i].c = c PROVE Due(c, 0, queue'[i].task)
  <2>1. CASE i \in 1 .. Len(queue)
    BY <1>3, <1>4, <1>7, <2>1 DEF OrderOf, TasksDue
  <2>2. CASE i = Len(queue')
    BY <1>3, <1>4, <1>7, <2>2 DEF OrderOf, TasksDue
  <2> QED
    BY <1>3, <2>1, <2>2
<1>8. TasksDue(c)'
  <2>1. ~processing'[c] \/ pushing' = c => Due(c, 0, Handler)'
    BY <1>1, <1>4, <1>5, ConnectionConstants DEF OrderOf, TasksDue
  <2>2. \A i \in 1 .. Len(queue') : queue'[i].c = c => Due(c, 0, queue'[i].task)
    BY <1>7
  <2>3. (\A i \in 1 .. Len(queue) : queue[i].c = c => Due(c, 0, queue[i].task))'
    BY <1>5, <2>2
  <2> QED
    BY <1>6, <2>1, <2>3 DEF TasksDue
<1> QED
  BY <1>5, <1>8 DEF OrderOf

-----------------------------------------------------------------------------
(* Workers                                                                 *)

Working == {"parse", "send", "notify", "finish"}

\* A step of a worker that neither was nor is at work for d.
LEMMA OthersOrder ==
  ASSUME Base, OrderInv, NEW d \in Conn \ raced, NEW w \in Worker, NEW s,
         worker' = [worker EXCEPT ![w] = s], s.c # d \/ s.pc \notin Working,
         UNCHANGED <<body, got, outbox, inbox, sending, pushing>>,
         buffer'[d] = buffer[d], response'[d] = response[d], subTask'[d] = subTask[d],
         processing'[d] = processing[d],
         \A i \in 1 .. Len(queue') :
           queue'[i].c = d => \E j \in 1 .. Len(queue) : queue[j] = queue'[i]
  PROVE  OrderOf(d)'
<1>1. OrderOf(d)
  BY DEF OrderInv
<1>2. Answers(d)' = Answers(d) /\ Asking(d)' = Asking(d)
  BY DEF Answers, Asking
<1>3. StreamOK(d)' /\ \A i : RequestAt(d, i)' = RequestAt(d, i)
  BY <1>1, <1>2, StreamKept DEF OrderOf
<1>4. \A n, x : Due(d, n, x)' = Due(d, n, x)
  BY <1>2, <1>3, DueKept
<1>5. InOrder(d, Answers(d))'
  BY <1>1, <1>2 DEF OrderOf, InOrder, After
<1>6. ASSUME NEW u \in Worker, NEW x, x = worker'[u] PROVE WorkerDue(d, x)'
  <2>1. CASE u = w
    <3>1. x = s
      BY <1>6, <2>1 DEF Base, TypeOK, PoolTypeOK
    <3> QED
      BY <3>1 DEF WorkerDue, Working
  <2>2. CASE u # w
    <3>1. x = worker[u]
      BY <1>6, <2>2 DEF Base, TypeOK, PoolTypeOK
    <3>2. WorkerDue(d, x)
      BY <1>1, <3>1 DEF OrderOf, TasksDue
    <3>3. Ahead(d, x)' = Ahead(d, x)
      BY DEF Ahead, NextPiece
    <3> QED
      BY <1>4, <3>2, <3>3 DEF WorkerDue
  <2> QED
    BY <2>1, <2>2
<1>7. (\A u \in Worker : WorkerDue(d, worker[u]))'
  BY <1>6
<1>8. (\A i \in 1 .. Len(queue) : queue[i].c = d => Due(d, 0, queue[i].task))'
  <2>1. \A i \in 1 .. Len(queue') : queue'[i].c = d => Due(d, 0, queue'[i].task)
    BY <1>1 DEF OrderOf, TasksDue
  <2> QED
    BY <1>4, <2>1
<1>9. (~processing[d] \/ pushing = d => Due(d, 0, Handler))'
  BY <1>1, <1>4 DEF OrderOf, TasksDue
<1> QED
  BY <1>3, <1>5, <1>7, <1>8, <1>9 DEF OrderOf, TasksDue

\* A step of the worker that has the only task of c.
LEMMA OwnOrder ==
  ASSUME Base, TaskInv, NEW c \in Conn \ raced, NEW w \in Worker, Counted(worker[w], c),
         NEW s, worker' = [worker EXCEPT ![w] = s], UNCHANGED pushing,
         StreamOK(c)', InOrder(c, Answers(c))', WorkerDue(c, s)',
         ~processing'[c] => Due(c, 0, Handler)',
         \/ UNCHANGED queue
         \/ \E t \in [task : Task, c : Conn] :
              /\ Len(queue) < RingCapacity /\ queue' = Append(queue, t)
              /\ Due(c, 0, t.task)'
  PROVE  OrderOf(c)'
<1>1. /\ processing[c] /\ pushing # c
      /\ \A u \in Worker \ {w} : ~Counted(worker[u], c)
      /\ \A i \in 1 .. Len(queue) : queue[i].c # c
  BY OnlyTask
<1>2. ASSUME NEW u \in Worker, NEW x, x = worker'[u] PROVE WorkerDue(c, x)'
  <2>1. CASE u = w
    BY <1>2, <2>1 DEF Base, TypeOK, PoolTypeOK
  <2>2. CASE u # w
    <3>1. x = worker[u] /\ ~Counted(x, c)
      BY <1>1, <1>2, <2>2 DEF Base, TypeOK, PoolTypeOK
    <3> QED
      BY <3>1 DEF WorkerDue, Counted
  <2> QED
    BY <2>1, <2>2
<1>3. (\A u \in Worker : WorkerDue(c, worker[u]))'
  BY <1>2
<1>4. (\A i \in 1 .. Len(queue) : queue[i].c = c => Due(c, 0, queue[i].task))'
  <2>1. CASE UNCHANGED queue
    BY <1>1, <2>1
  <2>2. ASSUME NEW t \in [task : Task, c : Conn], Len(queue) < RingCapacity,
               queue' = Append(queue, t), Due(c, 0, t.task)'
        PROVE  (\A i \in 1 .. Len(queue) : queue[i].c = c => Due(c, 0, queue[i].task))'
    <3>1. /\ Len(queue') = Len(queue) + 1 /\ Len(queue) \in Nat
          /\ \A i \in 1 .. Len(queue) : queue'[i] = queue[i]
          /\ queue'[Len(queue')] = t
      BY <2>2, QueueTypes, LenProperties DEF Base, TypeOK, PoolTypeOK
    <3>2. ASSUME NEW i \in 1 .. Len(queue'), NEW x, x = queue'[i], x.c = c
          PROVE  Due(c, 0, x.task)'
      <4>1. i \notin 1 .. Len(queue)
        BY <1>1, <3>1, <3>2
      <4>2. x = t
        BY <3>1, <3>2, <4>1
      <4> QED
        BY <2>2, <4>2
    <3> QED
      BY <3>2
  <2> QED
    BY <2>1, <2>2
<1>5. (~processing[c] \/ pushing = c => Due(c, 0, Handler))'
  BY <1>1
<1> QED
  BY <1>3, <1>4, <1>5 DEF OrderOf, TasksDue

LEMMA TaskIs ==
  /\ Handler \in Task
  /\ \A t \in Task \ {Handler} :
       /\ t[2] \in Nat \ {0} /\ t[3] \in Nat \ {0} /\ t = SendFile(t[2], t[3])
       /\ t \notin {Handler, None}
  /\ \A r, k \in Nat \ {0} :
       /\ SendFile(r, k) \in Task \ {Handler} /\ SendFile(r, k) # None
       /\ SendFile(r, k)[2] = r /\ SendFile(r, k)[3] = k
<1>1. None \notin Task
  BY ConnectionConstants
<1>2. \A r, k : SendFile(r, k) # Handler
  <2>1. \A r, k : SendFile(r, k)[1] = "sendFile" /\ Handler[1] = "handler"
    BY DEF SendFile, Handler
  <2> QED
    BY <2>1
<1>3. \A r, k \in Nat \ {0} : SendFile(r, k) \in Task
  BY DEF SendFile, Task
<1>4. \A t \in Task \ {Handler} :
        t[2] \in Nat \ {0} /\ t[3] \in Nat \ {0} /\ t = SendFile(t[2], t[3])
  BY DEF SendFile, Task
<1>5. Handler \in Task
  BY DEF Task
<1>6. \A r, k : SendFile(r, k)[2] = r /\ SendFile(r, k)[3] = k
  BY DEF SendFile
<1> QED
  BY <1>1, <1>2, <1>3, <1>4, <1>5, <1>6

LEMMA RequestIs ==
  ASSUME Base, NEW c \in Conn, NEW r \in DOMAIN body[c]
  PROVE  /\ r \in Nat \ {0} /\ body[c][r].pieces \in Nat
         /\ body[c][r].kind # "download" => body[c][r].pieces = 0
<1>1. body[c] \in Seq(Request)
  BY ConnectionConstants DEF Base, TypeOK, ConnectionTypeOK
<1>2. r \in 1 .. Len(body[c]) /\ Len(body[c]) \in Nat
  BY <1>1, LenProperties
<1>3. body[c][r] \in Request
  BY <1>1, <1>2, ElementOfSeq
<1> QED
  BY <1>2, <1>3 DEF Request

\* A piece is added to the answers.
LEMMA AnswersGrow ==
  ASSUME Base, NEW c \in Conn, NEW p \in AnswerPiece,
         response'[c] = Append(response[c], p), UNCHANGED <<body, got, outbox>>,
         InOrder(c, Answers(c)),
         IF Answers(c) = <<>> THEN p = <<1, 0>>
         ELSE p = After(c, Answers(c)[Len(Answers(c))])
  PROVE  /\ Answers(c)' # <<>> /\ Answers(c)'[Len(Answers(c)')] = p
         /\ InOrder(c, Answers(c))'
<1> DEFINE a == Answers(c)
<1>1. a \in Seq(AnswerPiece) /\ Len(a) \in Nat
  BY SequencesAre
<1>2. Answers(c)' = Append(a, p)
  <2> DEFINE g == got[c] \o outbox[c]
             z == response[c]
  <2>1. g \in Seq(AnswerPiece) /\ z \in Seq(AnswerPiece)
    BY SequencesAre
  <2> HIDE DEF g, z
  <2>2. g \o Append(z, p) = Append(g \o z, p)
    BY <2>1, AppendLast
  <2> QED
    BY <2>2 DEF Answers, g, z
<1> DEFINE b == Append(a, p)
<1>3. /\ b # <<>> /\ Len(b) = Len(a) + 1
      /\ \A i \in 1 .. Len(a) : b[i] = a[i]
      /\ b[Len(a) + 1] = p
  BY <1>1, AppendProperties
<1>4. InOrder(c, b)
  <2>1. b[1] = <<1, 0>>
    <3>1. CASE a = <<>>
      <4>1. Len(a) = 0
        BY <3>1, EmptySeq
      <4> QED
        BY <1>3, <3>1, <4>1
    <3>2. CASE a # <<>>
      <4>1. Len(a) \in Nat \ {0}
        BY <1>1, <3>2, EmptySeq
      <4>2. 1 \in 1 .. Len(a)
        BY <4>1
      <4> QED
        BY <1>3, <3>2, <4>2 DEF InOrder
    <3> QED
      BY <3>1, <3>2
  <2>2. ASSUME NEW i \in 1 .. Len(b) - 1 PROVE b[i + 1] = After(c, b[i])
    <3>1. i \in 1 .. Len(a)
      BY <1>1, <1>3
    <3>2. CASE i = Len(a)
      <4>1. a # <<>>
        BY <3>1, EmptySeq
      <4>2. b[i] = a[Len(a)] /\ b[i + 1] = p
        BY <1>3, <3>1, <3>2
      <4> QED
        BY <4>1, <4>2
    <3>3. CASE i < Len(a)
      <4>1. i \in 1 .. Len(a) - 1 /\ i + 1 \in 1 .. Len(a)
        BY <1>1, <3>1, <3>3
      <4>2. a[i + 1] = After(c, a[i])
        BY <4>1 DEF InOrder
      <4> QED
        BY <1>3, <3>1, <4>1, <4>2
    <3> QED
      BY <1>1, <3>1, <3>2, <3>3
  <2> QED
    BY <2>1, <2>2 DEF InOrder
<1>5. InOrder(c, Answers(c))'
  BY <1>2, <1>4 DEF InOrder, After
<1> QED
  BY <1>2, <1>3, <1>5

LEMMA TakeOrder ==
  ASSUME Base, TaskInv, OrderInv, NEW w \in Worker, Take(w), NEW d \in Conn \ raced,
         UNCHANGED <<got, outbox, inbox, sending>>
  PROVE  OrderOf(d)'
<1>0. PICK t : t = Head(queue)
  OBVIOUS
<1> DEFINE s == [pc |-> IF t.task = Handler THEN "parse" ELSE "send",
                 c |-> t.c, task |-> t.task, took |-> 0]
<1>1. /\ worker[w].pc = "idle" /\ queue # <<>> /\ queue' = Tail(queue)
      /\ UNCHANGED <<body, buffer, processing, response, pushing, raced>>
      /\ \/ worker' = [worker EXCEPT ![w] = Idle] /\ UNCHANGED subTask
         \/ worker' = [worker EXCEPT ![w] = s] /\ subTask' = [subTask EXCEPT ![t.c] = None]
  BY <1>0 DEF Take, Begin, Rest, history
<1>2. /\ t \in [task : Task, c : Conn] /\ t = queue[1] /\ Len(queue) \in Nat \ {0}
      /\ Len(queue') = Len(queue) - 1
      /\ \A i \in 1 .. Len(queue') : queue'[i] = queue[i + 1]
  <2> DEFINE T == [task : Task, c : Conn]
  <2>1. queue \in Seq(T)
    BY DEF Base, TypeOK, PoolTypeOK
  <2> HIDE DEF T
  <2>2. /\ Head(queue) \in T /\ Head(queue) = queue[1] /\ Len(queue) \in Nat \ {0}
        /\ Len(Tail(queue)) = Len(queue) - 1
        /\ \A i \in 1 .. Len(Tail(queue)) : Tail(queue)[i] = queue[i + 1]
    BY <1>1, <2>1, HeadTailProperties, EmptySeq
  <2> QED
    BY <1>0, <1>1, <2>2 DEF T
<1>3. \A i \in 1 .. Len(queue') : i + 1 \in 1 .. Len(queue) \ {1}
  BY <1>2
<1>4. \A i \in 1 .. Len(queue') :
        queue'[i].c = d => \E j \in 1 .. Len(queue) : queue[j] = queue'[i]
  BY <1>2, <1>3
<1>5. CASE worker' = [worker EXCEPT ![w] = Idle] /\ UNCHANGED subTask
  BY <1>1, <1>4, <1>5, IdleIs, OthersOrder DEF Working
<1>6. CASE worker' = [worker EXCEPT ![w] = s] /\ subTask' = [subTask EXCEPT ![t.c] = None]
  <2>1. s.c = t.c /\ s.task = t.task /\ s.took = 0 /\ s.pc \in {"parse", "send"}
    OBVIOUS
  <2>0. PICK x : x = s
    OBVIOUS
  <2>4. /\ x.c = t.c /\ x.task = t.task /\ x.took = 0 /\ x.pc \in {"parse", "send"}
        /\ worker' = [worker EXCEPT ![w] = x]
    BY <1>6, <2>0, <2>1
  <2> HIDE DEF s
  <2>2. CASE t.c # d
    <3>1. subTask'[d] = subTask[d]
      BY <1>2, <1>6, <2>2 DEF Base, TypeOK, ConnectionTypeOK
    <3> QED
      BY <1>1, <1>4, <2>2, <2>4, <3>1, OthersOrder
  <2>3. CASE t.c = d
    <3>1. 1 \in 1 .. Len(queue)
      BY <1>2
    <3>2. /\ processing[d] /\ pushing # d
          /\ \A i \in 1 .. Len(queue) \ {1} : queue[i].c # d
          /\ \A u \in Worker : ~Counted(worker[u], d)
      BY <1>2, <2>3, <3>1, OnlyTask
    <3>3. OrderOf(d) /\ Due(d, 0, t.task)
      BY <1>2, <2>3, <3>1 DEF OrderInv, OrderOf, TasksDue
    <3>4. Answers(d)' = Answers(d) /\ Asking(d)' = Asking(d)
      BY <1>1 DEF Answers, Asking
    <3>5. StreamOK(d)' /\ \A i : RequestAt(d, i)' = RequestAt(d, i)
      BY <1>1, <3>3, <3>4, StreamKept DEF OrderOf
    <3>0. \A n, y : Due(d, n, y)' = Due(d, n, y)
      BY <1>1, <3>4, <3>5, DueKept
    <3>6. Due(d, 0, t.task)' /\ InOrder(d, Answers(d))'
      BY <1>1, <3>0, <3>3, <3>4 DEF OrderOf, InOrder, After
    <3>7. subTask'[d] = None /\ Len(buffer'[d]) \in Nat
      BY <1>1, <1>6, <2>3, SequencesAre DEF Base, TypeOK, ConnectionTypeOK
    <3>8. WorkerDue(d, x)'
      <4>1. Ahead(d, x)' = t.task
        BY <2>4 DEF Ahead
      <4> QED
        BY <2>4, <3>6, <3>7, <4>1 DEF WorkerDue
    <3>9. ASSUME NEW u \in Worker, NEW y, y = worker'[u] PROVE WorkerDue(d, y)'
      <4>1. y = x \/ ~Counted(y, d)
        BY <2>4, <3>2, <3>9 DEF Base, TypeOK, PoolTypeOK
      <4>2. ~Counted(y, d) => WorkerDue(d, y)'
        BY DEF WorkerDue, Counted
      <4> QED
        BY <3>8, <4>1, <4>2
    <3>10. (\A u \in Worker : WorkerDue(d, worker[u]))'
      BY <3>9
    <3>11. \A i \in 1 .. Len(queue') : queue'[i].c # d
      BY <1>2, <1>3, <3>2
    <3>12. TasksDue(d)'
      BY <1>1, <3>2, <3>10, <3>11 DEF TasksDue
    <3> QED
      BY <3>5, <3>6, <3>12 DEF OrderOf
  <2> QED
    BY <2>2, <2>3
<1> QED
  BY <1>1, <1>5, <1>6

\* What a worker at work for c knows.
LEMMA AtOrder ==
  ASSUME Base, TaskInv, OrderInv, NEW w \in Worker, NEW c \in Conn,
         NEW label \in Working, At(w, label, c)
  PROVE  /\ c \notin raced /\ Counted(worker[w], c) /\ OrderOf(c) /\ processing[c]
         /\ worker[w] \in WorkerState /\ worker[w].pc = label /\ worker[w].c = c
         /\ worker[w].took \in 0 .. Len(buffer[c])
         /\ Due(c, worker[w].took, Ahead(c, worker[w]))
         /\ label \in {"parse", "send"} \/ (label = "notify" /\ worker[w].task # Handler)
              => subTask[c] = None
<1>1. /\ worker[w].pc = label /\ worker[w].c = c /\ c \notin raced
      /\ worker[w].pc # "idle" /\ worker[w].pc # "leave"
  BY DEF At, Working
<1>2. worker[w] \in WorkerState /\ Counted(worker[w], c)
  BY <1>1, AtWork DEF Counted
<1>3. OrderOf(c) /\ processing[c]
  BY <1>1, <1>2, OnlyTask DEF OrderInv
<1>4. /\ worker[w].took <= Len(buffer[c])
      /\ Due(c, worker[w].took, Ahead(c, worker[w]))
      /\ label \in {"parse", "send"} \/ (label = "notify" /\ worker[w].task # Handler)
           => subTask[c] = None
  BY <1>1, <1>3 DEF OrderOf, TasksDue, WorkerDue, Working
<1>5. worker[w].took \in Nat /\ Len(buffer[c]) \in Nat
  BY <1>2, SequencesAre DEF WorkerState
<1> QED
  BY <1>1, <1>2, <1>3, <1>4, <1>5

LEMMA ParseOnOrder ==
  ASSUME Base, TaskInv, OrderInv, NEW w \in Worker, NEW c \in Conn, ParseOn(w, c),
         NEW d \in Conn \ raced, UNCHANGED <<got, outbox, inbox, sending>>
  PROVE  OrderOf(d)'
<1> DEFINE n == Cardinality(Handled(c))
<1>1. /\ At(w, "parse", c) /\ Ends(c) = {} /\ Took(w, "finish", n)
      /\ UNCHANGED <<body, buffer, processing, subTask, response, pushing, queue>>
  BY DEF ParseOn, connection
<1>2. PICK m \in 0 .. Len(buffer[c]) : Handled(c) = 1 .. m
  BY HandledIs
<1>3. n = m
  <2>1. m \in Int /\ 1 \in Int /\ m \in Nat
    BY <1>2, SequencesAre
  <2>2. n = IF 1 > m THEN 0 ELSE m - 1 + 1
    BY <1>2, <2>1, FS_Interval
  <2> QED
    BY <2>1, <2>2
<1> HIDE DEF n
<1>4. m \in Nat /\ m \in 0 .. Len(buffer[c])
  BY <1>2, SequencesAre
<1>5. PICK s \in WorkerState :
        worker' = [worker EXCEPT ![w] = s] /\ s.pc = "finish" /\ s.c = c /\ s.took = m
  BY <1>1, <1>3, <1>4, TookIs DEF At, Labels
<1>6. CASE d # c
  BY <1>1, <1>5, <1>6, OthersOrder
<1>7. CASE d = c
  <2>1. /\ c \notin raced /\ Counted(worker[w], c) /\ OrderOf(c) /\ processing[c]
        /\ Due(c, 0, Handler) /\ subTask[c] = None
    BY <1>1, AtOrder DEF Working, Ahead, Base, NamesInUse
  <2>2. \A i \in 1 .. m : ~Asking(c)[i].last
    BY <1>1, <1>2, SequencesAre DEF Ends
  <2>3. RequestAt(c, m + 1) = RequestAt(c, 1)
    <3>1. 1 \in 1 .. Len(Asking(c)) + 1 /\ m + 1 \in 1 .. Len(Asking(c)) + 1
      BY <1>4, SequencesAre
    <3>2. 1 <= m + 1 /\ \A i \in 1 .. m + 1 - 1 : i \in 1 .. m
      BY <1>4
    <3> QED
      BY <2>1, <2>2, <3>1, <3>2 DEF OrderOf, StreamOK
  <2>4. Due(c, m, None)
    BY <2>1, <2>3, TaskIs DEF Due
  <2>5. Answers(c)' = Answers(c) /\ Asking(c)' = Asking(c)
    BY <1>1 DEF Answers, Asking
  <2>6. StreamOK(c)' /\ \A i : RequestAt(c, i)' = RequestAt(c, i)
    BY <1>1, <2>1, <2>5, StreamKept DEF OrderOf
  <2>7. \A k, x : Due(c, k, x)' = Due(c, k, x)
    BY <1>1, <2>5, <2>6, DueKept
  <2>8. Due(c, m, None)' /\ InOrder(c, Answers(c))'
    BY <1>1, <2>1, <2>4, <2>5, <2>7 DEF OrderOf, InOrder, After
  <2>9. WorkerDue(c, s)'
    <3>1. Ahead(c, s)' = None
      BY <1>1, <1>5, <2>1 DEF Ahead
    <3>2. s.took <= Len(buffer'[c])
      BY <1>1, <1>4, <1>5, SequencesAre
    <3> QED
      BY <1>5, <2>8, <3>1, <3>2 DEF WorkerDue
  <2> QED
    BY <1>1, <1>5, <1>7, <2>1, <2>6, <2>8, <2>9, OwnOrder
<1> QED
  BY <1>6, <1>7

\* The next answer of a connection is the head of request r.
LEMMA HeadIsNext ==
  ASSUME NEW c, NEW n, Due(c, n, Handler), NEW r, RequestAt(c, n + 1) = r
  PROVE  IF Answers(c) = <<>> THEN r = 1
         ELSE <<r, 0>> = After(c, Answers(c)[Len(Answers(c))])
BY DEF Due

\* The worker gives up.
LEMMA RestOrder ==
  ASSUME Base, OrderInv, NEW w \in Worker, Rest(w),
         UNCHANGED <<body, buffer, response, subTask, processing, pushing, queue, got,
                     outbox, inbox, sending>>,
         NEW d \in Conn \ raced
  PROVE  OrderOf(d)'
<1>1. worker' = [worker EXCEPT ![w] = Idle] /\ Idle.pc \notin Working
  BY IdleIs DEF Rest, Working
<1> QED
  BY <1>1, OthersOrder

LEMMA ParseOrder ==
  ASSUME Base, TaskInv, OrderInv, NEW w \in Worker, NEW c \in Conn, Parse(w, c),
         NEW d \in Conn \ raced, UNCHANGED <<got, outbox, inbox, sending>>
  PROVE  OrderOf(d)'
<1>0. PICK end \in Ends(c) : Parse(w, c)!(end)
  BY DEF Parse
<1>1. PICK r, kind : r = buffer[c][end].request /\ kind = body[c][r].kind
  OBVIOUS
<1>2. /\ At(w, "parse", c) /\ \A i \in Ends(c) : end <= i
      /\ UNCHANGED <<body, buffer, processing, pushing, queue, raced>>
      /\ \/ Rest(w) /\ UNCHANGED <<response, subTask>>
         \/ /\ subTask' = [subTask EXCEPT ![c] =
                 IF kind = "download" THEN SendFile(r, 1) ELSE @]
            /\ response' = [response EXCEPT ![c] = Append(@, <<r, 0>>)]
            /\ Took(w, "notify", end)
  BY <1>0, <1>1 DEF Respond
<1>3. CASE Rest(w) /\ UNCHANGED <<response, subTask>>
  BY <1>2, <1>3, RestOrder
<1>4. CASE /\ subTask' = [subTask EXCEPT ![c] =
                IF kind = "download" THEN SendFile(r, 1) ELSE @]
           /\ response' = [response EXCEPT ![c] = Append(@, <<r, 0>>)]
           /\ Took(w, "notify", end)
  <2>1. /\ end \in 1 .. Len(buffer[c]) /\ end \in Nat /\ buffer[c][end].last
        /\ \A i \in 1 .. end - 1 : ~buffer[c][i].last
    <3>1. PICK m \in 0 .. Len(buffer[c]) : Handled(c) = 1 .. m
      BY HandledIs
    <3>2. end \in 1 .. m /\ buffer[c][end].last /\ Len(buffer[c]) \in Nat
      BY <3>1, SequencesAre DEF Ends
    <3>3. ASSUME NEW i \in 1 .. end - 1, buffer[c][i].last PROVE FALSE
      <4>1. i \in Ends(c) /\ i < end
        BY <3>1, <3>2, <3>3 DEF Ends
      <4> QED
        BY <1>2, <3>2, <4>1
    <3> QED
      BY <3>2, <3>3
  <2>2. /\ c \notin raced /\ Counted(worker[w], c) /\ OrderOf(c) /\ processing[c]
        /\ Due(c, 0, Handler) /\ subTask[c] = None /\ worker[w].task = Handler
    BY <1>2, AtOrder DEF Working, Ahead, Base, NamesInUse
  <2>3. PICK s \in WorkerState :
          /\ worker' = [worker EXCEPT ![w] = s]
          /\ s.pc = "notify" /\ s.c = c /\ s.took = end /\ s.task = Handler
    BY <1>2, <1>4, <2>1, <2>2, TookIs DEF At, Labels
  <2>4. /\ response'[c] = Append(response[c], <<r, 0>>)
        /\ subTask'[c] = IF kind = "download" THEN SendFile(r, 1) ELSE None
        /\ \A e \in Conn \ {c} : response'[e] = response[e] /\ subTask'[e] = subTask[e]
    BY <1>4, <2>2 DEF Base, TypeOK, ConnectionTypeOK
  <2>5. CASE d # c
    BY <1>2, <2>3, <2>4, <2>5, OthersOrder
  <2>6. CASE d = c
    <3>1. /\ Len(buffer[c]) \in Nat /\ Len(Asking(c)) \in Nat
          /\ Len(buffer[c]) <= Len(Asking(c))
          /\ \A i \in 1 .. Len(buffer[c]) : Asking(c)[i] = buffer[c][i]
      BY SequencesAre
    <3>2. /\ end \in 1 .. Len(Asking(c)) /\ end \in 1 .. Len(Asking(c)) + 1
          /\ 1 \in 1 .. Len(Asking(c)) + 1 /\ 1 <= end
          /\ \A i \in 1 .. end - 1 : i \in 1 .. Len(buffer[c])
      BY <2>1, <3>1
    <3>3. \A i \in 1 .. end - 1 : ~Asking(c)[i].last
      BY <2>1, <3>1, <3>2
    <3>4. RequestAt(c, end) = RequestAt(c, 1)
      BY <2>2, <3>2, <3>3 DEF OrderOf, StreamOK
    <3>5. /\ RequestAt(c, end) = r /\ RequestAt(c, end + 1) = r + 1
          /\ r \in DOMAIN body[c]
      <4>1. Asking(c)[end] = buffer[c][end]
        BY <2>1, <3>1
      <4>2. RequestAt(c, end) = r
        BY <1>1, <3>2, <4>1 DEF RequestAt
      <4> QED
        BY <2>1, <2>2, <3>2, <4>1, <4>2 DEF OrderOf, StreamOK
    <3>6. /\ r \in Nat \ {0} /\ body[c][r].pieces \in Nat
          /\ kind # "download" => body[c][r].pieces = 0
      BY <1>1, <3>5, RequestIs
    <3>7. RequestAt(c, 0 + 1) = r
      BY <3>4, <3>5
    <3>8. IF Answers(c) = <<>> THEN <<r, 0>> = <<1, 0>>
          ELSE <<r, 0>> = After(c, Answers(c)[Len(Answers(c))])
      BY <2>2, <3>7, HeadIsNext
    <3>9. <<r, 0>> \in AnswerPiece
      BY <3>6 DEF AnswerPiece
    <3>10. /\ Answers(c)' # <<>> /\ Answers(c)'[Len(Answers(c)')] = <<r, 0>>
           /\ InOrder(c, Answers(c))'
      BY <1>2, <2>2, <2>4, <3>8, <3>9, AnswersGrow DEF OrderOf
    <3>11. StreamOK(c)' /\ \A i : RequestAt(c, i)' = RequestAt(c, i)
      <4>1. Asking(c)' = Asking(c)
        BY <1>2 DEF Asking
      <4> QED
        BY <1>2, <2>2, <4>1, StreamKept DEF OrderOf
    <3>12. RequestAt(c, end + 1)' = r + 1
      BY <3>5, <3>11
    <3>13. kind = "download" => Due(c, end, SendFile(r, 1))'
      <4>1. SendFile(r, 1) \notin {Handler, None}
        BY <3>6, TaskIs
      <4>2. SendFile(r, 1)[2] = r /\ SendFile(r, 1)[3] - 1 = 0
        BY <3>6, TaskIs
      <4> QED
        BY <1>2, <3>5, <3>6, <3>10, <3>12, <4>1, <4>2 DEF Due
    <3>14. kind # "download" => Due(c, end, None)'
      <4>1. kind # "download" => After(c, <<r, 0>>)' = <<r + 1, 0>>
        BY <1>2, <3>6 DEF After
      <4> QED
        BY <3>10, <3>12, <4>1 DEF Due
    <3>15. WorkerDue(c, s)'
      <4>1. Ahead(c, s)' = IF kind = "download" THEN SendFile(r, 1) ELSE None
        BY <2>3, <2>4 DEF Ahead, NextPiece
      <4>2. s.took <= Len(buffer'[c])
        BY <1>2, <2>1, <2>3, <3>1
      <4> QED
        BY <2>3, <3>13, <3>14, <4>1, <4>2 DEF WorkerDue
    <3> QED
      BY <1>2, <2>2, <2>3, <2>6, <3>10, <3>11, <3>15, OwnOrder
  <2> QED
    BY <2>5, <2>6
<1> QED
  BY <1>2, <1>3, <1>4

LEMMA AppendPieceOrder ==
  ASSUME Base, TaskInv, OrderInv, NEW w \in Worker, NEW c \in Conn, AppendPiece(w, c),
         NEW d \in Conn \ raced, UNCHANGED <<got, outbox, inbox, sending>>
  PROVE  OrderOf(d)'
<1>1. PICK r, k, n : r = worker[w].task[2] /\ k = worker[w].task[3] /\ n = worker[w].took
  OBVIOUS
<1>2. /\ At(w, "send", c)
      /\ UNCHANGED <<body, buffer, processing, subTask, pushing, queue, raced>>
      /\ \/ k > body[c][r].pieces /\ Goto(w, "finish") /\ UNCHANGED response
         \/ /\ k <= body[c][r].pieces /\ Goto(w, "notify")
            /\ response' = [response EXCEPT ![c] = Append(@, <<r, k>>)]
         \/ Rest(w) /\ UNCHANGED response
  BY <1>1 DEF AppendPiece, Respond
<1>3. /\ c \notin raced /\ Counted(worker[w], c) /\ OrderOf(c) /\ processing[c]
      /\ subTask[c] = None /\ worker[w].c = c /\ n \in 0 .. Len(buffer[c])
      /\ Due(c, n, worker[w].task) /\ worker[w].task \in Task \ {Handler}
  BY <1>1, <1>2, AtOrder DEF Working, Ahead, Base, NamesInUse, WorkerState
<1>4. r \in Nat \ {0} /\ k \in Nat \ {0} /\ worker[w].task = SendFile(r, k)
  BY <1>1, <1>3, TaskIs
<1>5. /\ Answers(c) # <<>> /\ Answers(c)[Len(Answers(c))] = <<r, k - 1>>
      /\ r \in DOMAIN body[c] /\ k - 1 <= body[c][r].pieces
      /\ RequestAt(c, n + 1) = r + 1
  BY <1>1, <1>3, TaskIs DEF Due
<1>6. body[c][r].pieces \in Nat
  BY <1>5, RequestIs
<1>7. StreamOK(c)' /\ \A i : RequestAt(c, i)' = RequestAt(c, i)
  <2>1. Asking(c)' = Asking(c)
    BY <1>2 DEF Asking
  <2> QED
    BY <1>2, <1>3, <2>1, StreamKept DEF OrderOf
<1>8. CASE Rest(w) /\ UNCHANGED response
  BY <1>2, <1>8, RestOrder
<1>9. CASE k > body[c][r].pieces /\ Goto(w, "finish") /\ UNCHANGED response
  <2>1. PICK s \in WorkerState :
          worker' = [worker EXCEPT ![w] = s] /\ s.pc = "finish" /\ s.c = c /\ s.took = n
    BY <1>1, <1>3, <1>9, GotoIs DEF Labels
  <2>2. CASE d # c
    BY <1>2, <1>9, <2>1, <2>2, OthersOrder
  <2>3. CASE d = c
    <3>1. Answers(c)' = Answers(c)
      BY <1>9 DEF Answers
    <3>2. After(c, <<r, k - 1>>) = <<r + 1, 0>>
      BY <1>4, <1>6, <1>9 DEF After
    <3>3. Due(c, n, None)
      BY <1>5, <3>2 DEF Due
    <3>4. Due(c, n, None)' /\ InOrder(c, Answers(c))'
      BY <1>2, <1>3, <1>7, <3>1, <3>3, DueKept DEF OrderOf, InOrder, After
    <3>5. WorkerDue(c, s)'
      <4>1. Ahead(c, s)' = None
        BY <1>2, <1>3, <2>1 DEF Ahead
      <4>2. s.took <= Len(buffer'[c])
        BY <1>2, <1>3, <2>1, SequencesAre
      <4> QED
        BY <2>1, <3>4, <4>1, <4>2 DEF WorkerDue
    <3> QED
      BY <1>2, <1>3, <1>7, <2>1, <2>3, <3>4, <3>5, OwnOrder
  <2> QED
    BY <2>2, <2>3
<1>10. CASE /\ k <= body[c][r].pieces /\ Goto(w, "notify")
            /\ response' = [response EXCEPT ![c] = Append(@, <<r, k>>)]
  <2>0. PICK s \in WorkerState :
          /\ worker' = [worker EXCEPT ![w] = s] /\ s.pc = "notify" /\ s.c = worker[w].c
          /\ s.took = worker[w].took /\ s.task = worker[w].task
    BY <1>10, GotoIs DEF Labels
  <2>1. /\ worker' = [worker EXCEPT ![w] = s] /\ s.pc = "notify" /\ s.c = c
        /\ s.took = n /\ s.task = SendFile(r, k)
    BY <1>1, <1>3, <1>4, <2>0
  <2>2. /\ response'[c] = Append(response[c], <<r, k>>)
        /\ \A e \in Conn \ {c} : response'[e] = response[e]
    BY <1>10 DEF Base, TypeOK, ConnectionTypeOK
  <2>3. CASE d # c
    BY <1>2, <2>1, <2>2, <2>3, OthersOrder
  <2>4. CASE d = c
    <3>1. After(c, <<r, k - 1>>) = <<r, k>>
      BY <1>4, <1>6, <1>10 DEF After
    <3>2. <<r, k>> \in AnswerPiece
      BY <1>4 DEF AnswerPiece
    <3>3. /\ Answers(c)' # <<>> /\ Answers(c)'[Len(Answers(c)')] = <<r, k>>
          /\ InOrder(c, Answers(c))'
      BY <1>2, <1>3, <1>5, <2>2, <3>1, <3>2, AnswersGrow DEF OrderOf
    <3>4. RequestAt(c, n + 1)' = r + 1
      BY <1>5, <1>7
    <3>5. CASE k < body[c][r].pieces
      <4>1. k + 1 \in Nat \ {0} /\ k + 1 - 1 = k
        BY <1>4
      <4>2. /\ SendFile(r, k + 1) \notin {Handler, None}
            /\ SendFile(r, k + 1)[2] = r /\ SendFile(r, k + 1)[3] - 1 = k
        BY <1>4, <4>1, TaskIs
      <4>3. Due(c, n, SendFile(r, k + 1))'
        BY <1>2, <1>5, <1>10, <3>3, <3>4, <4>2 DEF Due
      <4>4. Ahead(c, s)' = SendFile(r, k + 1)
        BY <1>2, <1>4, <2>1, <3>5, TaskIs DEF Ahead, NextPiece
      <4>5. s.took <= Len(buffer'[c])
        BY <1>2, <1>3, <2>1, SequencesAre
      <4>6. WorkerDue(c, s)'
        BY <1>2, <1>3, <2>1, <4>3, <4>4, <4>5 DEF WorkerDue
      <4> QED
        BY <1>2, <1>3, <1>7, <2>1, <2>4, <3>3, <4>6, OwnOrder
    <3>6. CASE k = body[c][r].pieces
      <4>1. After(c, <<r, k>>)' = <<r + 1, 0>>
        BY <1>2, <1>4, <3>6 DEF After
      <4>2. Due(c, n, None)'
        BY <3>3, <3>4, <4>1 DEF Due
      <4>3. Ahead(c, s)' = None
        BY <1>2, <1>3, <1>4, <2>1, <3>6, TaskIs DEF Ahead, NextPiece
      <4>4. s.took <= Len(buffer'[c])
        BY <1>2, <1>3, <2>1, SequencesAre
      <4>5. WorkerDue(c, s)'
        BY <1>2, <1>3, <2>1, <4>2, <4>3, <4>4 DEF WorkerDue
      <4> QED
        BY <1>2, <1>3, <1>7, <2>1, <2>4, <3>3, <4>5, OwnOrder
    <3> QED
      BY <1>4, <1>6, <1>10, <3>5, <3>6
  <2> QED
    BY <2>3, <2>4
<1> QED
  BY <1>2, <1>8, <1>9, <1>10

LEMMA NotifyOrder ==
  ASSUME Base, TaskInv, OrderInv, NEW w \in Worker, NEW c \in Conn, NotifyResponse(w, c),
         NEW d \in Conn \ raced, UNCHANGED <<got, outbox, inbox, sending>>
  PROVE  OrderOf(d)'
<1>1. PICK t, n, next : t = worker[w].task /\ n = worker[w].took /\ next = NextPiece(c, t)
  OBVIOUS
<1>2. /\ At(w, "notify", c)
      /\ subTask' = [subTask EXCEPT ![c] = next] /\ Goto(w, "finish")
      /\ UNCHANGED <<body, buffer, processing, response, pushing, queue>>
  BY <1>1 DEF NotifyResponse
<1>3. /\ c \notin raced /\ Counted(worker[w], c) /\ OrderOf(c) /\ processing[c]
      /\ worker[w].c = c /\ n \in 0 .. Len(buffer[c]) /\ Due(c, n, next)
  BY <1>1, <1>2, AtOrder DEF Working, Ahead
<1>4. PICK s \in WorkerState :
        worker' = [worker EXCEPT ![w] = s] /\ s.pc = "finish" /\ s.c = c /\ s.took = n
  BY <1>1, <1>2, <1>3, GotoIs DEF Labels
<1>5. /\ subTask'[c] = next
      /\ \A e \in Conn \ {c} : subTask'[e] = subTask[e]
  BY <1>2 DEF Base, TypeOK, ConnectionTypeOK
<1>6. CASE d # c
  BY <1>2, <1>4, <1>5, <1>6, OthersOrder
<1>7. CASE d = c
  <2>1. Answers(c)' = Answers(c) /\ Asking(c)' = Asking(c)
    BY <1>2 DEF Answers, Asking
  <2>2. StreamOK(c)' /\ \A i : RequestAt(c, i)' = RequestAt(c, i)
    BY <1>2, <1>3, <2>1, StreamKept DEF OrderOf
  <2>3. Due(c, n, next)' /\ InOrder(c, Answers(c))'
    <3>1. body' = body
      BY <1>2
    <3>2. \A k, x : Due(c, k, x)' = Due(c, k, x)
      BY <2>1, <2>2, <3>1, DueKept
    <3>3. Due(c, n, next)'
      BY <1>3, <3>2
    <3> QED
      BY <1>3, <2>1, <3>1, <3>3 DEF OrderOf, InOrder, After
  <2>4. WorkerDue(c, s)'
    <3>1. Ahead(c, s)' = next
      BY <1>4, <1>5 DEF Ahead
    <3>2. s.took <= Len(buffer'[c])
      BY <1>2, <1>3, <1>4, SequencesAre
    <3> QED
      BY <1>4, <2>3, <3>1, <3>2 DEF WorkerDue
  <2> QED
    BY <1>2, <1>3, <1>4, <1>7, <2>2, <2>3, <2>4, OwnOrder
<1> QED
  BY <1>6, <1>7

\* The pieces parsed are erased.
LEMMA StreamShrinks ==
  ASSUME Base, NEW c \in Conn, StreamOK(c), NEW n \in 0 .. Len(buffer[c]),
         buffer'[c] = SubSeq(buffer[c], n + 1, Len(buffer[c])),
         UNCHANGED <<body, inbox, sending>>
  PROVE  /\ StreamOK(c)' /\ RequestAt(c, 0 + 1)' = RequestAt(c, n + 1)
<1> DEFINE m == Len(Asking(c))
           a == Asking(c)
<1>1. m \in Nat /\ Len(buffer[c]) \in Nat /\ n \in 0 .. m /\ n \in Nat
  BY SequencesAre
<1>2. /\ Len(Asking(c)') = m - n
      /\ \A i \in 1 .. m - n : Asking(c)'[i] = a[i + n]
  <2> DEFINE x == buffer[c]
             y == inbox[c]
  <2>1. x \in Seq(RequestPiece) /\ y \in Seq(RequestPiece) /\ n \in 0 .. Len(x)
    BY SequencesAre
  <2> HIDE DEF x, y
  <2>2. ASSUME NEW k \in 0 .. Len(x)
        PROVE  /\ Len(SubSeq(x, k + 1, Len(x)) \o y) = Len(x \o y) - k
               /\ \A i \in 1 .. Len(x \o y) - k :
                    (SubSeq(x, k + 1, Len(x)) \o y)[i] = (x \o y)[i + k]
    <3> DEFINE S == RequestPiece
    <3>1. x \in Seq(S)
      BY <2>1
    <3>2. y \in Seq(S)
      BY <2>1
    <3> HIDE DEF S
    <3>3. Len(SubSeq(x, k + 1, Len(x)) \o y) = Len(x \o y) - k
      BY <3>1, <3>2, DropFirst
    <3>4. \A i \in 1 .. Len(x \o y) - k :
                    (SubSeq(x, k + 1, Len(x)) \o y)[i] = (x \o y)[i + k]
      BY <3>1, <3>2, DropFirst
    <3> QED
      BY <3>3, <3>4
  <2>3. /\ Len(SubSeq(x, n + 1, Len(x)) \o y) = Len(x \o y) - n
        /\ \A i \in 1 .. Len(x \o y) - n :
             (SubSeq(x, n + 1, Len(x)) \o y)[i] = (x \o y)[i + n]
    BY <2>1, <2>2
  <2> QED
    BY <2>3 DEF Asking, x, y
<1> HIDE DEF m, a
<1>3. \A i \in 1 .. m - n : i + n \in 1 .. m
  BY <1>1
<1>4. ASSUME NEW i \in 1 .. m - n + 1 PROVE RequestAt(c, i)' = RequestAt(c, i + n)
  <2>1. CASE i \in 1 .. m - n
    <3>1. i <= m - n /\ i + n <= m
      BY <1>1, <2>1
    <3> QED
      BY <1>2, <2>1, <3>1 DEF RequestAt, m, a
  <2>2. CASE i = m - n + 1
    <3>1. ~(i <= m - n) /\ ~(i + n <= m)
      BY <1>1, <2>2
    <3> QED
      BY <1>2, <3>1 DEF RequestAt, m
  <2> QED
    BY <1>1, <2>1, <2>2
<1>5. ASSUME NEW i \in 1 .. m - n
      PROVE  /\ RequestAt(c, i)' \in DOMAIN body[c]
             /\ Asking(c)'[i].last => RequestAt(c, i + 1)' = RequestAt(c, i)' + 1
  <2>1. /\ i + n \in 1 .. m /\ i \in 1 .. m - n + 1 /\ i + 1 \in 1 .. m - n + 1
        /\ i + 1 + n = i + n + 1
    BY <1>1
  <2>2. RequestAt(c, i)' = RequestAt(c, i + n)
    BY <1>4, <2>1
  <2>3. RequestAt(c, i + 1)' = RequestAt(c, i + n + 1)
    BY <1>4, <2>1
  <2>4. /\ RequestAt(c, i + n) \in DOMAIN body[c]
        /\ a[i + n].last => RequestAt(c, i + n + 1) = RequestAt(c, i + n) + 1
    BY <2>1 DEF StreamOK, m, a
  <2> QED
    BY <1>2, <2>2, <2>3, <2>4
<1>6. ASSUME NEW i \in 1 .. m - n + 1, NEW j \in 1 .. m - n + 1, i <= j,
             \A k \in i .. j - 1 : ~Asking(c)'[k].last
      PROVE  RequestAt(c, j)' = RequestAt(c, i)'
  <2>1. /\ i + n \in 1 .. m + 1 /\ j + n \in 1 .. m + 1 /\ i + n <= j + n
    BY <1>1, <1>6
  <2>2. ASSUME NEW k \in i + n .. j + n - 1 PROVE ~a[k].last
    <3>1. k - n \in i .. j - 1 /\ k - n \in 1 .. m - n /\ k - n + n = k
      BY <1>1
    <3> QED
      BY <1>2, <1>6, <3>1
  <2>3. RequestAt(c, j + n) = RequestAt(c, i + n)
    BY <2>1, <2>2 DEF StreamOK, m, a
  <2> QED
    BY <1>4, <2>3
<1>7. StreamOK(c)'
  BY <1>2, <1>5, <1>6 DEF StreamOK
<1>8. RequestAt(c, 0 + 1)' = RequestAt(c, n + 1)
  <2>1. 1 \in 1 .. m - n + 1 /\ 0 + 1 = 1 /\ 1 + n = n + 1
    BY <1>1
  <2>2. RequestAt(c, 1)' = RequestAt(c, 1 + n)
    BY <1>4, <2>1
  <2> QED
    BY <2>1, <2>2
<1> QED
  BY <1>7, <1>8

LEMMA FinishOrder ==
  ASSUME Base, TaskInv, OrderInv, NEW w \in Worker, NEW c \in Conn, Finish(w, c),
         NEW d \in Conn \ raced, UNCHANGED <<got, outbox, inbox, sending>>
  PROVE  OrderOf(d)'
<1>1. PICK left, next, t, n :
        /\ left = LeftOf(w, c) /\ next = Successor(c, left)
        /\ t = [task |-> next, c |-> c] /\ n = worker[w].took
  OBVIOUS
<1>2. /\ At(w, "finish", c) /\ buffer' = [buffer EXCEPT ![c] = left]
      /\ UNCHANGED <<body, response, pushing, isClosed>>
      /\ \/ /\ next = None /\ processing' = [processing EXCEPT ![c] = FALSE]
            /\ Goto(w, "leave") /\ UNCHANGED <<subTask, queue>>
         \/ next # None /\ Chain(w, t) /\ UNCHANGED processing
  BY <1>1 DEF Finish
<1>3. /\ c \notin raced /\ Counted(worker[w], c) /\ OrderOf(c) /\ processing[c]
      /\ worker[w].c = c /\ n \in 0 .. Len(buffer[c]) /\ Due(c, n, subTask[c])
  BY <1>1, <1>2, AtOrder DEF Working, Ahead
<1>4. /\ left = SubSeq(buffer[c], n + 1, Len(buffer[c])) /\ buffer'[c] = left
      /\ \A e \in Conn \ {c} : buffer'[e] = buffer[e]
  BY <1>1, <1>2 DEF LeftOf, Base, TypeOK, ConnectionTypeOK
<1>5. StreamOK(c)' /\ RequestAt(c, 0 + 1)' = RequestAt(c, n + 1)
  BY <1>2, <1>3, <1>4, StreamShrinks DEF OrderOf
<1>6. Answers(c)' = Answers(c) /\ InOrder(c, Answers(c))'
  <2>1. Answers(c)' = Answers(c)
    BY <1>2 DEF Answers
  <2>2. InOrder(c, Answers(c))
    BY <1>3 DEF OrderOf
  <2>3. body' = body
    BY <1>2
  <2> QED BY <2>1, <2>2, <2>3 DEF InOrder, After
<1>7. \A x : Due(c, n, x) => Due(c, 0, x)'
  BY <1>2, <1>5, <1>6 DEF Due, After
<1>8. next \in {subTask[c], Handler} /\ (next = Handler => subTask[c] \in {None, Handler})
  BY <1>1 DEF Successor
<1>9. Due(c, n, next) /\ (next = None => Due(c, n, Handler))
  BY <1>3, <1>8 DEF Due
<1>10. Due(c, 0, next)' /\ (next = None => Due(c, 0, Handler)')
  BY <1>7, <1>9
<1>11. buffer'[c] \in Seq(RequestPiece) /\ Len(buffer'[c]) \in Nat
  BY <1>1, <1>4, LeftIsASequence, LenProperties DEF Base, TypeOK
<1>12. CASE next = None
  <2>1. PICK s \in WorkerState :
          worker' = [worker EXCEPT ![w] = s] /\ s.pc = "leave" /\ s.c = c
    BY <1>2, <1>3, <1>12, GotoIs DEF Labels
  <2>2. /\ UNCHANGED <<subTask, queue>>
        /\ \A e \in Conn \ {c} : processing'[e] = processing[e]
    BY <1>2, <1>12 DEF Base, TypeOK, ConnectionTypeOK
  <2>3. CASE d # c
    BY <1>2, <1>4, <2>1, <2>2, <2>3, OthersOrder DEF Working
  <2>4. CASE d = c
    <3>1. WorkerDue(c, s)'
      BY <2>1 DEF WorkerDue
    <3> QED
      BY <1>2, <1>3, <1>5, <1>6, <1>10, <1>12, <2>1, <2>2, <2>4, <3>1, OwnOrder
  <2> QED
    BY <2>3, <2>4
<1>13. CASE next # None
  <2>1. /\ Chain(w, t) /\ UNCHANGED processing /\ t.c = c /\ t.task = next
        /\ t \in [task : Task, c : Conn] /\ InUse(t.c)
    BY <1>1, <1>2, <1>3, <1>13, SuccessorType, AtWork DEF At
  <2>2. /\ \/ /\ worker' = [worker EXCEPT ![w] = Idle]
              /\ Len(queue) < RingCapacity /\ queue' = Append(queue, t)
              /\ subTask' = [subTask EXCEPT ![c] = next]
           \/ /\ worker' = [worker EXCEPT ![w] = Idle] /\ UNCHANGED queue
              /\ subTask' = [subTask EXCEPT ![c] = next]
           \/ /\ Begin(w, t) /\ UNCHANGED queue
    BY <2>1 DEF Chain, Rest
  <2>3. CASE /\ worker' = [worker EXCEPT ![w] = Idle]
             /\ Len(queue) < RingCapacity /\ queue' = Append(queue, t)
             /\ subTask' = [subTask EXCEPT ![c] = next]
    <3>1. CASE d # c
      <4>1. subTask'[d] = subTask[d]
        BY <2>3, <3>1 DEF Base, TypeOK, ConnectionTypeOK
      <4>2. /\ Len(queue') = Len(queue) + 1 /\ Len(queue) \in Nat
            /\ \A i \in 1 .. Len(queue) : queue'[i] = queue[i]
            /\ queue'[Len(queue')] = t
        BY <2>1, <2>3, QueueTypes, LenProperties DEF Base, TypeOK, PoolTypeOK
      <4>3. ASSUME NEW i \in 1 .. Len(queue'), queue'[i].c = d
            PROVE  \E j \in 1 .. Len(queue) : queue[j] = queue'[i]
        <5>1. i \in 1 .. Len(queue)
          BY <2>1, <3>1, <4>2, <4>3
        <5> QED
          BY <4>2, <5>1
      <4>4. Idle.pc \notin Working
        BY IdleIs DEF Working
      <4> QED
        BY <1>2, <1>4, <2>1, <2>3, <3>1, <4>1, <4>3, <4>4, OthersOrder
    <3>2. CASE d = c
      <4>1. WorkerDue(c, Idle)'
        BY IdleIs, ConnectionConstants DEF WorkerDue
      <4>2. Due(c, 0, t.task)'
        BY <1>10, <2>1
      <4> QED
        BY <1>2, <1>3, <1>5, <1>6, <2>1, <2>3, <3>2, <4>1, <4>2, OwnOrder
    <3> QED
      BY <3>1, <3>2
  <2>4. CASE /\ worker' = [worker EXCEPT ![w] = Idle] /\ UNCHANGED queue
             /\ subTask' = [subTask EXCEPT ![c] = next]
    <3>1. CASE d # c
      <4>1. subTask'[d] = subTask[d] /\ Idle.pc \notin Working
        BY <2>4, <3>1, IdleIs DEF Base, TypeOK, ConnectionTypeOK, Working
      <4> QED
        BY <1>2, <1>4, <2>1, <2>4, <3>1, <4>1, OthersOrder
    <3>2. CASE d = c
      <4>1. WorkerDue(c, Idle)'
        BY IdleIs, ConnectionConstants DEF WorkerDue
      <4> QED
        BY <1>2, <1>3, <1>5, <1>6, <2>1, <2>4, <3>2, <4>1, OwnOrder
    <3> QED
      BY <3>1, <3>2
  <2>5. CASE Begin(w, t) /\ UNCHANGED queue
    <3>1. PICK s : s = [pc |-> IF t.task = Handler THEN "parse" ELSE "send",
                        c |-> t.c, task |-> t.task, took |-> 0]
      OBVIOUS
    <3>2. /\ worker' = [worker EXCEPT ![w] = s]
          /\ subTask' = [subTask EXCEPT ![c] = None]
          /\ s.c = c /\ s.task = next /\ s.took = 0 /\ s.pc \in {"parse", "send"}
      BY <2>1, <2>5, <3>1 DEF Begin
    <3>3. /\ subTask'[c] = None
          /\ \A e \in Conn \ {c} : subTask'[e] = subTask[e]
      BY <3>2 DEF Base, TypeOK, ConnectionTypeOK
    <3>4. CASE d # c
      BY <1>2, <1>4, <2>1, <2>5, <3>2, <3>3, <3>4, OthersOrder
    <3>5. CASE d = c
      <4>1. WorkerDue(c, s)'
        <5>1. Ahead(c, s)' = next
          BY <3>2 DEF Ahead
        <5> QED
          BY <1>10, <1>11, <3>2, <3>3, <5>1 DEF WorkerDue
      <4> QED
        BY <1>2, <1>3, <1>5, <1>6, <2>1, <2>5, <3>2, <3>5, <4>1, OwnOrder
    <3> QED
      BY <3>4, <3>5
  <2> QED
    BY <2>2, <2>3, <2>4, <2>5
<1> QED
  BY <1>12, <1>13

LEMMA LeaveOrder ==
  ASSUME Base, OrderInv, NEW w \in Worker, NEW c \in Conn, Leave(w, c),
         NEW d \in Conn \ raced', UNCHANGED <<got, outbox, inbox, sending>>
  PROVE  OrderOf(d)'
<1>1. /\ At(w, "leave", c) /\ UNCHANGED <<connection, pushing, queue>>
      /\ \/ Rest(w) /\ UNCHANGED raced
         \/ raced' = raced \cup {c} /\ Goto(w, "chain")
  BY DEF Leave
<1>2. d \in Conn \ raced
  BY <1>1
<1>3. CASE Rest(w)
  BY <1>1, <1>2, <1>3, RestOrder DEF connection
<1>4. CASE raced' = raced \cup {c} /\ Goto(w, "chain")
  <2>1. PICK s \in WorkerState :
          worker' = [worker EXCEPT ![w] = s] /\ s.pc = "chain" /\ s.c = worker[w].c
    BY <1>4, GotoIs DEF Labels
  <2> QED
    BY <1>1, <1>2, <2>1, OthersOrder DEF connection, Working
<1> QED
  BY <1>1, <1>3, <1>4

LEMMA PoolStepOrder ==
  ASSUME Base, TaskInv, OrderInv, NEW w \in Worker, PoolStep(w)
  PROVE  OrderInv'
<1> SUFFICES ASSUME NEW d \in Conn \ raced' PROVE OrderOf(d)'
  BY DEF OrderInv
<1>1. WorkerStep(w) /\ UNCHANGED <<got, outbox, inbox, sending>>
  BY DEF PoolStep, network, client
<1>2. CASE Take(w)
  <2>1. UNCHANGED raced
    BY <1>2 DEF Take, history
  <2> QED
    BY <1>1, <1>2, <2>1, TakeOrder
<1>3. CASE Abandon(w)
  <2>1. /\ Rest(w) /\ UNCHANGED <<raced, body, buffer, response, subTask, processing, pushing,
                                  queue>>
    BY <1>3 DEF Abandon, history, connection
  <2> QED
    BY <1>1, <2>1, RestOrder
<1>4. ASSUME NEW c \in Conn,
             \/ ParseOn(w, c) \/ Parse(w, c) \/ AppendPiece(w, c)
             \/ NotifyResponse(w, c) \/ Finish(w, c)
      PROVE  OrderOf(d)'
  <2>1. UNCHANGED raced
    BY <1>4 DEF ParseOn, Parse, AppendPiece, NotifyResponse, Finish, history
  <2> QED
    BY <1>1, <1>4, <2>1, ParseOnOrder, ParseOrder, AppendPieceOrder, NotifyOrder, FinishOrder
<1>5. ASSUME NEW c \in Conn, Leave(w, c) PROVE OrderOf(d)'
  BY <1>1, <1>5, LeaveOrder
<1> QED
  BY <1>1, <1>2, <1>3, <1>4, <1>5 DEF WorkerStep

-----------------------------------------------------------------------------
(* The main thread                                                         *)

LEMMA NoteOrder ==
  ASSUME Base, OrderInv, Note
  PROVE  OrderInv'
<1> DEFINE n == Head(notes)
           b == connections[n.id.fd]
<1>1. /\ notes \in Seq(Notification) /\ notes # <<>>
      /\ Len(notes) \in Nat \ {0} /\ n = notes[1]
  BY EmptySeq, LenProperties DEF Note, Base, TypeOK, ServerTypeOK
<1>2. PICK d \in Conn : socket[d] = "open" /\ n.id = identifier[d]
  BY <1>1 DEF Base, NamesInUse
<1>3. n.id.fd \in NetFd /\ b \in Conn \cup {None}
  BY <1>2 DEF Base, TypeOK, ServerTypeOK, RegistryOK, Fd
<1>4. b # None => InUse(b)
  BY <1>3 DEF Base, TypeOK, RegistryOK, InUse
<1>5. /\ UNCHANGED <<body, worker, queue, subTask, processing, pushing, buffer, inbox,
                     sending, got, raced>>
      /\ UNCHANGED <<response, outbox>> \/ (b # None /\ Write(b))
  BY DEF Note, pool, history, client
<1> HIDE DEF n, b
<1>6. \A c \in Conn : Answers(c)' = Answers(c)
  <2>1. CASE UNCHANGED <<response, outbox>>
    BY <1>5, <2>1 DEF Answers
  <2>2. CASE b # None /\ Write(b)
    BY <1>4, <1>5, <2>2, WriteAnswers
  <2> QED
    BY <1>5, <2>1, <2>2
<1> QED
  BY <1>5, <1>6, ElsewhereOrder

LEMMA MainStepOrder == Base /\ TaskInv /\ OrderInv /\ MainStep => OrderInv'
<1> SUFFICES ASSUME Base, TaskInv, OrderInv, MainStep PROVE OrderInv'
  OBVIOUS
<1> DEFINE Same == UNCHANGED <<body, worker, queue, subTask, processing, pushing, buffer,
                               inbox, sending, got, raced>>
<1>1. ASSUME Same, UNCHANGED <<response, outbox>> PROVE OrderInv'
  BY <1>1, ElsewhereOrder DEF Answers
<1>2. CASE EpollWait \/ AcceptDone \/ NotesDone
  BY <1>1, <1>2 DEF EpollWait, AcceptDone, NotesDone, connectionVars, connection, pool,
                    history, network, client
<1>3. ASSUME NEW c \in Conn, Refuse(c) \/ ReadDone(c) PROVE OrderInv'
  BY <1>1, <1>3 DEF Refuse, ReadDone, connectionVars, connection, pool, history, network,
                    client
<1>4. ASSUME NEW e \in events, Dispatch(e) PROVE OrderInv'
  BY <1>1, <1>4 DEF Dispatch, connection, pool, history, network, client
<1>5. ASSUME NEW c \in Conn, Accept(c) PROVE OrderInv'
  BY <1>1, <1>5 DEF Accept, pool, history, client
<1>6. ASSUME NEW c \in Conn, ReadClosed(c) PROVE OrderInv'
  BY <1>1, <1>6 DEF ReadClosed, pool, history, network, client
<1>7. ASSUME NEW c \in Conn, WriteEvent(c) PROVE OrderInv'
  <2>1. Write(c) /\ main.pc = "write" /\ main.c = c /\ Same
    BY <1>7 DEF WriteEvent, pool, history, client
  <2>2. InUse(c)
    BY <2>1 DEF Base, NamesInUse
  <2> QED
    BY <2>1, <2>2, WriteAnswers, ElsewhereOrder
<1> QED
  BY <1>2, <1>3, <1>4, <1>5, <1>6, <1>7, NoteOrder, ReadChunkOrder, PushOrder DEF MainStep

LEMMA NextOrder == Base /\ TaskInv /\ OrderInv /\ [Next]_vars => OrderInv'
<1> SUFFICES ASSUME Base, TaskInv, OrderInv, [Next]_vars PROVE OrderInv'
  OBVIOUS
<1>1. CASE UNCHANGED vars
  BY <1>1, ElsewhereOrder DEF vars, connectionVars, connection, pool, history, reactorVars,
                              network, client, Answers
<1> QED
  BY <1>1, MainStepOrder, PoolStepOrder, ClientOrder DEF Next

LEMMA InitOrder == Init => OrderInv
<1> SUFFICES ASSUME Init, NEW c \in Conn PROVE OrderOf(c)
  BY DEF OrderInv
<1>1. Answers(c) = <<>> /\ Asking(c) = <<>>
  <2>1. <<>> \o <<>> = <<>>
    BY EmptySeq, ConcatEmptySeq
  <2> QED
    BY <2>1 DEF Init, Answers, Asking
<1>2. \A i \in Nat \ {0} : RequestAt(c, i) = 1
  BY <1>1 DEF RequestAt, Init
<1>3. StreamOK(c)
  BY <1>1, <1>2 DEF StreamOK
<1>4. InOrder(c, Answers(c))
  BY <1>1 DEF InOrder
<1>5. Due(c, 0, Handler)
  BY <1>1, <1>2 DEF Due
<1>6. TasksDue(c)
  BY <1>5, ConnectionConstants DEF TasksDue, WorkerDue, Init, Idle
<1> QED
  BY <1>3, <1>4, <1>6 DEF OrderOf

\* Whatever the sizes of reads, parts, pieces and sockets and however many
\* workers there are, what reaches a client is a beginning of the answers to
\* its requests in the order of the requests: none is lost, doubled or
\* overtaken, until two workers meet in the connection.
THEOREM AnswersInOrder == Spec => []ResponsesInOrder
<1>1. Init => Base /\ TaskInv /\ OrderInv
  BY InitBase, InitTask, InitOrder
<1>2. Base /\ TaskInv /\ OrderInv /\ [Next]_vars => (Base /\ TaskInv /\ OrderInv)'
  BY NextBase, NextTask, NextOrder
<1>3. OrderInv => ResponsesInOrder
  BY DEF OrderInv, OrderOf, InOrder, Answers, ResponsesInOrder
<1> QED
  BY <1>1, <1>2, <1>3, PTL DEF Spec

=============================================================================
