# CloudBackupSystem in TLA+

A verification project for the cloud backup server of this repository: TLA+
modules translated from its C++ sources, TLC runs that check them on small
instances, and TLAPS proofs of their main properties for every instance.
`PROJECT.json` lists, for every definition, the lines of the source it models.

## 1. The system

The server is one process with three kinds of thread.

| Part | Where | State | Operations |
|---|---|---|---|
| Reactor (main thread) | `cloud_backup_server.hpp` | epoll set, connections by descriptor, notification pipe | accept, read, write, close, notifications |
| Thread pool | `ThreadPool.hpp` | ring of tasks, two positions, two semaphores, two mutexes | `push`, `try_push`, `ThreadRUN` |
| Connection | `HTTPconnection.hpp` | request and response buffers, `_is_processing`, `_is_closed`, `_sub_task`, parser state | parser callbacks, `handler`, `sendFile` |
| Multipart parser | `HTTPconnection.hpp` 338-420 | `_request_body`, `_cur_upload_file`, `_upload_success_files`, `_upload_fail_files` | `on_body`, the loop of `process_upload_body`, the verdict; begin, append, end or give up a part |
| Data manager | `data_manager.hpp` | `_hash`, the backup directory, `_is_dirty` | `Register`, `Deregister`, `Insert`, `Delete`, queries |
| Index and storage thread | `data_manager.hpp` 330-465 | the index file, the thread's snapshot | snapshot, clear, append; load and verify at start-up |
| LRU list | `data_manager.hpp` 36-120 | `_next`, `_prev`, `_file_pre_content`, `_size` | `MoveToHead`, `PushToHead`, `Remove`, `RemoveTail` |
| Utilities, configuration, log | `util.hpp`, `config.hpp`, `log.hpp` | none of their own | wrappers of system calls, string functions |

How they interact: the reactor reads bytes into a connection's request buffer
and, if the connection is not being processed, pushes its `handler` to the pool.
A worker feeds the buffer to llhttp, whose callbacks call the data manager and
the file system; at the end of a task the worker puts the next task of the
connection (`_sub_task`) into the pool with `try_push`, or runs it itself when
the ring is full. Workers tell the reactor through the pipe that there is
something to send or that a connection has to be closed. The data manager wakes
its storage thread after every change of what is published.

What is hard here, and what correctness means:

- **Data manager.** Uploads take many calls; names are claimed by a `nullptr`
  entry. Registry, directory and index are three copies of one truth, changed at
  different times, with crashes and failing calls between. Correct: one uploader
  per name, directory and registry agree, the index catches up, published bytes
  do not change.
- **Thread pool.** Producers and workers hold *different* mutexes; only two
  counting semaphores keep them off each other's slots. Correct: no two threads
  on one slot, a FIFO queue, every task served.
- **LRU list.** Raw pointers into nodes owned elsewhere. Correct: the list is one
  ring of at most `_capacity` nodes, each owned by the registry, and what leaves
  it is the least recently used.
- **Downloads.** A download comes back piece by piece, by *name*, to a cache and
  a directory that uploads and deletions change meanwhile. Correct: exact bytes,
  and an end.
- **Connection.** A chain of tasks guarded by a flag and a mutex, with some
  accesses outside it. Correct: a connection has one task while the flag is set
  and none while it is not, buffered data always has a task, pipelined requests
  are answered in order, each once.
- **Reactor.** Edge-triggered events, a socket that takes part of a write, a
  bounded pipe and ring with threads that wait on both ends, descriptors that are
  reused while notifications about their last owner are on the way. Correct:
  whatever is in a response buffer is announced or armed, a connection is closed
  for a reason of its own, every client is served in the end.
- **Multipart parser.** A body is cut anywhere, and what may be the beginning of a
  delimiter must wait for the next cut. Correct: each part is refused, given up or
  stored byte for byte, whatever the cuts, and the answer says which.

`PROJECT.json` lists the places where these bite under "hazards".

## 2. The modules

```
DataManager <- BackupStore ......... refines BackupCatalog
                 ^    ^--- BackupStoreProofs
                 MCBackupStore <- MCRestart
ThreadPool ......................... refines TaskQueue
   ^    ^--- ThreadPoolProofs
   MCThreadPool
DataManagerList <- FileCache ....... refines LRUCache
   |                  ^--- FileCacheProofs (with DataManagerListProofs)
   |                  MCFileCache
   '---- Download <- MCDownload
            ^--- DownloadProofs (with DataManagerListProofs)
Connection <- Reactor <- MCReactor
                 ^--- ReactorProofs <- ReactorResponseProofs
Multipart <- MCMultipart ........... refines UploadParts
   ^--- MultipartProofs
```

(`<-` is EXTENDS, "refines" an `INSTANCE ... WITH` checked as a PROPERTY.)

**DataManager** is `src/data_manager.hpp` without the LRU list. `hash[f]` is the
entry of `_hash`: `Absent`, `Pending` (the `nullptr` of an upload) or the record
`[size, time]`. `disk[f]` is the file's bytes or `NoFile`. `index` is what the
index file says when decoded: records, `Empty` after `Clear`, `Torn` while
`AppendContent` runs. Every method holds `_rwlock` exclusively from start to end
and is one action. The storage thread holds the lock only for its snapshot and is
four steps (`StoreSnapshot`, `StoreClear`, `StoreAppend`, `StoreDone`), of which
those that write may fail (`StoreFails`). With nothing to store it goes to sleep in its
condition variable (`StoreSleep`), from which only `NotifyAll`, in `Insert` and
`Delete`, or a spurious wake-up (`StoreWakesUp`) brings it back. `Restart` is
`LoadFromFile` and `VerifyFileLegality`. A removal either happens or throws where nobody
catches (`fs::remove`, `util.hpp:205`): a refused one is a crash, `DMCrash` or, at
start-up with some of the files removed, `RestartDies`. `ioFailed` is a history
variable: which kinds of file operation have failed so far.

**BackupStore** composes it with the connections: `cur[c]` is
`_cur_upload_file`; registering, each `AppendContent`, `GetFileSize` and `Insert`
of a part are separate steps of a connection because a worker does them one after
the other with nothing locked in between. `NewMessage` is `on_message_begin`,
which drops an unfinished upload without `Deregister`; `CloseConn` is
`~HTTPMessageInfo`, which does call it. `Crash` keeps files and drops memory.
`AppendPart` is an `AppendContent` that returns true, which it also does when the
end of its bytes is lost: `util.hpp:123-131` asks the stream before `close()` writes its buffer
out, and nobody looks at the stream afterwards.

**BackupCatalog** is what the outside may rely on during one run: a name is
claimed by one upload, published once or withdrawn, its content never changes,
and it can only be removed. The refinement mapping shows a published name as the
file's *bytes*, so a write to a published file by anybody breaks it.

**ThreadPool** has one action for each semaphore operation, each locking of a
mutex and each body under it; the unlock ends the body. Producers are the main
thread (`push`, `MainPush` and `WaitFree`) and the workers (`TryPush`,
`TryPushFails`, where the worker runs the successor itself). Tasks are model
values that are created once. **TaskQueue** is the bounded FIFO queue it refines.

**DataManagerList** has the operations of the list as functions from list to
list over `next`, `prev`, `content`, `size`, assignment by assignment.
**FileCache** applies them under the calls of `DataManager`, each of which
holds `_list_mutex`. **LRUCache** is the cache it refines; its `last` (the node of
the last call) makes a use visible that changes nothing else, so that a use which
fails to move its node is not a stuttering step.

**Download** is `process_download_request` and `sendFile` over that list and a
small version of the registry with uploads and deletions. A download keeps the
node it was requested for but reads the cache and the directory by name. Its
steps are: choose the cache or the disk (`CacheHit`, `CacheMiss`), read
(`Read`, `ReadFails`), cache (`Put`, `PutFails`), queue the piece and go on
(`Respond`). A byte is the pair of the upload it came from and its position, so a
property can tell the bytes of two files of one name apart.

**Connection** is the tasks of a connection. A worker walks through `handler`
(`Take`, `Parse` or `ParseOn`, `NotifyResponse`, `Finish`, `Leave`) or `sendFile` (`Take`,
`AppendPiece`, `NotifyResponse`, `Finish`, `Leave`): one step for each access to something another
thread reads or writes. `Finish` is the critical section that erases
the parsed bytes and either clears `_is_processing` or chooses the successor, together with
`try_push` or the direct call that follows: while `_is_processing` is set nobody
else starts a chain, so that nobody can tell the two apart. `Leave` is the look at
`_sub_task` *after* a chain has ended, outside the mutex: it may see the
successor of a newer chain. From then on two workers share a parser, which is
undefined behaviour; such a connection is put into `raced` and followed no
further. A piece of a request says which request it is of and whether it is the
last; a response is its head and the pieces of its file. What the requests ask of
the data manager is left to `BackupStore` and `Download`.

**Reactor** adds the main thread, the kernel and the clients. `ready` is epoll's
edge-triggered ready list: a descriptor is put there when data, a FIN or awaited
room arrives, by `EPOLL_CTL_ADD` and `EPOLL_CTL_MOD` if there is an event then, and taken from there by
`EpollWait`. The batch is dispatched one event at a time (`Dispatch`), in any
order, as nothing fixes the order of the list. Each handler of the main thread is an action or, where it
meets other threads, several: `ReadChunk` and `ReadPush` (`push` may block with
`_request_mutex` held), `ReadDone`, `ReadClosed`; `Accept`, `Refuse`, `AcceptDone`; `Note` for
each notification; `WriteEvent`. The lowest free descriptor is used again, with
the next use count. `PoolStep` composes a worker's step with what it does to
epoll: a write to the pipe is an event. The ring is the bounded FIFO queue that
`ThreadPool` is shown to implement, not its semaphores. `cut` and `unarmed` are history: which
connections have had their last write cut, and which met a full socket while
nobody had asked for EPOLLOUT; `namesakes` are the connections that were given an identifier
which a notification or a worker's task still had.

**Multipart** is `on_body`, `process_upload_body` and `process_upload_request` over
bodies of symbols. One action is one pass through the loop; `OnBody(n)` takes the
next n symbols, so that every cut of a body is a behaviour. A delimiter is
two symbols and the line break in front of it two more, so that each can be cut anywhere; the
line of a head with the file's name is one. `Symbol` is whatever bodies are made of, the
symbols of delimiters and the file names among it. A content does not contain the
delimiter (`UploadBodies`), as multipart/form-data requires. Whether `check_filename` or `Register` refuses a part is
free, except that `Register` refuses a name stored before in the same request.
`data` is the file; `given` is history, what `AppendContent` was given for it since
`Register`: the two differ once a piece was lost in `close()`.
**UploadParts** is what the parser promises: parts in order, each refused, begun, given to be
written in pieces that are a prefix of its content, and listed as stored when it was given
whole, or given up. Whether the file system keeps what it is given is not the parser's promise.

Names, contents, tasks and connections are model values; message texts, logging
and path strings are left out. Each module states the mutants of its code that
its properties were tried on, each marked "Mutant".

## 3. The runs

| Run | Instance | What it shows |
|---|---|---|
| `backup_store` | 1 name, 2 connections, files of at most 2 bytes, 2 times | Type; `UploadExclusive`; `DirectoryMatchesRegistry`; `QuietIndexRecoversAll`; `PublishedSizeIsRight`; `ImplementsCatalog`; `EveryChangeIsStored`, over failures, crashes and restarts |
| `recover_violation` | 1 name | after a crash an old record can be attached to a new file |
| `restart_violation` | 1 name | a crash while the index is empty costs every saved backup |
| `thread_pool` | 2 workers, ring of 2, 5 tasks | `NoSlotRace`, `PermitsMatchSlots`, `ImplementsQueue`, `QueuedTaskIsServed` |
| `file_cache` | 4 nodes, capacity 3, 2 contents | `ListIsSound`, `ImplementsLRU` |
| `download` | 2 connections, 2 names, 2 nodes, files of at most 2 bytes, pieces of 1 | `LinkedNodesAreOwned`, `BodiesAreExact`, `ResponsesAreWhole`, `DownloadEnds` |
| `content_length_violation` | 1 connection, 1 name, 2 nodes, pieces of 2 | a response may have more bytes than its Content-Length says |
| `stale_cache_violation` | 1 connection, 1 name, 2 nodes | the beginning of a deleted file may be cached for its successor |
| `server` | 3 clients, 2 workers, ring of 1, sockets of 1 piece, 3 descriptors, 2 use counts, 4 scenarios | `ProcessingMeansOneTask`, `BufferedDataHasATask`, `ResponsesInOrder`, `ResponsesAreAnnounced`, `ClosesAreAsked`, `EveryRequestIsAnswered` |
| `two_tasks_violation` | 1 client, 2 workers | two workers can go on with one connection |
| `stall_violation` | 1 client, 1 worker, a file in 2 pieces | a response may never be sent although its client reads |
| `multipart` | bodies of 0 to 2 parts, 4 contents, cuts of 1, 2, 5 and all, whole or 6 symbols short | `ImplementsParts`, `AnswerTellsTheOutcome`, `EveryUploadIsAnswered` |

**Bounds.** `MaxLen` bounds the length of a file, `Time` the clock, `Task` and
`Node` the number of tasks and uploads of a behaviour; nothing else is cut. Two
connections are enough for a conflict over one name. `backup_store` has one name,
because liveness over two is out of TLC's reach; that operations on one name leave
the others alone is part of the theorems, which hold for any number of names. Five tasks through a ring of two make both
positions wrap twice with the ring full and empty. Four nodes over three places
give first, middle and last positions and an eviction. Files of two bytes in pieces of
one give a cached first piece, a read second piece and a range that starts inside
the file; two nodes over two names give the eviction of one by the other.

In `server`, a ring of one slot makes `push` block and `try_push` fail; a pipe of one
notification (65536 bytes in the code) makes workers wait for the main thread; a socket of one
piece cuts writes, and a head with one piece of a file is already more than it holds; `HandleSize`
and `ReadSize` of two give requests read whole, in part, and two at once. The scenarios are a request
pipelined behind a download, two requests in a row of which the second asks for an
empty file, two clients at once, one of which sends what is no HTTP, and three such clients; client
`c2` may leave at any time and its descriptor is given to the next one. The use count wraps
at two (10000 in the code), so that the third of three connections on one descriptor has the identifier of the
first: the run reaches states in which it is closed by a notification about that one. Main thread and workers
all waiting for each other takes more connections than workers and slots, see section 5. In `multipart`, cuts of one symbol reach every
position; larger ones leave several delimiters, heads and files to one call.
Contents include one that ends in a line break, one with the first symbol of a
delimiter and none at all.

**Fairness.** `BackupStore`: weak fairness of the storage thread, which the
operating system schedules and which blocks on nothing but its condition;
nothing is assumed about clients. `ThreadPool`: weak fairness of each thread
inside the pool, since critical sections are finite and tasks return. A blocked
`push` of the main thread is given no fairness and no property: workers may take
every free slot first with `try_push`, so the code does not promise that `push`
returns. `Download`: weak fairness of each `sendFile`, which queues itself and
which the pool serves (`QueuedTaskIsServed`).

`Reactor`: weak fairness of the main thread, of each worker, and of each client's
reading; nothing is assumed of what clients send. A blocked `push` or write to the pipe
needs no fairness of its own: in this instance the other side always makes room. `Multipart`: weak fairness of the worker's
loop and of the body, whose sender is waiting for the answer.

**Deadlock** is not checked where a behaviour may end: the server may fail to
start, all tasks may have run, all nodes may have been used, all requests may have
been answered.

### What the violations say

- `RecordsFitTheirFiles` (`data_manager.hpp:399`): verification at start-up compares
  names only, although the comment at line 385 says it ensures the saved
  information and the files are legal.
- `SavedBackupsSurvive` (`data_manager.hpp:454`): the index is emptied before it is
  written; a crash in between makes the next start remove every backup file.
- `LengthIsAsPromised` (`HTTPconnection.hpp:674`): the cached beginning of a file is sent uncut,
  also when less of it was asked for and `Content-Length` (line 476) says so.
- `CachedContentIsTheBeginning` (`data_manager.hpp:310`): read and `PutFilePreContent`
  are two steps, the second by name, so the node of a new upload can be given the
  beginning of the old one.
- `OneTaskPerConnection` (`HTTPconnection.hpp:619`, and 689): a task that has ended its chain
  still reads `_sub_task`, without the mutex. If a new chain has set it by then,
  the old worker goes on with the new chain's successor, and two workers process one connection.
- `EverythingIsSent` (`cloud_backup_server.hpp:317`): a first write that fits the
  socket exactly leaves no EPOLLOUT behind; the next one finds the socket full and
  returns. No event will ever report the room, unless another notification for
  this connection happens to come.

The passing properties of `Reactor` leave out the connections in `raced` and
`unarmed` because of the last two, and only those.

The passing properties of `Download` about bytes and ends are stated for names of which no file has been
deleted so far, and `ResponsesAreWhole` and the upper bound of `BodiesAreExact` except the
response that is one cached beginning (`OneCachedPiece`), because of `LengthIsAsPromised`. Deletions
matter for two reasons. One is `CachedContentIsTheBeginning`. The other has no run of its own:
reading past the end of a file gives an empty piece and success (`util.hpp:84-90`), so that a `sendFile`
whose file was replaced by a shorter one queues itself at the same position for ever
(`HTTPconnection.hpp:678`). The model takes these steps, and a property that every download ends
is violated in the instance of `MCLength.cfg`.

Four more passing properties have exceptions. `QuietIndexRecoversAll`
and `EveryChangeIsStored` leave out behaviours in which a write of the index failed, since
the code does not try again before the next change. `AnswerTellsTheOutcome` says nothing of a file
of which `AppendContent` lost bytes and returned true: no answer can tell of it. And a body of which only
what closes it is missing is answered with 200 while its last part is in neither list;
the property says just that (`IsCutShort`). `ClosesAreAsked` excepts a connection that was accepted
with an identifier that was still about, more than `UseTimes` connections on its descriptor; in the code
that takes a notification that stays in the pipe, or a task with a worker, while 10000 connections come and go.

## 4. The proofs

All theorems hold for every value of the constants that satisfies the named
assumptions (`UploadConstants`, `PoolConstants`, `CacheConstants` and so on),
which say that sentinels are not members of the sets they are added to, that
bounds are natural numbers, that the ring has at least one slot and that there are
finitely many workers.

**BackupStoreProofs.** The invariant is built in layers, each inductive relative
to those before: `TypeOK`; `DownIsIdle` (a dead process holds nothing);
`UploadExclusive`; `DirectoryMatchesRegistry`; `MeasuredWhileUploading`;
`SizesAreRight` (what was measured is still the file's length, and a record's
size is that of an upload that ended); `IndexFollows`. The last one is the
strengthening of `QuietIndexRecoversAll`: the property speaks of the thread at
rest only, and of behaviours without a failed write or measurement, and the states in the middle of a write have to be covered by what
its snapshot will be worth when it is written. `PublishedSizeIsRight` and
the refinement `StoreImplementsCatalog` follow step by step from the invariant.

**ThreadPoolProofs.** `NoSlotRace` is not inductive. What carries it is
`PermitsMatchSlots`: free slots, ready tasks and the permits in the hands of threads between
two semaphore operations add up to the capacity, and the tasks are contiguous
from `_consumer_pos`. Then a producer in its critical section has an empty slot at
`_productor_pos` and a worker in its own a full one at `_consumer_pos`. Around it
stand `MutexesHeld` (who is in a critical section holds its mutex) and
`HasTask`. With `EntersOnce` (a task is in one place and enters once) the
refinement `PoolImplementsQueue` follows. `CountChange` is the one lemma on
cardinalities all steps use.

**DataManagerListProofs, FileCacheProofs.** `ListIsSound` says there *is* a
sequence of `_size` nodes whose ring the links are. Every operation is a removal
(`UnlinkRing`), an insertion behind the guard (`LinkRing`), or the one and then the
other (`MoveFacts`), and each lemma gives the sequence of the result. Type and ring are
proved together, since `_size` is decremented only for nodes the ring goes through.

`CacheImplementsLRU` is the refinement. `LRUCache` holds *the* sequence of linked nodes, so
there must be only one: two rings of one list agree at their first place and follow the
same links, and were there places where they differ there would be a least one
(`RingIsUnique`; `NatMin` takes that least number from the well-foundedness of `<`). Then
each operation of the list is shown to do to that sequence what the cache does
(`UnlinkedHeld`, `PushedHeld`, `MovedHeld`), and each call to be one step of the cache.

**DownloadProofs.** `BodiesAreExact` is about what a connection has gathered;
it holds because of where the bytes come from. The invariant says, layer by
layer: an entry's node is its own and an upload's node nobody else's yet
(`WritersAreNew`); linked nodes have an owner (`LinkedNodesAreOwned`); a file holds
the bytes of its upload (`FilesAreExact`); what is cached for a node is the
beginning of its file (`CacheIsExact`); and a download's body and piece follow each
other from its first byte on and end where they should or are one cached beginning
(`DownloadIsExact`). `ResponsesAreWhole` is read off the step that ends a response. The last two need each other:
`Put` caches a piece a download has read, `CacheHit` gives it to another. All of it
is claimed for names that were never deleted; `stale_cache_violation` shows why. That a new
node's content is empty (`UnlinkedIsEmpty`) is a fact about the ring.

**ReactorProofs, ReactorResponseProofs.** Five invariants, each inductive, the later
ones together with the first; the first two are in `ReactorProofs`.
- `Base` (`TypeCorrect`) is the type, with the registry of descriptors, and what makes it inductive:
  tasks, notifications and the main thread only name connections that have been
  accepted (`NamesInUse`), and a socket holds what it has room for.
- `TaskInv` counts: while `_is_processing` is set, the tasks in the workers, in the ring and in
  the main thread's hand are one. Both `ProcessingIsOneTask` and `BufferedDataIsParsed` are its
  parts; neither is inductive without the other, as the end of a chain looks at the buffer
  and a new chunk at the flag. Counting takes a lemma for each place
  a task can move to or from (`TasksChange`, `QueueGrows`, `QueueShrinks`).
- `ResponseInv` (`ResponsesOnTheirWay`): EPOLLOUT is asked for exactly while the last write was cut, and a response
  that is neither announced nor armed is one the exception `unarmed` names.
- `CloseInv` (`ClosedOnlyWhenAsked`): until the use counts of a descriptor wrap they count its connections,
  so that two connections with one identifier have more than `UseTimes` on their descriptor (`IdInv`). A
  notification that asks for a close names a connection one of whose tasks asked for it
  (`AskedFor`); and a connection that is open and not in `namesakes` or `asked` is named by no such
  notification, nor has a worker a task of another connection with its identifier (`Unnamed`).
  Nothing is assumed of the number of connections or of use counts.
- `OrderInv` (`AnswersInOrder`) says what the only task of a connection is going to answer next
  (`Due`): the requests in buffer and socket follow each other (`StreamOK`), the pieces a worker has
  parsed and not yet erased are whole requests or the beginning of one, and the last piece answered is the one
  before. `ResponsesInOrder` alone says nothing of what comes next. It rests on `TaskInv`:
  with two tasks for one connection there is no next.

**MultipartProofs.** A body is a `FlattenSeq` of its parts, so the proof begins with what
that is: concatenations that each prolong the one before (`FlattenProperties`; that they
exist for every number of parts is once more a least counterexample). From this follows
where part k begins (`Start`), that a part is nine symbols, its content and two more, and
that a delimiter is found at the beginnings of parts and of what closes the body and nowhere
else (`BoundariesOfBody`), since no content has one and a line break separates them. The
searches of `process_upload_body` then find what they ought to: the next delimiter
(`NextBoundary`), the end of the head and the name before it (`HeadOfPart`), the end of the
content (`NextFileEnd`).

The inductive invariant says where in the body the parser is. `Counted`: the lists of
stored and of failed files together are the parts taken so far, in order. `PlacedAt(p)`: `_request_body` is
the body from position p on and the input follows it; between parts, p is behind the beginning
of the last content and not behind the beginning of the next part; within a part, `AppendContent` was
given exactly the bytes of the content before p. Outside the loop too little is left to find anything
in it, or only the beginning of a head. `Judged` and `Written` say what was answered early
and what is in the files. `PlaceCorrect` proves it with one lemma for each action,
`UploadImplementsParts` reads each step as one of the promised ones, and `AnswersTellTheOutcome`
shows that at the end of a body no part is left, or the last one is open and the body ends no later
than behind its content (`NearTheEnd`, `OpenAtTheEnd`). The last theorem has the hypothesis
`OnlyClosingIsMissing`: `on_message_complete` has no way to tell that a whole part is missing, and would
answer for those it has seen. The run's bodies satisfy it (`Missing = {0, 6}`); the other
theorems hold without it.

**Model-checked only.** Liveness (`EveryChangeIsStored`, `QueuedTaskIsServed`,
`DownloadEnds`, `EveryRequestIsAnswered`, `EveryUploadIsAnswered`): the prover does not
reason about fairness. The violations, which are single behaviours. Every invariant and
every refinement the passing runs check is also a theorem. Where a proof goes over
a sequence of any length, it does so by a least counterexample, since the induction
theorems of the library cannot be used here.

## 5. What is not modelled

- In `Connection` and `Reactor`: what follows once two workers share a parser.
- Modelled, but outside the bounds of the runs, as no statement of the repository is about it: with
  more connections than workers and slots together, ring and pipe can be full at once, the main thread inside `push`
  and every worker in a write to the pipe, whose end for writing blocks. Nobody
  moves again. With three connections, one worker, a ring and a pipe of one each TLC reaches this state
  (`[]<>(main.pc = "loop")` fails after 617,459 states); in the code it takes thousands of unread notifications.
- A lack of descriptors, on which
  `Accepter` would spin (`cloud_backup_server.hpp:149`); read errors other than a
  peer that has closed or reset; a failing write to the pipe; notifications cut in
  two by a read, since the rest stays in the buffer for the next one; `epoll_wait` returning part of the list.
- A client that closes only its sending side: to `NetReader` it is one that has left.
- In `Multipart`: a content with the delimiter in it; a head without its closing quote, which
  is a head without a name.
- Failures at start-up: of `GetContent`, where the process exits before it serves
  anybody, and of `ScanDirectory`, where the verification is skipped.
- In `Download`: restarts (a download does not survive one) and the pool between
  two pieces. `Read` is one step: it holds the node's `_rwlock` shared, and a
  deletion takes it exclusively. Uploads of a name are one byte at a time.
- `ETag` and header parsing: whether a range counts and what it says is a free
  choice of `Request`.
- Path normalisation, URL decoding and JSON text: pure string functions.
- The destructors of the singletons, which run at process exit only.
- llhttp, the web client, logging, configuration.

## 6. Plan

1. A run for the state in which main thread and workers wait for each other (section 5), and
   one for a lack of descriptors, once the repository says what it expects there.
2. Deletions under a download: what a response may hold once its file is gone, if the
   repository comes to say it.
