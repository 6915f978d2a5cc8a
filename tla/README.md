# Mirroring System: verification project

TLA+ modules, model-checking configurations and machine-checked proofs for the three programs
of this repository: the Mirror Initiator, the Mirror Server and the Content Server.

## 1. The system

A user starts a **Mirror Initiator** with a list of requests `address:port:path:delay`. It sends
them to the **Mirror Server**, which starts one manager thread for each of the content servers
named. A manager connects to its **Content Server**, asks it with `LIST:id:delay` for every path
it serves, and pushes those that the requested path matches into a bounded work queue. A fixed
pool of worker threads pops the queue, connects to the content server in question, asks with
`FETCH:path:id` for the file and writes it under the output directory. When all the managers have
exited and the queue is drained, the Mirror Server sends the statistics to the Initiator.

| Component (source) | State | Operations | Talks to |
|---|---|---|---|
| Mirror Server main thread (`mirror_server.cpp`) | vector of requests and of managers, every flag below | accept, read the requests, start and join managers, the end-of-request barrier, report, `_var_init` | Initiator by TCP; threads by shared state |
| `mirror_manager` (`mirror_manager.cpp`) | its request, its socket, the name at hand | `init` (connect), LIST, match, push and signal | Content Server by TCP; workers by the queue |
| `worker` (`worker.cpp`) | element popped, socket, inner loop or outer loop | pop, `_fetch`, statistics, drain, barrier | Content Server by TCP; main thread by `_q_done`, `_ack` |
| shared state of the Mirror Server | `_data_queue`, `_empty`, `_full`, `_done`, `_ack`, `_q_done`, `_bytes_recvd`, `_files_recvd`, the vector for the deviation; eight mutexes, four condition variables | | |
| Content Server main thread (`content_server.cpp`) | descriptor accepted | accept, push and signal | clients by TCP; workers by the queue |
| `content_manager` (`content_manager.cpp`) | descriptor popped | LIST (walk the directory, send the names), FETCH (length, bytes, OK), the table of delays | clients by TCP |
| `hash_table` (`hash_table.cpp`) | buckets of (id, delay) | put, get | content managers, under one mutex |
| `queue` (`shared/queue.cpp`) | linked list, length, `_max` | push and pop, which throw | both servers |
| `my_vector`, `my_string`, `cmd_parser` (`shared/`) | arrays, strings, options | | everything |
| protocol helpers (`help_func.cpp`) | none | `send_ok`, `recv_ok`, `read_fname`, `mk_path`, lengths | everything that has a socket |
| Mirror Initiator (`mirror_init.cpp`) | requests, the response read so far | send, acknowledge errors, print the report | Mirror Server |

### What is hard here

* **Two flags stand for the queue.** `_empty` and `_full` are protected by mutexes of their own
  and change in other critical sections than the queue does. Between a push and its signal the
  queue has an element that `_empty` denies, and between a pop and the lowering of `_full` other
  pushes may happen. What a thread concludes from a flag may be stale.
* **Single signals.** Every push signals once, every pop outside of the inner loop signals once,
  and no thread that is woken passes the signal on.
* **The barrier between two requests.** `_done`, `_q_done` and `_ack` end a request. The workers
  live on; the main thread reads and resets everything without the locks of the workers.
* **Exceptions.** `queue::pop` and `queue::push` throw; some callers catch, some do not, and one
  catches with two mutexes locked.
* **Failures of peers.** A refused connection, a closed connection, an `ERR:` that shares a
  packet with another, an empty file, a name that fills the buffer, a string of the request that
  does not fit it.

What makes each component correct:

* Mirror Server: a report is made when, and only when, every match has been resolved; its figures
  agree with each other and with what was transferred; no thread sleeps for ever beside work; a
  request is answered; a match is not lost; a pop finds an element.
* Content Server: one thread uses a descriptor at a time, and closes it; queued connections are
  served; no mutex outlives its critical section.
* queue, vector, hash table: they implement a sequence, a sequence and a function.
* protocols: the two ends do not wait on each other, and a name or a file arrives as it was sent.
* the two servers together: a `FETCH` is served although it may reach another worker than the
  `LIST` that announced it; no connection is closed under a worker that waits; the two pools, each
  of which waits for the other in the middle of its work, do not block each other.

`PROJECT.json` lists the hazards one by one, each at its line.

## 2. The modules

| Module | Models |
|---|---|
| `Mirroring` | the abstract specification: a session is opened, files are discovered, mirrored or given up, and the session is reported once nothing is pending, with the number mirrored |
| `MirrorServer` | the Mirror Server: main thread, managers, workers, queue, flags, condition variables, statistics |
| `MirrorServerProofs` | type correctness, the barrier between two requests and the figures of the report; no sleeping worker or manager is forgotten, nor do all threads wait for each other; one worker never pops an empty queue |
| `MirrorServerRefinement` | the Mirror Server implements `Mirroring` |
| `ContentServer` | the Content Server: main thread, worker pool, queue, flags, the fate of each connection |
| `ContentServerProofs` | its type correctness, who holds a connection, its wakeups, and what it means that all workers sleep |
| `ContentData` | the abstract specification of the data its threads share: a bounded queue that throws and a table of delays |
| `LinkedData` | that data as it is built: a linked list, and buckets of two growing arrays |
| `LinkedDataProofs` | the list stays intact, the buckets stay apart, and both implement `ContentData` |
| `Transfer` | one `LIST` or `FETCH` dialogue between a thread of each server, byte by byte |
| `TransferProofs` | what is received is what was sent; which dialogues end, and which cannot |
| `System` | the Mirror Server and one Content Server, composed: `INSTANCE`s of the two modules whose dialogues are joint steps |
| `SystemProofs` | the composition implements both components; ids are known; nobody is cut off; a pool larger than the number of managers is never full of `LIST`s |
| `InitiatorSession` | the connection between an Initiator and the Mirror Server: the request, the errors of the managers, the report |
| `InitiatorSessionProofs` | its type correctness, the request, the errors, and the empty string |
| `Counting` | lemmas on finite sets and sequences: induction over them, folds, remainders |
| `MC...` | the instances of the module of that name for TLC |

### MirrorServer and the code

A step is a critical section, or the dialogue with a peer between two of them. A critical
section with no wait but that of its own condition variable is one step, since nothing it reads
or writes can be touched by others until it ends. `_f_mtx` is different: a manager holds it from
the push until it has signalled `_e_cond` (`mirror_manager.cpp:132-161`), takes `_rw_mtx` and
`_e_mtx` meanwhile, and workers take those without it. That section is the two steps `Push` and
`SignalNotEmpty`, and the workers' `LowerFull` and other managers wait in between (`FMutexFree`).
`_var_init` is seven critical sections and one step; `ReportAtQuiescence` is the reason why that
makes no difference, and it is proved.

* `master` is the position of the main thread in `mirror_server::run`, `mgr[m]` that of a manager
  (`"none"`: no such thread), `wk[w]` that of a worker. A thread in a `..._wait` state sleeps in
  `pthread_cond_wait`; a signal wakes any one of the sleepers, a broadcast all of them, and
  `SpuriousWakeup` any of them without a reason. A thread that wakes tests its condition again.
* `queue` is `_data_queue`, with elements (content server, file); `empty`, `full`, `done`, `ack`
  and `q_done` are the variables of the same names.
* `listing[m]` is what the content server has still to name. `Wanted` is the set of paths that
  `_resolver` accepts; a connection cut in the middle of a listing (`ListingCut`) reads as empty
  names, which match nothing.
* `FetchReceives`, `FetchNoSuchFile` and `FetchRefused` are the outcomes of `_fetch`: a file, a
  connection closed before the length, and a connection that failed. In the last case the code
  goes on to fetch from the descriptor it has closed and counts what comes out of that; the length
  is in `JunkBytes`.
* `_bytes_recvd` is an `int`: `WrapInt` is its addition, with `IntMax` the greatest value.
* `alive` becomes FALSE when an exception that nothing catches ends the process.

Abstracted: the text of messages, names and paths, creating directories and writing files, the
time stamps and the standard deviation, the delay a content server is told to wait.

### ContentServer and the code

`master` and `wk[w]` are the positions in `content_server::run` and `content_manager::run`, `fd` the
descriptor accepted and not yet queued, `client[w]` the one a worker serves, `conn[c]` whether it is
open. Here `_full` is written under `_q_mtx` by the main thread and under `_f_mtx` by the workers,
which is a race; the two writes are steps in either order. When `pop` throws, the handler of
`content_manager::run` continues with `_e_mtx` and `_q_mtx` locked and locks the first again: the
worker is in state `"stuck"` and nobody passes either mutex (`MutexesFree`). `LIST` and `FETCH` are
one step each, with an outcome for each path through the handler: closed, or left open by
`continue`. `table` is the set of ids that have a delay. `Refused` are those whose hash is the least
`int`: `insert_key` keeps nothing of them (`ReceiveList`) and `get_key` throws, and the handler of
the request continues with `_h_mtx` locked (`FetchThrows`, `h_free`). A worker that then reads a
well-formed `LIST` or `FETCH` waits for that mutex for ever (`AwaitTable`, state `"h_wait"`). `Kill`
is the end of the process from outside.

### Transfer and the code

`sender` is the position in `content_manager::_do_list` or `_do_fetch`, `client` that in
`mirror_manager::run` with `read_fname`, or in `worker::_fetch`. `toClient` is what has been sent
and not received, a sequence of numbers (a count or a length, one unit) and bytes; every byte has
its place in the file as its value, so that one that is lost, doubled or out of order shows.
`recv` takes all that is there up to its limit or, if `split`, any part. `max`, `bound` and
`overall` are the variables of `read_fname`: its limit shrinks when a name arrives in parts, and is
taken modulo 2^16 because it is a `uint16_t`. The loop of `_do_list` sends a name in parts of
`StrBlock` bytes and awaits an `OK` for each; that of `_do_fetch` sends blocks without waiting.
`send` of no bytes is no step, so a file of no bytes, or a name of exactly one block, leaves both
ends waiting. A file that cannot be opened (`opened`) has -1 for its length, which is sent as it is,
and no bytes. The sender may be killed (`Kill`) at any time: the receiver then reads what is on its
way and the end of the connection, or a reset, of which `recv` makes a -1 that the loops add to the
bytes that they count (`Cut`). What `atoi` makes of a buffer that was never written to is in
`Garbage`, and may be negative; a loop that reads 0 bytes for ever is the state `"spin"`.

### LinkedData and the code

`heap` is the set of `queue_node`s that are allocated, each with its links; `new` takes any free
node and `delete` gives it back, so that a link to a freed node is seen. A `my_vector` is its size
and its slots; `PushBack` enlarges it as `push` does. `keys` and `entries` are the two arrays of
vectors of the hash table. `Hash` is computed in an `int` that wraps at `IntMax`, and `abs` of the
least `int` is itself, so that its remainder is negative: such an id is never stored, and
`get_key` throws on it while its caller holds `_h_mtx` (`usable`). `result` is the last call, with
its arguments and what it returned or that it threw, in `LinkedData` and in `ContentData`: that one
implements the other says that the same calls have the same results. `remove_key` is modelled with
the rest of the table, although nothing calls it.

### System and the code

The two servers share nothing but connections. A connection is `<<s, m, None>>` for the `LIST` of
manager m of request s, or `<<s, m, f>>` for the `FETCH` of a file that it has matched. A step of
either server in which the other has no part is the action of its module, `MirrorAlone` or
`ContentAlone`; a dialogue is a step of both. `Connect` of a manager happens while some worker
serves its `LIST`, and that worker stays in its `LIST` until the manager has sent the `OK` to the
last name (`LastIsNamed`, `EndList`), which is how the one pool waits for the other. That `OK` may
be unread when the manager has exited, its request is over and the next one has begun: a worker may
then be in a `LIST` of an earlier request while those of the current one arrive. A worker of the
Mirror Server in `"fetch"` waits until a worker of the Content Server serves its connection
(`Transfer`). The Content Server may be killed, and a file may be deleted at any time. The constants
are assumed to be what each of the two modules assumes of its own (`MirrorAssumption`,
`ContentAssumption`); that `SizeOf` is 1 at least and that no id is refused leaves out what blocks a
dialogue or the table by itself, which is in `Transfer` and in `ContentServer`. Names are taken to
be shorter than a block for the same reason. An id is `(int) pthread_self()`. It is one of its own
for every manager: one that an earlier thread had would be in the table before its `LIST`.
`FetchIdKnown` is proved, so that the refusal in `HearFetch` is never taken.

### InitiatorSession and the code

`ini[c]` is the position of an Initiator in `mirror_init::run`, `master` that of the main thread in
`mirror_server::run` up to and after the managers, `mgr[i]` that of the i-th manager in
`start_manager`. `toServer[c]` and `toClient[c]` are the two directions of a TCP connection: a
stream of units that `send` appends and of which `recv` takes any part that is there (`Arriving`),
so that two sends may be read at once and a response in two parts. `recv_ok` reads two bytes, which
is one unit or less of a long string (`AfterOk`). A string of the request has `Length` pieces: one
if it fits the buffer of 1023 bytes from which the Mirror Server reads it, none if it is empty, and
more than one `recv` can take (`Buffer`) if it is longer. A string read by the server is the
sequence of the pieces that one `recv` returned: that it is a whole string is a property
(`RequestArrives`), not an assumption, and a longer string is read as two or more. What the server
then takes for an address and a port (`Address`) may be neither, and is reachable if it is those of
a content server that runs. A response is two units, the text and its `;`, because the Initiator
reads until there is a `;` and takes the first word only: what follows the first error in the same
read is lost (`Acknowledge`).

The Initiator may be killed at any point. A `recv` from it then returns 0 and leaves an empty
string, or fails and leaves the string before (`ReceiveString`); a `send` to it raises `SIGPIPE`,
which the process ignores only once a manager has run (`mirror_manager.cpp:43`, variable `ignored`).
A manager whose connection is made does what `MirrorServer` models; here it is the step `List`, and
the barrier after the managers is part of `Report`. A string of no bytes is a write of
nothing: the main thread waits for the string and the Initiator for its `OK`.

## 3. What is model-checked

| Run | Instance | Properties |
|---|---|---|
| `two_workers` | 2 workers, 1 manager, 3 files, queue of 2, 2 requests | `TypeOK`, `ReportAtQuiescence`, `ReportAgrees`, `NoLostWakeupEmpty`, `NoLostWakeupFull`, `SomeoneRuns`, `SessionEnds`, `Mirrors` |
| `one_worker` | 1 worker, 2 managers, 2 files, queue of 1, 2 requests | `SingleWorkerNeverThrows`, `NoLostWakeupFull`, `SessionEnds` |
| `content_pool` | 2 workers, 4 connections, queue of 2, 2 ids, 1 of them refused | `TypeOK`, `OneHolder`, `NoLostWakeupEmpty`, `NoLostWakeupFull`, `AcceptedIsServed` |
| `session` | 3 Initiators with requests of 2, 1 and 2 content servers, 2 strings for each, one of them empty and one of 3 pieces for a buffer of 2 | `TypeOK`, `RequestArrives`, `ReportIsComplete`, `EmptyStringBlocks`, `SessionEnds`, `RequestIsRead` |
| `transfer` | blocks of 4 bytes, files of 0 to 9 bytes and one that cannot be opened, 8 listings of names of 1 to 7 bytes, each with and without splitting | `TypeOK`, `FileArrives`, `NamesArrive`, `ClosedIsReceived`, `DialogueEnds` |
| `system` | 1 manager, 1 worker, queue of 1; 2 content workers, queue of 1; 4 files, 3 of them wanted, 1 of them removable; 2 requests | `FetchIdKnown`, `WaitedForIsOpen`, `ListsLeaveAWorker`, `RequestEnds` |
| `linked_data` | queue of 2 in 3 nodes, 3 buckets, 4 ids | `TypeOK`, `ListIsIntact`, `BucketsAgree`, `Implements` |
| `dropped_file` | 1 worker, 1 manager, queue of 2 | `MatchesAreQueued` is violated |
| `lost_ack` | 1 worker, 2 requests | `WorkersContinue` is violated |
| `two_refused` | 1 Initiator, 2 content servers that are down | `NotifiersExit` is violated |
| `empty_piece` | a file of no bytes or that cannot be opened, a name of exactly one block | `SentIsClosed` is violated |
| `pool_exhausted` | as `system`, with 1 content worker, 4 wanted files and 1 request | `QueuedIsFetched` is violated |

Bounds. `MaxSessions` is 2 where the state that one request leaves to the next matters. `Files`
exceeds `Capacity` so that managers meet a full queue; `IntMax` is 3 so that the sum of two lengths
wraps; `JunkBytes` are lengths at which the loop of `_fetch` can stop on a closed descriptor. Two
workers are enough for one to steal the element of another, and the proofs remove the bound. In
`session` the first request has two content servers that are down, the second has an empty string,
and the third has an address that does not fit the buffer, behind the strings of a content server
that runs; two of the four strings per content server show how they could run together or be cut,
since each is sent alone, and a buffer of two pieces for a string of three shows parts of it joined
to what follows. The requests come in every order.

In `transfer` the lengths lie below, at and above a block of a name (3 bytes) and one and two
blocks of a file (4 and 8 bytes); nothing depends on the block otherwise, and the proofs are for
every block. In `system` three wanted files and one that is not, with a queue of one place on each
side, are what it takes for a manager to wait for room while it holds a content worker and for a
connection to wait in the queue of the Content Server; the other content worker is the one that
serves the `FETCH`es. Two requests are what it takes for a worker to be in the `LIST` of the one
before. The Mirror Server of this run has one worker, which never ends its own
process (`OneWorkerIsSafe`): that the process ends by itself is not exercised there, that the
Content Server ends is. In `linked_data` three ids share a bucket, so that removals move elements
and the arrays are enlarged twice; the fourth hashes to the least `int`; with three nodes for a
queue of two a node is reused while a stale `_last` may still point to it.

No run uses symmetry, which is not sound for temporal properties. Deadlock is not checked in the
runs of servers: a server with no more requests stops, a process that has thrown stops, a worker may
sleep through a request (`lost_ack`) and a dialogue may block (`empty_piece`). It is checked in
`linked_data`, where some call is always possible.

Fairness (`FairSpec`) is weak fairness of each thread: threads are scheduled. In `MirrorServer`
and `ContentServer`, where a dialogue is one step, it also says that a dialogue comes to its end;
in `Transfer` and `System` nothing is assumed of the dialogues, and a thread waits as long as its
peer makes it wait. No request need arrive, no spurious wakeup need happen, no process need be
killed and no file need be deleted. Weak fairness is enough also for the threads that wait on
`_f_mtx`, which is free again after one step of its holder and which competitors take only as
often as there are files.

What the runs show:

* The barrier is right. The main thread reads and resets the shared state when every other thread
  is through, the figures it reports agree, also when refused connections are counted, and the
  server implements `Mirroring`: the reported number is that of the files resolved as mirrored since
  the session began, and none is pending.
* No wakeup is lost, although each signal wakes one thread only: a sleeping worker beside a
  queued element always has an awake worker or a signalling manager for that element, a sleeping
  manager beside a free place a worker about to signal or an awake manager. Nor do the threads of
  a request all wait for each other (`SomeoneRuns`): a manager that sleeps for room, or the main
  thread that waits for the barrier, has a thread that is neither asleep nor through, unless a
  worker missed the acknowledgement of the request before.
* With one worker the stale `_empty` is harmless (`SingleWorkerNeverThrows`). With two it is not: in
  `two_workers` one worker takes the element between its push and its signal, and the other then
  pops an empty queue (`PopThrows`), which nothing catches and which ends the process
  (`worker.cpp:80`); the properties of that run allow for it. The findings about the Mirror Server
  are a match dropped because `_full` was stale and an acknowledgement that a slow worker misses,
  which blocks the next request for ever.
* In the Content Server the same stale `_empty` makes a worker keep two mutexes, the stale `_full`
  ends the process, and a `FETCH` with an id whose hash is the least `int` leaves the mutex of the
  table locked. `AcceptedIsServed` names the three (`MutexesFree`, `alive`, `NobodyPops`) and says
  that nothing else keeps a connection from a worker; the last of them does so only when every
  worker has come to wait for that mutex.
* A request arrives as it was sent, because each string waits for the `OK` of the one before, if
  each string fits the buffer of `recv`. A longer one, such as a path of more than 1023 bytes, is
  read as two, the `OK` to its first half is taken for that to the whole, and all strings behind it
  are shifted (`mirror_server.cpp:175`): `RequestArrives`, `ReportIsComplete` and
  `EmptyStringBlocks` are stated for requests without one (`Short`), whatever the others have. A
  request with a longer string is read to its end all the same (`RequestIsRead`).
* The report follows the last error on its connection, and the Initiator that prints it has printed
  every content server that was down: managers wait for their `OK`, the main thread for them. The
  same waiting is what `two_refused` shows to block the server: two errors read together have one
  `OK`. `SessionEnds` of `InitiatorSession` is therefore stated for requests that one content server
  at most refuses; it holds also when the Initiator is killed. A request with an empty string is
  never answered (`EmptyStringBlocks`), which blocks everybody else too.
* A file arrives whole, or is known to be missing, however the network splits it. The exception is a
  Content Server that is killed before it has sent the length: a reset leaves the length
  uninitialized, and a file that never came may be counted as an empty one, but none is ever counted
  in part. A file of no bytes, a file that cannot be opened and a name of exactly 1023 bytes block
  both ends: `empty_piece` shows that the connection is not closed after what has been sent, as
  `README.txt` says it is. Names that arrive in one piece arrive as they were sent; names that do
  not are left out of `NamesArrive`, since `read_fname` sends an `OK` for each part it reads.
* The two servers work together: no `FETCH` is refused for its id, no worker that waits for a file
  that is there finds its connection closed, and a request is answered. What stops it is named in
  `RequestEnds`: the end of a process, a worker of the Content Server that has blocked itself, a
  connection left open for a file that is gone, or a pool all of whose workers are in a `LIST`
  whose manager waits for room. The last is a deadlock that `pool_exhausted` shows with one
  content worker; with more, it takes as many managers, and with more workers than managers it
  cannot happen (`ListsLeaveAWorker`). All workers may well be in a `LIST`, if some are in one of an
  earlier request: those have only their last `OK` to hear, and need nothing of the Mirror Server.
* The linked list and the hash table are the queue and the table that `ContentServer` is written
  with, but for ids whose hash is the least `int`.

`SessionEnds` of `MirrorServer` is stated for a request that meets the whole pool at the head of
its loop, since `lost_ack` shows that it fails otherwise.

Every property of a passing run has a mutant, a faulty form of one action at the head of the
module, which violates it in the same run.

## 4. What is proved

For all values of the constants, from the assumptions named in the modules (finitely many workers
and managers, a capacity that is not zero, lengths that are an `int`; a request is a sequence of
content servers, of any length; ids are sequences of numbers, also of any length). Every invariant
that a passing run checks is proved, and so are the two refinements.

* `MirrorServerProofs!TypeCorrect`: `Spec => []TypeOK`. `TypeOK` is not inductive: an element
  that a manager pushes or a worker fetches must be there. `Typed` adds that (`Holds`).
* `MirrorServerProofs!ReportIsQuiescent`: `Spec => []ReportAtQuiescence`. The inductive invariant
  `Barrier` says, in four parts: a worker in the inner loop has seen `_done`, which stays set
  until the worker is through (`Draining`); the position of the main thread fixes the flags and
  whether there are managers (`Phases`); no more workers have been counted than are behind the
  barrier, and the first of them found the queue empty (`Counted`); and the property itself. When
  the main thread leaves its wait, the count is the number of the workers, so that all of them
  are behind the barrier: an argument on cardinalities, which `WorkerMoves` makes possible (a
  step of one thread changes the number of threads in a set of states by one at most).
* `MirrorServerProofs!ReportIsRight`: `Spec => []ReportAgrees`. The three statistics are updated
  under three mutexes, one after the other, and read under none. `Agreed` says by how much they
  differ meanwhile: the files counted are the lengths recorded and those that a worker has counted
  and not yet recorded (`FilesAgree`), and the bytes are the sum of the lengths recorded and of
  those that are counted and not recorded, as an `int` (`BytesAgree`). By `Barrier` no worker has a
  file when the report is made. Both sums are folds over finite sets, of which what is used is the
  equation of one step (`IsFold`) and that it determines the fold (`FoldIsUnique`).
* `MirrorServerProofs!WorkersAreWoken` and `!ManagersAreWoken`. A thread may go to sleep only if
  there is nothing for it: while `_empty` is set, each element of the queue is one that a manager
  has yet to signal; while `_full` is set, each free place is one that a worker has yet to signal.
  These lags, `EmptyInv` and `FullInv`, are what makes the properties inductive; they hold only
  before `_done` is set, after which nobody sleeps (`Barrier` again).
* `MirrorServerProofs!OneWorkerIsSafe`: a process with one worker does not throw. With the
  flag lowered and a manager about to lower it again, the queue has two elements (`EmptyIsRight`);
  a queue with one place cannot, and there `_full` keeps the manager from its push (`OnePlace`).
* `MirrorServerProofs!NotAllWait`: `Spec => []SomeoneRuns`. From `EmptyInv`, `FullInv` and
  `Uncounted` (the main thread waits only while a worker is yet to be counted). While a manager
  sleeps on `_f_cond`: if no thread were awake, every worker would sleep on `_e_cond`, and the queue
  would hold nothing and have no free place, which a capacity that is not zero forbids. While the
  main thread waits for the barrier, `_done` is set, nobody sleeps on `_e_cond`, and the worker that
  is yet to be counted is awake.
* `MirrorServerRefinement!MirrorServerImplements`: `Spec => Mirrors`. Every step is a step of
  `Mirroring` under the mapping `Abs`, or a stutter. What has to be known is that an element is in
  one place at a time, so that resolving it takes it out of the pending ones, and discovering it
  puts it there anew. `Apart` says so: the elements in the queue and with workers are distinct
  (`Disjoint`), and what a manager has in its hand or is still to be told of is none of them
  (`Ahead`). The report takes its number when none is pending, by `Barrier`.
* `ContentServerProofs`: `TypeCorrect`; `ConnectionsAreApart`, whose invariant `Held` states
  without counting that the holders of a connection are distinct and that it is open;
  `WorkersAreWoken` and `MainThreadIsWoken`, from `Woken`, as in the Mirror Server;
  `AllAsleepIsIdle`, from `Woken` too: when every worker sleeps, the main thread does not, and the
  queue is empty but for what it is about to signal.
* `LinkedDataProofs`, for every capacity, memory, number of buckets and set of ids.
  `ListStaysIntact`: what no field says alone is that the allocated nodes are those of one path from
  `_head` to `_last`, linked forward and backward (`IsPath`); a push makes it longer by the new
  node, a pop shorter by the first. `BucketsStayApart`: every array has a place to spare (`Vector`),
  the two of a bucket are of one size, and an id is in one place at most, of the bucket of its own
  hash (`Bucket`), which `insert` keeps when it enlarges the arrays and when it replaces a delay,
  and `remove_key` when it closes the gap. `OnlyLeastIsNegative`: the hash of an id is not negative,
  or is the least `int`, so that every other id has a bucket. `TypeCorrect` follows from the two
  invariants.
* `LinkedDataProofs!DataImplementsContent`: `Spec => Implements`. A push appends to what the list
  holds and a pop removes its first: `Contents`, read along the links, is what the nodes of the
  path hold (`Walk`). What `get_key` finds of an id is its `Entry`, and `insert` changes that of one
  id. Each step of `LinkedData` is then the step of `ContentData` of its name, or a stutter.
* `TransferProofs`, for every block, listing and length. `FileIsWhole`: what has been received of a
  file and what is on its way are always its first bytes (`InStream`), whatever the sender does
  after (`FileState`); `Blocks` is the arithmetic of the last block. `NamesAreWhole`: the two ends
  of a listing of short names take turns (`NamesTurns`), so that there is an `OK` or the next
  number or name on the connection and never more. `ClosedAfterAll` and `EmptyPieceIsAwaited`
  follow from the same two invariants: a sender that has closed saw the last `OK`, which the
  client sends when it has everything; an empty piece leaves neither end a step, so that
  `EmptyPieceBlocks` (in `TransferProofs`) holds of every length where `empty_piece` shows two.
* `SystemProofs!ComponentsAreImplemented`: `Spec => MS!Spec /\ CS!Spec`, so that what is proved of
  either server alone holds of the two together. `!FetchesAreKnown`: a file is on its way through
  the Mirror Server only after the `LIST` of its manager gave the id its delay (`MirrorKnows`),
  and so is every connection that asks for a file, wherever it is in the Content Server
  (`ContentKnows`). `!NoneIsCutOff`: `Spec => []WaitedForIsOpen`. A connection that asks for a
  file is closed when the file has been sent to the worker that had its element; by `Apart`, here
  used through an instance of `MirrorServerRefinement`, nobody else had it, and nobody will
  (`Past`). `!LargePoolIsEnough`: `Spec => []ListsLeaveAWorker`. A worker in a `LIST` whose manager
  waits for room has the connection of that manager in the current request (`AwaitsRoom`), and by
  `Held` of `ContentServerProofs` (`HeldApart`, used through an instance) no two workers have the
  same one: an injection of such workers into the managers, so that a larger pool has a worker that
  is none of them. Workers in `LIST`s of earlier requests are not counted, and need not be: they
  do not wait for room.
* `InitiatorSessionProofs!RequestIsRight`: `Spec => []RequestArrives`. `Lockstep` says that the
  Initiator of a request whose strings fit (`Short`) and the main thread take turns: as long as it
  is being sent, one unit at most is on the connection, the `OK` of the last string or the next
  string (`InTurn`), and before `accept` nothing but the count (`Announced`). `recv` then returns
  that unit whatever it might return of a longer stream. Nothing is assumed of the other requests.
  `TypeCorrect` of this module rests on it too: an address that is sent back in an error is one that
  was received.
* `InitiatorSessionProofs!ReportIsRight`: `Spec => []ReportIsComplete`. Errors may be lost: the
  Initiator prints the first of those it reads together. `Errors` shows why no report follows such
  a loss. `Shaped`: what is unread is errors and ends in turn, an end last, so that the parity of
  the distance from the end tells them apart. `Balanced`: there are at least as many managers
  waiting as `OK`s on their way or to be sent (`Owed`), and more if an error was lost, since one
  `OK` for L units gives up L/2 of them. When all managers have exited, nothing is owed and
  nothing was lost, so that all errors are printed when the report is sent (`AllPrinted`).
* `InitiatorSessionProofs!EmptyStringIsNotReceived`: `Spec => []EmptyStringBlocks`. While the
  Initiator is there, only strings with something in them are received (`Substantial`), so that the
  main thread never gets past the empty one. That the others fit the buffer is needed: the rest of a
  longer one would be taken for it.

`Counting` has the lemmas on finite sets and sequences that several of them use. The theorems on
induction of the library take the predicate as an operator, which the provers cannot instantiate;
`NatInductionInSet` and `SubsetInduction` take the set of the numbers, or subsets, that satisfy it,
and are proved from the least one that does not (`LeastNat`, `LeastSubset`). This is how the folds
of `ReportAgrees` and `Hash` and the recursive functions `Contents` and `Walk` are reasoned about.

Model-checked only: every liveness property (`SessionEnds` of both modules, `AcceptedIsServed`,
`RequestIsRead`, `DialogueEnds`, `RequestEnds`), since the prover has neither fairness nor
`ENABLED`. What a proof can say in their place, that nobody waits for a thread that waits for him,
is `WorkersAreWoken`, `ManagersAreWoken`, `NotAllWait`, `AllAsleepIsIdle` and `LargePoolIsEnough`.

## 5. Not modelled, and the plan

* `hf::mk_path`, which creates directories through `my_string::split` and `strtok`: its state is
  shared by all workers, a data race whose outcomes are those of the C library. Directories and
  the files written to them are not modelled, so that no property would tell the outcomes apart.
* Descriptor numbers. A connection is named by its peer; that `_make_con` closes a descriptor that
  `_fetch` goes on to use and to close again (`worker.cpp:119`), and that a manager never closes its
  own, would need the table of descriptors of the process.
* The directory walk of the Content Server, including that a plain file that is offered is listed
  by its whole path and not found again: it is the set of files that it finds, in an order of its
  own.
* `my_vector`: its copies, `clear`, `remove`, `join` and `sublist`; elsewhere than in the hash table
  a vector is a local variable of one thread and is taken for a sequence.
* `my_string` (formatting and search), `cmd_parser` and the `main` functions, which are sequential
  and have no state to relate; `recv_num_blocks`, which nothing calls; the time stamps and the
  standard deviation of the report.

What could follow, in this order: names in
several parts in `NamesArrive`, once it is settled what `read_fname` is to do with them; a table of
descriptors in `MirrorServer`; a module for `mk_path` with the directories it makes; a composition
with two Content Servers.
