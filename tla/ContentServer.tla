------------------------------ MODULE ContentServer ------------------------------
(***************************************************************************)
(* The Content Server process: the main thread (content_server::run)       *)
(* accepts connections and queues them, a fixed pool of worker threads     *)
(* (content_manager::run) pops and answers them.                           *)
(*                                                                         *)
(* A step is a critical section, or the dialogue with a client between two *)
(* of them.  The main thread holds one mutex at a time; a worker takes     *)
(* _q_mtx under _e_mtx to pop, and when that pop throws it goes round its  *)
(* loop without releasing either, to lock _e_mtx again: a default mutex    *)
(* then blocks its own holder.  That worker is in state "stuck" and        *)
(* _e_mtx and _q_mtx are held from then on.  _full is written under _q_mtx *)
(* by the main thread and under _f_mtx by the workers: the two writes race *)
(* and their order is that of the steps.                                   *)
(* The table of delays throws on an id whose hash is the least int, and a  *)
(* worker that asks for the delay of such an id goes round its loop with   *)
(* _h_mtx locked: whoever needs the table from then on waits for ever, in  *)
(* state "h_wait".                                                         *)
(***************************************************************************)
EXTENDS Integers, FiniteSets, SequencesExt

CONSTANTS
  Workers,      \* the worker threads; their number is the -w option
  Conns,        \* the connections that clients make
  Ids,          \* the identities mirror managers announce in LIST requests
  Refused,      \* those whose hash is the least int: LinkedData's BadIndex
  Capacity,     \* _max of the queue (256 in the program)
  None          \* no connection

ASSUME WorkersAssumption  == Workers # {} /\ IsFiniteSet(Workers)
ASSUME CapacityAssumption == Capacity \in Nat \ {0}
ASSUME RefusedAssumption  == Refused \subseteq Ids
ASSUME NoneAssumption     == None \notin Conns

VARIABLES
  master,       \* where the main thread is
  fd,           \* the connection it has accepted and not yet queued
  wk,           \* where each worker is
  client,       \* the connection a worker serves
  conn,         \* the state of each connection's descriptor
  queue,        \* _queue
  empty, full,  \* the flags
  table,        \* the ids that have a delay in _h_table
  h_free,       \* FALSE once a worker has gone on with _h_mtx locked
  alive         \* FALSE once the process has ended, by an exception or killed

vars == <<master, fd, wk, client, conn, queue, empty, full, table, h_free, alive>>

Init ==
  /\ master = "accept" /\ fd = None
  /\ wk = [w \in Workers |-> "check"]
  /\ client = [w \in Workers |-> None]
  /\ conn = [c \in Conns |-> "new"]
  /\ queue = <<>>
  /\ empty = TRUE /\ full = FALSE
  /\ table = {} /\ h_free = TRUE
  /\ alive = TRUE

\* _e_mtx and _q_mtx outlast a step only in the hands of a stuck worker.
MutexesFree == \A w \in Workers : wk[w] # "stuck"

--------------------------------------------------------------------------------
(* Faulty forms of some of the actions below, for the properties to reject. *)

SignalNotEmptySilent ==
  /\ master = "signal"
  /\ MutexesFree
  /\ empty' = FALSE
  /\ master' = "accept"
  /\ UNCHANGED <<fd, wk, client, conn, queue, full, table, h_free, alive>>

PopPeeks(w) ==
  /\ wk[w] = "check"
  /\ MutexesFree
  /\ ~empty
  /\ queue # <<>>
  /\ client' = [client EXCEPT ![w] = Head(queue)]
  /\ empty' = (Tail(queue) = <<>>)
  /\ wk' = [wk EXCEPT ![w] = "lower"]
  /\ UNCHANGED <<master, fd, conn, queue, full, table, h_free, alive>>

LowerFullSilent(w) ==
  /\ wk[w] = "lower"
  /\ full' = FALSE
  /\ wk' = [wk EXCEPT ![w] = "recv"]
  /\ UNCHANGED <<master, fd, client, conn, queue, empty, table, h_free, alive>>

SignalThenPushAgain ==
  /\ master = "signal"
  /\ MutexesFree
  /\ empty' = FALSE
  /\ LET sleepers == {w \in Workers : wk[w] = "e_wait"}
     IN  IF sleepers = {} THEN UNCHANGED wk
         ELSE \E w \in sleepers : wk' = [wk EXCEPT ![w] = "check"]
  /\ master' = "check_full"
  /\ UNCHANGED <<fd, client, conn, queue, full, table, h_free, alive>>

--------------------------------------------------------------------------------
(* The main thread. *)

Accept ==
  /\ master = "accept"
  /\ \E c \in Conns : conn[c] = "new" /\ fd' = c /\ conn' = [conn EXCEPT ![c] = "open"]
  /\ master' = "check_full"
  /\ UNCHANGED <<wk, client, queue, empty, full, table, h_free, alive>>

\* while (_full) wait; then _f_mtx is released, before the push.
CheckFull ==
  /\ master = "check_full"
  /\ master' = IF full THEN "f_wait" ELSE "push"
  /\ UNCHANGED <<fd, wk, client, conn, queue, empty, full, table, h_free, alive>>

Push ==
  /\ master = "push"
  /\ MutexesFree
  /\ Len(queue) < Capacity
  /\ queue' = Append(queue, fd)
  /\ full' = (Len(queue') = Capacity)
  /\ fd' = None
  /\ master' = "signal"
  /\ UNCHANGED <<wk, client, conn, empty, table, h_free, alive>>

\* push throws on a full queue and run catches nothing: std::terminate.
PushThrows ==
  /\ master = "push"
  /\ MutexesFree
  /\ Len(queue) = Capacity
  /\ alive' = FALSE
  /\ UNCHANGED <<master, fd, wk, client, conn, queue, empty, full, table, h_free>>

SignalNotEmpty ==
  /\ master = "signal"
  /\ MutexesFree
  /\ empty' = FALSE
  /\ LET sleepers == {w \in Workers : wk[w] = "e_wait"}
     IN  IF sleepers = {} THEN UNCHANGED wk
         ELSE \E w \in sleepers : wk' = [wk EXCEPT ![w] = "check"]
  /\ master' = "accept"
  /\ UNCHANGED <<fd, client, conn, queue, full, table, h_free, alive>>

--------------------------------------------------------------------------------
(* A worker thread. *)

WorkerSleep(w) ==
  /\ wk[w] = "check"
  /\ MutexesFree
  /\ empty
  /\ wk' = [wk EXCEPT ![w] = "e_wait"]
  /\ UNCHANGED <<master, fd, client, conn, queue, empty, full, table, h_free, alive>>

Pop(w) ==
  /\ wk[w] = "check"
  /\ MutexesFree
  /\ ~empty
  /\ queue # <<>>
  /\ client' = [client EXCEPT ![w] = Head(queue)]
  /\ queue' = Tail(queue)
  /\ empty' = (queue' = <<>>)
  /\ wk' = [wk EXCEPT ![w] = "lower"]
  /\ UNCHANGED <<master, fd, conn, full, table, h_free, alive>>

\* pop throws, and the handler continues with both mutexes locked.
PopThrows(w) ==
  /\ wk[w] = "check"
  /\ MutexesFree
  /\ ~empty
  /\ queue = <<>>
  /\ wk' = [wk EXCEPT ![w] = "stuck"]
  /\ UNCHANGED <<master, fd, client, conn, queue, empty, full, table, h_free, alive>>

LowerFull(w) ==
  /\ wk[w] = "lower"
  /\ full' = FALSE
  /\ master' = IF master = "f_wait" THEN "check_full" ELSE master
  /\ wk' = [wk EXCEPT ![w] = "recv"]
  /\ UNCHANGED <<fd, client, conn, queue, empty, table, h_free, alive>>

\* Back to the head of the loop, the connection closed or not.
Loop(w, fate) ==
  /\ wk' = [wk EXCEPT ![w] = "check"]
  /\ client' = [client EXCEPT ![w] = None]
  /\ conn' = [conn EXCEPT ![client[w]] = fate]

\* LIST:id:delay.  insert_key keeps nothing of an id that it refuses, and returns.
ReceiveList(w) ==
  /\ wk[w] = "recv"
  /\ h_free
  /\ \E id \in Ids : table' = table \cup ({id} \ Refused)
  /\ wk' = [wk EXCEPT ![w] = "list"]
  /\ UNCHANGED <<master, fd, client, conn, queue, empty, full, h_free, alive>>

\* A well-formed LIST or FETCH, and another worker, or this one, has left _h_mtx locked.
AwaitTable(w) ==
  /\ wk[w] = "recv"
  /\ ~h_free
  /\ wk' = [wk EXCEPT ![w] = "h_wait"]
  /\ UNCHANGED <<master, fd, client, conn, queue, empty, full, table, h_free, alive>>

\* _do_list, and close.
DoList(w) ==
  /\ wk[w] = "list"
  /\ Loop(w, "closed")
  /\ UNCHANGED <<master, fd, queue, empty, full, table, h_free, alive>>

\* FETCH:path:id, with an id that has a delay
ReceiveFetch(w) ==
  /\ wk[w] = "recv"
  /\ h_free /\ table # {}
  /\ wk' = [wk EXCEPT ![w] = "fetch"]
  /\ UNCHANGED <<master, fd, client, conn, queue, empty, full, table, h_free, alive>>

\* FETCH:path:id, with an id that has none: close.
FetchUnknown(w) ==
  /\ wk[w] = "recv"
  /\ h_free
  /\ \E id \in Ids \ Refused : id \notin table
  /\ Loop(w, "closed")
  /\ UNCHANGED <<master, fd, queue, empty, full, table, h_free, alive>>

\* FETCH:path:id, with an id that the table refuses: get_key throws, and the handler
\* continues without close and with _h_mtx locked.
FetchThrows(w) ==
  /\ wk[w] = "recv"
  /\ h_free /\ Refused # {}
  /\ h_free' = FALSE
  /\ Loop(w, "open")
  /\ UNCHANGED <<master, fd, queue, empty, full, table, alive>>

\* _do_fetch of a file that is there, and close.
DoFetch(w) ==
  /\ wk[w] = "fetch"
  /\ Loop(w, "closed")
  /\ UNCHANGED <<master, fd, queue, empty, full, table, h_free, alive>>

\* No file matches the path: list.at(0) throws, and the handler around the whole
\* request continues without close.
DoFetchThrows(w) ==
  /\ wk[w] = "fetch"
  /\ Loop(w, "open")
  /\ UNCHANGED <<master, fd, queue, empty, full, table, h_free, alive>>

\* A LIST without an id or a delay, or another request: close.
ReceiveRejected(w) ==
  /\ wk[w] = "recv"
  /\ Loop(w, "closed")
  /\ UNCHANGED <<master, fd, queue, empty, full, table, h_free, alive>>

\* A FETCH without an id: continue without close.
ReceiveMalformed(w) ==
  /\ wk[w] = "recv"
  /\ Loop(w, "open")
  /\ UNCHANGED <<master, fd, queue, empty, full, table, h_free, alive>>

--------------------------------------------------------------------------------
(* The process. *)

MasterStep ==
  /\ alive
  /\ CheckFull \/ Push \/ PushThrows \/ SignalNotEmpty

WorkerStep(w) ==
  /\ alive
  /\ \/ WorkerSleep(w) \/ Pop(w) \/ PopThrows(w) \/ LowerFull(w)
     \/ ReceiveList(w) \/ DoList(w) \/ ReceiveFetch(w) \/ DoFetch(w) \/ DoFetchThrows(w)
     \/ AwaitTable(w) \/ FetchUnknown(w) \/ FetchThrows(w)
     \/ ReceiveRejected(w) \/ ReceiveMalformed(w)

SpuriousWakeup ==
  /\ alive
  /\ \/ master = "f_wait" /\ master' = "check_full" /\ UNCHANGED wk
     \/ /\ \E w \in Workers : wk[w] = "e_wait" /\ wk' = [wk EXCEPT ![w] = "check"]
        /\ UNCHANGED master
  /\ UNCHANGED <<fd, client, conn, queue, empty, full, table, h_free, alive>>

\* The user ends the process.
Kill ==
  /\ alive /\ alive' = FALSE
  /\ UNCHANGED <<master, fd, wk, client, conn, queue, empty, full, table, h_free>>

Next ==
  \/ alive /\ Accept
  \/ MasterStep
  \/ \E w \in Workers : WorkerStep(w)
  \/ SpuriousWakeup \/ Kill

Spec == Init /\ [][Next]_vars

\* Every thread is scheduled, and a client that has connected sends its request
\* and takes part in the dialogue.
FairSpec == Spec /\ WF_vars(MasterStep) /\ \A w \in Workers : WF_vars(WorkerStep(w))

--------------------------------------------------------------------------------
(* Properties. *)

InWorker(states) == {w \in Workers : wk[w] \in states}

\* The type invariant.
TypeOK ==
  /\ master \in {"accept", "check_full", "f_wait", "push", "signal"}
  /\ fd \in Conns \cup {None}
  /\ wk \in [Workers -> {"check", "e_wait", "stuck", "lower", "recv", "h_wait", "list", "fetch"}]
  /\ client \in [Workers -> Conns \cup {None}]
  /\ conn \in [Conns -> {"new", "open", "closed"}]
  /\ queue \in Seq(Conns)
  /\ empty \in BOOLEAN /\ full \in BOOLEAN /\ alive \in BOOLEAN
  /\ table \subseteq Ids \ Refused /\ h_free \in BOOLEAN

\* One thread at a time uses a connection: it is the main thread's, or in the
\* queue, or a worker's, in one place only, and open as long as it is.
OneHolder ==
  \A c \in Conns :
    LET holders == {w \in Workers : client[w] = c}
        places  == {i \in DOMAIN queue : queue[i] = c}
        held    == Cardinality(holders) + Cardinality(places) + (IF fd = c THEN 1 ELSE 0)
    IN  held <= 1 /\ (held = 1 => conn[c] = "open")

\* As in the Mirror Server: while a worker sleeps on _e_cond, each queued
\* connection has a worker on its way to the queue or the main thread about to
\* signal.
NoLostWakeupEmpty ==
  InWorker({"e_wait"}) # {} =>
    Len(queue) <= Cardinality(InWorker({"check"})) + (IF master = "signal" THEN 1 ELSE 0)

\* The main thread sleeps on _f_cond only while the queue is full, or while a
\* worker for each free place is about to signal it, although _full is written
\* under two different mutexes.
NoLostWakeupFull ==
  master = "f_wait" => Capacity - Len(queue) <= Cardinality(InWorker({"lower"}))

\* Every worker waits for _h_mtx, which nobody will release.
NobodyPops == \A w \in Workers : wk[w] = "h_wait"

\* A connection that is accepted reaches a worker, unless a worker has blocked itself
\* in pop, the process has ended, or the whole pool has come to wait for the mutex of
\* the table: one worker that does not is enough.
Waits(c) == fd = c \/ c \in ToSet(queue)

AcceptedIsServed ==
  \A c \in Conns : Waits(c) ~> (~Waits(c) \/ ~MutexesFree \/ NobodyPops \/ ~alive)

================================================================================
