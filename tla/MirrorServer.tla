------------------------------ MODULE MirrorServer ------------------------------
(***************************************************************************)
(* The Mirror Server process: the main thread (mirror_server::run), one    *)
(* manager thread per content server of the current request                *)
(* (start_manager, mirror_manager::run) and the pool of worker threads     *)
(* (worker::run), which live as long as the process.                       *)
(*                                                                         *)
(* A step is a critical section, or the dialogue with a peer between two   *)
(* of them.  The sections under _e_mtx, _rw_mtx, _q_done_mtx, _ack_mtx and *)
(* the statistics mutexes contain no wait other than their own condition   *)
(* variable, so each is one step.  _f_mtx is different: a manager pushes   *)
(* under it, releases _rw_mtx, and takes _e_mtx before releasing it, so    *)
(* that section is the two steps Push and SignalNotEmpty and _f_mtx is     *)
(* held in between.  A thread that waits on a condition variable is in a   *)
(* state of its own ("e_wait", "f_wait", "q_done_wait", "ack_wait"), which *)
(* only a signal, a broadcast or a spurious wakeup leaves.                 *)
(***************************************************************************)
EXTENDS Integers, FiniteSets, SequencesExt

CONSTANTS
  Workers,      \* the worker threads; their number is the -w option
  Managers,     \* the content servers a request can name, one manager each
  Files,        \* the path names that a content server may list
  Wanted,       \* those that the requested path matches (_resolver)
  SizeOf,       \* the length of each file
  JunkBytes,    \* lengths _fetch can arrive at on a descriptor that is closed
  IntMax,       \* the largest int
  Capacity,     \* _max of the work queue (256 in the program)
  MaxSessions,  \* bound: the number of requests accepted
  None          \* no file, no item

ASSUME WorkersAssumption     == Workers # {} /\ IsFiniteSet(Workers)
ASSUME ManagersAssumption    == IsFiniteSet(Managers)
ASSUME WantedAssumption      == Wanted \subseteq Files
\* A file without bytes blocks the two ends of its transfer for ever: the
\* dialogue, in FetchReceives, is that of a file that has some.
ASSUME IntAssumption         == IntMax \in Nat
ASSUME SizeAssumption        == SizeOf \in [Files -> 1..IntMax]
ASSUME JunkAssumption        == JunkBytes \subseteq -(IntMax + 1)..IntMax
ASSUME CapacityAssumption    == Capacity \in Nat \ {0}
ASSUME MaxSessionsAssumption == MaxSessions \in Nat
ASSUME NoneAssumption        == None \notin Files /\ None \notin Managers \X Files

Items == Managers \X Files    \* "path:address:port:id", an element of the queue

VARIABLES
  master,       \* where the main thread is
  session,      \* the number of requests accepted
  mgr,          \* where each manager thread is; "none" if there is no thread
  listing,      \* the names each manager has still to receive
  hand,         \* the name that a manager is pushing
  wk,           \* where each worker thread is
  draining,     \* the worker is in the inner loop of worker::run
  item,         \* the element a worker has popped
  size,         \* the bytes it has received
  queue,        \* _data_queue
  empty, full, done, ack,             \* the flags
  q_done,       \* workers that are through with the session
  bytes_recvd, files_recvd, spread,   \* the statistics
  reply,        \* the last "OK:" message sent to the client
  alive         \* FALSE once an exception has ended the process

masterVars  == <<master, session, reply>>
managerVars == <<mgr, listing, hand>>
workerVars  == <<wk, draining, item, size>>
flagVars    == <<empty, full, done, ack, q_done>>
statVars    == <<bytes_recvd, files_recvd, spread>>
vars == <<masterVars, managerVars, workerVars, queue, flagVars, statVars, alive>>

MasterStates  == {"accept", "join", "unack", "set_done", "collect", "q_done_wait",
                  "report", "var_init", "set_ack"}
ManagerStates == {"none", "connect", "err", "names", "push", "f_wait", "signal", "exited"}
WorkerStates  == {"check", "e_wait", "lower", "fetch", "bytes", "files", "spread",
                  "drain", "q_done", "ack", "ack_wait"}

Init ==
  /\ master = "accept" /\ session = 0 /\ reply = [files |-> 0, bytes |-> 0]
  /\ mgr = [m \in Managers |-> "none"]
  /\ listing = [m \in Managers |-> {}]
  /\ hand = [m \in Managers |-> None]
  /\ wk = [w \in Workers |-> "check"]
  /\ draining = [w \in Workers |-> FALSE]
  /\ item = [w \in Workers |-> None]
  /\ size = [w \in Workers |-> 0]
  /\ queue = <<>>
  /\ empty = TRUE /\ full = FALSE /\ done = FALSE /\ ack = FALSE
  /\ q_done = 0
  /\ bytes_recvd = 0 /\ files_recvd = 0 /\ spread = <<>>
  /\ alive = TRUE

\* The value of an int after an addition that came to n.
WrapInt(n) == ((n + IntMax + 1) % (2 * IntMax + 2)) - (IntMax + 1)

--------------------------------------------------------------------------------
(* Mutexes and condition variables. *)

\* _f_mtx is held across two steps by a manager only.
FMutexFree == \A m \in Managers : mgr[m] # "signal"

\* pthread_cond_signal: pc may become this once one of the threads in state
\* waiting, if there is any, has gone on to state awake.
Signalled(pc, waiting, awake) ==
  LET sleepers == {t \in DOMAIN pc : pc[t] = waiting}
  IN  IF sleepers = {} THEN {pc} ELSE {[pc EXCEPT ![t] = awake] : t \in sleepers}

\* pthread_cond_broadcast
WakeAll(pc, waiting, awake) ==
  [t \in DOMAIN pc |-> IF pc[t] = waiting THEN awake ELSE pc[t]]

--------------------------------------------------------------------------------
(* Faulty forms of some of the actions below: a signal, a reset or a test that *)
(* a change of the code could lose.  The properties tell each of them apart    *)
(* from the action that it stands in for.                                      *)

UnackForgotten ==
  /\ master = "unack"
  /\ master' = "set_done"
  /\ UNCHANGED <<session, reply, managerVars, workerVars, queue, flagVars, statVars, alive>>

SetDoneSilent ==
  /\ master = "set_done"
  /\ done' = TRUE
  /\ master' = "collect"
  /\ UNCHANGED <<session, reply, managerVars, workerVars, queue, empty, full, ack, q_done,
                 statVars, alive>>

CollectOneEarly ==
  /\ master = "collect"
  /\ master' = IF q_done < Cardinality(Workers) - 1 THEN "q_done_wait" ELSE "report"
  /\ UNCHANGED <<session, reply, managerVars, workerVars, queue, flagVars, statVars, alive>>

VarInitKeepsSpread ==
  /\ master = "var_init"
  /\ full' = FALSE /\ empty' = TRUE /\ done' = FALSE /\ q_done' = 0
  /\ bytes_recvd' = 0 /\ files_recvd' = 0
  /\ master' = "set_ack"
  /\ UNCHANGED <<session, reply, managerVars, workerVars, queue, ack, spread, alive>>

SignalNotEmptySilent(m) ==
  /\ mgr[m] = "signal"
  /\ empty' = FALSE
  /\ mgr' = [mgr EXCEPT ![m] = "names"]
  /\ hand' = [hand EXCEPT ![m] = None]
  /\ UNCHANGED <<listing, masterVars, workerVars, queue, full, done, ack, q_done, statVars,
                 alive>>

PopItemKeepsEmpty(w) ==
  /\ wk[w] = "check"
  /\ ~empty /\ ~done
  /\ queue # <<>>
  /\ item' = [item EXCEPT ![w] = Head(queue)]
  /\ queue' = Tail(queue)
  /\ wk' = [wk EXCEPT ![w] = "lower"]
  /\ UNCHANGED <<masterVars, managerVars, draining, size, flagVars, statVars, alive>>

LowerFullSilent(w) ==
  /\ wk[w] = "lower"
  /\ FMutexFree
  /\ full' = FALSE
  /\ wk' = [wk EXCEPT ![w] = "fetch"]
  /\ UNCHANGED <<masterVars, managerVars, draining, item, size, queue, empty, done, ack,
                 q_done, statVars, alive>>

QDoneSilent(w) ==
  /\ wk[w] = "q_done"
  /\ q_done' = q_done + 1
  /\ draining' = [draining EXCEPT ![w] = FALSE]
  /\ wk' = [wk EXCEPT ![w] = "ack"]
  /\ UNCHANGED <<masterVars, managerVars, item, size, queue, empty, full, done, ack,
                 statVars, alive>>

QDoneCountsDown(w) ==
  /\ wk[w] = "q_done"
  /\ q_done' = q_done - 1
  /\ master' = IF master = "q_done_wait" THEN "collect" ELSE master
  /\ draining' = [draining EXCEPT ![w] = FALSE]
  /\ wk' = [wk EXCEPT ![w] = "ack"]
  /\ UNCHANGED <<session, reply, managerVars, item, size, queue, empty, full, done, ack,
                 statVars, alive>>

--------------------------------------------------------------------------------
(* The main thread. *)

\* A request names some content servers, or none when the Initiator has left before
\* it said how many; each gets a manager thread.  Nothing
\* reads the vector of managers before all of them are started, and a manager
\* that starts early meets the same shared state as one that starts late.
Accept ==
  /\ master = "accept"
  /\ session < MaxSessions
  /\ \E requested \in SUBSET Managers :
       mgr' = [m \in Managers |-> IF m \in requested THEN "connect" ELSE "none"]
  /\ master' = "join"
  /\ session' = session + 1
  /\ UNCHANGED <<listing, hand, reply, workerVars, queue, flagVars, statVars, alive>>

JoinManagers ==
  /\ master = "join"
  /\ \A m \in Managers : mgr[m] \in {"none", "exited"}
  /\ mgr' = [m \in Managers |-> "none"]
  /\ master' = "unack"
  /\ UNCHANGED <<session, reply, listing, hand, workerVars, queue, flagVars, statVars, alive>>

Unack ==
  /\ master = "unack"
  /\ ack' = FALSE
  /\ master' = "set_done"
  /\ UNCHANGED <<session, reply, managerVars, workerVars, queue, empty, full, done,
                 q_done, statVars, alive>>

SetDone ==
  /\ master = "set_done"
  /\ done' = TRUE
  /\ wk' = WakeAll(wk, "e_wait", "check")
  /\ master' = "collect"
  /\ UNCHANGED <<session, reply, managerVars, draining, item, size, queue, empty, full,
                 ack, q_done, statVars, alive>>

\* while (_q_done < _worker_num) wait
Collect ==
  /\ master = "collect"
  /\ master' = IF q_done < Cardinality(Workers) THEN "q_done_wait" ELSE "report"
  /\ UNCHANGED <<session, reply, managerVars, workerVars, queue, flagVars, statVars, alive>>

\* The statistics are read without their mutexes.
Report ==
  /\ master = "report"
  /\ reply' = IF files_recvd = 0 THEN [files |-> 0, bytes |-> 0]
                                 ELSE [files |-> files_recvd, bytes |-> bytes_recvd]
  /\ master' = "var_init"
  /\ UNCHANGED <<session, managerVars, workerVars, queue, flagVars, statVars, alive>>

\* Seven critical sections in the code.  One step is enough: no other thread
\* reads or writes these variables meanwhile (ReportAtQuiescence).
VarInit ==
  /\ master = "var_init"
  /\ full' = FALSE /\ empty' = TRUE /\ done' = FALSE /\ q_done' = 0
  /\ bytes_recvd' = 0 /\ files_recvd' = 0 /\ spread' = <<>>
  /\ master' = "set_ack"
  /\ UNCHANGED <<session, reply, managerVars, workerVars, queue, ack, alive>>

SetAck ==
  /\ master = "set_ack"
  /\ ack' = TRUE
  /\ wk' = WakeAll(wk, "ack_wait", "ack")
  /\ master' = "accept"
  /\ UNCHANGED <<session, reply, managerVars, draining, item, size, queue, empty, full,
                 done, q_done, statVars, alive>>

--------------------------------------------------------------------------------
(* A manager thread. *)

\* mirror_manager::init, then the LIST request and the count of names.
Connect(m) ==
  /\ mgr[m] = "connect"
  /\ \/ /\ \E names \in SUBSET Files : listing' = [listing EXCEPT ![m] = names]
        /\ mgr' = [mgr EXCEPT ![m] = "names"]
     \/ /\ mgr' = [mgr EXCEPT ![m] = "err"]
        /\ UNCHANGED listing
  /\ UNCHANGED <<hand, masterVars, workerVars, queue, flagVars, statVars, alive>>

\* "ERR:" is sent to the client, which acknowledges it.
SendErr(m) ==
  /\ mgr[m] = "err"
  /\ mgr' = [mgr EXCEPT ![m] = "exited"]
  /\ UNCHANGED <<listing, hand, masterVars, workerVars, queue, flagVars, statVars, alive>>

\* One iteration of the loop over the names, up to the push.
ReceiveName(m) ==
  /\ mgr[m] = "names"
  /\ \E f \in listing[m] :
       /\ listing' = [listing EXCEPT ![m] = @ \ {f}]
       /\ IF f \in Wanted
          THEN hand' = [hand EXCEPT ![m] = f] /\ mgr' = [mgr EXCEPT ![m] = "push"]
          ELSE UNCHANGED <<hand, mgr>>
  /\ UNCHANGED <<masterVars, workerVars, queue, flagVars, statVars, alive>>

\* The content server closes the connection: every remaining name reads as the
\* empty string, which no requested path matches.
ListingCut(m) ==
  /\ mgr[m] = "names"
  /\ listing[m] # {}
  /\ listing' = [listing EXCEPT ![m] = {}]
  /\ UNCHANGED <<mgr, hand, masterVars, workerVars, queue, flagVars, statVars, alive>>

ListingEnds(m) ==
  /\ mgr[m] = "names"
  /\ listing[m] = {}
  /\ mgr' = [mgr EXCEPT ![m] = "exited"]
  /\ UNCHANGED <<listing, hand, masterVars, workerVars, queue, flagVars, statVars, alive>>

ManagerSleep(m) ==
  /\ mgr[m] = "push"
  /\ FMutexFree
  /\ full
  /\ mgr' = [mgr EXCEPT ![m] = "f_wait"]
  /\ UNCHANGED <<listing, hand, masterVars, workerVars, queue, flagVars, statVars, alive>>

\* _full is FALSE; the queue may be full all the same, and then push throws and
\* the exception is caught and logged.
Push(m) ==
  /\ mgr[m] = "push"
  /\ FMutexFree
  /\ ~full
  /\ queue' = IF Len(queue) = Capacity THEN queue ELSE Append(queue, <<m, hand[m]>>)
  /\ full' = (Len(queue') = Capacity)
  /\ mgr' = [mgr EXCEPT ![m] = "signal"]
  /\ UNCHANGED <<listing, hand, masterVars, workerVars, empty, done, ack, q_done, statVars,
                 alive>>

SignalNotEmpty(m) ==
  /\ mgr[m] = "signal"
  /\ empty' = FALSE
  /\ wk' \in Signalled(wk, "e_wait", "check")
  /\ mgr' = [mgr EXCEPT ![m] = "names"]
  /\ hand' = [hand EXCEPT ![m] = None]
  /\ UNCHANGED <<listing, masterVars, draining, item, size, queue, full, done, ack, q_done,
                 statVars, alive>>

--------------------------------------------------------------------------------
(* A worker thread. *)

\* Back to the head of the loop the worker is in, without an element.
Loop(w) ==
  /\ wk' = [wk EXCEPT ![w] = IF draining[w] THEN "drain" ELSE "check"]
  /\ item' = [item EXCEPT ![w] = None]
  /\ size' = [size EXCEPT ![w] = 0]
  /\ UNCHANGED draining

\* while (*_empty && !*_done) wait
WorkerSleep(w) ==
  /\ wk[w] = "check"
  /\ empty /\ ~done
  /\ wk' = [wk EXCEPT ![w] = "e_wait"]
  /\ UNCHANGED <<masterVars, managerVars, draining, item, size, queue, flagVars, statVars,
                 alive>>

PopItem(w) ==
  /\ wk[w] = "check"
  /\ ~empty /\ ~done
  /\ queue # <<>>
  /\ item' = [item EXCEPT ![w] = Head(queue)]
  /\ queue' = Tail(queue)
  /\ empty' = (queue' = <<>>)
  /\ wk' = [wk EXCEPT ![w] = "lower"]
  /\ UNCHANGED <<masterVars, managerVars, draining, size, full, done, ack, q_done, statVars,
                 alive>>

\* pop throws on an empty queue and run catches nothing: std::terminate.
PopThrows(w) ==
  /\ wk[w] = "check"
  /\ ~empty /\ ~done
  /\ queue = <<>>
  /\ alive' = FALSE
  /\ UNCHANGED <<masterVars, managerVars, workerVars, queue, flagVars, statVars>>

EnterDrain(w) ==
  /\ wk[w] = "check"
  /\ done
  /\ draining' = [draining EXCEPT ![w] = TRUE]
  /\ wk' = [wk EXCEPT ![w] = "drain"]
  /\ UNCHANGED <<masterVars, managerVars, item, size, queue, flagVars, statVars, alive>>

LowerFull(w) ==
  /\ wk[w] = "lower"
  /\ FMutexFree
  /\ full' = FALSE
  /\ mgr' \in Signalled(mgr, "f_wait", "push")
  /\ wk' = [wk EXCEPT ![w] = "fetch"]
  /\ UNCHANGED <<masterVars, listing, hand, draining, item, size, queue, empty, done, ack,
                 q_done, statVars, alive>>

\* _get_info takes apart what a manager put together: it always finds its parts.
FetchReceives(w) ==
  /\ wk[w] = "fetch"
  /\ size' = [size EXCEPT ![w] = SizeOf[item[w][2]]]
  /\ wk' = [wk EXCEPT ![w] = "bytes"]
  /\ UNCHANGED <<masterVars, managerVars, draining, item, queue, flagVars, statVars, alive>>

\* The content server closes the connection instead of sending a length.
FetchNoSuchFile(w) ==
  /\ wk[w] = "fetch"
  /\ Loop(w)
  /\ UNCHANGED <<masterVars, managerVars, queue, flagVars, statVars, alive>>

\* _make_con fails and has closed _sockfd; the message is logged and _fetch runs
\* all the same.  Every recv returns -1: the length is what atoi makes of the
\* uninitialized buffer, and the loop subtracts until it is below that length.
FetchRefused(w) ==
  /\ wk[w] = "fetch"
  /\ \E n \in JunkBytes : size' = [size EXCEPT ![w] = n]
  /\ wk' = [wk EXCEPT ![w] = "bytes"]
  /\ UNCHANGED <<masterVars, managerVars, draining, item, queue, flagVars, statVars, alive>>

AddBytes(w) ==
  /\ wk[w] = "bytes"
  /\ bytes_recvd' = WrapInt(bytes_recvd + size[w])
  /\ wk' = [wk EXCEPT ![w] = "files"]
  /\ UNCHANGED <<masterVars, managerVars, draining, item, size, queue, flagVars,
                 files_recvd, spread, alive>>

AddFile(w) ==
  /\ wk[w] = "files"
  /\ files_recvd' = files_recvd + 1
  /\ wk' = [wk EXCEPT ![w] = "spread"]
  /\ UNCHANGED <<masterVars, managerVars, draining, item, size, queue, flagVars,
                 bytes_recvd, spread, alive>>

PushSpread(w) ==
  /\ wk[w] = "spread"
  /\ spread' = Append(spread, size[w])
  /\ Loop(w)
  /\ UNCHANGED <<masterVars, managerVars, queue, flagVars, bytes_recvd, files_recvd, alive>>

\* One iteration of the inner loop, up to the fetch.
DrainPop(w) ==
  /\ wk[w] = "drain"
  /\ queue # <<>>
  /\ item' = [item EXCEPT ![w] = Head(queue)]
  /\ queue' = Tail(queue)
  /\ wk' = [wk EXCEPT ![w] = "fetch"]
  /\ UNCHANGED <<masterVars, managerVars, draining, size, flagVars, statVars, alive>>

\* end, and both loops are left.
DrainEnds(w) ==
  /\ wk[w] = "drain"
  /\ queue = <<>>
  /\ wk' = [wk EXCEPT ![w] = "q_done"]
  /\ UNCHANGED <<masterVars, managerVars, draining, item, size, queue, flagVars, statVars,
                 alive>>

QDone(w) ==
  /\ wk[w] = "q_done"
  /\ q_done' = q_done + 1
  /\ master' = IF master = "q_done_wait" THEN "collect" ELSE master
  /\ draining' = [draining EXCEPT ![w] = FALSE]
  /\ wk' = [wk EXCEPT ![w] = "ack"]
  /\ UNCHANGED <<session, reply, managerVars, item, size, queue, empty, full, done, ack,
                 statVars, alive>>

\* while (!*_ack) wait
AwaitAck(w) ==
  /\ wk[w] = "ack"
  /\ wk' = [wk EXCEPT ![w] = IF ack THEN "check" ELSE "ack_wait"]
  /\ UNCHANGED <<masterVars, managerVars, draining, item, size, queue, flagVars, statVars,
                 alive>>

--------------------------------------------------------------------------------
(* The process.  An exception that nothing catches ends every thread. *)

MasterStep ==
  /\ alive
  /\ JoinManagers \/ Unack \/ SetDone \/ Collect \/ Report \/ VarInit \/ SetAck

ManagerStep(m) ==
  /\ alive
  /\ \/ Connect(m) \/ SendErr(m) \/ ReceiveName(m) \/ ListingCut(m) \/ ListingEnds(m)
     \/ ManagerSleep(m) \/ Push(m) \/ SignalNotEmpty(m)

WorkerStep(w) ==
  /\ alive
  /\ \/ WorkerSleep(w) \/ PopItem(w) \/ PopThrows(w) \/ EnterDrain(w) \/ LowerFull(w)
     \/ FetchReceives(w) \/ FetchNoSuchFile(w) \/ FetchRefused(w)
     \/ AddBytes(w) \/ AddFile(w) \/ PushSpread(w)
     \/ DrainPop(w) \/ DrainEnds(w) \/ QDone(w) \/ AwaitAck(w)

\* pthread_cond_wait may return although nothing was signalled.
SpuriousWakeup ==
  /\ alive
  /\ \/ /\ master = "q_done_wait" /\ master' = "collect"
        /\ UNCHANGED <<wk, mgr>>
     \/ /\ \E m \in Managers : mgr[m] = "f_wait" /\ mgr' = [mgr EXCEPT ![m] = "push"]
        /\ UNCHANGED <<master, wk>>
     \/ /\ \E w \in Workers : \/ wk[w] = "e_wait" /\ wk' = [wk EXCEPT ![w] = "check"]
                              \/ wk[w] = "ack_wait" /\ wk' = [wk EXCEPT ![w] = "ack"]
        /\ UNCHANGED <<master, mgr>>
  /\ UNCHANGED <<session, reply, listing, hand, draining, item, size, queue, flagVars,
                 statVars, alive>>

Next ==
  \/ alive /\ Accept
  \/ MasterStep
  \/ \E m \in Managers : ManagerStep(m)
  \/ \E w \in Workers : WorkerStep(w)
  \/ SpuriousWakeup

Spec == Init /\ [][Next]_vars

\* Every thread is scheduled and every dialogue with a peer comes to its end.
\* No request need ever arrive, and no spurious wakeup need ever happen.
Fairness ==
  /\ WF_vars(MasterStep)
  /\ \A m \in Managers : WF_vars(ManagerStep(m))
  /\ \A w \in Workers : WF_vars(WorkerStep(w))

FairSpec == Spec /\ Fairness

--------------------------------------------------------------------------------
(* Properties. *)

InManager(states) == {m \in Managers : mgr[m] \in states}
InWorker(states)  == {w \in Workers : wk[w] \in states}

\* The type invariant.
TypeOK ==
  /\ master \in MasterStates /\ session \in 0..MaxSessions
  /\ reply \in [files : Nat, bytes : Int]
  /\ mgr \in [Managers -> ManagerStates]
  /\ listing \in [Managers -> SUBSET Files]
  /\ hand \in [Managers -> Files \cup {None}]
  /\ wk \in [Workers -> WorkerStates]
  /\ draining \in [Workers -> BOOLEAN]
  /\ item \in [Workers -> Items \cup {None}]
  /\ size \in [Workers -> Int]
  /\ queue \in Seq(Items)
  /\ empty \in BOOLEAN /\ full \in BOOLEAN /\ done \in BOOLEAN /\ ack \in BOOLEAN
  /\ q_done \in Nat /\ bytes_recvd \in Int /\ files_recvd \in Nat /\ spread \in Seq(Int)
  /\ alive \in BOOLEAN

\* When the main thread reads the statistics without their mutexes, sends the
\* report and resets the shared state (mirror_server.cpp:231-258), no manager is
\* left, the queue is empty and every worker is behind the barrier.
ReportAtQuiescence ==
  master \in {"report", "var_init", "set_ack"} =>
    /\ InManager(ManagerStates \ {"none"}) = {}
    /\ queue = <<>>
    /\ InWorker(WorkerStates \ {"ack", "ack_wait"}) = {}

\* The three statistics are updated under three mutexes one after the other, yet
\* the report is made of figures that agree: as many lengths as files, and their
\* sum (in an int) as the bytes.
ReportAgrees ==
  master = "report" =>
    /\ files_recvd = Len(spread)
    /\ bytes_recvd = FoldSeq(LAMBDA n, total : WrapInt(n + total), 0, spread)

\* pthread_cond_signal for each push is enough although it wakes one worker and
\* a worker wakes nobody: while one sleeps on _e_cond, each queued element has a
\* worker on its way to the queue or a manager about to signal.
NoLostWakeupEmpty ==
  InWorker({"e_wait"}) # {} =>
    Len(queue) <= Cardinality(InWorker({"check"})) + Cardinality(InManager({"signal"}))

\* The same of the managers that sleep on _f_cond: each free place of the queue
\* has a worker about to signal it or a manager on its way to fill it.
NoLostWakeupFull ==
  InManager({"f_wait"}) # {} =>
    Capacity - Len(queue) <=
      Cardinality(InWorker({"lower"})) + Cardinality(InManager({"push"}))

\* The threads of a request do not all wait for each other: whoever waits for room in
\* the queue, or for the workers to be through, has a thread to wait for that is
\* neither asleep nor through, unless a worker is still behind the barrier of the
\* request before.
SomeoneRuns ==
  /\ master = "q_done_wait" \/ InManager({"f_wait"}) # {}
  /\ Cardinality(InWorker({"ack", "ack_wait"})) <= q_done
  => \/ InWorker(WorkerStates \ {"e_wait", "ack", "ack_wait"}) # {}
     \/ InManager({"push", "signal"}) # {}

\* With one worker the flag _empty, which is stale between the push and the
\* signal of a manager, never lets it pop an empty queue (worker.cpp:74-80).
SingleWorkerNeverThrows == Cardinality(Workers) = 1 => alive

\* A request that meets the whole pool of workers in front of its queue is
\* answered, unless a worker's exception ends the process first.
SessionEnds ==
  (master = "join" /\ InWorker({"ack", "ack_wait"}) = {}) ~> (master = "report" \/ ~alive)

\* The elements that managers have matched and not yet pushed, and those that are
\* in the queue or with a worker.
Handed == {<<m, hand[m]>> : m \in InManager({"push", "f_wait"})}
Taken  == ToSet(queue) \cup {item[w] : w \in InWorker({"lower", "fetch", "bytes", "files"})}

\* The abstract specification.
Phase == CASE master \in {"accept", "var_init", "set_ack"} -> "idle"
           [] master = "join" -> "open"
           [] OTHER -> "closed"

Abs == INSTANCE Mirroring WITH
  phase    <- Phase,
  pending  <- Handed \cup Taken,
  mirrored <- IF master = "var_init" THEN 0 ELSE files_recvd,
  reported <- reply.files

Mirrors == Abs!Spec

(* What the comments of the code say of it. *)

\* README.txt 2.2.1: a file that matches is inserted into the list.
MatchesAreQueued ==
  [][\A m \in Managers : mgr[m] = "push" /\ mgr'[m] = "signal" =>
       queue' = Append(queue, <<m, hand[m]>>)]_vars

\* mirror_server.cpp:260-262: the workers are told that they may continue.
WorkersContinue ==
  \A w \in Workers : (wk[w] \in {"ack", "ack_wait"} /\ ack) ~> (wk[w] = "check")

================================================================================
