--------------------------------- MODULE System ---------------------------------
(***************************************************************************)
(* A Mirror Server and one Content Server that all the managers of a       *)
(* request address, composed.  Where MirrorServer and ContentServer each   *)
(* take the dialogue with a peer for a step that ends by itself, here the  *)
(* two threads that hold the two ends of a connection take it together:    *)
(* a name is received only while a worker of the Content Server serves the *)
(* LIST, and a worker of the Mirror Server waits until one serves its      *)
(* FETCH.                                                                  *)
(*                                                                         *)
(* A connection is <<s, m, None>>, on which manager m of request s sends   *)
(* its LIST, or <<s, m, f>>, on which some worker sends the FETCH of what   *)
(* m has matched.  The manager of a request is through when it has sent    *)
(* its last OK; the worker of the Content Server that awaits it may be in  *)
(* that LIST still when the next request is under way.  Either process may *)
(* end: by an exception, and the Content Server may be killed.  The thread *)
(* at the other end then reads the end of its connection.                  *)
(*                                                                         *)
(* Every file has some bytes, every name is shorter than a block, and no   *)
(* id has the least int for its hash: what happens otherwise is in         *)
(* Transfer and in ContentServer.                                          *)
(***************************************************************************)
EXTENDS Integers, FiniteSets, SequencesExt

CONSTANTS
  Workers, Managers, Wanted, SizeOf, JunkBytes, IntMax, Capacity, MaxSessions, None,
                \* of MirrorServer
  CWorkers,     \* the worker threads of the Content Server
  CCapacity,    \* _max of its queue
  Directory,    \* the files of the Content Server, in the order in which it finds them
  Removable     \* bound: those that somebody may delete

Files == ToSet(Directory)

\* Those of MirrorServer.
ASSUME MirrorAssumption ==
  /\ Workers # {} /\ IsFiniteSet(Workers) /\ IsFiniteSet(Managers)
  /\ Wanted \subseteq Files /\ None \notin Files /\ None \notin Managers \X Files
  /\ IntMax \in Nat /\ SizeOf \in [Files -> 1..IntMax]
  /\ JunkBytes \subseteq -(IntMax + 1)..IntMax
  /\ Capacity \in Nat \ {0} /\ MaxSessions \in Nat

Sessions == 1..MaxSessions
Conns    == Sessions \X Managers \X (Files \cup {None})

\* What a manager calls itself, (int) pthread_self().  Managers do not share it here: an id
\* that an earlier thread had would have a delay before its LIST is heard.
Ids   == Sessions \X Managers
Id(c) == <<c[1], c[2]>>

\* Those of ContentServer.
ASSUME ContentAssumption ==
  /\ CWorkers # {} /\ IsFiniteSet(CWorkers) /\ CCapacity \in Nat \ {0} /\ None \notin Conns

VARIABLES
  master, session, mgr, listing, hand, wk, draining, item, size, queue, empty, full, done,
  ack, q_done, bytes_recvd, files_recvd, spread, reply, alive,
                \* of MirrorServer
  cmaster, cfd, cwk, cclient, cconn, cqueue, cempty, cfull, ctable, ch_free, calive,
                \* of ContentServer
  dialled,      \* the connections made
  present       \* the files in the directory of the Content Server

MS == INSTANCE MirrorServer
CS == INSTANCE ContentServer WITH
  Workers <- CWorkers, Conns <- Conns, Ids <- Ids, Refused <- {}, Capacity <- CCapacity,
  master <- cmaster, fd <- cfd, wk <- cwk, client <- cclient, conn <- cconn,
  queue <- cqueue, empty <- cempty, full <- cfull, table <- ctable, h_free <- ch_free,
  alive <- calive

mirrorVars ==
  <<master, session, mgr, listing, hand, wk, draining, item, size, queue, empty, full, done,
    ack, q_done, bytes_recvd, files_recvd, spread, reply, alive>>
contentVars ==
  <<cmaster, cfd, cwk, cclient, cconn, cqueue, cempty, cfull, ctable, ch_free, calive>>
vars == <<mirrorVars, contentVars, dialled, present>>

Init == MS!Init /\ CS!Init /\ dialled = {} /\ present = Files

\* A step of one process that the other takes no part in.
MirrorAlone(A)  == A /\ UNCHANGED <<contentVars, dialled, present>>
ContentAlone(A) == A /\ UNCHANGED <<mirrorVars, dialled, present>>

\* The worker of the Content Server that serves a connection is in this state.
Serves(cw, c, state) == cwk[cw] = state /\ cclient[cw] = c

\* The connection on which a worker of the Mirror Server asks for its file.
Wire(w) == <<session, item[w][1], item[w][2]>>

--------------------------------------------------------------------------------
(* Faulty forms of some of the actions below, for the properties to reject. *)

HearListUnregistered(cw) ==
  /\ cwk[cw] = "recv" /\ cclient[cw][3] = None
  /\ cwk' = [cwk EXCEPT ![cw] = "list"]
  /\ UNCHANGED <<mirrorVars, cmaster, cfd, cclient, cconn, cqueue, cempty, cfull, ctable,
                 ch_free, calive, dialled, present>>

HearListUntested(cw) ==
  /\ cwk[cw] = "recv"
  /\ ContentAlone(CS!ReceiveList(cw))
  /\ ctable' = ctable \cup {Id(cclient[cw])}

HearFetchInverted(cw) ==
  /\ cwk[cw] = "recv" /\ cclient[cw][3] # None
  /\ ContentAlone(IF Id(cclient[cw]) \in ctable THEN CS!FetchUnknown(cw)
                                               ELSE CS!ReceiveFetch(cw))

\* _h_mtx held during the LIST.
HearFetchAfterLists(cw) ==
  /\ cwk[cw] = "recv" /\ cclient[cw][3] # None
  /\ Id(cclient[cw]) \in ctable
  /\ \A other \in CWorkers : cwk[other] # "list"
  /\ ContentAlone(CS!ReceiveFetch(cw))

--------------------------------------------------------------------------------
(* The managers. *)

Dial(c) ==
  /\ calive /\ c \notin dialled
  /\ dialled' = dialled \cup {c}
  /\ UNCHANGED <<mirrorVars, contentVars, present>>

\* connect, the LIST request, and the count.  A Content Server that has ended
\* refuses the connection, or has closed it: the count is read as 0.
ManagerConnects(m) ==
  \/ mgr[m] = "connect" /\ Dial(<<session, m, None>>)
  \/ /\ \E cw \in CWorkers : Serves(cw, <<session, m, None>>, "list")
     /\ MirrorAlone(MS!Connect(m))
     /\ mgr'[m] = "names" /\ listing'[m] = present
  \/ /\ ~calive
     /\ MirrorAlone(MS!Connect(m))
     /\ IF <<session, m, None>> \in dialled THEN mgr'[m] = "names" /\ listing'[m] = {}
                                   ELSE mgr'[m] = "err"

\* _get_list finds the files in an order of its own, and they are sent in it.
NamesAfterFirst(m) ==
  LET left == {i \in DOMAIN Directory : Directory[i] \in listing[m]}
  IN  {Directory[i] : i \in left \ {Min(left)}}

ManagerStep(m) ==
  /\ alive
  /\ \/ ManagerConnects(m)
     \/ calive /\ MirrorAlone(MS!ReceiveName(m)) /\ listing'[m] = NamesAfterFirst(m)
     \/ ~calive /\ MirrorAlone(MS!ListingCut(m))
     \/ MirrorAlone(MS!SendErr(m) \/ MS!ListingEnds(m) \/ MS!ManagerSleep(m) \/ MS!Push(m)
                    \/ MS!SignalNotEmpty(m))

--------------------------------------------------------------------------------
(* The workers of the Mirror Server, and those of the Content Server. *)

\* connect and the FETCH request.  A Content Server that has ended refuses the
\* connection or closes it.
WorkerConnects(w) ==
  /\ wk[w] = "fetch"
  /\ \/ Dial(Wire(w))
     \/ ~calive /\ MirrorAlone(MS!FetchRefused(w) \/ MS!FetchNoSuchFile(w))

\* The file is there, and is sent and received.
Transfer(w, cw) ==
  /\ wk[w] = "fetch" /\ Serves(cw, Wire(w), "fetch")
  /\ item[w][2] \in present
  /\ MS!FetchReceives(w) /\ CS!DoFetch(cw)
  /\ UNCHANGED <<dialled, present>>

WorkerStep(w) ==
  /\ alive
  /\ \/ WorkerConnects(w)
     \/ calive /\ \E cw \in CWorkers : Transfer(w, cw)
     \/ MirrorAlone(MS!WorkerSleep(w) \/ MS!PopItem(w) \/ MS!PopThrows(w) \/ MS!EnterDrain(w)
                    \/ MS!LowerFull(w) \/ MS!AddBytes(w) \/ MS!AddFile(w) \/ MS!PushSpread(w)
                    \/ MS!DrainPop(w) \/ MS!DrainEnds(w) \/ MS!QDone(w) \/ MS!AwaitAck(w))

\* A LIST is heard; the delay of its id is kept.
HearList(cw) ==
  /\ cwk[cw] = "recv" /\ cclient[cw][3] = None
  /\ ContentAlone(CS!ReceiveList(cw))
  /\ ctable' = ctable \cup {Id(cclient[cw])}

\* A FETCH is heard, and refused if its id has no delay (FetchIdKnown: it has).
HearFetch(cw) ==
  /\ cwk[cw] = "recv" /\ cclient[cw][3] # None
  /\ ContentAlone(IF Id(cclient[cw]) \in ctable THEN CS!ReceiveFetch(cw)
                                               ELSE CS!FetchUnknown(cw))

\* The manager has sent the OK to the last name, and has exited if the next request is
\* under way.
LastIsNamed(c) ==
  c[1] = session => mgr[c[2]] # "connect" /\ listing[c[2]] = {}

\* The OK to the last name has been heard.
EndList(cw) ==
  /\ cwk[cw] = "list"
  /\ LastIsNamed(cclient[cw])
  /\ ContentAlone(CS!DoList(cw))

\* The file is no longer there: the worker goes on, and its connection stays open.
FileGone(cw) ==
  /\ cwk[cw] = "fetch" /\ cclient[cw][3] \notin present
  /\ ContentAlone(CS!DoFetchThrows(cw))

\* A worker of the Content Server does not wait for a Mirror Server that has ended.
ContentWorkerStep(cw) ==
  /\ calive
  /\ \/ HearList(cw) \/ HearFetch(cw) \/ EndList(cw) \/ FileGone(cw)
     \/ ContentAlone(CS!WorkerSleep(cw) \/ CS!Pop(cw) \/ CS!PopThrows(cw) \/ CS!LowerFull(cw))
     \/ ~alive /\ ContentAlone(CS!WorkerStep(cw))

--------------------------------------------------------------------------------
(* The two processes. *)

MasterStep ==
  \/ alive /\ MirrorAlone(MS!Accept)
  \/ MirrorAlone(MS!MasterStep)

ContentMasterStep ==
  \/ calive /\ ContentAlone(CS!Accept) /\ cfd' \in dialled
  \/ ContentAlone(CS!MasterStep)

\* The Content Server is killed.
Crash == ContentAlone(CS!Kill)

\* Somebody deletes a file, perhaps between the LIST and the FETCH.
RemoveFile ==
  /\ \E f \in present \cap Removable : present' = present \ {f}
  /\ UNCHANGED <<mirrorVars, contentVars, dialled>>

Next ==
  \/ MasterStep \/ \E m \in Managers : ManagerStep(m)
  \/ \E w \in Workers : WorkerStep(w)
  \/ ContentMasterStep \/ \E cw \in CWorkers : ContentWorkerStep(cw)
  \/ MirrorAlone(MS!SpuriousWakeup) \/ ContentAlone(CS!SpuriousWakeup)
  \/ Crash \/ RemoveFile

Spec == Init /\ [][Next]_vars

\* Every thread is scheduled.  Nothing is assumed of the dialogues: a thread waits
\* as long as its peer makes it wait.
FairSpec ==
  /\ Spec
  /\ WF_vars(MirrorAlone(MS!MasterStep)) /\ WF_vars(ContentMasterStep)
  /\ \A m \in Managers : WF_vars(ManagerStep(m))
  /\ \A w \in Workers : WF_vars(WorkerStep(w))
  /\ \A cw \in CWorkers : WF_vars(ContentWorkerStep(cw))

--------------------------------------------------------------------------------
(* Properties. *)

\* A FETCH is never refused for its id: the id is that of a manager, and the LIST
\* that maps it to a delay is served before the manager has a name to queue.
FetchIdKnown ==
  \A cw \in CWorkers :
    cwk[cw] = "recv" /\ cclient[cw][3] # None => Id(cclient[cw]) \in ctable

\* While a worker of the Mirror Server waits for a file that is there, the Content
\* Server has not closed its connection: the worker would take that for "no such
\* file" (worker.cpp:202).
WaitedForIsOpen ==
  alive /\ calive => \A w \in Workers :
    wk[w] = "fetch" /\ Wire(w) \in dialled /\ item[w][2] \in present =>
      cconn[Wire(w)] # "closed"

\* In the middle of a LIST whose manager waits for room in the queue of the Mirror Server.
\* A worker in the LIST of an earlier request has only its last OK to hear.
AwaitsRoom(cw) ==
  LET c == cclient[cw]
  IN  cwk[cw] = "list" /\ c[1] = session /\ mgr[c[2]] \in {"push", "f_wait"}

\* Every worker of the Content Server is.
PoolExhausted == \A cw \in CWorkers : AwaitsRoom(cw)

\* A manager has one LIST, and one worker hears it: of a Content Server with more workers
\* than a request has managers some worker does not wait for room in the Mirror Server,
\* though LISTs of the requests before may have taken workers too.
ListsLeaveAWorker ==
  alive /\ Cardinality(CWorkers) > Cardinality(Managers) => ~PoolExhausted

\* Nobody will answer on this connection.
Abandoned(c) ==
  /\ cconn[c] = "open" /\ cfd # c /\ c \notin ToSet(cqueue)
  /\ \A cw \in CWorkers : cclient[cw] # c

\* A request that meets every worker in front of the queue (lost_ack) is answered, from the
\* two programs' own steps, unless a process has ended, a worker of the Content Server has
\* blocked itself (content_pool), a file is gone, or the LISTs have taken the whole pool of
\* the Content Server for ever.
RequestEnds ==
  (master = "join" /\ MS!InWorker({"ack", "ack_wait"}) = {}) ~>
    \/ master = "report" \/ ~alive \/ ~calive \/ ~CS!MutexesFree
    \/ \E c \in Conns : c[1] = session /\ Abandoned(c)
    \/ []PoolExhausted

(* What the documentation says of it. *)

\* README.txt 2.2.1: once an element is inserted into the list, a worker thread is
\* notified, which removes it from the list and sends a FETCH request.
QueuedIsFetched ==
  \A i \in Managers \X Files : i \in ToSet(queue) ~> i \notin ToSet(queue) \/ ~alive

================================================================================
