--------------------------- MODULE MirrorServerProofs ---------------------------
(***************************************************************************)
(* Proofs about MirrorServer, for every number of workers, managers and    *)
(* files and every capacity of the queue.                                  *)
(***************************************************************************)
EXTENDS MirrorServer, Counting

USE DEF masterVars, managerVars, workerVars, flagVars, statVars, vars

--------------------------------------------------------------------------------
(* Type correctness. *)

\* An addition in an int is an int.
LEMMA WrapIntType == \A n \in Int : WrapInt(n) \in Int
  BY IntAssumption DEF WrapInt

\* A signal and a broadcast move threads from one state to another, no further.
LEMMA SignalledType ==
  ASSUME NEW S, NEW T, NEW pc \in [S -> T], NEW waiting, NEW awake \in T,
         NEW next \in Signalled(pc, waiting, awake)
  PROVE  next \in [S -> T]
  BY DEF Signalled

LEMMA WakeAllType ==
  ASSUME NEW S, NEW T, NEW pc \in [S -> T], NEW waiting, NEW awake \in T
  PROVE  WakeAll(pc, waiting, awake) \in [S -> T]
  BY DEF WakeAll

\* The elements that are passed on are there: a manager that pushes has a name in
\* hand, and a worker that fetches has popped an element.
Holds ==
  /\ \A m \in Managers : mgr[m] \in {"push", "f_wait", "signal"} => hand[m] \in Files
  /\ \A w \in Workers : wk[w] \in {"lower", "fetch", "bytes", "files", "spread"} =>
       item[w] \in Items

Typed == TypeOK /\ Holds

\* Every variable keeps its type.
LEMMA TypeInit == Init => Typed
<1> SUFFICES ASSUME Init PROVE Typed
  OBVIOUS
<1> USE DEF Init
<1>1. queue \in Seq(Items) /\ spread \in Seq(Int)
  BY EmptySeqType
<1>2. session \in 0..MaxSessions
  BY MaxSessionsAssumption
<1>3. /\ mgr \in [Managers -> ManagerStates]
      /\ listing \in [Managers -> SUBSET Files]
      /\ hand \in [Managers -> Files \cup {None}]
  BY DEF ManagerStates
<1>4. /\ wk \in [Workers -> WorkerStates]
      /\ draining \in [Workers -> BOOLEAN]
      /\ item \in [Workers -> Items \cup {None}]
      /\ size \in [Workers -> Int]
  BY DEF WorkerStates
<1>5. master \in MasterStates /\ reply \in [files : Nat, bytes : Int]
  BY DEF MasterStates
<1>6. TypeOK
  BY <1>1, <1>2, <1>3, <1>4, <1>5 DEF TypeOK
<1>7. Holds
  BY DEF Holds
<1> QED BY <1>6, <1>7 DEF Typed

LEMMA TypeNext == Typed /\ [Next]_vars => TypeOK'
<1> SUFFICES ASSUME TypeOK, Holds, [Next]_vars PROVE TypeOK'
  BY DEF Typed
<1> USE DEF TypeOK
<1>1. ASSUME Accept PROVE TypeOK'
  BY <1>1, MaxSessionsAssumption DEF Accept, MasterStates, ManagerStates
<1>2. ASSUME MasterStep PROVE TypeOK'
  <2>1. CASE JoinManagers \/ Unack \/ Collect
    BY <2>1 DEF JoinManagers, Unack, Collect, MasterStates, ManagerStates
  <2>5. CASE VarInit
    <3>1. spread' \in Seq(Int)
      BY <2>5, EmptySeqType DEF VarInit
    <3>2. /\ full' = FALSE /\ empty' = TRUE /\ done' = FALSE
          /\ q_done' = 0 /\ bytes_recvd' = 0 /\ files_recvd' = 0
      BY <2>5 DEF VarInit
    <3>3. /\ master' \in MasterStates
          /\ UNCHANGED <<session, reply, managerVars, workerVars, queue, ack, alive>>
      BY <2>5 DEF VarInit, MasterStates
    <3>4. full' \in BOOLEAN /\ empty' \in BOOLEAN /\ done' \in BOOLEAN
      BY <3>2
    <3>5. q_done' \in Nat /\ bytes_recvd' \in Int /\ files_recvd' \in Nat
      BY <3>2
    <3> QED BY <3>1, <3>3, <3>4, <3>5
  <2>2. CASE SetDone
    BY <2>2, WakeAllType DEF SetDone, MasterStates, WorkerStates
  <2>3. CASE Report
    BY <2>3 DEF Report, MasterStates
  <2>4. CASE SetAck
    BY <2>4, WakeAllType DEF SetAck, MasterStates, WorkerStates
  <2> QED BY <1>2, <2>1, <2>2, <2>3, <2>4, <2>5 DEF MasterStep
<1>3. ASSUME NEW m \in Managers, ManagerStep(m) PROVE TypeOK'
  <2>1. CASE Connect(m)
    <3>1. listing' \in [Managers -> SUBSET Files]
      <4>1. CASE UNCHANGED listing
        BY <4>1
      <4>2. CASE \E names \in SUBSET Files : listing' = [listing EXCEPT ![m] = names]
        BY <4>2
      <4> QED BY <2>1, <4>1, <4>2 DEF Connect
    <3>2. mgr' \in [Managers -> ManagerStates]
      BY <2>1 DEF Connect, ManagerStates
    <3>3. UNCHANGED <<hand, masterVars, workerVars, queue, flagVars, statVars, alive>>
      BY <2>1 DEF Connect
    <3> QED BY <3>1, <3>2, <3>3
  <2>2. CASE SendErr(m) \/ ListingCut(m) \/ ListingEnds(m) \/ ManagerSleep(m)
    BY <2>2 DEF SendErr, ListingCut, ListingEnds, ManagerSleep, ManagerStates
  <2>3. CASE ReceiveName(m)
    <3> PICK f \in listing[m] :
               /\ listing' = [listing EXCEPT ![m] = @ \ {f}]
               /\ IF f \in Wanted
                  THEN hand' = [hand EXCEPT ![m] = f] /\ mgr' = [mgr EXCEPT ![m] = "push"]
                  ELSE UNCHANGED <<hand, mgr>>
      BY <2>3 DEF ReceiveName
    <3>3. f \in Files
      OBVIOUS
    <3>1. hand' \in [Managers -> Files \cup {None}] /\ mgr' \in [Managers -> ManagerStates]
      BY <3>3 DEF ManagerStates
    <3>2. listing' \in [Managers -> SUBSET Files]
      OBVIOUS
    <3> QED BY <3>1, <3>2, <2>3 DEF ReceiveName
  <2>4. CASE Push(m)
    <3>1. <<m, hand[m]>> \in Items
      BY <2>4 DEF Push, Holds, Items
    <3>2. queue' \in Seq(Items)
      BY <3>1, <2>4 DEF Push
    <3> QED BY <3>2, <2>4 DEF Push, ManagerStates
  <2>5. CASE SignalNotEmpty(m)
    <3>1. wk' \in [Workers -> WorkerStates]
      BY <2>5, SignalledType DEF SignalNotEmpty, WorkerStates
    <3> QED BY <3>1, <2>5 DEF SignalNotEmpty, ManagerStates
  <2> QED BY <1>3, <2>1, <2>2, <2>3, <2>4, <2>5 DEF ManagerStep
<1>4. ASSUME NEW w \in Workers, WorkerStep(w) PROVE TypeOK'
  <2>1. CASE WorkerSleep(w) \/ PopThrows(w) \/ EnterDrain(w) \/ DrainEnds(w) \/ AwaitAck(w)
    BY <2>1 DEF WorkerSleep, PopThrows, EnterDrain, DrainEnds, AwaitAck, WorkerStates
  <2>2. CASE PopItem(w)
    BY <2>2 DEF PopItem, WorkerStates
  <2>3. CASE LowerFull(w)
    <3>1. mgr' \in [Managers -> ManagerStates]
      BY <2>3, SignalledType DEF LowerFull, ManagerStates
    <3> QED BY <3>1, <2>3 DEF LowerFull, WorkerStates
  <2>4. CASE FetchReceives(w)
    <3>1. SizeOf[item[w][2]] \in Int
      BY <2>4, SizeAssumption DEF FetchReceives, Holds, Items
    <3> QED BY <3>1, <2>4 DEF FetchReceives, WorkerStates
  <2>5. CASE FetchNoSuchFile(w)
    BY <2>5 DEF FetchNoSuchFile, Loop, WorkerStates
  <2>6. CASE FetchRefused(w)
    BY <2>6, JunkAssumption, IntAssumption DEF FetchRefused, WorkerStates
  <2>7. CASE AddBytes(w)
    <3>1. bytes_recvd' \in Int
      BY <2>7, WrapIntType DEF AddBytes
    <3> QED BY <3>1, <2>7 DEF AddBytes, WorkerStates
  <2>8. CASE AddFile(w)
    BY <2>8 DEF AddFile, WorkerStates
  <2>9. CASE PushSpread(w)
    BY <2>9 DEF PushSpread, Loop, WorkerStates
  <2>10. CASE DrainPop(w)
    BY <2>10 DEF DrainPop, WorkerStates
  <2>11. CASE QDone(w)
    BY <2>11 DEF QDone, MasterStates, WorkerStates
  <2> QED BY <1>4, <2>1, <2>2, <2>3, <2>4, <2>5, <2>6, <2>7, <2>8, <2>9, <2>10, <2>11
          DEF WorkerStep
<1>5. ASSUME SpuriousWakeup PROVE TypeOK'
  <2>1. /\ master' \in MasterStates
        /\ mgr' \in [Managers -> ManagerStates]
        /\ wk' \in [Workers -> WorkerStates]
    BY <1>5 DEF SpuriousWakeup, MasterStates, ManagerStates, WorkerStates
  <2>2. UNCHANGED <<session, reply, listing, hand, draining, item, size, queue, flagVars,
                    statVars, alive>>
    BY <1>5 DEF SpuriousWakeup
  <2> QED BY <2>1, <2>2
<1>6. ASSUME UNCHANGED vars PROVE TypeOK'
  BY <1>6
<1> QED BY <1>1, <1>2, <1>3, <1>4, <1>5, <1>6 DEF Next

LEMMA HoldsNext == Typed /\ [Next]_vars => Holds'
<1> SUFFICES ASSUME TypeOK, Holds, [Next]_vars PROVE Holds'
  BY DEF Typed
<1> USE DEF TypeOK, Holds
<1>1. ASSUME Accept PROVE Holds'
  BY <1>1 DEF Accept
<1>2. ASSUME MasterStep PROVE Holds'
  BY <1>2 DEF MasterStep, JoinManagers, Unack, SetDone, Collect, Report, VarInit, SetAck,
              WakeAll
<1>3. ASSUME NEW m \in Managers, ManagerStep(m) PROVE Holds'
  <2>1. CASE Connect(m) \/ SendErr(m) \/ ListingCut(m) \/ ListingEnds(m) \/ ManagerSleep(m)
             \/ Push(m)
    BY <2>1 DEF Connect, SendErr, ListingCut, ListingEnds, ManagerSleep, Push
  <2>2. CASE ReceiveName(m)
    BY <2>2 DEF ReceiveName
  <2>3. CASE SignalNotEmpty(m)
    BY <2>3 DEF SignalNotEmpty, Signalled
  <2> QED BY <1>3, <2>1, <2>2, <2>3 DEF ManagerStep
<1>4. ASSUME NEW w \in Workers, WorkerStep(w) PROVE Holds'
  <2>1. CASE WorkerSleep(w) \/ PopThrows(w) \/ EnterDrain(w) \/ DrainEnds(w) \/ AwaitAck(w)
             \/ QDone(w)
    BY <2>1 DEF WorkerSleep, PopThrows, EnterDrain, DrainEnds, AwaitAck, QDone
  <2>2. CASE PopItem(w) \/ DrainPop(w)
    <3>1. Head(queue) \in Items
      BY <2>2 DEF PopItem, DrainPop
    <3> QED BY <3>1, <2>2 DEF PopItem, DrainPop
  <2>3. CASE LowerFull(w)
    BY <2>3 DEF LowerFull, Signalled
  <2>4. CASE FetchReceives(w) \/ FetchRefused(w) \/ AddBytes(w) \/ AddFile(w)
    BY <2>4 DEF FetchReceives, FetchRefused, AddBytes, AddFile
  <2>5. CASE FetchNoSuchFile(w) \/ PushSpread(w)
    BY <2>5 DEF FetchNoSuchFile, PushSpread, Loop
  <2> QED BY <1>4, <2>1, <2>2, <2>3, <2>4, <2>5 DEF WorkerStep
<1>5. ASSUME SpuriousWakeup PROVE Holds'
  BY <1>5 DEF SpuriousWakeup
<1>6. ASSUME UNCHANGED vars PROVE Holds'
  BY <1>6
<1> QED BY <1>1, <1>2, <1>3, <1>4, <1>5, <1>6 DEF Next

LEMMA TypedInvariant == Spec => []Typed
<1>1. Typed /\ [Next]_vars => Typed'
  BY TypeNext, HoldsNext DEF Typed
<1> QED BY TypeInit, <1>1, PTL DEF Spec

\* The type invariant, in every behaviour.
THEOREM TypeCorrect == Spec => []TypeOK
<1>1. Typed => TypeOK
  BY DEF Typed
<1> QED BY TypedInvariant, <1>1, PTL

--------------------------------------------------------------------------------
(* Counting the threads that are in some states. *)

LEMMA Counts ==
  \A A : /\ Cardinality(InWorker(A)) \in Nat /\ IsFiniteSet(InWorker(A))
         /\ Cardinality(InManager(A)) \in Nat /\ IsFiniteSet(InManager(A))
<1> TAKE A
<1>1. IsFiniteSet(InWorker(A)) /\ IsFiniteSet(InManager(A))
  BY FS_Subset, WorkersAssumption, ManagersAssumption DEF InWorker, InManager
<1> QED BY <1>1, FS_CardinalityType

\* When one thread moves, the number of threads in a set of states changes by that
\* thread at most.
LEMMA WorkerMoves ==
  ASSUME TypeOK, NEW w \in Workers, NEW s, wk' = [wk EXCEPT ![w] = s], NEW A
  PROVE  /\ Cardinality(InWorker(A)) \in Nat /\ Cardinality(InWorker(A))' \in Nat
         /\ wk[w] \notin A /\ s \in A =>
              Cardinality(InWorker(A))' = Cardinality(InWorker(A)) + 1
         /\ wk[w] \in A /\ s \notin A =>
              Cardinality(InWorker(A))' = Cardinality(InWorker(A)) - 1
         /\ (wk[w] \in A <=> s \in A) =>
              Cardinality(InWorker(A))' = Cardinality(InWorker(A))
<1> DEFINE F == InWorker(A)
           G == {t \in Workers : wk'[t] \in A}
<1>1. G = InWorker(A)'
  BY DEF InWorker
<1>2. IsFiniteSet(F) /\ IsFiniteSet(G)
  BY FS_Subset, WorkersAssumption DEF InWorker
<1>3. Cardinality(F) \in Nat /\ Cardinality(G) \in Nat
  BY <1>2, FS_CardinalityType
<1>4. F \ {w} = G \ {w} /\ (w \in F <=> wk[w] \in A) /\ (w \in G <=> s \in A)
  BY DEF TypeOK, InWorker
<1> HIDE DEF F, G
<1>5. /\ wk[w] \notin A /\ s \in A => Cardinality(G) = Cardinality(F) + 1
      /\ wk[w] \in A /\ s \notin A => Cardinality(G) = Cardinality(F) - 1
      /\ (wk[w] \in A <=> s \in A) => Cardinality(G) = Cardinality(F)
  BY <1>2, <1>4, OneDiffers
<1> QED BY <1>1, <1>3, <1>5 DEF F

LEMMA ManagerMoves ==
  ASSUME TypeOK, NEW m \in Managers, NEW s, mgr' = [mgr EXCEPT ![m] = s], NEW A
  PROVE  /\ Cardinality(InManager(A)) \in Nat /\ Cardinality(InManager(A))' \in Nat
         /\ mgr[m] \notin A /\ s \in A =>
              Cardinality(InManager(A))' = Cardinality(InManager(A)) + 1
         /\ mgr[m] \in A /\ s \notin A =>
              Cardinality(InManager(A))' = Cardinality(InManager(A)) - 1
         /\ (mgr[m] \in A <=> s \in A) =>
              Cardinality(InManager(A))' = Cardinality(InManager(A))
<1> DEFINE F == InManager(A)
           G == {t \in Managers : mgr'[t] \in A}
<1>1. G = InManager(A)'
  BY DEF InManager
<1>2. IsFiniteSet(F) /\ IsFiniteSet(G)
  BY FS_Subset, ManagersAssumption DEF InManager
<1>3. Cardinality(F) \in Nat /\ Cardinality(G) \in Nat
  BY <1>2, FS_CardinalityType
<1>4. F \ {m} = G \ {m} /\ (m \in F <=> mgr[m] \in A) /\ (m \in G <=> s \in A)
  BY DEF TypeOK, InManager
<1> HIDE DEF F, G
<1>5. /\ mgr[m] \notin A /\ s \in A => Cardinality(G) = Cardinality(F) + 1
      /\ mgr[m] \in A /\ s \notin A => Cardinality(G) = Cardinality(F) - 1
      /\ (mgr[m] \in A <=> s \in A) => Cardinality(G) = Cardinality(F)
  BY <1>2, <1>4, OneDiffers
<1> QED BY <1>1, <1>3, <1>5 DEF F

--------------------------------------------------------------------------------
(* The barrier between two requests. *)

\* A worker in the inner loop has seen done, which stays until it is through.
Draining ==
  \A w \in Workers :
    /\ draining[w] =>
         done /\ wk[w] \in {"drain", "fetch", "bytes", "files", "spread", "q_done"}
    /\ wk[w] \in {"drain", "q_done"} => draining[w]

\* Where the main thread is fixes the flags, and whether there are managers.
Phases ==
  /\ master # "join" => \A m \in Managers : mgr[m] = "none"
  /\ done <=> master \in {"collect", "q_done_wait", "report", "var_init"}
  /\ ack => master \in {"accept", "join", "unack"}
  /\ ~done => q_done = 0

\* No more workers have been counted than are behind the barrier, and the first of
\* them found the queue empty.
Counted ==
  /\ q_done <= Cardinality(InWorker({"ack", "ack_wait"}))
  /\ q_done > 0 \/ (\E w \in Workers : wk[w] = "q_done") => queue = <<>>

Barrier == Draining /\ Phases /\ Counted /\ ReportAtQuiescence

LEMMA BarrierInit == Init => Barrier
<1> SUFFICES ASSUME Init PROVE Barrier
  OBVIOUS
<1>1. Cardinality(InWorker({"ack", "ack_wait"})) \in Nat
  BY Counts
<1> QED BY <1>1 DEF Init, Barrier, Draining, Phases, Counted, ReportAtQuiescence

LEMMA DrainingNext == TypeOK /\ Barrier /\ [Next]_vars => Draining'
<1> SUFFICES ASSUME TypeOK, Barrier, [Next]_vars PROVE Draining'
  OBVIOUS
<1> USE DEF TypeOK, Barrier, Draining
<1>1. ASSUME Accept PROVE Draining'
  BY <1>1 DEF Accept
<1>2. ASSUME MasterStep PROVE Draining'
  <2>1. CASE JoinManagers \/ Unack \/ Collect \/ Report
    BY <2>1 DEF JoinManagers, Unack, Collect, Report
  <2>2. CASE SetDone \/ SetAck
    BY <2>2 DEF SetDone, SetAck, WakeAll
  <2>3. CASE VarInit
    BY <2>3 DEF VarInit, ReportAtQuiescence, InWorker, WorkerStates
  <2> QED BY <1>2, <2>1, <2>2, <2>3 DEF MasterStep
<1>3. ASSUME NEW m \in Managers, ManagerStep(m) PROVE Draining'
  <2>1. CASE SignalNotEmpty(m)
    BY <2>1 DEF SignalNotEmpty, Signalled
  <2>2. CASE Connect(m) \/ SendErr(m) \/ ReceiveName(m) \/ ListingCut(m) \/ ListingEnds(m)
    BY <2>2 DEF Connect, SendErr, ReceiveName, ListingCut, ListingEnds
  <2>3. CASE ManagerSleep(m) \/ Push(m)
    BY <2>3 DEF ManagerSleep, Push
  <2> QED BY <1>3, <2>1, <2>2, <2>3 DEF ManagerStep
<1>4. ASSUME NEW w \in Workers, WorkerStep(w) PROVE Draining'
  <2>1. CASE WorkerSleep(w) \/ PopItem(w) \/ PopThrows(w) \/ EnterDrain(w)
    BY <2>1 DEF WorkerSleep, PopItem, PopThrows, EnterDrain
  <2>2. CASE LowerFull(w)
    BY <2>2 DEF LowerFull
  <2>3. CASE FetchReceives(w) \/ FetchRefused(w) \/ AddBytes(w) \/ AddFile(w)
    BY <2>3 DEF FetchReceives, FetchRefused, AddBytes, AddFile
  <2>4. CASE FetchNoSuchFile(w) \/ PushSpread(w)
    BY <2>4 DEF FetchNoSuchFile, PushSpread, Loop
  <2>5. CASE DrainPop(w) \/ DrainEnds(w) \/ QDone(w) \/ AwaitAck(w)
    BY <2>5 DEF DrainPop, DrainEnds, QDone, AwaitAck
  <2> QED BY <1>4, <2>1, <2>2, <2>3, <2>4, <2>5 DEF WorkerStep
<1>5. ASSUME SpuriousWakeup PROVE Draining'
  BY <1>5 DEF SpuriousWakeup
<1>6. ASSUME UNCHANGED vars PROVE Draining'
  BY <1>6
<1> QED BY <1>1, <1>2, <1>3, <1>4, <1>5, <1>6 DEF Next

LEMMA PhasesNext == TypeOK /\ Barrier /\ [Next]_vars => Phases'
<1> SUFFICES ASSUME TypeOK, Barrier, [Next]_vars PROVE Phases'
  OBVIOUS
<1> USE DEF TypeOK, Barrier, Phases
<1>1. ASSUME Accept PROVE Phases'
  BY <1>1 DEF Accept
<1>2. ASSUME MasterStep PROVE Phases'
  <2>1. CASE JoinManagers
    BY <2>1 DEF JoinManagers
  <2>2. CASE Unack \/ SetDone
    BY <2>2 DEF Unack, SetDone
  <2>3. CASE Collect \/ Report
    BY <2>3 DEF Collect, Report
  <2>4. CASE VarInit
    BY <2>4 DEF VarInit
  <2>5. CASE SetAck
    BY <2>5 DEF SetAck
  <2> QED BY <1>2, <2>1, <2>2, <2>3, <2>4, <2>5 DEF MasterStep
<1>3. ASSUME NEW m \in Managers, ManagerStep(m) PROVE Phases'
  <2>1. UNCHANGED <<master, done, ack, q_done>> /\ mgr[m] # "none"
    <3>1. CASE Connect(m) \/ SendErr(m) \/ ReceiveName(m) \/ ListingCut(m) \/ ListingEnds(m)
      BY <3>1 DEF Connect, SendErr, ReceiveName, ListingCut, ListingEnds
    <3>2. CASE ManagerSleep(m) \/ Push(m) \/ SignalNotEmpty(m)
      BY <3>2 DEF ManagerSleep, Push, SignalNotEmpty
    <3> QED BY <1>3, <3>1, <3>2 DEF ManagerStep
  <2> QED BY <2>1
<1>4. ASSUME NEW w \in Workers, WorkerStep(w) PROVE Phases'
  <2>1. CASE LowerFull(w)
    BY <2>1 DEF LowerFull, Signalled
  <2>2. CASE QDone(w)
    BY <2>2 DEF QDone, Draining
  <2>3. CASE WorkerSleep(w) \/ PopItem(w) \/ PopThrows(w) \/ EnterDrain(w)
    BY <2>3 DEF WorkerSleep, PopItem, PopThrows, EnterDrain
  <2>4. CASE FetchReceives(w) \/ FetchNoSuchFile(w) \/ FetchRefused(w)
    BY <2>4 DEF FetchReceives, FetchNoSuchFile, FetchRefused
  <2>5. CASE AddBytes(w) \/ AddFile(w) \/ PushSpread(w)
    BY <2>5 DEF AddBytes, AddFile, PushSpread
  <2>6. CASE DrainPop(w) \/ DrainEnds(w) \/ AwaitAck(w)
    BY <2>6 DEF DrainPop, DrainEnds, AwaitAck
  <2> QED BY <1>4, <2>1, <2>2, <2>3, <2>4, <2>5, <2>6 DEF WorkerStep
<1>5. ASSUME SpuriousWakeup PROVE Phases'
  BY <1>5 DEF SpuriousWakeup
<1>6. ASSUME UNCHANGED vars PROVE Phases'
  BY <1>6
<1> QED BY <1>1, <1>2, <1>3, <1>4, <1>5, <1>6 DEF Next

LEMMA CountedNext == TypeOK /\ Barrier /\ [Next]_vars => Counted'
<1> SUFFICES ASSUME TypeOK, Barrier, [Next]_vars PROVE Counted'
  OBVIOUS
<1> DEFINE Behind == InWorker({"ack", "ack_wait"})
<1> USE DEF Barrier
<1>0. Cardinality(Behind) \in Nat /\ q_done \in Nat
  BY Counts DEF TypeOK
<1>1. ASSUME UNCHANGED <<wk, q_done, queue>> PROVE Counted'
  BY <1>1 DEF Counted, InWorker
<1>2. ASSUME MasterStep PROVE Counted'
  <2>1. CASE JoinManagers \/ Unack \/ Collect \/ Report
    BY <1>1, <2>1 DEF JoinManagers, Unack, Collect, Report
  <2>2. CASE SetDone \/ SetAck
    <3>1. /\ InWorker({"ack", "ack_wait"})' = InWorker({"ack", "ack_wait"})
          /\ \A w \in Workers : wk'[w] = "q_done" <=> wk[w] = "q_done"
          /\ UNCHANGED <<q_done, queue>>
      BY <2>2 DEF SetDone, SetAck, WakeAll, InWorker, TypeOK
    <3> QED BY <3>1 DEF Counted
  <2>3. CASE VarInit
    <3>1. q_done' = 0 /\ UNCHANGED <<wk, queue>>
      BY <2>3 DEF VarInit
    <3>2. Cardinality(Behind)' = Cardinality(Behind)
      BY <3>1 DEF InWorker
    <3> QED BY <1>0, <3>1, <3>2 DEF Counted
  <2> QED BY <1>2, <2>1, <2>2, <2>3 DEF MasterStep
<1>3. ASSUME NEW m \in Managers, ManagerStep(m) PROVE Counted'
  <2>1. mgr[m] # "none" /\ UNCHANGED q_done
    <3>1. CASE Connect(m) \/ SendErr(m) \/ ReceiveName(m) \/ ListingCut(m) \/ ListingEnds(m)
      BY <3>1 DEF Connect, SendErr, ReceiveName, ListingCut, ListingEnds
    <3>2. CASE ManagerSleep(m) \/ Push(m) \/ SignalNotEmpty(m)
      BY <3>2 DEF ManagerSleep, Push, SignalNotEmpty
    <3> QED BY <1>3, <3>1, <3>2 DEF ManagerStep
  <2>2. q_done = 0 /\ \A w \in Workers : wk[w] # "q_done"
    BY <2>1 DEF Phases, Draining
  <2>3. \A w \in Workers : wk'[w] # "q_done"
    <3>1. CASE Connect(m) \/ SendErr(m) \/ ReceiveName(m) \/ ListingCut(m) \/ ListingEnds(m)
      BY <2>2, <3>1 DEF Connect, SendErr, ReceiveName, ListingCut, ListingEnds
    <3>2. CASE ManagerSleep(m) \/ Push(m)
      BY <2>2, <3>2 DEF ManagerSleep, Push
    <3>3. CASE SignalNotEmpty(m)
      BY <2>2, <3>3 DEF SignalNotEmpty, Signalled, TypeOK
    <3> QED BY <1>3, <3>1, <3>2, <3>3 DEF ManagerStep
  <2>4. Cardinality(Behind)' \in Nat
    <3>1. IsFiniteSet({w \in Workers : wk'[w] \in {"ack", "ack_wait"}})
      BY FS_Subset, WorkersAssumption
    <3> QED BY <3>1, FS_CardinalityType DEF InWorker
  <2> QED BY <2>1, <2>2, <2>3, <2>4 DEF Counted
<1>4. ASSUME NEW w \in Workers, WorkerStep(w) PROVE Counted'
  <2>1. CASE WorkerSleep(w) \/ PopThrows(w) \/ EnterDrain(w) \/ LowerFull(w)
             \/ FetchReceives(w) \/ FetchNoSuchFile(w) \/ FetchRefused(w)
             \/ AddBytes(w) \/ AddFile(w) \/ PushSpread(w)
    <3>1. UNCHANGED <<q_done, queue>>
      BY <2>1 DEF WorkerSleep, PopThrows, EnterDrain, LowerFull, FetchReceives,
                  FetchNoSuchFile, FetchRefused, AddBytes, AddFile, PushSpread
    <3>2. PICK s : /\ wk' = [wk EXCEPT ![w] = s]
                   /\ wk[w] \notin {"ack", "ack_wait"} /\ s \notin {"ack", "ack_wait", "q_done"}
      <4>1. CASE WorkerSleep(w) \/ EnterDrain(w) \/ LowerFull(w)
        BY <4>1 DEF WorkerSleep, EnterDrain, LowerFull
      <4>2. CASE PopThrows(w)
        BY <4>2 DEF PopThrows, TypeOK
      <4>3. CASE FetchReceives(w) \/ FetchRefused(w) \/ AddBytes(w) \/ AddFile(w)
        BY <4>3 DEF FetchReceives, FetchRefused, AddBytes, AddFile
      <4>4. CASE FetchNoSuchFile(w) \/ PushSpread(w)
        BY <4>4 DEF FetchNoSuchFile, PushSpread, Loop
      <4> QED BY <2>1, <4>1, <4>2, <4>3, <4>4
    <3>3. Cardinality(Behind)' = Cardinality(Behind)
      BY <3>2, WorkerMoves
    <3>4. \A v \in Workers : wk'[v] = "q_done" => wk[v] = "q_done"
      BY <3>2 DEF TypeOK
    <3> QED BY <3>1, <3>3, <3>4 DEF Counted
  <2>2. CASE PopItem(w) \/ DrainPop(w)
    <3>1. /\ queue # <<>> /\ UNCHANGED q_done
          /\ \E s \in {"lower", "fetch"} : wk' = [wk EXCEPT ![w] = s]
          /\ wk[w] \in {"check", "drain"}
      BY <2>2 DEF PopItem, DrainPop
    <3>2. Cardinality(Behind)' = Cardinality(Behind)
      <4>1. PICK s : wk' = [wk EXCEPT ![w] = s] /\ s \notin {"ack", "ack_wait"}
        BY <3>1
      <4>2. wk[w] \notin {"ack", "ack_wait"}
        BY <3>1
      <4> HIDE <3>1
      <4> QED BY <4>1, <4>2, WorkerMoves
    <3>3. q_done = 0 /\ \A v \in Workers : wk[v] # "q_done"
      BY <1>0, <3>1 DEF Counted
    <3>4. \A v \in Workers : wk'[v] # "q_done"
      BY <3>1, <3>3 DEF TypeOK
    <3> QED BY <3>1, <3>2, <3>3, <3>4 DEF Counted
  <2>3. CASE DrainEnds(w)
    <3>1. /\ queue' = <<>> /\ UNCHANGED q_done
          /\ wk' = [wk EXCEPT ![w] = "q_done"] /\ wk[w] = "drain"
      BY <2>3 DEF DrainEnds
    <3>2. Cardinality(Behind)' = Cardinality(Behind)
      <4>1. PICK s : wk' = [wk EXCEPT ![w] = s] /\ s \notin {"ack", "ack_wait"}
        BY <3>1
      <4>2. wk[w] \notin {"ack", "ack_wait"}
        BY <3>1
      <4> QED BY <4>1, <4>2, WorkerMoves
    <3> QED BY <3>1, <3>2 DEF Counted
  <2>4. CASE QDone(w)
    <3>1. /\ q_done' = q_done + 1 /\ UNCHANGED queue
          /\ wk' = [wk EXCEPT ![w] = "ack"] /\ wk[w] = "q_done"
      BY <2>4 DEF QDone
    <3>2. Cardinality(Behind)' = Cardinality(Behind) + 1
      BY <3>1, WorkerMoves
    <3>3. queue' = <<>>
      BY <3>1 DEF Counted
    <3> QED BY <1>0, <3>1, <3>2, <3>3 DEF Counted
  <2>5. CASE AwaitAck(w)
    <3>1. /\ UNCHANGED <<q_done, queue>> /\ wk[w] = "ack"
          /\ wk' = [wk EXCEPT ![w] = IF ack THEN "check" ELSE "ack_wait"]
      BY <2>5 DEF AwaitAck
    <3>2. \A v \in Workers : wk'[v] = "q_done" => wk[v] = "q_done"
      BY <3>1 DEF TypeOK
    <3>3. CASE ack
      <4>1. q_done = 0
        BY <3>3 DEF Phases
      <4>2. Cardinality(Behind)' \in Nat
        BY <3>1, WorkerMoves
      <4> QED BY <3>1, <3>2, <4>1, <4>2 DEF Counted
    <3>4. CASE ~ack
      <4>1. Cardinality(Behind)' = Cardinality(Behind)
        BY <3>1, <3>4, WorkerMoves
      <4> QED BY <3>1, <3>2, <4>1 DEF Counted
    <3> QED BY <3>3, <3>4
  <2> QED BY <1>4, <2>1, <2>2, <2>3, <2>4, <2>5 DEF WorkerStep
<1>5. ASSUME SpuriousWakeup PROVE Counted'
  <2>1. /\ InWorker({"ack", "ack_wait"})' = InWorker({"ack", "ack_wait"})
        /\ \A w \in Workers : wk'[w] = "q_done" <=> wk[w] = "q_done"
        /\ UNCHANGED <<q_done, queue>>
    BY <1>5 DEF SpuriousWakeup, InWorker, TypeOK
  <2> QED BY <2>1 DEF Counted
<1> QED BY <1>1, <1>2, <1>3, <1>4, <1>5 DEF Next, Accept

\* ReportAtQuiescence, state by state of each thread.
Ending == master \in {"report", "var_init", "set_ack"}

Quiet ==
  /\ \A m \in Managers : mgr[m] = "none"
  /\ queue = <<>>
  /\ \A w \in Workers : wk[w] \in {"ack", "ack_wait"}

LEMMA ReportNext == TypeOK /\ Barrier /\ [Next]_vars /\ TypeOK' => ReportAtQuiescence'
<1> SUFFICES ASSUME TypeOK, Barrier, [Next]_vars, TypeOK' PROVE ReportAtQuiescence'
  OBVIOUS
<1> USE DEF Barrier
<1>1. Ending => Quiet
  BY DEF Ending, Quiet, ReportAtQuiescence, InManager, InWorker, TypeOK
<1>2. SUFFICES ASSUME Ending' PROVE Quiet'
  BY DEF Ending, Quiet, ReportAtQuiescence, InManager, InWorker, TypeOK
<1>3. ASSUME UNCHANGED <<mgr, queue, wk>>, Ending PROVE Quiet'
  BY <1>1, <1>3 DEF Quiet
<1>4. ASSUME MasterStep PROVE Quiet'
  <2>1. CASE JoinManagers \/ Unack \/ SetDone \/ SetAck
    BY <1>2, <2>1 DEF JoinManagers, Unack, SetDone, SetAck, Ending
  <2>2. CASE Collect
    <3>0. Cardinality(Workers) \in Nat
      BY FS_CardinalityType, WorkersAssumption
    <3>1. /\ q_done >= Cardinality(Workers) /\ UNCHANGED <<mgr, queue, wk>>
          /\ master = "collect"
      BY <1>2, <2>2, <3>0 DEF Collect, Ending, TypeOK
    <3>2. InWorker({"ack", "ack_wait"}) = Workers
      <4>1. InWorker({"ack", "ack_wait"}) \in SUBSET Workers
        BY DEF InWorker
      <4>2. /\ Cardinality(InWorker({"ack", "ack_wait"})) <= Cardinality(Workers)
            /\ Cardinality(Workers) = Cardinality(InWorker({"ack", "ack_wait"})) =>
                 Workers = InWorker({"ack", "ack_wait"})
        BY <4>1, FS_Subset, WorkersAssumption
      <4>3. Cardinality(Workers) \in Nat /\ q_done \in Nat
            /\ Cardinality(InWorker({"ack", "ack_wait"})) \in Nat
        BY Counts, FS_CardinalityType, WorkersAssumption DEF TypeOK
      <4> QED BY <3>1, <4>2, <4>3 DEF Counted
    <3>3. queue = <<>>
      <4>1. Cardinality(Workers) > 0
        BY FS_EmptySet, FS_CardinalityType, WorkersAssumption
      <4>2. q_done > 0
        BY <3>1, <4>1, FS_CardinalityType, WorkersAssumption DEF TypeOK
      <4> QED BY <4>2 DEF Counted
    <3>4. \A m \in Managers : mgr[m] = "none"
      BY <3>1 DEF Phases
    <3> QED BY <3>1, <3>2, <3>3, <3>4 DEF Quiet, InWorker
  <2>3. CASE Report \/ VarInit
    BY <1>3, <2>3 DEF Report, VarInit, Ending
  <2> QED BY <1>4, <2>1, <2>2, <2>3 DEF MasterStep
<1>5. ASSUME NEW m \in Managers, ManagerStep(m) PROVE Quiet'
  <2>1. master' = master /\ mgr[m] # "none"
    <3>1. CASE Connect(m) \/ SendErr(m) \/ ReceiveName(m) \/ ListingCut(m) \/ ListingEnds(m)
      BY <3>1 DEF Connect, SendErr, ReceiveName, ListingCut, ListingEnds
    <3>2. CASE ManagerSleep(m) \/ Push(m) \/ SignalNotEmpty(m)
      BY <3>2 DEF ManagerSleep, Push, SignalNotEmpty
    <3> QED BY <1>5, <3>1, <3>2 DEF ManagerStep
  <2> QED BY <1>1, <1>2, <2>1 DEF Ending, Quiet
<1>6. ASSUME NEW w \in Workers, WorkerStep(w) PROVE Quiet'
  <2>1. CASE AwaitAck(w)
    <3>1. Ending
      BY <1>2, <2>1 DEF AwaitAck, Ending
    <3>2. ~ack
      BY <3>1 DEF Phases, Ending
    <3> QED BY <1>1, <2>1, <3>1, <3>2 DEF AwaitAck, Quiet, TypeOK
  <2>2. CASE QDone(w)
    <3>1. done /\ wk[w] = "q_done"
      BY <2>2 DEF QDone, Draining
    <3>2. ~Ending
      BY <1>1, <3>1 DEF Quiet
    <3> QED BY <1>2, <2>2, <3>2 DEF QDone, Ending
  <2>3. ASSUME wk[w] \notin {"ack", "ack_wait"}, master' = master PROVE Quiet'
    BY <1>1, <1>2, <2>3 DEF Quiet, Ending
  <2>4. CASE WorkerSleep(w) \/ PopItem(w) \/ PopThrows(w) \/ EnterDrain(w) \/ LowerFull(w)
    BY <2>3, <2>4 DEF WorkerSleep, PopItem, PopThrows, EnterDrain, LowerFull
  <2>5. CASE FetchReceives(w) \/ FetchNoSuchFile(w) \/ FetchRefused(w) \/ DrainPop(w)
             \/ DrainEnds(w)
    BY <2>3, <2>5 DEF FetchReceives, FetchNoSuchFile, FetchRefused, DrainPop, DrainEnds
  <2>6. CASE AddBytes(w) \/ AddFile(w) \/ PushSpread(w)
    BY <2>3, <2>6 DEF AddBytes, AddFile, PushSpread
  <2> QED BY <1>6, <2>1, <2>2, <2>4, <2>5, <2>6 DEF WorkerStep
<1>7. ASSUME SpuriousWakeup PROVE Quiet'
  BY <1>1, <1>2, <1>7 DEF SpuriousWakeup, Ending, Quiet, TypeOK
<1>8. ASSUME UNCHANGED vars PROVE Quiet'
  BY <1>2, <1>3, <1>8 DEF Ending
<1>9. ASSUME Accept PROVE Quiet'
  BY <1>2, <1>9 DEF Accept, Ending
<1> QED BY <1>4, <1>5, <1>6, <1>7, <1>8, <1>9 DEF Next

LEMMA BarrierInvariant == Spec => []Barrier
<1>1. Typed /\ Barrier /\ [Next]_vars => Barrier'
  <2> SUFFICES ASSUME Typed, Barrier, [Next]_vars PROVE Barrier'
    OBVIOUS
  <2>1. TypeOK /\ TypeOK'
    BY TypeNext DEF Typed
  <2> QED BY <2>1, DrainingNext, PhasesNext, CountedNext, ReportNext DEF Barrier
<1> QED BY TypedInvariant, BarrierInit, <1>1, PTL DEF Spec

\* When the main thread reads the statistics and resets the shared state, without
\* the locks of the workers, every other thread is through with the request.
THEOREM ReportIsQuiescent == Spec => []ReportAtQuiescence
<1>1. Barrier => ReportAtQuiescence
  BY DEF Barrier
<1> QED BY BarrierInvariant, <1>1, PTL

--------------------------------------------------------------------------------
(* The report.  The sum that it is compared with is a fold over the lengths, in *)
(* an order that the operators of the library leave open; in an int the order   *)
(* makes no difference.                                                         *)

\* The sum, in an int, of the values of f at the elements of S.
Total(f, S) == FoldFunctionOnSet(LAMBDA n, total : WrapInt(n + total), 0, f, S)

\* What the fold does with an element, and the element that it takes first.
Adding(f, S) == [x \in S |-> [n \in Int |-> WrapInt(f[x] + n)]]
First(S)     == CHOOSE x \in S : TRUE
Taking(S)    == [s \in SUBSET S |-> First(s)]

\* To cut a number off before the addition or after it makes no difference.
LEMMA WrapSum ==
  ASSUME NEW a \in Int, NEW b \in Int
  PROVE  WrapInt(WrapInt(a) + b) = WrapInt(a + b)
<1> DEFINE w == 2 * IntMax + 2
           s == (a + IntMax + 1) % w
<1>1. w \in Nat /\ w # 0 /\ a + IntMax + 1 \in Int
  BY IntAssumption
<1>2. s \in Int /\ (s + b) % w = (a + IntMax + 1 + b) % w
  <2> HIDE DEF w
  <2> QED BY <1>1, RemainderOfSum
<1>3. WrapInt(a) = s - (IntMax + 1)
  BY DEF WrapInt
<1>4. WrapInt(a) + b + IntMax + 1 = s + b /\ a + b + IntMax + 1 = a + IntMax + 1 + b
  <2> HIDE DEF s
  <2> QED BY <1>2, <1>3, IntAssumption
<1>5. /\ WrapInt(WrapInt(a) + b) = ((WrapInt(a) + b + IntMax + 1) % w) - (IntMax + 1)
      /\ WrapInt(a + b) = ((a + b + IntMax + 1) % w) - (IntMax + 1)
  BY DEF WrapInt
<1> QED BY <1>2, <1>4, <1>5

LEMMA WrapZero == WrapInt(0) = 0
<1> DEFINE w == 2 * IntMax + 2
           r == IntMax + 1
<1>1. r \in Int /\ r \in 0..(w - 1) /\ w \in Nat /\ w # 0
  BY IntAssumption
<1>2. r % w = r
  <2>1. r = w * 0 + r
    <3> HIDE DEF w, r
    <3> QED BY <1>1
  <2> HIDE DEF w, r
  <2> QED BY <1>1, <2>1, Remainder
<1>3. 0 + IntMax + 1 = r
  BY IntAssumption
<1>4. WrapInt(0) = ((0 + IntMax + 1) % w) - r
  BY DEF WrapInt
<1> QED BY <1>1, <1>2, <1>3, <1>4

\* The sum is read from a function on subsets.
LEMMA TotalIsFold ==
  ASSUME NEW S, IsFiniteSet(S), NEW f, \A x \in S : f[x] \in Int, NEW T \in SUBSET S
  PROVE  \E F : IsFold(F, T, Int, 0, Adding(f, S), Taking(S)) /\ Total(f, T) = F[T]
<1>1. \A x \in T, n \in Int : Adding(f, S)[x][n] \in Int
  BY WrapIntType DEF Adding
<1>2. \A s \in SUBSET T : s # {} => Taking(S)[s] \in s
  BY DEF Taking, First
<1>3. PICK F : IsFold(F, T, Int, 0, Adding(f, S), Taking(S))
  <2>1. IsFiniteSet(T) /\ 0 \in Int
    BY FS_Subset
  <2> QED BY ONLY <1>1, <1>2, <2>1, FoldExists
<1>4. F = [s \in SUBSET T |->
             IF s = {} THEN 0
             ELSE WrapInt(f[CHOOSE x \in s : TRUE] + F[s \ {CHOOSE x \in s : TRUE}])]
  BY <1>2, <1>3 DEF IsFold, Adding, Taking, First
<1> DEFINE iter == CHOOSE iter : iter = [s \in SUBSET T |->
             IF s = {} THEN 0
             ELSE WrapInt(f[CHOOSE x \in s : TRUE] + iter[s \ {CHOOSE x \in s : TRUE}])]
<1>5. iter = [s \in SUBSET T |->
             IF s = {} THEN 0
             ELSE WrapInt(f[CHOOSE x \in s : TRUE] + iter[s \ {CHOOSE x \in s : TRUE}])]
  BY <1>4
<1>6. Total(f, T) = iter[T]
  BY DEF Total, FoldFunctionOnSet, MapThenFoldSet
<1> HIDE DEF iter
<1>7. iter[T] = F[T]
  <2> DEFINE Good == {s \in SUBSET T : iter[s] = F[s]}
  <2>1. ASSUME NEW s \in SUBSET T, \A u \in SUBSET s : u # s => u \in Good
        PROVE  s \in Good
    <3>1. CASE s = {}
      BY <1>4, <1>5, <3>1
    <3>2. CASE s # {}
      <4> DEFINE x == CHOOSE x \in s : TRUE
      <4>1. x \in s
        BY <3>2
      <4>2. iter[s \ {x}] = F[s \ {x}]
        BY <2>1, <4>1
      <4>3. /\ iter[s] = WrapInt(f[x] + iter[s \ {x}])
            /\ F[s] = WrapInt(f[x] + F[s \ {x}])
        BY <1>4, <1>5, <3>2
      <4> QED BY <4>2, <4>3
    <3> QED BY <3>1, <3>2
  <2>2. T \in Good
    <3> HIDE DEF Good
    <3> QED BY <2>1, FS_Subset, SubsetInduction
  <2> QED BY <2>2
<1> QED BY <1>3, <1>6, <1>7

\* The equation of the sum, with the element that is taken first.
LEMMA TotalEquation ==
  ASSUME NEW S, IsFiniteSet(S), NEW f, \A x \in S : f[x] \in Int
  PROVE  /\ Total(f, S) \in Int
         /\ Total(f, {}) = 0
         /\ S # {} => /\ First(S) \in S
                      /\ Total(f, S) = WrapInt(f[First(S)] + Total(f, S \ {First(S)}))
<1> DEFINE x == First(S)
           T == S \ {x}
<1>1. PICK F : IsFold(F, S, Int, 0, Adding(f, S), Taking(S)) /\ Total(f, S) = F[S]
  BY TotalIsFold
<1>2. PICK G : IsFold(G, T, Int, 0, Adding(f, S), Taking(S)) /\ Total(f, T) = G[T]
  BY TotalIsFold
<1>3. PICK H : IsFold(H, {}, Int, 0, Adding(f, S), Taking(S)) /\ Total(f, {}) = H[{}]
  BY TotalIsFold
<1>4. Total(f, S) \in Int /\ Total(f, {}) = 0
  <2>1. S \in SUBSET S /\ {} \in SUBSET {}
    OBVIOUS
  <2>2. F[S] \in Int
    BY ONLY <1>1, <2>1 DEF IsFold
  <2>3. H[{}] = 0
    BY ONLY <1>3, <2>1 DEF IsFold
  <2> QED BY <1>1, <1>3, <2>2, <2>3
<1>5. \A s \in SUBSET S : s # {} => Taking(S)[s] \in s
  BY DEF Taking, First
<1>6. F[T] = G[T]
  <2> HIDE DEF T
  <2>1. T \in SUBSET S
    BY DEF T
  <2> QED BY <1>1, <1>2, <1>5, <2>1, FoldIsUnique
<1>7. ASSUME S # {}
      PROVE  x \in S /\ Total(f, S) = WrapInt(f[x] + Total(f, T))
  <2>0. x = Taking(S)[S]
    BY DEF Taking
  <2>1. x \in S /\ F[T] \in Int
    BY <2>0, <1>1, <1>5, <1>7 DEF IsFold
  <2>2. F[S] = Adding(f, S)[x][F[T]]
    BY <2>0, <1>1, <1>7 DEF IsFold
  <2>3. F[S] = WrapInt(f[x] + Total(f, T))
    BY <2>1, <2>2, <1>2, <1>6 DEF Adding
  <2> QED BY <2>1, <2>3, <1>1
<1> QED BY <1>4, <1>7

\* Only the values at the elements of S count.
LEMMA TotalOfSame ==
  ASSUME NEW S, IsFiniteSet(S), NEW f, \A x \in S : f[x] \in Int,
         NEW g, \A x \in S : g[x] = f[x]
  PROVE  Total(g, S) = Total(f, S)
<1> DEFINE Good == {s \in SUBSET S : Total(g, s) = Total(f, s)}
<1>1. ASSUME NEW s \in SUBSET S, \A u \in SUBSET s : u # s => u \in Good
      PROVE  s \in Good
  <2>0. IsFiniteSet(s) /\ (\A y \in s : f[y] \in Int /\ g[y] \in Int)
    BY FS_Subset
  <2>1. CASE s = {}
    BY <2>0, <2>1, TotalEquation
  <2>2. CASE s # {}
    <3> DEFINE x == First(s)
    <3>1. x \in s /\ Total(f, s) = WrapInt(f[x] + Total(f, s \ {x}))
      BY <2>0, <2>2, TotalEquation
    <3>2. Total(g, s) = WrapInt(g[x] + Total(g, s \ {x}))
      BY <2>0, <2>2, TotalEquation
    <3>3. Total(g, s \ {x}) = Total(f, s \ {x})
      BY <3>1, <1>1
    <3> HIDE DEF x
    <3> QED BY <3>1, <3>2, <3>3
  <2> QED BY <2>1, <2>2
<1>2. S \in Good
  <2> HIDE DEF Good
  <2> QED BY <1>1, SubsetInduction
<1> QED BY <1>2

\* An element more adds its value, whichever elements are taken before it.
LEMMA TotalAdds ==
  ASSUME NEW U, IsFiniteSet(U), NEW f, \A x \in U : f[x] \in Int,
         NEW S \in SUBSET U, NEW x \in U, x \notin S
  PROVE  Total(f, S \cup {x}) = WrapInt(f[x] + Total(f, S))
<1> DEFINE Good == {s \in SUBSET U : \A y \in U \ s :
                      Total(f, s \cup {y}) = WrapInt(f[y] + Total(f, s))}
<1>1. \A s \in SUBSET U : IsFiniteSet(s) /\ (\A z \in s : f[z] \in Int) /\ Total(f, s) \in Int
  BY FS_Subset, TotalEquation
<1>2. ASSUME NEW s \in SUBSET S, \A u \in SUBSET s : u # s => u \in Good
      PROVE  s \in Good
  <2> SUFFICES ASSUME NEW y \in U \ s
               PROVE  Total(f, s \cup {y}) = WrapInt(f[y] + Total(f, s))
    OBVIOUS
  <2> DEFINE c == First(s \cup {y})
             r == s \ {c}
  <2>1. /\ c \in s \cup {y}
        /\ Total(f, s \cup {y}) = WrapInt(f[c] + Total(f, (s \cup {y}) \ {c}))
    <3>1. s \cup {y} \in SUBSET U /\ s \cup {y} # {}
      OBVIOUS
    <3> QED BY <3>1, <1>1, TotalEquation
  <2> HIDE DEF c
  <2>2. CASE c = y
    <3>1. (s \cup {y}) \ {c} = s
      BY <2>2
    <3> QED BY <2>1, <2>2, <3>1
  <2>3. CASE c # y
    <3>1. c \in s /\ r \in SUBSET U /\ c \in U \ r /\ y \in U \ r /\ r \in Good
      BY <2>1, <2>3, <1>2
    <3>2. (s \cup {y}) \ {c} = r \cup {y} /\ r \cup {c} = s
      BY <2>3, <3>1
    <3>3. /\ Total(f, r \cup {y}) = WrapInt(f[y] + Total(f, r))
          /\ Total(f, r \cup {c}) = WrapInt(f[c] + Total(f, r))
      BY <3>1
    <3> DEFINE t == Total(f, r)
               a == f[c]
               b == f[y]
    <3>4. t \in Int /\ a \in Int /\ b \in Int
      BY <1>1, <3>1
    <3>5. Total(f, s \cup {y}) = WrapInt(a + WrapInt(b + t)) /\ Total(f, s) = WrapInt(a + t)
      BY <2>1, <3>2, <3>3
    <3> HIDE DEF t, a, r
    <3>6. WrapInt(a + WrapInt(b + t)) = WrapInt(b + WrapInt(a + t))
      <4> HIDE DEF b
      <4>1. b + t \in Int /\ a + t \in Int
        BY <3>4
      <4>2. /\ WrapInt(WrapInt(b + t) + a) = WrapInt(b + t + a)
            /\ WrapInt(WrapInt(a + t) + b) = WrapInt(a + t + b)
        BY <3>4, <4>1, WrapSum
      <4>3. /\ WrapInt(b + t) + a = a + WrapInt(b + t)
            /\ WrapInt(a + t) + b = b + WrapInt(a + t)
            /\ b + t + a = a + t + b
        BY <3>4, <4>1, WrapIntType
      <4> QED BY <4>2, <4>3
    <3> QED BY <3>5, <3>6
  <2> QED BY <2>2, <2>3
<1>3. S \in Good
  <2> HIDE DEF Good
  <2>1. IsFiniteSet(S)
    BY FS_Subset
  <2> QED BY <1>2, <2>1, SubsetInduction
<1> QED BY <1>3

\* The sum of the lengths after a push.
LEMMA TotalOfAppend ==
  ASSUME NEW s \in Seq(Int), NEW n \in Int
  PROVE  Total(Append(s, n), DOMAIN Append(s, n)) = WrapInt(n + Total(s, DOMAIN s))
<1> DEFINE t == Append(s, n)
           k == Len(s) + 1
<1>1. /\ k \in Nat /\ DOMAIN s = 1..(k - 1) /\ DOMAIN t = 1..k
      /\ t[k] = n /\ (\A i \in 1..(k - 1) : t[i] = s[i] /\ s[i] \in Int)
      /\ \A i \in 1..k : t[i] \in Int
  OBVIOUS
<1>2. IsFiniteSet(1..k) /\ IsFiniteSet(1..(k - 1))
  BY <1>1, FS_Interval
<1> DEFINE S == 1..(k - 1)
           U == 1..k
<1>3. U = S \cup {k} /\ k \in U /\ k \notin S /\ S \in SUBSET U
  <2>1. k \in Nat /\ k >= 1
    OBVIOUS
  <2> HIDE DEF k
  <2> QED BY <2>1
<1> HIDE DEF t, k, S, U
<1>4. Total(t, U) = WrapInt(t[k] + Total(t, S))
  <2>1. IsFiniteSet(U) /\ \A i \in U : t[i] \in Int
    BY <1>1, <1>2 DEF U
  <2> QED BY <2>1, <1>3, TotalAdds
<1>5. Total(t, S) = Total(s, S)
  <2>1. /\ IsFiniteSet(S) /\ \A i \in S : t[i] = s[i] /\ s[i] \in Int
    BY <1>1, <1>2 DEF S
  <2> QED BY <2>1, TotalOfSame
<1> QED BY <1>1, <1>4, <1>5 DEF t, S, U

\* The sum is an int already.
LEMMA TotalIsInt ==
  ASSUME NEW S, IsFiniteSet(S), NEW f, \A x \in S : f[x] \in Int
  PROVE  WrapInt(Total(f, S)) = Total(f, S)
<1>1. CASE S = {}
  BY <1>1, TotalEquation, WrapZero
<1>2. CASE S # {}
  <2> DEFINE x == First(S)
             t == Total(f, S \ {x})
             a == f[x]
  <2>1. x \in S /\ Total(f, S) = WrapInt(a + t)
    BY <1>2, TotalEquation
  <2>2. IsFiniteSet(S \ {x}) /\ \A y \in S \ {x} : f[y] \in Int
    BY FS_Subset
  <2>3. t \in Int /\ a \in Int
    BY <2>1, <2>2, TotalEquation
  <2> HIDE DEF t, a, x
  <2>4. a + t \in Int /\ 0 \in Int
    BY <2>3
  <2>5. WrapInt(WrapInt(a + t) + 0) = WrapInt(a + t + 0)
    BY <2>4, WrapSum
  <2>6. WrapInt(a + t) + 0 = WrapInt(a + t) /\ a + t + 0 = a + t
    BY <2>4, WrapIntType
  <2> QED BY <2>1, <2>5, <2>6
<1> QED BY <1>1, <1>2

\* The workers that have added their bytes, whose length is not in the list yet.
Recording == InWorker({"files", "spread"})

\* The three statistics agree at any time, when the workers that are between two of
\* them are counted.
FilesAgree == files_recvd = Len(spread) + Cardinality(InWorker({"spread"}))
BytesAgree == bytes_recvd = WrapInt(Total(spread, DOMAIN spread) + Total(size, Recording))
Agreed == FilesAgree /\ BytesAgree

\* The sum of the lengths is a fold over a finite set of integers.
LEMMA SpreadSums ==
  ASSUME TypeOK
  PROVE  IsFiniteSet(DOMAIN spread) /\ \A i \in DOMAIN spread : spread[i] \in Int
<1>1. spread \in Seq(Int)
  BY DEF TypeOK
<1>2. /\ Len(spread) \in Nat /\ DOMAIN spread = 1..Len(spread)
      /\ \A i \in 1..Len(spread) : spread[i] \in Int
  BY <1>1
<1> QED BY <1>2, FS_Interval

\* The sums are integers.
LEMMA TotalTypes ==
  ASSUME TypeOK
  PROVE  /\ IsFiniteSet(Recording) /\ (\A w \in Recording : w \in Workers /\ size[w] \in Int)
         /\ Total(size, Recording) \in Int
         /\ Total(spread, DOMAIN spread) \in Int
         /\ Len(spread) \in Nat /\ Cardinality(InWorker({"spread"})) \in Nat
<1>1. IsFiniteSet(Recording) /\ (\A w \in Recording : w \in Workers /\ size[w] \in Int)
  BY Counts DEF Recording, InWorker, TypeOK
<1>2. Len(spread) \in Nat
  BY DEF TypeOK
<1> QED BY <1>1, <1>2, Counts, SpreadSums, TotalEquation

LEMMA AgreedInit == Init => Agreed
<1> SUFFICES ASSUME Init PROVE Agreed
  OBVIOUS
<1>1. Recording = {} /\ InWorker({"spread"}) = {} /\ spread = <<>> /\ DOMAIN spread = {}
  BY DEF Init, Recording, InWorker
<1>2. Total(size, {}) = 0 /\ Total(spread, {}) = 0 /\ Cardinality({}) = 0
  BY TotalEquation, FS_EmptySet
<1>3. Len(spread) = 0
  BY <1>1
<1>4. FilesAgree
  <2>1. Cardinality(InWorker({"spread"})) = 0
    BY <1>1, <1>2
  <2>2. files_recvd = 0
    BY DEF Init
  <2> QED BY <1>3, <2>1, <2>2 DEF FilesAgree
<1>5. BytesAgree
  BY <1>1, <1>2, WrapZero DEF Init, BytesAgree
<1> QED BY <1>4, <1>5 DEF Agreed

\* A step of threads that are not recording leaves the equations alone.
LEMMA AgreedKept ==
  ASSUME TypeOK, Agreed, UNCHANGED statVars,
         \A w \in Workers : /\ wk'[w] \in {"files", "spread"} <=> wk[w] \in {"files", "spread"}
                            /\ wk'[w] = "spread" <=> wk[w] = "spread"
                            /\ wk[w] \in {"files", "spread"} => size'[w] = size[w]
  PROVE  Agreed'
<1>1. Recording' = Recording /\ InWorker({"spread"})' = InWorker({"spread"})
  BY DEF Recording, InWorker
<1>2. \A w \in Recording : size'[w] = size[w]
  BY DEF Recording, InWorker
<1>3. Total(size', Recording) = Total(size, Recording)
  BY <1>2, TotalTypes, TotalOfSame
<1>4. FilesAgree'
  BY <1>1 DEF Agreed, FilesAgree
<1>5. BytesAgree'
  BY <1>1, <1>3 DEF Agreed, BytesAgree
<1> QED BY <1>4, <1>5 DEF Agreed

LEMMA AgreedMaster ==
  ASSUME TypeOK, Barrier, Agreed, MasterStep
  PROVE  Agreed'
<1>1. CASE JoinManagers \/ Unack \/ Collect \/ Report
  <2>1. UNCHANGED <<wk, size, statVars>>
    BY <1>1 DEF JoinManagers, Unack, Collect, Report
  <2> QED BY <2>1, AgreedKept
<1>2. CASE SetDone \/ SetAck
  <2>1. UNCHANGED <<size, statVars>>
    BY <1>2 DEF SetDone, SetAck
  <2>2. \A w \in Workers : /\ wk'[w] \in {"files", "spread"} <=> wk[w] \in {"files", "spread"}
                           /\ wk'[w] = "spread" <=> wk[w] = "spread"
    BY <1>2 DEF SetDone, SetAck, WakeAll, TypeOK
  <2> QED BY <2>1, <2>2, AgreedKept
<1>3. CASE VarInit
  <2>1. /\ bytes_recvd' = 0 /\ files_recvd' = 0 /\ spread' = <<>> /\ DOMAIN spread' = {}
        /\ UNCHANGED wk
    BY <1>3 DEF VarInit
  <2>2. InWorker(WorkerStates \ {"ack", "ack_wait"}) = {}
    BY <1>3 DEF VarInit, Barrier, ReportAtQuiescence
  <2>3. Recording' = {} /\ InWorker({"spread"})' = {}
    BY <2>1, <2>2 DEF Recording, InWorker, WorkerStates
  <2>4. Total(size', {}) = 0 /\ Total(spread', {}) = 0 /\ Cardinality({}) = 0
    BY TotalEquation, FS_EmptySet
  <2>5. Len(spread') = 0
    BY <2>1
  <2>6. FilesAgree'
    <3>1. Cardinality(InWorker({"spread"}))' = 0
      BY <2>3, <2>4
    <3> QED BY <2>1, <2>5, <3>1 DEF FilesAgree
  <2>7. BytesAgree'
    BY <2>1, <2>3, <2>4, WrapZero DEF BytesAgree
  <2> QED BY <2>6, <2>7 DEF Agreed
<1> QED BY <1>1, <1>2, <1>3 DEF MasterStep

LEMMA AgreedManager ==
  ASSUME TypeOK, Agreed, NEW m \in Managers, ManagerStep(m)
  PROVE  Agreed'
<1>1. UNCHANGED <<size, statVars>>
  <2>1. CASE Connect(m) \/ SendErr(m) \/ ReceiveName(m) \/ ListingCut(m) \/ ListingEnds(m)
    BY <2>1 DEF Connect, SendErr, ReceiveName, ListingCut, ListingEnds
  <2>2. CASE ManagerSleep(m) \/ Push(m) \/ SignalNotEmpty(m)
    BY <2>2 DEF ManagerSleep, Push, SignalNotEmpty
  <2> QED BY <2>1, <2>2 DEF ManagerStep
<1>2. \A w \in Workers : /\ wk'[w] \in {"files", "spread"} <=> wk[w] \in {"files", "spread"}
                         /\ wk'[w] = "spread" <=> wk[w] = "spread"
  <2>1. CASE Connect(m) \/ SendErr(m) \/ ReceiveName(m) \/ ListingCut(m) \/ ListingEnds(m)
    BY <2>1 DEF Connect, SendErr, ReceiveName, ListingCut, ListingEnds
  <2>2. CASE ManagerSleep(m) \/ Push(m)
    BY <2>2 DEF ManagerSleep, Push
  <2>3. CASE SignalNotEmpty(m)
    BY <2>3 DEF SignalNotEmpty, Signalled, TypeOK
  <2> QED BY <2>1, <2>2, <2>3 DEF ManagerStep
<1> QED BY <1>1, <1>2, AgreedKept

\* A worker adds its bytes: it is recording from now on.
LEMMA AgreedBytes ==
  ASSUME TypeOK, Agreed, NEW w \in Workers, AddBytes(w)
  PROVE  Agreed'
<1> DEFINE S == Recording
           U == S \cup {w}
           T == Total(spread, DOMAIN spread)
           R == Total(size, S)
<1>1. /\ wk[w] = "bytes" /\ wk' = [wk EXCEPT ![w] = "files"]
      /\ bytes_recvd' = WrapInt(bytes_recvd + size[w])
      /\ UNCHANGED <<size, spread, files_recvd>>
  BY DEF AddBytes
<1>2. w \notin S /\ Recording' = U /\ InWorker({"spread"})' = InWorker({"spread"})
  BY <1>1 DEF Recording, InWorker, TypeOK
<1>3. size[w] \in Int /\ T \in Int /\ R \in Int
  BY TotalTypes DEF TypeOK
<1>4. Total(size, U) = WrapInt(size[w] + R)
  <2>1. IsFiniteSet(U) /\ (\A x \in U : size[x] \in Int) /\ S \in SUBSET U /\ w \in U
    BY <1>3, TotalTypes, FS_AddElement
  <2> HIDE DEF S, U
  <2>2. U = S \cup {w}
    BY DEF U
  <2> QED BY <2>1, <2>2, <1>2, TotalAdds
<1>5. FilesAgree'
  BY <1>1, <1>2 DEF Agreed, FilesAgree
<1>6. BytesAgree'
  <2>1. bytes_recvd = WrapInt(T + R)
    BY DEF Agreed, BytesAgree
  <2>2. BytesAgree' <=> bytes_recvd' = WrapInt(T + Total(size, U))
    BY <1>1, <1>2 DEF BytesAgree
  <2> DEFINE n == size[w]
  <2> HIDE DEF T, R, S, U
  <2>3. WrapInt(WrapInt(T + R) + n) = WrapInt(T + WrapInt(n + R))
    <3>1. n \in Int
      BY <1>3
    <3> HIDE DEF n
    <3>2. T + R \in Int /\ n + R \in Int /\ WrapInt(n + R) \in Int
      BY <1>3, <3>1, WrapIntType
    <3>3. /\ WrapInt(WrapInt(T + R) + n) = WrapInt(T + R + n)
          /\ WrapInt(WrapInt(n + R) + T) = WrapInt(n + R + T)
      BY <1>3, <3>1, <3>2, WrapSum
    <3>4. T + R + n = n + R + T /\ WrapInt(n + R) + T = T + WrapInt(n + R)
      BY <1>3, <3>1, <3>2
    <3> QED BY <3>3, <3>4
  <2> QED BY <1>1, <1>4, <2>1, <2>2, <2>3
<1> QED BY <1>5, <1>6 DEF Agreed

LEMMA AgreedFile ==
  ASSUME TypeOK, Agreed, NEW w \in Workers, AddFile(w)
  PROVE  Agreed'
<1>1. /\ wk[w] = "files" /\ wk' = [wk EXCEPT ![w] = "spread"]
      /\ files_recvd' = files_recvd + 1
      /\ UNCHANGED <<size, spread, bytes_recvd>>
  BY DEF AddFile
<1>2. Recording' = Recording
  BY <1>1 DEF Recording, InWorker, TypeOK
<1>3. Cardinality(InWorker({"spread"}))' = Cardinality(InWorker({"spread"})) + 1
  BY <1>1, WorkerMoves
<1>4. FilesAgree'
  <2>1. Len(spread) \in Nat /\ Cardinality(InWorker({"spread"})) \in Nat
    BY TotalTypes
  <2> QED BY <1>1, <1>3, <2>1 DEF Agreed, FilesAgree
<1>5. BytesAgree'
  BY <1>1, <1>2 DEF Agreed, BytesAgree
<1> QED BY <1>4, <1>5 DEF Agreed

\* A worker puts its length into the list, and is through.
LEMMA AgreedSpread ==
  ASSUME TypeOK, Agreed, NEW w \in Workers, PushSpread(w)
  PROVE  Agreed'
<1> DEFINE S == Recording \ {w}
           T == Total(spread, DOMAIN spread)
           R == Total(size, S)
           n == size[w]
<1>1. /\ wk[w] = "spread" /\ spread' = Append(spread, n)
      /\ \E s \in {"drain", "check"} : wk' = [wk EXCEPT ![w] = s]
      /\ size' = [size EXCEPT ![w] = 0]
      /\ UNCHANGED <<bytes_recvd, files_recvd>>
  BY DEF PushSpread, Loop
<1>2. w \in Recording /\ Recording' = S
  BY <1>1 DEF Recording, InWorker, TypeOK
<1>3. Cardinality(InWorker({"spread"}))' = Cardinality(InWorker({"spread"})) - 1
  BY <1>1, WorkerMoves
<1>4. n \in Int /\ spread \in Seq(Int) /\ IsFiniteSet(S) /\ (\A x \in S : size[x] \in Int)
  BY TotalTypes, FS_Subset DEF TypeOK
<1>5. Total(size, Recording) = WrapInt(n + R)
  <2>1. IsFiniteSet(Recording) /\ (\A x \in Recording : size[x] \in Int)
    BY TotalTypes
  <2>2. S \in SUBSET Recording /\ w \notin S /\ Recording = S \cup {w}
    BY <1>2
  <2> HIDE DEF S
  <2> QED BY <2>1, <2>2, <1>2, TotalAdds
<1>6. Total(size', S) = R
  <2>1. \A x \in S : size'[x] = size[x]
    BY <1>1 DEF Recording, InWorker, TypeOK
  <2> HIDE DEF S
  <2> QED BY <2>1, <1>4, TotalOfSame
<1>7. Total(spread', DOMAIN spread') = WrapInt(n + T)
  <2> HIDE DEF n
  <2> QED BY <1>1, <1>4, TotalOfAppend
<1>8. FilesAgree'
  <2>1. /\ Len(spread) \in Nat /\ Cardinality(InWorker({"spread"})) \in Nat
        /\ Len(spread') = Len(spread) + 1
    BY <1>1, <1>4, TotalTypes
  <2> QED BY <1>1, <1>3, <2>1 DEF Agreed, FilesAgree
<1>9. BytesAgree'
  <2>1. bytes_recvd = WrapInt(T + WrapInt(n + R))
    BY <1>5 DEF Agreed, BytesAgree
  <2>2. BytesAgree' <=> bytes_recvd' = WrapInt(WrapInt(n + T) + R)
    BY <1>2, <1>6, <1>7 DEF BytesAgree
  <2>3. T \in Int /\ R \in Int
    BY <1>4, TotalTypes, TotalEquation
  <2> HIDE DEF T, R, S, n
  <2>4. WrapInt(T + WrapInt(n + R)) = WrapInt(WrapInt(n + T) + R)
    <3>2. n + R \in Int /\ n + T \in Int /\ WrapInt(n + R) \in Int
      BY <1>4, <2>3, WrapIntType
    <3>3. /\ WrapInt(WrapInt(n + R) + T) = WrapInt(n + R + T)
          /\ WrapInt(WrapInt(n + T) + R) = WrapInt(n + T + R)
      BY <1>4, <2>3, <3>2, WrapSum
    <3>4. n + R + T = n + T + R /\ WrapInt(n + R) + T = T + WrapInt(n + R)
      BY <1>4, <2>3, <3>2
    <3> QED BY <3>3, <3>4
  <2> QED BY <1>1, <2>1, <2>2, <2>4
<1> QED BY <1>8, <1>9 DEF Agreed

LEMMA AgreedWorker ==
  ASSUME TypeOK, Agreed, NEW w \in Workers, WorkerStep(w)
  PROVE  Agreed'
<1>1. CASE WorkerSleep(w) \/ PopItem(w) \/ PopThrows(w) \/ EnterDrain(w) \/ LowerFull(w)
           \/ DrainPop(w) \/ DrainEnds(w) \/ QDone(w) \/ AwaitAck(w)
  <2>1. UNCHANGED <<size, statVars>>
    BY <1>1 DEF WorkerSleep, PopItem, PopThrows, EnterDrain, LowerFull, DrainPop, DrainEnds,
                QDone, AwaitAck
  <2>2. \E s \in WorkerStates \ {"files", "spread"} :
          wk' = [wk EXCEPT ![w] = s] /\ wk[w] \notin {"files", "spread"}
    <3>1. CASE WorkerSleep(w) \/ PopItem(w) \/ EnterDrain(w) \/ LowerFull(w)
      BY <3>1 DEF WorkerSleep, PopItem, EnterDrain, LowerFull, WorkerStates
    <3>2. CASE DrainPop(w) \/ DrainEnds(w) \/ QDone(w) \/ AwaitAck(w)
      BY <3>2 DEF DrainPop, DrainEnds, QDone, AwaitAck, WorkerStates
    <3>3. CASE PopThrows(w)
      BY <3>3 DEF PopThrows, TypeOK, WorkerStates
    <3> QED BY <1>1, <3>1, <3>2, <3>3
  <2>3. \A v \in Workers : /\ wk'[v] \in {"files", "spread"} <=> wk[v] \in {"files", "spread"}
                           /\ wk'[v] = "spread" <=> wk[v] = "spread"
    BY <2>2 DEF TypeOK
  <2> QED BY <2>1, <2>3, AgreedKept
<1>2. CASE FetchReceives(w) \/ FetchRefused(w) \/ FetchNoSuchFile(w)
  <2>1. UNCHANGED statVars
    BY <1>2 DEF FetchReceives, FetchRefused, FetchNoSuchFile
  <2>2. /\ wk[w] = "fetch"
        /\ \E s \in {"bytes", "drain", "check"} : wk' = [wk EXCEPT ![w] = s]
        /\ \E n : size' = [size EXCEPT ![w] = n]
    BY <1>2 DEF FetchReceives, FetchRefused, FetchNoSuchFile, Loop
  <2>3. \A v \in Workers : /\ wk'[v] \in {"files", "spread"} <=> wk[v] \in {"files", "spread"}
                           /\ wk'[v] = "spread" <=> wk[v] = "spread"
                           /\ wk[v] \in {"files", "spread"} => size'[v] = size[v]
    BY <2>2 DEF TypeOK
  <2> QED BY <2>1, <2>3, AgreedKept
<1> QED BY <1>1, <1>2, AgreedBytes, AgreedFile, AgreedSpread DEF WorkerStep

LEMMA AgreedNext == TypeOK /\ Barrier /\ Agreed /\ [Next]_vars => Agreed'
<1> SUFFICES ASSUME TypeOK, Barrier, Agreed, [Next]_vars PROVE Agreed'
  OBVIOUS
<1>1. CASE SpuriousWakeup
  <2>1. UNCHANGED <<size, statVars>>
    BY <1>1 DEF SpuriousWakeup
  <2>2. \A w \in Workers : /\ wk'[w] \in {"files", "spread"} <=> wk[w] \in {"files", "spread"}
                           /\ wk'[w] = "spread" <=> wk[w] = "spread"
    BY <1>1 DEF SpuriousWakeup, TypeOK
  <2> QED BY <2>1, <2>2, AgreedKept
<1>2. CASE UNCHANGED vars
  <2>1. UNCHANGED <<wk, size, statVars>>
    BY <1>2
  <2> QED BY <2>1, AgreedKept
<1>3. CASE Accept
  <2>1. UNCHANGED <<wk, size, statVars>>
    BY <1>3 DEF Accept
  <2> QED BY <2>1, AgreedKept
<1> QED BY <1>1, <1>2, <1>3, AgreedMaster, AgreedManager, AgreedWorker DEF Next

\* The figures of the report agree, although the three statistics are updated under
\* three mutexes and read under none: what the workers had yet to add is nothing once
\* they are behind the barrier.
THEOREM ReportIsRight == Spec => []ReportAgrees
<1>1. Typed /\ Barrier /\ Agreed => ReportAgrees
  <2> SUFFICES ASSUME TypeOK, Barrier, Agreed, master = "report"
               PROVE  /\ files_recvd = Len(spread)
                      /\ bytes_recvd = Total(spread, DOMAIN spread)
    BY DEF Typed, ReportAgrees, Total, FoldSeq, FoldFunction
  <2>1. Recording = {} /\ InWorker({"spread"}) = {}
    BY DEF Barrier, ReportAtQuiescence, Recording, InWorker, WorkerStates
  <2>2. Total(size, {}) = 0 /\ Cardinality({}) = 0
    BY TotalEquation, FS_EmptySet
  <2>3. files_recvd = Len(spread)
    <3>1. Len(spread) \in Nat
      BY TotalTypes
    <3>2. Cardinality(InWorker({"spread"})) = 0
      BY <2>1, <2>2
    <3> QED BY <3>1, <3>2 DEF Agreed, FilesAgree
  <2>4. bytes_recvd = WrapInt(Total(spread, DOMAIN spread))
    <3>1. Total(spread, DOMAIN spread) \in Int
      BY TotalTypes
    <3> QED BY <2>1, <2>2, <3>1 DEF Agreed, BytesAgree
  <2>5. WrapInt(Total(spread, DOMAIN spread)) = Total(spread, DOMAIN spread)
    BY TotalTypes, SpreadSums, TotalIsInt
  <2> QED BY <2>3, <2>4, <2>5
<1>2. Typed /\ Barrier /\ Agreed /\ [Next]_vars => Agreed'
  BY AgreedNext DEF Typed
<1> QED BY TypedInvariant, BarrierInvariant, AgreedInit, <1>1, <1>2, PTL DEF Spec

--------------------------------------------------------------------------------
(* No sleeping thread is forgotten, although a push and a pop signal one thread *)
(* each and a thread that wakes signals nobody.  Every element of the queue     *)
(* that a worker could be asleep beside has an awake worker or a signalling     *)
(* manager that answers for it, every free place a worker on its way to the     *)
(* signal or an awake manager.                                                  *)

\* How many threads answer for an element or for a free place.
Checking   == Cardinality(InWorker({"check"}))
Lowering   == Cardinality(InWorker({"lower"}))
Signalling == Cardinality(InManager({"signal"}))
Pushing    == Cardinality(InManager({"push"}))

WorkerSleeps  == \E w \in Workers : wk[w] = "e_wait"
ManagerSleeps == \E m \in Managers : mgr[m] = "f_wait"

LEMMA WorkerCounts ==
  ASSUME TypeOK, NEW w \in Workers, NEW s, wk' = [wk EXCEPT ![w] = s]
  PROVE  /\ Checking \in Nat /\ Checking' \in Nat
         /\ Lowering \in Nat /\ Lowering' \in Nat
         /\ wk[w] # "check" /\ s # "check" => Checking' = Checking
         /\ wk[w] # "check" /\ s = "check" => Checking' = Checking + 1
         /\ wk[w] = "check" /\ s # "check" => Checking' = Checking - 1
         /\ wk[w] # "lower" /\ s # "lower" => Lowering' = Lowering
         /\ wk[w] # "lower" /\ s = "lower" => Lowering' = Lowering + 1
         /\ wk[w] = "lower" /\ s # "lower" => Lowering' = Lowering - 1
<1>1. /\ Checking \in Nat /\ Checking' \in Nat
      /\ wk[w] \notin {"check"} /\ s \in {"check"} => Checking' = Checking + 1
      /\ wk[w] \in {"check"} /\ s \notin {"check"} => Checking' = Checking - 1
      /\ (wk[w] \in {"check"} <=> s \in {"check"}) => Checking' = Checking
  BY WorkerMoves DEF Checking
<1>2. /\ Lowering \in Nat /\ Lowering' \in Nat
      /\ wk[w] \notin {"lower"} /\ s \in {"lower"} => Lowering' = Lowering + 1
      /\ wk[w] \in {"lower"} /\ s \notin {"lower"} => Lowering' = Lowering - 1
      /\ (wk[w] \in {"lower"} <=> s \in {"lower"}) => Lowering' = Lowering
  BY WorkerMoves DEF Lowering
<1> QED BY <1>1, <1>2

LEMMA ManagerCounts ==
  ASSUME TypeOK, NEW m \in Managers, NEW s, mgr' = [mgr EXCEPT ![m] = s]
  PROVE  /\ Signalling \in Nat /\ Signalling' \in Nat
         /\ Pushing \in Nat /\ Pushing' \in Nat
         /\ mgr[m] # "signal" /\ s # "signal" => Signalling' = Signalling
         /\ mgr[m] # "signal" /\ s = "signal" => Signalling' = Signalling + 1
         /\ mgr[m] = "signal" /\ s # "signal" => Signalling' = Signalling - 1
         /\ mgr[m] # "push" /\ s # "push" => Pushing' = Pushing
         /\ mgr[m] # "push" /\ s = "push" => Pushing' = Pushing + 1
         /\ mgr[m] = "push" /\ s # "push" => Pushing' = Pushing - 1
<1>1. /\ Signalling \in Nat /\ Signalling' \in Nat
      /\ mgr[m] \notin {"signal"} /\ s \in {"signal"} => Signalling' = Signalling + 1
      /\ mgr[m] \in {"signal"} /\ s \notin {"signal"} => Signalling' = Signalling - 1
      /\ (mgr[m] \in {"signal"} <=> s \in {"signal"}) => Signalling' = Signalling
  BY ManagerMoves DEF Signalling
<1>2. /\ Pushing \in Nat /\ Pushing' \in Nat
      /\ mgr[m] \notin {"push"} /\ s \in {"push"} => Pushing' = Pushing + 1
      /\ mgr[m] \in {"push"} /\ s \notin {"push"} => Pushing' = Pushing - 1
      /\ (mgr[m] \in {"push"} <=> s \in {"push"}) => Pushing' = Pushing
  BY ManagerMoves DEF Pushing
<1> QED BY <1>1, <1>2

LEMMA CountTypes == /\ Checking \in Nat /\ Lowering \in Nat
                    /\ Signalling \in Nat /\ Pushing \in Nat
  BY Counts DEF Checking, Lowering, Signalling, Pushing

--------------------------------------------------------------------------------
(* Workers asleep on _e_cond. *)

\* While _empty is set before the end of the request, each element of the queue is
\* one that a manager has pushed and is about to signal.
EmptyInv ==
  /\ done => ~WorkerSleeps
  /\ empty /\ ~done => Len(queue) <= Signalling
  /\ WorkerSleeps => Len(queue) <= Checking + Signalling

LEMMA EmptyInit == Init => EmptyInv
<1> SUFFICES ASSUME Init PROVE EmptyInv
  OBVIOUS
<1>1. Len(queue) = 0 /\ ~WorkerSleeps /\ ~done
  BY DEF Init, WorkerSleeps
<1> QED BY <1>1, CountTypes DEF EmptyInv

\* A step that leaves the queue and the managers' signals as they are, and puts no
\* worker to sleep nor takes one from its way to the queue.
LEMMA EmptyKept ==
  ASSUME TypeOK, EmptyInv, Len(queue') <= Len(queue), UNCHANGED <<empty, done>>,
         WorkerSleeps' => WorkerSleeps,
         Checking' \in Nat, Signalling' \in Nat,
         Checking' >= Checking, Signalling' = Signalling, Len(queue') \in Nat
  PROVE  EmptyInv'
<1>1. Len(queue) \in Nat
  BY DEF TypeOK
<1>2. done' => ~WorkerSleeps'
  BY DEF EmptyInv
<1>3. empty' /\ ~done' => Len(queue') <= Signalling'
  BY <1>1, CountTypes DEF EmptyInv
<1>4. WorkerSleeps' => Len(queue') <= Checking' + Signalling'
  BY <1>1, CountTypes DEF EmptyInv
<1> QED BY <1>2, <1>3, <1>4 DEF EmptyInv

LEMMA EmptyManager ==
  ASSUME TypeOK, EmptyInv, NEW m \in Managers, ManagerStep(m)
  PROVE  EmptyInv'
<1>1. CASE Push(m)
  <2>1. /\ mgr[m] = "push" /\ mgr' = [mgr EXCEPT ![m] = "signal"]
        /\ UNCHANGED <<empty, done, wk>>
    BY <1>1 DEF Push
  <2>2. Signalling' = Signalling + 1 /\ Signalling \in Nat
    BY <2>1, ManagerCounts
  <2>3. Len(queue') \in Nat /\ Len(queue') <= Len(queue) + 1 /\ Len(queue) \in Nat
    <3>1. Len(queue) = Capacity => queue' = queue
      BY <1>1 DEF Push
    <3>2. Len(queue) # Capacity => queue' = Append(queue, <<m, hand[m]>>)
      BY <1>1 DEF Push
    <3> QED BY <3>1, <3>2 DEF TypeOK
  <2>4. Checking' = Checking /\ (WorkerSleeps' <=> WorkerSleeps)
    BY <2>1 DEF Checking, InWorker, WorkerSleeps
  <2>5. empty /\ ~done => Len(queue') <= Signalling'
    BY <2>2, <2>3 DEF EmptyInv
  <2>6. WorkerSleeps => Len(queue') <= Checking' + Signalling'
    BY <2>2, <2>3, <2>4, CountTypes DEF EmptyInv
  <2> QED BY <2>1, <2>4, <2>5, <2>6 DEF EmptyInv
<1>2. CASE SignalNotEmpty(m)
  <2>1. UNCHANGED <<queue, done>> /\ ~empty'
    BY <1>2 DEF SignalNotEmpty
  <2>2. Signalling' = Signalling - 1 /\ Signalling' \in Nat
    <3>1. PICK s : mgr' = [mgr EXCEPT ![m] = s] /\ mgr[m] = "signal" /\ s # "signal"
      BY <1>2 DEF SignalNotEmpty
    <3> QED BY <3>1, ManagerCounts
  <2>3. CASE WorkerSleeps
    <3>1. PICK w \in Workers : wk[w] = "e_wait" /\ wk' = [wk EXCEPT ![w] = "check"]
      BY <1>2, <2>3 DEF SignalNotEmpty, Signalled, WorkerSleeps, TypeOK
    <3>2. Checking' = Checking + 1
      BY <3>1, WorkerCounts
    <3>3. Len(queue') <= Checking' + Signalling'
      BY <2>1, <2>2, <2>3, <3>2, CountTypes DEF EmptyInv, TypeOK
    <3>4. ~done'
      BY <2>1, <2>3 DEF EmptyInv
    <3> QED BY <2>1, <3>3, <3>4 DEF EmptyInv
  <2>4. CASE ~WorkerSleeps
    <3>1. wk' = wk
      BY <1>2, <2>4 DEF SignalNotEmpty, Signalled, WorkerSleeps, TypeOK
    <3>2. ~WorkerSleeps'
      BY <2>4, <3>1 DEF WorkerSleeps
    <3> QED BY <2>1, <3>2 DEF EmptyInv
  <2> QED BY <2>3, <2>4
<1>3. ASSUME UNCHANGED <<queue, empty, done, wk>>, Signalling' = Signalling
      PROVE EmptyInv'
  BY <1>3 DEF EmptyInv, Checking, InWorker, WorkerSleeps
<1>4. ASSUME UNCHANGED <<queue, empty, done, wk>>,
             mgr' = mgr \/ \E s \in ManagerStates \ {"signal"} :
               mgr[m] # "signal" /\ mgr' = [mgr EXCEPT ![m] = s]
      PROVE EmptyInv'
  <2>1. CASE mgr' = mgr
    BY <1>3, <1>4, <2>1 DEF Signalling, InManager
  <2>2. CASE \E s \in ManagerStates \ {"signal"} :
               mgr[m] # "signal" /\ mgr' = [mgr EXCEPT ![m] = s]
    <3>1. PICK s : s # "signal" /\ mgr[m] # "signal" /\ mgr' = [mgr EXCEPT ![m] = s]
      BY <2>2
    <3>2. Signalling' = Signalling
      BY <3>1, ManagerCounts
    <3> QED BY <1>3, <1>4, <3>2
  <2> QED BY <1>4, <2>1, <2>2
<1>5. CASE Connect(m) \/ SendErr(m) \/ ReceiveName(m)
  BY <1>4, <1>5 DEF Connect, SendErr, ReceiveName, ManagerStates
<1>6. CASE ListingCut(m) \/ ListingEnds(m) \/ ManagerSleep(m)
  BY <1>4, <1>6 DEF ListingCut, ListingEnds, ManagerSleep, ManagerStates
<1> QED BY <1>1, <1>2, <1>5, <1>6 DEF ManagerStep

LEMMA EmptyWorker ==
  ASSUME TypeOK, Barrier, EmptyInv, NEW w \in Workers, WorkerStep(w)
  PROVE  EmptyInv'
<1>0. Len(queue) \in Nat
  BY DEF TypeOK
<1>1. CASE WorkerSleep(w)
  <2>1. /\ empty /\ ~done /\ UNCHANGED <<queue, empty, done, mgr>>
        /\ wk[w] = "check" /\ wk' = [wk EXCEPT ![w] = "e_wait"]
    BY <1>1 DEF WorkerSleep
  <2>2. Len(queue) <= Signalling
    BY <2>1 DEF EmptyInv
  <2>3. Checking' \in Nat
    BY <2>1, WorkerCounts
  <2>4. Signalling' = Signalling
    BY <2>1 DEF Signalling, InManager
  <2>5. Len(queue') <= Signalling' /\ Len(queue') <= Checking' + Signalling'
    BY <1>0, <2>1, <2>2, <2>3, <2>4, CountTypes
  <2> QED BY <2>1, <2>5 DEF EmptyInv
<1>2. CASE PopItem(w)
  <2>0. PICK s : wk' = [wk EXCEPT ![w] = s] /\ wk[w] = "check" /\ s # "check" /\ s # "e_wait"
    BY <1>2 DEF PopItem
  <2>1. /\ ~done /\ UNCHANGED <<done, mgr>> /\ queue # <<>> /\ queue' = Tail(queue)
        /\ empty' => queue' = <<>>
    BY <1>2 DEF PopItem
  <2>2. Len(queue') = Len(queue) - 1 /\ Len(queue') \in Nat
    BY <2>1 DEF TypeOK
  <2>3. Checking' = Checking - 1 /\ Checking' \in Nat
    BY <2>0, WorkerCounts
  <2>4. Signalling' = Signalling
    BY <2>1 DEF Signalling, InManager
  <2>5. WorkerSleeps' => WorkerSleeps
    <3>1. \A v \in Workers : wk'[v] = "e_wait" => wk[v] = "e_wait"
      BY <1>2 DEF PopItem, TypeOK
    <3> QED BY <3>1 DEF WorkerSleeps
  <2>6. empty' => Len(queue') <= Signalling'
    <3>1. queue' = <<>> => Len(queue') <= Signalling'
      BY <2>4, CountTypes
    <3> QED BY <2>1, <3>1
  <2>7. WorkerSleeps' => Len(queue') <= Checking' + Signalling'
    BY <1>0, <2>2, <2>3, <2>4, <2>5, CountTypes DEF EmptyInv
  <2> QED BY <2>1, <2>6, <2>7 DEF EmptyInv
<1>3. ASSUME done, UNCHANGED <<done, mgr>>, NEW s,
             wk' = [wk EXCEPT ![w] = s], s # "e_wait"
      PROVE EmptyInv'
  <2>1. ~WorkerSleeps
    BY <1>3 DEF EmptyInv
  <2>2. ~WorkerSleeps'
    BY <1>3, <2>1 DEF WorkerSleeps, TypeOK
  <2> QED BY <1>3, <2>2 DEF EmptyInv
<1>4. CASE EnterDrain(w)
  BY <1>3, <1>4 DEF EnterDrain
<1>5. CASE DrainPop(w)
  <2>1. wk[w] = "drain" /\ UNCHANGED <<done, mgr>> /\ wk' = [wk EXCEPT ![w] = "fetch"]
    BY <1>5 DEF DrainPop
  <2>2. done
    BY <2>1 DEF Barrier, Draining
  <2> QED BY <1>3, <2>1, <2>2
<1>6. ASSUME UNCHANGED <<queue, empty, done>>, Signalling' = Signalling,
             wk[w] # "check", NEW s, wk' = [wk EXCEPT ![w] = s], s # "e_wait"
      PROVE EmptyInv'
  <2>1. Checking' \in Nat /\ Checking' >= Checking
    <3>1. s # "check" => Checking' = Checking
      BY <1>6, WorkerCounts
    <3>2. s = "check" => Checking' = Checking + 1
      BY <1>6, WorkerCounts
    <3> QED BY <3>1, <3>2, CountTypes
  <2>2. WorkerSleeps' => WorkerSleeps
    BY <1>6 DEF WorkerSleeps, TypeOK
  <2>3. Len(queue') = Len(queue)
    BY <1>6
  <2> QED BY <1>0, <1>6, <2>1, <2>2, <2>3, CountTypes, EmptyKept
<1>7. mgr' = mgr => Signalling' = Signalling
  BY DEF Signalling, InManager
<1>8. CASE LowerFull(w)
  <2>1. /\ UNCHANGED <<queue, empty, done>>
        /\ wk[w] = "lower" /\ wk' = [wk EXCEPT ![w] = "fetch"]
    BY <1>8 DEF LowerFull
  <2>2. Signalling' = Signalling
    <3>1. \A m \in Managers : mgr'[m] = "signal" <=> mgr[m] = "signal"
      BY <1>8 DEF LowerFull, Signalled, TypeOK
    <3> QED BY <3>1 DEF Signalling, InManager
  <2> QED BY <1>6, <2>1, <2>2
<1>9. CASE PopThrows(w)
  BY <1>9, <1>7 DEF PopThrows, EmptyInv, Checking, InWorker, WorkerSleeps
<1>10. CASE FetchReceives(w) \/ FetchRefused(w) \/ AddBytes(w) \/ AddFile(w)
  <2>1. PICK s : /\ UNCHANGED <<queue, empty, done, mgr>> /\ wk[w] # "check"
                 /\ wk' = [wk EXCEPT ![w] = s] /\ s # "e_wait"
    BY <1>10 DEF FetchReceives, FetchRefused, AddBytes, AddFile
  <2> QED BY <1>6, <1>7, <2>1
<1>11. CASE FetchNoSuchFile(w) \/ PushSpread(w)
  <2>1. PICK s : /\ UNCHANGED <<queue, empty, done, mgr>> /\ wk[w] # "check"
                 /\ wk' = [wk EXCEPT ![w] = s] /\ s # "e_wait"
    BY <1>11 DEF FetchNoSuchFile, PushSpread, Loop
  <2> QED BY <1>6, <1>7, <2>1
<1>12. CASE DrainEnds(w) \/ QDone(w) \/ AwaitAck(w)
  <2>1. PICK s : /\ UNCHANGED <<queue, empty, done, mgr>> /\ wk[w] # "check"
                 /\ wk' = [wk EXCEPT ![w] = s] /\ s # "e_wait"
    BY <1>12 DEF DrainEnds, QDone, AwaitAck
  <2> QED BY <1>6, <1>7, <2>1
<1> QED BY <1>1, <1>2, <1>4, <1>5, <1>8, <1>9, <1>10, <1>11, <1>12 DEF WorkerStep

LEMMA EmptyMaster ==
  ASSUME TypeOK, Barrier, EmptyInv, MasterStep \/ Accept \/ SpuriousWakeup
  PROVE  EmptyInv'
<1>0. Len(queue) \in Nat
  BY DEF TypeOK
<1>1. ASSUME UNCHANGED <<queue, empty, done>>, Signalling' = Signalling, UNCHANGED wk
      PROVE EmptyInv'
  BY <1>1 DEF EmptyInv, Checking, InWorker, WorkerSleeps
<1>2. mgr' = mgr => Signalling' = Signalling
  BY DEF Signalling, InManager
<1>3. CASE Unack \/ Collect \/ Report
  BY <1>1, <1>2, <1>3 DEF Unack, Collect, Report
<1>4. CASE JoinManagers \/ Accept
  <2>1. \A m \in Managers : mgr[m] # "signal" /\ mgr'[m] # "signal"
    BY <1>4 DEF JoinManagers, Accept, Barrier, Phases
  <2>2. Signalling' = Signalling
    BY <2>1 DEF Signalling, InManager
  <2> QED BY <1>1, <1>4, <2>2 DEF JoinManagers, Accept
<1>5. CASE SetDone
  <2>1. done' /\ ~WorkerSleeps'
    BY <1>5 DEF SetDone, WakeAll, WorkerSleeps, TypeOK
  <2> QED BY <2>1 DEF EmptyInv
<1>6. CASE VarInit
  <2>1. done /\ UNCHANGED <<wk, queue>>
    BY <1>6 DEF VarInit, Barrier, Phases
  <2>2. ~WorkerSleeps'
    BY <2>1 DEF EmptyInv, WorkerSleeps
  <2>3. Len(queue') = 0
    BY <1>6, <2>1 DEF VarInit, Barrier, ReportAtQuiescence
  <2>4. Signalling' \in Nat
    BY <1>2, <1>6, CountTypes DEF VarInit
  <2> QED BY <2>2, <2>3, <2>4 DEF EmptyInv
<1>7. CASE SetAck
  <2>1. \A w \in Workers : /\ wk'[w] = "check" <=> wk[w] = "check"
                           /\ wk'[w] = "e_wait" <=> wk[w] = "e_wait"
    BY <1>7 DEF SetAck, WakeAll, TypeOK
  <2>2. Checking' = Checking /\ (WorkerSleeps' <=> WorkerSleeps)
    BY <2>1 DEF Checking, InWorker, WorkerSleeps
  <2> QED BY <1>2, <1>7, <2>2 DEF SetAck, EmptyInv
<1>8. CASE SpuriousWakeup
  <2>1. UNCHANGED <<queue, empty, done>>
    BY <1>8 DEF SpuriousWakeup
  <2>2. Signalling' = Signalling
    <3>1. \A m \in Managers : mgr'[m] = "signal" <=> mgr[m] = "signal"
      BY <1>8 DEF SpuriousWakeup, TypeOK
    <3> QED BY <3>1 DEF Signalling, InManager
  <2>3. CASE wk' = wk
    BY <1>1, <2>1, <2>2, <2>3
  <2>4. CASE \E w \in Workers : \/ wk[w] = "e_wait" /\ wk' = [wk EXCEPT ![w] = "check"]
                                \/ wk[w] = "ack_wait" /\ wk' = [wk EXCEPT ![w] = "ack"]
    <3>1. PICK w \in Workers, s \in {"check", "ack"} :
            wk' = [wk EXCEPT ![w] = s] /\ wk[w] # "check"
      BY <2>4
    <3>2. Checking' \in Nat /\ Checking' >= Checking
      <4>1. s # "check" => Checking' = Checking
        BY <3>1, WorkerCounts
      <4>2. s = "check" => Checking' = Checking + 1
        BY <3>1, WorkerCounts
      <4> QED BY <4>1, <4>2, CountTypes
    <3>3. WorkerSleeps' => WorkerSleeps
      BY <3>1 DEF WorkerSleeps, TypeOK
    <3>4. Len(queue') = Len(queue)
      BY <2>1
    <3> QED BY <1>0, <2>1, <2>2, <3>2, <3>3, <3>4, CountTypes, EmptyKept
  <2> QED BY <1>8, <2>3, <2>4 DEF SpuriousWakeup
<1> QED BY <1>3, <1>4, <1>5, <1>6, <1>7, <1>8 DEF MasterStep

LEMMA EmptyNext == TypeOK /\ Barrier /\ EmptyInv /\ [Next]_vars => EmptyInv'
<1> SUFFICES ASSUME TypeOK, Barrier, EmptyInv, [Next]_vars PROVE EmptyInv'
  OBVIOUS
<1>1. ASSUME UNCHANGED vars PROVE EmptyInv'
  BY <1>1 DEF EmptyInv, WorkerSleeps, Checking, Signalling, InWorker, InManager
<1> QED BY <1>1, EmptyMaster, EmptyManager, EmptyWorker DEF Next

LEMMA EmptyInvariant == Spec => []EmptyInv
<1>1. Typed => TypeOK
  BY DEF Typed
<1> QED BY TypedInvariant, BarrierInvariant, EmptyInit, EmptyNext, <1>1, PTL DEF Spec

\* While a worker sleeps, every element of the queue has an awake worker or a
\* signalling manager, whatever the number of managers and workers.
THEOREM WorkersAreWoken == Spec => []NoLostWakeupEmpty
<1>1. EmptyInv => NoLostWakeupEmpty
  BY DEF EmptyInv, NoLostWakeupEmpty, WorkerSleeps, Checking, Signalling, InWorker
<1> QED BY EmptyInvariant, <1>1, PTL

--------------------------------------------------------------------------------
(* Managers asleep on _f_cond. *)

\* While _full is set before the end of the request, each free place is one that a
\* worker has made and is about to signal.  No manager is left when done is set.
FullInv ==
  /\ full /\ ~done => Capacity - Len(queue) <= Lowering
  /\ ManagerSleeps => Capacity - Len(queue) <= Lowering + Pushing

LEMMA FullInit == Init => FullInv
<1> SUFFICES ASSUME Init PROVE FullInv
  OBVIOUS
<1>1. ~ManagerSleeps /\ ~full
  BY DEF Init, ManagerSleeps
<1> QED BY <1>1 DEF FullInv

\* When a request is over no manager is left.
LEMMA NoManagers ==
  ASSUME TypeOK, Barrier, done
  PROVE  \A m \in Managers : mgr[m] = "none"
  BY DEF Barrier, Phases

\* A step that leaves the queue, the flags and the workers that are to signal as they
\* are, and puts no manager to sleep nor takes one from its way to the queue.
LEMMA FullKept ==
  ASSUME TypeOK, FullInv, UNCHANGED <<queue, full, done>>,
         ManagerSleeps' => ManagerSleeps,
         Lowering' = Lowering, Pushing' \in Nat, Pushing' >= Pushing
  PROVE  FullInv'
<1>1. Len(queue) \in Nat /\ Capacity \in Nat
  BY CapacityAssumption DEF TypeOK
<1>2. full' /\ ~done' => Capacity - Len(queue') <= Lowering'
  BY DEF FullInv
<1>3. ManagerSleeps' => Capacity - Len(queue') <= Lowering' + Pushing'
  BY <1>1, CountTypes DEF FullInv
<1> QED BY <1>2, <1>3 DEF FullInv

LEMMA FullManager ==
  ASSUME TypeOK, Barrier, FullInv, NEW m \in Managers, ManagerStep(m)
  PROVE  FullInv'
<1>0. Len(queue) \in Nat /\ Capacity \in Nat
  BY CapacityAssumption DEF TypeOK
<1>1. wk' = wk => Lowering' = Lowering
  BY DEF Lowering, InWorker
<1>2. CASE Push(m)
  <2>1. PICK s : mgr' = [mgr EXCEPT ![m] = s] /\ mgr[m] = "push" /\ s # "push" /\ s # "f_wait"
    BY <1>2 DEF Push
  <2>2. Pushing' = Pushing - 1 /\ Pushing' \in Nat
    BY <2>1, ManagerCounts
  <2>3. Lowering' = Lowering
    BY <1>1, <1>2 DEF Push
  <2>4. ManagerSleeps' => ManagerSleeps
    <3>1. \A n \in Managers : mgr'[n] = "f_wait" => mgr[n] = "f_wait"
      BY <1>2 DEF Push, TypeOK
    <3> QED BY <3>1 DEF ManagerSleeps
  <2>5. Len(queue') = Capacity \/ Len(queue') = Len(queue) + 1
    <3>1. Len(queue) = Capacity => queue' = queue
      BY <1>2 DEF Push
    <3>2. Len(queue) # Capacity => queue' = Append(queue, <<m, hand[m]>>)
      BY <1>2 DEF Push
    <3> QED BY <3>1, <3>2 DEF TypeOK
  <2>6. full' => Capacity - Len(queue') <= Lowering'
    <3>1. full' => Len(queue') = Capacity
      BY <1>2 DEF Push
    <3>2. Len(queue') = Capacity => Capacity - Len(queue') <= Lowering'
      BY <1>0, <2>3, CountTypes
    <3> QED BY <3>1, <3>2
  <2>7. ManagerSleeps' => Capacity - Len(queue') <= Lowering' + Pushing'
    <3>1. CASE Len(queue') = Capacity
      BY <1>0, <2>2, <2>3, <3>1, CountTypes
    <3>2. CASE Len(queue') = Len(queue) + 1
      BY <1>0, <2>2, <2>3, <2>4, <3>2, CountTypes DEF FullInv
    <3> QED BY <2>5, <3>1, <3>2
  <2> QED BY <2>6, <2>7 DEF FullInv
<1>3. CASE ManagerSleep(m)
  <2>1. PICK s : mgr' = [mgr EXCEPT ![m] = s] /\ mgr[m] = "push" /\ s # "push"
    BY <1>3 DEF ManagerSleep
  <2>2. Pushing' \in Nat
    BY <2>1, ManagerCounts
  <2>3. full /\ ~done
    BY <1>3, NoManagers DEF ManagerSleep
  <2>4. Capacity - Len(queue) <= Lowering
    BY <2>3 DEF FullInv
  <2>5. Lowering' = Lowering /\ queue' = queue
    BY <1>1, <1>3 DEF ManagerSleep
  <2>6. /\ Capacity - Len(queue') <= Lowering'
        /\ Capacity - Len(queue') <= Lowering' + Pushing'
    BY <1>0, <2>2, <2>4, <2>5, CountTypes
  <2> QED BY <2>6 DEF FullInv
<1>4. ASSUME UNCHANGED <<queue, full, done>>, Lowering' = Lowering,
             NEW s, mgr' = [mgr EXCEPT ![m] = s], mgr[m] # "push", s # "f_wait"
      PROVE FullInv'
  <2>1. Pushing' \in Nat /\ Pushing' >= Pushing
    <3>1. s # "push" => Pushing' = Pushing
      BY <1>4, ManagerCounts
    <3>2. s = "push" => Pushing' = Pushing + 1
      BY <1>4, ManagerCounts
    <3> QED BY <3>1, <3>2, CountTypes
  <2>2. ManagerSleeps' => ManagerSleeps
    BY <1>4 DEF ManagerSleeps, TypeOK
  <2> QED BY <1>4, <2>1, <2>2, FullKept
<1>5. ASSUME UNCHANGED <<queue, full, done, mgr>>, Lowering' = Lowering
      PROVE FullInv'
  BY <1>5 DEF FullInv, Pushing, InManager, ManagerSleeps
<1>6. CASE SignalNotEmpty(m)
  <2>1. PICK s : /\ UNCHANGED <<queue, full, done>> /\ mgr' = [mgr EXCEPT ![m] = s]
                 /\ mgr[m] # "push" /\ s # "f_wait"
    BY <1>6 DEF SignalNotEmpty
  <2>2. \A w \in Workers : wk'[w] = "lower" <=> wk[w] = "lower"
    BY <1>6 DEF SignalNotEmpty, Signalled, TypeOK
  <2>3. Lowering' = Lowering
    BY <2>2 DEF Lowering, InWorker
  <2> QED BY <1>4, <2>1, <2>3
<1>7. CASE Connect(m) \/ SendErr(m) \/ ListingEnds(m)
  <2>1. PICK s : /\ UNCHANGED <<queue, full, done, wk>> /\ mgr' = [mgr EXCEPT ![m] = s]
                 /\ mgr[m] # "push" /\ s # "f_wait"
    BY <1>7 DEF Connect, SendErr, ListingEnds
  <2> QED BY <1>1, <1>4, <2>1
<1>8. CASE ListingCut(m)
  BY <1>1, <1>5, <1>8 DEF ListingCut
<1>9. CASE ReceiveName(m)
  <2>1. UNCHANGED <<queue, full, done, wk>> /\ mgr[m] # "push"
    BY <1>9 DEF ReceiveName
  <2>2. mgr' = mgr \/ mgr' = [mgr EXCEPT ![m] = "push"]
    BY <1>9 DEF ReceiveName
  <2>3. CASE mgr' = mgr
    BY <1>1, <1>5, <2>1, <2>3
  <2>4. CASE mgr' = [mgr EXCEPT ![m] = "push"]
    <3>1. PICK s : /\ UNCHANGED <<queue, full, done, wk>> /\ mgr' = [mgr EXCEPT ![m] = s]
                   /\ mgr[m] # "push" /\ s # "f_wait"
      BY <2>1, <2>4
    <3> QED BY <1>1, <1>4, <3>1
  <2> QED BY <2>2, <2>3, <2>4
<1> QED BY <1>2, <1>3, <1>6, <1>7, <1>8, <1>9 DEF ManagerStep

LEMMA FullWorker ==
  ASSUME TypeOK, Barrier, FullInv, NEW w \in Workers, WorkerStep(w)
  PROVE  FullInv'
<1>0. Len(queue) \in Nat /\ Capacity \in Nat
  BY CapacityAssumption DEF TypeOK
<1>1. CASE PopItem(w)
  <2>1. PICK s : wk' = [wk EXCEPT ![w] = s] /\ wk[w] # "lower" /\ s = "lower"
    BY <1>1 DEF PopItem
  <2>2. Lowering' = Lowering + 1
    BY <2>1, WorkerCounts
  <2>3. Len(queue') = Len(queue) - 1
    BY <1>1 DEF PopItem, TypeOK
  <2>4. UNCHANGED <<full, done, mgr>>
    BY <1>1 DEF PopItem
  <2>5. Pushing' = Pushing /\ (ManagerSleeps' <=> ManagerSleeps)
    BY <2>4 DEF Pushing, InManager, ManagerSleeps
  <2>6. full' /\ ~done' => Capacity - Len(queue') <= Lowering'
    BY <1>0, <2>2, <2>3, <2>4, CountTypes DEF FullInv
  <2>7. ManagerSleeps' => Capacity - Len(queue') <= Lowering' + Pushing'
    BY <1>0, <2>2, <2>3, <2>5, CountTypes DEF FullInv
  <2> QED BY <2>6, <2>7 DEF FullInv
<1>2. CASE LowerFull(w)
  <2>1. PICK s : wk' = [wk EXCEPT ![w] = s] /\ wk[w] = "lower" /\ s # "lower"
    BY <1>2 DEF LowerFull
  <2>2. Lowering' = Lowering - 1 /\ Lowering' \in Nat
    BY <2>1, WorkerCounts
  <2>3. queue' = queue /\ ~full'
    BY <1>2 DEF LowerFull
  <2>4. CASE ManagerSleeps
    <3>1. PICK m \in Managers, t \in ManagerStates :
            mgr[m] # "push" /\ t = "push" /\ mgr' = [mgr EXCEPT ![m] = t]
      BY <1>2, <2>4 DEF LowerFull, Signalled, ManagerSleeps, TypeOK, ManagerStates
    <3>2. Pushing' = Pushing + 1
      BY <3>1, ManagerCounts
    <3>3. Capacity - Len(queue') <= Lowering' + Pushing'
      BY <1>0, <2>2, <2>3, <2>4, <3>2, CountTypes DEF FullInv
    <3> QED BY <2>3, <3>3 DEF FullInv
  <2>5. CASE ~ManagerSleeps
    <3>1. mgr' = mgr
      BY <1>2, <2>5 DEF LowerFull, Signalled, ManagerSleeps, TypeOK
    <3>2. ~ManagerSleeps'
      BY <2>5, <3>1 DEF ManagerSleeps
    <3> QED BY <2>3, <3>2 DEF FullInv
  <2> QED BY <2>4, <2>5
<1>3. CASE DrainPop(w)
  <2>1. wk[w] = "drain" /\ UNCHANGED <<done, mgr>>
    BY <1>3 DEF DrainPop
  <2>2. done
    BY <2>1 DEF Barrier, Draining
  <2>3. ~ManagerSleeps'
    BY <2>1, <2>2, NoManagers DEF ManagerSleeps
  <2> QED BY <2>1, <2>2, <2>3 DEF FullInv
<1>4. ASSUME UNCHANGED <<queue, full, done, mgr>>,
             NEW s, wk' = [wk EXCEPT ![w] = s], wk[w] # "lower", s # "lower"
      PROVE FullInv'
  <2>1. Lowering' = Lowering
    BY <1>4, WorkerCounts
  <2> QED BY <1>4, <2>1 DEF FullInv, Pushing, InManager, ManagerSleeps
<1>5. CASE PopThrows(w)
  BY <1>5 DEF PopThrows, FullInv, Lowering, Pushing, InWorker, InManager, ManagerSleeps
<1>6. CASE WorkerSleep(w) \/ EnterDrain(w) \/ FetchReceives(w) \/ FetchRefused(w)
  <2>1. PICK s : /\ UNCHANGED <<queue, full, done, mgr>>
                 /\ wk' = [wk EXCEPT ![w] = s] /\ wk[w] # "lower" /\ s # "lower"
    BY <1>6 DEF WorkerSleep, EnterDrain, FetchReceives, FetchRefused
  <2> QED BY <1>4, <2>1
<1>7. CASE AddBytes(w) \/ AddFile(w) \/ FetchNoSuchFile(w) \/ PushSpread(w)
  <2>1. PICK s : /\ UNCHANGED <<queue, full, done, mgr>>
                 /\ wk' = [wk EXCEPT ![w] = s] /\ wk[w] # "lower" /\ s # "lower"
    BY <1>7 DEF AddBytes, AddFile, FetchNoSuchFile, PushSpread, Loop
  <2> QED BY <1>4, <2>1
<1>8. CASE DrainEnds(w) \/ QDone(w) \/ AwaitAck(w)
  <2>1. PICK s : /\ UNCHANGED <<queue, full, done, mgr>>
                 /\ wk' = [wk EXCEPT ![w] = s] /\ wk[w] # "lower" /\ s # "lower"
    BY <1>8 DEF DrainEnds, QDone, AwaitAck
  <2> QED BY <1>4, <2>1
<1> QED BY <1>1, <1>2, <1>3, <1>5, <1>6, <1>7, <1>8 DEF WorkerStep

LEMMA FullMaster ==
  ASSUME TypeOK, Barrier, FullInv, MasterStep \/ Accept \/ SpuriousWakeup
  PROVE  FullInv'
<1>1. ASSUME UNCHANGED <<queue, full, done>>, Lowering' = Lowering,
             ManagerSleeps' => ManagerSleeps, Pushing' = Pushing
      PROVE FullInv'
  BY <1>1 DEF FullInv
<1>2. wk' = wk => Lowering' = Lowering
  BY DEF Lowering, InWorker
<1>3. mgr' = mgr => Pushing' = Pushing /\ (ManagerSleeps' <=> ManagerSleeps)
  BY DEF Pushing, InManager, ManagerSleeps
<1>4. CASE Unack \/ Collect \/ Report
  BY <1>1, <1>2, <1>3, <1>4 DEF Unack, Collect, Report
<1>5. CASE JoinManagers \/ Accept
  <2>1. \A m \in Managers : /\ mgr[m] # "push" /\ mgr'[m] # "push"
                            /\ mgr'[m] # "f_wait"
    BY <1>5 DEF JoinManagers, Accept, Barrier, Phases
  <2>2. Pushing' = Pushing /\ ~ManagerSleeps'
    BY <2>1 DEF Pushing, InManager, ManagerSleeps
  <2> QED BY <1>1, <1>2, <1>5, <2>2 DEF JoinManagers, Accept
<1>6. CASE SetDone \/ VarInit
  <2>1. \A m \in Managers : mgr'[m] = "none"
    BY <1>6 DEF SetDone, VarInit, Barrier, Phases
  <2>2. ~ManagerSleeps'
    BY <2>1 DEF ManagerSleeps
  <2>3. done' \/ ~full'
    BY <1>6 DEF SetDone, VarInit
  <2> QED BY <2>2, <2>3 DEF FullInv
<1>7. CASE SetAck
  <2>1. \A w \in Workers : wk'[w] = "lower" <=> wk[w] = "lower"
    BY <1>7 DEF SetAck, WakeAll, TypeOK
  <2>2. Lowering' = Lowering
    BY <2>1 DEF Lowering, InWorker
  <2> QED BY <1>1, <1>3, <1>7, <2>2 DEF SetAck
<1>8. CASE SpuriousWakeup
  <2>1. UNCHANGED <<queue, full, done>>
    BY <1>8 DEF SpuriousWakeup
  <2>2. Lowering' = Lowering
    <3>1. \A w \in Workers : wk'[w] = "lower" <=> wk[w] = "lower"
      BY <1>8 DEF SpuriousWakeup, TypeOK
    <3> QED BY <3>1 DEF Lowering, InWorker
  <2>3. CASE mgr' = mgr
    BY <1>1, <1>3, <2>1, <2>2, <2>3
  <2>4. CASE \E m \in Managers : mgr[m] = "f_wait" /\ mgr' = [mgr EXCEPT ![m] = "push"]
    <3>1. PICK m \in Managers, s \in ManagerStates :
            mgr[m] = "f_wait" /\ mgr' = [mgr EXCEPT ![m] = s] /\ s = "push"
      BY <2>4 DEF ManagerStates
    <3>2. Pushing' = Pushing + 1
      BY <3>1, ManagerCounts
    <3>3. ManagerSleeps
      BY <3>1 DEF ManagerSleeps
    <3> QED BY <2>1, <2>2, <3>2, <3>3, CountTypes, FullKept
  <2> QED BY <1>8, <2>3, <2>4 DEF SpuriousWakeup
<1> QED BY <1>4, <1>5, <1>6, <1>7, <1>8 DEF MasterStep

LEMMA FullNext == TypeOK /\ Barrier /\ FullInv /\ [Next]_vars => FullInv'
<1> SUFFICES ASSUME TypeOK, Barrier, FullInv, [Next]_vars PROVE FullInv'
  OBVIOUS
<1>1. ASSUME UNCHANGED vars PROVE FullInv'
  BY <1>1 DEF FullInv, ManagerSleeps, Lowering, Pushing, InWorker, InManager
<1> QED BY <1>1, FullMaster, FullManager, FullWorker DEF Next

LEMMA FullInvariant == Spec => []FullInv
<1>1. Typed => TypeOK
  BY DEF Typed
<1> QED BY TypedInvariant, BarrierInvariant, FullInit, FullNext, <1>1, PTL DEF Spec

\* While a manager sleeps, every free place of the queue has a worker about to signal
\* it or an awake manager about to fill it.
THEOREM ManagersAreWoken == Spec => []NoLostWakeupFull
<1>1. FullInv => NoLostWakeupFull
  BY DEF FullInv, NoLostWakeupFull, ManagerSleeps, Lowering, Pushing, InManager
<1> QED BY FullInvariant, <1>1, PTL

--------------------------------------------------------------------------------
(* A process with one worker does not throw.  The flag _empty lags behind the *)
(* queue, by the element whose manager has not signalled yet; while the only  *)
(* worker has seen the flag lowered there are two elements, and of a queue    *)
(* with one place the flag _full keeps that manager away.                     *)

\* One manager at a time is between its push and its signal, under _f_mtx.
OneSignals ==
  \A m, n \in Managers : mgr[m] = "signal" /\ mgr[n] = "signal" => m = n

Bounded == Len(queue) <= Capacity

\* A lowered _empty is right while the request lasts, and when a manager is about to
\* lower it once more an element is there for each of the two.
EmptyIsRight ==
  /\ ~done /\ ~empty => queue # <<>>
  /\ \A m \in Managers : mgr[m] = "signal" => queue # <<>>
  /\ \A m \in Managers, w \in Workers :
       mgr[m] = "signal" /\ wk[w] # "lower" /\ ~empty => Len(queue) >= 2

\* In a queue with one place _full is set from the push to the end of the pop.
OnePlace ==
  Capacity = 1 =>
    /\ ~done /\ queue # <<>> => full
    /\ \A w \in Workers : wk[w] = "lower" => queue = <<>> /\ full

Single == alive /\ OneSignals /\ Bounded /\ EmptyIsRight /\ OnePlace

LEMMA SingleInit == Init => Single
<1> SUFFICES ASSUME Init PROVE Single
  OBVIOUS
<1>1. Len(queue) <= Capacity
  BY CapacityAssumption DEF Init
<1>2. OneSignals /\ EmptyIsRight /\ OnePlace
  BY DEF Init, OneSignals, EmptyIsRight, OnePlace
<1> QED BY <1>1, <1>2 DEF Init, Single, Bounded

\* A manager is there only before the end of the request.
LEMMA ManagerBeforeDone ==
  ASSUME TypeOK, Barrier, NEW m \in Managers, mgr[m] # "none"
  PROVE  ~done
  BY DEF Barrier, Phases

LEMMA SingleManager ==
  ASSUME Typed, TypeOK', Barrier, Single, NEW m \in Managers, ManagerStep(m)
  PROVE  Single'
<1>0. TypeOK /\ queue \in Seq(Items) /\ queue' \in Seq(Items)
  BY DEF Typed, TypeOK
<1>1. CASE Push(m)
  <2>1. /\ mgr[m] = "push" /\ FMutexFree /\ ~full
        /\ mgr' = [mgr EXCEPT ![m] = "signal"]
        /\ UNCHANGED <<empty, done, wk, alive>>
    BY <1>1 DEF Push
  <2>2. <<m, hand[m]>> \in Items
    BY <2>1 DEF Typed, Holds, Items
  <2>3. Len(queue) = Capacity => queue' = queue
    BY <1>1 DEF Push
  <2>4. Len(queue) # Capacity => queue' = Append(queue, <<m, hand[m]>>)
    BY <1>1 DEF Push
  <2>5. /\ Len(queue') <= Capacity /\ Len(queue') >= 1
        /\ Len(queue) >= 1 /\ Capacity # 1 => Len(queue') >= 2
    BY <1>0, <2>2, <2>3, <2>4, SeqLengths, CapacityAssumption DEF Single, Bounded
  <2>6. queue' # <<>>
    BY <1>0, <2>5, SeqLengths
  <2>7. OneSignals'
    BY <1>0, <2>1 DEF OneSignals, FMutexFree, TypeOK
  <2>8. ~done
    BY <1>0, <2>1, ManagerBeforeDone
  <2>9. ASSUME NEW w \in Workers, wk[w] # "lower", ~empty PROVE Len(queue') >= 2
    <3>1. queue # <<>>
      BY <2>8, <2>9 DEF Single, EmptyIsRight
    <3>2. Capacity # 1
      BY <2>1, <2>8, <3>1 DEF Single, OnePlace
    <3>3. Len(queue) >= 1
      BY <1>0, <3>1, SeqLengths
    <3> QED BY <2>5, <3>2, <3>3
  <2>10. EmptyIsRight'
    BY <2>1, <2>6, <2>9 DEF EmptyIsRight
  <2>11. OnePlace'
    <3>1. full' <=> Len(queue') = Capacity
      BY <1>1 DEF Push
    <3>2. Capacity = 1 => full'
      <4>1. Len(queue') \in Nat /\ Len(queue') <= Capacity /\ Len(queue') >= 1
        BY <1>0, <2>5, SeqLengths
      <4>2. \A n, c \in Nat : n <= c /\ n >= 1 /\ c = 1 => n = c
        OBVIOUS
      <4>3. Capacity = 1 => Len(queue') = Capacity
        BY <4>1, <4>2, CapacityAssumption
      <4> QED BY <3>1, <4>3
    <3>3. Capacity = 1 => \A w \in Workers : wk'[w] # "lower"
      BY <2>1 DEF Single, OnePlace
    <3> QED BY <3>2, <3>3 DEF OnePlace
  <2> QED BY <2>1, <2>5, <2>7, <2>10, <2>11 DEF Single, Bounded
<1>2. CASE SignalNotEmpty(m)
  <2>1. /\ mgr[m] = "signal" /\ UNCHANGED <<queue, full, done, alive>>
        /\ mgr' = [mgr EXCEPT ![m] = "names"]
    BY <1>2 DEF SignalNotEmpty
  <2>2. \A n \in Managers : mgr'[n] # "signal"
    BY <1>0, <2>1 DEF Single, OneSignals, TypeOK
  <2>3. queue' # <<>>
    BY <2>1 DEF Single, EmptyIsRight
  <2>4. \A w \in Workers : wk'[w] = "lower" => wk[w] = "lower"
    BY <1>0, <1>2 DEF SignalNotEmpty, Signalled, TypeOK
  <2>5. OneSignals' /\ EmptyIsRight'
    BY <2>2, <2>3 DEF OneSignals, EmptyIsRight
  <2>6. OnePlace'
    BY <2>1, <2>4 DEF Single, OnePlace
  <2> QED BY <2>1, <2>5, <2>6 DEF Single, Bounded
<1>3. ASSUME UNCHANGED <<queue, empty, full, done, wk, alive>>,
             \A n \in Managers : mgr'[n] = "signal" => mgr[n] = "signal"
      PROVE Single'
  BY <1>3 DEF Single, OneSignals, Bounded, EmptyIsRight, OnePlace
<1>4. CASE Connect(m) \/ SendErr(m) \/ ReceiveName(m)
  BY <1>0, <1>3, <1>4 DEF Connect, SendErr, ReceiveName, TypeOK
<1>5. CASE ListingCut(m) \/ ListingEnds(m) \/ ManagerSleep(m)
  BY <1>0, <1>3, <1>5 DEF ListingCut, ListingEnds, ManagerSleep, TypeOK
<1> QED BY <1>1, <1>2, <1>4, <1>5 DEF ManagerStep

LEMMA SingleWorker ==
  ASSUME Typed, TypeOK', Barrier, Single, NEW w, Workers = {w}, WorkerStep(w)
  PROVE  Single'
<1>0. TypeOK /\ queue \in Seq(Items) /\ queue' \in Seq(Items) /\ w \in Workers
  BY DEF Typed, TypeOK
<1>1. CASE PopItem(w)
  <2>1. /\ ~empty /\ ~done /\ queue # <<>> /\ queue' = Tail(queue) /\ wk[w] = "check"
        /\ UNCHANGED <<full, done, mgr, alive>>
    BY <1>1 DEF PopItem
  <2>2. Len(queue') = Len(queue) - 1 /\ Len(queue) \in Nat
    BY <1>0, <2>1, SeqLengths
  <2>3. Bounded'
    BY <2>2, CapacityAssumption DEF Single, Bounded
  <2>4. wk'[w] = "lower"
    BY <1>0, <1>1 DEF PopItem, TypeOK
  <2>5. \A n \in Managers : mgr'[n] = "signal" => queue' # <<>>
    <3>1. \A n \in Managers : mgr'[n] = "signal" => Len(queue) >= 2
      BY <1>0, <2>1 DEF Single, EmptyIsRight
    <3>2. Len(queue) >= 2 => queue' # <<>>
      BY <1>0, <2>2, SeqLengths
    <3> QED BY <3>1, <3>2
  <2>6. ~empty' => queue' # <<>>
    BY <1>1 DEF PopItem
  <2>7. EmptyIsRight'
    BY <2>4, <2>5, <2>6 DEF EmptyIsRight
  <2>8. OnePlace'
    <3>1. Capacity = 1 => full' /\ queue' = <<>>
      <4>1. Capacity = 1 => full'
        BY <2>1 DEF Single, OnePlace
      <4>2. Capacity = 1 => queue' = <<>>
        BY <1>0, <2>2, SeqLengths DEF Single, Bounded
      <4> QED BY <4>1, <4>2
    <3> QED BY <3>1 DEF OnePlace
  <2> QED BY <2>1, <2>3, <2>7, <2>8 DEF Single, OneSignals
<1>2. CASE PopThrows(w)
  <2>1. ~empty /\ ~done /\ queue = <<>>
    BY <1>2 DEF PopThrows
  <2> QED BY <2>1 DEF Single, EmptyIsRight
<1>3. CASE LowerFull(w)
  <2>1. wk[w] = "lower" /\ FMutexFree /\ UNCHANGED <<queue, empty, done, alive>>
    BY <1>3 DEF LowerFull
  <2>2. \A n \in Managers : mgr'[n] # "signal"
    BY <1>0, <1>3, <2>1 DEF LowerFull, Signalled, FMutexFree, TypeOK
  <2>3. OneSignals' /\ EmptyIsRight'
    BY <2>1, <2>2 DEF OneSignals, EmptyIsRight, Single
  <2>4. wk'[w] # "lower"
    BY <1>0, <1>3 DEF LowerFull, TypeOK
  <2>5. OnePlace'
    <3>1. Capacity = 1 => queue' = <<>>
      BY <1>0, <2>1 DEF Single, OnePlace
    <3> QED BY <2>4, <3>1 DEF OnePlace
  <2> QED BY <2>1, <2>3, <2>5 DEF Single, Bounded
<1>4. CASE DrainPop(w)
  <2>1. /\ queue # <<>> /\ queue' = Tail(queue) /\ wk[w] = "drain"
        /\ UNCHANGED <<mgr, done, alive>>
    BY <1>4 DEF DrainPop
  <2>2. done
    BY <1>0, <2>1 DEF Barrier, Draining
  <2>3. \A n \in Managers : mgr'[n] # "signal"
    BY <1>0, <2>1, <2>2, ManagerBeforeDone
  <2>4. wk'[w] # "lower"
    BY <1>0, <1>4 DEF DrainPop, TypeOK
  <2>5. Bounded'
    BY <1>0, <2>1, SeqLengths, CapacityAssumption DEF Single, Bounded
  <2>6. OneSignals' /\ EmptyIsRight' /\ OnePlace'
    BY <2>1, <2>2, <2>3, <2>4 DEF OneSignals, EmptyIsRight, OnePlace
  <2> QED BY <2>1, <2>5, <2>6 DEF Single
<1>5. ASSUME UNCHANGED <<queue, empty, full, done, mgr, alive>>,
             wk[w] # "lower", wk'[w] # "lower"
      PROVE Single'
  <2>1. EmptyIsRight'
    BY <1>0, <1>5 DEF Single, EmptyIsRight
  <2>2. OnePlace'
    BY <1>0, <1>5 DEF Single, OnePlace
  <2> QED BY <1>5, <2>1, <2>2 DEF Single, OneSignals, Bounded
<1>6. CASE WorkerSleep(w) \/ EnterDrain(w) \/ FetchReceives(w) \/ FetchRefused(w)
  BY <1>0, <1>5, <1>6 DEF WorkerSleep, EnterDrain, FetchReceives, FetchRefused, TypeOK
<1>7. CASE AddBytes(w) \/ AddFile(w) \/ FetchNoSuchFile(w) \/ PushSpread(w)
  BY <1>0, <1>5, <1>7 DEF AddBytes, AddFile, FetchNoSuchFile, PushSpread, Loop, TypeOK
<1>8. CASE DrainEnds(w) \/ QDone(w) \/ AwaitAck(w)
  BY <1>0, <1>5, <1>8 DEF DrainEnds, QDone, AwaitAck, TypeOK
<1> QED BY <1>1, <1>2, <1>3, <1>4, <1>6, <1>7, <1>8 DEF WorkerStep

LEMMA SingleMaster ==
  ASSUME Typed, TypeOK', Barrier, Single, MasterStep \/ Accept \/ SpuriousWakeup
  PROVE  Single'
<1>0. TypeOK
  BY DEF Typed
<1>1. ASSUME UNCHANGED <<queue, empty, full, done, alive>>,
             \A n \in Managers : mgr'[n] = "signal" => mgr[n] = "signal",
             \A w \in Workers : wk'[w] = "lower" <=> wk[w] = "lower"
      PROVE Single'
  BY <1>1 DEF Single, OneSignals, Bounded, EmptyIsRight, OnePlace
<1>2. CASE Unack \/ Collect \/ Report
  BY <1>1, <1>2 DEF Unack, Collect, Report
<1>3. CASE JoinManagers \/ Accept
  BY <1>0, <1>1, <1>3 DEF JoinManagers, Accept
<1>4. CASE SetAck
  BY <1>0, <1>1, <1>4 DEF SetAck, WakeAll, TypeOK
<1>5. CASE SpuriousWakeup
  <2>1. UNCHANGED <<queue, empty, full, done, alive>>
    BY <1>5 DEF SpuriousWakeup
  <2>2. \A n \in Managers : mgr'[n] = "signal" => mgr[n] = "signal"
    BY <1>0, <1>5 DEF SpuriousWakeup, TypeOK
  <2>3. \A w \in Workers : wk'[w] = "lower" <=> wk[w] = "lower"
    BY <1>0, <1>5 DEF SpuriousWakeup, TypeOK
  <2> QED BY <1>1, <2>1, <2>2, <2>3
<1>6. CASE SetDone
  <2>1. UNCHANGED <<queue, full, alive, mgr>> /\ done' /\ master # "join"
    BY <1>6 DEF SetDone
  <2>2. \A n \in Managers : mgr'[n] # "signal"
    BY <2>1 DEF Barrier, Phases
  <2>3. \A w \in Workers : wk'[w] = "lower" => wk[w] = "lower"
    BY <1>0, <1>6 DEF SetDone, WakeAll, TypeOK
  <2>4. OneSignals' /\ EmptyIsRight'
    BY <2>1, <2>2 DEF OneSignals, EmptyIsRight
  <2>5. OnePlace'
    BY <2>1, <2>3 DEF Single, OnePlace
  <2> QED BY <2>1, <2>4, <2>5 DEF Single, Bounded
<1>7. CASE VarInit
  <2>1. UNCHANGED <<queue, alive, mgr, wk>> /\ empty' /\ master = "var_init"
    BY <1>7 DEF VarInit
  <2>2. queue' = <<>> /\ \A w \in Workers : wk'[w] # "lower"
    BY <1>0, <2>1 DEF Barrier, ReportAtQuiescence, InWorker, WorkerStates
  <2>3. \A n \in Managers : mgr'[n] # "signal"
    BY <2>1 DEF Barrier, Phases
  <2>4. OneSignals' /\ EmptyIsRight' /\ OnePlace'
    BY <2>1, <2>2, <2>3 DEF OneSignals, EmptyIsRight, OnePlace
  <2> QED BY <2>1, <2>4 DEF Single, Bounded
<1> QED BY <1>2, <1>3, <1>4, <1>5, <1>6, <1>7 DEF MasterStep

LEMMA SingleNext ==
  ASSUME NEW w, Workers = {w}
  PROVE  Typed /\ Barrier /\ Single /\ [Next]_vars => Single'
<1> SUFFICES ASSUME Typed, Barrier, Single, [Next]_vars PROVE Single'
  OBVIOUS
<1>1. TypeOK'
  BY TypeNext
<1>2. ASSUME UNCHANGED vars PROVE Single'
  BY <1>2 DEF Single, OneSignals, Bounded, EmptyIsRight, OnePlace
<1> QED BY <1>1, <1>2, SingleMaster, SingleManager, SingleWorker DEF Next

\* With one worker no exception ends the process, for every number of managers and
\* every capacity of the queue.
THEOREM OneWorkerIsSafe == Spec => []SingleWorkerNeverThrows
<1>1. CASE Cardinality(Workers) = 1
  <2>1. PICK w : Workers = {w}
    BY <1>1, FS_Singleton, WorkersAssumption
  <2>2. Typed /\ Barrier /\ Single /\ [Next]_vars => Single'
    BY <2>1, SingleNext
  <2>3. Single => SingleWorkerNeverThrows
    BY DEF Single, SingleWorkerNeverThrows
  <2> QED BY <2>2, <2>3, SingleInit, TypedInvariant, BarrierInvariant, PTL DEF Spec
<1>2. CASE Cardinality(Workers) # 1
  <2>1. SingleWorkerNeverThrows
    BY <1>2 DEF SingleWorkerNeverThrows
  <2> QED BY <2>1, PTL
<1> QED BY <1>1, <1>2

--------------------------------------------------------------------------------
(* The threads of a request do not all wait for each other. *)

\* The main thread sleeps on the condition of _q_done only while it does not hold.
Uncounted == master = "q_done_wait" => q_done < Cardinality(Workers)

LEMMA UncountedNext == TypeOK /\ Barrier /\ Uncounted /\ [Next]_vars => Uncounted'
<1> SUFFICES ASSUME TypeOK, Barrier, Uncounted, [Next]_vars, master' = "q_done_wait"
             PROVE  q_done' < Cardinality(Workers)
  BY DEF Uncounted
<1>1. CASE q_done' = q_done /\ master' = master
  BY <1>1 DEF Uncounted
<1>2. ASSUME Accept PROVE FALSE
  BY <1>2 DEF Accept
<1>3. ASSUME MasterStep PROVE q_done' < Cardinality(Workers)
  <2>1. Collect
    BY <1>3 DEF MasterStep, JoinManagers, Unack, SetDone, Report, VarInit, SetAck
  <2> QED BY <2>1 DEF Collect
<1>4. ASSUME NEW m \in Managers, ManagerStep(m) PROVE q_done' = q_done /\ master' = master
  BY <1>4 DEF ManagerStep, Connect, SendErr, ReceiveName, ListingCut, ListingEnds,
              ManagerSleep, Push, SignalNotEmpty
<1>5. ASSUME NEW w \in Workers, WorkerStep(w) PROVE q_done' = q_done /\ master' = master
  <2>1. ~QDone(w)
    BY DEF QDone, TypeOK, MasterStates
  <2> QED BY <1>5, <2>1 DEF WorkerStep, WorkerSleep, PopItem, PopThrows, EnterDrain, LowerFull,
                            FetchReceives, FetchNoSuchFile, FetchRefused, AddBytes, AddFile,
                            PushSpread, DrainPop, DrainEnds, AwaitAck
<1>6. ASSUME SpuriousWakeup PROVE q_done' = q_done /\ master' = master
  BY <1>6 DEF SpuriousWakeup
<1> QED BY <1>1, <1>2, <1>3, <1>4, <1>5, <1>6 DEF Next

\* With nobody left behind the barrier of the request before, a manager that sleeps on
\* _f_cond, or the main thread that sleeps on _q_cond, has a thread that is awake to
\* wait for, whatever the number of threads and the capacity.
THEOREM NotAllWait == Spec => []SomeoneRuns
<1>1. ASSUME Typed, Barrier, EmptyInv, FullInv, Uncounted PROVE SomeoneRuns
  <2> DEFINE behind == InWorker({"ack", "ack_wait"})
             running == InWorker(WorkerStates \ {"e_wait", "ack", "ack_wait"})
             awake == InManager({"push", "signal"})
  <2> SUFFICES ASSUME master = "q_done_wait" \/ InManager({"f_wait"}) # {},
                      Cardinality(behind) <= q_done
               PROVE  running # {} \/ awake # {}
    BY DEF SomeoneRuns
  <2>1. TypeOK /\ \A w \in Workers : wk[w] \in WorkerStates
    BY <1>1 DEF Typed, TypeOK
  <2>2. IsFiniteSet(behind) /\ Cardinality(behind) \in Nat
    BY Counts
  <2>3. CASE master = "q_done_wait"
    <3>1. behind # Workers
      <4>1. Cardinality(behind) # Cardinality(Workers)
        <5>1. q_done \in Nat /\ q_done < Cardinality(Workers)
          BY <1>1, <2>1, <2>3 DEF Uncounted, TypeOK
        <5>2. Cardinality(Workers) \in Nat
          BY WorkersAssumption, FS_CardinalityType
        <5> HIDE DEF behind
        <5> QED BY <2>2, <5>1, <5>2
      <4> QED BY <4>1
    <3>2. PICK w \in Workers : wk[w] \notin {"ack", "ack_wait"}
      BY <3>1 DEF InWorker
    <3>3. wk[w] # "e_wait"
      BY <1>1, <2>3 DEF Barrier, Phases, EmptyInv, WorkerSleeps
    <3> QED BY <2>1, <3>2, <3>3 DEF InWorker
  <2>4. CASE InManager({"f_wait"}) # {}
    <3>1. ManagerSleeps /\ ~done /\ q_done = 0
      BY <1>1, <2>4 DEF ManagerSleeps, InManager, Barrier, Phases
    <3>2. behind = {}
      <4> HIDE DEF behind
      <4> QED BY <2>2, <3>1, FS_EmptySet
    <3>3. Capacity - Len(queue) <= Lowering + Pushing
      BY <1>1, <3>1 DEF FullInv
    <3>4. /\ Lowering \in Nat /\ Pushing \in Nat /\ Checking \in Nat /\ Signalling \in Nat
          /\ Capacity \in Nat \ {0} /\ Len(queue) \in Nat
      BY <2>1, CountTypes, CapacityAssumption DEF TypeOK
    <3>5. ASSUME running = {}, awake = {} PROVE FALSE
      <4>1. /\ InWorker({"lower"}) = {} /\ InWorker({"check"}) = {}
            /\ InManager({"push"}) = {} /\ InManager({"signal"}) = {}
        BY <3>5 DEF InWorker, InManager, WorkerStates
      <4>2. Lowering = 0 /\ Checking = 0 /\ Pushing = 0 /\ Signalling = 0
        BY <4>1, FS_EmptySet DEF Lowering, Checking, Pushing, Signalling
      <4>3. WorkerSleeps
        <5>1. PICK w \in Workers : TRUE
          BY WorkersAssumption
        <5>2. wk[w] \notin {"ack", "ack_wait"}
          BY <3>2 DEF InWorker
        <5> QED BY <2>1, <3>5, <5>2 DEF InWorker, WorkerSleeps
      <4>4. Len(queue) <= 0
        BY <1>1, <4>2, <4>3 DEF EmptyInv
      <4> QED BY <3>3, <3>4, <4>2, <4>4
    <3> QED BY <3>5
  <2> QED BY <2>3, <2>4
<1>2. Init => Uncounted
  BY DEF Init, Uncounted
<1>3. Typed => TypeOK
  BY DEF Typed
<1> QED BY TypedInvariant, BarrierInvariant, EmptyInvariant, FullInvariant, UncountedNext,
           <1>1, <1>2, <1>3, PTL DEF Spec

================================================================================
