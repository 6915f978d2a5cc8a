------------------------- MODULE MirrorServerRefinement -------------------------
(***************************************************************************)
(* MirrorServer implements Mirroring, for every number of workers, managers *)
(* and files and every capacity of the queue.  What is to be shown of the   *)
(* steps of the threads is that the elements of a request stay apart: that  *)
(* each is in one place at a time, so that it is resolved once.             *)
(***************************************************************************)
EXTENDS MirrorServerProofs

USE DEF masterVars, managerVars, workerVars, flagVars, statVars, vars

Handing(m) == mgr[m] \in {"push", "f_wait"}
Without    == {"none", "connect", "err", "exited"}   \* managers that have no listing
Working(w) == wk[w] \in {"lower", "fetch", "bytes", "files"}

USE DEF Without

\* The elements of the queue and those of the workers are all different.
Disjoint ==
  /\ \A j, k \in DOMAIN queue : queue[j] = queue[k] => j = k
  /\ \A w \in Workers : Working(w) => item[w] \notin ToSet(queue)
  /\ \A v, w \in Workers : Working(v) /\ Working(w) /\ item[v] = item[w] => v = w

\* What a manager has in its hand or is still to be told of is none of them, and a
\* manager that connects has none there from before.
Ahead ==
  /\ \A m \in Managers : Handing(m) => hand[m] \notin listing[m] /\ <<m, hand[m]>> \notin Taken
  /\ \A m \in Managers : \A f \in listing[m] : <<m, f>> \notin Taken
  /\ \A m \in Managers : mgr[m] = "connect" => \A f \in Files : <<m, f>> \notin Taken
  /\ \A m \in Managers : mgr[m] \in Without => listing[m] = {}

Apart == Disjoint /\ Ahead /\ (master = "accept" => Taken = {})

\* The invariant of the proof.
Sound == Typed /\ Barrier /\ Apart

--------------------------------------------------------------------------------
(* What a step does to the places of the elements. *)

LEMMA TakenAre == \A i : i \in Taken <=> \/ \E k \in DOMAIN queue : queue[k] = i
                                         \/ \E w \in Workers : Working(w) /\ item[w] = i
  BY DEF Taken, ToSet, InWorker, Working

LEMMA TakenArePrimed ==
  \A i : i \in Taken' <=> \/ \E k \in DOMAIN queue' : queue'[k] = i
                          \/ \E w \in Workers : Working(w)' /\ item'[w] = i
  BY DEF Taken, ToSet, InWorker, Working

LEMMA HandedAre == \A i : i \in Handed <=> \E m \in Managers : Handing(m) /\ i = <<m, hand[m]>>
  BY DEF Handed, InManager, Handing

LEMMA HandedArePrimed ==
  \A i : i \in Handed' <=> \E m \in Managers : Handing(m)' /\ i = <<m, hand'[m]>>
  BY DEF Handed, InManager, Handing

LEMMA TakenStay ==
  ASSUME UNCHANGED queue, \A w \in Workers : Working(w)' <=> Working(w),
         \A w \in Workers : Working(w) => item'[w] = item[w]
  PROVE  Taken' = Taken /\ (Disjoint => Disjoint')
<1>1. Taken' = Taken
  <2>1. ASSUME NEW i \in Taken PROVE i \in Taken'
    BY <2>1, TakenAre, TakenArePrimed
  <2>2. ASSUME NEW i \in Taken' PROVE i \in Taken
    BY <2>2, TakenAre, TakenArePrimed
  <2> QED BY <2>1, <2>2
<1> QED BY <1>1 DEF Disjoint

LEMMA HandedStay ==
  ASSUME UNCHANGED hand, \A m \in Managers : Handing(m)' <=> Handing(m)
  PROVE  Handed' = Handed
  BY HandedAre, HandedArePrimed

LEMMA TailParts ==
  ASSUME NEW S, NEW q \in Seq(S), q # <<>>
  PROVE  /\ \A k \in DOMAIN q : \/ k = 1 /\ q[k] = Head(q)
                                \/ k - 1 \in DOMAIN Tail(q) /\ q[k] = Tail(q)[k - 1]
         /\ \A k \in DOMAIN Tail(q) : k + 1 \in DOMAIN q /\ k + 1 # 1 /\ Tail(q)[k] = q[k + 1]
         /\ 1 \in DOMAIN q /\ Head(q) = q[1]
         /\ \A j, k \in DOMAIN Tail(q) : j + 1 = k + 1 => j = k
  OBVIOUS

LEMMA AppendParts ==
  ASSUME NEW S, NEW q \in Seq(S), NEW x \in S
  PROVE  /\ \A k \in DOMAIN q : k \in DOMAIN Append(q, x) /\ Append(q, x)[k] = q[k]
         /\ Len(q) + 1 \in DOMAIN Append(q, x) /\ Append(q, x)[Len(q) + 1] = x
         /\ \A k \in DOMAIN Append(q, x) : k \in DOMAIN q \/ k = Len(q) + 1
  OBVIOUS

\* A pop moves an element from the queue to the worker.
LEMMA PopMoves ==
  ASSUME TypeOK, Disjoint, NEW w \in Workers, ~Working(w), queue # <<>>,
         queue' = Tail(queue), item' = [item EXCEPT ![w] = Head(queue)],
         Working(w)', \A v \in Workers \ {w} : Working(v)' <=> Working(v)
  PROVE  Taken' = Taken /\ Disjoint'
<1>0. queue \in Seq(Items) /\ item \in [Workers -> Items \cup {None}]
  BY DEF TypeOK
<1>1. item'[w] = Head(queue) /\ \A v \in Workers \ {w} : item'[v] = item[v]
  BY <1>0
<1>2. Taken' = Taken
  <2>1. ASSUME NEW i \in Taken PROVE i \in Taken'
    <3>1. ASSUME NEW k \in DOMAIN queue, queue[k] = i PROVE i \in Taken'
      <4>1. CASE i = Head(queue)
        BY <1>1, <4>1, TakenArePrimed
      <4>2. CASE k - 1 \in DOMAIN queue' /\ queue'[k - 1] = i
        BY <4>2, TakenArePrimed
      <4> QED BY <1>0, <3>1, <4>1, <4>2, TailParts
    <3>2. ASSUME NEW v \in Workers, Working(v), item[v] = i PROVE i \in Taken'
      BY <1>1, <3>2, TakenArePrimed
    <3> QED BY <2>1, <3>1, <3>2, TakenAre
  <2>2. ASSUME NEW i \in Taken' PROVE i \in Taken
    BY <1>0, <1>1, <2>2, TailParts, TakenAre, TakenArePrimed
  <2> QED BY <2>1, <2>2
<1>3. \A j, k \in DOMAIN queue' : queue'[j] = queue'[k] => j = k
  BY <1>0, TailParts DEF Disjoint
<1>4. \A k \in DOMAIN queue' : queue'[k] # Head(queue) /\ queue'[k] \in ToSet(queue)
  BY <1>0, TailParts DEF Disjoint, ToSet
<1>5. \A v \in Workers : Working(v)' => item'[v] \notin ToSet(queue')
  BY <1>1, <1>4 DEF Disjoint, ToSet
<1>6. \A v \in Workers \ {w} : Working(v) => item[v] # Head(queue)
  BY <1>0, TailParts DEF Disjoint, ToSet
<1>7. \A u, v \in Workers : Working(u)' /\ Working(v)' /\ item'[u] = item'[v] => u = v
  BY <1>1, <1>6 DEF Disjoint
<1> QED BY <1>2, <1>3, <1>5, <1>7 DEF Disjoint

\* A worker resolves the element that it has.
LEMMA ResolveMoves ==
  ASSUME TypeOK, Disjoint, NEW w \in Workers, Working(w), UNCHANGED queue,
         \A v \in Workers \ {w} : item'[v] = item[v],
         ~Working(w)', \A v \in Workers \ {w} : Working(v)' <=> Working(v)
  PROVE  item[w] \in Taken /\ Taken' = Taken \ {item[w]} /\ Disjoint'
<1>1. item[w] \in Taken
  BY TakenAre
<1>2. \A k \in DOMAIN queue : queue[k] # item[w]
  BY DEF Disjoint, ToSet
<1>3. \A v \in Workers \ {w} : Working(v) => item[v] # item[w]
  BY DEF Disjoint
<1>4. ASSUME NEW i \in Taken, i # item[w] PROVE i \in Taken'
  BY <1>4, TakenAre, TakenArePrimed
<1>5. ASSUME NEW i \in Taken' PROVE i \in Taken /\ i # item[w]
  BY <1>2, <1>3, <1>5, TakenAre, TakenArePrimed
<1>6. Disjoint'
  BY DEF Disjoint
<1> QED BY <1>1, <1>4, <1>5, <1>6

\* A push moves an element from the manager to the queue.
LEMMA PushMoves ==
  ASSUME TypeOK, Disjoint, NEW i \in Items, i \notin Taken, queue' = Append(queue, i),
         UNCHANGED <<wk, item>>
  PROVE  Taken' = Taken \cup {i} /\ Disjoint'
<1>0. queue \in Seq(Items) /\ Len(queue) \in Nat /\ Len(queue) + 1 \notin DOMAIN queue
  BY DEF TypeOK
<1>1. \A w \in Workers : Working(w)' <=> Working(w)
  BY DEF Working
<1>2. ASSUME NEW j \in Taken \cup {i} PROVE j \in Taken'
  BY <1>0, <1>1, <1>2, AppendParts, TakenAre, TakenArePrimed
<1>3. ASSUME NEW j \in Taken' PROVE j \in Taken \cup {i}
  BY <1>0, <1>1, <1>3, AppendParts, TakenAre, TakenArePrimed
<1>4. \A k \in DOMAIN queue : queue[k] # i
  BY TakenAre
<1>5. \A j, k \in DOMAIN queue' : queue'[j] = queue'[k] => j = k
  BY <1>0, <1>4, AppendParts DEF Disjoint
<1>6. \A w \in Workers : Working(w) => item[w] # i
  BY TakenAre
<1>7. \A w \in Workers : Working(w)' => item'[w] \notin ToSet(queue')
  BY <1>0, <1>1, <1>6, AppendParts DEF Disjoint, ToSet
<1> QED BY <1>1, <1>2, <1>3, <1>5, <1>7 DEF Disjoint

--------------------------------------------------------------------------------
(* The elements stay apart. *)

LEMMA ApartInit == Init => Apart
<1> SUFFICES ASSUME Init PROVE Apart
  OBVIOUS
<1>1. Taken = {}
  BY TakenAre DEF Init, Working
<1> QED BY <1>1 DEF Init, Apart, Disjoint, Ahead, Working, Handing, ToSet

\* The steps of a manager that leave the places of the elements as they are.
LEMMA QuietManager ==
  ASSUME TypeOK, NEW m \in Managers,
         SendErr(m) \/ ListingCut(m) \/ ListingEnds(m) \/ ManagerSleep(m) \/ SignalNotEmpty(m)
  PROVE  /\ UNCHANGED <<queue, item, master>> /\ \A w \in Workers : Working(w)' <=> Working(w)
         /\ \A n \in Managers : Handing(n)' <=> Handing(n)
         /\ \A n \in Managers : Handing(n) => hand'[n] = hand[n]
         /\ \A n \in Managers : listing'[n] \subseteq listing[n]
         /\ \A n \in Managers : mgr'[n] # "connect" \/ mgr[n] = "connect"
         /\ \A n \in Managers : mgr'[n] \in Without => mgr[n] \in Without \/ listing'[n] = {}
<1> USE DEF TypeOK, Handing, Working
<1>1. CASE SendErr(m)
  BY <1>1 DEF SendErr
<1>2. CASE ListingCut(m)
  BY <1>2 DEF ListingCut
<1>3. CASE ListingEnds(m)
  BY <1>3 DEF ListingEnds
<1>4. CASE ManagerSleep(m)
  BY <1>4 DEF ManagerSleep
<1>5. CASE SignalNotEmpty(m)
  BY <1>5 DEF SignalNotEmpty, Signalled
<1> QED BY <1>1, <1>2, <1>3, <1>4, <1>5

LEMMA ApartManager ==
  ASSUME Sound, NEW m \in Managers, ManagerStep(m)
  PROVE  Apart'
<1> USE DEF Sound, Typed, Apart
<1>0. TypeOK
  OBVIOUS
<1>1. master = "join" /\ master' = "join"
  BY DEF ManagerStep, Barrier, Phases, TypeOK, Connect, SendErr, ReceiveName, ListingCut,
         ListingEnds, ManagerSleep, Push, SignalNotEmpty
<1>2. CASE SendErr(m) \/ ListingCut(m) \/ ListingEnds(m) \/ ManagerSleep(m) \/ SignalNotEmpty(m)
  <2>1. Taken' = Taken /\ Disjoint'
    BY <1>0, <1>2, QuietManager, TakenStay
  <2> QED BY <1>0, <1>1, <1>2, <2>1, QuietManager DEF Ahead
<1>3. CASE Connect(m)
  <2>1. Taken' = Taken /\ Disjoint'
    BY <1>3, TakenStay DEF Connect, Working
  <2>2. /\ mgr' \in {[mgr EXCEPT ![m] = "names"], [mgr EXCEPT ![m] = "err"]}
        /\ UNCHANGED hand /\ listing' \in [Managers -> SUBSET Files]
        /\ \A n \in Managers \ {m} : listing'[n] = listing[n]
        /\ mgr'[m] = "err" => listing'[m] = listing[m]
        /\ mgr[m] = "connect"
    BY <1>3 DEF Connect, TypeOK
  <2>3. Ahead'
    BY <1>0, <2>1, <2>2 DEF Ahead, Handing, TypeOK
  <2> QED BY <1>1, <2>1, <2>3
<1>4. CASE ReceiveName(m)
  <2>1. Taken' = Taken /\ Disjoint'
    BY <1>4, TakenStay DEF ReceiveName, Working
  <2>2. PICK f \in listing[m] :
          /\ listing' = [listing EXCEPT ![m] = @ \ {f}]
          /\ IF f \in Wanted
             THEN hand' = [hand EXCEPT ![m] = f] /\ mgr' = [mgr EXCEPT ![m] = "push"]
             ELSE UNCHANGED <<hand, mgr>>
    BY <1>4 DEF ReceiveName
  <2>3. mgr[m] = "names"
    BY <1>4 DEF ReceiveName
  <2>4. /\ <<m, f>> \notin Taken
        /\ \A n \in Managers : listing'[n] \subseteq listing[n]
        /\ f \notin listing'[m]
    BY <1>0, <2>2 DEF Ahead, TypeOK
  <2>5. /\ \A n \in Managers \ {m} : mgr'[n] = mgr[n] /\ hand'[n] = hand[n]
        /\ mgr'[m] = "names" \/ (mgr'[m] = "push" /\ hand'[m] = f)
    BY <1>0, <2>2, <2>3 DEF TypeOK
  <2>6. Ahead'
    BY <2>1, <2>4, <2>5 DEF Ahead, Handing
  <2> QED BY <1>1, <2>1, <2>6
<1>5. CASE Push(m)
  <2>1. /\ mgr[m] = "push" /\ mgr' = [mgr EXCEPT ![m] = "signal"]
        /\ UNCHANGED <<listing, hand, wk, item>>
        /\ queue' = queue \/ queue' = Append(queue, <<m, hand[m]>>)
    BY <1>5 DEF Push
  <2>2. <<m, hand[m]>> \in Items /\ <<m, hand[m]>> \notin Taken /\ hand[m] \notin listing[m]
    BY <2>1 DEF Holds, Items, Ahead, Handing
  <2>3. Disjoint' /\ Taken' \subseteq Taken \cup {<<m, hand[m]>>}
    <3>1. CASE queue' = queue
      BY <2>1, <3>1, TakenStay DEF Working
    <3>2. CASE queue' = Append(queue, <<m, hand[m]>>)
      BY <2>1, <2>2, <3>2, PushMoves
    <3> QED BY <2>1, <3>1, <3>2
  <2>4. \A n \in Managers : n # m => \A f : <<n, f>> \in Taken' => <<n, f>> \in Taken
    BY <2>3
  <2>5. \A n \in Managers \ {m} : mgr'[n] = mgr[n]
    BY <2>1 DEF TypeOK
  <2>6. mgr'[m] = "signal"
    BY <2>1 DEF TypeOK
  <2>7. \A f \in listing[m] : <<m, f>> \notin Taken'
    BY <2>2, <2>3 DEF Ahead
  <2>8. Ahead'
    BY <2>1, <2>4, <2>5, <2>6, <2>7 DEF Ahead, Handing
  <2> QED BY <1>1, <2>3, <2>8
<1> QED BY <1>2, <1>3, <1>4, <1>5 DEF ManagerStep

\* A step that takes no element forward and leaves the managers alone.
LEMMA AheadStays ==
  ASSUME Ahead, Taken' \subseteq Taken, UNCHANGED <<listing, hand>>,
         \A m \in Managers : Handing(m)' <=> Handing(m),
         \A m \in Managers : mgr'[m] = mgr[m] \/ mgr'[m] \notin Without
  PROVE  Ahead'
  BY DEF Ahead

LEMMA ApartWorker ==
  ASSUME Sound, NEW w \in Workers, WorkerStep(w)
  PROVE  Apart'
<1> USE DEF Sound, Typed, Apart
<1>0. TypeOK
  OBVIOUS
<1>1. UNCHANGED <<listing, hand>> /\ (\A m \in Managers : Handing(m)' <=> Handing(m))
      /\ \A m \in Managers : mgr'[m] = mgr[m] \/ mgr'[m] \notin Without
  <2>1. CASE LowerFull(w)
    BY <1>0, <2>1 DEF LowerFull, Signalled, Handing, TypeOK
  <2>2. CASE UNCHANGED <<listing, hand, mgr>>
    BY <2>2 DEF Handing
  <2> QED BY <2>1, <2>2 DEF WorkerStep, WorkerSleep, PopItem, PopThrows, EnterDrain, FetchReceives,
             FetchNoSuchFile, FetchRefused, AddBytes, AddFile, PushSpread, DrainPop, DrainEnds,
             QDone, AwaitAck, Loop
<1>2. master' = "accept" => master = "accept"
  BY DEF WorkerStep, WorkerSleep, PopItem, PopThrows, EnterDrain, LowerFull, FetchReceives,
         FetchNoSuchFile, FetchRefused, AddBytes, AddFile, PushSpread, DrainPop, DrainEnds,
         QDone, AwaitAck, Loop
<1>3. Disjoint' /\ Taken' \subseteq Taken
  <2>1. CASE PopItem(w) \/ DrainPop(w)
    <3>1. /\ ~Working(w) /\ queue # <<>> /\ queue' = Tail(queue)
          /\ item' = [item EXCEPT ![w] = Head(queue)]
          /\ Working(w)' /\ \A v \in Workers \ {w} : Working(v)' <=> Working(v)
      BY <1>0, <2>1 DEF PopItem, DrainPop, Working, TypeOK
    <3> QED BY <1>0, <3>1, PopMoves
  <2>2. CASE FetchNoSuchFile(w) \/ AddFile(w)
    <3>1. /\ Working(w) /\ UNCHANGED queue /\ \A v \in Workers \ {w} : item'[v] = item[v]
          /\ ~Working(w)' /\ \A v \in Workers \ {w} : Working(v)' <=> Working(v)
      BY <1>0, <2>2 DEF FetchNoSuchFile, AddFile, Loop, Working, TypeOK
    <3> QED BY <1>0, <3>1, ResolveMoves
  <2>3. CASE PushSpread(w)
    <3>1. /\ UNCHANGED queue /\ \A v \in Workers : Working(v) => item'[v] = item[v]
          /\ \A v \in Workers : Working(v)' <=> Working(v)
      BY <1>0, <2>3 DEF PushSpread, Loop, Working, TypeOK
    <3> QED BY <3>1, TakenStay
  <2>4. ASSUME UNCHANGED <<queue, item>>, \A v \in Workers : Working(v)' <=> Working(v)
        PROVE  Disjoint' /\ Taken' \subseteq Taken
    BY <2>4, TakenStay
  <2>5. CASE WorkerSleep(w) \/ PopThrows(w) \/ EnterDrain(w) \/ DrainEnds(w) \/ QDone(w)
             \/ AwaitAck(w)
    BY <1>0, <2>4, <2>5 DEF WorkerSleep, PopThrows, EnterDrain, DrainEnds, QDone, AwaitAck,
                            Working, TypeOK
  <2>6. CASE LowerFull(w) \/ FetchReceives(w) \/ FetchRefused(w) \/ AddBytes(w)
    BY <1>0, <2>4, <2>6 DEF LowerFull, FetchReceives, FetchRefused, AddBytes, Working, TypeOK
  <2> QED BY <2>1, <2>2, <2>3, <2>5, <2>6 DEF WorkerStep
<1>4. Ahead'
  BY <1>1, <1>3, AheadStays
<1> QED BY <1>2, <1>3, <1>4

LEMMA ApartMaster ==
  ASSUME Sound, Accept \/ MasterStep
  PROVE  Apart'
<1> USE DEF Sound, Typed, Apart
<1>0. TypeOK
  OBVIOUS
<1>1. Taken' = Taken /\ Disjoint'
  <2>1. UNCHANGED <<queue, item>> /\ \A w \in Workers : Working(w)' <=> Working(w)
    BY <1>0 DEF Accept, MasterStep, JoinManagers, Unack, SetDone, Collect, Report, VarInit, SetAck,
                WakeAll, Working, TypeOK
  <2> QED BY <2>1, TakenStay
<1>2. CASE Accept
  <2>1. /\ Taken = {} /\ UNCHANGED <<listing, hand>> /\ master' # "accept"
        /\ \A m \in Managers : mgr[m] = "none" /\ mgr'[m] \in {"none", "connect"}
    BY <1>0, <1>2 DEF Accept, Barrier, Phases, TypeOK
  <2> QED BY <1>1, <2>1 DEF Ahead, Handing
<1>3. CASE JoinManagers
  BY <1>1, <1>3 DEF JoinManagers, Ahead, Handing
<1>4. CASE Unack \/ SetDone \/ Collect \/ Report \/ VarInit
  BY <1>1, <1>4 DEF Unack, SetDone, Collect, Report, VarInit, Ahead, Handing
<1>5. CASE SetAck
  <2>1. /\ queue = <<>> /\ \A w \in Workers : ~Working(w)
    BY <1>0, <1>5 DEF SetAck, Barrier, ReportAtQuiescence, InWorker, Working, WorkerStates, TypeOK
  <2>2. Taken = {}
    BY <2>1, TakenAre
  <2>3. UNCHANGED managerVars
    BY <1>5 DEF SetAck
  <2> QED BY <1>1, <2>2, <2>3 DEF Ahead, Handing
<1> QED BY <1>2, <1>3, <1>4, <1>5 DEF MasterStep

LEMMA ApartNext == Sound /\ [Next]_vars => Apart'
<1> SUFFICES ASSUME Sound, [Next]_vars PROVE Apart'
  OBVIOUS
<1>1. CASE SpuriousWakeup
  <2> USE DEF Sound, Typed, Apart
  <2>1. /\ UNCHANGED <<queue, item, listing, hand>> /\ \A w \in Workers : Working(w)' <=> Working(w)
        /\ \A m \in Managers : Handing(m)' <=> Handing(m)
        /\ \A m \in Managers : mgr'[m] = mgr[m] \/ mgr'[m] \notin Without
        /\ master' = "accept" => master = "accept"
    BY <1>1 DEF SpuriousWakeup, Working, Handing, TypeOK
  <2>2. Taken' = Taken /\ Disjoint'
    BY <2>1, TakenStay
  <2> QED BY <2>1, <2>2, AheadStays
<1>2. CASE UNCHANGED vars
  BY <1>2 DEF Sound, Apart, Disjoint, Ahead, Taken, InWorker, Working, Handing
<1> QED BY <1>1, <1>2, ApartManager, ApartWorker, ApartMaster DEF Next

LEMMA SoundInvariant == Spec => []Sound
<1>1. Spec => [](Typed /\ Barrier)
  BY TypedInvariant, BarrierInvariant, PTL
<1>2. Init /\ Typed /\ Barrier => Sound
  BY ApartInit DEF Sound
<1>3. Sound /\ [Next]_vars /\ (Typed /\ Barrier)' => Sound'
  BY ApartNext DEF Sound
<1> QED BY <1>1, <1>2, <1>3, PTL DEF Spec

--------------------------------------------------------------------------------
(* Every step is one of Mirroring, or none. *)

\* A step in which nothing is discovered, resolved or reported.
LEMMA Stutter ==
  ASSUME Phase' = Phase, Handed' \cup Taken' = Handed \cup Taken,
         UNCHANGED <<files_recvd, reply>>,
         master = "var_init" <=> master' = "var_init"
  PROVE  UNCHANGED Abs!vars
  BY DEF Abs!vars

LEMMA ManagerSimulates ==
  ASSUME Sound, NEW m \in Managers, ManagerStep(m)
  PROVE  [Abs!Next]_(Abs!vars)
<1> USE DEF Sound, Typed, Apart
<1>0. TypeOK
  OBVIOUS
<1>1. /\ master = "join" /\ UNCHANGED <<master, files_recvd, reply>>
      /\ Phase = "open" /\ Phase' = "open"
  <2>1. master = "join" /\ UNCHANGED <<master, files_recvd, reply>>
    BY DEF ManagerStep, Barrier, Phases, TypeOK, Connect, SendErr, ReceiveName, ListingCut,
           ListingEnds, ManagerSleep, Push, SignalNotEmpty
  <2> QED BY <2>1 DEF Phase
<1>2. CASE SendErr(m) \/ ListingCut(m) \/ ListingEnds(m) \/ ManagerSleep(m) \/ SignalNotEmpty(m)
  <2>1. Taken' = Taken
    BY <1>0, <1>2, QuietManager, TakenStay
  <2>2. Handed' = Handed
    BY <1>0, <1>2, QuietManager, HandedAre, HandedArePrimed
  <2> QED BY <1>1, <2>1, <2>2, Stutter
<1>3. CASE Connect(m)
  <2>1. Taken' = Taken
    BY <1>3, TakenStay DEF Connect, Working
  <2>2. Handed' = Handed
    BY <1>0, <1>3, HandedStay DEF Connect, Handing, TypeOK
  <2> QED BY <1>1, <2>1, <2>2, Stutter
<1>4. CASE ReceiveName(m)
  <2>1. Taken' = Taken
    BY <1>4, TakenStay DEF ReceiveName, Working
  <2>2. PICK f \in listing[m] :
          IF f \in Wanted
          THEN hand' = [hand EXCEPT ![m] = f] /\ mgr' = [mgr EXCEPT ![m] = "push"]
          ELSE UNCHANGED <<hand, mgr>>
    BY <1>4 DEF ReceiveName
  <2>3. mgr[m] = "names"
    BY <1>4 DEF ReceiveName
  <2>4. CASE f \in Wanted
    <3>1. Handed' = Handed \cup {<<m, f>>}
      <4>1. /\ Handing(m)' /\ hand'[m] = f /\ ~Handing(m)
            /\ \A n \in Managers \ {m} : (Handing(n)' <=> Handing(n)) /\ hand'[n] = hand[n]
        BY <1>0, <2>2, <2>3, <2>4 DEF Handing, TypeOK
      <4>2. ASSUME NEW i \in Handed' PROVE i \in Handed \cup {<<m, f>>}
        BY <4>1, <4>2, HandedAre, HandedArePrimed
      <4>3. ASSUME NEW i \in Handed PROVE i \in Handed'
        BY <4>1, <4>3, HandedAre, HandedArePrimed
      <4>4. <<m, f>> \in Handed'
        BY <4>1, HandedArePrimed
      <4> QED BY <4>2, <4>3, <4>4
    <3>2. <<m, f>> \notin Handed /\ <<m, f>> \notin Taken /\ <<m, f>> \in Items
      BY <1>0, <2>2, <2>3, HandedAre DEF Ahead, Handing, Items, TypeOK
    <3>3. Abs!Discover(<<m, f>>)
      BY <1>1, <2>1, <3>1, <3>2 DEF Abs!Discover
    <3> QED BY <3>2, <3>3 DEF Abs!Next
  <2>5. CASE f \notin Wanted
    <3>1. Handed' = Handed
      BY <2>2, <2>5, HandedStay DEF Handing
    <3> QED BY <1>1, <2>1, <3>1, Stutter
  <2> QED BY <2>4, <2>5
<1>5. CASE Push(m)
  <2> DEFINE i == <<m, hand[m]>>
  <2>1. /\ mgr[m] = "push" /\ mgr' = [mgr EXCEPT ![m] = "signal"]
        /\ UNCHANGED <<listing, hand, wk, item>>
        /\ queue' = queue \/ queue' = Append(queue, i)
    BY <1>5 DEF Push
  <2>2. i \in Items /\ i \notin Taken /\ i \in Handed
    BY <2>1, HandedAre DEF Holds, Items, Ahead, Handing
  <2>3. Handed' = Handed \ {i}
    <3>1. /\ ~Handing(m)' /\ \A n \in Managers \ {m} : Handing(n)' <=> Handing(n)
      BY <1>0, <2>1 DEF Handing, TypeOK
    <3>2. ASSUME NEW j \in Handed' PROVE j \in Handed \ {i}
      BY <2>1, <3>1, <3>2, HandedAre, HandedArePrimed
    <3>3. ASSUME NEW j \in Handed, j # i PROVE j \in Handed'
      BY <2>1, <3>1, <3>3, HandedAre, HandedArePrimed
    <3> QED BY <3>2, <3>3
  <2>4. CASE queue' = queue
    <3>1. Taken' = Taken
      BY <2>1, <2>4, TakenStay DEF Working
    <3>2. Handed' \cup Taken' = (Handed \cup Taken) \ {i}
      BY <2>2, <2>3, <3>1
    <3>3. Abs!GiveUp(i)
      BY <1>1, <2>2, <3>2 DEF Abs!GiveUp
    <3> QED BY <2>2, <3>3 DEF Abs!Next
  <2>5. CASE queue' = Append(queue, i)
    <3>1. Taken' = Taken \cup {i}
      BY <2>1, <2>2, <2>5, PushMoves
    <3>2. Handed' \cup Taken' = Handed \cup Taken
      BY <2>2, <2>3, <3>1
    <3> QED BY <1>1, <3>2, Stutter
  <2> QED BY <2>1, <2>4, <2>5
<1> QED BY <1>2, <1>3, <1>4, <1>5 DEF ManagerStep

\* While a worker has an element, the request is not reported.
LEMMA ResolvesInTime ==
  ASSUME Sound, NEW w \in Workers, Working(w)
  PROVE  Phase # "idle" /\ master # "var_init"
<1>1. Taken # {}
  BY TakenAre
<1>2. master \notin {"report", "var_init", "set_ack"}
  BY DEF Sound, Barrier, ReportAtQuiescence, InWorker, Working, WorkerStates, Typed, TypeOK
<1> QED BY <1>1, <1>2 DEF Sound, Apart, Phase

LEMMA WorkerSimulates ==
  ASSUME Sound, NEW w \in Workers, WorkerStep(w)
  PROVE  [Abs!Next]_(Abs!vars)
<1> USE DEF Sound, Typed, Apart
<1>0. TypeOK
  OBVIOUS
<1>1. Phase' = Phase /\ (master = "var_init" <=> master' = "var_init") /\ UNCHANGED reply
  <2>1. CASE QDone(w)
    BY <2>1 DEF QDone, Phase
  <2>2. CASE UNCHANGED <<master, reply>>
    BY <2>2 DEF Phase
  <2> QED BY <2>1, <2>2 DEF WorkerStep, WorkerSleep, PopItem, PopThrows, EnterDrain, LowerFull,
             FetchReceives, FetchNoSuchFile, FetchRefused, AddBytes, AddFile, PushSpread, DrainPop,
             DrainEnds, AwaitAck
<1>2. Handed' = Handed
  <2>1. CASE LowerFull(w)
    <3>1. UNCHANGED hand /\ \A m \in Managers : Handing(m)' <=> Handing(m)
      BY <1>0, <2>1 DEF LowerFull, Signalled, Handing, TypeOK
    <3> QED BY <3>1, HandedStay
  <2>2. CASE UNCHANGED <<hand, mgr>>
    BY <2>2, HandedStay DEF Handing
  <2> QED BY <2>1, <2>2 DEF WorkerStep, WorkerSleep, PopItem, PopThrows, EnterDrain, FetchReceives,
             FetchNoSuchFile, FetchRefused, AddBytes, AddFile, PushSpread, DrainPop, DrainEnds,
             QDone, AwaitAck
<1>3. ASSUME Taken' = Taken, UNCHANGED files_recvd PROVE UNCHANGED Abs!vars
  BY <1>1, <1>2, <1>3, Stutter
<1>4. CASE PopItem(w) \/ DrainPop(w)
  <2>1. /\ ~Working(w) /\ queue # <<>> /\ queue' = Tail(queue)
        /\ item' = [item EXCEPT ![w] = Head(queue)] /\ UNCHANGED files_recvd
        /\ Working(w)' /\ \A v \in Workers \ {w} : Working(v)' <=> Working(v)
    BY <1>0, <1>4 DEF PopItem, DrainPop, Working, TypeOK
  <2>2. Taken' = Taken
    BY <1>0, <2>1, PopMoves
  <2> QED BY <1>3, <2>1, <2>2
<1>5. CASE FetchNoSuchFile(w) \/ AddFile(w)
  <2>1. /\ Working(w) /\ UNCHANGED queue /\ \A v \in Workers \ {w} : item'[v] = item[v]
        /\ ~Working(w)' /\ \A v \in Workers \ {w} : Working(v)' <=> Working(v)
    BY <1>0, <1>5 DEF FetchNoSuchFile, AddFile, Loop, Working, TypeOK
  <2>2. item[w] \in Taken /\ Taken' = Taken \ {item[w]}
    BY <1>0, <2>1, ResolveMoves
  <2>3. item[w] \in Items /\ item[w] \notin Handed
    BY <2>1, <2>2, HandedAre DEF Holds, Working, Ahead
  <2>4. Handed' \cup Taken' = (Handed \cup Taken) \ {item[w]}
    BY <1>2, <2>2, <2>3
  <2>5. Phase # "idle" /\ master # "var_init" /\ master' # "var_init"
    BY <1>1, <2>1, ResolvesInTime
  <2>6. CASE FetchNoSuchFile(w)
    <3>1. UNCHANGED files_recvd
      BY <2>6 DEF FetchNoSuchFile
    <3>2. Abs!GiveUp(item[w])
      BY <1>1, <2>2, <2>4, <2>5, <3>1 DEF Abs!GiveUp
    <3> QED BY <2>3, <3>2 DEF Abs!Next
  <2>7. CASE AddFile(w)
    <3>1. files_recvd' = files_recvd + 1
      BY <2>7 DEF AddFile
    <3>2. Abs!Mirror(item[w])
      BY <1>1, <2>2, <2>4, <2>5, <3>1 DEF Abs!Mirror
    <3> QED BY <2>3, <3>2 DEF Abs!Next
  <2> QED BY <1>5, <2>6, <2>7
<1>6. CASE PushSpread(w)
  <2>1. /\ UNCHANGED <<queue, files_recvd>> /\ \A v \in Workers : Working(v) => item'[v] = item[v]
        /\ \A v \in Workers : Working(v)' <=> Working(v)
    BY <1>0, <1>6 DEF PushSpread, Loop, Working, TypeOK
  <2>2. Taken' = Taken
    BY <2>1, TakenStay
  <2> QED BY <1>3, <2>1, <2>2
<1>7. CASE \/ WorkerSleep(w) \/ PopThrows(w) \/ EnterDrain(w) \/ DrainEnds(w) \/ QDone(w)
           \/ AwaitAck(w) \/ LowerFull(w) \/ FetchReceives(w) \/ FetchRefused(w) \/ AddBytes(w)
  <2>1. UNCHANGED <<queue, item, files_recvd>> /\ \A v \in Workers : Working(v)' <=> Working(v)
    BY <1>0, <1>7 DEF WorkerSleep, PopThrows, EnterDrain, DrainEnds, QDone, AwaitAck, LowerFull,
                      FetchReceives, FetchRefused, AddBytes, Working, TypeOK
  <2>2. Taken' = Taken
    BY <2>1, TakenStay
  <2> QED BY <1>3, <2>1, <2>2
<1> QED BY <1>4, <1>5, <1>6, <1>7 DEF WorkerStep

LEMMA MasterSimulates ==
  ASSUME Sound, Accept \/ MasterStep
  PROVE  [Abs!Next]_(Abs!vars)
<1> USE DEF Sound, Typed, Apart
<1>0. TypeOK
  OBVIOUS
<1>1. Taken' = Taken
  <2>1. UNCHANGED <<queue, item>> /\ \A w \in Workers : Working(w)' <=> Working(w)
    BY <1>0 DEF Accept, MasterStep, JoinManagers, Unack, SetDone, Collect, Report, VarInit, SetAck,
                WakeAll, Working, TypeOK
  <2> QED BY <2>1, TakenStay
<1>2. Handed' = Handed
  <2>1. UNCHANGED hand /\ \A m \in Managers : Handing(m)' <=> Handing(m)
    BY <1>0 DEF Accept, MasterStep, JoinManagers, Unack, SetDone, Collect, Report, VarInit, SetAck,
                Barrier, Phases, Handing, TypeOK
  <2> QED BY <2>1, HandedStay
<1>3. CASE Accept
  <2>1. /\ Phase = "idle" /\ Phase' = "open" /\ UNCHANGED <<files_recvd, reply>>
        /\ master # "var_init" /\ master' # "var_init"
    BY <1>3 DEF Accept, Phase
  <2>2. Abs!Begin
    BY <1>1, <1>2, <2>1 DEF Abs!Begin
  <2> QED BY <2>2 DEF Abs!Next
<1>4. CASE JoinManagers
  <2>1. /\ Phase = "open" /\ Phase' = "closed" /\ UNCHANGED <<files_recvd, reply>>
        /\ master # "var_init" /\ master' # "var_init"
    BY <1>4 DEF JoinManagers, Phase
  <2>2. Abs!Close
    BY <1>1, <1>2, <2>1 DEF Abs!Close
  <2> QED BY <2>2 DEF Abs!Next
<1>5. CASE Unack \/ SetDone \/ Collect
  <2>1. /\ Phase' = Phase /\ UNCHANGED <<files_recvd, reply>>
        /\ master # "var_init" /\ master' # "var_init"
    BY <1>5 DEF Unack, SetDone, Collect, Phase
  <2> QED BY <1>1, <1>2, <2>1, Stutter
<1>6. CASE Report
  <2>1. /\ Phase = "closed" /\ Phase' = "idle" /\ master = "report" /\ master' = "var_init"
    BY <1>6 DEF Report, Phase
  <2>2. reply'.files = files_recvd
    BY <1>0, <1>6 DEF Report, TypeOK
  <2>3. /\ queue = <<>> /\ \A m \in Managers : ~Handing(m)
        /\ \A w \in Workers : ~Working(w)
    BY <1>0, <2>1 DEF Barrier, ReportAtQuiescence, InManager, InWorker, Handing, Working,
                      ManagerStates, WorkerStates, TypeOK
  <2>4. Handed = {} /\ Taken = {}
    BY <2>3, HandedAre, TakenAre
  <2>5. Abs!Report
    BY <1>1, <1>2, <2>1, <2>2, <2>4 DEF Abs!Report
  <2> QED BY <2>5 DEF Abs!Next
<1>7. CASE VarInit
  <2>1. /\ Phase' = Phase /\ UNCHANGED reply /\ files_recvd' = 0
        /\ master = "var_init" /\ master' # "var_init"
    BY <1>7 DEF VarInit, Phase
  <2> QED BY <1>1, <1>2, <2>1 DEF Abs!vars
<1>8. CASE SetAck
  <2>1. /\ Phase' = Phase /\ UNCHANGED <<files_recvd, reply>>
        /\ master # "var_init" /\ master' # "var_init"
    BY <1>8 DEF SetAck, Phase
  <2> QED BY <1>1, <1>2, <2>1, Stutter
<1> QED BY <1>3, <1>4, <1>5, <1>6, <1>7, <1>8 DEF MasterStep

\* The Mirror Server implements its abstract specification: what it reports of a
\* request is the number of its elements that were mirrored since it was accepted,
\* each of them once, when none of them is left.
THEOREM MirrorServerImplements == Spec => Mirrors
<1>1. Init => Abs!Init
  <2> SUFFICES ASSUME Init PROVE Abs!Init
    OBVIOUS
  <2>1. Taken = {} /\ Handed = {}
    BY TakenAre, HandedAre DEF Init, Working, Handing
  <2> QED BY <2>1 DEF Init, Abs!Init, Phase
<1>2. Sound /\ [Next]_vars => [Abs!Next]_(Abs!vars)
  <2> SUFFICES ASSUME Sound, [Next]_vars PROVE [Abs!Next]_(Abs!vars)
    OBVIOUS
  <2>1. CASE SpuriousWakeup
    <3>1. /\ UNCHANGED <<queue, item, hand, files_recvd, reply>>
          /\ \A w \in Workers : Working(w)' <=> Working(w)
          /\ \A m \in Managers : Handing(m)' <=> Handing(m)
          /\ (master = "var_init" <=> master' = "var_init") /\ Phase' = Phase
      BY <2>1 DEF SpuriousWakeup, Working, Handing, Sound, Typed, TypeOK, Phase
    <3> QED BY <3>1, TakenStay, HandedStay, Stutter
  <2>2. CASE UNCHANGED vars
    <3>1. Taken' = Taken /\ Handed' = Handed /\ Phase' = Phase
      BY <2>2 DEF Taken, Handed, InWorker, InManager, Phase
    <3> QED BY <2>2, <3>1, Stutter
  <2> QED BY <2>1, <2>2, ManagerSimulates, WorkerSimulates, MasterSimulates DEF Next
<1> QED BY <1>1, <1>2, SoundInvariant, PTL DEF Spec, Mirrors, Abs!Spec

================================================================================
