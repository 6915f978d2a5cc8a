-------------------------- MODULE ContentServerProofs --------------------------
(***************************************************************************)
(* Proofs about ContentServer, for every number of workers and connections  *)
(* and every capacity of the queue.                                         *)
(***************************************************************************)
EXTENDS ContentServer, Counting

USE DEF vars

--------------------------------------------------------------------------------
(* Type correctness. *)

\* The connection that the main thread is about to queue is one.
InHand == master \in {"check_full", "f_wait", "push"} => fd \in Conns

Typed == TypeOK /\ InHand

LEMMA TypeInit == Init => Typed
<1> SUFFICES ASSUME Init PROVE Typed
  OBVIOUS
<1>1. queue \in Seq(Conns)
  BY EmptySeqType DEF Init
<1> QED BY <1>1 DEF Init, Typed, TypeOK, InHand

LEMMA TypeNext == Typed /\ [Next]_vars => Typed'
<1> SUFFICES ASSUME Typed, [Next]_vars PROVE Typed'
  OBVIOUS
<1> USE DEF Typed, TypeOK, InHand
<1>1. CASE Accept
  BY <1>1 DEF Accept
<1>2. CASE MasterStep
  <2>1. CASE CheckFull
    BY <2>1 DEF CheckFull
  <2>2. CASE Push
    <3>1. queue' \in Seq(Conns)
      BY <2>2, SeqLengths DEF Push
    <3> QED BY <2>2, <3>1 DEF Push
  <2>3. CASE PushThrows
    BY <2>3 DEF PushThrows
  <2>4. CASE SignalNotEmpty
    BY <2>4 DEF SignalNotEmpty
  <2> QED BY <1>2, <2>1, <2>2, <2>3, <2>4 DEF MasterStep
<1>3. ASSUME NEW w \in Workers, WorkerStep(w) PROVE Typed'
  <2>1. CASE WorkerSleep(w) \/ PopThrows(w)
    BY <2>1 DEF WorkerSleep, PopThrows
  <2>2. CASE Pop(w)
    <3>1. queue' \in Seq(Conns)
      BY <2>2, SeqLengths DEF Pop
    <3>2. Head(queue) \in Conns
      BY <2>2 DEF Pop
    <3> QED BY <2>2, <3>1, <3>2 DEF Pop
  <2>3. CASE LowerFull(w)
    BY <2>3 DEF LowerFull
  <2>4. CASE ReceiveList(w) \/ ReceiveFetch(w) \/ AwaitTable(w)
    BY <2>4, RefusedAssumption DEF ReceiveList, ReceiveFetch, AwaitTable
  <2>5. CASE DoList(w) \/ DoFetch(w) \/ DoFetchThrows(w)
    BY <2>5 DEF DoList, DoFetch, DoFetchThrows, Loop
  <2>6. CASE ReceiveRejected(w) \/ ReceiveMalformed(w) \/ FetchUnknown(w) \/ FetchThrows(w)
    BY <2>6 DEF ReceiveRejected, ReceiveMalformed, FetchUnknown, FetchThrows, Loop
  <2> QED BY <1>3, <2>1, <2>2, <2>3, <2>4, <2>5, <2>6 DEF WorkerStep
<1>4. CASE SpuriousWakeup \/ Kill
  BY <1>4 DEF SpuriousWakeup, Kill
<1>5. CASE UNCHANGED vars
  BY <1>5
<1> QED BY <1>1, <1>2, <1>3, <1>4, <1>5 DEF Next

LEMMA TypedInvariant == Spec => []Typed
  BY TypeInit, TypeNext, PTL DEF Spec

\* The type invariant, in every behaviour.
THEOREM TypeCorrect == Spec => []TypeOK
<1>1. Typed => TypeOK
  BY DEF Typed
<1> QED BY TypedInvariant, <1>1, PTL

--------------------------------------------------------------------------------
(* Who holds a connection. *)

\* OneHolder without counting: no two holders, and a held connection is open.
Apart ==
  /\ \A v, w \in Workers : client[v] = client[w] /\ client[v] # None => v = w
  /\ \A i, j \in DOMAIN queue : queue[i] = queue[j] => i = j
  /\ \A w \in Workers, i \in DOMAIN queue : client[w] # queue[i]
  /\ fd # None => /\ \A w \in Workers : client[w] # fd
                  /\ \A i \in DOMAIN queue : queue[i] # fd

HeldIsOpen ==
  /\ \A w \in Workers : client[w] # None => conn[client[w]] = "open"
  /\ \A i \in DOMAIN queue : conn[queue[i]] = "open"
  /\ fd # None => conn[fd] = "open"

Held == Apart /\ HeldIsOpen

LEMMA HeldInit == Init => Held
  BY DEF Init, Held, Apart, HeldIsOpen

LEMMA TailElements ==
  ASSUME NEW S, NEW q \in Seq(S), q # <<>>
  PROVE  /\ 1 \in DOMAIN q /\ Head(q) = q[1]
         /\ \A i \in DOMAIN Tail(q) : i + 1 \in DOMAIN q /\ i \in Nat /\ i # 0
                                      /\ Tail(q)[i] = q[i + 1]
  OBVIOUS

LEMMA AppendElements ==
  ASSUME NEW S, NEW q \in Seq(S), NEW x \in S
  PROVE  \A i \in DOMAIN Append(q, x) :
           \/ i \in DOMAIN q /\ Append(q, x)[i] = q[i]
           \/ i = Len(q) + 1 /\ Append(q, x)[i] = x
  OBVIOUS

LEMMA HeldNext == Typed /\ Held /\ [Next]_vars => Held'
<1> SUFFICES ASSUME Typed, Held, [Next]_vars PROVE Held'
  OBVIOUS
<1>0. /\ TypeOK /\ queue \in Seq(Conns) /\ client \in [Workers -> Conns \cup {None}]
      /\ conn \in [Conns -> {"new", "open", "closed"}]
  BY DEF Typed, TypeOK
<1> USE DEF Held
<1>1. ASSUME UNCHANGED <<fd, client, conn, queue>> PROVE Held'
  BY <1>1 DEF Apart, HeldIsOpen
<1>2. CASE Accept
  <2>1. PICK c \in Conns : conn[c] = "new" /\ fd' = c /\ conn' = [conn EXCEPT ![c] = "open"]
    BY <1>2 DEF Accept
  <2>2. UNCHANGED <<client, queue>>
    BY <1>2 DEF Accept
  <2>3. Apart'
    BY <1>0, <2>1, <2>2 DEF Apart, HeldIsOpen
  <2>4. HeldIsOpen'
    BY <1>0, <2>1, <2>2, NoneAssumption DEF HeldIsOpen
  <2> QED BY <2>3, <2>4
<1>3. CASE Push
  <2>1. /\ queue' = Append(queue, fd) /\ fd' = None /\ UNCHANGED <<client, conn>>
        /\ fd \in Conns
    BY <1>3 DEF Push, Typed, InHand
  <2>2. fd # None
    BY <2>1, NoneAssumption
  <2>3. \A i \in DOMAIN queue' : \/ i \in DOMAIN queue /\ queue'[i] = queue[i]
                                 \/ i = Len(queue) + 1 /\ queue'[i] = fd
    BY <1>0, <2>1, AppendElements
  <2>4. Apart'
    BY <2>1, <2>2, <2>3 DEF Apart
  <2>5. HeldIsOpen'
    BY <2>1, <2>2, <2>3 DEF HeldIsOpen
  <2> QED BY <2>4, <2>5
<1>4. ASSUME NEW w \in Workers, Pop(w) PROVE Held'
  <2>1. /\ queue # <<>> /\ queue' = Tail(queue) /\ UNCHANGED <<fd, conn>>
        /\ client' = [client EXCEPT ![w] = queue[1]]
    BY <1>0, <1>4, TailElements DEF Pop
  <2>2. /\ 1 \in DOMAIN queue
        /\ \A i \in DOMAIN queue' : i + 1 \in DOMAIN queue /\ i \in Nat /\ i # 0
                                    /\ queue'[i] = queue[i + 1]
    BY <1>0, <2>1, TailElements
  <2>3. client'[w] = queue[1] /\ \A v \in Workers \ {w} : client'[v] = client[v]
    BY <1>0, <2>1
  <2>4. /\ \A v, u \in Workers : client'[v] = client'[u] /\ client'[v] # None => v = u
        /\ fd # None => \A v \in Workers : client'[v] # fd
    BY <2>2, <2>3 DEF Apart
  <2>5. \A i, j \in DOMAIN queue' : queue'[i] = queue'[j] => i = j
    <3> TAKE i, j \in DOMAIN queue'
    <3> HAVE queue'[i] = queue'[j]
    <3>1. i + 1 = j + 1
      BY <2>2 DEF Apart
    <3> QED BY <2>2, <3>1
  <2>6. \A v \in Workers, i \in DOMAIN queue' : client'[v] # queue'[i]
    <3> TAKE v \in Workers, i \in DOMAIN queue'
    <3>1. i + 1 \in DOMAIN queue /\ queue'[i] = queue[i + 1] /\ i + 1 # 1
      BY <2>2
    <3> QED BY <2>2, <2>3, <3>1 DEF Apart
  <2>7. fd # None => \A i \in DOMAIN queue' : queue'[i] # fd
    BY <2>2 DEF Apart
  <2>8. HeldIsOpen'
    BY <2>1, <2>2, <2>3 DEF HeldIsOpen
  <2> QED BY <2>1, <2>4, <2>5, <2>6, <2>7, <2>8 DEF Apart
<1>5. ASSUME NEW w \in Workers, NEW fate, Loop(w, fate), UNCHANGED <<fd, queue>>
      PROVE  Held'
  <2>1. client' = [client EXCEPT ![w] = None] /\ conn' = [conn EXCEPT ![client[w]] = fate]
    BY <1>5 DEF Loop
  <2>2. client'[w] = None /\ \A v \in Workers \ {w} : client'[v] = client[v]
    BY <1>0, <2>1
  <2>3. \A i \in DOMAIN queue : queue[i] \in Conns
    BY <1>0
  <2>4. Apart'
    BY <1>5, <2>2, <2>3, NoneAssumption DEF Apart
  <2>5. \A c \in Conns : c # client[w] => conn'[c] = conn[c]
    BY <1>0, <2>1
  <2>6. \A v \in Workers : client'[v] # None => conn'[client'[v]] = "open"
    BY <1>0, <2>2, <2>5 DEF Apart, HeldIsOpen
  <2>7. \A i \in DOMAIN queue' : conn'[queue'[i]] = "open"
    BY <1>5, <2>3, <2>5 DEF Apart, HeldIsOpen
  <2>8. fd' # None => conn'[fd'] = "open"
    BY <1>0, <1>5, <2>5 DEF Apart, HeldIsOpen, TypeOK
  <2> QED BY <2>4, <2>6, <2>7, <2>8 DEF HeldIsOpen
<1>6. CASE MasterStep
  BY <1>1, <1>3, <1>6 DEF MasterStep, CheckFull, PushThrows, SignalNotEmpty
<1>7. ASSUME NEW w \in Workers, WorkerStep(w) PROVE Held'
  <2>1. CASE WorkerSleep(w) \/ PopThrows(w) \/ LowerFull(w) \/ ReceiveList(w) \/ ReceiveFetch(w)
             \/ AwaitTable(w)
    BY <1>1, <2>1 DEF WorkerSleep, PopThrows, LowerFull, ReceiveList, ReceiveFetch, AwaitTable
  <2>2. CASE DoList(w) \/ DoFetch(w) \/ DoFetchThrows(w) \/ ReceiveRejected(w)
             \/ ReceiveMalformed(w) \/ FetchUnknown(w) \/ FetchThrows(w)
    BY <1>5, <2>2 DEF DoList, DoFetch, DoFetchThrows, ReceiveRejected, ReceiveMalformed,
                      FetchUnknown, FetchThrows
  <2> QED BY <1>4, <1>7, <2>1, <2>2 DEF WorkerStep
<1>8. CASE SpuriousWakeup \/ Kill
  BY <1>1, <1>8 DEF SpuriousWakeup, Kill
<1>9. CASE UNCHANGED vars
  BY <1>1, <1>9
<1> QED BY <1>2, <1>6, <1>7, <1>8, <1>9 DEF Next

\* At most one element, hence none or one.
LEMMA AtMostOne ==
  ASSUME NEW S, \A x, y \in S : x = y
  PROVE  Cardinality(S) \in {0, 1} /\ (Cardinality(S) = 1 => S # {})
<1>1. CASE S = {}
  BY <1>1, FS_EmptySet
<1>2. CASE S # {}
  <2>1. PICK x : S = {x}
    BY <1>2
  <2> QED BY <2>1, FS_Singleton
<1> QED BY <1>1, <1>2

LEMMA HeldCounts == Typed /\ Held => OneHolder
<1> SUFFICES ASSUME Typed, Held, NEW c \in Conns
             PROVE  LET holders == {w \in Workers : client[w] = c}
                        places  == {i \in DOMAIN queue : queue[i] = c}
                        held    == Cardinality(holders) + Cardinality(places)
                                     + (IF fd = c THEN 1 ELSE 0)
                    IN  held <= 1 /\ (held = 1 => conn[c] = "open")
  BY DEF OneHolder
<1> DEFINE holders == {w \in Workers : client[w] = c}
           places  == {i \in DOMAIN queue : queue[i] = c}
           mine    == IF fd = c THEN 1 ELSE 0
<1>1. c # None
  BY NoneAssumption
<1>2. Cardinality(holders) \in {0, 1} /\ (Cardinality(holders) = 1 => holders # {})
  BY <1>1, AtMostOne DEF Held, Apart
<1>3. Cardinality(places) \in {0, 1} /\ (Cardinality(places) = 1 => places # {})
  BY AtMostOne DEF Held, Apart
<1>4. mine \in {0, 1} /\ (mine = 1 => fd = c)
  OBVIOUS
<1>5. holders # {} => places = {} /\ fd # c
  BY <1>1 DEF Held, Apart
<1>6. places # {} => fd # c
  BY <1>1 DEF Held, Apart
<1>7. holders # {} \/ places # {} \/ fd = c => conn[c] = "open"
  BY <1>1 DEF Held, HeldIsOpen
<1> HIDE DEF holders, places, mine
<1>8. /\ Cardinality(holders) + Cardinality(places) + mine <= 1
      /\ Cardinality(holders) + Cardinality(places) + mine = 1 =>
           holders # {} \/ places # {} \/ fd = c
  <2>1. ~(Cardinality(holders) = 1 /\ Cardinality(places) = 1)
    BY <1>2, <1>3, <1>5, FS_EmptySet
  <2>2. ~(Cardinality(holders) = 1 /\ mine = 1) /\ ~(Cardinality(places) = 1 /\ mine = 1)
    BY <1>2, <1>3, <1>4, <1>5, <1>6
  <2> QED BY <1>2, <1>3, <1>4, <2>1, <2>2
<1> QED BY <1>7, <1>8 DEF holders, places, mine

\* Whatever the number of workers and the order of the steps, a connection has one
\* holder at a time and is open while it has one.
THEOREM ConnectionsAreApart == Spec => []OneHolder
  BY TypedInvariant, HeldInit, HeldNext, HeldCounts, PTL DEF Spec

--------------------------------------------------------------------------------
(* Sleeping threads. *)

Checking   == Cardinality(InWorker({"check"}))
Lowering   == Cardinality(InWorker({"lower"}))
Signalling == IF master = "signal" THEN 1 ELSE 0

WorkerSleeps == \E w \in Workers : wk[w] = "e_wait"

\* While _empty is set, an element of the queue is one that the main thread has just
\* pushed; while _full is set, a free place is one that a worker is about to signal.
FlagsLag ==
  /\ empty => Len(queue) <= Signalling
  /\ full  => Capacity - Len(queue) <= Lowering

Awake ==
  /\ WorkerSleeps => Len(queue) <= Checking + Signalling
  /\ master = "f_wait" => Capacity - Len(queue) <= Lowering

Woken == FlagsLag /\ Awake

LEMMA CountTypes == Checking \in Nat /\ Lowering \in Nat /\ Signalling \in 0..1
<1>1. IsFiniteSet(InWorker({"check"})) /\ IsFiniteSet(InWorker({"lower"}))
  BY FS_Subset, WorkersAssumption DEF InWorker
<1> QED BY <1>1, FS_CardinalityType DEF Checking, Lowering, Signalling

LEMMA WorkerMoves ==
  ASSUME TypeOK, NEW w \in Workers, NEW s, wk' = [wk EXCEPT ![w] = s], NEW A
  PROVE  /\ Cardinality(InWorker(A)) \in Nat /\ Cardinality(InWorker(A))' \in Nat
         /\ wk[w] \notin A /\ s \in A =>
              Cardinality(InWorker(A))' = Cardinality(InWorker(A)) + 1
         /\ wk[w] \in A /\ s \notin A =>
              Cardinality(InWorker(A))' = Cardinality(InWorker(A)) - 1
         /\ (wk[w] \in A <=> s \in A) =>
              Cardinality(InWorker(A))' = Cardinality(InWorker(A))
<1> DEFINE F == InWorker(A)
           G == {t \in Workers : wk'[t] \in A}
<1>1. G = InWorker(A)'
  BY DEF InWorker
<1>2. IsFiniteSet(F) /\ IsFiniteSet(G)
  BY FS_Subset, WorkersAssumption DEF InWorker
<1>3. Cardinality(F) \in Nat /\ Cardinality(G) \in Nat
  BY <1>2, FS_CardinalityType
<1>4. F \ {w} = G \ {w} /\ (w \in F <=> wk[w] \in A) /\ (w \in G <=> s \in A)
  BY DEF TypeOK, InWorker
<1> HIDE DEF F, G
<1>5. /\ wk[w] \notin A /\ s \in A => Cardinality(G) = Cardinality(F) + 1
      /\ wk[w] \in A /\ s \notin A => Cardinality(G) = Cardinality(F) - 1
      /\ (wk[w] \in A <=> s \in A) => Cardinality(G) = Cardinality(F)
  BY <1>2, <1>4, OneDiffers
<1> QED BY <1>1, <1>3, <1>5 DEF F

LEMMA WorkerCounts ==
  ASSUME TypeOK, NEW w \in Workers, NEW s, wk' = [wk EXCEPT ![w] = s]
  PROVE  /\ Checking \in Nat /\ Checking' \in Nat
         /\ Lowering \in Nat /\ Lowering' \in Nat
         /\ wk[w] # "check" /\ s # "check" => Checking' = Checking
         /\ wk[w] # "check" /\ s = "check" => Checking' = Checking + 1
         /\ wk[w] = "check" /\ s # "check" => Checking' = Checking - 1
         /\ wk[w] # "lower" /\ s # "lower" => Lowering' = Lowering
         /\ wk[w] # "lower" /\ s = "lower" => Lowering' = Lowering + 1
         /\ wk[w] = "lower" /\ s # "lower" => Lowering' = Lowering - 1
<1>1. /\ Checking \in Nat /\ Checking' \in Nat
      /\ wk[w] \notin {"check"} /\ s \in {"check"} => Checking' = Checking + 1
      /\ wk[w] \in {"check"} /\ s \notin {"check"} => Checking' = Checking - 1
      /\ (wk[w] \in {"check"} <=> s \in {"check"}) => Checking' = Checking
  BY WorkerMoves DEF Checking
<1>2. /\ Lowering \in Nat /\ Lowering' \in Nat
      /\ wk[w] \notin {"lower"} /\ s \in {"lower"} => Lowering' = Lowering + 1
      /\ wk[w] \in {"lower"} /\ s \notin {"lower"} => Lowering' = Lowering - 1
      /\ (wk[w] \in {"lower"} <=> s \in {"lower"}) => Lowering' = Lowering
  BY WorkerMoves DEF Lowering
<1> QED BY <1>1, <1>2

LEMMA WokenInit == Init => Woken
<1> SUFFICES ASSUME Init PROVE Woken
  OBVIOUS
<1>1. Len(queue) = 0 /\ ~full /\ ~WorkerSleeps /\ master # "f_wait"
  BY DEF Init, WorkerSleeps
<1> QED BY <1>1, CountTypes DEF Woken, FlagsLag, Awake

\* A thread moves, without a pop or a push, and neither goes to sleep nor gives up
\* the signal that it owes.
LEMMA WokenKept ==
  ASSUME TypeOK, Woken, UNCHANGED <<queue, empty, full>>,
         WorkerSleeps' => WorkerSleeps, master' = "f_wait" => master = "f_wait",
         Checking' \in Nat, Checking' >= Checking, Lowering' = Lowering,
         Signalling' = Signalling
  PROVE  Woken'
<1>1. Len(queue) \in Nat /\ Len(queue') = Len(queue)
  BY DEF TypeOK
<1>2. FlagsLag'
  BY DEF Woken, FlagsLag
<1>3. WorkerSleeps' => Len(queue') <= Checking' + Signalling'
  BY <1>1, CountTypes DEF Woken, Awake
<1>4. master' = "f_wait" => Capacity - Len(queue') <= Lowering'
  BY DEF Woken, Awake
<1> QED BY <1>2, <1>3, <1>4 DEF Woken, Awake

LEMMA WokenMaster ==
  ASSUME Typed, Woken, Accept \/ MasterStep
  PROVE  Woken'
<1>0. TypeOK /\ queue \in Seq(Conns) /\ Len(queue) \in Nat /\ Capacity \in Nat
  BY CapacityAssumption DEF Typed, TypeOK
<1>1. wk' = wk => Checking' = Checking /\ Lowering' = Lowering /\ (WorkerSleeps' <=> WorkerSleeps)
  BY DEF Checking, Lowering, InWorker, WorkerSleeps
<1>2. CASE Accept \/ PushThrows
  <2>1. /\ UNCHANGED <<queue, empty, full, wk>>
        /\ master' = "f_wait" => master = "f_wait"
    BY <1>2 DEF Accept, PushThrows
  <2>2. Signalling' = Signalling
    BY <1>2 DEF Accept, PushThrows, Signalling
  <2> QED BY <1>0, <1>1, <2>1, <2>2, CountTypes, WokenKept
<1>3. CASE CheckFull
  <2>1. /\ UNCHANGED <<queue, empty, full, wk>>
        /\ master' = "f_wait" => full
    BY <1>3 DEF CheckFull
  <2>2. Signalling' = Signalling
    BY <1>3 DEF CheckFull, Signalling
  <2>3. FlagsLag' /\ (WorkerSleeps' => Len(queue') <= Checking' + Signalling')
    BY <1>1, <2>1, <2>2 DEF Woken, FlagsLag, Awake
  <2>4. master' = "f_wait" => Capacity - Len(queue') <= Lowering'
    BY <1>1, <2>1 DEF Woken, FlagsLag
  <2> QED BY <2>3, <2>4 DEF Woken, Awake
<1>4. CASE Push
  <2>1. /\ queue' = Append(queue, fd) /\ UNCHANGED <<empty, wk>> /\ fd \in Conns
        /\ master = "push" /\ master' = "signal"
    BY <1>4 DEF Push, Typed, InHand
  <2>2. Len(queue') = Len(queue) + 1 /\ Signalling = 0 /\ Signalling' = 1
    BY <1>0, <2>1, SeqLengths DEF Signalling
  <2>3. empty' => Len(queue') <= Signalling'
    <3>1. Len(queue) <= Signalling => Len(queue') <= Signalling'
      BY <1>0, <2>2
    <3> QED BY <2>1, <3>1 DEF Woken, FlagsLag
  <2>4. full' => Capacity - Len(queue') <= Lowering'
    <3>1. full' => Len(queue') = Capacity
      BY <1>4 DEF Push
    <3>2. Len(queue') = Capacity => Capacity - Len(queue') <= Lowering'
      BY <1>0, <1>1, <2>1, CountTypes
    <3> QED BY <3>1, <3>2
  <2>5. WorkerSleeps' => Len(queue') <= Checking' + Signalling'
    BY <1>0, <1>1, <2>1, <2>2, CountTypes DEF Woken, Awake
  <2> QED BY <2>1, <2>3, <2>4, <2>5 DEF Woken, FlagsLag, Awake
<1>5. CASE SignalNotEmpty
  <2>1. UNCHANGED <<queue, full>> /\ ~empty' /\ master = "signal" /\ master' = "accept"
    BY <1>5 DEF SignalNotEmpty
  <2>2. Signalling = 1 /\ Signalling' = 0
    BY <2>1 DEF Signalling
  <2>3. \A w \in Workers : wk'[w] = "lower" <=> wk[w] = "lower"
    BY <1>0, <1>5 DEF SignalNotEmpty, TypeOK
  <2>4. Lowering' = Lowering
    BY <2>3 DEF Lowering, InWorker
  <2>5. FlagsLag'
    BY <2>1, <2>4 DEF Woken, FlagsLag
  <2>6. WorkerSleeps' => Len(queue') <= Checking' + Signalling'
    <3>1. CASE WorkerSleeps
      <4>1. PICK w \in Workers : wk[w] = "e_wait" /\ wk' = [wk EXCEPT ![w] = "check"]
        BY <1>5, <3>1 DEF SignalNotEmpty, WorkerSleeps
      <4>2. Checking' = Checking + 1
        BY <1>0, <4>1, WorkerCounts
      <4> QED BY <1>0, <2>1, <2>2, <3>1, <4>2, CountTypes DEF Woken, Awake
    <3>2. CASE ~WorkerSleeps
      <4>1. wk' = wk
        BY <1>5, <3>2 DEF SignalNotEmpty, WorkerSleeps
      <4> QED BY <1>1, <3>2, <4>1
    <3> QED BY <3>1, <3>2
  <2> QED BY <2>1, <2>5, <2>6 DEF Woken, Awake
<1> QED BY <1>2, <1>3, <1>4, <1>5 DEF MasterStep

LEMMA WokenWorker ==
  ASSUME Typed, Woken, NEW w \in Workers, WorkerStep(w)
  PROVE  Woken'
<1>0. TypeOK /\ queue \in Seq(Conns) /\ Len(queue) \in Nat /\ Capacity \in Nat
  BY CapacityAssumption DEF Typed, TypeOK
<1>1. master' = master => Signalling' = Signalling
  BY DEF Signalling
<1>2. CASE WorkerSleep(w)
  <2>1. empty /\ UNCHANGED <<queue, empty, full, master>>
    BY <1>2 DEF WorkerSleep
  <2>2. PICK s : wk' = [wk EXCEPT ![w] = s] /\ wk[w] # "lower" /\ s # "lower"
    BY <1>2 DEF WorkerSleep
  <2>3. Lowering' = Lowering /\ Checking' \in Nat
    BY <1>0, <2>2, WorkerCounts
  <2>4. Len(queue) <= Signalling
    BY <2>1 DEF Woken, FlagsLag
  <2>5. Len(queue') <= Checking' + Signalling'
    BY <1>0, <1>1, <2>1, <2>3, <2>4, CountTypes
  <2>6. FlagsLag'
    BY <1>1, <2>1, <2>3 DEF Woken, FlagsLag
  <2>7. master' = "f_wait" => Capacity - Len(queue') <= Lowering'
    BY <2>1, <2>3 DEF Woken, Awake
  <2> QED BY <2>5, <2>6, <2>7 DEF Woken, Awake
<1>3. CASE Pop(w)
  <2>1. /\ queue # <<>> /\ queue' = Tail(queue) /\ UNCHANGED <<full, master>>
    BY <1>3 DEF Pop
  <2>2. PICK s : /\ wk' = [wk EXCEPT ![w] = s] /\ wk[w] = "check" /\ wk[w] # "lower"
                 /\ s # "check" /\ s = "lower"
    BY <1>3 DEF Pop
  <2>3. Checking' = Checking - 1 /\ Checking' \in Nat
    BY <1>0, <2>2, WorkerCounts
  <2>4. Lowering' = Lowering + 1
    BY <1>0, <2>2, WorkerCounts
  <2>5. Len(queue') = Len(queue) - 1 /\ Len(queue') \in Nat
    BY <1>0, <2>1, SeqLengths
  <2>6. WorkerSleeps' => WorkerSleeps
    <3>1. \A v \in Workers : wk'[v] = "e_wait" => wk[v] = "e_wait"
      BY <1>0, <1>3 DEF Pop, TypeOK
    <3> QED BY <3>1 DEF WorkerSleeps
  <2>7. empty' => Len(queue') <= Signalling'
    <3>1. queue' = <<>> => Len(queue') <= Signalling'
      <4>1. Signalling' \in 0..1
        BY DEF Signalling
      <4> QED BY <4>1
    <3>2. empty' => queue' = <<>>
      BY <1>3 DEF Pop
    <3> QED BY <3>1, <3>2
  <2>8. full' => Capacity - Len(queue') <= Lowering'
    <3>1. Capacity - Len(queue) <= Lowering => Capacity - Len(queue') <= Lowering'
      BY <1>0, <2>4, <2>5, CountTypes
    <3> QED BY <2>1, <3>1 DEF Woken, FlagsLag
  <2>9. WorkerSleeps' => Len(queue') <= Checking' + Signalling'
    BY <1>0, <1>1, <2>1, <2>3, <2>5, <2>6, CountTypes DEF Woken, Awake
  <2>10. master' = "f_wait" => Capacity - Len(queue') <= Lowering'
    BY <1>0, <2>1, <2>4, <2>5, CountTypes DEF Woken, Awake
  <2> QED BY <2>7, <2>8, <2>9, <2>10 DEF Woken, FlagsLag, Awake
<1>4. CASE PopThrows(w)
  <2>1. queue = <<>> /\ UNCHANGED <<queue, empty, full, master>>
    BY <1>4 DEF PopThrows
  <2>2. PICK s : wk' = [wk EXCEPT ![w] = s] /\ wk[w] # "lower" /\ s # "lower"
    BY <1>4 DEF PopThrows
  <2>3. Lowering' = Lowering /\ Checking' \in Nat
    BY <1>0, <2>2, WorkerCounts
  <2>4. Len(queue') <= Checking' + Signalling'
    <3>1. Signalling' \in 0..1
      BY DEF Signalling
    <3>2. Len(queue') = 0
      BY <2>1
    <3>3. Checking' \in Nat
      BY <2>3
    <3>4. \A c \in Nat, n \in 0..1 : 0 <= c + n
      OBVIOUS
    <3> QED BY <3>1, <3>2, <3>3, <3>4
  <2>5. FlagsLag'
    BY <1>1, <2>1, <2>3 DEF Woken, FlagsLag
  <2>6. master' = "f_wait" => Capacity - Len(queue') <= Lowering'
    BY <2>1, <2>3 DEF Woken, Awake
  <2> QED BY <2>4, <2>5, <2>6 DEF Woken, Awake
<1>5. CASE LowerFull(w)
  <2>1. /\ UNCHANGED <<queue, empty>> /\ ~full' /\ master' # "f_wait"
    BY <1>5 DEF LowerFull
  <2>2. Signalling' = Signalling
    BY <1>5 DEF LowerFull, Signalling
  <2>3. PICK s : wk' = [wk EXCEPT ![w] = s] /\ wk[w] # "check" /\ s # "check" /\ s # "e_wait"
    BY <1>5 DEF LowerFull
  <2>4. Checking' = Checking
    BY <1>0, <2>3, WorkerCounts
  <2>5. WorkerSleeps' => WorkerSleeps
    BY <1>0, <2>3 DEF WorkerSleeps, TypeOK
  <2>6. WorkerSleeps' => Len(queue') <= Checking' + Signalling'
    BY <2>1, <2>2, <2>4, <2>5 DEF Woken, Awake
  <2>7. FlagsLag'
    BY <2>1, <2>2 DEF Woken, FlagsLag
  <2> QED BY <2>1, <2>6, <2>7 DEF Woken, Awake
<1>6. ASSUME UNCHANGED <<queue, empty, full, master>>, NEW s, wk' = [wk EXCEPT ![w] = s],
             wk[w] # "check", wk[w] # "lower", s # "lower", s # "e_wait"
      PROVE Woken'
  <2>1. Checking' \in Nat /\ Checking' >= Checking
    <3>1. s # "check" => Checking' = Checking
      BY <1>0, <1>6, WorkerCounts
    <3>2. s = "check" => Checking' = Checking + 1
      BY <1>0, <1>6, WorkerCounts
    <3> QED BY <3>1, <3>2, CountTypes
  <2>2. Lowering' = Lowering
    BY <1>0, <1>6, WorkerCounts
  <2>3. WorkerSleeps' => WorkerSleeps
    BY <1>0, <1>6 DEF WorkerSleeps, TypeOK
  <2> QED BY <1>0, <1>1, <1>6, <2>1, <2>2, <2>3, WokenKept
<1>7. CASE ReceiveList(w) \/ ReceiveFetch(w) \/ AwaitTable(w)
  <2>1. PICK s : /\ UNCHANGED <<queue, empty, full, master>> /\ wk' = [wk EXCEPT ![w] = s]
                 /\ wk[w] # "check" /\ wk[w] # "lower" /\ s # "lower" /\ s # "e_wait"
    BY <1>7 DEF ReceiveList, ReceiveFetch, AwaitTable
  <2> QED BY <1>6, <2>1
<1>8. CASE DoList(w) \/ DoFetch(w) \/ DoFetchThrows(w)
  <2>1. PICK s : /\ UNCHANGED <<queue, empty, full, master>> /\ wk' = [wk EXCEPT ![w] = s]
                 /\ wk[w] # "check" /\ wk[w] # "lower" /\ s # "lower" /\ s # "e_wait"
    BY <1>8 DEF DoList, DoFetch, DoFetchThrows, Loop
  <2> QED BY <1>6, <2>1
<1>9. CASE ReceiveRejected(w) \/ ReceiveMalformed(w) \/ FetchUnknown(w) \/ FetchThrows(w)
  <2>1. PICK s : /\ UNCHANGED <<queue, empty, full, master>> /\ wk' = [wk EXCEPT ![w] = s]
                 /\ wk[w] # "check" /\ wk[w] # "lower" /\ s # "lower" /\ s # "e_wait"
    BY <1>9 DEF ReceiveRejected, ReceiveMalformed, FetchUnknown, FetchThrows, Loop
  <2> QED BY <1>6, <2>1
<1> QED BY <1>2, <1>3, <1>4, <1>5, <1>7, <1>8, <1>9 DEF WorkerStep

LEMMA WokenSpurious ==
  ASSUME Typed, Woken, SpuriousWakeup
  PROVE  Woken'
<1>0. TypeOK
  BY DEF Typed
<1>1. UNCHANGED <<queue, empty, full>> /\ (master' = "f_wait" => master = "f_wait")
  BY DEF SpuriousWakeup
<1>2. Signalling' = Signalling
  BY DEF SpuriousWakeup, Signalling
<1>3. CASE wk' = wk
  BY <1>0, <1>1, <1>2, <1>3, CountTypes, WokenKept
     DEF Checking, Lowering, InWorker, WorkerSleeps
<1>4. CASE \E w \in Workers : wk[w] = "e_wait" /\ wk' = [wk EXCEPT ![w] = "check"]
  <2>1. PICK w \in Workers, s \in {"check", "recv"} :
          /\ wk' = [wk EXCEPT ![w] = s] /\ wk[w] = "e_wait" /\ wk[w] # "check"
          /\ wk[w] # "lower" /\ s = "check" /\ s # "lower"
    BY <1>4
  <2>2. Checking' = Checking + 1
    BY <1>0, <2>1, WorkerCounts
  <2>3. Lowering' = Lowering
    BY <1>0, <2>1, WorkerCounts
  <2>4. WorkerSleeps
    BY <2>1 DEF WorkerSleeps
  <2> QED BY <1>0, <1>1, <1>2, <2>2, <2>3, <2>4, CountTypes, WokenKept
<1> QED BY <1>3, <1>4 DEF SpuriousWakeup

LEMMA WokenNext == Typed /\ Woken /\ [Next]_vars => Woken'
<1> SUFFICES ASSUME Typed, Woken, [Next]_vars PROVE Woken'
  OBVIOUS
<1>1. ASSUME UNCHANGED <<master, wk, queue, empty, full>> PROVE Woken'
  BY <1>1 DEF Woken, FlagsLag, Awake, WorkerSleeps, Checking, Lowering, Signalling, InWorker
<1> QED BY <1>1, WokenMaster, WokenWorker, WokenSpurious DEF Next, Kill

LEMMA WokenInvariant == Spec => []Woken
  BY TypedInvariant, WokenInit, WokenNext, PTL DEF Spec

\* While a worker sleeps, every queued connection has an awake worker or the signal
\* of the main thread.
THEOREM WorkersAreWoken == Spec => []NoLostWakeupEmpty
<1>1. Woken => NoLostWakeupEmpty
  BY DEF Woken, Awake, NoLostWakeupEmpty, WorkerSleeps, Checking, Signalling, InWorker
<1> QED BY WokenInvariant, <1>1, PTL

\* The main thread sleeps only while a worker for each free place is to signal it, in
\* every order of the two unsynchronised writes to _full.
THEOREM MainThreadIsWoken == Spec => []NoLostWakeupFull
<1>1. Woken => NoLostWakeupFull
  BY DEF Woken, Awake, NoLostWakeupFull, Lowering
<1> QED BY WokenInvariant, <1>1, PTL

\* When every worker is asleep the main thread is not, and there is nothing in the queue
\* but what it is about to signal: nobody waits for a thread that waits for him.
THEOREM AllAsleepIsIdle ==
  Spec => []((\A w \in Workers : wk[w] = "e_wait") =>
               master # "f_wait" /\ (master # "signal" => queue = <<>>))
<1>1. ASSUME Typed, Woken, \A w \in Workers : wk[w] = "e_wait"
      PROVE  master # "f_wait" /\ (master # "signal" => queue = <<>>)
  <2>1. Checking = 0 /\ Lowering = 0
    <3>1. InWorker({"check"}) = {} /\ InWorker({"lower"}) = {}
      BY <1>1 DEF InWorker
    <3> QED BY <3>1, FS_EmptySet DEF Checking, Lowering
  <2>2. WorkerSleeps
    BY <1>1, WorkersAssumption DEF WorkerSleeps
  <2>3. Len(queue) <= Signalling
    BY <1>1, <2>1, <2>2, CountTypes DEF Woken, Awake
  <2>4. queue \in Seq(Conns) /\ Len(queue) \in Nat /\ Capacity \in Nat \ {0}
    BY <1>1, CapacityAssumption DEF Typed, TypeOK
  <2>5. master # "f_wait"
    <3>1. master = "f_wait" => Capacity - Len(queue) <= 0 /\ Len(queue) <= 0
      BY <1>1, <2>1, <2>3 DEF Woken, Awake, Signalling
    <3> QED BY <2>4, <3>1
  <2>6. master # "signal" => queue = <<>>
    BY <2>3, <2>4 DEF Signalling
  <2> QED BY <2>5, <2>6
<1> QED BY <1>1, TypedInvariant, WokenInvariant, PTL

================================================================================
