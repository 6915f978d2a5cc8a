------------------------------ MODULE SystemProofs ------------------------------
(***************************************************************************)
(* Proofs about System, for every number of managers, workers and files.    *)
(***************************************************************************)
EXTENDS System, TLAPS, FiniteSetTheorems

USE DEF vars, mirrorVars, contentVars, MirrorAlone, ContentAlone

--------------------------------------------------------------------------------
(* The composition implements its components. *)

LEMMA MirrorStep == [Next]_vars => [MS!Next]_(MS!vars)
<1> SUFFICES ASSUME [Next]_vars PROVE [MS!Next]_(MS!vars)
  OBVIOUS
<1> USE DEF MS!vars, MS!masterVars, MS!managerVars, MS!workerVars, MS!flagVars, MS!statVars
<1>1. CASE MasterStep
  BY <1>1 DEF MasterStep, MS!Next
<1>2. ASSUME NEW m \in Managers, ManagerStep(m) PROVE MS!ManagerStep(m) \/ UNCHANGED mirrorVars
  BY <1>2 DEF ManagerStep, ManagerConnects, Dial, MS!ManagerStep
<1>3. ASSUME NEW w \in Workers, WorkerStep(w) PROVE MS!WorkerStep(w) \/ UNCHANGED mirrorVars
  BY <1>3 DEF WorkerStep, WorkerConnects, Transfer, Dial, MS!WorkerStep
<1>4. CASE ContentMasterStep
  BY <1>4 DEF ContentMasterStep
<1>5. ASSUME NEW cw \in CWorkers, ContentWorkerStep(cw) PROVE UNCHANGED mirrorVars
  BY <1>5 DEF ContentWorkerStep, HearList, HearFetch, EndList, FileGone
<1>6. CASE MirrorAlone(MS!SpuriousWakeup) \/ ContentAlone(CS!SpuriousWakeup)
  BY <1>6 DEF MS!Next
<1>7. CASE Crash \/ RemoveFile \/ UNCHANGED vars
  BY <1>7 DEF Crash, RemoveFile
<1>8. ASSUME UNCHANGED mirrorVars PROVE UNCHANGED MS!vars
  BY <1>8
<1> QED BY <1>1, <1>2, <1>3, <1>4, <1>5, <1>6, <1>7, <1>8 DEF Next, MS!Next

LEMMA ContentStep == [Next]_vars => [CS!Next]_(CS!vars)
<1> SUFFICES ASSUME [Next]_vars PROVE [CS!Next]_(CS!vars)
  OBVIOUS
<1> USE DEF CS!vars
<1>1. CASE MasterStep
  BY <1>1 DEF MasterStep
<1>2. ASSUME NEW m \in Managers, ManagerStep(m) PROVE UNCHANGED contentVars
  BY <1>2 DEF ManagerStep, ManagerConnects, Dial
<1>3. ASSUME NEW w \in Workers, WorkerStep(w)
      PROVE UNCHANGED contentVars \/ \E cw \in CWorkers : CS!WorkerStep(cw)
  BY <1>3 DEF WorkerStep, WorkerConnects, Transfer, Dial, CS!WorkerStep
<1>4. CASE ContentMasterStep
  BY <1>4 DEF ContentMasterStep, CS!Next
<1>5. ASSUME NEW cw \in CWorkers, ContentWorkerStep(cw) PROVE CS!WorkerStep(cw)
  BY <1>5 DEF ContentWorkerStep, HearList, HearFetch, EndList, FileGone, CS!WorkerStep
<1>6. CASE MirrorAlone(MS!SpuriousWakeup) \/ ContentAlone(CS!SpuriousWakeup)
  BY <1>6 DEF CS!Next
<1>7. CASE Crash \/ RemoveFile \/ UNCHANGED vars
  BY <1>7 DEF Crash, RemoveFile, CS!Next
<1> QED BY <1>1, <1>2, <1>3, <1>4, <1>5, <1>6, <1>7 DEF Next, CS!Next

\* What MirrorServer and ContentServer say of the two processes is true of them when
\* they are connected to each other: each step of the composition is a step of either,
\* of both, or of neither.
THEOREM ComponentsAreImplemented == Spec => MS!Spec /\ CS!Spec
<1>1. Init => MS!Init /\ CS!Init
  BY DEF Init
<1> QED BY <1>1, MirrorStep, ContentStep, PTL DEF Spec, MS!Spec, CS!Spec

--------------------------------------------------------------------------------
(* What is proved of the Mirror Server alone. *)

\* Its theorems, of the variables of the composition.
MSR == INSTANCE MirrorServerRefinement

LEMMA Finite == \A S : IsFiniteSet(S) => MSR!IsFiniteSet(S)
  BY DEF IsFiniteSet, MSR!IsFiniteSet

\* The definitions of MirrorServer, reached by MS and by MSR.
LEMMA SameInit == MS!Init => MSR!Init
  BY DEF MS!Init, MSR!Init

LEMMA SameNext == [MS!Next]_(MS!vars) => [MSR!Next]_(MSR!vars)
<1> USE DEF
  MS!vars, MS!masterVars, MS!managerVars, MS!workerVars, MS!flagVars, MS!statVars,
  MSR!vars, MSR!masterVars, MSR!managerVars, MSR!workerVars, MSR!flagVars, MSR!statVars
<1>1. ASSUME NEW m \in Managers, MS!ManagerStep(m) PROVE MSR!ManagerStep(m)
  BY <1>1
   DEF MS!ManagerStep, MS!Connect, MS!SendErr, MS!ReceiveName, MS!ListingCut, MS!ListingEnds,
       MS!ManagerSleep, MS!Push, MS!SignalNotEmpty, MS!FMutexFree, MS!Signalled,
       MSR!ManagerStep, MSR!Connect, MSR!SendErr, MSR!ReceiveName, MSR!ListingCut,
       MSR!ListingEnds, MSR!ManagerSleep, MSR!Push, MSR!SignalNotEmpty, MSR!FMutexFree,
       MSR!Signalled
<1>2. ASSUME NEW w \in Workers, MS!WorkerStep(w) PROVE MSR!WorkerStep(w)
  BY <1>2
   DEF MS!WorkerStep, MS!WorkerSleep, MS!PopItem, MS!PopThrows, MS!EnterDrain, MS!LowerFull,
       MS!FetchReceives, MS!FetchNoSuchFile, MS!FetchRefused, MS!AddBytes, MS!AddFile,
       MS!PushSpread, MS!DrainPop, MS!DrainEnds, MS!QDone, MS!AwaitAck, MS!Loop, MS!FMutexFree,
       MS!Signalled, MS!WrapInt, MSR!WorkerStep, MSR!WorkerSleep, MSR!PopItem, MSR!PopThrows,
       MSR!EnterDrain, MSR!LowerFull, MSR!FetchReceives, MSR!FetchNoSuchFile, MSR!FetchRefused,
       MSR!AddBytes, MSR!AddFile, MSR!PushSpread, MSR!DrainPop, MSR!DrainEnds, MSR!QDone,
       MSR!AwaitAck, MSR!Loop, MSR!FMutexFree, MSR!Signalled, MSR!WrapInt
<1>3. MS!Cardinality(Workers) = MSR!Cardinality(Workers)
  BY DEF MS!Cardinality, MSR!Cardinality
<1>4. MS!MasterStep => MSR!MasterStep
  BY <1>3
   DEF MS!MasterStep, MS!JoinManagers, MS!Unack, MS!SetDone, MS!Collect, MS!Report, MS!VarInit,
       MS!SetAck, MS!WakeAll, MSR!MasterStep, MSR!JoinManagers, MSR!Unack, MSR!SetDone,
       MSR!Collect, MSR!Report, MSR!VarInit, MSR!SetAck, MSR!WakeAll
<1>5. MS!Accept => MSR!Accept
  BY DEF MS!Accept, MSR!Accept
<1>6. MS!SpuriousWakeup => MSR!SpuriousWakeup
  BY DEF MS!SpuriousWakeup, MSR!SpuriousWakeup
<1> QED BY <1>1, <1>2, <1>4, <1>5, <1>6 DEF MS!Next, MSR!Next

\* The assumptions of MirrorServer.
LEMMA MirrorAssumed ==
  /\ Workers # {} /\ MSR!IsFiniteSet(Workers)
  /\ MSR!IsFiniteSet(Managers)
  /\ Wanted \subseteq Files /\ IntMax \in Nat /\ SizeOf \in [Files -> 1..IntMax]
  /\ JunkBytes \subseteq -(IntMax + 1)..IntMax
  /\ Capacity \in Nat \ {0} /\ MaxSessions \in Nat
  /\ None \notin Files /\ None \notin Managers \X Files
  BY MirrorAssumption, Finite

\* The invariant of MirrorServerRefinement: the elements of a request are apart.
LEMMA SoundInit == Init => MSR!Sound
<1>1. Init => MSR!Init
  BY SameInit DEF Init
<1>2. MSR!Init => MSR!Typed
  BY MirrorAssumed, MSR!TypeInit
<1>3. MSR!Init => MSR!Barrier
  BY MirrorAssumed, MSR!BarrierInit
<1>4. MSR!Init => MSR!Apart
  BY MirrorAssumed, MSR!ApartInit
<1> QED BY <1>1, <1>2, <1>3, <1>4 DEF MSR!Sound

LEMMA SoundNext == MSR!Sound /\ [Next]_vars => MSR!Sound'
<1> SUFFICES ASSUME MSR!Sound, [MSR!Next]_(MSR!vars) PROVE MSR!Sound'
  BY MirrorStep, SameNext
<1>0. MSR!Typed /\ MSR!TypeOK /\ MSR!Barrier
  BY DEF MSR!Sound, MSR!Typed
<1>1. MSR!TypeOK'
  BY <1>0, MirrorAssumed, MSR!TypeNext
<1>2. MSR!Holds'
  BY <1>0, MirrorAssumed, MSR!HoldsNext
<1>3. MSR!Draining'
  BY <1>0, MirrorAssumed, MSR!DrainingNext
<1>4. MSR!Phases'
  BY <1>0, MirrorAssumed, MSR!PhasesNext
<1>5. MSR!Counted'
  BY <1>0, MirrorAssumed, MSR!CountedNext
<1>6. MSR!ReportAtQuiescence'
  BY <1>0, <1>1, MirrorAssumed, MSR!ReportNext
<1>7. MSR!Apart'
  BY MirrorAssumed, MSR!ApartNext
<1> QED BY <1>1, <1>2, <1>3, <1>4, <1>5, <1>6, <1>7 DEF MSR!Sound, MSR!Typed, MSR!Barrier

\* A request has been accepted.
Begun == session \in Nat /\ (session = 0 => master = "accept")

LEMMA SessionGrows == [MS!Next]_(MS!vars) => session' \in {session, session + 1}
<1> SUFFICES ASSUME [MS!Next]_(MS!vars) PROVE session' \in {session, session + 1}
  OBVIOUS
<1> USE DEF MS!vars, MS!masterVars, MS!managerVars, MS!workerVars, MS!flagVars, MS!statVars
<1>1. ASSUME NEW m \in Managers, MS!ManagerStep(m) PROVE session' = session
  BY <1>1 DEF MS!ManagerStep, MS!Connect, MS!SendErr, MS!ReceiveName, MS!ListingCut,
              MS!ListingEnds, MS!ManagerSleep, MS!Push, MS!SignalNotEmpty
<1>2. ASSUME NEW w \in Workers, MS!WorkerStep(w) PROVE session' = session
  BY <1>2 DEF MS!WorkerStep, MS!WorkerSleep, MS!PopItem, MS!PopThrows, MS!EnterDrain,
       MS!LowerFull, MS!FetchReceives, MS!FetchNoSuchFile, MS!FetchRefused, MS!AddBytes,
       MS!AddFile, MS!PushSpread, MS!DrainPop, MS!DrainEnds, MS!QDone, MS!AwaitAck
<1>3. CASE MS!MasterStep \/ MS!Accept
  BY <1>3 DEF MS!MasterStep, MS!Accept, MS!JoinManagers, MS!Unack, MS!SetDone, MS!Collect,
              MS!Report, MS!VarInit, MS!SetAck
<1>4. CASE MS!SpuriousWakeup
  BY <1>4 DEF MS!SpuriousWakeup
<1> QED BY <1>1, <1>2, <1>3, <1>4 DEF MS!Next

LEMMA BegunNext == Begun /\ [MS!Next]_(MS!vars) => Begun'
<1> SUFFICES ASSUME Begun, [MS!Next]_(MS!vars) PROVE Begun'
  OBVIOUS
<1> USE DEF MS!vars, MS!masterVars, MS!managerVars, MS!workerVars, MS!flagVars, MS!statVars,
            Begun
<1>1. ASSUME NEW m \in Managers, MS!ManagerStep(m) PROVE Begun'
  BY <1>1 DEF MS!ManagerStep, MS!Connect, MS!SendErr, MS!ReceiveName, MS!ListingCut,
              MS!ListingEnds, MS!ManagerSleep, MS!Push, MS!SignalNotEmpty
<1>2. ASSUME NEW w \in Workers, MS!WorkerStep(w) PROVE Begun'
  <2>1. CASE MS!QDone(w)
    BY <2>1 DEF MS!QDone
  <2> QED
    BY <1>2, <2>1 DEF MS!WorkerStep, MS!WorkerSleep, MS!PopItem, MS!PopThrows, MS!EnterDrain,
         MS!LowerFull, MS!FetchReceives, MS!FetchNoSuchFile, MS!FetchRefused, MS!AddBytes,
         MS!AddFile, MS!PushSpread, MS!DrainPop, MS!DrainEnds, MS!AwaitAck
<1>3. CASE MS!MasterStep \/ MS!Accept
  BY <1>3 DEF MS!MasterStep, MS!Accept, MS!JoinManagers, MS!Unack, MS!SetDone, MS!Collect,
              MS!Report, MS!VarInit, MS!SetAck
<1>4. CASE MS!SpuriousWakeup
  BY <1>4 DEF MS!SpuriousWakeup
<1> QED BY <1>1, <1>2, <1>3, <1>4 DEF MS!Next

--------------------------------------------------------------------------------
(* An id is known before it is used. *)

LEMMA MirrorTypes ==
  ASSUME MSR!Sound
  PROVE  /\ mgr \in [Managers -> MSR!ManagerStates] /\ wk \in [Workers -> MSR!WorkerStates]
         /\ listing \in [Managers -> SUBSET Files] /\ hand \in [Managers -> Files \cup {None}]
         /\ item \in [Workers -> (Managers \X Files) \cup {None}]
         /\ queue \in Seq(Managers \X Files) /\ session \in 0..MaxSessions
         /\ \A w \in Workers : wk[w] \in {"lower", "fetch"} => item[w] \in Managers \X Files
  BY DEF MSR!Sound, MSR!Typed, MSR!TypeOK, MSR!Items, MSR!Holds

\* Managers, and workers with an element, belong to a request.
LEMMA InRequest ==
  ASSUME MSR!Sound, Begun
  PROVE  /\ \A m \in Managers : mgr[m] # "none" => session \in Sessions
         /\ \A w \in Workers : wk[w] \in {"lower", "fetch"} => session \in Sessions
<1>1. session \in 0..MaxSessions /\ (session # 0 => session \in Sessions)
  BY MirrorTypes DEF Sessions
<1>2. master = "accept" => \A m \in Managers : mgr[m] = "none"
  BY DEF MSR!Sound, MSR!Barrier, MSR!Phases
<1>3. \A w \in Workers : wk[w] \in {"lower", "fetch"} => item[w] \in MSR!Taken
  BY DEF MSR!Taken, MSR!InWorker
<1>4. master = "accept" => MSR!Taken = {}
  BY DEF MSR!Sound, MSR!Apart
<1> QED BY <1>1, <1>2, <1>3, <1>4 DEF Begun

\* The id of this manager of the request has a delay.
Told(m) == <<session, m>> \in ctable

\* A file of a manager is on its way through the Mirror Server only after a LIST gave
\* its id a delay.  A listing that is empty brings nothing on its way.
MirrorKnows ==
  /\ \A m \in Managers :
       mgr[m] \in {"push", "f_wait", "signal"} \/ listing[m] # {} => Told(m)
  /\ \A k \in DOMAIN queue : Told(queue[k][1])
  /\ \A w \in Workers : wk[w] \in {"lower", "fetch"} => Told(item[w][1])

\* The connections on which a LIST is sent, or a FETCH whose id has a delay.
Announced == {c \in Conns : c[3] # None => Id(c) \in ctable}

\* Every connection is one of those, wherever it is in the Content Server.
ContentKnows ==
  /\ dialled \subseteq Announced
  /\ cfd \in dialled \cup {None}
  /\ cmaster \in {"check_full", "f_wait", "push"} => cfd \in dialled
  /\ cqueue \in Seq(dialled)
  /\ cwk \in [CWorkers -> {"check", "e_wait", "stuck", "lower", "recv", "h_wait", "list",
                           "fetch"}]
  /\ cclient \in [CWorkers -> dialled \cup {None}]
  /\ \A cw \in CWorkers : cwk[cw] \in {"lower", "recv", "list", "fetch"} => cclient[cw] \in dialled
  /\ alive => \A cw \in CWorkers : cwk[cw] = "list" => Id(cclient[cw]) \in ctable

Knows == MirrorKnows /\ ContentKnows

LEMMA KnowsInit == Init => Knows
<1> SUFFICES ASSUME Init PROVE MirrorKnows /\ ContentKnows
  BY DEF Knows
<1> USE DEF Init, MS!Init, CS!Init
<1>1. <<>> \in Seq(dialled) /\ DOMAIN <<>> = {}
  OBVIOUS
<1>2. MirrorKnows
  BY <1>1 DEF MirrorKnows
<1>3. ContentKnows
  BY <1>1 DEF ContentKnows, Announced
<1> QED BY <1>2, <1>3

LEMMA LargerSeq ==
  ASSUME NEW S, NEW T, S \subseteq T, NEW s \in Seq(S)
  PROVE  s \in Seq(T)
  OBVIOUS

LEMMA SequenceParts ==
  ASSUME NEW S, NEW s \in Seq(S)
  PROVE  /\ \A x \in S : /\ Append(s, x) \in Seq(S)
                         /\ \A k \in DOMAIN Append(s, x) :
                              (k \in DOMAIN s /\ Append(s, x)[k] = s[k]) \/ Append(s, x)[k] = x
         /\ s # <<>> => /\ Head(s) \in S /\ Tail(s) \in Seq(S)
                        /\ \E k \in DOMAIN s : Head(s) = s[k]
                        /\ \A k \in DOMAIN Tail(s) : \E j \in DOMAIN s : Tail(s)[k] = s[j]
<1>1. ASSUME NEW x \in S
      PROVE  /\ Append(s, x) \in Seq(S)
             /\ \A k \in DOMAIN Append(s, x) :
                  (k \in DOMAIN s /\ Append(s, x)[k] = s[k]) \/ Append(s, x)[k] = x
  OBVIOUS
<1>2. ASSUME s # <<>>
      PROVE  /\ Head(s) \in S /\ Tail(s) \in Seq(S)
             /\ \E k \in DOMAIN s : Head(s) = s[k]
             /\ \A k \in DOMAIN Tail(s) : \E j \in DOMAIN s : Tail(s)[k] = s[j]
  <2>1. Head(s) \in S /\ Tail(s) \in Seq(S) /\ 1 \in DOMAIN s /\ Head(s) = s[1]
    BY <1>2
  <2>2. \A k \in DOMAIN Tail(s) : k + 1 \in DOMAIN s /\ Tail(s)[k] = s[k + 1]
    BY <1>2
  <2> QED BY <2>1, <2>2
<1> QED BY <1>1, <1>2

LEMMA MirrorKeeps ==
  ASSUME MirrorKnows, ctable \subseteq ctable', UNCHANGED <<session, mgr, listing, wk, item, queue>>
  PROVE  MirrorKnows'
  BY DEF MirrorKnows, Told

LEMMA ContentKeeps ==
  ASSUME ContentKnows, UNCHANGED <<cmaster, cfd, cwk, cclient, cqueue, ctable>>,
         alive' => alive, dialled \subseteq dialled', dialled' \subseteq Announced
  PROVE  ContentKnows'
<1>1. cqueue' \in Seq(dialled')
  BY LargerSeq DEF ContentKnows
<1>2. Announced' = Announced
  BY DEF Announced
<1>3. cclient' \in [CWorkers -> dialled' \cup {None}]
  BY DEF ContentKnows
<1>4. /\ cfd' \in dialled' \cup {None}
      /\ cmaster' \in {"check_full", "f_wait", "push"} => cfd' \in dialled'
  BY DEF ContentKnows
<1>5. \A cw \in CWorkers :
        cwk'[cw] \in {"lower", "recv", "list", "fetch"} => cclient'[cw] \in dialled'
  BY DEF ContentKnows
<1> QED BY <1>1, <1>2, <1>3, <1>4, <1>5 DEF ContentKnows

LEMMA ManagersKnow ==
  ASSUME MSR!Sound, Begun, MirrorKnows, ContentKnows, NEW m \in Managers, ManagerStep(m)
  PROVE  MirrorKnows' /\ ContentKnows'
<1> USE DEF MS!masterVars, MS!managerVars, MS!workerVars, MS!flagVars, MS!statVars
<1>7. alive
  BY DEF ManagerStep
<1>8. /\ mgr \in [Managers -> MSR!ManagerStates] /\ wk \in [Workers -> MSR!WorkerStates]
      /\ listing \in [Managers -> SUBSET Files] /\ hand \in [Managers -> Files \cup {None}]
      /\ item \in [Workers -> (Managers \X Files) \cup {None}]
      /\ queue \in Seq(Managers \X Files)
      /\ mgr[m] # "none" => session \in Sessions
      /\ mgr[m] = "push" => hand[m] \in Files
  BY MirrorTypes, InRequest DEF MSR!Sound, MSR!Typed, MSR!Holds
<1>0. /\ UNCHANGED <<ctable, session>> /\ ContentKnows'
      /\ \/ MS!ManagerStep(m) /\ UNCHANGED <<contentVars, dialled>>
         \/ UNCHANGED mirrorVars
  <2>1. UNCHANGED <<contentVars, dialled>> \/ (mgr[m] = "connect" /\ Dial(<<session, m, None>>))
    BY DEF ManagerStep, ManagerConnects
  <2>2. ContentKnows'
    <3>1. CASE UNCHANGED <<contentVars, dialled>>
      BY <1>7, <3>1, ContentKeeps DEF ContentKnows
    <3>2. CASE mgr[m] = "connect" /\ Dial(<<session, m, None>>)
      <4>1. <<session, m, None>> \in Announced
        BY <1>8, <3>2 DEF Conns, Announced
      <4>2. dialled \subseteq dialled' /\ dialled' \subseteq Announced
        BY <3>2, <4>1 DEF Dial, ContentKnows
      <4> QED BY <1>7, <3>2, <4>2, ContentKeeps DEF Dial
    <3> QED BY <2>1, <3>1, <3>2
  <2>3. UNCHANGED mirrorVars \/ MS!ManagerStep(m)
    BY DEF ManagerStep, ManagerConnects, Dial, MS!ManagerStep
  <2>4. MS!ManagerStep(m) => UNCHANGED session
    BY DEF MS!ManagerStep, MS!Connect, MS!SendErr, MS!ReceiveName, MS!ListingCut,
           MS!ListingEnds, MS!ManagerSleep, MS!Push, MS!SignalNotEmpty
  <2> QED BY <2>1, <2>2, <2>3, <2>4
          DEF Dial, ManagerStep, ManagerConnects, MS!ManagerStep
<1>9. \A n \in Managers : Told(n)' <=> Told(n)
  BY <1>0 DEF Told
<1> DEFINE StillTold ==
      \A n \in Managers :
        mgr'[n] \in {"push", "f_wait", "signal"} \/ listing'[n] # {} => Told(n)
<1>10. ASSUME UNCHANGED <<wk, item, queue>>, StillTold PROVE  MirrorKnows'
  BY <1>0, <1>10 DEF MirrorKnows, Told
<1>1. CASE ManagerConnects(m)
  <2>1. CASE UNCHANGED mirrorVars
    BY <1>0, <2>1, MirrorKeeps
  <2>2. CASE \E cw \in CWorkers : Serves(cw, <<session, m, None>>, "list") /\ MS!Connect(m)
    <3>1. Told(m)
      BY <1>7, <2>2 DEF Serves, ContentKnows, Told, Id
    <3>2. StillTold
      BY <1>8, <2>2, <3>1 DEF MirrorKnows, MS!Connect
    <3> QED BY <1>0, <1>10, <2>2, <3>2 DEF MS!Connect
  <2>3. CASE MS!Connect(m) /\ ((mgr'[m] = "names" /\ listing'[m] = {}) \/ mgr'[m] = "err")
    <3>1. StillTold
      BY <1>8, <2>3 DEF MirrorKnows, MS!Connect
    <3> QED BY <1>0, <1>10, <2>3, <3>1 DEF MS!Connect
  <2> QED BY <1>0, <1>1, <2>1, <2>2, <2>3 DEF ManagerConnects, Dial
<1>2. CASE MS!ReceiveName(m)
  <2>1. StillTold
    BY <1>8, <1>2 DEF MirrorKnows, MS!ReceiveName
  <2> QED BY <1>0, <1>10, <1>2, <2>1 DEF MS!ReceiveName
<1>3. CASE MS!ListingCut(m)
  <2>1. StillTold
    BY <1>8, <1>3 DEF MirrorKnows, MS!ListingCut
  <2> QED BY <1>0, <1>10, <1>3, <2>1 DEF MS!ListingCut
<1>4. CASE MS!SendErr(m) \/ MS!ListingEnds(m) \/ MS!ManagerSleep(m)
  <2>1. StillTold
    BY <1>8, <1>4 DEF MirrorKnows, MS!SendErr, MS!ListingEnds, MS!ManagerSleep
  <2> QED BY <1>0, <1>10, <1>4, <2>1 DEF MS!SendErr, MS!ListingEnds, MS!ManagerSleep
<1>5. CASE MS!Push(m)
  <2>1. /\ <<m, hand[m]>> \in Managers \X Files /\ <<m, hand[m]>>[1] = m /\ Told(m)
        /\ UNCHANGED <<listing, wk, item>> /\ mgr' = [mgr EXCEPT ![m] = "signal"]
    BY <1>5, <1>8 DEF MirrorKnows, MS!Push
  <2>2. \A k \in DOMAIN queue' : Told(queue'[k][1])
    <3>1. CASE queue' = queue
      BY <3>1 DEF MirrorKnows
    <3>2. CASE queue' = Append(queue, <<m, hand[m]>>)
      BY <1>8, <2>1, <3>2, SequenceParts DEF MirrorKnows
    <3> QED BY <1>5, <3>1, <3>2 DEF MS!Push
  <2>3. \A n \in Managers :
          mgr'[n] \in {"push", "f_wait", "signal"} \/ listing'[n] # {} => Told(n)
    BY <1>8, <2>1 DEF MirrorKnows
  <2> QED BY <1>0, <2>1, <2>2, <2>3 DEF MirrorKnows, Told
<1>6. CASE MS!SignalNotEmpty(m)
  <2>1. \A w \in Workers : wk'[w] \in {"lower", "fetch"} => wk[w] \in {"lower", "fetch"}
    BY <1>6, <1>8 DEF MS!SignalNotEmpty, MS!Signalled
  <2>2. \A n \in Managers :
          mgr'[n] \in {"push", "f_wait", "signal"} \/ listing'[n] # {} => Told(n)
    BY <1>6, <1>8 DEF MirrorKnows, MS!SignalNotEmpty
  <2>3. UNCHANGED <<item, queue>>
    BY <1>6 DEF MS!SignalNotEmpty
  <2> QED BY <1>0, <2>1, <2>2, <2>3 DEF MirrorKnows, Told
<1> QED BY <1>0, <1>1, <1>2, <1>3, <1>4, <1>5, <1>6 DEF ManagerStep

LEMMA WorkersKnow ==
  ASSUME MSR!Sound, MirrorKnows, NEW w \in Workers, WorkerStep(w)
  PROVE  MirrorKnows'
<1> USE DEF MS!masterVars, MS!managerVars, MS!workerVars, MS!flagVars, MS!statVars
<1>0. UNCHANGED ctable
  BY DEF WorkerStep, WorkerConnects, Transfer, Dial, CS!DoFetch
<1>8. /\ mgr \in [Managers -> MSR!ManagerStates] /\ wk \in [Workers -> MSR!WorkerStates]
      /\ item \in [Workers -> (Managers \X Files) \cup {None}]
      /\ queue \in Seq(Managers \X Files)
  BY MirrorTypes
<1>9. ASSUME UNCHANGED <<session, mgr, listing, queue>>,
             \A v \in Workers : wk'[v] \in {"lower", "fetch"} =>
               wk[v] \in {"lower", "fetch"} /\ item'[v] = item[v]
      PROVE  MirrorKnows'
  BY <1>0, <1>9 DEF MirrorKnows, Told
<1>1. CASE WorkerConnects(w)
  <2>1. CASE UNCHANGED mirrorVars
    BY <1>0, <2>1, MirrorKeeps
  <2>2. CASE MS!FetchRefused(w)
    BY <1>8, <1>9, <2>2 DEF MS!FetchRefused
  <2>3. CASE MS!FetchNoSuchFile(w)
    BY <1>8, <1>9, <2>3 DEF MS!FetchNoSuchFile, MS!Loop
  <2> QED BY <1>1, <2>1, <2>2, <2>3 DEF WorkerConnects, Dial
<1>2. CASE MS!FetchReceives(w)
  BY <1>8, <1>9, <1>2 DEF MS!FetchReceives
<1>3. CASE MS!WorkerSleep(w) \/ MS!PopThrows(w) \/ MS!EnterDrain(w) \/ MS!DrainEnds(w)
           \/ MS!QDone(w) \/ MS!AwaitAck(w) \/ MS!AddBytes(w) \/ MS!AddFile(w)
  BY <1>8, <1>9, <1>3 DEF MS!WorkerSleep, MS!PopThrows, MS!EnterDrain, MS!DrainEnds,
                          MS!QDone, MS!AwaitAck, MS!AddBytes, MS!AddFile
<1>4. CASE MS!PopItem(w) \/ MS!DrainPop(w)
  <2>1. /\ queue # <<>> /\ queue' = Tail(queue) /\ UNCHANGED <<session, mgr, listing>>
        /\ item' = [item EXCEPT ![w] = Head(queue)]
        /\ \A v \in Workers \ {w} : wk'[v] = wk[v]
    BY <1>4, <1>8 DEF MS!PopItem, MS!DrainPop
  <2>2. /\ \E k \in DOMAIN queue : Head(queue) = queue[k]
        /\ \A k \in DOMAIN queue' : \E j \in DOMAIN queue : queue'[k] = queue[j]
    BY <1>8, <2>1, SequenceParts
  <2>3. Told(Head(queue)[1]) /\ \A k \in DOMAIN queue' : Told(queue'[k][1])
    BY <2>2 DEF MirrorKnows
  <2>4. \A v \in Workers : wk'[v] \in {"lower", "fetch"} => Told(item'[v][1])
    BY <1>8, <2>1, <2>3 DEF MirrorKnows
  <2> QED BY <1>0, <2>1, <2>3, <2>4 DEF MirrorKnows, Told
<1>5. CASE MS!LowerFull(w)
  <2>1. \A m \in Managers : mgr'[m] = mgr[m] \/ (mgr[m] = "f_wait" /\ mgr'[m] = "push")
    BY <1>5, <1>8 DEF MS!LowerFull, MS!Signalled
  <2>2. /\ wk' = [wk EXCEPT ![w] = "fetch"] /\ wk[w] = "lower"
        /\ UNCHANGED <<session, listing, item, queue>>
    BY <1>5 DEF MS!LowerFull
  <2>3. \A v \in Workers : wk'[v] \in {"lower", "fetch"} => wk[v] \in {"lower", "fetch"}
    BY <1>8, <2>2
  <2> QED BY <1>0, <2>1, <2>2, <2>3 DEF MirrorKnows, Told
<1>6. CASE MS!PushSpread(w)
  BY <1>8, <1>9, <1>6 DEF MS!PushSpread, MS!Loop
<1> QED BY <1>1, <1>2, <1>3, <1>4, <1>5, <1>6 DEF WorkerStep, Transfer

\* A step of a worker of the Mirror Server may dial, and may be one of both processes.
LEMMA WorkersAreKnown ==
  ASSUME MSR!Sound, Begun, MirrorKnows, ContentKnows, NEW w \in Workers, WorkerStep(w)
  PROVE  ContentKnows'
<1>0. alive
  BY DEF WorkerStep
<1>1. CASE Dial(Wire(w)) /\ wk[w] = "fetch"
  <2>1. item[w] \in Managers \X Files /\ session \in Sessions /\ Told(item[w][1])
    BY <1>1, MirrorTypes, InRequest DEF MirrorKnows
  <2>2. Wire(w) \in Announced
    BY <2>1 DEF Wire, Conns, Announced, Id, Told
  <2>3. dialled \subseteq dialled' /\ dialled' \subseteq Announced
    BY <1>1, <2>2 DEF Dial, ContentKnows
  <2> QED BY <1>0, <1>1, <2>3, ContentKeeps DEF Dial
<1>2. ASSUME NEW cw \in CWorkers, CS!DoFetch(cw), UNCHANGED dialled PROVE ContentKnows'
  BY <1>0, <1>2 DEF CS!DoFetch, CS!Loop, ContentKnows, Announced
<1>3. CASE UNCHANGED <<contentVars, dialled>>
  BY <1>0, <1>3, ContentKeeps DEF ContentKnows
<1> QED BY <1>1, <1>2, <1>3 DEF WorkerStep, WorkerConnects, Transfer

LEMMA ContentWorkersKnow ==
  ASSUME ContentKnows, NEW cw \in CWorkers, ContentWorkerStep(cw)
  PROVE  ContentKnows' /\ ctable \subseteq ctable'
<1>0. UNCHANGED <<alive, dialled>>
  BY DEF ContentWorkerStep, HearList, HearFetch, EndList, FileGone
<1> USE DEF Announced
<1>1. CASE HearList(cw)
  BY <1>0, <1>1 DEF HearList, CS!ReceiveList, ContentKnows
<1>2. CASE CS!ReceiveList(cw) /\ ~alive
  BY <1>0, <1>2 DEF CS!ReceiveList, ContentKnows
<1>3. CASE CS!ReceiveFetch(cw) \/ CS!AwaitTable(cw)
  BY <1>0, <1>3 DEF CS!ReceiveFetch, CS!AwaitTable, ContentKnows
<1>4. CASE CS!DoList(cw) \/ CS!DoFetch(cw) \/ CS!DoFetchThrows(cw) \/ CS!ReceiveRejected(cw)
           \/ CS!ReceiveMalformed(cw) \/ CS!FetchUnknown(cw) \/ CS!FetchThrows(cw)
  BY <1>0, <1>4 DEF CS!DoList, CS!DoFetch, CS!DoFetchThrows, CS!ReceiveRejected,
                    CS!ReceiveMalformed, CS!FetchUnknown, CS!FetchThrows, CS!Loop, ContentKnows
<1>5. CASE CS!WorkerSleep(cw) \/ CS!PopThrows(cw)
  BY <1>0, <1>5 DEF CS!WorkerSleep, CS!PopThrows, ContentKnows
<1>6. CASE CS!LowerFull(cw)
  BY <1>0, <1>6 DEF CS!LowerFull, ContentKnows
<1>7. CASE CS!Pop(cw)
  <2>1. Head(cqueue) \in dialled /\ cqueue' \in Seq(dialled)
    BY <1>7, SequenceParts DEF CS!Pop, ContentKnows
  <2> QED BY <1>0, <1>7, <2>1 DEF CS!Pop, ContentKnows
<1> QED BY <1>1, <1>2, <1>3, <1>4, <1>5, <1>6, <1>7
        DEF ContentWorkerStep, HearFetch, EndList, FileGone, CS!WorkerStep

LEMMA ContentMasterKnows ==
  ASSUME ContentKnows, ContentMasterStep
  PROVE  ContentKnows' /\ ctable = ctable'
<1>0. UNCHANGED <<alive, dialled>>
  BY DEF ContentMasterStep
<1> USE DEF Announced
<1>1. CASE CS!Accept /\ cfd' \in dialled
  BY <1>0, <1>1 DEF CS!Accept, ContentKnows
<1>2. CASE CS!CheckFull \/ CS!PushThrows
  BY <1>0, <1>2 DEF CS!CheckFull, CS!PushThrows, ContentKnows
<1>3. CASE CS!Push
  <2>1. cqueue' \in Seq(dialled)
    BY <1>3, SequenceParts DEF CS!Push, ContentKnows
  <2> QED BY <1>0, <1>3, <2>1 DEF CS!Push, ContentKnows
<1>4. CASE CS!SignalNotEmpty
  <2>1. /\ cwk' \in [CWorkers -> {"check", "e_wait", "stuck", "lower", "recv", "h_wait", "list",
                                  "fetch"}]
        /\ \A cw \in CWorkers : cwk'[cw] = cwk[cw] \/ cwk'[cw] = "check"
    BY <1>4 DEF CS!SignalNotEmpty, ContentKnows
  <2> QED BY <1>0, <1>4, <2>1 DEF CS!SignalNotEmpty, ContentKnows
<1> QED BY <1>1, <1>2, <1>3, <1>4 DEF ContentMasterStep, CS!MasterStep

\* A new request begins with nothing listed, queued or popped: Sound says so.
LEMMA MasterKnows ==
  ASSUME MSR!Sound, MirrorKnows, ContentKnows, MasterStep
  PROVE  MirrorKnows' /\ ContentKnows'
<1> USE DEF MS!masterVars, MS!managerVars, MS!workerVars, MS!flagVars, MS!statVars
<1>0. UNCHANGED <<contentVars, dialled, ctable>> /\ (alive' => alive)
  BY DEF MasterStep, MS!MasterStep
<1>1. ContentKnows'
  BY <1>0, ContentKeeps DEF ContentKnows
<1>8. mgr \in [Managers -> MSR!ManagerStates] /\ wk \in [Workers -> MSR!WorkerStates]
  BY MirrorTypes
<1>2. CASE MS!Accept
  <2>1. /\ master = "accept" /\ UNCHANGED <<listing, queue, wk, item>>
        /\ \A m \in Managers : mgr'[m] \in {"connect", "none"}
    BY <1>2 DEF MS!Accept
  <2>2. \A m \in Managers : listing[m] = {}
    BY <2>1 DEF MSR!Sound, MSR!Barrier, MSR!Phases, MSR!Apart, MSR!Ahead, MSR!Without
  <2>3. MSR!Taken = {}
    BY <2>1 DEF MSR!Sound, MSR!Apart
  <2>4. /\ \A k \in DOMAIN queue : queue[k] \in MSR!Taken
        /\ \A w \in Workers : wk[w] \in {"lower", "fetch"} => item[w] \in MSR!Taken
    BY DEF MSR!Taken, MSR!InWorker, MSR!ToSet
  <2> QED BY <1>1, <2>1, <2>2, <2>3, <2>4 DEF MirrorKnows
<1>3. CASE MS!JoinManagers
  BY <1>0, <1>1, <1>3 DEF MS!JoinManagers, MirrorKnows, Told
<1>4. CASE MS!SetDone \/ MS!SetAck
  <2>1. /\ UNCHANGED <<session, mgr, listing, item, queue>>
        /\ \A w \in Workers : wk'[w] \in {"lower", "fetch"} => wk[w] \in {"lower", "fetch"}
    BY <1>4, <1>8 DEF MS!SetDone, MS!SetAck, MS!WakeAll
  <2> QED BY <1>0, <1>1, <2>1 DEF MirrorKnows, Told
<1>5. CASE MS!Unack \/ MS!Collect \/ MS!Report \/ MS!VarInit
  BY <1>0, <1>1, <1>5, MirrorKeeps DEF MS!Unack, MS!Collect, MS!Report, MS!VarInit
<1> QED BY <1>1, <1>2, <1>3, <1>4, <1>5 DEF MasterStep, MS!MasterStep

LEMMA KnowsNext == MSR!Sound /\ Begun /\ Knows /\ [Next]_vars => Knows'
<1> SUFFICES ASSUME MSR!Sound, Begun, MirrorKnows, ContentKnows, [Next]_vars
             PROVE  MirrorKnows' /\ ContentKnows'
  BY DEF Knows
<1>1. ASSUME UNCHANGED mirrorVars, ctable \subseteq ctable' PROVE MirrorKnows'
  BY <1>1, MirrorKeeps
<1>2. ASSUME UNCHANGED <<cmaster, cfd, cwk, cclient, cqueue, ctable, dialled>>, alive' => alive
      PROVE  ContentKnows'
  BY <1>2, ContentKeeps DEF ContentKnows
<1>3. ASSUME NEW cw \in CWorkers, ContentWorkerStep(cw) PROVE MirrorKnows' /\ ContentKnows'
  <2>1. UNCHANGED mirrorVars
    BY <1>3 DEF ContentWorkerStep, HearList, HearFetch, EndList, FileGone
  <2> QED BY <1>1, <1>3, <2>1, ContentWorkersKnow
<1>4. CASE ContentMasterStep
  <2>1. UNCHANGED mirrorVars
    BY <1>4 DEF ContentMasterStep
  <2> QED BY <1>1, <1>4, <2>1, ContentMasterKnows
<1>5. CASE MirrorAlone(MS!SpuriousWakeup)
  <2> USE DEF MS!masterVars, MS!managerVars, MS!workerVars, MS!flagVars, MS!statVars
  <2>1. ContentKnows'
    BY <1>2, <1>5 DEF MS!SpuriousWakeup
  <2>2. mgr \in [Managers -> MSR!ManagerStates] /\ wk \in [Workers -> MSR!WorkerStates]
    BY MirrorTypes
  <2> QED BY <1>5, <2>1, <2>2 DEF MS!SpuriousWakeup, MirrorKnows, Told
<1>6. CASE ContentAlone(CS!SpuriousWakeup)
  <2>1. MirrorKnows'
    BY <1>1, <1>6 DEF CS!SpuriousWakeup
  <2> QED BY <1>6, <2>1 DEF CS!SpuriousWakeup, ContentKnows, Announced
<1>7. CASE Crash \/ RemoveFile \/ UNCHANGED vars
  BY <1>1, <1>2, <1>7 DEF Crash, CS!Kill, RemoveFile
<1> QED BY <1>3, <1>4, <1>5, <1>6, <1>7, ManagersKnow, WorkersKnow, WorkersAreKnown, MasterKnows
        DEF Next

\* The invariant of the proofs so far.
Running == MSR!Sound /\ Begun /\ Knows

LEMMA RunningInvariant == Spec => []Running
<1>1. Init => Running
  BY SoundInit, KnowsInit DEF Running, Begun, Init, MS!Init
<1>2. Running /\ [Next]_vars => Running'
  BY SoundNext, BegunNext, KnowsNext, MirrorStep DEF Running
<1> QED BY <1>1, <1>2, PTL DEF Spec

\* The Content Server never refuses a FETCH for its id, for any number of requests,
\* managers and workers and in every order of the two connections.
THEOREM FetchesAreKnown == Spec => []FetchIdKnown
<1>1. Running => FetchIdKnown
  BY DEF Running, Knows, ContentKnows, Announced, FetchIdKnown
<1> QED BY <1>1, RunningInvariant, PTL

--------------------------------------------------------------------------------
(* No connection is closed under a worker that waits. *)

\* The connections on which a file is asked for.
Fetches == Sessions \X Managers \X Files

\* Nobody in the Mirror Server is to ask for a file on this connection any more: its
\* request has been answered, or its element has been resolved.
Resolved(i) ==
  /\ mgr[i[1]] # "connect" /\ i[2] \notin listing[i[1]]
  /\ mgr[i[1]] \in {"push", "f_wait"} => hand[i[1]] # i[2]
  /\ \A k \in DOMAIN queue : queue[k] # i
  /\ \A w \in Workers : wk[w] \in {"lower", "fetch"} => item[w] # i

Past(c) == c[1] < session \/ (c[1] = session /\ Resolved(<<c[2], c[3]>>))

\* What is resolved stays so as long as the request goes on.
LEMMA ResolvedStays ==
  ASSUME MSR!Sound, NEW c \in Managers \X Files, Resolved(c), [MS!Next]_(MS!vars)
  PROVE  session' = session + 1 \/ (session' = session /\ Resolved(c)')
<1> USE DEF MS!vars, MS!masterVars, MS!managerVars, MS!workerVars, MS!flagVars, MS!statVars
<1>0. /\ mgr \in [Managers -> MSR!ManagerStates] /\ wk \in [Workers -> MSR!WorkerStates]
      /\ listing \in [Managers -> SUBSET Files] /\ hand \in [Managers -> Files \cup {None}]
      /\ item \in [Workers -> (Managers \X Files) \cup {None}] /\ queue \in Seq(Managers \X Files)
      /\ c = <<c[1], c[2]>> /\ c[1] \in Managers /\ c # None
  BY MirrorAssumption, MirrorTypes
<1>1. ASSUME UNCHANGED <<session, mgr, listing, hand, queue, item>>,
             \A w \in Workers : wk'[w] \in {"lower", "fetch"} => wk[w] \in {"lower", "fetch"}
      PROVE  (session' = session /\ Resolved(c)')
  BY <1>1 DEF Resolved
<1>2. ASSUME NEW m \in Managers, MS!ManagerStep(m) PROVE (session' = session /\ Resolved(c)')
  <2>1. CASE MS!Connect(m)
    BY <1>0, <2>1 DEF Resolved, MS!Connect
  <2>2. CASE MS!SendErr(m) \/ MS!ListingEnds(m) \/ MS!ManagerSleep(m) \/ MS!ListingCut(m)
    BY <1>0, <2>2 DEF Resolved, MS!SendErr, MS!ListingEnds, MS!ManagerSleep, MS!ListingCut
  <2>3. CASE MS!ReceiveName(m)
    BY <1>0, <2>3 DEF Resolved, MS!ReceiveName
  <2>4. CASE MS!Push(m)
    <3>1. \A k \in DOMAIN queue' : queue'[k] # c
      <4>1. CASE queue' = queue
        BY <4>1 DEF Resolved
      <4>2. CASE queue' = Append(queue, <<m, hand[m]>>) /\ <<m, hand[m]>> # c
        BY <1>0, <4>2 DEF Resolved
      <4> QED BY <1>0, <2>4, <4>1, <4>2 DEF Resolved, MS!Push
    <3> QED BY <1>0, <2>4, <3>1 DEF Resolved, MS!Push
  <2>5. CASE MS!SignalNotEmpty(m)
    <3>1. \A w \in Workers : wk'[w] \in {"lower", "fetch"} => wk[w] \in {"lower", "fetch"}
      BY <1>0, <2>5 DEF MS!SignalNotEmpty, MS!Signalled
    <3> QED BY <1>0, <2>5, <3>1 DEF Resolved, MS!SignalNotEmpty
  <2> QED BY <1>2, <2>1, <2>2, <2>3, <2>4, <2>5 DEF MS!ManagerStep
<1>3. ASSUME NEW w \in Workers, MS!WorkerStep(w) PROVE (session' = session /\ Resolved(c)')
  <2>1. CASE MS!PopItem(w) \/ MS!DrainPop(w)
    <3>1. /\ queue # <<>> /\ queue' = Tail(queue) /\ item' = [item EXCEPT ![w] = Head(queue)]
          /\ \A v \in Workers \ {w} : wk'[v] = wk[v]
          /\ UNCHANGED <<session, mgr, listing, hand>>
      BY <1>0, <2>1 DEF MS!PopItem, MS!DrainPop
    <3>2. Head(queue) # c /\ \A k \in DOMAIN queue' : queue'[k] # c
      BY <1>0, <3>1 DEF Resolved
    <3> QED BY <1>0, <3>1, <3>2 DEF Resolved
  <2>2. CASE MS!LowerFull(w)
    <3>1. \A m \in Managers : mgr'[m] = mgr[m] \/ (mgr[m] = "f_wait" /\ mgr'[m] = "push")
      BY <1>0, <2>2 DEF MS!LowerFull, MS!Signalled
    <3> QED BY <1>0, <2>2, <3>1 DEF Resolved, MS!LowerFull
  <2>3. CASE MS!FetchNoSuchFile(w) \/ MS!PushSpread(w)
    BY <1>0, <2>3 DEF Resolved, MS!FetchNoSuchFile, MS!PushSpread, MS!Loop
  <2>4. CASE MS!WorkerSleep(w) \/ MS!PopThrows(w) \/ MS!EnterDrain(w) \/ MS!FetchReceives(w)
             \/ MS!FetchRefused(w) \/ MS!AddBytes(w) \/ MS!AddFile(w) \/ MS!DrainEnds(w)
             \/ MS!QDone(w) \/ MS!AwaitAck(w)
    BY <1>0, <1>1, <2>4
       DEF MS!WorkerSleep, MS!PopThrows, MS!EnterDrain, MS!FetchReceives, MS!FetchRefused,
           MS!AddBytes, MS!AddFile, MS!DrainEnds, MS!QDone, MS!AwaitAck
  <2> QED BY <1>3, <2>1, <2>2, <2>3, <2>4 DEF MS!WorkerStep
<1>4. CASE MS!Accept
  BY <1>4 DEF MS!Accept
<1>5. CASE MS!MasterStep
  <2>1. CASE MS!JoinManagers
    BY <1>0, <2>1 DEF Resolved, MS!JoinManagers
  <2>2. CASE MS!SetDone \/ MS!SetAck
    BY <1>0, <1>1, <2>2 DEF MS!SetDone, MS!SetAck, MS!WakeAll
  <2>3. CASE MS!Unack \/ MS!Collect \/ MS!Report \/ MS!VarInit
    BY <1>1, <2>3 DEF MS!Unack, MS!Collect, MS!Report, MS!VarInit
  <2> QED BY <1>5, <2>1, <2>2, <2>3 DEF MS!MasterStep
<1>6. CASE MS!SpuriousWakeup
  BY <1>0, <1>6 DEF Resolved, MS!SpuriousWakeup
<1>7. CASE UNCHANGED MS!vars
  BY <1>1, <1>7
<1> QED BY <1>2, <1>3, <1>4, <1>5, <1>6, <1>7 DEF MS!Next

LEMMA PastStays ==
  ASSUME MSR!Sound, NEW c \in Fetches, Past(c), [MS!Next]_(MS!vars)
  PROVE  Past(c)'
<1>1. <<c[2], c[3]>> \in Managers \X Files /\ c[1] \in Nat /\ session \in Nat
  BY MirrorTypes, MirrorAssumption DEF Fetches, Sessions
<1>2. CASE c[1] = session /\ Resolved(<<c[2], c[3]>>)
  BY <1>1, <1>2, ResolvedStays DEF Past
<1>3. CASE c[1] < session
  <2>1. session' \in {session, session + 1}
    BY SessionGrows
  <2> QED BY <1>1, <1>3, <2>1 DEF Past
<1> QED BY <1>2, <1>3 DEF Past

\* The file has been sent: the connection was its worker's alone.
LEMMA SentIsPast ==
  ASSUME MSR!Sound, Begun, NEW w \in Workers, MS!FetchReceives(w)
  PROVE  Wire(w) \in Fetches /\ UNCHANGED <<session, item>> /\ Past(Wire(w))'
<1> DEFINE c == item[w]
<1> USE DEF MS!masterVars, MS!managerVars, MS!workerVars, MS!flagVars, MS!statVars
<1>1. /\ mgr \in [Managers -> MSR!ManagerStates] /\ wk \in [Workers -> MSR!WorkerStates]
      /\ c \in Managers \X Files /\ MSR!Disjoint /\ MSR!Ahead /\ session \in Sessions
  BY MirrorTypes, InRequest DEF MSR!Sound, MSR!Apart, MS!FetchReceives
<1>2. c \in MSR!Taken /\ MSR!Working(w)
  BY DEF MSR!Taken, MSR!InWorker, MSR!Working, MS!FetchReceives
<1>4. /\ UNCHANGED <<session, mgr, listing, hand, queue, item>> /\ wk'[w] = "bytes"
      /\ \A v \in Workers \ {w} : wk'[v] = wk[v]
  BY <1>1 DEF MS!FetchReceives
<1>5. c[1] \in Managers /\ c[2] \in Files /\ c = <<c[1], c[2]>>
  BY <1>1
<1>6. /\ mgr[c[1]] # "connect" /\ c[2] \notin listing[c[1]]
      /\ mgr[c[1]] \in {"push", "f_wait"} => hand[c[1]] # c[2]
  BY <1>1, <1>2, <1>5 DEF MSR!Ahead, MSR!Handing
<1>7. \A k \in DOMAIN queue : queue[k] # c
  BY <1>1, <1>2 DEF MSR!Disjoint, MSR!ToSet
<1>8. \A v \in Workers \ {w} : wk[v] \in {"lower", "fetch"} => item[v] # c
  BY <1>1, <1>2 DEF MSR!Disjoint, MSR!Working
<1>9. Resolved(c)'
  BY <1>4, <1>6, <1>7, <1>8 DEF Resolved
<1>10. /\ Wire(w) = <<session, c[1], c[2]>> /\ Wire(w)' = Wire(w)
       /\ Wire(w)[1] = session /\ <<Wire(w)[2], Wire(w)[3]>> = c
  BY <1>4, <1>5 DEF Wire
<1>11. Wire(w) \in Fetches
  BY <1>1, <1>5, <1>10 DEF Fetches
<1>12. (Wire(w)[1] = session /\ Resolved(<<Wire(w)[2], Wire(w)[3]>>))'
  BY <1>4, <1>9, <1>10
<1> QED BY <1>4, <1>11, <1>12 DEF Past

\* A connection that asks for a file is closed when it is past, and a LIST is served
\* on a connection that asks for none.
ClosedIsPast ==
  /\ cconn \in [Conns -> {"new", "open", "closed"}]
  /\ alive => /\ \A cw \in CWorkers : cwk[cw] = "list" => cclient[cw][3] = None
              /\ \A c \in Fetches : cconn[c] = "closed" => Past(c)

LEMMA ClosedInit == Init => ClosedIsPast
  BY DEF Init, MS!Init, CS!Init, ClosedIsPast, Fetches, Conns

\* A step that closes no connection that asks for a file.
LEMMA ClosedKept ==
  ASSUME MSR!Sound, ClosedIsPast, [Next]_vars, alive' => alive,
         cconn' \in [Conns -> {"new", "open", "closed"}],
         alive => \A c \in Fetches : cconn'[c] = "closed" => cconn[c] = "closed",
         alive => \A cw \in CWorkers : cwk'[cw] = "list" => cclient'[cw][3] = None
  PROVE  ClosedIsPast'
<1>1. ASSUME NEW c \in Fetches, Past(c) PROVE Past(c)'
  BY <1>1, PastStays, MirrorStep
<1> QED BY <1>1 DEF ClosedIsPast

LEMMA ClosedNext == Running /\ ClosedIsPast /\ [Next]_vars => ClosedIsPast'
<1> SUFFICES ASSUME MSR!Sound, Begun, ContentKnows, ClosedIsPast, [Next]_vars PROVE ClosedIsPast'
  BY DEF Running, Knows
<1>0. /\ cconn \in [Conns -> {"new", "open", "closed"}]
      /\ cclient \in [CWorkers -> Conns \cup {None}]
      /\ cwk \in [CWorkers -> {"check", "e_wait", "stuck", "lower", "recv", "h_wait", "list",
                               "fetch"}]
      /\ \A cw \in CWorkers : cwk[cw] \in {"recv", "list", "fetch"} => cclient[cw] \in Conns
      /\ alive => \A cw \in CWorkers : cwk[cw] = "list" => cclient[cw][3] = None
      /\ \A c \in Fetches : c \in Conns /\ c[3] # None
  BY MirrorAssumption DEF ClosedIsPast, ContentKnows, Announced, Conns, Fetches
<1>1. ASSUME UNCHANGED <<cconn, cwk, cclient>>, alive' => alive PROVE ClosedIsPast'
  BY <1>0, <1>1, ClosedKept
<1>2. CASE MasterStep
  BY <1>1, <1>2 DEF MasterStep, MS!MasterStep
<1>3. ASSUME NEW m \in Managers, ManagerStep(m) PROVE ClosedIsPast'
  BY <1>1, <1>3 DEF ManagerStep, ManagerConnects, Dial
<1>4. ASSUME NEW w \in Workers, WorkerStep(w) PROVE ClosedIsPast'
  <2>1. ASSUME NEW cw \in CWorkers, Transfer(w, cw) PROVE ClosedIsPast'
    <3>1. Wire(w) \in Fetches /\ UNCHANGED <<session, item>> /\ Past(Wire(w))'
      BY <2>1, SentIsPast DEF Transfer
    <3>2. /\ cconn' = [cconn EXCEPT ![Wire(w)] = "closed"] /\ UNCHANGED alive
          /\ \A v \in CWorkers : cwk'[v] = "list" => cwk[v] = "list" /\ cclient'[v] = cclient[v]
      BY <1>0, <2>1 DEF Transfer, Serves, CS!DoFetch, CS!Loop, MS!FetchReceives
    <3>3. ASSUME NEW c \in Fetches, Past(c) PROVE Past(c)'
      BY <3>3, PastStays, MirrorStep
    <3>4. cconn' \in [Conns -> {"new", "open", "closed"}]
      BY <1>0, <3>2
    <3>5. ASSUME alive, NEW c \in Fetches, cconn'[c] = "closed" PROVE Past(c)'
      <4>1. c = Wire(w) \/ cconn[c] = "closed"
        BY <1>0, <3>2, <3>5
      <4>2. CASE c = Wire(w)
        BY <3>1, <4>2 DEF Past, Wire, Resolved
      <4> QED BY <3>3, <3>5, <4>1, <4>2 DEF ClosedIsPast
    <3>6. ASSUME alive, NEW v \in CWorkers, cwk'[v] = "list" PROVE cclient'[v][3] = None
      BY <1>0, <3>2, <3>6
    <3> QED BY <3>1, <3>2, <3>4, <3>5, <3>6 DEF ClosedIsPast
  <2>2. CASE UNCHANGED contentVars
    BY <1>1, <1>4, <2>2 DEF WorkerStep
  <2> QED BY <1>4, <2>1, <2>2 DEF WorkerStep, WorkerConnects, Dial
<1>5. CASE ContentMasterStep
  <2>1. /\ cconn' \in [Conns -> {"new", "open", "closed"}] /\ UNCHANGED <<alive, cclient>>
        /\ \A c \in Conns : cconn'[c] = "closed" => cconn[c] = "closed"
        /\ \A v \in CWorkers : cwk'[v] = "list" => cwk[v] = "list"
    BY <1>0, <1>5 DEF ContentMasterStep, CS!Accept, CS!MasterStep, CS!CheckFull, CS!Push,
                      CS!PushThrows, CS!SignalNotEmpty
  <2> QED BY <1>0, <2>1, ClosedKept
<1>6. ASSUME NEW cw \in CWorkers, ContentWorkerStep(cw) PROVE ClosedIsPast'
  <2>0. UNCHANGED alive
    BY <1>6 DEF ContentWorkerStep, HearList, HearFetch, EndList, FileGone
  <2>4. HearFetch(cw) => CS!ReceiveFetch(cw)
    <3>1. cwk[cw] = "recv" /\ cclient[cw][3] # None => Id(cclient[cw]) \in ctable
      BY DEF ContentKnows, Announced
    <3> QED BY <3>1 DEF HearFetch
  <2>1. cconn' \in [Conns -> {"new", "open", "closed"}]
    <3>1. UNCHANGED cconn \/ CS!Loop(cw, "closed") \/ CS!Loop(cw, "open")
      BY <1>6 DEF ContentWorkerStep, HearList, HearFetch, EndList, FileGone,
           CS!WorkerStep, CS!WorkerSleep, CS!Pop, CS!PopThrows, CS!LowerFull, CS!ReceiveList,
           CS!ReceiveFetch, CS!DoList, CS!DoFetch, CS!DoFetchThrows, CS!ReceiveRejected,
           CS!ReceiveMalformed, CS!AwaitTable, CS!FetchUnknown, CS!FetchThrows
    <3> QED BY <1>0, <3>1 DEF CS!Loop
  <2>2. ASSUME alive, NEW c \in Fetches, cconn'[c] = "closed" PROVE cconn[c] = "closed"
    <3>1. CASE EndList(cw)
      BY <1>0, <2>2, <3>1 DEF EndList, CS!DoList, CS!Loop
    <3>2. CASE FileGone(cw)
      BY <1>0, <2>2, <3>2 DEF FileGone, CS!DoFetchThrows, CS!Loop
    <3>3. CASE UNCHANGED cconn
      BY <2>2, <3>3
    <3> QED BY <1>6, <2>2, <2>4, <3>1, <3>2, <3>3
            DEF ContentWorkerStep, HearList, CS!ReceiveList, CS!ReceiveFetch,
                CS!WorkerSleep, CS!Pop, CS!PopThrows, CS!LowerFull
  <2>3. ASSUME alive, NEW v \in CWorkers, cwk'[v] = "list" PROVE cclient'[v][3] = None
    <3>1. CASE HearList(cw)
      BY <1>0, <2>3, <3>1 DEF HearList, CS!ReceiveList
    <3>2. CASE EndList(cw) \/ FileGone(cw)
      <4>1. /\ cwk' = [cwk EXCEPT ![cw] = "check"]
            /\ cclient' = [cclient EXCEPT ![cw] = None]
        BY <3>2 DEF EndList, FileGone, CS!DoList, CS!DoFetchThrows, CS!Loop
      <4>2. v # cw /\ cwk[v] = "list" /\ cclient'[v] = cclient[v]
        BY <1>0, <2>3, <4>1
      <4> QED BY <1>0, <2>3, <4>2
    <3>3. CASE CS!ReceiveFetch(cw) \/ CS!WorkerSleep(cw) \/ CS!PopThrows(cw) \/ CS!LowerFull(cw)
      BY <1>0, <2>3, <3>3 DEF CS!ReceiveFetch, CS!WorkerSleep, CS!PopThrows, CS!LowerFull
    <3>4. CASE CS!Pop(cw)
      BY <1>0, <2>3, <3>4 DEF CS!Pop
    <3> QED BY <1>6, <2>3, <2>4, <3>1, <3>2, <3>3, <3>4 DEF ContentWorkerStep
  <2> QED BY <2>0, <2>1, <2>2, <2>3, ClosedKept
<1>7. CASE MirrorAlone(MS!SpuriousWakeup)
  BY <1>1, <1>7 DEF MS!SpuriousWakeup
<1>8. CASE ContentAlone(CS!SpuriousWakeup)
  <2>1. /\ UNCHANGED <<cconn, cclient, alive>>
        /\ \A v \in CWorkers : cwk'[v] = "list" => cwk[v] = "list"
    BY <1>0, <1>8 DEF CS!SpuriousWakeup
  <2> QED BY <1>0, <2>1, ClosedKept
<1>9. CASE Crash \/ RemoveFile \/ UNCHANGED vars
  BY <1>1, <1>9 DEF Crash, CS!Kill, RemoveFile
<1> QED BY <1>2, <1>3, <1>4, <1>5, <1>6, <1>7, <1>8, <1>9 DEF Next

\* No connection is closed under a worker that waits for its file, for every number
\* of managers, workers and files: what is closed has been sent, to the one worker
\* that had the element.
THEOREM NoneIsCutOff == Spec => []WaitedForIsOpen
<1>1. Running /\ ClosedIsPast => WaitedForIsOpen
  <2> SUFFICES ASSUME MSR!Sound, Begun, ClosedIsPast, alive, NEW w \in Workers, wk[w] = "fetch"
               PROVE  cconn[Wire(w)] # "closed"
    BY DEF WaitedForIsOpen, Running
  <2>1. item[w] \in Managers \X Files /\ session \in Sessions /\ session \in Nat
    BY MirrorTypes, InRequest DEF Sessions
  <2>2. /\ Wire(w) \in Fetches /\ Wire(w)[1] = session
        /\ <<Wire(w)[2], Wire(w)[3]>> = item[w]
    BY <2>1 DEF Wire, Fetches
  <2>3. ~Past(Wire(w))
    BY <2>1, <2>2 DEF Past, Resolved
  <2> QED BY <2>2, <2>3 DEF ClosedIsPast
<1> QED BY <1>1, RunningInvariant, ClosedInit, ClosedNext, PTL DEF Spec

--------------------------------------------------------------------------------
(* LISTs do not take every worker of a Content Server that has more of them *)
(* than a request has managers.                                             *)

\* What is proved of the Content Server alone, of the variables of the composition.
CSP == INSTANCE ContentServerProofs WITH
  Workers <- CWorkers, Conns <- Conns, Ids <- Ids, Refused <- {}, Capacity <- CCapacity,
  master <- cmaster, fd <- cfd, wk <- cwk, client <- cclient, conn <- cconn,
  queue <- cqueue, empty <- cempty, full <- cfull, table <- ctable, h_free <- ch_free,
  alive <- calive

\* The definitions of ContentServer, reached by CS and by CSP.
LEMMA SameContentInit == CS!Init => CSP!Init
  BY DEF CS!Init, CSP!Init

LEMMA SameContentNext == [CS!Next]_(CS!vars) => [CSP!Next]_(CSP!vars)
<1> USE DEF CS!vars, CSP!vars, CS!MutexesFree, CSP!MutexesFree, CS!Loop, CSP!Loop
<1>1. CS!Accept => CSP!Accept
  BY DEF CS!Accept, CSP!Accept
<1>2. CS!MasterStep => CSP!MasterStep
  BY DEF CS!MasterStep, CS!CheckFull, CS!Push, CS!PushThrows, CS!SignalNotEmpty,
         CSP!MasterStep, CSP!CheckFull, CSP!Push, CSP!PushThrows, CSP!SignalNotEmpty
<1>3. ASSUME NEW cw \in CWorkers, CS!WorkerStep(cw) PROVE CSP!WorkerStep(cw)
  BY <1>3
   DEF CS!WorkerStep, CS!WorkerSleep, CS!Pop, CS!PopThrows, CS!LowerFull, CS!ReceiveList,
       CS!DoList, CS!ReceiveFetch, CS!DoFetch, CS!DoFetchThrows, CS!ReceiveRejected,
       CS!ReceiveMalformed, CSP!WorkerStep, CSP!WorkerSleep, CSP!Pop, CSP!PopThrows,
       CSP!LowerFull, CSP!ReceiveList, CSP!DoList, CSP!ReceiveFetch, CSP!DoFetch,
       CSP!DoFetchThrows, CSP!ReceiveRejected, CSP!ReceiveMalformed, CS!AwaitTable,
       CS!FetchUnknown, CS!FetchThrows, CSP!AwaitTable, CSP!FetchUnknown, CSP!FetchThrows
<1>4. CS!SpuriousWakeup => CSP!SpuriousWakeup
  BY DEF CS!SpuriousWakeup, CSP!SpuriousWakeup
<1>5. CS!Kill => CSP!Kill
  BY DEF CS!Kill, CSP!Kill
<1> QED BY <1>1, <1>2, <1>3, <1>4, <1>5 DEF CS!Next, CSP!Next

\* The assumptions of ContentServer.
LEMMA ContentAssumed ==
  /\ CWorkers # {} /\ CSP!IsFiniteSet(CWorkers)
  /\ CCapacity \in Nat \ {0} /\ {} \subseteq Ids /\ None \notin Conns
<1>1. IsFiniteSet(CWorkers) => CSP!IsFiniteSet(CWorkers)
  BY DEF IsFiniteSet, CSP!IsFiniteSet
<1> QED BY <1>1, ContentAssumption

\* The invariant of ContentServerProofs: the holders of a connection are apart.
HeldApart == CSP!Typed /\ CSP!Held

LEMMA HeldApartInit == Init => HeldApart
<1>1. Init => CSP!Init
  BY SameContentInit DEF Init
<1>2. CSP!Init => CSP!Typed
  BY ContentAssumed, CSP!TypeInit
<1>3. CSP!Init => CSP!Held
  BY ContentAssumed, CSP!HeldInit
<1> QED BY <1>1, <1>2, <1>3 DEF HeldApart

LEMMA HeldApartNext == HeldApart /\ [Next]_vars => HeldApart'
<1> SUFFICES ASSUME CSP!Typed, CSP!Held, [CSP!Next]_(CSP!vars) PROVE HeldApart'
  BY ContentStep, SameContentNext DEF HeldApart
<1>1. CSP!Typed'
  BY ContentAssumed, CSP!TypeNext
<1>2. CSP!Held'
  BY ContentAssumed, CSP!HeldNext
<1> QED BY <1>1, <1>2 DEF HeldApart

\* Of two workers in a LIST of the request, one would serve the connection of the other:
\* there are as many as managers at most, and a larger pool has a worker that is in none,
\* whatever the requests before have left of theirs.
THEOREM LargePoolIsEnough == Spec => []ListsLeaveAWorker
<1>1. Running /\ ClosedIsPast /\ HeldApart => ListsLeaveAWorker
  <2> SUFFICES ASSUME ContentKnows, ClosedIsPast, HeldApart, alive,
                      Cardinality(CWorkers) > Cardinality(Managers),
                      \A cw \in CWorkers : AwaitsRoom(cw)
               PROVE  FALSE
    BY DEF ListsLeaveAWorker, PoolExhausted, Running, Knows
  <2> DEFINE asks == [cw \in CWorkers |-> cclient[cw][2]]
  <2>1. \A cw \in CWorkers : /\ cclient[cw] \in Conns /\ cclient[cw][1] = session
                             /\ cclient[cw][3] = None
    BY DEF ContentKnows, Announced, ClosedIsPast, AwaitsRoom
  <2>2. asks \in [CWorkers -> Managers]
    BY <2>1 DEF Conns
  <2>3. PICK v \in CWorkers, w \in CWorkers : v # w /\ asks[v] = asks[w]
    <3>1. IsFiniteSet(CWorkers) /\ IsFiniteSet(Managers)
      BY ContentAssumption, MirrorAssumption
    <3>2. Cardinality(CWorkers) \in Nat /\ Cardinality(Managers) \in Nat
      BY <3>1, FS_CardinalityType
    <3>3. Cardinality(Managers) < Cardinality(CWorkers)
      BY <3>2
    <3> HIDE DEF asks
    <3> QED BY <2>2, <3>1, <3>3, FS_PigeonHole
  <2>4. cclient[v] = cclient[w]
    BY <2>1, <2>3 DEF Conns
  <2>5. cclient[v] # None
    BY <2>1, ContentAssumption
  <2> QED BY <2>3, <2>4, <2>5 DEF HeldApart, CSP!Held, CSP!Apart
<1> QED BY <1>1, RunningInvariant, ClosedInit, ClosedNext, HeldApartInit, HeldApartNext, PTL
        DEF Spec

================================================================================
