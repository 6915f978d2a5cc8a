------------------------- MODULE InitiatorSessionProofs -------------------------
(***************************************************************************)
(* Proofs about InitiatorSession, for every number of Initiators, of       *)
(* content servers in a request and of strings for each of them.           *)
(***************************************************************************)
EXTENDS InitiatorSession, Counting, WellFoundedInduction

USE DEF iniVars, serverVars, vars

--------------------------------------------------------------------------------
(* Streams and requests. *)

\* What recv returns is a part of the stream, empty only if the stream is, and
\* what stays behind is the rest.
LEMMA ArrivingParts ==
  ASSUME NEW S, NEW stream \in Seq(S), NEW closed \in BOOLEAN, NEW room \in Nat,
         NEW part \in Arriving(stream, closed, room)
  PROVE  /\ part \in Seq(S) /\ Without(stream, part) \in Seq(S)
         /\ Len(part) \in 0..Len(stream)
         /\ \A k \in 1..Len(part) : part[k] = stream[k]
         /\ Len(Without(stream, part)) = Len(stream) - Len(part)
         /\ \A k \in 1..Len(Without(stream, part)) :
              Without(stream, part)[k] = stream[Len(part) + k]
         /\ part = <<>> => stream = <<>> /\ closed /\ Without(stream, part) = <<>>
<1>1. CASE stream = <<>>
  <2>1. part = <<>> /\ closed
    BY <1>1 DEF Arriving
  <2>2. Without(stream, part) = <<>>
    BY <1>1, <2>1 DEF Without
  <2>3. part \in Seq(S) /\ Without(stream, part) \in Seq(S)
    BY <2>1, <2>2, EmptySeqType
  <2>4. Len(part) = 0 /\ Len(stream) = 0 /\ Len(Without(stream, part)) = 0
    BY <1>1, <2>1, <2>2
  <2> QED BY <1>1, <2>1, <2>2, <2>3, <2>4
<1>2. CASE stream # <<>>
  <2>1. PICK k \in 1..Len(stream) : part = SubSeq(stream, 1, k)
    BY <1>2 DEF Arriving
  <2>2. Len(part) = k /\ part # <<>>
    BY <2>1
  <2> QED BY <2>1, <2>2 DEF Without
<1> QED BY <1>1, <1>2

\* A stream of one unit is read as a whole; an empty one only once it is closed.
LEMMA ArrivingOne ==
  ASSUME NEW u, NEW closed \in BOOLEAN, NEW room \in Nat
  PROVE  /\ \A part \in Arriving(<<u>>, closed, room) : part = <<u>> /\ Without(<<u>>, part) = <<>>
         /\ \A part \in Arriving(<<>>, closed, room) :
              closed /\ part = <<>> /\ Without(<<>>, part) = <<>>
<1>1. \A part \in Arriving(<<u>>, closed, room) : part = <<u>>
  BY DEF Arriving
<1>2. \A part \in Arriving(<<>>, closed, room) : closed /\ part = <<>>
  BY DEF Arriving
<1>3. Without(<<u>>, <<u>>) = <<>> /\ Without(<<>>, <<>>) = <<>>
  BY DEF Without
<1> QED BY <1>1, <1>2, <1>3

\* The strings of a request are those of its content servers in turn.
LEMMA Division ==
  ASSUME NEW d \in Nat \ {0}, NEW n \in Nat, NEW k \in 1..(d * n)
  PROVE  ((k - 1) \div d) + 1 \in 1..n /\ ((k - 1) % d) + 1 \in 1..d
  OBVIOUS

LEMMA StringsType ==
  ASSUME NEW c \in Initiators
  PROVE  /\ Len(Request[c]) \in Nat /\ Strings(c) \in Seq(Texts)
         /\ Len(Strings(c)) = Details * Len(Request[c])
<1> DEFINE n == Len(Request[c])
           total == Details * n
<1>1. Request[c] \in Seq(Servers) /\ n \in Nat
  BY RequestAssumption
<1>2. total \in Nat
  BY <1>1, DetailsAssumption
<1>3. \A k \in 1..total : /\ ((k - 1) \div Details) + 1 \in 1..n
                          /\ ((k - 1) % Details) + 1 \in 1..Details
  BY <1>1, DetailsAssumption, Division
<1>4. \A k \in 1..total :
        <<Request[c][((k - 1) \div Details) + 1], ((k - 1) % Details) + 1>> \in Texts
  BY <1>1, <1>3 DEF Texts
<1>5. Strings(c) = [k \in 1..total |->
                      <<Request[c][((k - 1) \div Details) + 1], ((k - 1) % Details) + 1>>]
  BY DEF Strings
<1> HIDE DEF n, total
<1>6. Strings(c) \in Seq(Texts) /\ Len(Strings(c)) = total
  BY <1>2, <1>4, <1>5
<1> QED BY <1>1, <1>6 DEF n, total

\* A string that is not longer than the buffer is sent as nothing or in one piece.
LEMMA PiecesType ==
  /\ \A t \in Texts : Pieces(t) \in Seq(ToServer) /\ Length[t] \in Nat
  /\ \A c \in Initiators : \A k \in 1..Len(Strings(c)) : Short(c) =>
       \/ Pieces(Strings(c)[k]) = <<>> /\ Length[Strings(c)[k]] = 0
       \/ \E u : Pieces(Strings(c)[k]) = <<u>>
<1>1. ASSUME NEW t \in Texts PROVE Pieces(t) \in Seq(ToServer) /\ Length[t] \in Nat
  <2>1. Length[t] \in Nat
    BY LengthAssumption DEF Texts
  <2>2. \A k \in 1..Length[t] : Pieces(t)[k] \in ToSet(Pieces(t))
    BY DEF Pieces, ToSet
  <2>3. \A k \in 1..Length[t] : <<t[1], t[2], k>> \in ToServer
    BY <2>2 DEF ToServer, Pieces
  <2>4. Pieces(t) = [k \in 1..Length[t] |-> <<t[1], t[2], k>>]
    BY DEF Pieces
  <2> QED BY <2>1, <2>3, <2>4
<1>2. ASSUME NEW c \in Initiators, NEW k \in 1..Len(Strings(c)), Short(c)
      PROVE  \/ Pieces(Strings(c)[k]) = <<>> /\ Length[Strings(c)[k]] = 0
             \/ \E u : Pieces(Strings(c)[k]) = <<u>>
  <2> DEFINE t == Strings(c)[k]
  <2>1. Strings(c) \in Seq(Texts) /\ k \in DOMAIN Strings(c)
    BY StringsType
  <2>2. t \in Texts /\ Length[t] <= 1
    BY <1>2, <2>1 DEF Short
  <2>3. Length[t] = 0 \/ Length[t] = 1
    BY <1>1, <2>2
  <2>4. CASE Length[t] = 0
    <3>1. Pieces(t) = [j \in 1..0 |-> <<t[1], t[2], j>>]
      BY <2>4 DEF Pieces
    <3> QED BY <2>4, <3>1
  <2>5. CASE Length[t] = 1
    <3>1. Pieces(t) = [j \in 1..1 |-> <<t[1], t[2], j>>]
      BY <2>5 DEF Pieces
    <3>2. Pieces(t) = <<<<t[1], t[2], 1>>>>
      BY <3>1
    <3> QED BY <3>2
  <2> QED BY <2>3, <2>4, <2>5
<1> QED BY <1>1, <1>2

\* What does not change.
LEMMA Fixed ==
  /\ \A c : Strings(c)' = Strings(c) /\ (Short(c)' <=> Short(c))
  /\ \A s : Endpoint(s)' = Endpoint(s)
  BY DEF Strings, Short, Endpoint, Pieces

--------------------------------------------------------------------------------
(* The request. *)

\* The number of content servers has been sent, and nothing was said to it yet.
Announced(c) ==
  IF ini[c] = "gone"
  THEN toServer[c] \in {<<>>, <<Count(Len(Request[c]))>>}
  ELSE /\ ini[c] = "ok" /\ sent[c] = 0
       /\ toServer[c] = <<Count(Len(Request[c]))>> /\ toClient[c] = <<>>

\* The Initiator and the main thread take turns: an "OK" is on its way, or has
\* been read, or the next string is on its way, or all of them are through.
InTurn(c) ==
  \/ /\ ini[c] = "ok" /\ Len(received) = sent[c]
     /\ toServer[c] = <<>> /\ toClient[c] = <<OK>>
  \/ /\ ini[c] = "send" /\ Len(received) = sent[c]
     /\ toServer[c] = <<>> /\ toClient[c] = <<>>
  \/ /\ ini[c] = "ok" /\ Len(received) = sent[c] - 1
     /\ toServer[c] = Pieces(Strings(c)[sent[c]]) /\ toClient[c] = <<>>
  \/ /\ ini[c] = "recv" /\ Len(received) = sent[c] /\ sent[c] = Len(Strings(c))
     /\ toServer[c] = <<>> /\ toClient[c] = <<>>

\* What the server has received is the request of c, or the beginning of it.
IsOf(c) ==
  /\ vecs = Len(Request[c])
  /\ \A k \in DOMAIN received : received[k] = Pieces(Strings(c)[k])

\* By the position of the main thread in the request of c.
Waiting(c) ==
  /\ ini[c] = "start" => sent[c] = 0 /\ toServer[c] = <<>> /\ toClient[c] = <<>>
  /\ ini[c] # "start" => Announced(c)

Sending(c) == ini[c] # "gone" => InTurn(c) /\ IsOf(c)

\* Nothing more is known of a request with a string longer than the buffer.
InTime(c) ==
  /\ c = client /\ master = "strings" => Sending(c)
  /\ c = client /\ master \in {"join", "report"} /\ ini[c] # "gone" =>
       IsOf(c) /\ Len(received) = Len(Strings(c))
  /\ c \in accepted /\ (c = client => master \in {"join", "report"}) /\ ini[c] # "gone" =>
       sent[c] = Len(Strings(c))

InStep(c) ==
  /\ ini[c] = "send" => sent[c] < Len(Strings(c))
  /\ c \in accepted => ini[c] # "start"
  /\ c \notin accepted => Waiting(c)
  /\ c = client /\ master = "count" => Announced(c)
  /\ Short(c) => InTime(c)

InOrder ==
  /\ client # None => client \in accepted
  /\ master \in {"accept", "count"} => received = <<>>
  /\ master \in {"accept", "count", "strings"} => mgr = <<>>
  /\ master \in {"join", "report"} => Len(mgr) = vecs /\ Len(received) = Details * vecs

Lockstep == InOrder /\ \A c \in Initiators : InStep(c)

\* The effect of a send of the server, and of one of an Initiator.
LEMMA ServerSendsEffect ==
  ASSUME TypeOK, client \in Initiators, NEW units \in Seq(ToClient), ServerSends(units)
  PROVE  /\ toClient' \in [Initiators -> Seq(ToClient)] /\ alive' \in BOOLEAN
         /\ \A c \in Initiators : c # client => toClient'[c] = toClient[c]
         /\ ini[client] \notin Left => toClient'[client] = toClient[client] \o units
         /\ ini[client] \in Left => toClient'[client] = toClient[client]
<1>1. CASE ini[client] \notin Left
  <2>1. toClient' = [toClient EXCEPT ![client] = @ \o units] /\ alive' = alive
    BY <1>1 DEF ServerSends
  <2> QED BY <1>1, <2>1 DEF TypeOK
<1>2. CASE ini[client] \in Left
  <2>1. toClient' = toClient
    BY <1>2 DEF ServerSends
  <2>2. alive' \in BOOLEAN
    BY <1>2 DEF ServerSends, TypeOK
  <2> QED BY <1>2, <2>1, <2>2 DEF TypeOK
<1> QED BY <1>1, <1>2

LEMMA IniSendsEffect ==
  ASSUME TypeOK, NEW c \in Initiators, NEW units \in Seq(ToServer), IniSends(c, units)
  PROVE  /\ toServer' \in [Initiators -> Seq(ToServer)]
         /\ toServer'[c] = toServer[c] \o units
         /\ \A d \in Initiators : d # c => toServer'[d] = toServer[d]
  BY DEF IniSends, TypeOK

\* What the server reads, and what it leaves.
LEMMA ServerReadsEffect ==
  ASSUME TypeOK, client \in Initiators, NEW closed \in BOOLEAN,
         NEW part \in Arriving(toServer[client], closed, Buffer), ServerReads(part)
  PROVE  /\ toServer' \in [Initiators -> Seq(ToServer)] /\ part \in Seq(ToServer)
         /\ toServer'[client] = Without(toServer[client], part)
         /\ \A d \in Initiators : d # client => toServer'[d] = toServer[d]
<1>1. toServer[client] \in Seq(ToServer)
  BY DEF TypeOK
<1>2. part \in Seq(ToServer) /\ Without(toServer[client], part) \in Seq(ToServer)
  BY <1>1, BufferAssumption, ArrivingParts
<1> QED BY <1>1, <1>2 DEF ServerReads, TypeOK

LEMMA UnitTypes ==
  /\ \A c \in Initiators : <<Count(Len(Request[c]))>> \in Seq(ToServer)
  /\ <<OK>> \in Seq(ToServer) /\ <<OK>> \in Seq(ToClient) /\ <<Stats, End>> \in Seq(ToClient)
  /\ \A a \in Couples : <<Err(a), End>> \in Seq(ToClient)
  BY DEF ToServer, ToClient, Err

\* A set of natural numbers has a least element.
LEMMA SmallestIndex ==
  ASSUME NEW T \in SUBSET Nat, T # {}
  PROVE  \E k \in T : \A l \in T : k <= l
<1> DEFINE less == OpToRel(<, Nat)
<1>1. IsWellFoundedOn(less, Nat)
  BY NatLessThanWellFounded
<1>2. \A x, y \in Nat : <<x, y>> \in less <=> x < y
  BY DEF OpToRel
<1> HIDE DEF less
<1>3. PICK k \in T : \A l \in T : ~(<<l, k>> \in less)
  BY <1>1, WFMin
<1>4. \A l \in T : ~(l < k)
  BY <1>2, <1>3, Zenon
<1>5. \A l \in T : k <= l
  BY <1>4
<1> QED BY <1>5

LEMMA ErrUnits ==
  ASSUME NEW u \in ToClient, u[1] = "ERR"
  PROVE  u[2] \in Couples /\ u = Err(u[2]) /\ u # End
<1>1. u \notin {OK, Stats, End}
  <2>1. OK[1] = "OK" /\ Stats[1] = "stats" /\ End[1] = ";"
    BY DEF OK, Stats, End
  <2>2. "OK" # "ERR" /\ "stats" # "ERR" /\ ";" # "ERR"
    OBVIOUS
  <2> QED BY <2>1, <2>2
<1>2. u \in {"ERR"} \X Couples
  BY <1>1 DEF ToClient
<1> QED BY <1>1, <1>2 DEF Err

\* The word that a response starts with is one of its units.
LEMMA FirstWordIs ==
  ASSUME NEW response \in Seq(ToClient)
  PROVE  \/ FirstWord(response) = End /\ \A k \in 1..Len(response) : response[k] = End
         \/ \E k \in 1..Len(response) :
              FirstWord(response) = response[k] /\ response[k] # End
<1> DEFINE words == {k \in DOMAIN response : response[k] # End}
<1>1. CASE words = {}
  BY <1>1 DEF FirstWord
<1>2. CASE words # {}
  <2>1. words \in SUBSET Nat /\ words \subseteq 1..Len(response)
    OBVIOUS
  <2>2. \A k \in words : response[k] # End
    OBVIOUS
  <2>3. \E k \in words : \A l \in words : k <= l
    BY <1>2, <2>1, SmallestIndex
  <2>4. PICK k \in words : FirstWord(response) = response[k]
    BY <1>2, <2>3 DEF FirstWord
  <2> QED BY <2>1, <2>2, <2>4
<1> QED BY <1>1, <1>2

--------------------------------------------------------------------------------
(* Every step keeps the turns. *)

LEMMA SessionInit == Init => TypeOK /\ Lockstep
<1> SUFFICES ASSUME Init PROVE TypeOK /\ Lockstep
  OBVIOUS
<1>1. \A c \in Initiators : Len(Strings(c)) \in Nat
  BY StringsType
<1>2. <<>> \in Seq(ToClient) /\ <<>> \in Seq(ToServer) /\ <<>> \in Seq(Parts)
      /\ <<>> \in Seq(ManagerStates)
  BY EmptySeqType
<1>3. received = <<>> /\ mgr = <<>> /\ vecs = 0 /\ Len(received) = 0 /\ Len(mgr) = 0
  BY DEF Init
<1>4. Len(received) <= Details * vecs
  BY <1>3, DetailsAssumption
<1>5. /\ ini \in [Initiators -> IniStates]
      /\ sent \in [Initiators -> Nat] /\ \A c \in Initiators : sent[c] <= Len(Strings(c))
      /\ resp \in [Initiators -> Seq(ToClient)] /\ printed \in [Initiators -> SUBSET Couples]
  BY <1>1, <1>2 DEF Init, IniStates
<1>6. toServer \in [Initiators -> Seq(ToServer)] /\ toClient \in [Initiators -> Seq(ToClient)]
  BY <1>2 DEF Init
<1>7. received \in Seq(Parts) /\ mgr \in Seq(ManagerStates)
  BY <1>2, <1>3
<1>8. accepted \subseteq Initiators /\ ignored \in BOOLEAN /\ alive \in BOOLEAN
  BY DEF Init
<1>9. client \in Initiators \cup {None} /\ (client = None <=> master = "accept") /\ vecs \in Nat
      /\ master \in MasterStates /\ Len(mgr) \in {0, vecs}
  BY <1>3 DEF Init, MasterStates
<1>10. TypeOK
  BY <1>4, <1>5, <1>6, <1>7, <1>8, <1>9 DEF TypeOK
<1>11. Lockstep
  BY InitiatorsAssumption DEF Init, Lockstep, InOrder, InStep, InTime, Waiting
<1> QED BY <1>10, <1>11

\* What an Initiator's turn depends on.
LEMMA OthersInStep ==
  ASSUME NEW d \in Initiators, InStep(d),
         ini'[d] = ini[d], sent'[d] = sent[d],
         toServer'[d] = toServer[d], toClient'[d] = toClient[d],
         UNCHANGED <<accepted, client, master, vecs, received>>
  PROVE  InStep(d)'
<1>1. Announced(d)' <=> Announced(d)
  BY DEF Announced
<1>2. (InTurn(d)' <=> InTurn(d)) /\ (IsOf(d)' <=> IsOf(d))
  BY DEF InTurn, IsOf, Pieces, Strings
<1>3. InTime(d) => InTime(d)'
  BY <1>2, Fixed DEF InTime, Sending
<1> QED BY <1>1, <1>3, Fixed DEF InStep, Waiting

\* Where the main thread can be while c is its client.
LEMMA Phases ==
  ASSUME TypeOK, Lockstep, NEW c \in Initiators
  PROVE  /\ c = client => c \in accepted /\ master \in {"count", "strings", "join", "report"}
         /\ c \notin accepted => c # client
<1>1. c # None
  BY InitiatorsAssumption
<1> QED BY <1>1 DEF TypeOK, MasterStates, Lockstep, InOrder

LEMMA EmptyFirst == ASSUME NEW S, NEW s \in Seq(S) PROVE <<>> \o s = s
  OBVIOUS

\* A step of an Initiator that leaves the server and the others alone.
LEMMA IniKeeps ==
  ASSUME TypeOK, Lockstep, NEW c \in Initiators, UNCHANGED <<serverVars, ignored, alive>>,
         ini' \in [Initiators -> IniStates], sent' \in [Initiators -> Nat],
         sent'[c] <= Len(Strings(c)),
         resp' \in [Initiators -> Seq(ToClient)], printed' \in [Initiators -> SUBSET Couples],
         toServer' \in [Initiators -> Seq(ToServer)], toClient' \in [Initiators -> Seq(ToClient)],
         \A d \in Initiators : d # c =>
           /\ ini'[d] = ini[d] /\ sent'[d] = sent[d]
           /\ toServer'[d] = toServer[d] /\ toClient'[d] = toClient[d],
         InStep(c)'
  PROVE  TypeOK' /\ Lockstep'
<1>1. \A d \in Initiators : sent'[d] <= Len(Strings(d))
  BY DEF TypeOK
<1>2. TypeOK'
  BY <1>1 DEF TypeOK
<1>3. \A d \in Initiators : InStep(d)'
  BY OthersInStep DEF Lockstep
<1> QED BY <1>2, <1>3 DEF Lockstep, InOrder

LEMMA ConnectKeeps ==
  ASSUME TypeOK, Lockstep, NEW c \in Initiators, Connect(c)
  PROVE  TypeOK' /\ Lockstep'
<1>1. c \notin accepted /\ Waiting(c) /\ c # client
  BY InitiatorsAssumption DEF Connect, Lockstep, InStep, InOrder
<1>2. /\ toServer' \in [Initiators -> Seq(ToServer)]
      /\ toServer'[c] = toServer[c] \o <<Count(Len(Request[c]))>>
      /\ \A d \in Initiators : d # c => toServer'[d] = toServer[d]
  BY UnitTypes, IniSendsEffect DEF Connect
<1>3. toServer'[c] = <<Count(Len(Request[c]))>>
  BY <1>1, <1>2, UnitTypes, EmptyFirst DEF Waiting, Connect
<1>4. /\ ini' \in [Initiators -> IniStates] /\ ini'[c] = "ok"
      /\ \A d \in Initiators : d # c => ini'[d] = ini[d]
  BY DEF Connect, TypeOK, IniStates
<1>5. Announced(c)'
  BY <1>1, <1>3, <1>4 DEF Announced, Connect, Waiting
<1>6. InStep(c)'
  BY <1>1, <1>4, <1>5 DEF InStep, InTime, Waiting, Connect
<1> QED BY <1>2, <1>4, <1>6, IniKeeps DEF Connect, TypeOK

LEMMA AwaitOkKeeps ==
  ASSUME TypeOK, Lockstep, NEW c \in Initiators, AwaitOk(c)
  PROVE  TypeOK' /\ Lockstep'
<1>1. InStep(c)
  BY DEF Lockstep
<1>2. /\ toClient' \in [Initiators -> Seq(ToClient)]
      /\ toClient[c] = <<OK>> => toClient'[c] = <<>>
      /\ \A d \in Initiators : d # c => toClient'[d] = toClient[d]
  <2>1. toClient \in [Initiators -> Seq(ToClient)] /\ toClient[c] # <<>>
    BY DEF AwaitOk, TypeOK
  <2>2. Tail(toClient[c]) \in Seq(ToClient)
    BY <2>1, SeqLengths
  <2>3. Tail(<<OK>>) = <<>>
    OBVIOUS
  <2>4. toClient' = [toClient EXCEPT ![c] = Tail(@)]
    BY DEF AwaitOk
  <2> QED BY <2>1, <2>2, <2>3, <2>4
<1>3. /\ ini' \in [Initiators -> IniStates]
      /\ ini'[c] = IF sent[c] < Len(Strings(c)) THEN "send" ELSE "recv"
      /\ \A d \in Initiators : d # c => ini'[d] = ini[d]
  BY DEF AwaitOk, TypeOK, IniStates
<1>4. c \in accepted /\ ~(c = client /\ master = "count")
  BY <1>1 DEF InStep, Waiting, Announced, AwaitOk
<1>5. sent[c] \in Nat /\ sent[c] <= Len(Strings(c)) /\ Len(Strings(c)) \in Nat
  BY StringsType DEF TypeOK
<1>6. ASSUME Short(c) PROVE InTime(c)'
  <2>1. CASE c = client /\ master = "strings"
    <3>1. InTurn(c) /\ IsOf(c)
      BY <1>1, <1>6, <2>1 DEF InStep, InTime, Sending, AwaitOk
    <3>2. Len(received) = sent[c] /\ toServer[c] = <<>> /\ toClient[c] = <<OK>>
      BY <3>1 DEF InTurn, AwaitOk
    <3>3. InTurn(c)'
      BY <1>2, <1>3, <1>5, <3>2, Fixed DEF InTurn, AwaitOk
    <3>4. IsOf(c)'
      BY <3>1 DEF IsOf, Pieces, Strings, AwaitOk
    <3> QED BY <1>3, <2>1, <3>3, <3>4 DEF InTime, Sending, AwaitOk
  <2>2. CASE ~(c = client /\ master = "strings")
    <3>1. sent[c] = Len(Strings(c))
      BY <1>1, <1>4, <1>6, <2>2, Phases DEF InStep, InTime, AwaitOk
    <3>2. ini'[c] = "recv"
      BY <1>3, <1>5, <3>1
    <3>3. IsOf(c)' <=> IsOf(c)
      BY DEF IsOf, Pieces, Strings, AwaitOk
    <3> QED BY <1>1, <1>4, <1>6, <2>2, <3>1, <3>2, <3>3, Fixed DEF InStep, InTime, AwaitOk
  <2> QED BY <2>1, <2>2
<1>7. InStep(c)'
  BY <1>3, <1>4, <1>6, Fixed DEF InStep, AwaitOk
<1> QED BY <1>2, <1>3, <1>7, IniKeeps DEF AwaitOk, TypeOK

LEMMA SendStringKeeps ==
  ASSUME TypeOK, Lockstep, NEW c \in Initiators, SendString(c)
  PROVE  TypeOK' /\ Lockstep'
<1>1. InStep(c)
  BY DEF Lockstep
<1>2. sent[c] \in Nat /\ sent[c] < Len(Strings(c)) /\ Strings(c) \in Seq(Texts)
      /\ Len(Strings(c)) \in Nat
  BY <1>1, StringsType DEF InStep, SendString, TypeOK
<1>3. c \in accepted /\ ~(c = client /\ master = "count")
  <2>1. ~Announced(c) /\ ~Waiting(c)
    BY <1>2 DEF Waiting, Announced, SendString
  <2> QED BY <1>1, <2>1 DEF InStep
<1>4. /\ sent' \in [Initiators -> Nat] /\ sent'[c] = sent[c] + 1
      /\ \A d \in Initiators : d # c => sent'[d] = sent[d]
  <2>1. sent \in [Initiators -> Nat] /\ sent' = [sent EXCEPT ![c] = @ + 1]
    BY DEF SendString, TypeOK
  <2>2. sent[c] + 1 \in Nat
    BY <1>2
  <2> QED BY <2>1, <2>2
<1>5. /\ ini' \in [Initiators -> IniStates] /\ ini'[c] = "ok"
      /\ \A d \in Initiators : d # c => ini'[d] = ini[d]
  BY DEF SendString, TypeOK, IniStates
<1>6. Strings(c)[sent[c] + 1] \in Texts
  BY <1>2
<1>7. Pieces(Strings(c)[sent[c] + 1]) \in Seq(ToServer)
  BY <1>6, PiecesType
<1>8. /\ toServer' \in [Initiators -> Seq(ToServer)]
      /\ toServer'[c] = toServer[c] \o Pieces(Strings(c)[sent[c] + 1])
      /\ \A d \in Initiators : d # c => toServer'[d] = toServer[d]
  BY <1>7, IniSendsEffect DEF SendString
<1>9. ASSUME Short(c) PROVE InTime(c)'
  <2>1. c = client /\ master = "strings"
    BY <1>1, <1>2, <1>3, <1>9, Phases DEF InStep, InTime, SendString
  <2>2. InTurn(c) /\ IsOf(c)
    BY <1>1, <1>9, <2>1 DEF InStep, InTime, Sending, SendString
  <2>3. Len(received) = sent[c] /\ toServer[c] = <<>> /\ toClient[c] = <<>>
    BY <2>2 DEF InTurn, SendString
  <2>4. toServer'[c] = Pieces(Strings(c)[sent[c] + 1])
    BY <1>7, <1>8, <2>3, EmptyFirst
  <2>5. Len(received)' = sent'[c] - 1
    BY <1>2, <1>4, <2>3 DEF SendString
  <2>6. toServer'[c] = Pieces(Strings(c)[sent'[c]])
    BY <1>4, <2>4
  <2>7. InTurn(c)'
    BY <1>5, <2>3, <2>5, <2>6 DEF InTurn, SendString, Pieces, Strings
  <2>8. IsOf(c)'
    BY <2>2 DEF IsOf, Pieces, Strings, SendString
  <2> QED BY <1>3, <1>5, <2>1, <2>7, <2>8 DEF InTime, Sending, SendString
<1>10. InStep(c)'
  BY <1>3, <1>5, <1>9, Fixed DEF InStep, SendString
<1>11. sent'[c] <= Len(Strings(c))
  BY <1>2, <1>4
<1> QED BY <1>4, <1>5, <1>8, <1>10, <1>11, IniKeeps DEF SendString, TypeOK

\* An Initiator that reads responses is not sending its request any more.
LEMMA ReadingInStep ==
  ASSUME TypeOK, Lockstep, NEW c \in Initiators, ini[c] \in {"recv", "ack"},
         ini[c] = "recv" => Arriving(toClient[c], c \in accepted \ {client}, Len(toClient[c])) # {}
  PROVE  /\ c \in accepted /\ ~(c = client /\ master = "count")
         /\ Short(c) => /\ sent[c] = Len(Strings(c))
                        /\ c = client => master \in {"join", "report"}
<1>1. InStep(c)
  BY DEF Lockstep
<1>2. ~Announced(c) /\ ~Waiting(c)
  BY DEF Waiting, Announced
<1>3. ASSUME Short(c), c = client, master = "strings" PROVE FALSE
  <2>1. InTurn(c)
    BY <1>1, <1>3 DEF InStep, InTime, Sending
  <2>2. ini[c] = "recv" /\ toClient[c] = <<>>
    BY <2>1 DEF InTurn
  <2>3. Arriving(<<>>, c \in accepted \ {client}, Len(<<>>)) = {}
    BY <1>3 DEF Arriving
  <2> QED BY <2>2, <2>3
<1> QED BY <1>1, <1>2, <1>3, Phases DEF InStep, InTime

LEMMA ReceiveKeeps ==
  ASSUME TypeOK, Lockstep, NEW c \in Initiators, Receive(c)
  PROVE  TypeOK' /\ Lockstep'
<1>1. InStep(c)
  BY DEF Lockstep
<1>2. PICK part \in Arriving(toClient[c], c \in accepted \ {client}, Len(toClient[c])) :
        /\ toClient' = [toClient EXCEPT ![c] = Without(@, part)]
        /\ resp' = [resp EXCEPT ![c] = @ \o part]
        /\ ini' = [ini EXCEPT ![c] = IF part = <<>> THEN "gone"
                                     ELSE IF Contains(resp'[c], End) THEN "ack" ELSE "recv"]
  BY DEF Receive
<1>3. /\ toClient[c] \in Seq(ToClient) /\ Len(toClient[c]) \in Nat
      /\ (c \in accepted \ {client}) \in BOOLEAN
  BY DEF TypeOK
<1>4. part \in Seq(ToClient) /\ Without(toClient[c], part) \in Seq(ToClient)
  BY <1>2, <1>3, ArrivingParts
<1>5. /\ toClient' \in [Initiators -> Seq(ToClient)]
      /\ \A d \in Initiators : d # c => toClient'[d] = toClient[d]
  BY <1>2, <1>4 DEF TypeOK
<1>6. resp' \in [Initiators -> Seq(ToClient)]
  BY <1>2, <1>4 DEF TypeOK
<1>7. /\ ini' \in [Initiators -> IniStates] /\ ini'[c] \in {"gone", "ack", "recv"}
      /\ \A d \in Initiators : d # c => ini'[d] = ini[d]
  BY <1>2 DEF TypeOK, IniStates, Left
<1>8. /\ c \in accepted /\ ~(c = client /\ master = "count")
      /\ Short(c) => /\ sent[c] = Len(Strings(c))
                     /\ c = client => master \in {"join", "report"}
  BY <1>2, ReadingInStep DEF Receive
<1>9. InStep(c)'
  <2>1. IsOf(c)' <=> IsOf(c)
    BY DEF IsOf, Pieces, Strings, Receive
  <2>2. Short(c) => InTime(c)'
    BY <1>1, <1>7, <1>8, <2>1, Fixed DEF InStep, InTime, Receive
  <2> QED BY <1>7, <1>8, <2>2, Fixed DEF InStep, Receive
<1> QED BY <1>5, <1>6, <1>7, <1>9, IniKeeps DEF Receive, TypeOK

LEMMA AcknowledgeKeeps ==
  ASSUME TypeOK, Lockstep, NEW c \in Initiators, Acknowledge(c)
  PROVE  TypeOK' /\ Lockstep'
<1>1. InStep(c)
  BY DEF Lockstep
<1>2. /\ toServer' \in [Initiators -> Seq(ToServer)]
      /\ \A d \in Initiators : d # c => toServer'[d] = toServer[d]
  BY UnitTypes, IniSendsEffect DEF Acknowledge
<1>3. /\ ini' \in [Initiators -> IniStates] /\ ini'[c] \in {"recv", "gone", "reported"}
      /\ \A d \in Initiators : d # c => ini'[d] = ini[d]
  BY DEF Acknowledge, TypeOK, IniStates, Left
<1>4. resp' \in [Initiators -> Seq(ToClient)]
  BY EmptySeqType DEF Acknowledge, TypeOK
<1>5. ASSUME FirstWord(resp[c])[1] = "ERR" PROVE FirstWord(resp[c])[2] \in Couples
  <2>1. resp[c] \in Seq(ToClient)
    BY DEF TypeOK
  <2>2. FirstWord(resp[c]) \in ToClient
    BY <2>1, FirstWordIs DEF ToClient
  <2> QED BY <1>5, <2>2, ErrUnits
<1>6. printed' \in [Initiators -> SUBSET Couples]
  <2>1. printed \in [Initiators -> SUBSET Couples]
    BY DEF TypeOK
  <2>2. CASE FirstWord(resp[c])[1] = "ERR"
    <3>1. printed' = [printed EXCEPT ![c] = @ \cup {FirstWord(resp[c])[2]}]
      BY <2>2 DEF Acknowledge
    <3> QED BY <1>5, <2>1, <2>2, <3>1
  <2>3. CASE FirstWord(resp[c])[1] # "ERR"
    BY <2>1, <2>3 DEF Acknowledge
  <2> QED BY <2>2, <2>3
<1>7. /\ c \in accepted /\ ~(c = client /\ master = "count")
      /\ Short(c) => /\ sent[c] = Len(Strings(c))
                     /\ c = client => master \in {"join", "report"}
  BY ReadingInStep DEF Acknowledge
<1>8. InStep(c)'
  <2>1. IsOf(c)' <=> IsOf(c)
    BY DEF IsOf, Pieces, Strings, Acknowledge
  <2>2. Short(c) => InTime(c)'
    BY <1>1, <1>3, <1>7, <2>1, Fixed DEF InStep, InTime, Acknowledge
  <2> QED BY <1>3, <1>7, <2>2, Fixed DEF InStep, Acknowledge
<1> QED BY <1>2, <1>3, <1>4, <1>6, <1>8, IniKeeps DEF Acknowledge, TypeOK

\* An Initiator ends, with what it has sent on its way or lost.
LEMMA LeavingKeeps ==
  ASSUME TypeOK, Lockstep, NEW c \in Initiators, Kill(c) \/ LoseServer(c)
  PROVE  TypeOK' /\ Lockstep'
<1>1. InStep(c) /\ ini[c] \in IniStates /\ ini[c] # "gone"
  BY DEF Lockstep, Kill, LoseServer, TypeOK, Left
<1>2. /\ ini' \in [Initiators -> IniStates] /\ ini'[c] = "gone"
      /\ \A d \in Initiators : d # c => ini'[d] = ini[d]
  BY DEF Kill, LoseServer, Leave, TypeOK, IniStates, Left
<1>3. toServer' = toServer \/ toServer' = [toServer EXCEPT ![c] = <<>>]
  BY DEF Kill, LoseServer
<1>4. /\ toServer' \in [Initiators -> Seq(ToServer)] /\ toServer'[c] \in {toServer[c], <<>>}
      /\ \A d \in Initiators : d # c => toServer'[d] = toServer[d]
  BY <1>3, EmptySeqType DEF TypeOK
<1>5. UNCHANGED <<printed, serverVars, ignored, alive>>
  BY DEF Kill, LoseServer
<1>6. /\ sent' \in [Initiators -> Nat] /\ sent'[c] = 0
      /\ resp' \in [Initiators -> Seq(ToClient)] /\ toClient' \in [Initiators -> Seq(ToClient)]
      /\ \A d \in Initiators : d # c => sent'[d] = sent[d] /\ toClient'[d] = toClient[d]
  <2>1. Leave(c) /\ <<>> \in Seq(ToClient) /\ 0 \in Nat
    BY EmptySeqType DEF Kill, LoseServer
  <2>2. sent' \in [Initiators -> Nat] /\ resp' \in [Initiators -> Seq(ToClient)]
    BY <2>1 DEF Leave, TypeOK
  <2>3. toClient' \in [Initiators -> Seq(ToClient)]
    BY <2>1 DEF Leave, TypeOK
  <2>4. /\ sent'[c] = 0
        /\ \A d \in Initiators : d # c => sent'[d] = sent[d] /\ toClient'[d] = toClient[d]
    BY <2>1 DEF Leave, TypeOK
  <2> QED BY <2>2, <2>3, <2>4
<1>7. Waiting(c) => Waiting(c)'
  BY <1>1, <1>2, <1>4 DEF Waiting, Announced
<1>8. Announced(c) => Announced(c)'
  BY <1>1, <1>2, <1>4 DEF Announced
<1>9. InStep(c)'
  BY <1>1, <1>2, <1>5, <1>7, <1>8 DEF InStep, InTime, Sending
<1>10. sent'[c] <= Len(Strings(c))
  BY <1>6, StringsType
<1> QED BY <1>2, <1>4, <1>5, <1>6, <1>9, <1>10, IniKeeps DEF TypeOK

\* What the turn of an Initiator that is not being served depends on.
LEMMA IdleInStep ==
  ASSUME NEW d \in Initiators, InStep(d), d # client, d # client',
         UNCHANGED <<ini, sent>>, d \in accepted' <=> d \in accepted,
         toServer'[d] = toServer[d], toClient'[d] = toClient[d]
  PROVE  InStep(d)'
<1>1. Waiting(d)' <=> Waiting(d)
  BY DEF Waiting, Announced
<1>2. InTime(d) => InTime(d)'
  BY Fixed DEF InTime
<1> QED BY <1>1, <1>2, Fixed DEF InStep

LEMMA AcceptKeeps ==
  ASSUME TypeOK, Lockstep, Accept
  PROVE  TypeOK' /\ Lockstep'
<1>1. PICK c \in Initiators \ accepted :
        ini[c] # "start" /\ client' = c /\ accepted' = accepted \cup {c}
  BY DEF Accept
<1>2. InStep(c) /\ Announced(c)
  BY <1>1 DEF Lockstep, InStep, Waiting
<1>3. client = None /\ c # None
  BY <1>1, InitiatorsAssumption DEF Accept, TypeOK
<1>4. Announced(c)'
  BY <1>2 DEF Announced, Accept
<1>5. InStep(c)'
  BY <1>1, <1>2, <1>4 DEF InStep, InTime, Accept
<1>6. ASSUME NEW d \in Initiators, d # c PROVE InStep(d)'
  <2>1. InStep(d) /\ d # client /\ d # client' /\ (d \in accepted' <=> d \in accepted)
    BY <1>1, <1>3, <1>6, InitiatorsAssumption DEF Lockstep
  <2> QED BY <2>1, IdleInStep DEF Accept
<1>7. InOrder'
  BY <1>1 DEF InOrder, Lockstep, Accept
<1>8. TypeOK'
  BY <1>1, <1>3 DEF TypeOK, Accept, MasterStates
<1> QED BY <1>5, <1>6, <1>7, <1>8 DEF Lockstep

LEMMA ReceiveCountKeeps ==
  ASSUME TypeOK, Lockstep, ReceiveCount
  PROVE  TypeOK' /\ Lockstep'
<1>1. client \in Initiators /\ client \in accepted /\ received = <<>> /\ mgr = <<>>
  BY DEF ReceiveCount, TypeOK, Lockstep, InOrder
<1>2. InStep(client) /\ Announced(client)
  BY <1>1 DEF Lockstep, InStep, ReceiveCount
<1>3. PICK part \in Arriving(toServer[client], ini[client] \in Left, Buffer) :
        vecs' = (IF part = <<>> THEN 0 ELSE Head(part)[2]) /\ ServerReads(part)
  BY DEF ReceiveCount
<1> DEFINE number == Len(Request[client])
<1>4. /\ toServer[client] = <<>> => /\ ini[client] = "gone" /\ part = <<>>
                                    /\ Without(<<>>, part) = <<>>
      /\ toServer[client] # <<>> => /\ toServer[client] = <<Count(number)>>
                                    /\ part = <<Count(number)>>
                                    /\ Without(toServer[client], part) = <<>>
  <2>1. (ini[client] \in Left) \in BOOLEAN
    OBVIOUS
  <2>2. CASE toServer[client] = <<>>
    <3>1. part \in Arriving(<<>>, ini[client] \in Left, Buffer)
      BY <1>3, <2>2
    <3>2. ini[client] = "gone"
      BY <1>2, <2>2 DEF Announced
    <3> QED BY <2>1, <2>2, <3>1, <3>2, BufferAssumption, ArrivingOne
  <2>3. CASE toServer[client] # <<>>
    <3>1. toServer[client] = <<Count(number)>>
      BY <1>2, <2>3 DEF Announced
    <3>2. part \in Arriving(<<Count(number)>>, ini[client] \in Left, Buffer)
      BY <1>3, <3>1
    <3> QED BY <2>1, <2>3, <3>1, <3>2, BufferAssumption, ArrivingOne
  <2> QED BY <2>2, <2>3
<1>5. number \in Nat
  BY <1>1, StringsType
<1>6. Head(<<Count(number)>>)[2] = number
  BY DEF Count
<1>7. vecs' \in Nat /\ (ini[client] # "gone" => vecs' = number)
  BY <1>2, <1>3, <1>4, <1>5, <1>6 DEF Announced
<1>8. (ini[client] \in Left) \in BOOLEAN
  OBVIOUS
<1>9. /\ toServer' \in [Initiators -> Seq(ToServer)] /\ toServer'[client] = <<>>
      /\ \A d \in Initiators : d # client => toServer'[d] = toServer[d]
  BY <1>1, <1>3, <1>4, <1>8, ServerReadsEffect
<1>10. /\ toClient' \in [Initiators -> Seq(ToClient)] /\ alive' \in BOOLEAN
       /\ \A d \in Initiators : d # client => toClient'[d] = toClient[d]
       /\ ini[client] \notin Left => toClient'[client] = toClient[client] \o <<OK>>
  BY <1>1, UnitTypes, ServerSendsEffect DEF ReceiveCount
<1>11. ASSUME ini[client] # "gone" PROVE InTurn(client)' /\ IsOf(client)'
  <2>1. ini[client] = "ok" /\ sent[client] = 0 /\ toClient[client] = <<>>
    BY <1>2, <1>11 DEF Announced
  <2>2. toClient'[client] = <<OK>>
    BY <1>10, <2>1, UnitTypes, EmptyFirst DEF Left
  <2>3. Len(received) = 0
    BY <1>1
  <2>4. InTurn(client)'
    BY <1>9, <2>1, <2>2, <2>3 DEF InTurn, ReceiveCount
  <2>5. received' = <<>> /\ vecs' = Len(Request[client]) /\ client' = client
    BY <1>1, <1>7, <1>11 DEF ReceiveCount
  <2>6. IsOf(client)'
    BY <2>5 DEF IsOf
  <2> QED BY <2>4, <2>6
<1>12. Sending(client)'
  BY <1>9, <1>11 DEF Sending, ReceiveCount
<1>13. InStep(client)'
  BY <1>1, <1>2, <1>12 DEF InStep, InTime, ReceiveCount
<1>14. \A d \in Initiators : d # client => InStep(d)'
  BY <1>9, <1>10, IdleInStep DEF Lockstep, ReceiveCount
<1>15. Len(received') <= Details * vecs' /\ Len(mgr') \in {0, vecs'}
  BY <1>1, <1>7, DetailsAssumption DEF ReceiveCount
<1>16. TypeOK'
  BY <1>7, <1>9, <1>10, <1>15 DEF TypeOK, ReceiveCount, MasterStates
<1>17. InOrder'
  BY <1>1 DEF InOrder, ReceiveCount
<1> QED BY <1>13, <1>14, <1>16, <1>17 DEF Lockstep, ReceiveCount

\* What the server can read while a request is sent whose strings fit the buffer.
LEMMA StringArrives ==
  ASSUME TypeOK, client \in Initiators, Short(client), Sending(client), ini[client] # "gone",
         NEW part \in Arriving(toServer[client], ini[client] \in Left, Buffer)
  PROVE  /\ ini[client] = "ok" /\ Len(received) = sent[client] - 1
         /\ toClient[client] = <<>> /\ part # <<>>
         /\ part = Pieces(Strings(client)[sent[client]])
         /\ Without(toServer[client], part) = <<>>
<1> DEFINE closed == ini[client] \in Left
           text == Strings(client)[sent[client]]
<1>1. closed = FALSE
  BY DEF Sending, InTurn, Left
<1>2. ASSUME toServer[client] = <<>> PROVE FALSE
  <2>1. part \in Arriving(<<>>, FALSE, Buffer)
    BY <1>1, <1>2
  <2> QED BY <2>1, BufferAssumption, ArrivingOne
<1>3. /\ ini[client] = "ok" /\ Len(received) = sent[client] - 1
      /\ toClient[client] = <<>> /\ toServer[client] = Pieces(text)
  BY <1>2 DEF Sending, InTurn
<1>4. sent[client] \in 1..Len(Strings(client))
  <2>1. /\ sent[client] \in Nat /\ sent[client] <= Len(Strings(client))
        /\ Len(Strings(client)) \in Nat /\ Len(received) \in Nat
    BY StringsType DEF TypeOK
  <2> QED BY <1>3, <2>1
<1>5. PICK u : Pieces(text) = <<u>>
  BY <1>2, <1>3, <1>4, PiecesType
<1>6. part \in Arriving(<<u>>, FALSE, Buffer)
  BY <1>1, <1>3, <1>5
<1>7. part = <<u>> /\ Without(<<u>>, part) = <<>>
  BY <1>6, BufferAssumption, ArrivingOne
<1> QED BY <1>3, <1>5, <1>7

LEMMA ReceiveStringKeeps ==
  ASSUME TypeOK, Lockstep, ReceiveString
  PROVE  TypeOK' /\ Lockstep'
<1>1. client \in Initiators /\ client \in accepted /\ mgr = <<>> /\ client' = client
  BY DEF ReceiveString, TypeOK, Lockstep, InOrder
<1>2. InStep(client) /\ (Short(client) => Sending(client))
  BY <1>1 DEF Lockstep, InStep, InTime, ReceiveString
<1>3. PICK part \in Arriving(toServer[client], ini[client] \in Left, Buffer) :
        /\ \E text \in {part} \cup (IF part = <<>> THEN ToSet(received) ELSE {}) :
             received' = Append(received, text)
        /\ ServerReads(part)
  BY DEF ReceiveString
<1>4. PICK text \in {part} \cup (IF part = <<>> THEN ToSet(received) ELSE {}) :
        received' = Append(received, text)
  BY <1>3
<1>5. received \in Seq(Parts) /\ vecs \in Nat /\ Len(received) \in Nat
  BY DEF TypeOK
<1>6. (ini[client] \in Left) \in BOOLEAN
  OBVIOUS
<1>7. /\ toServer' \in [Initiators -> Seq(ToServer)] /\ part \in Parts
      /\ toServer'[client] = Without(toServer[client], part)
      /\ \A d \in Initiators : d # client => toServer'[d] = toServer[d]
  BY <1>1, <1>3, <1>6, ServerReadsEffect DEF Parts
<1>8. text \in Parts
  BY <1>4, <1>5, <1>7 DEF ToSet
<1>9. received' \in Seq(Parts) /\ Len(received') = Len(received) + 1
  BY <1>4, <1>5, <1>8
<1>10. Len(received') <= Details * vecs
  BY <1>5, <1>9, DetailsAssumption DEF ReceiveString
<1>12. /\ toClient' \in [Initiators -> Seq(ToClient)] /\ alive' \in BOOLEAN
       /\ \A d \in Initiators : d # client => toClient'[d] = toClient[d]
       /\ ini[client] \notin Left => toClient'[client] = toClient[client] \o <<OK>>
  BY <1>1, UnitTypes, ServerSendsEffect DEF ReceiveString
<1>13. ASSUME Short(client), ini[client] # "gone" PROVE InTurn(client)' /\ IsOf(client)'
  <2>1. /\ ini[client] = "ok" /\ Len(received) = sent[client] - 1
        /\ toClient[client] = <<>> /\ part # <<>>
        /\ part = Pieces(Strings(client)[sent[client]])
        /\ Without(toServer[client], part) = <<>>
    BY <1>1, <1>2, <1>13, StringArrives
  <2>2. text = part
    BY <1>4, <2>1
  <2>3. toClient'[client] = <<OK>>
    BY <1>12, <2>1, UnitTypes, EmptyFirst DEF Left
  <2>4. sent[client] \in Nat
    BY <1>1 DEF TypeOK
  <2>5. Len(received') = sent[client]
    BY <1>5, <1>9, <2>1, <2>4
  <2>6. InTurn(client)'
    BY <1>1, <1>7, <2>1, <2>3, <2>5 DEF InTurn, ReceiveString
  <2>7. IsOf(client)
    BY <1>2, <1>13 DEF Sending
  <2>8. ASSUME NEW k \in 1..Len(received') PROVE received'[k] = Pieces(Strings(client)[k])
    <3>1. CASE k \in 1..Len(received)
      <4>1. received'[k] = received[k]
        BY <1>4, <1>5, <1>8, <3>1
      <4> QED BY <1>5, <2>7, <3>1, <4>1 DEF IsOf
    <3>2. CASE k = Len(received) + 1
      <4>1. received'[k] = text /\ k = sent[client]
        BY <1>4, <1>5, <1>8, <1>9, <2>5, <3>2
      <4> QED BY <2>1, <2>2, <4>1
    <3> QED BY <1>5, <1>9, <3>1, <3>2
  <2>9. DOMAIN received' = 1..Len(received')
    BY <1>9
  <2>10. IsOf(client)'
    <3>1. vecs' = Len(Request[client'])
      BY <1>1, <2>7 DEF IsOf, ReceiveString
    <3>2. \A k \in DOMAIN received' : received'[k] = Pieces(Strings(client')[k])
      BY <1>1, <2>8, <2>9
    <3> QED BY <1>1, <3>1, <3>2 DEF IsOf, Pieces, Strings
  <2> QED BY <2>6, <2>10
<1>14. Short(client) => Sending(client)'
  BY <1>1, <1>13 DEF Sending, ReceiveString
<1>15. InStep(client)'
  BY <1>1, <1>2, <1>14, Fixed DEF InStep, InTime, ReceiveString
<1>16. \A d \in Initiators : d # client => InStep(d)'
  BY <1>1, <1>7, <1>12, IdleInStep DEF Lockstep, ReceiveString
<1>17. TypeOK'
  BY <1>9, <1>10, <1>7, <1>12 DEF TypeOK, ReceiveString
<1>18. InOrder'
  BY <1>1 DEF InOrder, ReceiveString
<1> QED BY <1>1, <1>15, <1>16, <1>17, <1>18 DEF Lockstep

LEMMA StartManagersKeeps ==
  ASSUME TypeOK, Lockstep, StartManagers
  PROVE  TypeOK' /\ Lockstep'
<1>1. client \in Initiators /\ client \in accepted /\ client' = client
  BY DEF StartManagers, TypeOK, Lockstep, InOrder
<1>2. InStep(client) /\ (Short(client) => Sending(client))
  BY <1>1 DEF Lockstep, InStep, InTime, StartManagers
<1>3. vecs \in Nat
  BY DEF TypeOK
<1>4. mgr' \in Seq(ManagerStates) /\ Len(mgr') = vecs
  BY <1>3 DEF StartManagers, ManagerStates
<1>5. ASSUME Short(client), ini[client] # "gone"
      PROVE  IsOf(client) /\ Len(received) = Len(Strings(client))
             /\ sent[client] = Len(Strings(client))
  <2>1. IsOf(client) /\ InTurn(client)
    BY <1>2, <1>5 DEF Sending
  <2>2. Len(Strings(client)) = Details * Len(Request[client]) /\ Len(Strings(client)) \in Nat
    BY <1>1, StringsType
  <2>3. Len(received) = Len(Strings(client))
    BY <2>1, <2>2 DEF IsOf, StartManagers
  <2>4. sent[client] \in Nat /\ sent[client] <= Len(Strings(client))
    BY <1>1 DEF TypeOK
  <2>5. Len(received) = sent[client] \/ Len(received) = sent[client] - 1
    BY <2>1 DEF InTurn
  <2> QED BY <2>1, <2>2, <2>3, <2>4, <2>5
<1>6. IsOf(client)' <=> IsOf(client)
  BY <1>1 DEF IsOf, Pieces, Strings, StartManagers
<1>7. InStep(client)'
  <2>1. Short(client) => InTime(client)'
    BY <1>1, <1>5, <1>6, Fixed DEF InTime, StartManagers
  <2> QED BY <1>1, <1>2, <2>1, Fixed DEF InStep, StartManagers
<1>8. \A d \in Initiators : d # client => InStep(d)'
  BY <1>1, IdleInStep DEF Lockstep, StartManagers
<1>9. TypeOK'
  BY <1>4 DEF TypeOK, StartManagers, MasterStates
<1>10. InOrder'
  BY <1>1, <1>4 DEF InOrder, StartManagers
<1> QED BY <1>1, <1>7, <1>8, <1>9, <1>10 DEF Lockstep

\* The managers, and the main thread that joins them, leave every stream alone
\* but those of their client.
LEMMA ServedInStep ==
  ASSUME TypeOK, Lockstep, {master, master'} \subseteq {"join", "report"},
         UNCHANGED <<iniVars, accepted, client, vecs, received>>,
         toServer' \in [Initiators -> Seq(ToServer)], toClient' \in [Initiators -> Seq(ToClient)],
         \A d \in Initiators : d # client =>
           toServer'[d] = toServer[d] /\ toClient'[d] = toClient[d],
         mgr' \in Seq(ManagerStates), Len(mgr') = Len(mgr),
         ignored' \in BOOLEAN, alive' \in BOOLEAN
  PROVE  TypeOK' /\ Lockstep'
<1>1. ASSUME NEW c \in Initiators, c = client PROVE InStep(c)'
  <2>1. InStep(c)
    BY DEF Lockstep
  <2>2. IsOf(c)' <=> IsOf(c)
    BY DEF IsOf, Pieces, Strings
  <2>3. InTime(c) => InTime(c)'
    BY <1>1, <2>2, Fixed DEF InTime
  <2> QED BY <1>1, <2>1, <2>3, Fixed, Phases DEF InStep
<1>2. ASSUME NEW d \in Initiators, d # client PROVE InStep(d)'
  BY <1>2, IdleInStep DEF Lockstep
<1>3. TypeOK'
  BY DEF TypeOK, MasterStates
<1>4. InOrder'
  BY DEF InOrder, Lockstep
<1> QED BY <1>1, <1>2, <1>3, <1>4 DEF Lockstep

LEMMA JoinManagersKeeps ==
  ASSUME TypeOK, Lockstep, JoinManagers
  PROVE  TypeOK' /\ Lockstep'
  BY ServedInStep DEF JoinManagers, TypeOK

\* A manager exists only while the main thread joins, and its address was received.
LEMMA ManagerPlace ==
  ASSUME TypeOK, Lockstep, NEW i \in DOMAIN mgr
  PROVE  /\ master \in {"join", "report"} /\ client \in Initiators /\ i \in 1..vecs
         /\ mgr \in Seq(ManagerStates) /\ mgr[i] \in ManagerStates
         /\ Len(received) = Details * vecs
         /\ \A j \in 1..2 : Details * (i - 1) + j \in DOMAIN received
         /\ Address(i) \in Couples
<1>1. mgr \in Seq(ManagerStates) /\ received \in Seq(Parts) /\ vecs \in Nat
  BY DEF TypeOK
<1>2. DOMAIN mgr = 1..Len(mgr) /\ mgr # <<>>
  BY <1>1
<1>3. master \in {"join", "report"} /\ client \in Initiators
  BY <1>2 DEF Lockstep, InOrder, TypeOK, MasterStates
<1>4. Len(mgr) = vecs /\ Len(received) = Details * vecs
  BY <1>3 DEF Lockstep, InOrder
<1>5. \A d \in Nat \ {0, 1}, n \in Nat : \A k \in 1..n : \A j \in 1..2 :
        d * (k - 1) + j \in 1..(d * n)
  OBVIOUS
<1>6. \A j \in 1..2 : Details * (i - 1) + j \in 1..(Details * vecs)
  BY <1>1, <1>2, <1>4, <1>5, DetailsAssumption
<1>7. Address(i) \in Couples
  BY <1>1, <1>4, <1>6 DEF Address, Couples
<1> QED BY <1>1, <1>2, <1>3, <1>4, <1>6, <1>7

LEMMA ManagersKeep ==
  ASSUME TypeOK, Lockstep, NEW i \in DOMAIN mgr, ManagerStep(i)
  PROVE  TypeOK' /\ Lockstep'
<1>1. /\ mgr \in Seq(ManagerStates) /\ client \in Initiators /\ Address(i) \in Couples
      /\ master \in {"join", "report"}
  BY ManagerPlace
<1>2. \A m \in ManagerStates : /\ [mgr EXCEPT ![i] = m] \in Seq(ManagerStates)
                               /\ Len([mgr EXCEPT ![i] = m]) = Len(mgr)
  BY <1>1
<1>3. \E m \in ManagerStates : mgr' = [mgr EXCEPT ![i] = m]
  BY DEF ManagerStates, ManagerStep, ManagerConnect, List, SendErr, ManagerAwaitOk
<1>4. mgr' \in Seq(ManagerStates) /\ Len(mgr') = Len(mgr)
  BY <1>2, <1>3
<1>5. CASE ManagerConnect(i) \/ List(i)
  BY <1>1, <1>4, <1>5, ServedInStep DEF ManagerConnect, List, TypeOK
<1>6. CASE SendErr(i)
  <2>1. /\ toClient' \in [Initiators -> Seq(ToClient)] /\ alive' \in BOOLEAN
        /\ \A d \in Initiators : d # client => toClient'[d] = toClient[d]
    BY <1>1, <1>6, UnitTypes, ServerSendsEffect DEF SendErr
  <2> QED BY <1>1, <1>4, <1>6, <2>1, ServedInStep DEF SendErr, TypeOK
<1>7. CASE ManagerAwaitOk(i)
  <2>1. toServer[client] \in Seq(ToServer)
    BY <1>1 DEF TypeOK
  <2>2. AfterOk(toServer[client]) \subseteq Seq(ToServer)
    BY <2>1, SeqLengths DEF AfterOk
  <2>3. /\ toServer' \in [Initiators -> Seq(ToServer)]
        /\ \A d \in Initiators : d # client => toServer'[d] = toServer[d]
    BY <1>1, <1>7, <2>2 DEF ManagerAwaitOk, TypeOK
  <2> QED BY <1>1, <1>4, <1>7, <2>3, ServedInStep DEF ManagerAwaitOk, TypeOK
<1> QED BY <1>5, <1>6, <1>7 DEF ManagerStep

LEMMA ReportKeeps ==
  ASSUME TypeOK, Lockstep, Report
  PROVE  TypeOK' /\ Lockstep'
<1>1. client \in Initiators /\ client \in accepted
  BY DEF Report, TypeOK, Lockstep, InOrder
<1>2. /\ toClient' \in [Initiators -> Seq(ToClient)] /\ alive' \in BOOLEAN
      /\ toServer' \in [Initiators -> Seq(ToServer)]
      /\ \A d \in Initiators : d # client =>
           toClient'[d] = toClient[d] /\ toServer'[d] = toServer[d]
  BY <1>1, EmptySeqType, UnitTypes, ServerSendsEffect DEF Report, TypeOK
<1>3. InStep(client)
  BY <1>1 DEF Lockstep
<1>4. client' = None /\ client' \notin Initiators
  BY InitiatorsAssumption DEF Report
<1>5. ASSUME NEW c \in Initiators, c = client PROVE InStep(c)'
  BY <1>1, <1>3, <1>4, <1>5, Fixed DEF Report, InStep, InTime
<1>6. ASSUME NEW d \in Initiators, d # client PROVE InStep(d)'
  BY <1>2, <1>4, <1>6, IdleInStep DEF Lockstep, Report
<1>7. received' \in Seq(Parts) /\ mgr' \in Seq(ManagerStates) /\ Len(received') = 0 /\ Len(mgr') = 0
  BY EmptySeqType DEF Report
<1>8. Len(received') <= Details * vecs' /\ Len(mgr') \in {0, vecs'} /\ vecs' \in Nat
  BY <1>7, DetailsAssumption DEF Report
<1>9. TypeOK'
  BY <1>2, <1>4, <1>7, <1>8 DEF TypeOK, Report, MasterStates
<1>10. InOrder'
  BY DEF InOrder, Report
<1> QED BY <1>5, <1>6, <1>9, <1>10 DEF Lockstep

LEMMA SessionNext == TypeOK /\ Lockstep /\ [Next]_vars => TypeOK' /\ Lockstep'
<1> SUFFICES ASSUME TypeOK, Lockstep, [Next]_vars PROVE TypeOK' /\ Lockstep'
  OBVIOUS
<1>1. ASSUME NEW c \in Initiators, IniStep(c) \/ Kill(c) PROVE TypeOK' /\ Lockstep'
  BY <1>1, ConnectKeeps, AwaitOkKeeps, SendStringKeeps, ReceiveKeeps, AcknowledgeKeeps,
     LeavingKeeps DEF IniStep
<1>2. CASE MasterStep
  BY <1>2, AcceptKeeps, ReceiveCountKeeps, ReceiveStringKeeps, StartManagersKeeps,
     JoinManagersKeeps, ReportKeeps DEF MasterStep
<1>3. ASSUME NEW i \in DOMAIN mgr, ManagerStep(i) PROVE TypeOK' /\ Lockstep'
  BY <1>3, ManagersKeep
<1>4. CASE UNCHANGED vars
  <2>1. TypeOK'
    BY <1>4 DEF TypeOK
  <2>2. \A c \in Initiators : InStep(c)'
    BY <1>4, OthersInStep DEF Lockstep
  <2>3. InOrder'
    BY <1>4 DEF InOrder, Lockstep
  <2> QED BY <2>1, <2>2, <2>3 DEF Lockstep
<1> QED BY <1>1, <1>2, <1>3, <1>4 DEF Next

\* Every variable keeps its type, also when strings are longer than the buffer: each
\* manager that is started finds an address and a port among the strings received, though
\* they may be parts of others.
THEOREM TypeCorrect == Spec => []TypeOK
<1>1. Init => TypeOK /\ Lockstep
  BY SessionInit
<1>2. TypeOK /\ Lockstep /\ [Next]_vars => TypeOK' /\ Lockstep'
  BY SessionNext
<1> QED BY <1>1, <1>2, PTL DEF Spec

\* The strings of a request that all fit the server's buffer arrive whole and in their
\* places, for every number of Initiators and of strings, whatever the other requests are:
\* run waits for an "OK" before it sends the next, so that there is never more than one on
\* the connection.  A request with a longer string has no such guarantee.
THEOREM RequestIsRight == Spec => []RequestArrives
<1>1. Init => TypeOK /\ Lockstep
  BY SessionInit
<1>2. TypeOK /\ Lockstep /\ [Next]_vars => TypeOK' /\ Lockstep'
  BY SessionNext
<1>3. TypeOK /\ Lockstep => RequestArrives
  <2> SUFFICES ASSUME TypeOK, Lockstep, master \in {"strings", "join", "report"},
                      ini[client] # "gone", Short(client)
               PROVE  IsOf(client)
    BY DEF RequestArrives, IsOf
  <2>1. client \in Initiators
    BY DEF TypeOK
  <2>2. InStep(client)
    BY <2>1 DEF Lockstep
  <2> QED BY <2>2 DEF InStep, InTime, Sending
<1> QED BY <1>1, <1>2, <1>3, PTL DEF Spec

--------------------------------------------------------------------------------
(* The errors. *)

\* The managers that have told the Initiator, and those that wait for its "OK".
Notified == {i \in DOMAIN mgr : ~Reachable(i) /\ mgr[i] \in {"recv_ok", "exited"}}
Awaiting == {i \in DOMAIN mgr : mgr[i] = "recv_ok"}

\* On the way to c, or read and not looked at: errors and their ends in turn, the
\* last of them an end; before them may be the "OK" of the request.
Unread(c)  == Len(toClient[c]) - (IF ini[c] = "ok" THEN 1 ELSE 0)
Pending(c) == Len(resp[c]) + Unread(c)

Fits(unit, distance) ==
  IF distance % 2 = 0 THEN unit = End ELSE \E i \in Notified : unit = Err(Address(i))

Shaped(c) ==
  /\ ini[c] = "ok" => toClient[c] # <<>> /\ toClient[c][1] = OK /\ resp[c] = <<>>
  /\ \A k \in 1..Len(toClient[c]) :
       (ini[c] = "ok" /\ k = 1) \/ Fits(toClient[c][k], Len(toClient[c]) - k)
  /\ \A k \in 1..Len(resp[c]) : Fits(resp[c][k], Pending(c) - k)

\* The error of the i-th manager has been printed or will be read.
IsKept(c, i) ==
  \/ Address(i) \in printed[c]
  \/ \E k \in 1..Len(toClient[c]) : toClient[c][k] = Err(Address(i))
  \/ \E k \in 1..Len(resp[c]) : resp[c][k] = Err(Address(i))

\* Managers wait for at least as many "OK"s as there are or will be, and for more
\* of them if an error has been lost.
Owed(c) == (Pending(c) \div 2) + Len(toServer[c])

Balanced(c) ==
  /\ Cardinality(Awaiting) >= Owed(c)
  /\ Cardinality(Awaiting) > Owed(c) \/ \A i \in Notified : IsKept(c, i)

\* c is being served and its managers have been started.
Served(c) ==
  /\ ini[c] \in {"ok", "recv", "ack"}
  /\ \A k \in 1..Len(toServer[c]) : toServer[c][k] = OK
  /\ Shaped(c) /\ Balanced(c)
  /\ printed[c] \subseteq {Address(i) : i \in Notified}

Unreachable(c) == {Endpoint(s) : s \in ToSet(Request[c]) \ Running}

\* The report has been sent to c.
Closed(c) ==
  /\ printed[c] = Unreachable(c)
  /\ \A k \in 1..Len(toClient[c]) : toClient[c][k][1] # "ERR"
  /\ \A k \in 1..Len(resp[c]) : resp[c][k][1] # "ERR"

\* By the position of the Mirror Server in the request of c.
Answered(c) ==
  ini[c] # "gone" /\ Short(c) =>
    /\ (c \in accepted => c = client /\ master \in {"count", "strings"}) =>
         resp[c] = <<>> /\ printed[c] = {}
    /\ c = client /\ master \in {"join", "report"} => Served(c)
    /\ c \in accepted /\ c # client => Closed(c)

Refused ==
  \A i \in DOMAIN mgr :
    /\ mgr[i] = "list" => Reachable(i)
    /\ mgr[i] \in {"err", "recv_ok"} => ~Reachable(i)
    /\ master = "report" => mgr[i] = "exited"

Errors == Refused /\ \A c \in Initiators : Answered(c)

--------------------------------------------------------------------------------
(* What is unread, and who waits. *)

LEMMA AddressFixed ==
  ASSUME UNCHANGED received
  PROVE  \A j : Address(j)' = Address(j) /\ (Reachable(j)' <=> Reachable(j))
<1>1. \A j : Address(j)' = Address(j)
  BY DEF Address
<1> QED BY <1>1, Fixed DEF Reachable

LEMMA UnreachableFixed == \A c : Unreachable(c)' = Unreachable(c)
  BY DEF Unreachable, Endpoint, Pieces

LEMMA AwaitingType ==
  ASSUME TypeOK
  PROVE  IsFiniteSet(Awaiting) /\ Cardinality(Awaiting) \in Nat
<1>1. mgr \in Seq(ManagerStates)
  BY DEF TypeOK
<1>2. DOMAIN mgr = 1..Len(mgr) /\ Len(mgr) \in Nat
  BY <1>1
<1>3. IsFiniteSet(1..Len(mgr))
  BY <1>2, FS_Interval
<1>4. Awaiting \subseteq 1..Len(mgr)
  BY <1>2 DEF Awaiting
<1> QED BY <1>3, <1>4, FS_Subset, FS_CardinalityType

LEMMA PendingType ==
  ASSUME TypeOK, NEW c \in Initiators, ini[c] = "ok" => toClient[c] # <<>>
  PROVE  /\ Len(toClient[c]) \in Nat /\ Len(resp[c]) \in Nat /\ Len(toServer[c]) \in Nat
         /\ Unread(c) \in Nat /\ Pending(c) = Len(resp[c]) + Unread(c)
         /\ (ini[c] # "ok" => Unread(c) = Len(toClient[c]))
<1>1. toClient[c] \in Seq(ToClient) /\ resp[c] \in Seq(ToClient) /\ toServer[c] \in Seq(ToServer)
  BY DEF TypeOK
<1>2. /\ Len(toClient[c]) \in Nat /\ Len(resp[c]) \in Nat /\ Len(toServer[c]) \in Nat
      /\ (toClient[c] # <<>> => Len(toClient[c]) # 0)
  BY <1>1
<1>3. Unread(c) = IF ini[c] = "ok" THEN Len(toClient[c]) - 1 ELSE Len(toClient[c])
  BY <1>2 DEF Unread
<1>4. Unread(c) \in Nat
  BY <1>2, <1>3
<1>5. Pending(c) = Len(resp[c]) + Unread(c)
  BY DEF Pending
<1> QED BY <1>2, <1>3, <1>4, <1>5

\* How many errors there are among the L units read, when T are not: each of them
\* is at an odd distance from the end.
LEMMA ErrCounts ==
  ASSUME NEW T \in Nat, NEW L \in Nat
  PROVE  /\ \A d \in T..(T + L - 1) : d % 2 = 1 => (L + T) \div 2 >= (T \div 2) + 1
         /\ \A d, e \in T..(T + L - 1) :
              d % 2 = 1 /\ e % 2 = 1 /\ d < e => (L + T) \div 2 > (T \div 2) + 1
  OBVIOUS

LEMMA Halves ==
  /\ \A n \in Nat : n \div 2 \in Nat /\ (n + 2) \div 2 = (n \div 2) + 1
                    /\ (n + 2) % 2 = n % 2 /\ n % 2 \in {0, 1}
  /\ \A n \in Nat : n \div 2 = 0 => n \in {0, 1}
  OBVIOUS

\* A unit that fits is an end or the error of a manager, and never both.
LEMMA FitsIs ==
  ASSUME TypeOK, Lockstep, NEW unit, NEW distance \in Nat, Fits(unit, distance)
  PROVE  /\ unit = End \/ \E i \in Notified : unit = Err(Address(i))
         /\ unit # End => /\ distance % 2 = 1 /\ unit[1] = "ERR"
                          /\ unit[2] \in {Address(i) : i \in Notified}
<1>1. CASE distance % 2 = 0
  BY <1>1 DEF Fits
<1>2. CASE distance % 2 = 1
  <2>1. PICK i \in Notified : unit = Err(Address(i))
    BY <1>2 DEF Fits
  <2>2. unit[1] = "ERR" /\ unit[2] = Address(i)
    BY <2>1 DEF Err
  <2> QED BY <1>2, <2>1, <2>2
<1> QED BY <1>1, <1>2, Halves

--------------------------------------------------------------------------------
(* What each step does to the errors. *)

LEMMA ErrorsInit == Init => Errors
  BY InitiatorsAssumption DEF Init, Errors, Answered, Refused

\* What is answered to an Initiator that is not being served.
LEMMA IdleAnswered ==
  ASSUME NEW d \in Initiators, Answered(d), d # client, d # client',
         d \in accepted' <=> d \in accepted,
         ini'[d] = ini[d], resp'[d] = resp[d], printed'[d] = printed[d],
         toClient'[d] = toClient[d]
  PROVE  Answered(d)'
<1>1. Closed(d)' <=> Closed(d)
  BY UnreachableFixed DEF Closed
<1> QED BY <1>1, Fixed DEF Answered

\* What is answered to one that is, when nothing of it changes.
LEMMA ServedSame ==
  ASSUME NEW d \in Initiators, Notified' = Notified, Awaiting' = Awaiting, UNCHANGED received,
         ini'[d] = ini[d], resp'[d] = resp[d], printed'[d] = printed[d],
         toClient'[d] = toClient[d], toServer'[d] = toServer[d]
  PROVE  Served(d)' <=> Served(d)
<1>1. Pending(d)' = Pending(d)
  BY DEF Pending, Unread
<1>2. Shaped(d)' <=> Shaped(d)
  BY <1>1 DEF Shaped, Fits, Address
<1>3. Balanced(d)' <=> Balanced(d)
  BY <1>1 DEF Balanced, Owed, IsKept, Address
<1> QED BY <1>2, <1>3 DEF Served, Address

LEMMA OthersAnswered ==
  ASSUME NEW d \in Initiators, Answered(d),
         UNCHANGED <<accepted, client, master, mgr, received>>,
         ini'[d] = ini[d], resp'[d] = resp[d], printed'[d] = printed[d],
         toClient'[d] = toClient[d], toServer'[d] = toServer[d]
  PROVE  Answered(d)'
<1>1. Closed(d)' <=> Closed(d)
  BY UnreachableFixed DEF Closed
<1>2. Notified' = Notified /\ Awaiting' = Awaiting
  BY AddressFixed DEF Notified, Awaiting
<1>3. Served(d)' <=> Served(d)
  BY <1>2, ServedSame
<1> QED BY <1>1, <1>3, Fixed DEF Answered

LEMMA AcceptAnswers ==
  ASSUME TypeOK, Lockstep, Errors, Accept
  PROVE  Errors'
<1>1. PICK c \in Initiators \ accepted : client' = c /\ accepted' = accepted \cup {c}
  BY DEF Accept
<1>2. client = None
  BY DEF Accept, TypeOK
<1>3. Answered(c)'
  <2>1. Answered(c)
    BY <1>1 DEF Errors
  <2> QED BY <1>1, <2>1, Fixed DEF Answered, Accept
<1>4. ASSUME NEW d \in Initiators, d # c PROVE Answered(d)'
  <2>1. Answered(d) /\ d # client
    BY <1>2, InitiatorsAssumption DEF Errors
  <2> QED BY <1>1, <1>4, <2>1, IdleAnswered DEF Accept
<1>5. Refused'
  BY DEF Lockstep, InOrder, Refused, Accept
<1> QED BY <1>3, <1>4, <1>5 DEF Errors

LEMMA RequestAnswers ==
  ASSUME TypeOK, Lockstep, Errors, ReceiveCount \/ ReceiveString
  PROVE  Errors'
<1>1. /\ client \in Initiators /\ client' = client /\ mgr = <<>>
      /\ {master, master'} \subseteq {"count", "strings"}
  BY DEF ReceiveCount, ReceiveString, TypeOK, Lockstep, InOrder
<1>2. \E part \in Arriving(toServer[client], ini[client] \in Left, Buffer) : ServerReads(part)
  BY DEF ReceiveCount, ReceiveString
<1>3. \A d \in Initiators : d # client => toServer'[d] = toServer[d]
  <2>1. (ini[client] \in Left) \in BOOLEAN
    OBVIOUS
  <2> QED BY <1>1, <1>2, <2>1, ServerReadsEffect
<1>4. \A d \in Initiators : d # client => toClient'[d] = toClient[d]
  BY <1>1, UnitTypes, ServerSendsEffect DEF ReceiveCount, ReceiveString
<1>5. ASSUME NEW d \in Initiators, d # client PROVE Answered(d)'
  BY <1>1, <1>4, <1>5, IdleAnswered DEF Errors, ReceiveCount, ReceiveString
<1>6. Answered(client)'
  BY <1>1, Fixed DEF Errors, Answered, ReceiveCount, ReceiveString
<1>7. Refused'
  BY <1>1 DEF Refused, ReceiveCount, ReceiveString
<1> QED BY <1>1, <1>5, <1>6, <1>7 DEF Errors

LEMMA StartManagersAnswers ==
  ASSUME TypeOK, Lockstep, Errors, StartManagers
  PROVE  Errors'
<1>1. client \in Initiators /\ client \in accepted /\ client' = client /\ mgr = <<>>
  BY DEF StartManagers, TypeOK, Lockstep, InOrder
<1>2. \A i \in DOMAIN mgr' : mgr'[i] = "connect"
  BY DEF StartManagers
<1>3. Refused'
  BY <1>2 DEF Refused, StartManagers
<1>4. ASSUME NEW d \in Initiators, d # client PROVE Answered(d)'
  BY <1>1, <1>4, IdleAnswered DEF Errors, StartManagers
<1>5. ASSUME ini[client] # "gone", Short(client) PROVE Served(client)'
  <2>1. InTurn(client) /\ IsOf(client)
    BY <1>1, <1>5 DEF Lockstep, InStep, InTime, Sending, StartManagers
  <2>2. resp[client] = <<>> /\ printed[client] = {}
    BY <1>1, <1>5 DEF Errors, Answered, StartManagers
  <2>3. /\ Len(received) = Len(Strings(client)) /\ Len(Strings(client)) \in Nat
        /\ sent[client] \in Nat /\ sent[client] <= Len(Strings(client))
    BY <1>1, <2>1, StringsType DEF IsOf, StartManagers, TypeOK
  <2>4. ini[client] = "send" => sent[client] < Len(Strings(client))
    BY <1>1 DEF Lockstep, InStep
  <2>5. Len(received) = sent[client] /\ ini[client] # "send"
    BY <2>1, <2>3, <2>4 DEF InTurn
  <2>6. /\ toServer[client] = <<>> /\ ini[client] \in {"ok", "recv"}
        /\ toClient[client] = IF ini[client] = "ok" THEN <<OK>> ELSE <<>>
    BY <2>1, <2>3, <2>5 DEF InTurn
  <2>7. Notified' = {} /\ Awaiting' = {}
    BY <1>2 DEF Notified, Awaiting
  <2>8. Len(resp[client]) = 0 /\ Len(toServer[client]) = 0 /\ Unread(client) = 0
    BY <2>2, <2>6 DEF Unread
  <2>9. Pending(client)' = 0 /\ Owed(client)' = 0
    <3>1. Pending(client) = 0 /\ Owed(client) = 0
      BY <2>8 DEF Pending, Owed
    <3> QED BY <1>1, <3>1 DEF Pending, Unread, Owed, StartManagers
  <2>10. Shaped(client)'
    <3>1. CASE ini[client] = "ok"
      BY <1>1, <2>2, <2>6, <3>1 DEF Shaped, StartManagers
    <3>2. CASE ini[client] = "recv"
      BY <1>1, <2>2, <2>6, <3>2 DEF Shaped, StartManagers
    <3> QED BY <2>6, <3>1, <3>2
  <2>11. Cardinality(Awaiting') = 0
    BY <2>7, FS_EmptySet
  <2>12. Balanced(client)'
    BY <2>7, <2>9, <2>11 DEF Balanced
  <2> QED BY <1>1, <2>2, <2>6, <2>10, <2>12 DEF Served, StartManagers
<1>6. Answered(client)'
  BY <1>1, <1>5, Fixed DEF Answered, StartManagers
<1> QED BY <1>1, <1>3, <1>4, <1>6 DEF Errors

LEMMA JoinManagersAnswers ==
  ASSUME TypeOK, Lockstep, Errors, JoinManagers
  PROVE  Errors'
<1>1. client \in Initiators /\ client' = client
  BY DEF JoinManagers, TypeOK
<1>2. Refused'
  BY AddressFixed DEF Refused, Errors, JoinManagers
<1>3. ASSUME NEW d \in Initiators, d # client PROVE Answered(d)'
  BY <1>1, <1>3, IdleAnswered DEF Errors, JoinManagers
<1>4. Notified' = Notified /\ Awaiting' = Awaiting
  BY AddressFixed DEF JoinManagers, Notified, Awaiting
<1>5. Served(client)' <=> Served(client)
  BY <1>1, <1>4, ServedSame DEF JoinManagers
<1>6. Answered(client)'
  BY <1>1, <1>5, Fixed DEF Errors, Answered, JoinManagers
<1> QED BY <1>1, <1>2, <1>3, <1>6 DEF Errors

\* A step of the i-th manager, which the client sees if it is there.
LEMMA ManagerAnswers ==
  ASSUME TypeOK, Lockstep, Errors, NEW i \in DOMAIN mgr,
         NEW state, mgr' = [mgr EXCEPT ![i] = state],
         state = "list" => Reachable(i),
         state \in {"err", "recv_ok"} => ~Reachable(i),
         mgr[i] # "exited",
         UNCHANGED <<iniVars, accepted, master, client, vecs, received>>,
         \A d \in Initiators : d # client => toClient'[d] = toClient[d],
         ini[client] # "gone" /\ Served(client) => Served(client)'
  PROVE  Errors'
<1>1. master = "join" /\ client \in Initiators
  BY ManagerPlace DEF Errors, Refused
<1>2. \A j \in DOMAIN mgr : Reachable(j)' <=> Reachable(j)
  BY AddressFixed
<1>3. DOMAIN mgr' = DOMAIN mgr /\ \A j \in DOMAIN mgr : mgr'[j] = IF j = i THEN state ELSE mgr[j]
  OBVIOUS
<1>4. Refused'
  BY <1>1, <1>2, <1>3 DEF Errors, Refused
<1>5. ASSUME NEW d \in Initiators, d # client PROVE Answered(d)'
  BY <1>5, IdleAnswered DEF Errors
<1>6. Answered(client)'
  BY <1>1, Fixed DEF Errors, Answered
<1> QED BY <1>4, <1>5, <1>6 DEF Errors

LEMMA QuietAnswers ==
  ASSUME TypeOK, Lockstep, Errors, NEW i \in DOMAIN mgr, ManagerConnect(i) \/ List(i)
  PROVE  Errors'
<1>1. PICK state \in {"list", "err", "exited"} :
        /\ mgr' = [mgr EXCEPT ![i] = state]
        /\ state \in {"list", "exited"} => Reachable(i)
        /\ state = "err" => ~Reachable(i)
  <2>1. CASE ManagerConnect(i)
    BY <2>1 DEF ManagerConnect
  <2>2. CASE List(i)
    BY <2>2 DEF List, Errors, Refused
  <2> QED BY <2>1, <2>2
<1>2. mgr[i] \in {"connect", "list"}
  BY DEF ManagerConnect, List
<1>3. UNCHANGED <<iniVars, toServer, toClient, accepted, master, client, vecs, received>>
  BY DEF ManagerConnect, List
<1>4. DOMAIN mgr' = DOMAIN mgr /\ \A j \in DOMAIN mgr : mgr'[j] = IF j = i THEN state ELSE mgr[j]
  BY <1>1
<1>5. \A j \in DOMAIN mgr : Reachable(j)' <=> Reachable(j)
  BY <1>3, AddressFixed
<1>6. Notified' = Notified /\ Awaiting' = Awaiting
  BY <1>1, <1>2, <1>4, <1>5 DEF Notified, Awaiting
<1>7. client \in Initiators
  BY ManagerPlace
<1>8. Served(client)' <=> Served(client)
  BY <1>3, <1>6, <1>7, ServedSame
<1> QED BY <1>1, <1>2, <1>3, <1>8, ManagerAnswers

\* What is in a sequence is in one of the two that it is joined from.
LEMMA Joined ==
  ASSUME NEW S, NEW head \in Seq(S), NEW tail \in Seq(S)
  PROVE  \A k \in 1..Len(head \o tail) :
           \/ k \in 1..Len(head) /\ (head \o tail)[k] = head[k]
           \/ \E j \in 1..Len(tail) : (head \o tail)[k] = tail[j]
<1>1. Len(head \o tail) = Len(head) + Len(tail) /\ Len(head) \in Nat /\ Len(tail) \in Nat
  OBVIOUS
<1>2. ASSUME NEW k \in (Len(head) + 1)..Len(head \o tail)
      PROVE  k - Len(head) \in 1..Len(tail) /\ (head \o tail)[k] = tail[k - Len(head)]
  BY <1>1
<1>3. \A k \in 1..Len(head \o tail) : k \in 1..Len(head) \/ k \in (Len(head) + 1)..Len(head \o tail)
  BY <1>1
<1>4. \A k \in 1..Len(head) : (head \o tail)[k] = head[k]
  OBVIOUS
<1> QED BY <1>2, <1>3, <1>4

\* A stream with two more units.
LEMMA TwoMore ==
  ASSUME NEW S, NEW stream \in Seq(S), NEW u \in S, NEW v \in S
  PROVE  LET more == stream \o <<u, v>> IN
           /\ Len(more) = Len(stream) + 2
           /\ \A k \in 1..Len(stream) : more[k] = stream[k]
           /\ more[Len(stream) + 1] = u /\ more[Len(stream) + 2] = v
  OBVIOUS

LEMMA SendErrServed ==
  ASSUME TypeOK, Lockstep, Errors, NEW i \in DOMAIN mgr, SendErr(i), Served(client)
  PROVE  Served(client)'
<1>0. PICK c, before, after : c = client /\ before = toClient[client] /\ after = toClient'[client]
  OBVIOUS
<1>1. /\ c \in Initiators /\ Address(i) \in Couples /\ ~Reachable(i) /\ client' = c
      /\ mgr \in Seq(ManagerStates) /\ mgr[i] = "err"
  BY <1>0, ManagerPlace DEF SendErr, Errors, Refused
<1>2. before \in Seq(ToClient) /\ Err(Address(i)) \in ToClient /\ End \in ToClient
  BY <1>0, <1>1 DEF TypeOK, ToClient, Err
<1>3. after = before \o <<Err(Address(i)), End>>
  BY <1>0, <1>1, UnitTypes, ServerSendsEffect DEF SendErr, Served, Left
<1>4. /\ Len(after) = Len(before) + 2 /\ Len(before) \in Nat
      /\ \A k \in 1..Len(before) : after[k] = before[k]
      /\ after[Len(before) + 1] = Err(Address(i)) /\ after[Len(before) + 2] = End
  BY <1>0, <1>2, <1>3, TwoMore
<1>5. UNCHANGED <<iniVars, toServer, received>> /\ mgr' = [mgr EXCEPT ![i] = "recv_ok"]
  BY <1>0 DEF SendErr
<1>6. /\ DOMAIN mgr' = DOMAIN mgr
      /\ \A j \in DOMAIN mgr : mgr'[j] = IF j = i THEN "recv_ok" ELSE mgr[j]
  BY <1>0, <1>5
<1>7. \A j : (Reachable(j)' <=> Reachable(j)) /\ Address(j)' = Address(j)
  BY <1>5, AddressFixed
<1>8. Notified' = Notified \cup {i}
  BY <1>0, <1>1, <1>6, <1>7 DEF Notified
<1>9. Awaiting' = Awaiting \cup {i} /\ i \notin Awaiting
  BY <1>0, <1>1, <1>6 DEF Awaiting
<1>10. Cardinality(Awaiting') = Cardinality(Awaiting) + 1 /\ Cardinality(Awaiting) \in Nat
  BY <1>0, <1>9, AwaitingType, FS_AddElement
<1>11. ini[c] = "ok" => before # <<>> /\ Len(before) >= 1
  BY <1>0, <1>2 DEF Served, Shaped
<1>12. /\ Pending(c) \in Nat /\ Len(resp[c]) \in Nat /\ Len(toServer[c]) \in Nat
       /\ Pending(c) = Len(resp[c]) + Unread(c) /\ Unread(c) \in Nat
  BY <1>0, <1>1, <1>11, PendingType
<1>13. Unread(c)' = Unread(c) + 2
  BY <1>0, <1>1, <1>4, <1>5 DEF Unread
<1>14. Pending(c)' = Pending(c) + 2
  BY <1>0, <1>1, <1>5, <1>12, <1>13 DEF Pending
<1>15. Owed(c)' = Owed(c) + 1 /\ Owed(c) \in Nat
  <2>1. (Pending(c)') \div 2 = (Pending(c) \div 2) + 1 /\ Pending(c) \div 2 \in Nat
    BY <1>12, <1>14, Halves
  <2>2. Len(toServer[c])' = Len(toServer[c])
    BY <1>0, <1>1, <1>5
  <2>3. PICK h, g, n : h = Pending(c) \div 2 /\ g = Pending(c)' \div 2 /\ n = Len(toServer[c])
    OBVIOUS
  <2>4. h \in Nat /\ g = h + 1 /\ n \in Nat
    BY <1>12, <2>1, <2>3
  <2>5. Owed(c) = h + n /\ Owed(c)' = g + n
    BY <2>2, <2>3, Zenon DEF Owed
  <2> QED BY <2>4, <2>5
<1>16. \A unit : \A distance \in Nat :
         Fits(unit, distance) => Fits(unit, distance)' /\ Fits(unit, distance + 2)'
  <2>1. \A distance \in Nat : (distance + 2) % 2 = distance % 2
    BY Halves
  <2> QED BY <1>0, <1>5, <1>7, <1>8, <2>1 DEF Fits
<1>17. (\A unit : unit = Err(Address(i)) => Fits(unit, 1)') /\ Fits(End, 0)'
  <2>1. 1 % 2 # 0 /\ 0 % 2 = 0
    OBVIOUS
  <2> QED BY <1>0, <1>7, <1>8, <2>1 DEF Fits
<1>18. Shaped(c)'
  <2>1. ini[c] = "ok" => after # <<>> /\ after[1] = OK /\ resp[c] = <<>>
    <3>1. ASSUME ini[c] = "ok" PROVE before[1] = OK /\ resp[c] = <<>> /\ 1 \in 1..Len(before)
      <4>1. before[1] = OK /\ resp[c] = <<>>
        BY <1>0, <3>1 DEF Served, Shaped
      <4>2. 1 \in 1..Len(before)
        BY <1>4, <1>11, <3>1
      <4> QED BY <4>1, <4>2
    <3>2. Len(after) # 0
      BY <1>0, <1>4
    <3>3. after # <<>>
      BY <1>0, <3>2
    <3> QED BY <1>0, <1>4, <3>1, <3>3
  <2>2. ASSUME NEW k \in 1..Len(after), ~(ini[c] = "ok" /\ k = 1)
        PROVE  Fits(after[k], Len(after) - k)'
    <3>1. CASE k \in 1..Len(before)
      <4>1. Fits(before[k], Len(before) - k)
        BY <1>0, <2>2, <3>1 DEF Served, Shaped
      <4>2. Len(before) - k \in Nat /\ Len(after) - k = (Len(before) - k) + 2
        BY <1>0, <1>4, <3>1
      <4> QED BY <1>0, <1>4, <1>16, <3>1, <4>1, <4>2
    <3>2. CASE k = Len(before) + 1
      <4>1. Len(after) - k = 1 /\ after[k] = Err(Address(i))
        BY <1>0, <1>4, <3>2
      <4> QED BY <1>0, <1>7, <1>17, <4>1
    <3>3. CASE k = Len(before) + 2
      <4>1. Len(after) - k = 0 /\ after[k] = End
        BY <1>0, <1>4, <3>3
      <4> QED BY <1>0, <1>17, <4>1
    <3>4. k \in 1..Len(before) \/ k = Len(before) + 1 \/ k = Len(before) + 2
      BY <1>4
    <3> QED BY <3>1, <3>2, <3>3, <3>4
  <2>3. ASSUME NEW k \in 1..Len(resp[c]) PROVE Fits(resp[c][k], Pending(c) - k)'
    <3>1. Fits(resp[c][k], Pending(c) - k)
      BY <1>0 DEF Served, Shaped
    <3>2. Pending(c) - k \in Nat /\ Pending(c)' - k = (Pending(c) - k) + 2
      <4>1. k \in Nat /\ k <= Len(resp[c])
        BY <1>12
      <4>2. \A p, q, u \in Nat : k <= p /\ q = p + u =>
              q - k \in Nat /\ (q + 2) - k = (q - k) + 2
        BY <4>1
      <4> QED BY <1>12, <1>14, <4>1, <4>2
    <3> QED BY <1>0, <1>5, <1>16, <3>1, <3>2
  <2> QED BY <1>0, <1>1, <1>5, <2>1, <2>2, <2>3 DEF Shaped
<1>19. \A j \in Notified' : (j \in Notified => IsKept(c, j)) => IsKept(c, j)'
  <2>1. IsKept(c, i)'
    <3>1. Len(before) + 1 \in 1..Len(after)
      BY <1>0, <1>4
    <3> QED BY <1>0, <1>1, <1>4, <1>7, <3>1 DEF IsKept
  <2>2. ASSUME NEW j, IsKept(c, j) PROVE IsKept(c, j)'
    <3>1. \A k \in 1..Len(before) : k \in 1..Len(after)
      BY <1>0, <1>4
    <3> QED BY <1>0, <1>1, <1>4, <1>5, <1>7, <2>2, <3>1 DEF IsKept
  <2> QED BY <1>0, <1>8, <2>1, <2>2
<1>20. Balanced(c)'
  <2>1. /\ Cardinality(Awaiting') >= Owed(c)'
        /\ Cardinality(Awaiting) > Owed(c) => Cardinality(Awaiting') > Owed(c)'
    BY <1>0, <1>10, <1>15 DEF Served, Balanced
  <2>2. Cardinality(Awaiting') > Owed(c)' \/ \A j \in Notified' : IsKept(c, j)'
    BY <1>0, <1>19, <2>1 DEF Served, Balanced
  <2> QED BY <1>0, <2>1, <2>2 DEF Balanced
<1>21. printed'[c] \subseteq {Address(j)' : j \in Notified'}
  BY <1>0, <1>5, <1>7, <1>8 DEF Served
<1> QED BY <1>0, <1>1, <1>5, <1>18, <1>20, <1>21 DEF Served

LEMMA ManagerAwaitOkServed ==
  ASSUME TypeOK, Lockstep, Errors, NEW i \in DOMAIN mgr, ManagerAwaitOk(i), Served(client)
  PROVE  Served(client)'
<1>0. PICK c : c = client
  OBVIOUS
<1>1. /\ c \in Initiators /\ ~Reachable(i) /\ client' = c
      /\ mgr \in Seq(ManagerStates) /\ mgr[i] = "recv_ok"
  BY <1>0, ManagerPlace DEF ManagerAwaitOk, Errors, Refused
<1>2. UNCHANGED <<iniVars, toClient, received>> /\ mgr' = [mgr EXCEPT ![i] = "exited"]
  BY <1>0 DEF ManagerAwaitOk
<1>3. DOMAIN mgr' = DOMAIN mgr /\ \A j \in DOMAIN mgr : mgr'[j] = IF j = i THEN "exited" ELSE mgr[j]
  BY <1>0, <1>2
<1>4. \A j : (Reachable(j)' <=> Reachable(j)) /\ Address(j)' = Address(j)
  BY <1>2, AddressFixed
<1>5. Notified' = Notified
  BY <1>0, <1>1, <1>3, <1>4 DEF Notified
<1>6. Awaiting' = Awaiting \ {i} /\ i \in Awaiting
  BY <1>0, <1>1, <1>3 DEF Awaiting
<1>7. Cardinality(Awaiting') = Cardinality(Awaiting) - 1 /\ Cardinality(Awaiting) \in Nat
  BY <1>0, <1>6, AwaitingType, FS_RemoveElement
<1>8. /\ Pending(c) \in Nat /\ Len(resp[c]) \in Nat /\ Len(toServer[c]) \in Nat
      /\ toServer[c] \in Seq(ToServer)
  BY <1>0, <1>1, PendingType DEF Served, Shaped, TypeOK
<1>9. Pending(c)' = Pending(c) /\ Pending(c) \div 2 \in Nat
  BY <1>0, <1>2, <1>8, Halves DEF Pending, Unread
<1>10. toServer[c] # <<>> /\ toServer'[c] = Tail(toServer[c])
  <2>1. toServer[c] # <<>> /\ toServer'[c] \in AfterOk(toServer[c])
    BY <1>0, <1>1 DEF ManagerAwaitOk, Served, Left, TypeOK
  <2>2. Head(toServer[c]) = OK
    <3>1. 1 \in 1..Len(toServer[c]) /\ Head(toServer[c]) = toServer[c][1]
      BY <1>8, <2>1
    <3> QED BY <1>0, <3>1 DEF Served
  <2> QED BY <2>1, <2>2 DEF AfterOk
<1>17. \A k \in 1..Len(toServer'[c]) : toServer'[c][k] = OK
  <2>1. \A k \in 1..Len(toServer'[c]) :
          k + 1 \in 1..Len(toServer[c]) /\ toServer'[c][k] = toServer[c][k + 1]
    BY <1>8, <1>10
  <2> QED BY <1>0, <2>1 DEF Served
<1>11. Len(toServer'[c]) = Len(toServer[c]) - 1
  BY <1>0, <1>8, <1>10, SeqLengths
<1>12. Owed(c)' = Owed(c) - 1 /\ Owed(c) \in Int
  BY <1>0, <1>8, <1>9, <1>11 DEF Owed
<1>13. \A j : IsKept(c, j)' <=> IsKept(c, j)
  BY <1>0, <1>2, <1>4 DEF IsKept
<1>14. Balanced(c)'
  BY <1>0, <1>1, <1>5, <1>7, <1>12, <1>13 DEF Served, Balanced
<1>15. Shaped(c)'
  BY <1>0, <1>1, <1>2, <1>4, <1>5, <1>9 DEF Served, Shaped, Fits
<1>16. printed'[c] \subseteq {Address(j)' : j \in Notified'}
  BY <1>0, <1>1, <1>2, <1>4, <1>5 DEF Served
<1> QED BY <1>0, <1>1, <1>2, <1>14, <1>15, <1>16, <1>17 DEF Served

LEMMA ManagersAnswer ==
  ASSUME TypeOK, Lockstep, Errors, NEW i \in DOMAIN mgr, ManagerStep(i)
  PROVE  Errors'
<1>1. client \in Initiators /\ Address(i) \in Couples
  BY ManagerPlace
<1>2. CASE SendErr(i)
  <2>1. mgr[i] = "err" /\ ~Reachable(i)
    BY <1>2 DEF SendErr, Errors, Refused
  <2>2. \A d \in Initiators : d # client => toClient'[d] = toClient[d]
    BY <1>1, <1>2, UnitTypes, ServerSendsEffect DEF SendErr
  <2> QED BY <1>2, <2>1, <2>2, SendErrServed, ManagerAnswers DEF SendErr
<1>3. CASE ManagerAwaitOk(i)
  <2>1. mgr[i] = "recv_ok" /\ mgr' = [mgr EXCEPT ![i] = "exited"]
    BY <1>3 DEF ManagerAwaitOk
  <2> QED BY <1>3, <2>1, ManagerAwaitOkServed, ManagerAnswers DEF ManagerAwaitOk
<1> QED BY <1>2, <1>3, QuietAnswers DEF ManagerStep

LEMMA Quotient ==
  ASSUME NEW d \in Nat \ {0}, NEW m \in Nat, NEW r \in 0..(d - 1), NEW n, n = d * m + r
  PROVE  n \div d = m /\ n % d = r
  OBVIOUS

\* The first two strings of a content server are its address and its port.
LEMMA Addresses ==
  ASSUME TypeOK, Lockstep, NEW c \in Initiators, c = client, Short(c),
         master \in {"join", "report"}, ini[c] # "gone"
  PROVE  /\ DOMAIN mgr = 1..Len(Request[c])
         /\ \A i \in DOMAIN mgr : Address(i) = Endpoint(Request[c][i])
<1>1. IsOf(c) /\ Len(mgr) = vecs /\ mgr \in Seq(ManagerStates) /\ received \in Seq(Parts)
  BY DEF Lockstep, InOrder, InStep, InTime, TypeOK
<1>2. DOMAIN mgr = 1..Len(Request[c])
  BY <1>1 DEF IsOf
<1>3. ASSUME NEW i \in DOMAIN mgr, NEW j \in 1..2
      PROVE  received[Details * (i - 1) + j] = Pieces(<<Request[c][i], j>>)
  <2> DEFINE k == Details * (i - 1) + j
  <2>1. k \in DOMAIN received
    BY ManagerPlace
  <2>2. received[k] = Pieces(Strings(c)[k])
    BY <1>1, <2>1 DEF IsOf
  <2>3. i \in Nat \ {0} /\ i \in 1..Len(Request[c]) /\ Len(Request[c]) \in Nat
    BY <1>2, StringsType
  <2>4. (k - 1) \div Details = i - 1 /\ (k - 1) % Details = j - 1
    <3>2. i - 1 \in Nat /\ j - 1 \in 0..(Details - 1) /\ Details \in Nat \ {0}
      BY <2>3, DetailsAssumption
    <3>3. k - 1 = Details * (i - 1) + (j - 1)
      <4>1. Details * (i - 1) \in Nat
        BY <3>2
      <4> QED BY <4>1
    <3> HIDE DEF k
    <3>4. PICK m, r, n : m = i - 1 /\ r = j - 1 /\ n = k - 1
      OBVIOUS
    <3>5. m \in Nat /\ r \in 0..(Details - 1) /\ n = Details * m + r
      BY <3>2, <3>3, <3>4
    <3>6. n \div Details = m /\ n % Details = r
      BY <3>2, <3>5, Quotient
    <3> QED BY <3>4, <3>6
  <2>5. k \in 1..(Details * Len(Request[c]))
    BY <1>1, <2>1, ManagerPlace DEF IsOf
  <2>6. Strings(c)[k] = <<Request[c][((k - 1) \div Details) + 1], ((k - 1) % Details) + 1>>
    BY <2>5 DEF Strings
  <2>7. ((k - 1) \div Details) + 1 = i /\ ((k - 1) % Details) + 1 = j
    BY <2>3, <2>4
  <2> QED BY <2>2, <2>6, <2>7
<1>4. \A i \in DOMAIN mgr : Address(i) = Endpoint(Request[c][i])
  BY <1>3 DEF Address, Endpoint
<1> QED BY <1>2, <1>4

\* The strings of a content server that runs are not those of another.
LEMMA Endpoints ==
  ASSUME NEW s, NEW r \in Running, Endpoint(s) = Endpoint(r)
  PROVE  s = r
<1>1. Length[<<r, 1>>] = 1
  BY LengthAssumption
<1>2. Pieces(<<r, 1>>) = <<<<r, 1, 1>>>>
  BY <1>1 DEF Pieces
<1>3. Pieces(<<s, 1>>) = Pieces(<<r, 1>>)
  <2>1. Endpoint(s)[1] = Endpoint(r)[1]
    OBVIOUS
  <2> QED BY <2>1 DEF Endpoint
<1>4. DOMAIN Pieces(<<s, 1>>) = 1..1 /\ Pieces(<<s, 1>>)[1] = <<r, 1, 1>>
  BY <1>2, <1>3
<1>5. DOMAIN Pieces(<<s, 1>>) = 1..Length[<<s, 1>>]
  BY DEF Pieces
<1>6. Pieces(<<s, 1>>)[1] = <<s, 1, 1>>
  BY <1>4, <1>5 DEF Pieces
<1> QED BY <1>4, <1>6

\* When every manager has exited, nobody waits: every error has been printed.
LEMMA AllPrinted ==
  ASSUME TypeOK, Lockstep, Errors, NEW c \in Initiators, c = client, Short(c),
         master = "report", ini[c] # "gone"
  PROVE  /\ printed[c] = Unreachable(c)
         /\ \A k \in 1..Len(toClient[c]) : toClient[c][k] \in {OK, End}
         /\ \A k \in 1..Len(resp[c]) : resp[c][k] = End
<1>1. Served(c) /\ \A i \in DOMAIN mgr : mgr[i] = "exited"
  BY DEF Errors, Answered, Refused
<1>2. /\ Pending(c) \in Nat /\ Len(resp[c]) \in Nat /\ Len(toServer[c]) \in Nat
      /\ Len(toClient[c]) \in Nat /\ Pending(c) = Len(resp[c]) + Unread(c) /\ Unread(c) \in Nat
  BY <1>1, PendingType DEF Served, Shaped
<1>3. Cardinality(Awaiting) = 0
  <2>1. Awaiting = {}
    BY <1>1 DEF Awaiting
  <2> QED BY <2>1, FS_EmptySet
<1>4. Pending(c) \in {0, 1} /\ \A i \in Notified : IsKept(c, i)
  <2>1. Pending(c) \div 2 \in Nat
    BY <1>2, Halves
  <2>2. Owed(c) = (Pending(c) \div 2) + Len(toServer[c]) /\ Owed(c) <= 0
        /\ (Owed(c) < 0 \/ \A i \in Notified : IsKept(c, i))
    BY <1>1, <1>2, <1>3, <2>1 DEF Owed, Served, Balanced
  <2>3. Pending(c) \div 2 = 0 /\ ~(Owed(c) < 0)
    BY <1>2, <2>1, <2>2
  <2> QED BY <1>2, <2>2, <2>3, Halves
<1>5. \A unit : Fits(unit, 0) => unit = End
  <2>1. 0 % 2 = 0
    OBVIOUS
  <2> QED BY <2>1 DEF Fits
<1>6. \A k \in 1..Len(toClient[c]) : toClient[c][k] \in {OK, End}
  <2> SUFFICES ASSUME NEW k \in 1..Len(toClient[c]), ~(ini[c] = "ok" /\ k = 1)
               PROVE  toClient[c][k] = End
    BY <1>1 DEF Served, Shaped
  <2>1. Fits(toClient[c][k], Len(toClient[c]) - k)
    BY <1>1 DEF Served, Shaped
  <2>2. Len(toClient[c]) - k = 0
    <3>1. Unread(c) <= 1
      BY <1>2, <1>4
    <3>2. CASE ini[c] = "ok"
      BY <1>2, <3>1, <3>2 DEF Unread
    <3>3. CASE ini[c] # "ok"
      BY <1>2, <3>1, <3>3 DEF Unread
    <3> QED BY <3>2, <3>3
  <2> QED BY <1>5, <2>1, <2>2
<1>7. ASSUME NEW k \in 1..Len(resp[c]) PROVE resp[c][k] = End
  <2>1. Fits(resp[c][k], Pending(c) - k)
    BY <1>1 DEF Served, Shaped
  <2>2. Pending(c) - k = 0
    BY <1>2, <1>4
  <2> QED BY <1>5, <2>1, <2>2
<1>8. \A i \in Notified : Address(i) \in printed[c]
  <2>1. \A a : Err(a) # OK /\ Err(a) # End
    BY DEF Err, OK, End
  <2> QED BY <1>4, <1>6, <1>7, <2>1 DEF IsKept
<1>9. Notified = {i \in DOMAIN mgr : ~Reachable(i)}
  BY <1>1 DEF Notified
<1>10. printed[c] = {Address(i) : i \in Notified}
  BY <1>1, <1>8 DEF Served
<1>11. /\ DOMAIN mgr = 1..Len(Request[c])
       /\ \A i \in DOMAIN mgr : Address(i) = Endpoint(Request[c][i])
  BY Addresses
<1>12. \A i \in DOMAIN mgr : Reachable(i) <=> Request[c][i] \in Running
  BY <1>11, Endpoints DEF Reachable
<1>13. DOMAIN Request[c] = DOMAIN mgr
  BY <1>11, RequestAssumption
<1>14. ToSet(Request[c]) = {Request[c][i] : i \in DOMAIN mgr}
  BY <1>13 DEF ToSet
<1>15. {Address(i) : i \in Notified} = Unreachable(c)
  <2>1. ASSUME NEW i \in Notified PROVE Address(i) \in Unreachable(c)
    BY <1>9, <1>11, <1>12, <1>14 DEF Unreachable
  <2>2. ASSUME NEW s \in ToSet(Request[c]) \ Running
        PROVE  \E i \in Notified : Address(i) = Endpoint(s)
    <3>1. PICK i \in DOMAIN mgr : s = Request[c][i]
      BY <1>14
    <3> QED BY <1>9, <1>11, <1>12, <3>1
  <2>3. \A a \in Unreachable(c) : \E i \in Notified : a = Address(i)
    BY <2>2 DEF Unreachable
  <2> QED BY <2>1, <2>3
<1> QED BY <1>6, <1>7, <1>10, <1>15

LEMMA ReportAnswers ==
  ASSUME TypeOK, Lockstep, Errors, Report
  PROVE  Errors'
<1>1. client \in Initiators /\ client \in accepted /\ client' \notin Initiators
  BY InitiatorsAssumption DEF Report, TypeOK, Lockstep, InOrder
<1>2. \A d \in Initiators : d # client => toClient'[d] = toClient[d]
  BY <1>1, UnitTypes, ServerSendsEffect DEF Report
<1>3. ASSUME NEW d \in Initiators, d # client PROVE Answered(d)'
  BY <1>1, <1>2, <1>3, IdleAnswered DEF Errors, Report
<1>4. ASSUME NEW c \in Initiators, c = client, Short(c), ini[c] # "gone" PROVE Closed(c)'
  <2>1. /\ printed[c] = Unreachable(c)
        /\ \A k \in 1..Len(toClient[c]) : toClient[c][k] \in {OK, End}
        /\ \A k \in 1..Len(resp[c]) : resp[c][k] = End
    BY <1>4, AllPrinted DEF Report
  <2>2. ini[c] \notin Left /\ toClient[c] \in Seq(ToClient) /\ {Stats, End} \subseteq ToClient
    BY <1>4 DEF Errors, Answered, Served, Report, TypeOK, Left, ToClient
  <2>3. toClient'[c] = toClient[c] \o <<Stats, End>>
    BY <1>1, <1>4, <2>2, UnitTypes, ServerSendsEffect DEF Report
  <2>4. \A k \in 1..Len(toClient'[c]) : toClient'[c][k] \in {OK, Stats, End}
    BY <2>1, <2>2, <2>3, TwoMore
  <2>5. \A u \in {OK, Stats, End} : u[1] # "ERR"
    <3>1. OK[1] = "OK" /\ Stats[1] = "stats" /\ End[1] = ";"
      BY DEF OK, Stats, End
    <3>2. "OK" # "ERR" /\ "stats" # "ERR" /\ ";" # "ERR"
      OBVIOUS
    <3> QED BY <3>1, <3>2
  <2>6. \A k \in 1..Len(toClient'[c]) : toClient'[c][k][1] # "ERR"
    BY <2>4, <2>5
  <2>7. \A k \in 1..Len(resp[c]) : resp[c][k][1] # "ERR"
    BY <2>1, <2>5
  <2> QED BY <2>1, <2>6, <2>7, UnreachableFixed DEF Closed, Report
<1>5. ASSUME NEW c \in Initiators, c = client PROVE Answered(c)'
  BY <1>1, <1>4, <1>5, Fixed DEF Answered, Report
<1>6. Refused'
  BY DEF Refused, Report
<1> QED BY <1>3, <1>5, <1>6 DEF Errors

\* The steps of the Initiator, while it is served and after the report.
LEMMA AwaitOkServed ==
  ASSUME TypeOK, NEW c \in Initiators, AwaitOk(c), Served(c), sent[c] = Len(Strings(c))
  PROVE  Served(c)'
<1>0. PICK before, after : before = toClient[c] /\ after = toClient'[c]
  OBVIOUS
<1>1. before \in Seq(ToClient) /\ before # <<>> /\ after = Tail(before)
  BY <1>0 DEF AwaitOk, TypeOK
<1>2. /\ Len(before) \in Nat /\ Len(before) >= 1 /\ Len(after) = Len(before) - 1
      /\ \A k \in 1..Len(after) : after[k] = before[k + 1] /\ k + 1 \in 1..Len(before) /\ k + 1 # 1
      /\ \A k \in 1..Len(before) : k = 1 \/ k - 1 \in 1..Len(after)
  BY <1>0, <1>1
<1>3. Len(Strings(c)) \in Nat
  BY StringsType
<1>4. ini[c] = "ok" /\ ini'[c] = "recv"
  BY <1>0, <1>3 DEF AwaitOk, TypeOK
<1>5. UNCHANGED <<resp, printed, toServer, mgr, received>>
  BY <1>0 DEF AwaitOk
<1>6. Notified' = Notified /\ Awaiting' = Awaiting /\ \A j : Address(j)' = Address(j)
  BY <1>5, AddressFixed DEF Notified, Awaiting
<1>7. Pending(c)' = Pending(c)
  <2>1. Unread(c)' = Len(after)
    BY <1>0, <1>2, <1>4 DEF Unread
  <2>2. Unread(c) = Len(before) - 1
    BY <1>0, <1>4 DEF Unread
  <2> QED BY <1>0, <1>2, <1>5, <2>1, <2>2 DEF Pending
<1>8. \A unit : \A distance : Fits(unit, distance) => Fits(unit, distance)'
  BY <1>0, <1>6 DEF Fits
<1>9. Shaped(c)'
  <2>1. resp[c] = <<>> /\ Len(resp[c]) = 0
    BY <1>0, <1>4 DEF Served, Shaped
  <2>2. ASSUME NEW k \in 1..Len(after) PROVE Fits(after[k], Len(after) - k)'
    <3>1. Fits(before[k + 1], Len(before) - (k + 1))
      BY <1>0, <1>2 DEF Served, Shaped
    <3>2. Len(after) - k = Len(before) - (k + 1) /\ after[k] = before[k + 1]
      BY <1>0, <1>2
    <3> QED BY <1>0, <1>8, <3>1, <3>2
  <2> QED BY <1>0, <1>4, <1>5, <2>1, <2>2 DEF Shaped
<1>10. ASSUME NEW j, IsKept(c, j) PROVE IsKept(c, j)'
  <2>1. OK # Err(Address(j))
    BY <1>0 DEF OK, Err
  <2>2. CASE \E k \in 1..Len(before) : before[k] = Err(Address(j))
    <3>1. PICK k \in 1..Len(before) : before[k] = Err(Address(j))
      BY <1>0, <2>2
    <3>2. k # 1
      BY <1>0, <1>4, <2>1, <3>1 DEF Served, Shaped
    <3>3. k - 1 \in 1..Len(after) /\ after[k - 1] = before[k]
      BY <1>0, <1>2, <3>2
    <3> QED BY <1>0, <1>6, <3>1, <3>3 DEF IsKept
  <2>3. CASE ~\E k \in 1..Len(before) : before[k] = Err(Address(j))
    BY <1>0, <1>5, <1>6, <1>10, <2>3 DEF IsKept
  <2> QED BY <1>0, <2>2, <2>3
<1>11. Balanced(c)'
  BY <1>0, <1>5, <1>6, <1>7, <1>10 DEF Served, Balanced, Owed
<1> QED BY <1>0, <1>4, <1>5, <1>6, <1>9, <1>11 DEF Served

\* What an Initiator has read moves from the stream to its response.
LEMMA ReceiveMoves ==
  ASSUME TypeOK, NEW c \in Initiators, Receive(c)
  PROVE  \E part \in Seq(ToClient) :
           /\ Len(part) \in 0..Len(toClient[c])
           /\ \A k \in 1..Len(part) : part[k] = toClient[c][k]
           /\ resp'[c] = resp[c] \o part
           /\ toClient'[c] \in Seq(ToClient)
           /\ Len(toClient'[c]) = Len(toClient[c]) - Len(part)
           /\ \A k \in 1..Len(toClient'[c]) : toClient'[c][k] = toClient[c][Len(part) + k]
           /\ ini'[c] \in {"ack", "recv", "gone"} /\ (c = client => ini'[c] # "gone")
<1> DEFINE stream == toClient[c]
           rest(part) == Without(stream, part)
           IsPart(part) ==
             /\ part \in Seq(ToClient) /\ rest(part) \in Seq(ToClient)
             /\ Len(part) \in 0..Len(stream)
             /\ \A k \in 1..Len(part) : part[k] = stream[k]
             /\ Len(rest(part)) = Len(stream) - Len(part)
             /\ \A k \in 1..Len(rest(part)) : rest(part)[k] = stream[Len(part) + k]
           Moves(part) ==
             /\ toClient' = [toClient EXCEPT ![c] = Without(@, part)]
             /\ resp' = [resp EXCEPT ![c] = @ \o part]
             /\ ini' = [ini EXCEPT ![c] = IF part = <<>> THEN "gone"
                                          ELSE IF Contains(resp'[c], End) THEN "ack" ELSE "recv"]
<1>1. \E part \in Arriving(stream, c \in accepted \ {client}, Len(stream)) : Moves(part)
  BY DEF Receive
<1>2. stream \in Seq(ToClient)
  BY DEF TypeOK
<1>3. PICK part : Moves(part) /\ (c = client => part # <<>>)
                  /\ \/ part = <<>> /\ stream = <<>>
                     \/ \E k \in 1..Len(stream) : part = SubSeq(stream, 1, k)
  <2>1. PICK part \in Arriving(stream, c \in accepted \ {client}, Len(stream)) : Moves(part)
    BY <1>1
  <2>2. CASE stream = <<>>
    <3>1. part = <<>> /\ c # client
      BY <2>1, <2>2 DEF Arriving
    <3> QED BY <2>1, <2>2, <3>1
  <2>3. CASE stream # <<>>
    <3>1. PICK k \in 1..Len(stream) : part = SubSeq(stream, 1, k)
      BY <2>1, <2>3 DEF Arriving
    <3>2. part # <<>>
      BY <1>2, <3>1
    <3> QED BY <2>1, <3>1, <3>2
  <2> QED BY <2>2, <2>3
<1>4. IsPart(part)
  <2>1. CASE part = <<>> /\ stream = <<>>
    <3>1. rest(part) = <<>> /\ Len(part) = 0 /\ Len(stream) = 0 /\ Len(rest(part)) = 0
      BY <2>1 DEF Without
    <3>2. part \in Seq(ToClient) /\ rest(part) \in Seq(ToClient)
      BY <2>1, <3>1, EmptySeqType
    <3> QED BY <3>1, <3>2
  <2>2. ASSUME NEW k \in 1..Len(stream), part = SubSeq(stream, 1, k) PROVE IsPart(part)
    BY <1>2, <2>2 DEF Without
  <2> QED BY <1>3, <2>1, <2>2
<1>5. /\ toClient'[c] = rest(part) /\ resp'[c] = resp[c] \o part
      /\ ini'[c] = IF part = <<>> THEN "gone" ELSE IF Contains(resp'[c], End) THEN "ack" ELSE "recv"
  BY <1>3 DEF TypeOK
<1> HIDE DEF rest, Moves
<1>6. ini'[c] \in {"ack", "recv", "gone"} /\ (c = client => ini'[c] # "gone")
  BY <1>3, <1>5
<1> QED BY <1>4, <1>5, <1>6

LEMMA ReceiveServed ==
  ASSUME TypeOK, NEW c \in Initiators, Receive(c), Served(c), c = client
  PROVE  Served(c)'
<1>0. PICK before, after, had, has :
      before = toClient[c] /\ after = toClient'[c] /\ had = resp[c] /\ has = resp'[c]
  OBVIOUS
<1>1. PICK part \in Seq(ToClient) :
        /\ Len(part) \in 0..Len(before)
        /\ \A k \in 1..Len(part) : part[k] = before[k]
        /\ has = had \o part
        /\ after \in Seq(ToClient) /\ Len(after) = Len(before) - Len(part)
        /\ \A k \in 1..Len(after) : after[k] = before[Len(part) + k]
        /\ ini'[c] \in {"ack", "recv"}
  BY <1>0, ReceiveMoves
<1>2. before \in Seq(ToClient) /\ had \in Seq(ToClient) /\ ini[c] = "recv"
  BY <1>0 DEF TypeOK, Receive
<1>5. /\ Len(had) \in Nat /\ Len(before) \in Nat /\ Len(part) \in Nat
      /\ Len(has) = Len(had) + Len(part)
      /\ \A k \in 1..Len(had) : has[k] = had[k]
      /\ \A k \in 1..Len(part) : has[Len(had) + k] = before[k]
  BY <1>1, <1>2
<1>7. UNCHANGED <<printed, toServer, mgr, received>>
  BY DEF Receive
<1>8. Notified' = Notified /\ Awaiting' = Awaiting /\ \A j : Address(j)' = Address(j)
  BY <1>7, AddressFixed DEF Notified, Awaiting
<1>9. Pending(c) = Len(had) + Len(before) /\ Pending(c)' = Len(has) + Len(after)
  <2>1. Len(after) \in Nat /\ Len(before) \in Nat
    BY <1>1, <1>2
  <2>2. Unread(c) = Len(before)
    BY <1>0, <1>2, <2>1 DEF Unread
  <2>3. ini'[c] # "ok"
    BY <1>1
  <2>4. Unread(c)' = Len(after)
    BY <1>0, <2>1, <2>3 DEF Unread
  <2> QED BY <1>0, <2>2, <2>4 DEF Pending
<1>10. Pending(c)' = Pending(c)
  <2>1. Len(after) = Len(before) - Len(part) /\ Len(has) = Len(had) + Len(part)
    BY <1>1, <1>5
  <2>2. Len(before) \in Nat /\ Len(part) \in Nat /\ Len(had) \in Nat
    BY <1>5
  <2>3. Len(has) + Len(after) = Len(had) + Len(before)
    BY <2>1, <2>2
  <2> QED BY <1>9, <2>3
<1>11. \A unit : \A distance : Fits(unit, distance) => Fits(unit, distance)'
  BY <1>8 DEF Fits
<1>12. \A k \in 1..Len(before) : Fits(before[k], Len(before) - k)
  BY <1>0, <1>2 DEF Served, Shaped
<1>13. ASSUME NEW k \in 1..Len(after) PROVE Fits(after[k], Len(after) - k)'
  <2>1. Len(part) + k \in 1..Len(before) /\ Len(after) - k = Len(before) - (Len(part) + k)
    BY <1>1, <1>5
  <2> QED BY <1>1, <1>11, <1>12, <2>1
<1>14. ASSUME NEW k \in 1..Len(has)
       PROVE  \A distance : distance = Pending(c) - k => Fits(has[k], distance)'
  <2>1. CASE k \in 1..Len(had)
    <3>1. Fits(had[k], Pending(c) - k)
      BY <1>0, <2>1 DEF Served, Shaped
    <3> QED BY <1>5, <1>11, <2>1, <3>1
  <2>2. CASE k \in (Len(had) + 1)..Len(has)
    <3>1. /\ k - Len(had) \in 1..Len(part) /\ k - Len(had) \in 1..Len(before)
          /\ Len(had) + (k - Len(had)) = k
      BY <1>1, <1>5, <2>2
    <3>2. has[k] = before[k - Len(had)]
      BY <1>5, <3>1
    <3>3. Pending(c) - k = Len(before) - (k - Len(had))
      <4>1. Len(before) \in Nat /\ Len(had) \in Nat /\ k \in Nat
        BY <1>5
      <4>2. (Len(had) + Len(before)) - k = Len(before) - (k - Len(had))
        BY <4>1
      <4> QED BY <1>9, <4>2
    <3> QED BY <1>11, <1>12, <3>1, <3>2, <3>3
  <2> QED BY <1>5, <2>1, <2>2
<1>15. Shaped(c)'
  BY <1>0, <1>1, <1>10, <1>13, <1>14 DEF Shaped
<1>16. ASSUME NEW j, IsKept(c, j) PROVE IsKept(c, j)'
  <2>1. CASE \E k \in 1..Len(before) : before[k] = Err(Address(j))
    <3>1. PICK k \in 1..Len(before) : before[k] = Err(Address(j))
      BY <2>1
    <3>2. CASE k \in 1..Len(part)
      <4>1. Len(had) + k \in 1..Len(has) /\ has[Len(had) + k] = before[k]
        BY <1>1, <1>5, <3>2
      <4> QED BY <1>0, <1>8, <3>1, <4>1 DEF IsKept
    <3>3. CASE k \notin 1..Len(part)
      <4>1. k - Len(part) \in 1..Len(after) /\ Len(part) + (k - Len(part)) = k
        BY <1>1, <1>5, <3>3
      <4>2. after[k - Len(part)] = before[k]
        BY <1>1, <4>1
      <4> QED BY <1>0, <1>8, <3>1, <4>1, <4>2 DEF IsKept
    <3> QED BY <3>2, <3>3
  <2>2. CASE \E k \in 1..Len(had) : had[k] = Err(Address(j))
    <3>1. \A k \in 1..Len(had) : k \in 1..Len(has)
      BY <1>1, <1>5
    <3> QED BY <1>0, <1>5, <1>8, <2>2, <3>1 DEF IsKept
  <2>3. CASE Address(j) \in printed[c]
    BY <1>0, <1>7, <1>8, <2>3 DEF IsKept
  <2> QED BY <1>0, <1>16, <2>1, <2>2, <2>3 DEF IsKept
<1>17. Balanced(c)'
  BY <1>7, <1>8, <1>10, <1>16 DEF Served, Balanced, Owed
<1> QED BY <1>1, <1>7, <1>8, <1>15, <1>17 DEF Served

\* One "OK" for a response with several errors leaves a manager waiting for each of
\* those that are lost.
LEMMA AcknowledgeServed ==
  ASSUME TypeOK, Lockstep, NEW c \in Initiators, Acknowledge(c), Served(c), ini'[c] # "gone"
  PROVE  Served(c)'
<1>0. PICK word, T, L : word = FirstWord(resp[c]) /\ T = Len(toClient[c]) /\ L = Len(resp[c])
  OBVIOUS
<1>1. ini[c] = "ack" /\ resp[c] \in Seq(ToClient) /\ resp'[c] = <<>>
  BY DEF Acknowledge, TypeOK
<1>2. T \in Nat /\ L \in Nat /\ Len(toServer[c]) \in Nat /\ Pending(c) = L + T
  BY <1>0, <1>1, PendingType
<1>3. \A k \in 1..L : Fits(resp[c][k], (L + T) - k) /\ (L + T) - k \in T..(T + L - 1)
  <2>1. \A k \in 1..L : Fits(resp[c][k], (L + T) - k)
    BY <1>0, <1>2 DEF Served, Shaped
  <2>2. \A k \in 1..L : (L + T) - k \in T..(T + L - 1)
    BY <1>2
  <2> QED BY <2>1, <2>2
<1>4. \A k \in 1..L : resp[c][k] # End =>
        /\ ((L + T) - k) % 2 = 1 /\ resp[c][k][1] = "ERR"
        /\ resp[c][k][2] \in {Address(i) : i \in Notified}
  <2> SUFFICES ASSUME NEW k \in 1..L, resp[c][k] # End
               PROVE  /\ ((L + T) - k) % 2 = 1 /\ resp[c][k][1] = "ERR"
                      /\ resp[c][k][2] \in {Address(i) : i \in Notified}
    OBVIOUS
  <2>1. (L + T) - k \in Nat
    BY <1>2
  <2> QED BY <1>3, <2>1, FitsIs
<1>5. PICK first \in 1..L : word = resp[c][first] /\ word # End
  <2>1. End[1] # "ERR"
    BY DEF End
  <2>2. word # End
    <3>1. ASSUME word = End PROVE ini' = [ini EXCEPT ![c] = "gone"]
      BY <1>0, <2>1, <3>1 DEF Acknowledge
    <3>2. ini \in [Initiators -> IniStates]
      BY DEF TypeOK
    <3> QED BY <3>1, <3>2
  <2> QED BY <1>0, <1>1, <2>2, FirstWordIs
<1>6. word[1] = "ERR" /\ word[2] \in {Address(i) : i \in Notified} /\ ((L + T) - first) % 2 = 1
  BY <1>4, <1>5
<1>7. ini' = [ini EXCEPT ![c] = "recv"] /\ printed' = [printed EXCEPT ![c] = @ \cup {word[2]}]
  BY <1>0, <1>6 DEF Acknowledge
<1>8. ini'[c] = "recv" /\ printed'[c] = printed[c] \cup {word[2]}
  BY <1>7 DEF TypeOK
<1>9. UNCHANGED <<toClient, mgr, received>>
  BY DEF Acknowledge
<1>10. Notified' = Notified /\ Awaiting' = Awaiting /\ \A j : Address(j)' = Address(j)
  BY <1>9, AddressFixed DEF Notified, Awaiting
<1>11. toServer'[c] = toServer[c] \o <<OK>> /\ toServer[c] \in Seq(ToServer)
  BY UnitTypes, IniSendsEffect DEF Acknowledge, TypeOK
<1>12. Len(toServer'[c]) = Len(toServer[c]) + 1
  BY <1>11
<1>13. Pending(c)' = T
  <2>1. Len(resp'[c]) = 0
    BY <1>1
  <2>2. Unread(c)' = T
    BY <1>0, <1>2, <1>8, <1>9 DEF Unread
  <2> QED BY <1>2, <2>1, <2>2 DEF Pending
<1>14. /\ Owed(c) = ((L + T) \div 2) + Len(toServer[c])
       /\ Owed(c)' = (T \div 2) + (Len(toServer[c]) + 1)
  BY <1>2, <1>12, <1>13 DEF Owed
<1>15. /\ Owed(c) \in Nat /\ Owed(c)' \in Nat
       /\ (L + T) \div 2 >= (T \div 2) + 1 => Owed(c)' <= Owed(c)
       /\ (L + T) \div 2 > (T \div 2) + 1 => Owed(c)' < Owed(c)
  <2>1. \A m, n, k \in Nat : /\ m + k \in Nat /\ n + (k + 1) \in Nat
                             /\ m >= n + 1 => n + (k + 1) <= m + k
                             /\ m > n + 1 => n + (k + 1) < m + k
    OBVIOUS
  <2>2. L + T \in Nat /\ (L + T) \div 2 \in Nat /\ T \div 2 \in Nat
    BY <1>2, Halves
  <2>3. PICK m \in Nat, n \in Nat : m = (L + T) \div 2 /\ n = T \div 2
    BY <2>2
  <2>4. Owed(c) = m + Len(toServer[c]) /\ Owed(c)' = n + (Len(toServer[c]) + 1)
    BY <1>14, <2>3
  <2>5. /\ Owed(c) \in Nat /\ Owed(c)' \in Nat
        /\ m >= n + 1 => Owed(c)' <= Owed(c)
        /\ m > n + 1 => Owed(c)' < Owed(c)
    BY <1>2, <2>1, <2>4
  <2> QED BY <2>3, <2>5
<1>16. Owed(c)' <= Owed(c)
  BY <1>2, <1>3, <1>6, <1>15, ErrCounts
<1>17. ASSUME NEW other \in 1..L, other # first, resp[c][other] # End
       PROVE  Owed(c)' < Owed(c)
  <2>1. ((L + T) - other) % 2 = 1
    BY <1>4, <1>17
  <2>2. (L + T) - other < (L + T) - first \/ (L + T) - first < (L + T) - other
    BY <1>2, <1>17
  <2>3. (L + T) \div 2 > (T \div 2) + 1
    BY <1>2, <1>3, <1>6, <2>1, <2>2, ErrCounts
  <2> QED BY <1>15, <2>3
<1>18. \A k \in 1..Len(toClient[c]) : Fits(toClient[c][k], Len(toClient[c]) - k)
  BY <1>1 DEF Served, Shaped
<1>19. \A unit : \A distance : Fits(unit, distance) => Fits(unit, distance)'
  BY <1>10 DEF Fits
<1>20. Shaped(c)'
  <2>1. \A k \in 1..Len(toClient'[c]) : Fits(toClient[c][k], Len(toClient[c]) - k)'
    BY <1>9, <1>18, <1>19
  <2>2. 1..Len(resp'[c]) = {}
    BY <1>1
  <2> QED BY <1>8, <2>1, <2>2 DEF Shaped
<1>21. Cardinality(Awaiting) \in Nat
  BY AwaitingType
<1>22. Cardinality(Awaiting) >= Owed(c)'
  BY <1>15, <1>16, <1>21 DEF Served, Balanced
<1>23. Cardinality(Awaiting) > Owed(c)' \/ \A i \in Notified : IsKept(c, i)'
  <2>1. CASE \E other \in 1..L : other # first /\ resp[c][other] # End
    <3>1. Owed(c)' < Owed(c)
      BY <1>17, <2>1
    <3> QED BY <1>15, <1>21, <3>1 DEF Served, Balanced
  <2>2. CASE Cardinality(Awaiting) > Owed(c)
    BY <1>15, <1>16, <1>21, <2>2
  <2>3. CASE /\ \A i \in Notified : IsKept(c, i)
             /\ \A other \in 1..L : other = first \/ resp[c][other] = End
    <3> SUFFICES ASSUME NEW i \in Notified PROVE IsKept(c, i)'
      OBVIOUS
    <3>1. IsKept(c, i)
      BY <2>3
    <3>2. ASSUME NEW k \in 1..L, resp[c][k] = Err(Address(i)) PROVE Address(i) = word[2]
      <4>1. Err(Address(i)) # End /\ Err(Address(i))[2] = Address(i)
        BY DEF Err, End
      <4>2. k = first
        BY <2>3, <3>2, <4>1
      <4> QED BY <1>5, <3>2, <4>1, <4>2
    <3> QED BY <1>0, <1>8, <1>9, <1>10, <3>1, <3>2 DEF IsKept
  <2> QED BY <2>1, <2>2, <2>3 DEF Served, Balanced
<1>24. Balanced(c)'
  BY <1>10, <1>22, <1>23 DEF Balanced
<1>25. printed'[c] \subseteq {Address(i)' : i \in Notified'}
  BY <1>6, <1>8, <1>10 DEF Served
<1>26. \A k \in 1..Len(toServer'[c]) : toServer'[c][k] = OK
  <2>1. <<OK>> \in Seq(ToServer) /\ \A j \in 1..Len(<<OK>>) : <<OK>>[j] = OK
    BY UnitTypes
  <2>2. \A k \in 1..Len(toServer[c] \o <<OK>>) :
          \/ k \in 1..Len(toServer[c]) /\ (toServer[c] \o <<OK>>)[k] = toServer[c][k]
          \/ \E j \in 1..Len(<<OK>>) : (toServer[c] \o <<OK>>)[k] = <<OK>>[j]
    BY <1>11, <2>1, Joined
  <2>3. \A k \in 1..Len(toServer[c]) : toServer[c][k] = OK
    BY DEF Served
  <2> QED BY <1>11, <2>1, <2>2, <2>3
<1> QED BY <1>8, <1>20, <1>24, <1>25, <1>26 DEF Served

\* What an Initiator does to the others, and to the managers.
LEMMA IniAnswers ==
  ASSUME TypeOK, Errors, NEW c \in Initiators, UNCHANGED <<serverVars, ignored, alive>>,
         \A d \in Initiators : d # c =>
           /\ ini'[d] = ini[d] /\ resp'[d] = resp[d] /\ printed'[d] = printed[d]
           /\ toServer'[d] = toServer[d] /\ toClient'[d] = toClient[d],
         Answered(c)'
  PROVE  Errors'
<1>1. \A d \in Initiators : Answered(d)'
  BY OthersAnswered DEF Errors
<1>2. Refused'
  BY AddressFixed DEF Errors, Refused
<1> QED BY <1>1, <1>2 DEF Errors

LEMMA RequestStepsAnswer ==
  ASSUME TypeOK, Lockstep, Errors, NEW c \in Initiators,
         Connect(c) \/ AwaitOk(c) \/ SendString(c) \/ Kill(c) \/ LoseServer(c)
  PROVE  Errors'
<1>1. /\ UNCHANGED <<serverVars, ignored, alive, printed>> /\ ini[c] # "gone"
      /\ \A d \in Initiators : d # c =>
           ini'[d] = ini[d] /\ resp'[d] = resp[d] /\ toClient'[d] = toClient[d]
      /\ AwaitOk(c) \/ Connect(c) \/ SendString(c) => resp' = resp
  BY DEF Connect, AwaitOk, SendString, Kill, LoseServer, Leave, Left, TypeOK
<1>2. \A d \in Initiators : d # c => toServer'[d] = toServer[d]
  BY DEF Connect, AwaitOk, SendString, Kill, LoseServer, IniSends, TypeOK
<1>3. Answered(c) /\ InStep(c)
  BY DEF Errors, Lockstep
<1>4. CASE AwaitOk(c)
  <2>1. ASSUME c = client, master \in {"join", "report"}, Short(c) PROVE Served(c)'
    <3>1. sent[c] = Len(Strings(c)) /\ Served(c)
      BY <1>1, <1>3, <2>1, Phases DEF InStep, InTime, Answered
    <3> QED BY <1>4, <3>1, AwaitOkServed
  <2>2. ASSUME Closed(c) PROVE Closed(c)'
    <3>1. toClient[c] \in Seq(ToClient) /\ toClient[c] # <<>> /\ toClient'[c] = Tail(toClient[c])
      BY <1>4 DEF AwaitOk, TypeOK
    <3>2. /\ \A k \in 1..Len(toClient'[c]) : k + 1 \in 1..Len(toClient[c])
          /\ \A k \in 1..Len(toClient'[c]) : toClient'[c][k] = toClient[c][k + 1]
      BY <3>1
    <3>3. \A k \in 1..Len(toClient'[c]) : toClient'[c][k][1] # "ERR"
      BY <2>2, <3>2 DEF Closed
    <3> QED BY <1>1, <1>4, <2>2, <3>3, UnreachableFixed DEF Closed
  <2>3. Answered(c)'
    BY <1>1, <1>3, <1>4, <2>1, <2>2, Fixed DEF Answered
  <2> QED BY <1>1, <1>2, <2>3, IniAnswers
<1>5. CASE Connect(c) \/ SendString(c)
  <2>1. ini[c] \in {"start", "send"} /\ toClient' = toClient
    BY <1>5 DEF Connect, SendString
  <2>2. ~Served(c)
    BY <2>1 DEF Served
  <2>3. Closed(c) => Closed(c)'
    BY <1>1, <1>5, <2>1, UnreachableFixed DEF Closed
  <2>4. Answered(c)'
    BY <1>1, <1>3, <1>5, <2>2, <2>3, Fixed DEF Answered
  <2> QED BY <1>1, <1>2, <2>4, IniAnswers
<1>6. CASE Kill(c) \/ LoseServer(c)
  <2>1. ini'[c] = "gone"
    BY <1>6 DEF Kill, LoseServer, Leave, TypeOK
  <2>2. Answered(c)'
    BY <2>1 DEF Answered
  <2> QED BY <1>1, <1>2, <2>2, IniAnswers
<1> QED BY <1>4, <1>5, <1>6

LEMMA ReadStepsAnswer ==
  ASSUME TypeOK, Lockstep, Errors, NEW c \in Initiators, Receive(c) \/ Acknowledge(c)
  PROVE  Errors'
<1>1. UNCHANGED <<serverVars, ignored, alive>> /\ ini[c] \in {"recv", "ack"}
  BY DEF Receive, Acknowledge
<1>2. \A d \in Initiators : d # c =>
        /\ ini'[d] = ini[d] /\ resp'[d] = resp[d]
        /\ printed'[d] = printed[d] /\ toClient'[d] = toClient[d]
  BY DEF Receive, Acknowledge, TypeOK
<1>3. \A d \in Initiators : d # c => toServer'[d] = toServer[d]
  BY DEF Receive, Acknowledge, IniSends, TypeOK
<1>4. Answered(c) /\ InStep(c)
  BY DEF Errors, Lockstep
<1>5. c \in accepted /\ (Short(c) /\ c = client => master \in {"join", "report"})
  BY <1>1, ReadingInStep DEF Receive, Acknowledge
<1>6. CASE Receive(c)
  <2>1. c = client /\ Short(c) => Served(c)'
    BY <1>1, <1>4, <1>5, <1>6, ReceiveServed DEF Answered
  <2>2. ASSUME Closed(c) PROVE Closed(c)'
    <3>1. PICK part \in Seq(ToClient) :
            /\ Len(part) \in 0..Len(toClient[c])
            /\ \A k \in 1..Len(part) : part[k] = toClient[c][k]
            /\ resp'[c] = resp[c] \o part
            /\ Len(toClient'[c]) = Len(toClient[c]) - Len(part)
            /\ \A k \in 1..Len(toClient'[c]) : toClient'[c][k] = toClient[c][Len(part) + k]
      BY <1>6, ReceiveMoves
    <3>2. resp[c] \in Seq(ToClient) /\ toClient[c] \in Seq(ToClient)
      BY DEF TypeOK
    <3>3. \A k \in 1..Len(toClient'[c]) : Len(part) + k \in 1..Len(toClient[c])
      BY <3>1, <3>2
    <3>4. \A k \in 1..Len(resp'[c]) :
            \/ k \in 1..Len(resp[c]) /\ resp'[c][k] = resp[c][k]
            \/ \E j \in 1..Len(toClient[c]) : resp'[c][k] = toClient[c][j]
      <4>1. \A j \in 1..Len(part) : j \in 1..Len(toClient[c])
        BY <3>1, <3>2
      <4>2. \A k \in 1..Len(resp[c] \o part) :
              \/ k \in 1..Len(resp[c]) /\ (resp[c] \o part)[k] = resp[c][k]
              \/ \E j \in 1..Len(part) : (resp[c] \o part)[k] = part[j]
        BY <3>2, Joined
      <4>3. resp'[c] = resp[c] \o part /\ \A k \in 1..Len(part) : part[k] = toClient[c][k]
        BY <3>1
      <4> QED BY <4>1, <4>2, <4>3
    <3>5. \A k \in 1..Len(resp'[c]) : resp'[c][k][1] # "ERR"
      BY <2>2, <3>4 DEF Closed
    <3>6. \A k \in 1..Len(toClient'[c]) : toClient'[c][k][1] # "ERR"
      BY <2>2, <3>1, <3>3 DEF Closed
    <3>7. printed' = printed
      BY <1>6 DEF Receive
    <3> QED BY <2>2, <3>5, <3>6, <3>7, UnreachableFixed DEF Closed
  <2>3. Answered(c)'
    BY <1>1, <1>4, <1>5, <2>1, <2>2, Fixed DEF Answered
  <2> QED BY <1>1, <1>2, <1>3, <2>3, IniAnswers
<1>7. CASE Acknowledge(c)
  <2>1. c = client /\ Short(c) /\ ini'[c] # "gone" => Served(c)'
    BY <1>1, <1>4, <1>5, <1>7, AcknowledgeServed DEF Answered
  <2>2. ASSUME Closed(c) PROVE Closed(c)'
    <3>1. resp[c] \in Seq(ToClient) /\ resp'[c] = <<>> /\ Len(resp'[c]) = 0
      BY <1>7 DEF Acknowledge, TypeOK
    <3>2. End[1] # "ERR"
      BY DEF End
    <3>3. FirstWord(resp[c])[1] # "ERR"
      BY <2>2, <3>1, <3>2, FirstWordIs DEF Closed
    <3>4. printed' = printed /\ toClient' = toClient
      BY <1>7, <3>3 DEF Acknowledge
    <3> QED BY <2>2, <3>1, <3>4, UnreachableFixed DEF Closed
  <2>3. Answered(c)'
    BY <1>1, <1>4, <1>5, <2>1, <2>2, Fixed DEF Answered
  <2> QED BY <1>1, <1>2, <1>3, <2>3, IniAnswers
<1> QED BY <1>6, <1>7

LEMMA ErrorsNext == TypeOK /\ Lockstep /\ Errors /\ [Next]_vars => Errors'
<1> SUFFICES ASSUME TypeOK, Lockstep, Errors, [Next]_vars PROVE Errors'
  OBVIOUS
<1>1. ASSUME NEW c \in Initiators, IniStep(c) \/ Kill(c) PROVE Errors'
  BY <1>1, RequestStepsAnswer, ReadStepsAnswer DEF IniStep
<1>2. CASE MasterStep
  BY <1>2, AcceptAnswers, RequestAnswers, StartManagersAnswers, JoinManagersAnswers,
     ReportAnswers DEF MasterStep
<1>3. ASSUME NEW i \in DOMAIN mgr, ManagerStep(i) PROVE Errors'
  BY <1>3, ManagersAnswer
<1>4. CASE UNCHANGED vars
  <2>1. \A c \in Initiators : Answered(c)'
    BY <1>4, OthersAnswered DEF Errors
  <2>2. Refused'
    BY <1>4, AddressFixed DEF Errors, Refused
  <2> QED BY <2>1, <2>2 DEF Errors
<1> QED BY <1>1, <1>2, <1>3, <1>4 DEF Next

\* The report comes after every error of the request, for every number of Initiators
\* and of content servers that are not running: an Initiator that acknowledges
\* several errors with one "OK" and prints only the first of them never gets the
\* statistics, because a manager still waits for the "OK" of each of the others.
THEOREM ReportIsRight == Spec => []ReportIsComplete
<1>1. Init => TypeOK /\ Lockstep /\ Errors
  BY SessionInit, ErrorsInit
<1>2. TypeOK /\ Lockstep /\ Errors /\ [Next]_vars => TypeOK' /\ Lockstep' /\ Errors'
  BY SessionNext, ErrorsNext
<1>3. TypeOK /\ Lockstep /\ Errors => ReportIsComplete
  <2> SUFFICES ASSUME TypeOK, Lockstep, Errors, NEW c \in Initiators, ini[c] = "reported",
                      Short(c)
               PROVE  printed[c] = Unreachable(c)
    BY DEF ReportIsComplete, Unreachable
  <2>1. InStep(c) /\ Answered(c)
    BY DEF Lockstep, Errors
  <2>2. ~Waiting(c) /\ ~Announced(c) /\ ~Sending(c) /\ ~Served(c)
    BY DEF Waiting, Announced, Sending, InTurn, Served
  <2>3. c \in accepted /\ c # client
    BY <2>1, <2>2, Phases DEF InStep, InTime, Answered
  <2> QED BY <2>1, <2>3 DEF Answered, Closed
<1> QED BY <1>1, <1>2, <1>3, PTL DEF Spec

--------------------------------------------------------------------------------
(* Empty strings. *)

\* The request of c, whose strings fit the buffer, was received to the end.
Past(c) ==
  /\ Short(c) /\ ini[c] # "gone"
  /\ c \in accepted /\ (c = client => master \in {"join", "report"})

IsBlank(c, k) == Length[Strings(c)[k]] = 0

\* No string that was received is an empty one.
Substantial ==
  /\ master = "strings" /\ ini[client] # "gone" /\ Short(client) =>
       \A k \in DOMAIN received : ~IsBlank(client, k)
  /\ \A c \in Initiators : Past(c) => ~HasBlank(c)

LEMMA SubstantialNext ==
  ASSUME TypeOK, Lockstep, Substantial, [Next]_vars
  PROVE  Substantial'
<1> USE DEF Substantial, Past
<1>1. \A c : /\ \A k : IsBlank(c, k)' <=> IsBlank(c, k)
             /\ HasBlank(c)' <=> HasBlank(c)
             /\ Short(c)' <=> Short(c)
  BY DEF IsBlank, HasBlank, Short, Strings
<1>2. ASSUME NEW c \in Initiators, IniStep(c) \/ Kill(c) PROVE Substantial'
  <2>1. UNCHANGED serverVars
    BY <1>2 DEF IniStep, Kill, Connect, AwaitOk, SendString, Receive, Acknowledge, LoseServer
  <2>2. \A d \in Initiators : ini[d] = "gone" => ini'[d] = "gone"
    BY <1>2 DEF IniStep, Kill, Connect, AwaitOk, SendString, Receive, Acknowledge, LoseServer,
                Leave, Left, TypeOK
  <2>3. client # None => client \in Initiators
    BY DEF TypeOK
  <2>4. master = "strings" => client \in Initiators
    BY <2>3 DEF TypeOK
  <2> QED BY <1>1, <2>1, <2>2, <2>4
<1>3. CASE ReceiveString
  <2>1. client \in Initiators /\ client \in accepted /\ master = "strings"
    BY <1>3 DEF ReceiveString, TypeOK, Lockstep, InOrder
  <2>2. Short(client) => Sending(client)
    BY <2>1 DEF Lockstep, InStep, InTime
  <2>3. UNCHANGED <<ini, accepted, master, client>>
    BY <1>3 DEF ReceiveString
  <2>4. ASSUME ini[client] # "gone", Short(client), NEW k \in DOMAIN received'
        PROVE  ~IsBlank(client, k)
    <3>1. PICK part \in Arriving(toServer[client], ini[client] \in Left, Buffer) :
            \E text \in {part} \cup (IF part = <<>> THEN ToSet(received) ELSE {}) :
              received' = Append(received, text)
      BY <1>3 DEF ReceiveString
    <3>2. received \in Seq(Parts) /\ Len(received) \in Nat /\ sent[client] \in Nat
      BY <2>1 DEF TypeOK
    <3>3. /\ Len(received) = sent[client] - 1 /\ part # <<>>
          /\ part = Pieces(Strings(client)[sent[client]])
      BY <2>1, <2>2, <2>4, StringArrives
    <3>4. DOMAIN received' = DOMAIN received \cup {sent[client]}
      BY <3>1, <3>2, <3>3
    <3>5. CASE k \in DOMAIN received
      BY <2>1, <2>4, <3>5
    <3>6. CASE k = sent[client]
      <4>1. sent[client] \in 1..Len(Strings(client))
        BY <2>1, <3>2, <3>3, StringsType DEF TypeOK
      <4>2. ASSUME IsBlank(client, k) PROVE part = <<>>
        <5>1. Pieces(Strings(client)[k]) = [j \in 1..0 |-> <<Strings(client)[k][1],
                                                             Strings(client)[k][2], j>>]
          BY <4>2 DEF IsBlank, Pieces
        <5> QED BY <3>3, <3>6, <5>1
      <4> QED BY <3>3, <4>2
    <3> QED BY <3>4, <3>5, <3>6
  <2> QED BY <1>1, <2>1, <2>3, <2>4
<1>4. CASE StartManagers
  <2>1. client \in Initiators /\ master = "strings" /\ received \in Seq(Parts)
    BY <1>4 DEF StartManagers, TypeOK
  <2>2. ASSUME ini[client] # "gone", Short(client) PROVE DOMAIN received = DOMAIN Strings(client)
    <3>1. vecs = Len(Request[client])
      BY <2>1, <2>2 DEF Lockstep, InStep, InTime, Sending, IsOf
    <3>2. Len(received) = Len(Strings(client)) /\ Strings(client) \in Seq(Texts)
      BY <1>4, <2>1, <3>1, StringsType DEF StartManagers
    <3> QED BY <2>1, <3>2
  <2>3. master' = "join" /\ UNCHANGED <<ini, accepted, client>>
    BY <1>4 DEF StartManagers
  <2>4. ASSUME Past(client)' PROVE ~HasBlank(client)
    BY <1>1, <2>1, <2>2, <2>3, <2>4 DEF IsBlank, HasBlank
  <2> QED BY <1>1, <2>1, <2>3, <2>4
<1>5. CASE Accept \/ ReceiveCount
  <2>1. UNCHANGED ini /\ (accepted' \ accepted) \subseteq {client'} /\ client' # None
    BY <1>5, InitiatorsAssumption DEF Accept, ReceiveCount, TypeOK
  <2>2. /\ master \in {"accept", "count"} /\ master' \in {"count", "strings"}
        /\ received' = <<>> /\ (master' = "strings" => client' = client)
    BY <1>5 DEF Accept, ReceiveCount, Lockstep, InOrder
  <2>3. master = "count" => client' = client /\ accepted' = accepted
    BY <1>5 DEF Accept, ReceiveCount
  <2>4. master = "accept" => client = None
    BY DEF TypeOK
  <2>5. ASSUME NEW c \in Initiators, Past(c)' PROVE Past(c)
    <3>1. c # client' /\ c \in accepted /\ c # None
      BY <2>1, <2>2, <2>5, InitiatorsAssumption
    <3>2. c # client
      BY <2>2, <2>3, <2>4, <3>1
    <3> QED BY <2>1, <2>5, <3>1, <3>2
  <2> QED BY <1>1, <2>2, <2>5
<1>6. CASE JoinManagers \/ Report
  <2>1. /\ UNCHANGED <<ini, accepted>> /\ master \in {"join", "report"}
        /\ master' \in {"report", "accept"}
    BY <1>6 DEF JoinManagers, Report
  <2> QED BY <1>1, <2>1
<1>7. ASSUME NEW i \in DOMAIN mgr, ManagerStep(i) PROVE Substantial'
  <2>1. UNCHANGED <<ini, accepted, master, client, received>>
    BY <1>7 DEF ManagerStep, ManagerConnect, List, SendErr, ManagerAwaitOk
  <2> QED BY <1>1, <2>1
<1>8. CASE UNCHANGED vars
  BY <1>1, <1>8
<1> QED BY <1>2, <1>3, <1>4, <1>5, <1>6, <1>7, <1>8 DEF Next, MasterStep

\* An empty string blocks its request for every number of Initiators and wherever it
\* is, if the other strings fit the buffer: what is received is never empty as long as its
\* sender is there.
THEOREM EmptyStringIsNotReceived == Spec => []EmptyStringBlocks
<1>1. Init => TypeOK /\ Lockstep /\ Substantial
  BY SessionInit DEF Init, Substantial, Past
<1>2. TypeOK /\ Lockstep /\ Substantial /\ [Next]_vars => TypeOK' /\ Lockstep' /\ Substantial'
  BY SessionNext, SubstantialNext
<1>3. TypeOK /\ Lockstep /\ Substantial => EmptyStringBlocks
  <2> SUFFICES ASSUME TypeOK, Lockstep, Substantial, NEW c \in Initiators,
                      HasBlank(c), Short(c)
               PROVE  /\ ini[c] # "reported"
                      /\ client = c /\ ini[c] # "gone" => master \in {"count", "strings"}
    BY DEF EmptyStringBlocks
  <2>1. ~Past(c)
    BY DEF Substantial
  <2>2. InStep(c)
    BY DEF Lockstep
  <2>3. (~Waiting(c) /\ ~Announced(c) /\ ~Sending(c)) \/ ini[c] # "reported"
    BY DEF Waiting, Announced, Sending, InTurn
  <2> QED BY <2>1, <2>2, <2>3, Phases DEF InStep, InTime, Past
<1> QED BY <1>1, <1>2, <1>3, PTL DEF Spec

================================================================================
