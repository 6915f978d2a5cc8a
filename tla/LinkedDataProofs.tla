---------------------------- MODULE LinkedDataProofs ----------------------------
(***************************************************************************)
(* Proofs about LinkedData, for every memory, every capacity, every number *)
(* of buckets and every set of ids.                                        *)
(***************************************************************************)
EXTENDS LinkedData, Counting

USE DEF queueVars, tableVars, vars

--------------------------------------------------------------------------------
(* The linked list.  The nodes are those of a path, which the links go forward  *)
(* and backward along: it is what the list is, and what no field alone says.    *)

Node == [entry : Conns, next : Nodes \cup {Null}, prev : Nodes \cup {Null}]

\* p leads from _head to _last, through every node once.
IsPath(p) ==
  /\ p \in [1..count -> DOMAIN heap]
  /\ \A n \in DOMAIN heap : \E i \in 1..count : p[i] = n
  /\ \A i, j \in 1..count : p[i] = p[j] => i = j
  /\ head = IF count = 0 THEN Null ELSE p[1]
  /\ count # 0 => last = p[count]
  /\ \A i \in 1..count : /\ heap[p[i]].next = IF i = count THEN Null ELSE p[i + 1]
                         /\ heap[p[i]].prev = IF i = 1 THEN Null ELSE p[i - 1]

\* What holds of the queue, and is kept by its operations.
Queue ==
  /\ DOMAIN heap \subseteq Nodes
  /\ \A n \in DOMAIN heap : heap[n] \in Node
  /\ last \in Nodes \cup {Null}
  /\ count \in 0..Capacity
  /\ \E p : IsPath(p)

LEMMA QueueInit == Init => Queue
<1> SUFFICES ASSUME Init PROVE Queue
  OBVIOUS
<1>1. /\ DOMAIN heap = {} /\ head = Null /\ last = Null /\ count = 0 /\ 1..count = {}
  BY DEF Init
<1>2. IsPath(heap)
  <2>1. heap \in [1..count -> DOMAIN heap]
    BY <1>1 DEF Init
  <2> QED BY <1>1, <2>1 DEF IsPath
<1>3. count \in 0..Capacity
  BY <1>1, CapacityAssumption
<1> QED BY <1>1, <1>2, <1>3 DEF Queue

\* The path grows by the new node, at its end.
LEMMA PathPush ==
  ASSUME Queue, NEW c \in Conns, Push(c), NEW p, IsPath(p)
  PROVE  /\ DOMAIN heap' \subseteq Nodes /\ \A n \in DOMAIN heap' : heap'[n] \in Node
         /\ last' \in Nodes /\ count' \in 0..Capacity /\ count' = count + 1
         /\ \E n, q : /\ heap'[n].entry = c
                      /\ \A k \in DOMAIN heap : heap'[k].entry = heap[k].entry
                      /\ q = [i \in 1..(count + 1) |-> IF i = count + 1 THEN n ELSE p[i]]
                      /\ IsPath(q)'
<1>1. /\ count \in Nat /\ count' = count + 1 /\ count' \in 0..Capacity
  BY CapacityAssumption DEF Push, Queue
<1>2. PICK n \in Nodes \ DOMAIN heap :
        IF head = Null
        THEN heap' = WithNode(heap, n, Null, c) /\ head' = n /\ last' = n
        ELSE /\ heap' = WithNode(NextSet(last, n), n, last, c)
             /\ last' = n /\ UNCHANGED head
  BY DEF Push
<1>3. PICK q : q = [i \in 1..(count + 1) |-> IF i = count + 1 THEN n ELSE p[i]]
  OBVIOUS
<1>4. head = Null <=> count = 0
  BY <1>1, NullAssumption DEF Queue, IsPath
<1>5. CASE count = 0
  <2>1. /\ head' = n /\ last' = n
        /\ heap' = [k \in {n} \cup DOMAIN heap |->
                      IF k = n THEN [entry |-> c, next |-> Null, prev |-> Null] ELSE heap[k]]
    BY <1>2, <1>4, <1>5 DEF WithNode
  <2>2. DOMAIN heap = {}
    BY <1>5 DEF IsPath
  <2>3. /\ DOMAIN heap' = {n} /\ heap'[n] = [entry |-> c, next |-> Null, prev |-> Null]
    BY <2>1, <2>2
  <2>4. heap'[n] \in Node
    BY <2>3 DEF Node
  <2>5. IsPath(q)'
    <3>1. count' = 1 /\ 1..count' = {1} /\ q = [i \in {1} |-> n]
      BY <1>1, <1>3, <1>5
    <3>2. q \in [1..count' -> DOMAIN heap'] /\ q[1] = n
      BY <2>3, <3>1
    <3> QED BY <2>1, <2>3, <3>1, <3>2 DEF IsPath
  <2>6. DOMAIN heap' \subseteq Nodes /\ \A m \in DOMAIN heap' : heap'[m] \in Node
    BY <2>3, <2>4
  <2>7. heap'[n].entry = c /\ \A k \in DOMAIN heap : heap'[k].entry = heap[k].entry
    BY <2>2, <2>3
  <2> QED BY <1>1, <1>3, <2>1, <2>5, <2>6, <2>7
<1>6. CASE count # 0
  <2>1. /\ last' = n /\ head' = head /\ head # Null
        /\ heap' = [k \in {n} \cup DOMAIN heap |->
                      IF k = n THEN [entry |-> c, next |-> Null, prev |-> last]
                      ELSE IF k = last THEN [heap[k] EXCEPT !.next = n] ELSE heap[k]]
    BY <1>2, <1>4, <1>6 DEF WithNode, NextSet
  <2>2. last = p[count] /\ count \in 1..count /\ last \in DOMAIN heap /\ n # last
    BY <1>1, <1>6 DEF IsPath
  <2>3. /\ DOMAIN heap' = DOMAIN heap \cup {n}
        /\ heap'[n] = [entry |-> c, next |-> Null, prev |-> last]
        /\ \A k \in DOMAIN heap : heap'[k] = IF k = last THEN [heap[k] EXCEPT !.next = n]
                                             ELSE heap[k]
    BY <2>1
  <2>4. heap'[n] \in Node
    BY <2>2, <2>3 DEF Node, Queue
  <2>5. \A k \in DOMAIN heap : /\ heap'[k] \in Node
                               /\ heap'[k].entry = heap[k].entry /\ heap'[k].prev = heap[k].prev
                               /\ heap'[k].next = IF k = last THEN n ELSE heap[k].next
    BY <2>3 DEF Node, Queue
  <2>6. /\ heap'[n].entry = c /\ heap'[n].next = Null /\ heap'[n].prev = last
    BY <2>3
  <2>7. IsPath(q)'
    <3>1. /\ q \in [1..count' -> DOMAIN heap'] /\ q[count'] = n
          /\ \A i \in 1..count : q[i] = p[i] /\ p[i] \in DOMAIN heap
          /\ \A i \in 1..count' : i \in 1..count \/ i = count'
      BY <1>1, <1>3, <2>3 DEF IsPath
    <3>2. \A m \in DOMAIN heap' : \E i \in 1..count' : q[i] = m
      BY <1>1, <2>3, <3>1 DEF IsPath
    <3>3. \A i, j \in 1..count' : q[i] = q[j] => i = j
      <4>1. \A i, j \in 1..count : q[i] = q[j] => i = j
        BY <3>1 DEF IsPath
      <4>2. \A i \in 1..count : q[i] # n
        BY <1>2, <3>1
      <4> QED BY <3>1, <4>1, <4>2
    <3>4. head' = q[1] /\ last' = q[count']
      BY <1>1, <1>6, <2>1, <3>1 DEF IsPath
    <3>5. ASSUME NEW i \in 1..count'
          PROVE  /\ heap'[q[i]].next = IF i = count' THEN Null ELSE q[i + 1]
                 /\ heap'[q[i]].prev = IF i = 1 THEN Null ELSE q[i - 1]
      <4>1. CASE i = count'
        BY <4>1, <1>1, <1>6, <2>2, <2>6, <3>1
      <4>2. CASE i = count
        <5>1. q[i] = last /\ q[i + 1] = n /\ i # count' /\ i \in 1..count
          BY <4>2, <1>1, <1>6, <2>2, <3>1
        <5>2. heap'[q[i]].next = n
          BY <5>1, <2>2, <2>5
        <5>3. heap'[q[i]].prev = IF i = 1 THEN Null ELSE p[i - 1]
          BY <5>1, <3>1, <2>5 DEF IsPath
        <5>4. i # 1 => q[i - 1] = p[i - 1]
          BY <4>2, <1>1, <3>1
        <5> QED BY <5>1, <5>2, <5>3, <5>4
      <4>3. CASE i # count' /\ i # count
        <5>1. i \in 1..count /\ i + 1 \in 1..count /\ q[i] = p[i] /\ q[i + 1] = p[i + 1]
          BY <4>3, <1>1, <3>1
        <5>2. q[i] # last
          BY <5>1, <4>3, <2>2 DEF IsPath
        <5>3. heap'[q[i]].next = p[i + 1]
          BY <5>1, <5>2, <4>3, <3>1, <2>5 DEF IsPath
        <5>4. heap'[q[i]].prev = IF i = 1 THEN Null ELSE p[i - 1]
          BY <5>1, <3>1, <2>5 DEF IsPath
        <5>5. i # 1 => q[i - 1] = p[i - 1]
          BY <5>1, <1>1, <3>1
        <5> QED BY <5>1, <5>3, <5>4, <5>5, <4>3
      <4> QED BY <4>1, <4>2, <4>3
    <3>6. count' # 0
      BY <1>1
    <3> QED BY <3>1, <3>2, <3>3, <3>4, <3>5, <3>6 DEF IsPath
  <2>8. DOMAIN heap' \subseteq Nodes /\ \A m \in DOMAIN heap' : heap'[m] \in Node
    BY <2>3, <2>4, <2>5 DEF Queue
  <2> QED BY <1>1, <1>3, <2>1, <2>5, <2>6, <2>7, <2>8
<1> QED BY <1>5, <1>6

\* The path loses its first node.
LEMMA PathPop ==
  ASSUME Queue, Pop, NEW p, IsPath(p)
  PROVE  /\ DOMAIN heap' \subseteq Nodes /\ \A n \in DOMAIN heap' : heap'[n] \in Node
         /\ count \in Nat /\ count # 0 /\ count' = count - 1 /\ head = p[1]
         /\ \A k \in DOMAIN heap' : k \in DOMAIN heap /\ heap'[k].entry = heap[k].entry
         /\ \E q : q = [i \in 1..(count - 1) |-> p[i + 1]] /\ IsPath(q)'
<1>1. PICK q : q = [i \in 1..(count - 1) |-> p[i + 1]]
  OBVIOUS
<1>2. /\ count \in Nat /\ count # 0 /\ count' = count - 1 /\ 1 \in 1..count
      /\ head = p[1] /\ head \in DOMAIN heap /\ head' = heap[head].next
      /\ count' \in Nat
  BY DEF Pop, Queue, IsPath
<1>3. /\ DOMAIN heap' = DOMAIN heap \ {head}
      /\ \A k \in DOMAIN heap' : heap'[k] = IF k = head' THEN [heap[k] EXCEPT !.prev = Null]
                                            ELSE heap[k]
  BY DEF Pop, PrevCleared
<1>4. head' = IF count = 1 THEN Null ELSE p[2]
  BY <1>2 DEF IsPath
<1>5. \A k \in DOMAIN heap' : /\ heap'[k] \in Node
                              /\ heap'[k].entry = heap[k].entry /\ heap'[k].next = heap[k].next
                              /\ heap'[k].prev = IF k = head' THEN Null ELSE heap[k].prev
  BY <1>3 DEF Node, Queue
<1>6. IsPath(q)'
  <2>1. \A i \in 1..count' : i + 1 \in 1..count /\ i \in 1..count /\ q[i] = p[i + 1]
    BY <1>1, <1>2
  <2>2. q \in [1..count' -> DOMAIN heap']
    <3>1. \A i \in 1..count' : p[i + 1] \in DOMAIN heap /\ p[i + 1] # head
      BY <1>2, <2>1 DEF IsPath
    <3> QED BY <1>1, <1>2, <1>3, <3>1
  <2>3. \A n \in DOMAIN heap' : \E i \in 1..count' : q[i] = n
    <3> SUFFICES ASSUME NEW n \in DOMAIN heap' PROVE \E i \in 1..count' : q[i] = n
      OBVIOUS
    <3>1. PICK j \in 1..count : p[j] = n
      BY <1>3 DEF IsPath
    <3>2. j # 1 /\ j - 1 \in 1..count' /\ (j - 1) + 1 = j
      BY <1>2, <1>3, <3>1
    <3> QED BY <2>1, <3>1, <3>2
  <2>4. \A i, j \in 1..count' : q[i] = q[j] => i = j
    <3> SUFFICES ASSUME NEW i \in 1..count', NEW j \in 1..count', q[i] = q[j] PROVE i = j
      OBVIOUS
    <3>1. i + 1 = j + 1
      BY <2>1 DEF IsPath
    <3> QED BY <3>1, <1>2
  <2>5. head' = IF count' = 0 THEN Null ELSE q[1]
    BY <1>2, <1>4, <2>1
  <2>6. count' # 0 => last' = q[count']
    BY <1>2, <2>1 DEF Pop, IsPath
  <2>7. ASSUME NEW i \in 1..count'
        PROVE  /\ heap'[q[i]].next = IF i = count' THEN Null ELSE q[i + 1]
               /\ heap'[q[i]].prev = IF i = 1 THEN Null ELSE q[i - 1]
    <3>1. q[i] = p[i + 1] /\ q[i] \in DOMAIN heap' /\ i + 1 \in 1..count
      BY <2>1, <2>2
    <3>2. heap'[q[i]].next = IF i + 1 = count THEN Null ELSE p[i + 2]
      BY <1>5, <3>1 DEF IsPath
    <3>3. i # count' => q[i + 1] = p[i + 2]
      BY <1>1, <1>2
    <3>4. CASE i = 1
      BY <3>1, <3>2, <3>3, <3>4, <1>2, <1>4, <1>5
    <3>5. CASE i # 1
      <4>1. head' = p[2] /\ 2 \in 1..count
        BY <1>2, <1>4, <3>5
      <4>2. q[i] # head'
        BY <3>1, <3>5, <4>1 DEF IsPath
      <4>3. heap'[q[i]].prev = p[i]
        BY <3>1, <4>2, <1>5, <1>2 DEF IsPath
      <4>4. q[i - 1] = p[i]
        BY <1>1, <1>2, <3>5
      <4> QED BY <3>2, <3>3, <3>5, <4>3, <4>4, <1>2
    <3> QED BY <3>4, <3>5
  <2> QED BY <2>2, <2>3, <2>4, <2>5, <2>6, <2>7 DEF IsPath
<1>7. DOMAIN heap' \subseteq Nodes
  BY <1>3 DEF Queue
<1> QED BY <1>1, <1>2, <1>3, <1>5, <1>6, <1>7

LEMMA QueueNext == Queue /\ [Next]_vars => Queue'
<1> SUFFICES ASSUME Queue, [Next]_vars PROVE Queue'
  OBVIOUS
<1>1. PICK p : IsPath(p)
  BY DEF Queue
<1>2. CASE UNCHANGED queueVars
  <2>1. IsPath(p)'
    BY <1>1, <1>2 DEF IsPath
  <2> QED BY <1>2, <2>1 DEF Queue
<1>3. CASE Pop
  <2>1. last' = last /\ count' \in 0..Capacity
    <3>1. count \in Nat /\ count # 0 /\ count' = count - 1
      BY <1>1, <1>3, PathPop
    <3>2. Capacity \in Nat /\ count \in 0..Capacity
      BY CapacityAssumption DEF Queue
    <3>3. count' \in 0..Capacity
      BY <3>1, <3>2
    <3> QED BY <1>3, <3>3 DEF Pop
  <2> QED BY <1>1, <1>3, <2>1, PathPop DEF Queue
<1>4. ASSUME NEW c \in Conns, Push(c) PROVE Queue'
  BY <1>1, <1>4, PathPush DEF Queue
<1>5. ASSUME NEW id \in Ids,
             \/ \E d \in Delays : Insert(id, d) \/ InsertRefused(id, d)
             \/ Get(id) \/ GetThrows(id) \/ RemoveKey(id)
      PROVE  UNCHANGED queueVars
  BY <1>5 DEF Insert, InsertRefused, Get, GetThrows, RemoveKey
<1>6. PopThrows \/ PushThrows => UNCHANGED queueVars
  BY DEF PopThrows, PushThrows
<1> QED BY <1>2, <1>3, <1>4, <1>5, <1>6 DEF Next

LEMMA QueueInvariant == Spec => []Queue
  BY QueueInit, QueueNext, PTL DEF Spec

\* The three fields that the operations look at agree, every link leads to a node
\* that is allocated, and no node is lost, whatever the memory and the capacity.
THEOREM ListStaysIntact == Spec => []ListIsIntact
<1>1. Queue => ListIsIntact
  <2> SUFFICES ASSUME Queue, NEW p, IsPath(p) PROVE ListIsIntact
    BY DEF Queue
  <2>1. count \in Nat
    BY DEF Queue
  <2>2. (head = Null) = (count = 0)
    <3>1. count # 0 => p[1] \in Nodes
      BY <2>1 DEF IsPath, Queue
    <3> QED BY <3>1, NullAssumption DEF IsPath
  <2>3. count = Cardinality(DOMAIN heap)
    <3>1. p \in Bijection(1..count, DOMAIN heap)
      BY DEF IsPath, Bijection, Injection, Surjection, IsInjective
    <3>2. IsFiniteSet(1..count) /\ Cardinality(1..count) = count
      BY <2>1, FS_Interval
    <3>3. ExistsBijection(1..count, DOMAIN heap)
      BY <3>1 DEF ExistsBijection
    <3> QED BY <3>2, <3>3, FS_Bijection
  <2>4. ASSUME head # Null
        PROVE  /\ {head, last} \subseteq DOMAIN heap
               /\ heap[head].prev = Null /\ heap[last].next = Null
    <3>1. count # 0 /\ 1 \in 1..count /\ count \in 1..count
      BY <2>1, <2>2, <2>4
    <3> QED BY <3>1 DEF IsPath
  <2>5. ASSUME head # Null, NEW n \in DOMAIN heap, n # last
        PROVE  heap[n].next \in DOMAIN heap /\ heap[heap[n].next].prev = n
    <3>1. PICK i \in 1..count : p[i] = n
      BY DEF IsPath
    <3>2. i # count /\ i + 1 \in 1..count
      BY <2>1, <2>5, <3>1 DEF IsPath
    <3>3. heap[n].next = p[i + 1] /\ heap[p[i + 1]].prev = p[i]
      BY <2>1, <3>1, <3>2 DEF IsPath
    <3> QED BY <3>1, <3>2, <3>3 DEF IsPath
  <2> QED BY <2>2, <2>3, <2>4, <2>5 DEF ListIsIntact
<1> QED BY <1>1, QueueInvariant, PTL
--------------------------------------------------------------------------------
(* What the list holds, from its head on. *)

\* The nodes of a list of k nodes, found by going from its head along the links.
Walk(k, first, nodes) ==
  LET node[i \in 1..k] == IF i = 1 THEN first ELSE nodes[node[i - 1]].next
  IN  node

\* The walk is what satisfies its equation.
LEMMA WalkIs ==
  ASSUME NEW k \in Nat, NEW first, NEW nodes, NEW p,
         p = [i \in 1..k |-> IF i = 1 THEN first ELSE nodes[p[i - 1]].next]
  PROVE  \A i \in 1..k : Walk(k, first, nodes)[i] = p[i]
<1> DEFINE node == CHOOSE node :
             node = [i \in 1..k |-> IF i = 1 THEN first ELSE nodes[node[i - 1]].next]
<1>1. node = [i \in 1..k |-> IF i = 1 THEN first ELSE nodes[node[i - 1]].next]
  OBVIOUS
<1>2. Walk(k, first, nodes) = node
  BY DEF Walk
<1> HIDE DEF node
<1> DEFINE Good == {i \in Nat : i \in 1..k => node[i] = p[i]}
<1>3. 0 \in Good
  OBVIOUS
<1>4. ASSUME NEW n \in Nat, n \in Good PROVE n + 1 \in Good
  <2>1. ASSUME n + 1 \in 1..k PROVE node[n + 1] = p[n + 1]
    <3>1. CASE n = 0
      BY <3>1, <2>1, <1>1
    <3>2. CASE n # 0
      <4>1. n \in 1..k /\ n + 1 # 1 /\ (n + 1) - 1 = n
        BY <3>2, <2>1
      <4>2. node[n] = p[n]
        BY <4>1, <1>4
      <4> QED BY <4>1, <4>2, <2>1, <1>1
    <3> QED BY <3>1, <3>2
  <2> QED BY <2>1
<1>5. Nat \subseteq Good
  <2> HIDE DEF Good
  <2> QED BY <1>3, <1>4, NatInductionInSet
<1> QED BY <1>2, <1>5

\* The contents are the elements along the path.
LEMMA ContentsOfPath ==
  (\A p : count \in Nat /\ IsPath(p) => Contents = [i \in 1..count |-> heap[p[i]].entry])
<1> SUFFICES ASSUME count \in Nat, NEW p, IsPath(p)
             PROVE  Contents = [i \in 1..count |-> heap[p[i]].entry]
  OBVIOUS
<1>1. p = [i \in 1..count |-> IF i = 1 THEN head ELSE heap[p[i - 1]].next]
  <2>1. ASSUME NEW i \in 1..count
        PROVE  p[i] = IF i = 1 THEN head ELSE heap[p[i - 1]].next
    <3>1. CASE i = 1
      BY <3>1 DEF IsPath
    <3>2. CASE i # 1
      <4>1. i - 1 \in 1..count /\ i - 1 # count /\ (i - 1) + 1 = i
        BY <3>2
      <4>2. heap[p[i - 1]].next = p[(i - 1) + 1]
        BY <4>1 DEF IsPath
      <4> QED BY <4>1, <4>2, <3>2
    <3> QED BY <3>1, <3>2
  <2> QED BY <2>1 DEF IsPath
<1>2. \A i \in 1..count : Walk(count, head, heap)[i] = p[i]
  BY <1>1, WalkIs
<1>3. Contents = [i \in 1..count |-> heap[Walk(count, head, heap)[i]].entry]
  BY DEF Contents, Walk
<1> QED BY <1>2, <1>3

LEMMA ContentsOfPathPrimed ==
  (\A p : count \in Nat /\ IsPath(p) => Contents = [i \in 1..count |-> heap[p[i]].entry])'
  BY ContentsOfPath, PTL

\* The contents are a sequence, as long as the list says it is.
LEMMA ContentsType ==
  ASSUME Queue
  PROVE  Contents \in Seq(Conns) /\ Len(Contents) = count /\ count \in Nat
<1>1. PICK p : IsPath(p)
  BY DEF Queue
<1>2. count \in Nat
  BY DEF Queue
<1>3. Contents = [i \in 1..count |-> heap[p[i]].entry]
  BY <1>1, <1>2, ContentsOfPath
<1>4. \A i \in 1..count : heap[p[i]].entry \in Conns
  BY <1>1 DEF IsPath, Queue, Node
<1> QED BY <1>2, <1>3, <1>4

\* A push appends to the contents, and a pop takes their head.
LEMMA ContentsPush ==
  ASSUME Queue, NEW c \in Conns, Push(c)
  PROVE  Contents' = Append(Contents, c)
<1>1. PICK p : IsPath(p)
  BY DEF Queue
<1>2. count \in Nat /\ count' = count + 1
  BY <1>1, PathPush DEF Queue
<1>3. \E n, q : /\ heap'[n].entry = c
                /\ \A k \in DOMAIN heap : heap'[k].entry = heap[k].entry
                /\ q = [i \in 1..(count + 1) |-> IF i = count + 1 THEN n ELSE p[i]]
                /\ IsPath(q)'
  BY ONLY Queue, c \in Conns, Push(c), <1>1, PathPush
<1>4. PICK n, q : /\ heap'[n].entry = c
                  /\ \A k \in DOMAIN heap : heap'[k].entry = heap[k].entry
                  /\ q = [i \in 1..(count + 1) |-> IF i = count + 1 THEN n ELSE p[i]]
                  /\ IsPath(q)'
  BY <1>3
<1>5. Contents = [i \in 1..count |-> heap[p[i]].entry]
  BY <1>1, <1>2, ContentsOfPath
<1>6. Contents' = [i \in 1..count' |-> heap'[q[i]].entry]
  BY <1>2, <1>4, ContentsOfPathPrimed
<1>7. \A i \in 1..count : p[i] \in DOMAIN heap
  BY <1>1 DEF IsPath
<1> QED BY <1>2, <1>4, <1>5, <1>6, <1>7

LEMMA ContentsPop ==
  ASSUME Queue, Pop
  PROVE  /\ Contents # <<>> /\ result' = <<"pop", Head(Contents)>> /\ Contents' = Tail(Contents)
<1>1. PICK p : IsPath(p)
  BY DEF Queue
<1>2. /\ count \in Nat /\ count # 0 /\ count' = count - 1 /\ head = p[1]
      /\ \A k \in DOMAIN heap' : k \in DOMAIN heap /\ heap'[k].entry = heap[k].entry
      /\ \E q : q = [i \in 1..(count - 1) |-> p[i + 1]] /\ IsPath(q)'
  BY <1>1, PathPop
<1>3. PICK q : q = [i \in 1..(count - 1) |-> p[i + 1]] /\ IsPath(q)'
  BY <1>2
<1>4. Contents = [i \in 1..count |-> heap[p[i]].entry]
  BY <1>1, <1>2, ContentsOfPath
<1>5. Contents' = [i \in 1..count' |-> heap'[q[i]].entry]
  <2>1. count' \in Nat
    BY <1>2
  <2>2. IsPath(q)'
    BY <1>3
  <2> QED BY ONLY <2>1, <2>2, ContentsOfPathPrimed, Zenon
<1>6. \A i \in 1..count' : heap'[q[i]].entry = heap[p[i + 1]].entry
  <2>1. \A i \in 1..count' : q[i] \in DOMAIN heap'
    BY <1>3 DEF IsPath
  <2>2. \A i \in 1..count' : q[i] = p[i + 1]
    BY <1>2, <1>3
  <2> QED BY <1>2, <2>1, <2>2
<1>7. result' = <<"pop", heap[p[1]].entry>>
  BY <1>2 DEF Pop
<1>8. Contents \in Seq(Conns) /\ Len(Contents) = count
  BY ContentsType
<1>9. Contents # <<>> /\ Head(Contents) = heap[p[1]].entry
  <2>1. Contents[1] = heap[p[1]].entry
    BY <1>2, <1>4
  <2> QED BY <1>2, <1>8, <2>1
<1>10. Contents' = Tail(Contents)
  <2>1. /\ Tail(Contents) \in Seq(Conns) /\ Len(Tail(Contents)) = count - 1
        /\ \A i \in 1..(count - 1) : Tail(Contents)[i] = Contents[i + 1]
    BY <1>2, <1>8, <1>9
  <2>2. Tail(Contents) = [i \in 1..(count - 1) |-> Tail(Contents)[i]]
    <3> DEFINE t == Tail(Contents)
    <3>1. t \in Seq(Conns) /\ Len(t) = count - 1
      BY <2>1
    <3> HIDE DEF t
    <3>2. t = [i \in 1..(count - 1) |-> t[i]]
      BY <3>1
    <3> QED BY <3>2 DEF t
  <2>3. \A i \in 1..(count - 1) : Contents[i + 1] = heap[p[i + 1]].entry
    BY <1>2, <1>4
  <2> QED BY <1>2, <1>5, <1>6, <2>1, <2>2, <2>3
<1> QED BY <1>7, <1>9, <1>10

--------------------------------------------------------------------------------
(* The hash of an id. *)

IntRange == -(IntMax + 1)..IntMax

\* What a number is cut off to is an int, and an int stays what it is.
LEMMA WrapIsInt ==
  ASSUME NEW n \in Int
  PROVE  WrapInt(n) \in IntRange /\ (n \in IntRange => WrapInt(n) = n)
<1> DEFINE w == 2 * IntMax + 2
           a == n + IntMax + 1
<1>1. w \in Nat /\ w # 0 /\ a \in Int
  BY IntAssumption
<1>2. a % w \in 0..(w - 1)
  <2> HIDE DEF w, a
  <2> QED BY <1>1
<1>3. a \in 0..(w - 1) => a % w = a
  <2> HIDE DEF w, a
  <2>1. a = w * 0 + a
    BY <1>1
  <2> QED BY <1>1, <2>1, Remainder
<1>4. WrapInt(n) = (a % w) - (IntMax + 1)
  BY DEF WrapInt
<1> DEFINE r == a % w
<1>5. WrapInt(n) \in IntRange
  <2>1. r \in 0..(w - 1) /\ WrapInt(n) = r - (IntMax + 1)
    BY <1>2, <1>4
  <2> HIDE DEF r
  <2> QED BY <2>1, IntAssumption DEF IntRange
<1>6. ASSUME n \in IntRange PROVE WrapInt(n) = n
  <2>1. a \in 0..(w - 1)
    BY <1>6, IntAssumption DEF IntRange
  <2>2. r = a
    BY <1>3, <2>1
  <2> HIDE DEF r
  <2> QED BY <1>4, <2>2, IntAssumption DEF r
<1> QED BY <1>5, <1>6

\* The opposite of the least int is the least int.
LEMMA WrapLeast == WrapInt(-(-(IntMax + 1))) = -(IntMax + 1)
<1> DEFINE w == 2 * IntMax + 2
<1>1. w \in Nat /\ w # 0
  BY IntAssumption
<1>2. w % w = 0
  <2> HIDE DEF w
  <2>1. w = w * 1 + 0 /\ 0 \in 0..(w - 1)
    BY <1>1
  <2> QED BY <1>1, <2>1, Remainder
<1>3. -(-(IntMax + 1)) + IntMax + 1 = w
  BY IntAssumption
<1>4. WrapInt(-(-(IntMax + 1))) = ((-(-(IntMax + 1)) + IntMax + 1) % w) - (IntMax + 1)
  BY DEF WrapInt
<1> QED BY <1>2, <1>3, <1>4, IntAssumption

\* The most of a finite set of places that is not empty is one of them.
LEMMA MaxIsIn ==
  ASSUME NEW n \in Nat, NEW S \in SUBSET (1..n), S # {}
  PROVE  Max(S) \in S
<1> DEFINE D == {n - i : i \in S}
<1>1. D \in SUBSET Nat /\ D # {}
  <2>1. \A i \in S : n - i \in Nat
    OBVIOUS
  <2> QED BY <2>1
<1>2. PICK d \in D : \A e \in D : d <= e
  <2> HIDE DEF D
  <2> QED BY <1>1, LeastNat
<1>3. PICK x \in S : d = n - x
  BY <1>2
<1>4. \A y \in S : x >= y
  <2> SUFFICES ASSUME NEW y \in S PROVE x >= y
    OBVIOUS
  <2>1. n - y \in D
    OBVIOUS
  <2>2. d <= n - y
    BY <1>2, <2>1
  <2> QED BY <1>3, <2>2
<1> QED BY <1>4 DEF Max

\* _hash_func comes to a number that is not negative, or to the least int: its remainder
\* is the number of a bucket for every id but those that "Bad index" is printed for.
THEOREM OnlyLeastIsNegative ==
  \A id \in Ids : Hash[id] \in 0..IntMax \/ Hash[id] = -(IntMax + 1)
<1> SUFFICES ASSUME NEW id \in Ids
             PROVE  Hash[id] \in 0..IntMax \/ Hash[id] = -(IntMax + 1)
  OBVIOUS
<1> DEFINE S == DOMAIN id
           op == [i \in S |-> [t \in IntRange |-> WrapInt(33 * t + id[i])]]
           ch == [s \in SUBSET S |-> Max(s)]
<1>1. /\ Len(id) \in Nat /\ S = 1..Len(id) /\ \A i \in S : id[i] \in Nat
  BY IdsAssumption
<1>2. IsFiniteSet(S)
  BY <1>1, FS_Interval
<1>3. \A s \in SUBSET S : s # {} => ch[s] \in s
  BY <1>1, MaxIsIn
<1>4. \A i \in S, t \in IntRange : op[i][t] \in IntRange
  <2> SUFFICES ASSUME NEW i \in S, NEW t \in IntRange
               PROVE  WrapInt(33 * t + id[i]) \in IntRange
    OBVIOUS
  <2>1. 33 * t + id[i] \in Int
    BY <1>1 DEF IntRange
  <2> QED BY <2>1, WrapIsInt
<1>5. PICK F : IsFold(F, S, IntRange, Seed, op, ch)
  <2>1. Seed \in IntRange
    BY IntAssumption DEF IntRange
  <2> HIDE DEF S, op, ch
  <2> QED BY <1>2, <1>3, <1>4, <2>1, FoldExists
<1>6. F = [s \in SUBSET S |->
             IF s = {} THEN Seed ELSE WrapInt(33 * F[s \ {Max(s)}] + id[Max(s)])]
  <2>1. ASSUME NEW s \in SUBSET S, s # {}
        PROVE  op[ch[s]][F[s \ {ch[s]}]] = WrapInt(33 * F[s \ {Max(s)}] + id[Max(s)])
    <3>1. ch[s] = Max(s) /\ ch[s] \in S /\ F[s \ {ch[s]}] \in IntRange
      BY <1>3, <1>5, <2>1 DEF IsFold
    <3> QED BY <3>1
  <2> HIDE DEF op, ch, S
  <2> QED BY <1>5, <2>1 DEF IsFold
<1> DEFINE iter == CHOOSE iter : iter = [s \in SUBSET S |->
             IF s = {} THEN Seed ELSE WrapInt(33 * iter[s \ {Max(s)}] + id[Max(s)])]
<1>7. iter = [s \in SUBSET S |->
             IF s = {} THEN Seed ELSE WrapInt(33 * iter[s \ {Max(s)}] + id[Max(s)])]
  BY <1>6
<1>8. Hash[id] = IF iter[S] > 0 THEN iter[S] ELSE WrapInt(-iter[S])
  BY DEF Hash, FoldLeft, MapThenFoldSet
<1> HIDE DEF iter
<1>9. iter[S] \in IntRange
  <2> DEFINE Good == {s \in SUBSET S : iter[s] \in IntRange}
  <2>1. ASSUME NEW s \in SUBSET S, \A u \in SUBSET s : u # s => u \in Good
        PROVE  s \in Good
    <3>1. CASE s = {}
      BY <3>1, <1>7, IntAssumption DEF IntRange
    <3>2. CASE s # {}
      <4>1. Max(s) \in s
        BY <3>2, <1>3
      <4>2. s \ {Max(s)} \in Good
        BY <4>1, <2>1
      <4>3. 33 * iter[s \ {Max(s)}] + id[Max(s)] \in Int
        BY <4>1, <4>2, <1>1 DEF IntRange
      <4>4. iter[s] = WrapInt(33 * iter[s \ {Max(s)}] + id[Max(s)])
        BY <3>2, <1>7
      <4> QED BY <4>3, <4>4, WrapIsInt
    <3> QED BY <3>1, <3>2
  <2>2. S \in Good
    <3> HIDE DEF Good, S
    <3> QED BY <1>2, <2>1, SubsetInduction
  <2> QED BY <2>2
<1> DEFINE h == iter[S]
<1> HIDE DEF h
<1>10. h \in IntRange /\ Hash[id] = IF h > 0 THEN h ELSE WrapInt(-h)
  BY <1>8, <1>9 DEF h
<1>11. CASE h > 0
  BY <1>10, <1>11, IntAssumption DEF IntRange
<1>12. CASE ~(h > 0) /\ h # -(IntMax + 1)
  <2>1. -h \in 0..IntMax /\ -h \in IntRange
    BY <1>10, <1>12, IntAssumption DEF IntRange
  <2> QED BY <1>10, <1>12, <2>1, WrapIsInt DEF IntRange
<1>13. CASE ~(h > 0) /\ h = -(IntMax + 1)
  BY <1>10, <1>13, WrapLeast
<1> QED BY <1>11, <1>12, <1>13, <1>10, IntAssumption DEF IntRange

\* Every index that is used is that of a bucket.
LEMMA IndexType == \A id \in Ids : Index(id) \in 0..(Buckets - 1)
<1> SUFFICES ASSUME NEW id \in Ids PROVE Index(id) \in 0..(Buckets - 1)
  OBVIOUS
<1>1. Hash[id] \in Int
  BY OnlyLeastIsNegative, IntAssumption
<1> DEFINE h == Hash[id]
<1> HIDE DEF h
<1>2. h % Buckets \in 0..(Buckets - 1)
  BY <1>1, BucketsAssumption DEF h
<1> QED BY <1>2 DEF h, Index

--------------------------------------------------------------------------------
(* The growing arrays. *)

\* An array with a place to spare, which is what push relies on.
Vector(S) == {v \in [size : Nat, slots : Seq(S \cup {Null})] : v.size < Len(v.slots)}

LEMMA EmptyIsVector == \A S : EmptyVector \in Vector(S) /\ EmptyVector.size = 0
  BY DEF EmptyVector, Vector

\* push puts the element after the others, in an array of twice the length if there
\* would be no place to spare.
LEMMA PushBackIs ==
  ASSUME NEW S, NEW v \in Vector(S), NEW x \in S
  PROVE  /\ PushBack(v, x) \in Vector(S)
         /\ PushBack(v, x).size = v.size + 1
         /\ \A i \in 1..v.size : PushBack(v, x).slots[i] = v.slots[i]
         /\ PushBack(v, x).slots[v.size + 1] = x
<1> DEFINE n == v.size
           l == Len(v.slots)
           room == IF n + 1 >= l
                   THEN [i \in 1..2 * l |-> IF i <= n + 1 THEN v.slots[i] ELSE Null]
                   ELSE v.slots
           m == IF n + 1 >= l THEN 2 * l ELSE l
           slots == [room EXCEPT ![n + 1] = x]
<1>1. n \in Nat /\ l \in Nat /\ n < l /\ v.slots \in Seq(S \cup {Null})
  BY DEF Vector
<1>2. PushBack(v, x) = [size |-> n + 1, slots |-> slots]
  <2> DEFINE s == v.slots
             counted == [v EXCEPT !.size = v.size + 1]
             r == IF counted.size >= Len(v.slots) THEN Enlarge(counted) ELSE counted
  <2>1. v = [size |-> n, slots |-> s]
    BY DEF Vector
  <2> HIDE DEF n, s, l
  <2>2. counted = [size |-> n + 1, slots |-> s]
    BY <2>1
  <2>3. r = [size |-> n + 1, slots |-> room]
    <3>1. Enlarge([size |-> n + 1, slots |-> s]) =
            [size |-> n + 1, slots |-> [i \in 1..2 * l |-> IF i <= n + 1 THEN s[i] ELSE Null]]
      BY DEF Enlarge, s, l
    <3>2. counted.size = n + 1
      BY <2>2
    <3> QED BY <2>1, <2>2, <3>1, <3>2 DEF s, l
  <2> HIDE DEF room
  <2>4. PushBack(v, x) = [r EXCEPT !.slots[v.size + 1] = x]
    BY DEF PushBack
  <2> HIDE DEF r
  <2>5. [r EXCEPT !.slots[n + 1] = x] = [size |-> n + 1, slots |-> [room EXCEPT ![n + 1] = x]]
    BY <2>3
  <2> QED BY <2>4, <2>5 DEF n
<1>3. m \in Nat /\ n + 1 < m
  BY <1>1
<1>4. room \in [1..m -> S \cup {Null}] /\ \A i \in 1..n : room[i] = v.slots[i]
  <2>1. CASE n + 1 >= l
    <3>1. n + 1 = l /\ m = 2 * l
      BY <1>1, <2>1
    <3>2. \A i \in 1..2 * l : i <= n + 1 => v.slots[i] \in S \cup {Null}
      BY <1>1, <3>1
    <3> QED BY <1>1, <2>1, <3>1, <3>2
  <2>2. CASE ~(n + 1 >= l)
    BY <1>1, <2>2
  <2> QED BY <2>1, <2>2
<1> HIDE DEF room, m, n, l
<1>5. /\ slots \in [1..m -> S \cup {Null}] /\ slots[n + 1] = x
      /\ \A i \in 1..n : slots[i] = room[i]
  BY <1>1, <1>3, <1>4
<1>6. slots \in Seq(S \cup {Null}) /\ Len(slots) = m
  <2> HIDE DEF slots
  <2> QED BY <1>3, <1>5
<1> HIDE DEF slots
<1>7. PushBack(v, x) \in Vector(S)
  BY <1>1, <1>2, <1>3, <1>6 DEF Vector
<1> QED BY <1>2, <1>4, <1>5, <1>7 DEF n

LEMMA SetAtIs ==
  ASSUME NEW S, NEW v \in Vector(S), NEW x \in S, NEW i \in 1..v.size
  PROVE  /\ SetAt(v, i, x) \in Vector(S)
         /\ SetAt(v, i, x).size = v.size
         /\ SetAt(v, i, x).slots[i] = x
         /\ \A j \in 1..v.size : j # i => SetAt(v, i, x).slots[j] = v.slots[j]
<1> DEFINE slots == [v.slots EXCEPT ![i] = x]
<1>1. v.size \in Nat /\ v.slots \in Seq(S \cup {Null}) /\ v.size < Len(v.slots)
  BY DEF Vector
<1>2. SetAt(v, i, x) = [size |-> v.size, slots |-> slots]
  <2>1. v = [size |-> v.size, slots |-> v.slots]
    BY DEF Vector
  <2>2. \A n, s : [[size |-> n, slots |-> s] EXCEPT !.slots[i] = x]
                  = [size |-> n, slots |-> [s EXCEPT ![i] = x]]
    OBVIOUS
  <2> QED BY <2>1, <2>2 DEF SetAt
<1>3. /\ slots \in Seq(S \cup {Null}) /\ Len(slots) = Len(v.slots)
      /\ slots[i] = x /\ \A j \in 1..v.size : j # i => slots[j] = v.slots[j]
  BY <1>1
<1> HIDE DEF slots
<1>4. SetAt(v, i, x) \in Vector(S)
  BY <1>1, <1>2, <1>3 DEF Vector
<1> QED BY <1>2, <1>3, <1>4

\* remove_at closes the gap.
LEMMA EraseAtIs ==
  ASSUME NEW S, NEW v \in Vector(S), NEW i \in 1..v.size
  PROVE  /\ EraseAt(v, i) \in Vector(S)
         /\ EraseAt(v, i).size = v.size - 1
         /\ \A j \in 1..(v.size - 1) :
              EraseAt(v, i).slots[j] = IF j < i THEN v.slots[j] ELSE v.slots[j + 1]
<1> DEFINE slots == [j \in DOMAIN v.slots |-> IF j < i THEN v.slots[j]
                                              ELSE IF j < v.size THEN v.slots[j + 1] ELSE Null]
           l == Len(v.slots)
<1>1. /\ v.size \in Nat /\ v.slots \in Seq(S \cup {Null}) /\ v.size < l /\ l \in Nat
      /\ v.size - 1 \in Nat
  BY DEF Vector
<1>2. EraseAt(v, i) = [size |-> v.size - 1, slots |-> slots]
  BY DEF EraseAt
<1>3. \A j \in 1..l : v.slots[j] \in S \cup {Null}
  BY <1>1
<1>4. slots \in [1..l -> S \cup {Null}]
  <2>1. DOMAIN v.slots = 1..l
    BY <1>1
  <2>2. \A j \in 1..l : ~(j < i) /\ j < v.size => j + 1 \in 1..l
    BY <1>1
  <2> QED BY <1>3, <2>1, <2>2
<1>5. \A j \in 1..(v.size - 1) : slots[j] = IF j < i THEN v.slots[j] ELSE v.slots[j + 1]
  BY <1>1
<1>6. slots \in Seq(S \cup {Null}) /\ Len(slots) = l
  <2> HIDE DEF slots, l
  <2> QED BY <1>1, <1>4
<1> HIDE DEF slots
<1>7. EraseAt(v, i) \in Vector(S)
  BY <1>1, <1>2, <1>6 DEF Vector
<1> QED BY <1>2, <1>5, <1>7

--------------------------------------------------------------------------------
(* A bucket: an array of ids beside one of delays. *)

Bucket(k, e, b) ==
  /\ k \in Vector(Ids) /\ e \in Vector(Delays) /\ k.size = e.size
  /\ \A i \in 1..k.size : k.slots[i] \in Ids /\ ~BadIndex(k.slots[i]) /\ Index(k.slots[i]) = b
  /\ \A i, j \in 1..k.size : k.slots[i] = k.slots[j] => i = j

\* What the table says of an id.
Entry(k, e, id) == IF Places(k, id) = {} THEN <<>> ELSE <<e.slots[Min(Places(k, id))]>>

\* An id is in one place at most, so the least place is the place.
LEMMA OnlyPlace ==
  ASSUME NEW k, NEW e, NEW b, Bucket(k, e, b), NEW i \in 1..k.size
  PROVE  /\ Places(k, k.slots[i]) = {i} /\ Min(Places(k, k.slots[i])) = i
         /\ Entry(k, e, k.slots[i]) = <<e.slots[i]>>
<1>1. Places(k, k.slots[i]) = {i}
  BY DEF Places, Bucket
<1>2. Min({i}) = i
  <2>1. i \in Int
    BY DEF Bucket, Vector
  <2> QED BY <2>1 DEF Min
<1> QED BY <1>1, <1>2 DEF Entry

LEMMA NoPlace ==
  ASSUME NEW k, NEW e, NEW id, \A i \in 1..k.size : k.slots[i] # id
  PROVE  Places(k, id) = {} /\ Entry(k, e, id) = <<>>
  BY DEF Places, Entry

\* A place more, for an id that has none.
LEMMA BucketPush ==
  ASSUME NEW k, NEW e, NEW b, Bucket(k, e, b), NEW id \in Ids, NEW d \in Delays,
         ~BadIndex(id), Index(id) = b, Places(k, id) = {}
  PROVE  /\ Bucket(PushBack(k, id), PushBack(e, d), b)
         /\ \A o : Entry(PushBack(k, id), PushBack(e, d), o) =
                     IF o = id THEN <<d>> ELSE Entry(k, e, o)
<1> DEFINE kk == PushBack(k, id)
           ee == PushBack(e, d)
           n == k.size
<1>1. /\ n \in Nat /\ e.size = n
      /\ kk \in Vector(Ids) /\ ee \in Vector(Delays) /\ kk.size = n + 1 /\ ee.size = n + 1
      /\ \A i \in 1..n : kk.slots[i] = k.slots[i] /\ ee.slots[i] = e.slots[i]
      /\ kk.slots[n + 1] = id /\ ee.slots[n + 1] = d
  <2>1. k \in Vector(Ids) /\ e \in Vector(Delays) /\ e.size = n
    BY DEF Bucket
  <2>2. n \in Nat
    BY <2>1 DEF Vector
  <2>3. /\ kk \in Vector(Ids) /\ kk.size = n + 1 /\ kk.slots[n + 1] = id
        /\ \A i \in 1..n : kk.slots[i] = k.slots[i]
    BY <2>1, PushBackIs
  <2>4. /\ ee \in Vector(Delays) /\ ee.size = n + 1 /\ ee.slots[n + 1] = d
        /\ \A i \in 1..n : ee.slots[i] = e.slots[i]
    <3> HIDE DEF n
    <3> QED BY <2>1, PushBackIs
  <2> QED BY <2>1, <2>2, <2>3, <2>4
<1>2. \A i \in 1..(n + 1) : i \in 1..n \/ i = n + 1
  BY <1>1
<1>3. \A i \in 1..n : k.slots[i] # id
  BY DEF Places
<1> HIDE DEF kk, ee
<1>4. Bucket(kk, ee, b)
  <2>1. \A i \in 1..(n + 1) :
          kk.slots[i] \in Ids /\ ~BadIndex(kk.slots[i]) /\ Index(kk.slots[i]) = b
    BY <1>1, <1>2 DEF Bucket
  <2>2. \A i, j \in 1..(n + 1) : kk.slots[i] = kk.slots[j] => i = j
    BY <1>1, <1>2, <1>3 DEF Bucket
  <2> QED BY <1>1, <2>1, <2>2 DEF Bucket
<1>5. ASSUME NEW o PROVE Entry(kk, ee, o) = IF o = id THEN <<d>> ELSE Entry(k, e, o)
  <2>1. CASE o = id
    <3>1. n + 1 \in 1..kk.size /\ kk.slots[n + 1] = o
      BY <1>1, <2>1
    <3> QED BY <3>1, <2>1, <1>1, <1>4, OnlyPlace
  <2>2. CASE o # id /\ \E i \in 1..n : k.slots[i] = o
    <3>1. PICK i \in 1..n : k.slots[i] = o
      BY <2>2
    <3>2. i \in 1..kk.size /\ kk.slots[i] = o /\ ee.slots[i] = e.slots[i]
      BY <1>1, <3>1
    <3>3. Entry(kk, ee, o) = <<ee.slots[i]>> /\ Entry(k, e, o) = <<e.slots[i]>>
      BY <1>4, <3>1, <3>2, OnlyPlace
    <3> QED BY <2>2, <3>2, <3>3
  <2>3. CASE o # id /\ \A i \in 1..n : k.slots[i] # o
    <3>1. \A i \in 1..kk.size : kk.slots[i] # o
      BY <1>1, <1>2, <2>3
    <3> QED BY <2>3, <3>1, NoPlace
  <2> QED BY <2>1, <2>2, <2>3
<1> QED BY <1>4, <1>5 DEF kk, ee

\* Another delay in the place of an id.
LEMMA BucketSet ==
  ASSUME NEW k, NEW e, NEW b, Bucket(k, e, b), NEW i \in 1..k.size, NEW d \in Delays
  PROVE  /\ Bucket(k, SetAt(e, i, d), b)
         /\ \A o : Entry(k, SetAt(e, i, d), o) =
                     IF o = k.slots[i] THEN <<d>> ELSE Entry(k, e, o)
<1> DEFINE ee == SetAt(e, i, d)
           n == k.size
<1>1. /\ ee \in Vector(Delays) /\ ee.size = n /\ ee.slots[i] = d
      /\ \A j \in 1..n : j # i => ee.slots[j] = e.slots[j]
  <2>1. e \in Vector(Delays) /\ e.size = n
    BY DEF Bucket
  <2> QED BY <2>1, SetAtIs
<1> HIDE DEF ee
<1>2. Bucket(k, ee, b)
  BY <1>1 DEF Bucket
<1>3. ASSUME NEW o PROVE Entry(k, ee, o) = IF o = k.slots[i] THEN <<d>> ELSE Entry(k, e, o)
  <2>1. CASE o = k.slots[i]
    BY <2>1, <1>1, <1>2, OnlyPlace
  <2>2. CASE o # k.slots[i] /\ \E j \in 1..n : k.slots[j] = o
    <3>1. PICK j \in 1..n : k.slots[j] = o
      BY <2>2
    <3>2. Entry(k, ee, o) = <<ee.slots[j]>> /\ Entry(k, e, o) = <<e.slots[j]>>
      BY <1>2, <3>1, OnlyPlace
    <3> QED BY <1>1, <2>2, <3>1, <3>2
  <2>3. CASE o # k.slots[i] /\ \A j \in 1..n : k.slots[j] # o
    BY <2>3, NoPlace
  <2> QED BY <2>1, <2>2, <2>3
<1> QED BY <1>2, <1>3 DEF ee

\* An id and its delay go, and those after them move down together.
LEMMA BucketErase ==
  ASSUME NEW k, NEW e, NEW b, Bucket(k, e, b), NEW i \in 1..k.size
  PROVE  /\ Bucket(EraseAt(k, i), EraseAt(e, i), b)
         /\ \A o : Entry(EraseAt(k, i), EraseAt(e, i), o) =
                     IF o = k.slots[i] THEN <<>> ELSE Entry(k, e, o)
<1> DEFINE kk == EraseAt(k, i)
           ee == EraseAt(e, i)
           n == k.size
<1>1. /\ n \in Nat /\ n - 1 \in Nat
      /\ kk \in Vector(Ids) /\ ee \in Vector(Delays) /\ kk.size = n - 1 /\ ee.size = n - 1
      /\ \A j \in 1..(n - 1) : /\ kk.slots[j] = IF j < i THEN k.slots[j] ELSE k.slots[j + 1]
                               /\ ee.slots[j] = IF j < i THEN e.slots[j] ELSE e.slots[j + 1]
  <2>1. k \in Vector(Ids) /\ e \in Vector(Delays) /\ e.size = n /\ n \in Nat
    BY DEF Bucket, Vector
  <2> QED BY <2>1, EraseAtIs
<1> HIDE DEF kk, ee
<1>2. \A j \in 1..(n - 1) :
        \E l \in 1..n : /\ l # i /\ l = IF j < i THEN j ELSE j + 1
                        /\ kk.slots[j] = k.slots[l] /\ ee.slots[j] = e.slots[l]
  <2> SUFFICES ASSUME NEW j \in 1..(n - 1)
               PROVE  \E l \in 1..n : /\ l # i /\ l = IF j < i THEN j ELSE j + 1
                                      /\ kk.slots[j] = k.slots[l] /\ ee.slots[j] = e.slots[l]
    OBVIOUS
  <2> DEFINE l == IF j < i THEN j ELSE j + 1
  <2>1. l \in 1..n /\ l # i
    BY <1>1
  <2> QED BY <1>1, <2>1
<1>3. \A l \in 1..n : l # i => \E j \in 1..(n - 1) : l = IF j < i THEN j ELSE j + 1
  <2> SUFFICES ASSUME NEW l \in 1..n, l # i
               PROVE  \E j \in 1..(n - 1) : l = IF j < i THEN j ELSE j + 1
    OBVIOUS
  <2> DEFINE j == IF l < i THEN l ELSE l - 1
  <2>1. j \in 1..(n - 1) /\ l = IF j < i THEN j ELSE j + 1
    BY <1>1
  <2> QED BY <2>1
<1>4. Bucket(kk, ee, b)
  <2>1. \A j \in 1..(n - 1) :
          kk.slots[j] \in Ids /\ ~BadIndex(kk.slots[j]) /\ Index(kk.slots[j]) = b
    BY <1>2 DEF Bucket
  <2>2. ASSUME NEW j \in 1..(n - 1), NEW m \in 1..(n - 1), kk.slots[j] = kk.slots[m]
        PROVE  j = m
    <3>1. PICK l \in 1..n : l = (IF j < i THEN j ELSE j + 1) /\ kk.slots[j] = k.slots[l]
      BY <1>2
    <3>2. PICK r \in 1..n : r = (IF m < i THEN m ELSE m + 1) /\ kk.slots[m] = k.slots[r]
      BY <1>2
    <3>3. l = r
      BY <2>2, <3>1, <3>2 DEF Bucket
    <3> QED BY <1>1, <3>1, <3>2, <3>3
  <2> QED BY <1>1, <2>1, <2>2 DEF Bucket
<1>5. ASSUME NEW o PROVE Entry(kk, ee, o) = IF o = k.slots[i] THEN <<>> ELSE Entry(k, e, o)
  <2>1. CASE o = k.slots[i]
    <3>1. \A j \in 1..(n - 1) : kk.slots[j] # o
      BY <1>2, <2>1 DEF Bucket
    <3> QED BY <1>1, <2>1, <3>1, NoPlace
  <2>2. CASE o # k.slots[i] /\ \E l \in 1..n : k.slots[l] = o
    <3>1. PICK l \in 1..n : k.slots[l] = o /\ l # i
      BY <2>2
    <3>2. PICK j \in 1..(n - 1) : l = IF j < i THEN j ELSE j + 1
      BY <1>3, <3>1
    <3>3. kk.slots[j] = o /\ ee.slots[j] = e.slots[l]
      BY <1>1, <3>1, <3>2
    <3>4. Entry(kk, ee, o) = <<ee.slots[j]>> /\ Entry(k, e, o) = <<e.slots[l]>>
      BY <1>1, <1>4, <3>1, <3>3, OnlyPlace
    <3> QED BY <2>2, <3>3, <3>4
  <2>3. CASE o # k.slots[i] /\ \A l \in 1..n : k.slots[l] # o
    <3>1. \A j \in 1..(n - 1) : kk.slots[j] # o
      BY <1>2, <2>3
    <3> QED BY <1>1, <2>3, <3>1, NoPlace
  <2> QED BY <2>1, <2>2, <2>3
<1> QED BY <1>4, <1>5 DEF kk, ee

--------------------------------------------------------------------------------
(* The table. *)

\* What holds of the table, and is kept by its operations.
Table ==
  /\ keys \in [0..(Buckets - 1) -> Vector(Ids)]
  /\ entries \in [0..(Buckets - 1) -> Vector(Delays)]
  /\ \A b \in 0..(Buckets - 1) : Bucket(keys[b], entries[b], b)
  /\ usable \in BOOLEAN

\* What the table says of an id, in the bucket of the id.
Said(ks, es, id) == Entry(ks[Index(id)], es[Index(id)], id)

\* A step that replaces one bucket, by one that says something else of one id.
LEMMA OneBucket ==
  ASSUME Table, NEW id \in Ids, NEW k, NEW e, NEW r,
         Bucket(k, e, Index(id)),
         \A o : Entry(k, e, o) = IF o = id THEN r
                                 ELSE Entry(keys[Index(id)], entries[Index(id)], o),
         keys' = [keys EXCEPT ![Index(id)] = k],
         entries' = [entries EXCEPT ![Index(id)] = e],
         usable' = usable
  PROVE  /\ Table'
         /\ \A o \in Ids : Said(keys', entries', o) = IF o = id THEN r
                                                      ELSE Said(keys, entries, o)
<1>1. Index(id) \in 0..(Buckets - 1)
  BY IndexType
<1>2. \A b \in 0..(Buckets - 1) : /\ keys'[b] = IF b = Index(id) THEN k ELSE keys[b]
                                  /\ entries'[b] = IF b = Index(id) THEN e ELSE entries[b]
  BY DEF Table
<1>3. Table'
  <2>1. k \in Vector(Ids) /\ e \in Vector(Delays)
    BY DEF Bucket
  <2>2. /\ keys' \in [0..(Buckets - 1) -> Vector(Ids)]
        /\ entries' \in [0..(Buckets - 1) -> Vector(Delays)]
    BY <2>1 DEF Table
  <2>3. \A b \in 0..(Buckets - 1) : Bucket(keys'[b], entries'[b], b)
    BY <1>2 DEF Table
  <2> QED BY <2>2, <2>3 DEF Table
<1>4. ASSUME NEW o \in Ids
      PROVE  Said(keys', entries', o) = IF o = id THEN r ELSE Said(keys, entries, o)
  <2>1. Index(o) \in 0..(Buckets - 1)
    BY IndexType
  <2> QED BY <1>1, <1>2, <2>1 DEF Said
<1> QED BY <1>3, <1>4

\* An id that is known has one place, which is the one that the operations use.
LEMMA KnownPlace ==
  ASSUME Table, NEW id \in Ids, Known(id)
  PROVE  \E i \in 1..keys[Index(id)].size :
           /\ keys[Index(id)].slots[i] = id /\ Min(Places(keys[Index(id)], id)) = i
           /\ Said(keys, entries, id) = <<entries[Index(id)].slots[i]>>
<1> DEFINE k == keys[Index(id)]
           e == entries[Index(id)]
<1>1. PICK i \in 1..k.size : k.slots[i] = id
  BY DEF Known, Places
<1>2. Bucket(k, e, Index(id))
  BY IndexType DEF Table
<1>3. Min(Places(k, id)) = i /\ Entry(k, e, id) = <<e.slots[i]>>
  <2> HIDE DEF k, e
  <2> QED BY <1>1, <1>2, OnlyPlace
<1> QED BY <1>1, <1>3 DEF Said

\* insert_key changes what the table says of the id, and of no other.
LEMMA TableInsert ==
  ASSUME Table, NEW id \in Ids, NEW d \in Delays, Insert(id, d)
  PROVE  /\ Table'
         /\ \A o \in Ids : Said(keys', entries', o) = IF o = id THEN <<d>>
                                                      ELSE Said(keys, entries, o)
<1> DEFINE b == Index(id)
           k == keys[b]
           e == entries[b]
<1>1. b \in 0..(Buckets - 1) /\ Bucket(k, e, b) /\ ~BadIndex(id) /\ usable' = usable
  BY IndexType DEF Table, Insert
<1>2. CASE Known(id)
  <2>1. PICK i \in 1..k.size : k.slots[i] = id /\ Min(Places(k, id)) = i
    BY <1>2, KnownPlace
  <2>2. entries' = [entries EXCEPT ![b] = SetAt(e, i, d)] /\ keys' = keys
    BY <1>1, <1>2, <2>1 DEF Insert, SetKey, Table
  <2>3. keys' = [keys EXCEPT ![b] = k]
    BY <1>1, <2>2 DEF Table
  <2>4. /\ Bucket(k, SetAt(e, i, d), b)
        /\ \A o : Entry(k, SetAt(e, i, d), o) = IF o = id THEN <<d>> ELSE Entry(k, e, o)
    <3> HIDE DEF k, e, b
    <3> QED BY <1>1, <2>1, BucketSet
  <2> QED BY <1>1, <2>2, <2>3, <2>4, OneBucket
<1>3. CASE ~Known(id)
  <2>1. Places(k, id) = {}
    BY <1>3 DEF Known
  <2>2. /\ keys' = [keys EXCEPT ![b] = PushBack(k, id)]
        /\ entries' = [entries EXCEPT ![b] = PushBack(e, d)]
    BY <1>1, <1>3 DEF Insert, Table
  <2>3. /\ Bucket(PushBack(k, id), PushBack(e, d), b)
        /\ \A o : Entry(PushBack(k, id), PushBack(e, d), o) =
                    IF o = id THEN <<d>> ELSE Entry(k, e, o)
    <3>1. Index(id) = b
      OBVIOUS
    <3> HIDE DEF k, e, b
    <3> QED BY <1>1, <2>1, <3>1, BucketPush
  <2> QED BY <1>1, <2>2, <2>3, OneBucket
<1> QED BY <1>2, <1>3

\* remove_key leaves nothing said of the id, and the others as they are.
LEMMA TableRemove ==
  ASSUME Table, NEW id \in Ids, RemoveKey(id)
  PROVE  /\ Table'
         /\ \A o \in Ids : Said(keys', entries', o) = IF o = id THEN <<>>
                                                      ELSE Said(keys, entries, o)
<1> DEFINE b == Index(id)
           k == keys[b]
           e == entries[b]
<1>1. b \in 0..(Buckets - 1) /\ Bucket(k, e, b) /\ usable' = usable
  BY IndexType DEF Table, RemoveKey
<1>2. CASE Known(id)
  <2>1. PICK i \in 1..k.size : k.slots[i] = id /\ Min(Places(k, id)) = i
    BY <1>2, KnownPlace
  <2>2. /\ keys' = [keys EXCEPT ![b] = EraseAt(k, i)]
        /\ entries' = [entries EXCEPT ![b] = EraseAt(e, i)]
    BY <1>1, <1>2, <2>1 DEF RemoveKey, Table
  <2>3. /\ Bucket(EraseAt(k, i), EraseAt(e, i), b)
        /\ \A o : Entry(EraseAt(k, i), EraseAt(e, i), o) =
                    IF o = id THEN <<>> ELSE Entry(k, e, o)
    <3> HIDE DEF k, e, b
    <3> QED BY <1>1, <2>1, BucketErase
  <2> QED BY <1>1, <2>2, <2>3, OneBucket
<1>3. CASE ~Known(id)
  <2>1. UNCHANGED tableVars
    BY <1>3 DEF RemoveKey
  <2>2. Said(keys, entries, id) = <<>>
    BY <1>3 DEF Known, Said, Entry
  <2> QED BY <2>1, <2>2 DEF Table
<1> QED BY <1>2, <1>3

LEMMA TableInit == Init => Table
<1> SUFFICES ASSUME Init PROVE Table
  OBVIOUS
<1>1. \A S : EmptyVector \in Vector(S) /\ EmptyVector.size = 0
  BY EmptyIsVector
<1>2. \A b : Bucket(EmptyVector, EmptyVector, b)
  BY <1>1 DEF Bucket
<1> QED BY <1>1, <1>2 DEF Init, Table

LEMMA TableNext == Table /\ [Next]_vars => Table'
<1> SUFFICES ASSUME Table, [Next]_vars PROVE Table'
  OBVIOUS
<1>1. ASSUME NEW id \in Ids, NEW d \in Delays, Insert(id, d) PROVE Table'
  BY <1>1, TableInsert
<1>2. ASSUME NEW id \in Ids, RemoveKey(id) PROVE Table'
  BY <1>2, TableRemove
<1>3. ASSUME NEW id \in Ids, GetThrows(id) PROVE Table'
  BY <1>3 DEF GetThrows, Table
<1>4. CASE UNCHANGED tableVars
  BY <1>4 DEF Table
<1>5. Pop \/ PopThrows \/ PushThrows => UNCHANGED tableVars
  BY DEF Pop, PopThrows, PushThrows
<1>6. \A c \in Conns : Push(c) => UNCHANGED tableVars
  BY DEF Push
<1>7. \A id \in Ids : (\E d \in Delays : InsertRefused(id, d)) \/ Get(id) => UNCHANGED tableVars
  BY DEF InsertRefused, Get
<1> QED BY <1>1, <1>2, <1>3, <1>4, <1>5, <1>6, <1>7 DEF Next

LEMMA TableInvariant == Spec => []Table
  BY TableInit, TableNext, PTL DEF Spec

--------------------------------------------------------------------------------

\* The heap, the fields of the queue and the sizes of the arrays are of their types.
THEOREM TypeCorrect == Spec => []TypeOK
<1>1. Queue /\ Table => TypeOK
  <2> SUFFICES ASSUME Queue, Table PROVE TypeOK
    OBVIOUS
  <2>1. head \in Nodes \cup {Null}
    <3>1. PICK p : IsPath(p)
      BY DEF Queue
    <3>2. count # 0 => 1 \in 1..count
      BY DEF Queue
    <3> QED BY <3>1, <3>2 DEF IsPath, Queue
  <2>2. \A b \in 0..(Buckets - 1) : keys[b].size \in Nat /\ entries[b].size \in Nat
    BY DEF Table, Vector
  <2>3. /\ DOMAIN heap \subseteq Nodes
        /\ \A n \in DOMAIN heap :
             heap[n] \in [entry : Conns, next : Nodes \cup {Null}, prev : Nodes \cup {Null}]
    BY DEF Queue, Node
  <2> QED BY <2>1, <2>2, <2>3 DEF TypeOK, Queue, Table
<1> QED BY <1>1, QueueInvariant, TableInvariant, PTL

\* The two arrays of every bucket stay side by side, with a place to spare, and an id
\* is in one place only, of its own bucket, for every hash, every number of buckets
\* and every set of ids.
THEOREM BucketsStayApart == Spec => []BucketsAgree
<1>1. Table => BucketsAgree
  <2> SUFFICES ASSUME Table, NEW b \in 0..(Buckets - 1)
               PROVE  /\ keys[b].size = entries[b].size
                      /\ keys[b].size < Len(keys[b].slots)
                      /\ entries[b].size < Len(entries[b].slots)
                      /\ IsInjective(Elements(keys[b]))
                      /\ \A id \in ToSet(Elements(keys[b])) : ~BadIndex(id) /\ Index(id) = b
    BY DEF BucketsAgree
  <2> DEFINE k == keys[b]
             e == entries[b]
  <2>1. Bucket(k, e, b)
    BY DEF Table
  <2> HIDE DEF k, e
  <2>2. /\ k.size \in Nat /\ k.size < Len(k.slots) /\ k.slots \in Seq(Ids \cup {Null})
        /\ e.size < Len(e.slots) /\ k.size = e.size
    BY <2>1 DEF Bucket, Vector
  <2>3. Elements(k) = [i \in 1..k.size |-> k.slots[i]]
    BY <2>2 DEF Elements
  <2>4. IsInjective(Elements(k))
    BY <2>1, <2>3 DEF Bucket, IsInjective
  <2>5. \A id \in ToSet(Elements(k)) : ~BadIndex(id) /\ Index(id) = b
    BY <2>1, <2>3 DEF Bucket, ToSet
  <2> QED BY <2>2, <2>4, <2>5 DEF k, e
<1> QED BY <1>1, TableInvariant, PTL

--------------------------------------------------------------------------------
(* The list and the table implement ContentData. *)

\* What an id that is not refused is mapped to is what the table says of it.
LEMMA DelayIsSaid ==
  (\A id \in Ids : DelayOf(id) = IF BadIndex(id) THEN <<>> ELSE Said(keys, entries, id))
  BY DEF DelayOf, Known, Said, Entry

LEMMA DelayIsSaidPrimed ==
  (\A id \in Ids : DelayOf(id) = IF BadIndex(id) THEN <<>> ELSE Said(keys, entries, id))'
  BY DelayIsSaid, PTL

\* A step that leaves the queue, or the table, leaves what it is mapped to.
LEMMA ContentsKept == UNCHANGED queueVars => Contents' = Contents
  BY DEF Contents

LEMMA DelaysKept ==
  UNCHANGED tableVars => [id \in Ids |-> DelayOf(id)'] = [id \in Ids |-> DelayOf(id)]
  BY DEF DelayOf, Known

\* An entry of the abstract table changes with what the table says of the id.
LEMMA DelaysChanged ==
  ASSUME NEW id \in Ids, ~BadIndex(id), NEW r,
         \A o \in Ids : Said(keys', entries', o) = IF o = id THEN r ELSE Said(keys, entries, o)
  PROVE  [o \in Ids |-> DelayOf(o)'] = [[o \in Ids |-> DelayOf(o)] EXCEPT ![id] = r]
<1>1. ASSUME NEW o \in Ids PROVE DelayOf(o)' = IF o = id THEN r ELSE DelayOf(o)
  <2>1. DelayOf(o) = IF BadIndex(o) THEN <<>> ELSE Said(keys, entries, o)
    BY DelayIsSaid
  <2>2. DelayOf(o)' = IF BadIndex(o) THEN <<>> ELSE Said(keys', entries', o)
    BY DelayIsSaidPrimed
  <2> QED BY <2>1, <2>2
<1> QED BY <1>1

LEMMA AbstractInit == Init => Abs!Init
<1> SUFFICES ASSUME Init PROVE Abs!Init
  OBVIOUS
<1>1. Queue /\ Table /\ count = 0
  BY QueueInit, TableInit DEF Init
<1>2. Contents = <<>>
  BY <1>1, ContentsType
<1>3. ASSUME NEW id \in Ids PROVE DelayOf(id) = <<>>
  <2>1. keys[Index(id)] = EmptyVector
    BY IndexType DEF Init
  <2>2. Places(EmptyVector, id) = {}
    BY DEF Places, EmptyVector
  <2> QED BY <2>1, <2>2 DEF DelayOf, Known
<1> QED BY <1>2, <1>3 DEF Init, Abs!Init

\* Every operation on the queue is one on the abstract queue.
LEMMA AbstractPush ==
  ASSUME Queue, NEW c \in Conns, Push(c)
  PROVE  Abs!Push(c)
<1>1. Contents \in Seq(Conns) /\ Len(Contents) = count /\ count \in 0..Capacity
  BY ContentsType DEF Queue
<1>2. count # Capacity /\ Capacity \in Nat
  BY CapacityAssumption DEF Push
<1>3. Len(Contents) < Capacity
  BY <1>1, <1>2
<1>4. Contents' = Append(Contents, c)
  BY ContentsPush
<1>5. UNCHANGED tableVars /\ result' = <<"push">>
  BY DEF Push
<1>6. [id \in Ids |-> DelayOf(id)'] = [id \in Ids |-> DelayOf(id)]
  BY <1>5, DelaysKept
<1> QED BY <1>3, <1>4, <1>5, <1>6 DEF Abs!Push

LEMMA AbstractPushThrows ==
  ASSUME Queue, PushThrows
  PROVE  \E c \in Conns : Abs!Push(c)
<1>1. Contents \in Seq(Conns) /\ Len(Contents) = count /\ count = Capacity
  BY ContentsType DEF PushThrows
<1>2. Capacity \in Nat \ {0}
  BY CapacityAssumption
<1>3. ~(Len(Contents) < Capacity)
  BY <1>1, <1>2
<1>4. Contents[1] \in Conns
  BY <1>1, <1>2
<1>5. UNCHANGED queueVars /\ UNCHANGED tableVars /\ result' = <<"push", "throws">>
  BY DEF PushThrows
<1>6. /\ Contents' = Contents
      /\ [id \in Ids |-> DelayOf(id)'] = [id \in Ids |-> DelayOf(id)]
  BY <1>5, ContentsKept, DelaysKept
<1> QED BY <1>3, <1>4, <1>5, <1>6 DEF Abs!Push

LEMMA AbstractPop ==
  ASSUME Queue, Pop \/ PopThrows
  PROVE  Abs!Pop
<1>1. UNCHANGED tableVars
  BY DEF Pop, PopThrows
<1>2. [id \in Ids |-> DelayOf(id)'] = [id \in Ids |-> DelayOf(id)]
  BY <1>1, DelaysKept
<1>3. CASE Pop
  <2>1. Contents # <<>> /\ result' = <<"pop", Head(Contents)>> /\ Contents' = Tail(Contents)
    BY <1>3, ContentsPop
  <2> QED BY <1>1, <1>2, <2>1 DEF Abs!Pop
<1>4. CASE PopThrows
  <2>1. UNCHANGED queueVars /\ head = Null /\ result' = <<"pop", "throws">>
    BY <1>4 DEF PopThrows
  <2>2. Contents \in Seq(Conns) /\ Len(Contents) = count /\ count \in Nat
    BY ContentsType
  <2>3. count = 0
    <3>1. PICK p : IsPath(p)
      BY DEF Queue
    <3>2. count # 0 => head \in Nodes
      BY <2>2, <3>1 DEF IsPath, Queue
    <3> QED BY <2>1, <3>2, NullAssumption
  <2>4. Contents = <<>>
    BY <2>2, <2>3
  <2>5. Contents' = Contents
    BY <2>1, ContentsKept
  <2> QED BY <1>1, <1>2, <2>1, <2>4, <2>5 DEF Abs!Pop
<1> QED BY <1>3, <1>4

\* Every operation on the table is one on the abstract table.
LEMMA AbstractInsert ==
  ASSUME Table, NEW id \in Ids, NEW d \in Delays, Insert(id, d)
  PROVE  Abs!Insert(id, d)
<1>1. /\ usable /\ usable' = usable /\ ~BadIndex(id) /\ result' = <<"insert", id, d>>
      /\ UNCHANGED queueVars
  BY DEF Insert
<1>2. Contents' = Contents
  BY <1>1, ContentsKept
<1>3. [o \in Ids |-> DelayOf(o)'] = [[o \in Ids |-> DelayOf(o)] EXCEPT ![id] = <<d>>]
  BY <1>1, TableInsert, DelaysChanged
<1> QED BY <1>1, <1>2, <1>3 DEF Abs!Insert

LEMMA AbstractRefused ==
  ASSUME NEW id \in Ids, NEW d \in Delays, InsertRefused(id, d)
  PROVE  Abs!Insert(id, d)
<1>1. /\ usable /\ usable' = usable /\ BadIndex(id) /\ result' = <<"insert", id, d>>
      /\ UNCHANGED queueVars /\ UNCHANGED tableVars
  BY DEF InsertRefused
<1>2. /\ Contents' = Contents
      /\ [o \in Ids |-> DelayOf(o)'] = [o \in Ids |-> DelayOf(o)]
  BY <1>1, ContentsKept, DelaysKept
<1> QED BY <1>1, <1>2 DEF Abs!Insert

LEMMA AbstractGet ==
  ASSUME Table, NEW id \in Ids, Get(id)
  PROVE  Abs!Get(id)
<1> DEFINE b == Index(id)
           k == keys[b]
           e == entries[b]
<1>1. /\ usable /\ usable' = usable /\ ~BadIndex(id)
      /\ UNCHANGED queueVars /\ UNCHANGED tableVars
  BY DEF Get
<1>2. /\ Contents' = Contents
      /\ [o \in Ids |-> DelayOf(o)'] = [o \in Ids |-> DelayOf(o)]
  BY <1>1, ContentsKept, DelaysKept
<1>3. k.size = e.size
  BY IndexType DEF Table, Bucket
<1>4. result' = <<"get", id, Entry(k, e, id)>>
  <2>1. {i \in 1..e.size : k.slots[i] = id} = Places(k, id)
    BY <1>3 DEF Places
  <2> QED BY <2>1 DEF Get, Entry
<1>5. result' = <<"get", id, DelayOf(id)>>
  BY <1>1, <1>4, DelayIsSaid DEF Said
<1>6. [o \in Ids |-> DelayOf(o)][id] = DelayOf(id)
  OBVIOUS
<1> QED BY <1>1, <1>2, <1>5, <1>6 DEF Abs!Get

LEMMA AbstractGetThrows ==
  ASSUME NEW id \in Ids, GetThrows(id)
  PROVE  Abs!Get(id)
<1>1. /\ usable /\ usable' = FALSE /\ BadIndex(id) /\ result' = <<"get", id, <<"throws">> >>
      /\ UNCHANGED queueVars /\ keys' = keys /\ entries' = entries
  BY DEF GetThrows
<1>2. Contents' = Contents
  BY <1>1, ContentsKept
<1>3. [o \in Ids |-> DelayOf(o)'] = [o \in Ids |-> DelayOf(o)]
  BY <1>1 DEF DelayOf, Known
<1> QED BY <1>1, <1>2, <1>3 DEF Abs!Get

LEMMA AbstractRemove ==
  ASSUME Table, NEW id \in Ids, RemoveKey(id)
  PROVE  Abs!Remove(id)
<1>1. /\ usable /\ usable' = usable /\ ~BadIndex(id) /\ result' = <<"remove", id>>
      /\ UNCHANGED queueVars
  BY DEF RemoveKey
<1>2. Contents' = Contents
  BY <1>1, ContentsKept
<1>3. [o \in Ids |-> DelayOf(o)'] = [[o \in Ids |-> DelayOf(o)] EXCEPT ![id] = <<>>]
  BY <1>1, TableRemove, DelaysChanged
<1> QED BY <1>1, <1>2, <1>3 DEF Abs!Remove

LEMMA AbstractNext ==
  ASSUME Queue, Table, [Next]_vars
  PROVE  [Abs!Next]_(Abs!vars)
<1>1. ASSUME Pop \/ PopThrows PROVE Abs!Next
  BY <1>1, AbstractPop DEF Abs!Next
<1>2. ASSUME PushThrows PROVE Abs!Next
  BY <1>2, AbstractPushThrows DEF Abs!Next
<1>3. ASSUME NEW c \in Conns, Push(c) PROVE Abs!Next
  BY <1>3, AbstractPush DEF Abs!Next
<1>4. ASSUME NEW id \in Ids, NEW d \in Delays, Insert(id, d) PROVE Abs!Next
  BY <1>4, AbstractInsert DEF Abs!Next
<1>5. ASSUME NEW id \in Ids, NEW d \in Delays, InsertRefused(id, d) PROVE Abs!Next
  BY <1>5, AbstractRefused DEF Abs!Next
<1>6. ASSUME NEW id \in Ids, Get(id) PROVE Abs!Next
  BY <1>6, AbstractGet DEF Abs!Next
<1>7. ASSUME NEW id \in Ids, GetThrows(id) PROVE Abs!Next
  BY <1>7, AbstractGetThrows DEF Abs!Next
<1>8. ASSUME NEW id \in Ids, RemoveKey(id) PROVE Abs!Next
  BY <1>8, AbstractRemove DEF Abs!Next
<1>9. CASE UNCHANGED vars
  <2>1. UNCHANGED queueVars /\ UNCHANGED tableVars /\ UNCHANGED result
    BY <1>9
  <2>2. /\ Contents' = Contents
        /\ [o \in Ids |-> DelayOf(o)'] = [o \in Ids |-> DelayOf(o)]
    BY <2>1, ContentsKept, DelaysKept
  <2> QED BY <2>1, <2>2 DEF Abs!vars
<1> QED BY <1>1, <1>2, <1>3, <1>4, <1>5, <1>6, <1>7, <1>8, <1>9 DEF Next

\* The linked list and the hash table are the bounded queue and the table of delays
\* that the threads of the Content Server are modelled with, step by step.
THEOREM DataImplementsContent == Spec => Implements
<1>1. Queue /\ Table /\ [Next]_vars => [Abs!Next]_(Abs!vars)
  BY AbstractNext
<1>2. Spec => [](Queue /\ Table)
  BY QueueInvariant, TableInvariant, PTL
<1> QED BY <1>1, <1>2, AbstractInit, PTL DEF Spec, Implements, Abs!Spec

================================================================================
