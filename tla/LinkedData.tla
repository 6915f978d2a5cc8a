------------------------------- MODULE LinkedData -------------------------------
(***************************************************************************)
(* The data that the threads of the Content Server share, as they are      *)
(* built: the queue is a doubly linked list (queue.cpp), the table an      *)
(* array of buckets, each a growing array of ids beside one of delays      *)
(* (hash_table.cpp, my_vector.cpp).  Every operation is called under a     *)
(* mutex, _q_mtx or _h_mtx, and is one step.                               *)
(***************************************************************************)
EXTENDS Integers, SequencesExt

CONSTANTS
  Nodes,        \* where new may put a queue_node
  Conns,        \* what is queued
  Capacity,     \* _max (256 in the program)
  Ids,          \* ids, as the sequences of their characters
  Delays,
  Buckets,      \* _size of the table (30 in the program)
  Seed,         \* the first value of the hash (5381 in the program)
  IntMax,       \* the largest int
  Null          \* no node; what an array holds where nothing was put

ASSUME CapacityAssumption == Capacity \in Nat \ {0}
ASSUME BucketsAssumption  == Buckets \in Nat \ {0}
ASSUME IdsAssumption      == Ids \subseteq Seq(Nat)
ASSUME IntAssumption      == IntMax \in Nat \ {0} /\ Seed \in -(IntMax + 1)..IntMax
ASSUME NullAssumption     == Null \notin Nodes

VARIABLES
  heap,         \* the queue_nodes that are allocated
  head, last,   \* _head, _last
  count,        \* _size
  keys,         \* _keys
  entries,      \* _entries
  result,       \* the last call and what it returned
  usable        \* FALSE once a worker has gone on with _h_mtx locked

queueVars == <<heap, head, last, count>>
tableVars == <<keys, entries, usable>>
vars == <<queueVars, tableVars, result>>

--------------------------------------------------------------------------------
(* my_vector *)

EmptyVector == [size |-> 0, slots |-> <<Null>>]

\* _enlarge copies the elements, of which _size already counts the new one.
Enlarge(v) ==
  LET capacity == Len(v.slots)
  IN  [v EXCEPT !.slots = [i \in 1..2 * capacity |-> IF i <= v.size THEN v.slots[i] ELSE Null]]

\* push puts the element at _last, which is _size unless a vector was assigned to.
PushBack(v, x) ==
  LET counted == [v EXCEPT !.size = v.size + 1]
      room    == IF counted.size >= Len(v.slots) THEN Enlarge(counted) ELSE counted
  IN  [room EXCEPT !.slots[v.size + 1] = x]

SetAt(v, i, x) == [v EXCEPT !.slots[i] = x]

\* remove_at moves the elements after i down.
EraseAt(v, i) ==
  [size  |-> v.size - 1,
   slots |-> [j \in DOMAIN v.slots |-> IF j < i THEN v.slots[j]
                                       ELSE IF j < v.size THEN v.slots[j + 1] ELSE Null]]

Elements(v) == SubSeq(v.slots, 1, v.size)

\* Where the element is, for each place that it has.
Places(v, x) == {i \in 1..v.size : v.slots[i] = x}

--------------------------------------------------------------------------------
(* hash_table *)

WrapInt(n) == ((n + IntMax + 1) % (2 * IntMax + 2)) - (IntMax + 1)

\* _hash_func: hash * 33 + c, and the opposite of what is negative, in an int.
Hash ==
  [id \in Ids |->
    LET h == FoldLeft(LAMBDA hash, c : WrapInt(33 * hash + c), Seed, id)
    IN  IF h > 0 THEN h ELSE WrapInt(-h)]

\* The opposite of the least int is itself, and its remainder is negative.
BadIndex(id) == Hash[id] = -(IntMax + 1) /\ (IntMax + 1) % Buckets # 0
Index(id)    == Hash[id] % Buckets

Known(id) == Places(keys[Index(id)], id) # {}

SetKey(id, d) ==
  /\ LET i == Min(Places(keys[Index(id)], id))
     IN  entries' = [entries EXCEPT ![Index(id)] = SetAt(@, i, d)]
  /\ UNCHANGED keys

--------------------------------------------------------------------------------
(* queue_node *)

\* What is allocated once n is, a new one with prev before it.
WithNode(allocated, n, prev, c) ==
  [k \in {n} \cup DOMAIN allocated |->
     IF k = n THEN [entry |-> c, next |-> Null, prev |-> prev] ELSE allocated[k]]

NextSet(n, next) ==
  [k \in DOMAIN heap |-> IF k = n THEN [heap[k] EXCEPT !.next = next] ELSE heap[k]]

PrevCleared(n) ==
  [k \in DOMAIN heap |-> IF k = n THEN [heap[k] EXCEPT !.prev = Null] ELSE heap[k]]

Init ==
  /\ heap = <<>> /\ head = Null /\ last = Null /\ count = 0
  /\ keys = [b \in 0..(Buckets - 1) |-> EmptyVector]
  /\ entries = [b \in 0..(Buckets - 1) |-> EmptyVector]
  /\ result = <<>> /\ usable = TRUE

--------------------------------------------------------------------------------
(* Faulty forms of some of the actions below, for the properties to reject. *)

PushUnchecked(c) ==
  /\ \E n \in Nodes \ DOMAIN heap :
       IF head = Null
       THEN heap' = WithNode(heap, n, Null, c) /\ head' = n /\ last' = n
       ELSE /\ heap' = WithNode(NextSet(last, n), n, last, c)
            /\ last' = n /\ UNCHANGED head
  /\ count' = count + 1
  /\ result' = <<"push">>
  /\ UNCHANGED tableVars

PushTestsLast(c) ==
  /\ count # Capacity
  /\ \E n \in Nodes \ DOMAIN heap :
       IF last = Null
       THEN heap' = WithNode(heap, n, Null, c) /\ head' = n /\ last' = n
       ELSE /\ heap' = WithNode(NextSet(last, n), n, last, c)
            /\ last' = n /\ UNCHANGED head
  /\ count' = count + 1
  /\ result' = <<"push">>
  /\ UNCHANGED tableVars

InsertTwice(id, d) ==
  /\ usable /\ ~BadIndex(id)
  /\ keys' = [keys EXCEPT ![Index(id)] = PushBack(@, id)]
  /\ entries' = [entries EXCEPT ![Index(id)] = PushBack(@, d)]
  /\ result' = <<"insert", id, d>>
  /\ UNCHANGED <<queueVars, usable>>

InsertKeepsDelay(id, d) ==
  /\ usable /\ ~BadIndex(id)
  /\ IF Known(id)
     THEN UNCHANGED <<keys, entries>>
     ELSE /\ keys' = [keys EXCEPT ![Index(id)] = PushBack(@, id)]
          /\ entries' = [entries EXCEPT ![Index(id)] = PushBack(@, d)]
  /\ result' = <<"insert", id, d>>
  /\ UNCHANGED <<queueVars, usable>>

--------------------------------------------------------------------------------
(* queue *)

Push(c) ==
  /\ count # Capacity
  /\ \E n \in Nodes \ DOMAIN heap :
       IF head = Null
       THEN heap' = WithNode(heap, n, Null, c) /\ head' = n /\ last' = n
       ELSE /\ heap' = WithNode(NextSet(last, n), n, last, c)
            /\ last' = n /\ UNCHANGED head
  /\ count' = count + 1
  /\ result' = <<"push">>
  /\ UNCHANGED tableVars

PushThrows ==
  /\ count = Capacity
  /\ result' = <<"push", "throws">>
  /\ UNCHANGED <<queueVars, tableVars>>

\* The node at the head is freed.  _last is left as it is, also when it was that node.
Pop ==
  /\ head # Null
  /\ result' = <<"pop", heap[head].entry>>
  /\ head' = heap[head].next
  /\ heap' = [n \in DOMAIN heap \ {head} |-> PrevCleared(head')[n]]
  /\ count' = count - 1
  /\ UNCHANGED <<last, tableVars>>

PopThrows ==
  /\ head = Null
  /\ result' = <<"pop", "throws">>
  /\ UNCHANGED <<queueVars, tableVars>>

--------------------------------------------------------------------------------
(* The table, as the workers use it.  _h_mtx is free while usable. *)

\* insert_key.
Insert(id, d) ==
  /\ usable /\ ~BadIndex(id)
  /\ IF Known(id)
     THEN SetKey(id, d)
     ELSE /\ keys' = [keys EXCEPT ![Index(id)] = PushBack(@, id)]
          /\ entries' = [entries EXCEPT ![Index(id)] = PushBack(@, d)]
  /\ result' = <<"insert", id, d>>
  /\ UNCHANGED <<queueVars, usable>>

\* "Bad index", and nothing is inserted.
InsertRefused(id, d) ==
  /\ usable /\ BadIndex(id)
  /\ result' = <<"insert", id, d>>
  /\ UNCHANGED <<queueVars, tableVars>>

\* get_key goes through the entries and compares the keys at their places.
Get(id) ==
  /\ usable /\ ~BadIndex(id)
  /\ LET v      == entries[Index(id)]
         places == {i \in 1..v.size : keys[Index(id)].slots[i] = id}
     IN  result' = <<"get", id, IF places = {} THEN <<>> ELSE <<v.slots[Min(places)]>> >>
  /\ UNCHANGED <<queueVars, tableVars>>

\* get_key throws, and the handler (content_manager.cpp:149) leaves _h_mtx locked.
GetThrows(id) ==
  /\ usable /\ BadIndex(id)
  /\ result' = <<"get", id, <<"throws">> >>
  /\ usable' = FALSE
  /\ UNCHANGED <<queueVars, keys, entries>>

\* remove_key, which nothing calls; it does not look at the sign of the index.
RemoveKey(id) ==
  /\ usable /\ ~BadIndex(id)
  /\ IF Known(id)
     THEN LET i == Min(Places(keys[Index(id)], id))
          IN  /\ keys' = [keys EXCEPT ![Index(id)] = EraseAt(@, i)]
              /\ entries' = [entries EXCEPT ![Index(id)] = EraseAt(@, i)]
     ELSE UNCHANGED <<keys, entries>>
  /\ result' = <<"remove", id>>
  /\ UNCHANGED <<queueVars, usable>>

Next ==
  \/ Pop \/ PopThrows \/ PushThrows \/ \E c \in Conns : Push(c)
  \/ \E id \in Ids : \/ \E d \in Delays : Insert(id, d) \/ InsertRefused(id, d)
                     \/ Get(id) \/ GetThrows(id) \/ RemoveKey(id)

Spec == Init /\ [][Next]_vars

--------------------------------------------------------------------------------
(* Properties. *)

\* The type invariant.
TypeOK ==
  /\ DOMAIN heap \subseteq Nodes
  /\ \A n \in DOMAIN heap :
       heap[n] \in [entry : Conns, next : Nodes \cup {Null}, prev : Nodes \cup {Null}]
  /\ head \in Nodes \cup {Null} /\ last \in Nodes \cup {Null} /\ count \in 0..Capacity
  /\ \A b \in 0..(Buckets - 1) : keys[b].size \in Nat /\ entries[b].size \in Nat
  /\ usable \in BOOLEAN

\* full and empty look at _size and pop at _head, and push follows _last, which may
\* point to a node that is freed: the three agree whenever one of them is relied on,
\* every link leads to a node that is allocated, and no node is lost.
ListIsIntact ==
  /\ (head = Null) = (count = 0)
  /\ count = Cardinality(DOMAIN heap)
  /\ head # Null =>
       /\ {head, last} \subseteq DOMAIN heap
       /\ heap[head].prev = Null /\ heap[last].next = Null
       /\ \A n \in DOMAIN heap :
            LET after == heap[n].next
            IN  n # last => after \in DOMAIN heap /\ heap[after].prev = n

\* The two arrays of a bucket stay side by side, each with a place to spare, and an
\* id is in one place only, of its own bucket.
BucketsAgree ==
  \A b \in 0..(Buckets - 1) :
    /\ keys[b].size = entries[b].size
    /\ keys[b].size < Len(keys[b].slots) /\ entries[b].size < Len(entries[b].slots)
    /\ IsInjective(Elements(keys[b]))
    /\ \A id \in ToSet(Elements(keys[b])) : ~BadIndex(id) /\ Index(id) = b

\* The abstract queue, from the head on, and the abstract table.
Contents ==
  LET node[i \in 1..count] == IF i = 1 THEN head ELSE heap[node[i - 1]].next
  IN  [i \in 1..count |-> heap[node[i]].entry]

DelayOf(id) ==
  IF BadIndex(id) \/ ~Known(id) THEN <<>>
  ELSE <<entries[Index(id)].slots[Min(Places(keys[Index(id)], id))]>>

Abs == INSTANCE ContentData WITH
  Refused <- {id \in Ids : BadIndex(id)},
  fifo    <- Contents,
  delays  <- [id \in Ids |-> DelayOf(id)]

\* The linked list and the hash table are a bounded queue and a table of delays,
\* but for the ids whose hash is the least int.
Implements == Abs!Spec

================================================================================
