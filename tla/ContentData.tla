------------------------------ MODULE ContentData ------------------------------
(***************************************************************************)
(* What the threads of the Content Server expect of the data they share: a *)
(* bounded queue of connections and a table of the delays that clients     *)
(* announce.  ContentServer is written with these; LinkedData is shown to  *)
(* implement them.                                                         *)
(***************************************************************************)
EXTENDS Naturals, Sequences

CONSTANTS
  Conns,        \* what may be queued
  Capacity,     \* the most that may be
  Ids, Delays,
  Refused       \* the ids that the table takes no delay for

VARIABLES
  fifo,         \* the queue
  delays,       \* the delay of each id, <<>> if there is none
  result,       \* the last call and what it returned
  usable        \* FALSE once the mutex of the table is lost

vars == <<fifo, delays, result, usable>>

Init ==
  /\ fifo = <<>> /\ delays = [id \in Ids |-> <<>>]
  /\ result = <<>> /\ usable = TRUE

Push(c) ==
  /\ IF Len(fifo) < Capacity THEN fifo' = Append(fifo, c) /\ result' = <<"push">>
                        ELSE result' = <<"push", "throws">> /\ UNCHANGED fifo
  /\ UNCHANGED <<delays, usable>>

Pop ==
  /\ IF fifo # <<>> THEN result' = <<"pop", Head(fifo)>> /\ fifo' = Tail(fifo)
                    ELSE result' = <<"pop", "throws">> /\ UNCHANGED fifo
  /\ UNCHANGED <<delays, usable>>

Insert(id, d) ==
  /\ usable
  /\ delays' = IF id \in Refused THEN delays ELSE [delays EXCEPT ![id] = <<d>>]
  /\ result' = <<"insert", id, d>>
  /\ UNCHANGED <<fifo, usable>>

\* The handler of what get_key throws is outside of the section that it is called in.
Get(id) ==
  /\ usable
  /\ usable' = (id \notin Refused)
  /\ result' = <<"get", id, IF id \in Refused THEN <<"throws">> ELSE delays[id]>>
  /\ UNCHANGED <<fifo, delays>>

Remove(id) ==
  /\ usable
  /\ id \notin Refused
  /\ delays' = [delays EXCEPT ![id] = <<>>]
  /\ result' = <<"remove", id>>
  /\ UNCHANGED <<fifo, usable>>

Next ==
  \/ Pop \/ \E c \in Conns : Push(c)
  \/ \E id \in Ids : Get(id) \/ Remove(id) \/ \E d \in Delays : Insert(id, d)

Spec == Init /\ [][Next]_vars
================================================================================
