------------------------------- MODULE Mirroring -------------------------------
(***************************************************************************)
(* What the Mirror Server promises the Mirror Initiator, without threads,  *)
(* queues or locks: a session is opened, files that match the request are  *)
(* discovered while it is open, each of them is either mirrored or given   *)
(* up, and the session is reported once it is closed and nothing           *)
(* discovered is left unresolved.  MirrorServer is shown to implement it.  *)
(***************************************************************************)
EXTENDS Naturals

CONSTANT Items        \* the (content server, file) pairs that may be discovered

VARIABLES
  phase,              \* "idle", "open" (files may be discovered) or "closed"
  pending,            \* discovered, neither mirrored nor given up yet
  mirrored,           \* files mirrored in this session
  reported            \* the count of the last report

vars == <<phase, pending, mirrored, reported>>

Init ==
  /\ phase = "idle"
  /\ pending = {}
  /\ mirrored = 0
  /\ reported = 0

Begin ==
  /\ phase = "idle"
  /\ phase' = "open"
  /\ UNCHANGED <<pending, mirrored, reported>>

\* A file is discovered at most once while it is pending.
Discover(i) ==
  /\ phase = "open"
  /\ i \notin pending
  /\ pending' = pending \cup {i}
  /\ UNCHANGED <<phase, mirrored, reported>>

Mirror(i) ==
  /\ phase # "idle"
  /\ i \in pending
  /\ pending' = pending \ {i}
  /\ mirrored' = mirrored + 1
  /\ UNCHANGED <<phase, reported>>

GiveUp(i) ==
  /\ phase # "idle"
  /\ i \in pending
  /\ pending' = pending \ {i}
  /\ UNCHANGED <<phase, mirrored, reported>>

Close ==
  /\ phase = "open"
  /\ phase' = "closed"
  /\ UNCHANGED <<pending, mirrored, reported>>

\* The report counts every file mirrored, and waits for every pending one.
Report ==
  /\ phase = "closed"
  /\ pending = {}
  /\ phase' = "idle"
  /\ reported' = mirrored
  /\ mirrored' = 0
  /\ UNCHANGED pending

Next ==
  \/ Begin \/ Close \/ Report
  \/ \E i \in Items : Discover(i) \/ Mirror(i) \/ GiveUp(i)

Spec == Init /\ [][Next]_vars
================================================================================
