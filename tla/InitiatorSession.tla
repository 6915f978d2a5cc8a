---------------------------- MODULE InitiatorSession ----------------------------
(***************************************************************************)
(* The connection between a Mirror Initiator (mirror_init::run) and the    *)
(* Mirror Server (mirror_server::run and start_manager): the request sent  *)
(* string by string, the errors that managers send, and the report.        *)
(*                                                                         *)
(* A connection is a stream in each direction.  recv returns any part of   *)
(* the stream that has arrived, whatever the calls of send were, and 0     *)
(* once the peer has closed.  The count, an "OK" and a string that the     *)
(* server's buffer has room for are sent in one segment and arrive whole.  *)
(* A longer string is several pieces, of which one recv returns no more    *)
(* than there is room for: it is read as two strings or more, and all      *)
(* those behind it are shifted.  A response is split in front of its ';'   *)
(* at most; the Initiator reads until it has one, in buffers that have     *)
(* room for some dozens of responses.  No string has a ';' in it.          *)
(***************************************************************************)
EXTENDS Integers, FiniteSets, SequencesExt

CONSTANTS
  Initiators,   \* the runs of the Mirror Initiator
  Servers,      \* the addresses of content servers
  Running,      \* those where a content server runs
  Request,      \* the content servers that each Initiator names
  Details,      \* the strings sent for each of them (4 in the program), address and
                \* port before the others
  Length,       \* the pieces of each string: 0 if it is empty, 1 if it fits the buffer
  Buffer,       \* the pieces that one recv returns at most (1023 bytes in the program)
  None          \* no Initiator

ASSUME InitiatorsAssumption == None \notin Initiators
ASSUME ServersAssumption    == Running \subseteq Servers
ASSUME RequestAssumption    == Request \in [Initiators -> Seq(Servers)]
ASSUME DetailsAssumption    == Details \in Nat \ {0, 1}
ASSUME BufferAssumption     == Buffer \in Nat \ {0}
\* What has more than one piece is longer than the buffer.  A content server that runs
\* has an address and a port, and short ones.
ASSUME LengthAssumption ==
  /\ Length \in [Servers \X (1..Details) -> Nat \ (2..Buffer)]
  /\ \A s \in Running, j \in {1, 2} : Length[<<s, j>>] = 1

VARIABLES
  ini,          \* where each Initiator is
  sent,         \* the strings of the request it has sent
  resp,         \* the part of a response it has read
  printed,      \* the addresses it has printed as not running
  toServer, toClient,   \* the two streams of its connection
  accepted,     \* the Initiators accepted so far
  master,       \* where the main thread of the Mirror Server is
  client,       \* g_clientfd
  vecs,         \* the content servers announced
  received,     \* the strings received
  mgr,          \* where each manager thread is
  ignored,      \* SIGPIPE is ignored
  alive         \* FALSE once SIGPIPE has ended the Mirror Server

iniVars    == <<ini, sent, resp, printed>>
serverVars == <<accepted, master, client, vecs, received, mgr>>
vars == <<iniVars, toServer, toClient, serverVars, ignored, alive>>

\* A string of a request is <<s, j>>, the j-th of content server s.
Texts     == Servers \X (1..Details)
Pieces(t) == [k \in 1..Length[t] |-> <<t[1], t[2], k>>]

\* What else is sent, in units that are not split.
Count(n) == <<"count", n>>
OK       == <<"OK", 0>>
Err(a)   == <<"ERR", a>>
Stats    == <<"stats", 0>>
End      == <<";", 0>>

\* The request of c, string by string.
Strings(c) ==
  [k \in 1..(Details * Len(Request[c])) |->
     <<Request[c][((k - 1) \div Details) + 1], ((k - 1) % Details) + 1>>]

\* No string of the request of c is longer than the server's buffer.
Short(c) == \A k \in DOMAIN Strings(c) : Length[Strings(c)[k]] <= 1

Left == {"reported", "gone"}
IniStates == {"start", "ok", "send", "recv", "ack"} \cup Left
MasterStates == {"accept", "count", "strings", "join", "report"}
ManagerStates == {"connect", "list", "err", "recv_ok", "exited"}

Init ==
  /\ ini = [c \in Initiators |-> "start"]
  /\ sent = [c \in Initiators |-> 0]
  /\ resp = [c \in Initiators |-> <<>>]
  /\ printed = [c \in Initiators |-> {}]
  /\ toServer = [c \in Initiators |-> <<>>]
  /\ toClient = [c \in Initiators |-> <<>>]
  /\ accepted = {}
  /\ master = "accept" /\ client = None
  /\ vecs = 0 /\ received = <<>> /\ mgr = <<>>
  /\ ignored = FALSE /\ alive = TRUE

--------------------------------------------------------------------------------
(* A connection. *)

\* What recv may return into a buffer.
Arriving(stream, closed, room) ==
  {SubSeq(stream, 1, k) : k \in (1..room) \cap (1..Len(stream))}
    \cup (IF closed /\ stream = <<>> THEN {<<>>} ELSE {})

Without(stream, part) == SubSeq(stream, Len(part) + 1, Len(stream))

IniSends(c, units)   == toServer' = [toServer EXCEPT ![c] = @ \o units]
ServerReads(part)    == toServer' = [toServer EXCEPT ![client] = Without(@, part)]

\* A send to a peer that has left goes nowhere, or raises SIGPIPE.
ServerSends(units) ==
  IF ini[client] \notin Left
  THEN toClient' = [toClient EXCEPT ![client] = @ \o units] /\ UNCHANGED alive
  ELSE UNCHANGED toClient /\ alive' \in {alive, alive /\ ignored}

\* A response is read without its ';', and taken for what it starts with.
FirstWord(response) ==
  LET words == {k \in DOMAIN response : response[k] # End}
  IN  IF words = {} THEN End ELSE response[CHOOSE k \in words : \A l \in words : k <= l]

\* The address and the port of a content server, and what the server takes for those of
\* the i-th that the request names.
Endpoint(s)  == [j \in 1..2 |-> Pieces(<<s, j>>)]
Address(i)   == [j \in 1..2 |-> received[Details * (i - 1) + j]]
Reachable(i) == \E s \in Running : Address(i) = Endpoint(s)

--------------------------------------------------------------------------------
(* Faulty forms of some of the actions below. *)

SendStringUnacknowledged(c) ==
  /\ ini[c] = "send"
  /\ IniSends(c, Pieces(Strings(c)[sent[c] + 1]))
  /\ sent' = [sent EXCEPT ![c] = @ + 1]
  /\ ini' = [ini EXCEPT ![c] = IF sent'[c] < Len(Strings(c)) THEN "send" ELSE "ok"]
  /\ UNCHANGED <<resp, printed, toClient, serverVars, ignored, alive>>

SendStringPadded(c) ==
  /\ ini[c] = "send"
  /\ LET text == Strings(c)[sent[c] + 1] IN
       IniSends(c, IF Length[text] = 0 THEN <<Append(text, 1)>> ELSE Pieces(text))
  /\ sent' = [sent EXCEPT ![c] = @ + 1]
  /\ ini' = [ini EXCEPT ![c] = "ok"]
  /\ UNCHANGED <<resp, printed, toClient, serverVars, ignored, alive>>

AcknowledgeReportOnly(c) ==
  /\ ini[c] = "ack"
  /\ IF FirstWord(resp[c])[1] = "ERR"
     THEN /\ printed' = [printed EXCEPT ![c] = @ \cup {FirstWord(resp[c])[2]}]
          /\ ini' = [ini EXCEPT ![c] = "recv"]
          /\ UNCHANGED toServer
     ELSE /\ ini' = [ini EXCEPT ![c] = IF FirstWord(resp[c]) = End THEN "gone" ELSE "reported"]
          /\ IniSends(c, <<OK>>)
          /\ UNCHANGED printed
  /\ resp' = [resp EXCEPT ![c] = <<>>]
  /\ UNCHANGED <<sent, toClient, serverVars, ignored, alive>>

ReceiveStringOneMore ==
  /\ master = "strings"
  /\ Len(received) <= Details * vecs
  /\ \E part \in Arriving(toServer[client], ini[client] \in Left, Buffer) :
       received' = Append(received, part) /\ ServerReads(part)
  /\ ServerSends(<<OK>>)
  /\ UNCHANGED <<iniVars, accepted, master, client, vecs, mgr, ignored>>

ReceiveStringAcknowledgedOnce ==
  /\ master = "strings"
  /\ Len(received) < Details * vecs
  /\ \E part \in Arriving(toServer[client], ini[client] \in Left, Buffer) :
       received' = Append(received, part) /\ ServerReads(part)
  /\ IF Len(received') % Details = 0 THEN ServerSends(<<OK>>) ELSE UNCHANGED <<toClient, alive>>
  /\ UNCHANGED <<iniVars, accepted, master, client, vecs, mgr, ignored>>

SendErrUnawaited(i) ==
  /\ mgr[i] = "err"
  /\ ServerSends(<<Err(Address(i)), End>>)
  /\ mgr' = [mgr EXCEPT ![i] = "exited"]
  /\ UNCHANGED <<iniVars, toServer, accepted, master, client, vecs, received, ignored>>

--------------------------------------------------------------------------------
(* The Mirror Initiator. *)

\* init connects, and run sends the number of content servers.
Connect(c) ==
  /\ ini[c] = "start"
  /\ alive
  /\ IniSends(c, <<Count(Len(Request[c]))>>)
  /\ ini' = [ini EXCEPT ![c] = "ok"]
  /\ UNCHANGED <<sent, resp, printed, toClient, serverVars, ignored, alive>>

\* recv_ok reads two bytes, whatever follows them.
AwaitOk(c) ==
  /\ ini[c] = "ok"
  /\ toClient[c] # <<>>
  /\ toClient' = [toClient EXCEPT ![c] = Tail(@)]
  /\ ini' = [ini EXCEPT ![c] = IF sent[c] < Len(Strings(c)) THEN "send" ELSE "recv"]
  /\ UNCHANGED <<sent, resp, printed, toServer, serverVars, ignored, alive>>

\* A write of no bytes sends nothing.
SendString(c) ==
  /\ ini[c] = "send"
  /\ IniSends(c, Pieces(Strings(c)[sent[c] + 1]))
  /\ sent' = [sent EXCEPT ![c] = @ + 1]
  /\ ini' = [ini EXCEPT ![c] = "ok"]
  /\ UNCHANGED <<resp, printed, toClient, serverVars, ignored, alive>>

\* Reading goes on until the response has a ';', wherever it is.
Receive(c) ==
  /\ ini[c] = "recv"
  /\ \E part \in Arriving(toClient[c], c \in accepted \ {client}, Len(toClient[c])) :
       /\ toClient' = [toClient EXCEPT ![c] = Without(@, part)]
       /\ resp' = [resp EXCEPT ![c] = @ \o part]
       /\ ini' = [ini EXCEPT ![c] = IF part = <<>> THEN "gone"
                                    ELSE IF Contains(resp'[c], End) THEN "ack" ELSE "recv"]
  /\ UNCHANGED <<sent, printed, toServer, serverVars, ignored, alive>>

\* One "OK" for what was read, which may be several errors: the first is printed
\* and the others are lost.  What starts with neither ERR nor OK ends the program.
Acknowledge(c) ==
  /\ ini[c] = "ack"
  /\ IniSends(c, <<OK>>)
  /\ IF FirstWord(resp[c])[1] = "ERR"
     THEN /\ printed' = [printed EXCEPT ![c] = @ \cup {FirstWord(resp[c])[2]}]
          /\ ini' = [ini EXCEPT ![c] = "recv"]
     ELSE /\ ini' = [ini EXCEPT ![c] = IF FirstWord(resp[c]) = End THEN "gone" ELSE "reported"]
          /\ UNCHANGED printed
  /\ resp' = [resp EXCEPT ![c] = <<>>]
  /\ UNCHANGED <<sent, toClient, serverVars, ignored, alive>>

\* What the program had of the request, and what is left on its connection, is gone with it.
Leave(c) ==
  /\ ini' = [ini EXCEPT ![c] = "gone"]
  /\ sent' = [sent EXCEPT ![c] = 0] /\ resp' = [resp EXCEPT ![c] = <<>>]
  /\ toClient' = [toClient EXCEPT ![c] = <<>>]

\* The user ends it, or a reset of its connection does, which the Mirror Server has closed
\* before it has read all that was sent.  What the Initiator has not read makes the
\* connection reset as well, and then what it has sent may be lost.
Kill(c) ==
  /\ ini[c] \notin Left \cup {"start"}
  /\ toServer' \in {toServer} \cup
                   (IF toClient[c] = <<>> THEN {} ELSE {[toServer EXCEPT ![c] = <<>>]})
  /\ Leave(c)
  /\ UNCHANGED <<printed, serverVars, ignored, alive>>

LoseServer(c) ==
  /\ ini[c] \notin Left
  /\ ~alive
  /\ Leave(c)
  /\ UNCHANGED <<printed, toServer, serverVars, ignored, alive>>

--------------------------------------------------------------------------------
(* The main thread of the Mirror Server. *)

Accept ==
  /\ master = "accept"
  /\ \E c \in Initiators \ accepted :
       /\ ini[c] # "start"
       /\ client' = c
       /\ accepted' = accepted \cup {c}
  /\ master' = "count"
  /\ UNCHANGED <<iniVars, toServer, toClient, vecs, received, mgr, ignored, alive>>

\* atoi of no bytes is 0.
ReceiveCount ==
  /\ master = "count"
  /\ \E part \in Arriving(toServer[client], ini[client] \in Left, Buffer) :
       /\ vecs' = IF part = <<>> THEN 0 ELSE Head(part)[2]
       /\ ServerReads(part)
  /\ ServerSends(<<OK>>)
  /\ master' = "strings"
  /\ UNCHANGED <<iniVars, accepted, client, received, mgr, ignored>>

\* What is read is a string, whatever the calls of send were.  When recv fails the buffer
\* has what was there before: an earlier string or none.
ReceiveString ==
  /\ master = "strings"
  /\ Len(received) < Details * vecs
  /\ \E part \in Arriving(toServer[client], ini[client] \in Left, Buffer) :
       /\ \E text \in {part} \cup (IF part = <<>> THEN ToSet(received) ELSE {}) :
            received' = Append(received, text)
       /\ ServerReads(part)
  /\ ServerSends(<<OK>>)
  /\ UNCHANGED <<iniVars, accepted, master, client, vecs, mgr, ignored>>

StartManagers ==
  /\ master = "strings"
  /\ Len(received) = Details * vecs
  /\ mgr' = [i \in 1..vecs |-> "connect"]
  /\ master' = "join"
  /\ UNCHANGED <<iniVars, toServer, toClient, accepted, client, vecs, received, ignored, alive>>

JoinManagers ==
  /\ master = "join"
  /\ \A i \in DOMAIN mgr : mgr[i] = "exited"
  /\ master' = "report"
  /\ UNCHANGED <<iniVars, toServer, toClient, accepted, client, vecs, received, mgr, ignored,
                 alive>>

\* The barrier in between is that of module MirrorServer.  What is left on the connection
\* will not be read.
Report ==
  /\ master = "report"
  /\ ServerSends(<<Stats, End>>)
  /\ toServer' = [toServer EXCEPT ![client] = <<>>]
  /\ client' = None /\ vecs' = 0 /\ received' = <<>> /\ mgr' = <<>>
  /\ master' = "accept"
  /\ UNCHANGED <<iniVars, accepted, ignored>>

--------------------------------------------------------------------------------
(* The manager of the i-th content server. *)

ManagerConnect(i) ==
  /\ mgr[i] = "connect"
  /\ ignored' = TRUE
  /\ mgr' = [mgr EXCEPT ![i] = IF Reachable(i) THEN "list" ELSE "err"]
  /\ UNCHANGED <<iniVars, toServer, toClient, accepted, master, client, vecs, received, alive>>

\* mirror_manager::run, which is modelled in MirrorServer.
List(i) ==
  /\ mgr[i] = "list"
  /\ mgr' = [mgr EXCEPT ![i] = "exited"]
  /\ UNCHANGED <<iniVars, toServer, toClient, accepted, master, client, vecs, received,
                 ignored, alive>>

SendErr(i) ==
  /\ mgr[i] = "err"
  /\ ServerSends(<<Err(Address(i)), End>>)
  /\ mgr' = [mgr EXCEPT ![i] = "recv_ok"]
  /\ UNCHANGED <<iniVars, toServer, accepted, master, client, vecs, received, ignored>>

\* What two bytes of a stream leave: of a string, perhaps some of its last piece.
AfterOk(stream) ==
  IF stream = <<>> THEN {stream}
  ELSE {Tail(stream)} \cup (IF Head(stream) = OK THEN {} ELSE {stream})

\* recv_ok reads the "OK" of whichever error the Initiator has acknowledged, or two bytes
\* of a string that was shifted behind the last one received.
ManagerAwaitOk(i) ==
  /\ mgr[i] = "recv_ok"
  /\ toServer[client] # <<>> \/ ini[client] \in Left
  /\ \E left \in AfterOk(toServer[client]) : toServer' = [toServer EXCEPT ![client] = left]
  /\ mgr' = [mgr EXCEPT ![i] = "exited"]
  /\ UNCHANGED <<iniVars, toClient, accepted, master, client, vecs, received, ignored, alive>>

--------------------------------------------------------------------------------

IniStep(c) ==
  Connect(c) \/ AwaitOk(c) \/ SendString(c) \/ Receive(c) \/ Acknowledge(c) \/ LoseServer(c)

MasterStep ==
  /\ alive
  /\ \/ Accept \/ ReceiveCount \/ ReceiveString \/ StartManagers \/ JoinManagers \/ Report

ManagerStep(i) ==
  /\ alive
  /\ ManagerConnect(i) \/ List(i) \/ SendErr(i) \/ ManagerAwaitOk(i)

Next ==
  \/ \E c \in Initiators : IniStep(c) \/ Kill(c)
  \/ MasterStep
  \/ \E i \in DOMAIN mgr : ManagerStep(i)

Spec == Init /\ [][Next]_vars

\* Every thread and every process is scheduled; nobody need be killed.  Managers
\* take finitely many steps each, so that fairness of all of them together is enough.
FairSpec ==
  /\ Spec
  /\ \A c \in Initiators : WF_vars(IniStep(c))
  /\ WF_vars(MasterStep)
  /\ WF_vars(\E i \in DOMAIN mgr : ManagerStep(i))

--------------------------------------------------------------------------------
(* Properties. *)

ToServer == (UNION {ToSet(Pieces(t)) : t \in Texts})
              \cup {Count(Len(Request[c])) : c \in Initiators} \cup {OK}
Parts    == Seq(ToServer)             \* what the server reads as a string
Couples  == [1..2 -> Parts]           \* what it takes for an address and a port
ToClient == ({"ERR"} \X Couples) \cup {OK, Stats, End}

\* The type invariant.
TypeOK ==
  /\ ini \in [Initiators -> IniStates]
  /\ sent \in [Initiators -> Nat] /\ \A c \in Initiators : sent[c] <= Len(Strings(c))
  /\ resp \in [Initiators -> Seq(ToClient)]
  /\ printed \in [Initiators -> SUBSET Couples]
  /\ toServer \in [Initiators -> Seq(ToServer)]
  /\ toClient \in [Initiators -> Seq(ToClient)]
  /\ accepted \subseteq Initiators
  /\ client \in Initiators \cup {None} /\ (client = None <=> master = "accept")
  /\ master \in MasterStates
  /\ vecs \in Nat
  /\ received \in Seq(Parts) /\ Len(received) <= Details * vecs
  /\ mgr \in Seq(ManagerStates) /\ Len(mgr) \in {0, vecs}
  /\ ignored \in BOOLEAN /\ alive \in BOOLEAN

\* Although strings have no length and no end on the connection, each arrives as
\* it was sent and in its place, if each fits the buffer and as long as the Initiator is
\* there: none runs into the count, an "OK" or the next string (mirror_init.cpp:51-65,
\* mirror_server.cpp:158-183).  It is false of a request with a longer string
\* (mirror_server.cpp:175), whatever other requests there are.
RequestArrives ==
  master \in {"strings", "join", "report"} /\ ini[client] # "gone" /\ Short(client) =>
    /\ vecs = Len(Request[client])
    /\ \A k \in DOMAIN received : received[k] = Pieces(Strings(client)[k])

\* An Initiator that prints the statistics has printed each content server of its
\* own request that is not running, and no other: no error is lost, delayed past
\* the report, or sent to another Initiator by way of g_clientfd.  Other Initiators may
\* have longer strings than fit the buffer.
ReportIsComplete ==
  \A c \in Initiators : ini[c] = "reported" /\ Short(c) =>
    printed[c] = {Endpoint(s) : s \in ToSet(Request[c]) \ Running}

HasBlank(c) == \E k \in DOMAIN Strings(c) : Length[Strings(c)[k]] = 0

\* A string that is empty, such as the path of "address:port::0", stops a request for
\* ever: the server waits for it and the Initiator for its OK, no manager is started,
\* and nobody else is accepted until that Initiator is killed (mirror_init.cpp:61).  (A
\* string longer than the buffer in front of it would have left an OK too many.)
EmptyStringBlocks ==
  \A c \in Initiators : HasBlank(c) /\ Short(c) =>
    /\ ini[c] # "reported"
    /\ client = c /\ ini[c] # "gone" => master \in {"count", "strings"}

\* Requests that one content server at most refuses are answered, also when the
\* Initiator leaves, unless SIGPIPE ends the Mirror Server.
SessionEnds ==
  (master = "join" /\ Cardinality({i \in DOMAIN mgr : ~Reachable(i)}) <= 1)
    ~> (master = "accept" \/ ~alive)

\* A request without an empty string is read to its end, strings longer than the buffer or
\* not: though each of their parts is answered by an OK and the Initiator runs ahead, so
\* that the next strings are read joined, neither ever waits for the other
\* (mirror_server.cpp:171-183, mirror_init.cpp:56-65).
RequestIsRead ==
  (master = "strings" /\ ~HasBlank(client)) ~> (master # "strings" \/ ~alive)

(* What the comments of the code say of it. *)

\* mirror_server.cpp:277-278: a manager that could not connect notifies the client
\* and exits.
NotifiersExit ==
  \A i \in 1..Cardinality(Servers) : (i \in DOMAIN mgr /\ mgr[i] = "recv_ok") ~>
                  ~(i \in DOMAIN mgr /\ mgr[i] = "recv_ok")

================================================================================
