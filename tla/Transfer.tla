-------------------------------- MODULE Transfer --------------------------------
(***************************************************************************)
(* One dialogue between a thread of the Mirror Server, the client of the   *)
(* connection, and a thread of the Content Server.  A LIST is answered     *)
(* with a count of names and, for each name, its length and its bytes      *)
(* (mirror_manager::run, read_fname; _do_list).  A FETCH is answered with  *)
(* the length of the file and its bytes (worker::_fetch; _do_fetch).  Both *)
(* ends take turns by means of an "OK", which the sender awaits without    *)
(* looking at it (recv_ok).                                                *)
(*                                                                         *)
(* A direction of the connection is what has been sent and not received.   *)
(* recv waits until there is something and takes it, up to its limit: all  *)
(* of it, or, when the network splits what is sent, any part.  A number is *)
(* short enough to be one unit, and every other unit is a byte.  When the  *)
(* peer has closed the connection and nothing is left, recv returns 0;     *)
(* when it has left something unread at that, the connection is reset, and *)
(* recv returns -1 once before that.                                       *)
(***************************************************************************)
EXTENDS Integers, SequencesExt

CONSTANTS
  Listings,     \* the names that a LIST may find, each as its length
  FileLengths,  \* the lengths of the files that a FETCH may ask for
  Block,        \* BLOCK_SIZE (1024 in the program)
  IntMax,       \* the largest int
  Garbage       \* what atoi may make of bytes that are not a number

StrBlock == Block - 1         \* BLOCK_STR_SIZE
Limits16 == 65536             \* the values of a uint16_t
Ints     == (-IntMax - 1)..IntMax

ASSUME IntAssumption      == IntMax \in Nat \ {0}
ASSUME ListingsAssumption ==
  Listings \subseteq Seq(1..IntMax) /\ \A names \in Listings : Len(names) <= IntMax
ASSUME LengthsAssumption  == FileLengths \subseteq 0..(IntMax - 1)
ASSUME BlockAssumption    == Block \in 2..Limits16
ASSUME GarbageAssumption  == Garbage \subseteq (-IntMax - 1)..IntMax /\ 0 \in Garbage

VARIABLES
  request,      \* "LIST" or "FETCH"
  lens,         \* the lengths of the names, or of the one file, that is sent
  opened,       \* whether the file can be opened; if not, it has no bytes to send
  split,        \* whether the network splits what is sent
  toServer,     \* the request or the OKs on their way to the Content Server
  toClient,     \* the units on their way to the Mirror Server
  line,         \* the connection as the Content Server leaves it
  sender,       \* where the thread of the Content Server is
  no,           \* the name it is sending (file_no + 1)
  part,         \* the parts of it, or the blocks of the file, it has sent
  offs,         \* the bytes of it that it has sent
  client,       \* where the thread of the Mirror Server is
  files,        \* the number of names or files it expects
  max,          \* the length it has been told
  bound,        \* max_bytes of read_fname
  overall,      \* the bytes it has received of the name, or of the file
  fname,        \* those bytes
  got           \* the names, or the file, that it has received to the end

rigidVars  == <<request, lens, opened, split>>
senderVars == <<sender, no, part, offs>>
clientVars == <<client, files, max, bound, overall, fname, got>>
vars == <<rigidVars, toServer, toClient, line, senderVars, clientVars>>

Number(n)  == <<"number", n>>
Byte(i, k) == <<"byte", i, k>>
IsNumber(unit) == unit[1] = "number"

Init ==
  /\ \/ request = "LIST" /\ lens \in Listings /\ opened = TRUE
     \/ request = "FETCH" /\ lens \in {<<n>> : n \in FileLengths} /\ opened = TRUE
     \/ request = "FETCH" /\ lens = <<0>> /\ opened = FALSE
  /\ split \in BOOLEAN
  /\ toServer = 0 /\ toClient = <<>> /\ line = "open"
  /\ sender = "request" /\ no = 1 /\ part = 0 /\ offs = 0
  /\ client = "ask" /\ files = 0 /\ max = 0 /\ bound = 0 /\ overall = 0
  /\ fname = <<>> /\ got = <<>>

Least(m, n) == IF m < n THEN m ELSE n

\* How many units recv may take.  A call without room waits for some all the same.
Arriving(limit) ==
  LET most == Least(limit, Len(toClient))
  IN  IF toClient = <<>> THEN {} ELSE IF split /\ most > 0 THEN 1..most ELSE {most}

\* recv returns 0, or -1, which a loop adds to the bytes that it counts.
Ended == toClient = <<>> /\ line = "closed"
Reset == toClient = <<>> /\ line = "reset"
Cut   == IF Reset THEN -1 ELSE 0

\* What tellg says: -1 if the file is not open.
FileLength == IF opened THEN lens[1] ELSE -1

\* The connection is closed, by close or by the end of the process.  If an OK has
\* come that was not read, it is reset, and what is on its way may be lost.
CloseLine ==
  \/ line' = "closed" /\ UNCHANGED toClient
  \/ toServer' > 0 /\ line' = "reset" /\ toClient' \in {toClient, <<>>}

\* An OK, or the request, arrives.
Acknowledged == toServer > 0 /\ toServer' = toServer - 1

\* The head of the loop over the names; after it, close.
NextName(i) ==
  /\ no' = i /\ part' = 0 /\ offs' = 0
  /\ IF i <= Len(lens) THEN sender' = "length" /\ UNCHANGED <<line, toClient>>
                       ELSE sender' = "closed" /\ CloseLine

\* The number at the head of what was received.  What follows it there begins with
\* the '/' of a name.
NumberIn(units) == IF IsNumber(Head(units)) THEN {Head(units)[2]} ELSE Garbage

--------------------------------------------------------------------------------
(* Faulty forms of some of the actions below, for the properties to reject. *)

AwaitCountFromZero ==
  /\ sender = "count_ok"
  /\ Acknowledged
  /\ NextName(0)
  /\ UNCHANGED <<rigidVars, clientVars>>

SendLengthUnacknowledged ==
  /\ sender = "length" /\ request = "LIST"
  /\ toClient' = Append(toClient, Number(lens[no]))
  /\ sender' = "part"
  /\ UNCHANGED <<rigidVars, toServer, line, no, part, offs, clientVars>>

SendBlockTooFew ==
  /\ sender = "block"
  /\ LET n == Least(Block, lens[1] - offs) IN
       /\ toClient' = toClient \o [k \in 1..n |-> Byte(1, offs + k)]
       /\ offs' = offs + n
  /\ part' = part + 1
  /\ sender' = IF part + 1 < lens[1] \div Block THEN "block" ELSE "final_ok"
  /\ UNCHANGED <<rigidVars, toServer, line, no, clientVars>>

SendBlockAndClose ==
  /\ sender = "block"
  /\ LET n == Least(Block, lens[1] - offs) IN
       /\ toClient' = toClient \o [k \in 1..n |-> Byte(1, offs + k)]
       /\ offs' = offs + n
  /\ part' = part + 1
  /\ IF part < lens[1] \div Block
     THEN UNCHANGED <<sender, line>> ELSE sender' = "closed" /\ line' = "closed"
  /\ UNCHANGED <<rigidVars, toServer, no, clientVars>>

ReceiveDataEarly ==
  /\ client = "data"
  /\ \E n \in Arriving(Block) :
       /\ fname' = fname \o SubSeq(toClient, 1, n)
       /\ toClient' = SubSeq(toClient, n + 1, Len(toClient))
       /\ overall' = overall + n
  /\ IF overall' + 1 < max
     THEN UNCHANGED <<client, got, toServer>>
     ELSE client' = "done" /\ got' = Append(got, fname') /\ toServer' = toServer + 1
  /\ UNCHANGED <<rigidVars, line, senderVars, files, max, bound>>

--------------------------------------------------------------------------------
(* The thread of the Content Server. *)

ReceiveRequest ==
  /\ sender = "request"
  /\ Acknowledged
  /\ sender' = IF request = "LIST" THEN "count" ELSE "length"
  /\ UNCHANGED <<rigidVars, toClient, line, no, part, offs, clientVars>>

SendCount ==
  /\ sender = "count"
  /\ toClient' = Append(toClient, Number(Len(lens)))
  /\ sender' = "count_ok"
  /\ UNCHANGED <<rigidVars, toServer, line, no, part, offs, clientVars>>

AwaitCount ==
  /\ sender = "count_ok"
  /\ Acknowledged
  /\ NextName(1)
  /\ UNCHANGED <<rigidVars, clientVars>>

SendLength ==
  /\ sender = "length" /\ request = "LIST"
  /\ toClient' = Append(toClient, Number(lens[no]))
  /\ sender' = "length_ok"
  /\ UNCHANGED <<rigidVars, toServer, line, no, part, offs, clientVars>>

SendFileLength ==
  /\ sender = "length" /\ request = "FETCH"
  /\ toClient' = Append(toClient, Number(FileLength))
  /\ sender' = "length_ok"
  /\ UNCHANGED <<rigidVars, toServer, line, no, part, offs, clientVars>>

AwaitLength ==
  /\ sender = "length_ok"
  /\ Acknowledged
  /\ sender' = IF request = "LIST" THEN "part" ELSE "block"
  /\ UNCHANGED <<rigidVars, toClient, line, no, part, offs, clientVars>>

SendPart ==
  /\ sender = "part"
  /\ LET n == Least(StrBlock, lens[no] - offs) IN
       /\ toClient' = toClient \o [k \in 1..n |-> Byte(no, offs + k)]
       /\ offs' = offs + n
  /\ part' = part + 1
  /\ sender' = "part_ok"
  /\ UNCHANGED <<rigidVars, toServer, line, no, clientVars>>

AwaitPart ==
  /\ sender = "part_ok"
  /\ Acknowledged
  /\ IF part <= lens[no] \div StrBlock
     THEN sender' = "part" /\ UNCHANGED <<line, toClient, no, part, offs>>
     ELSE NextName(no + 1)
  /\ UNCHANGED <<rigidVars, clientVars>>

SendBlock ==
  /\ sender = "block"
  /\ LET n == Least(Block, lens[1] - offs) IN
       /\ toClient' = toClient \o [k \in 1..n |-> Byte(1, offs + k)]
       /\ offs' = offs + n
  /\ part' = part + 1
  /\ sender' = IF part < lens[1] \div Block THEN "block" ELSE "final_ok"
  /\ UNCHANGED <<rigidVars, toServer, line, no, clientVars>>

AwaitFinal ==
  /\ sender = "final_ok"
  /\ Acknowledged
  /\ sender' = "closed" /\ CloseLine
  /\ UNCHANGED <<rigidVars, no, part, offs, clientVars>>

\* The Content Server is killed.
Kill ==
  /\ sender \notin {"closed", "killed"}
  /\ sender' = "killed"
  /\ UNCHANGED toServer /\ CloseLine
  /\ UNCHANGED <<rigidVars, no, part, offs, clientVars>>

--------------------------------------------------------------------------------
(* The thread of the Mirror Server. *)

SendRequest ==
  /\ client = "ask"
  /\ toServer' = toServer + 1
  /\ client' = IF request = "LIST" THEN "count" ELSE "length"
  /\ UNCHANGED <<rigidVars, toClient, line, senderVars, files, max, bound, overall, fname,
                 got>>

\* recv returns n units, or 0 or -1.
Take(n) ==
  /\ fname' = fname \o SubSeq(toClient, 1, n)
  /\ toClient' = SubSeq(toClient, n + 1, Len(toClient))
  /\ overall' = overall + n

\* recv of a number into a buffer of 1023 bytes, and send_ok.  At the end of the
\* connection the buffer is the empty string, at a reset it is not initialized.
ReceiveNumber(n) ==
  /\ \/ /\ \E k \in Arriving(StrBlock) :
             /\ n \in NumberIn(SubSeq(toClient, 1, k))
             /\ toClient' = SubSeq(toClient, k + 1, Len(toClient))
        /\ UNCHANGED line
     \/ Ended /\ n = 0 /\ UNCHANGED <<toClient, line>>
     \/ Reset /\ n \in Garbage /\ line' = "closed" /\ UNCHANGED toClient
  /\ toServer' = toServer + 1

\* The head of the loop over the names.
ExpectName(count) ==
  client' = IF Len(got') < count THEN "length" ELSE "done"

ReceiveCount ==
  /\ client = "count"
  /\ \E n \in Ints : ReceiveNumber(n) /\ files' = n
  /\ UNCHANGED got
  /\ ExpectName(files')
  /\ UNCHANGED <<rigidVars, senderVars, max, bound, overall, fname>>

ReceiveLength ==
  /\ client = "length" /\ request = "LIST"
  /\ \E n \in Ints : ReceiveNumber(n) /\ max' = n /\ bound' = Least(n, StrBlock)
  /\ overall' = 0 /\ fname' = <<>>
  /\ client' = "name"
  /\ UNCHANGED <<rigidVars, senderVars, files, got>>

\* The end of an iteration of read_fname, and of the loop over the names.
NameRead ==
  IF overall' < max THEN UNCHANGED <<client, got>>
                    ELSE got' = Append(got, fname') /\ ExpectName(files)

\* One iteration of read_fname.  max_bytes is what is left of it after the bytes
\* received are subtracted once more, and recv takes it for a uint16_t.
ReceiveName ==
  /\ client = "name"
  /\ bound' = bound - overall
  /\ \E n \in Arriving(bound' % Limits16) : Take(n)
  /\ toServer' = toServer + 1
  /\ NameRead
  /\ UNCHANGED <<rigidVars, line, senderVars, files, max>>

\* The connection ends within a name: the loop that counts its bytes gets 0, after
\* a -1 if there was a reset, and does not end unless the length was 0 or less.
NameCut ==
  /\ client = "name"
  /\ Ended \/ Reset
  /\ line' = "closed"
  /\ IF overall + Cut < max
     THEN client' = "spin" /\ UNCHANGED <<got, toServer>>
     ELSE got' = Append(got, fname) /\ ExpectName(files) /\ toServer' = toServer + 1
  /\ UNCHANGED <<rigidVars, toClient, senderVars, files, max, bound, overall, fname>>

\* The length of the file; nothing at all is taken for "no such file".
ReceiveFileLength ==
  /\ client = "length" /\ request = "FETCH"
  /\ IF Ended
     THEN client' = "failed" /\ UNCHANGED <<max, toServer, toClient, line>>
     ELSE client' = "data" /\ \E n \in Ints : ReceiveNumber(n) /\ max' = n
  /\ UNCHANGED <<rigidVars, senderVars, files, bound, overall, fname, got>>

\* The end of the loop over the data: an OK, and the file is counted.
FileReceived ==
  client' = "done" /\ got' = Append(got, fname') /\ toServer' = toServer + 1

ReceiveData ==
  /\ client = "data"
  /\ \E n \in Arriving(Block) : Take(n)
  /\ IF overall' < max THEN UNCHANGED <<client, got, toServer>> ELSE FileReceived
  /\ UNCHANGED <<rigidVars, line, senderVars, files, max, bound>>

\* The connection ends within the data, as within a name.
DataCut ==
  /\ client = "data"
  /\ Ended \/ Reset
  /\ line' = "closed" /\ UNCHANGED fname
  /\ IF overall + Cut < max
     THEN client' = "spin" /\ UNCHANGED <<got, toServer>>
     ELSE FileReceived
  /\ UNCHANGED <<rigidVars, toClient, senderVars, files, max, bound, overall>>

--------------------------------------------------------------------------------
(* The two threads. *)

SenderStep ==
  \/ ReceiveRequest \/ SendCount \/ AwaitCount \/ SendLength \/ SendFileLength
  \/ AwaitLength \/ SendPart \/ AwaitPart \/ SendBlock \/ AwaitFinal

ClientStep ==
  \/ SendRequest \/ ReceiveCount \/ ReceiveLength \/ ReceiveName \/ NameCut
  \/ ReceiveFileLength \/ ReceiveData \/ DataCut

Next == SenderStep \/ ClientStep \/ Kill

Spec == Init /\ [][Next]_vars

\* Both threads are scheduled.  Nothing need ever kill the Content Server.
FairSpec == Spec /\ WF_vars(SenderStep) /\ WF_vars(ClientStep)

--------------------------------------------------------------------------------
(* Properties. *)

Whole(i) == [k \in 1..lens[i] |-> Byte(i, k)]
Names    == [i \in DOMAIN lens |-> Whole(i)]

\* Every name fits into one block with room to spare, and the network leaves it in
\* one piece.
ShortNames == ~split /\ \A i \in DOMAIN lens : lens[i] < StrBlock

Units == {Number(n) : n \in Ints} \cup {Byte(i, k) : i, k \in 1..IntMax}

\* The type invariant.
TypeOK ==
  /\ request \in {"LIST", "FETCH"} /\ lens \in Seq(0..IntMax)
  /\ opened \in BOOLEAN /\ split \in BOOLEAN
  /\ toServer \in Nat /\ toClient \in Seq(Units) /\ line \in {"open", "closed", "reset"}
  /\ sender \in {"request", "count", "count_ok", "length", "length_ok", "part", "part_ok",
                 "block", "final_ok", "closed", "killed"}
  /\ sender \in {"length", "length_ok", "part", "part_ok"} => no <= Len(lens)
  /\ no \in 1..(Len(lens) + 1) /\ part \in Nat /\ offs \in Nat
  /\ client \in {"ask", "count", "length", "name", "data", "done", "failed", "spin"}
  /\ files \in Ints /\ max \in Ints /\ bound \in Int /\ overall \in Nat
  /\ fname \in Seq(Units) /\ got \in Seq(Seq(Units))

\* A file that is counted is whole, although blocks are sent without waiting and
\* arrive in any pieces; if the Content Server is killed it is never counted in
\* part, but it may be counted as empty: the length is lost, and atoi makes a 0 of
\* the buffer that recv has not written to.
FileArrives ==
  request = "FETCH" /\ client = "done" =>
    got = <<Whole(1)>> \/ (sender = "killed" /\ got = << <<>> >>)

\* A name that is short is whole and in its place, or reads as the empty string,
\* which no requested path matches, after the Content Server is killed.
NamesArrive ==
  request = "LIST" /\ ShortNames =>
    \A i \in DOMAIN got : \/ i <= Len(lens) /\ got[i] = Whole(i)
                          \/ sender = "killed" /\ got[i] = <<>>

\* When the sender has closed the connection, the last OK it waited for stood for
\* the last piece, although OKs carry nothing and recv_ok does not look at them.
ClosedIsReceived ==
  sender = "closed" /\ (request = "LIST" => ShortNames) =>
    client = "done" /\ got = Names

\* A dialogue ends at both ends unless the Content Server is killed, provided that
\* the file has a byte and that the names are short.
DialogueEnds ==
  (request = "LIST" => ShortNames) /\ (request = "FETCH" => lens[1] > 0) ~>
    \/ sender = "closed" /\ client = "done"
    \/ sender = "killed"

(* What README.txt says of a dialogue. *)

\* README.txt:31-37: after the names or the blocks have been sent, the connection is
\* closed and the worker thread returns to its waiting state.  The last piece that the
\* code sends may have no bytes: for a file that is empty or cannot be opened, and for a
\* name of exactly one block.  Nothing is sent then, and each end waits for the other.
SentIsClosed ==
  sender \in {"part_ok", "final_ok"} ~> sender \in {"closed", "killed"}

================================================================================
