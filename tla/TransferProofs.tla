----------------------------- MODULE TransferProofs -----------------------------
(***************************************************************************)
(* Proofs about Transfer, for every listing, every length of a file, every *)
(* size of a block and every way in which the network splits a file.       *)
(***************************************************************************)
EXTENDS Transfer, SequenceTheorems, TLAPS

USE DEF rigidVars, senderVars, clientVars, vars

--------------------------------------------------------------------------------
(* The inductive invariants. *)

\* The type invariant, with what the request says of the positions of the threads.
Typed ==
  /\ TypeOK
  /\ Len(lens) <= IntMax
  /\ ~opened => request = "FETCH" /\ lens[1] = 0
  /\ request = "FETCH" =>
       /\ Len(lens) = 1 /\ no = 1
       /\ sender \in {"request", "length", "length_ok", "block", "final_ok", "closed", "killed"}
       /\ client \in {"ask", "length", "data", "done", "failed", "spin"}
  /\ request = "LIST" =>
       /\ \A i \in 1..Len(lens) : lens[i] > 0
       /\ sender \notin {"block", "final_ok"}
       /\ client \in {"ask", "count", "length", "name", "done", "spin"}
  /\ no <= Len(lens) => offs <= lens[no]
  /\ sender \notin {"closed", "killed"} => line = "open"

\* The bytes that have been received and those on their way are the first of the file.
InStream ==
  /\ overall = Len(fname)
  /\ Len(fname) + Len(toClient) <= lens[1]
  /\ \A k \in 1..Len(fname) : fname[k] = Byte(1, k)
  /\ \A k \in 1..Len(toClient) : toClient[k] = Byte(1, Len(fname) + k)

Nothing == got = <<>> /\ fname = <<>> /\ overall = 0

\* What the client of a file knows, whatever has become of the sender.
FileState ==
  /\ client = "ask" => toClient = <<>> /\ Nothing
  /\ client = "length" => toClient \in {<<>>, <<Number(FileLength)>>} /\ Nothing
  /\ client = "data" =>
       /\ got = <<>>
       /\ \/ max = FileLength /\ InStream
          \/ sender = "killed" /\ line = "closed" /\ toClient = <<>> /\ Nothing
  /\ client = "done" => \/ got = <<Whole(1)>>
                        \/ sender = "killed" /\ got = << <<>> >>

\* The two ends of a file take turns up to its first block; then the blocks are in
\* the stream, and no OK is on its way until all of them have been received.
FileTurns ==
  /\ sender = "request" =>
       /\ toClient = <<>> /\ offs = 0 /\ part = 0
       /\ \/ client = "ask" /\ toServer = 0
          \/ client = "length" /\ toServer = 1
  /\ sender = "length" =>
       toClient = <<>> /\ offs = 0 /\ part = 0 /\ client = "length" /\ toServer = 0
  /\ sender = "length_ok" =>
       /\ offs = 0 /\ part = 0
       /\ \/ client = "length" /\ toServer = 0 /\ toClient = <<Number(FileLength)>>
          \/ client = "data" /\ toServer = 1 /\ toClient = <<>> /\ fname = <<>>
  /\ sender = "block" => offs = part * Block /\ part <= lens[1] \div Block
  /\ sender = "final_ok" => offs = lens[1]
  /\ sender \in {"block", "final_ok"} =>
       \/ client = "data" /\ toServer = 0 /\ Len(fname) + Len(toClient) = offs
       \/ client = "done" /\ toServer = 1 /\ offs = lens[1] /\ lens[1] > 0
  /\ sender = "closed" => client = "done" /\ lens[1] > 0

FileInv == request = "FETCH" => FileState /\ (sender # "killed" => FileTurns)

\* Every name fits into one block, and the network leaves it in one piece.
Tame == request = "LIST" /\ ~split /\ \A i \in 1..Len(lens) : lens[i] <= StrBlock

\* What the client of a listing knows, whatever has become of the sender.
NamesState ==
  /\ client = "ask" => toClient = <<>>
  /\ client \in {"ask", "count"} => got = <<>>
  /\ client = "count" => toClient \in {<<>>, <<Number(Len(lens))>>}
  /\ client = "length" /\ toClient # <<>> =>
       /\ files = Len(lens) /\ Len(got) < Len(lens)
       /\ toClient = <<Number(lens[Len(got) + 1])>>
  /\ client = "name" =>
       /\ fname = <<>> /\ overall = 0
       /\ toClient # <<>> => /\ Len(got) < Len(lens) /\ toClient = Whole(Len(got) + 1)
                             /\ max = lens[Len(got) + 1] /\ bound = max
  /\ \A i \in 1..Len(got) : \/ i <= Len(lens) /\ got[i] = Whole(i)
                            \/ sender = "killed" /\ got[i] = <<>>

\* The client has k names, and has read what was sent.
ClientAt(k) ==
  /\ files = Len(lens) /\ Len(got) = k /\ toClient = <<>>
  /\ client = IF k < Len(lens) THEN "length" ELSE "done"

\* The client reads the k-th name.
Naming(k) ==
  /\ client = "name" /\ files = Len(lens) /\ Len(got) = k - 1
  /\ max = lens[k] /\ bound = max

\* The two ends of a listing take turns: an OK is on its way, or what it answers.
NamesTurns ==
  /\ sender = "request" =>
       /\ toClient = <<>>
       /\ \/ client = "ask" /\ toServer = 0
          \/ client = "count" /\ toServer = 1
  /\ sender = "count" => client = "count" /\ toServer = 0 /\ toClient = <<>>
  /\ sender = "count_ok" =>
       \/ client = "count" /\ toServer = 0 /\ toClient = <<Number(Len(lens))>>
       \/ ClientAt(0) /\ toServer = 1
  /\ sender = "length" => ClientAt(no - 1) /\ toServer = 0 /\ part = 0 /\ offs = 0
  /\ sender = "length_ok" =>
       /\ part = 0 /\ offs = 0
       /\ \/ /\ client = "length" /\ files = Len(lens) /\ Len(got) = no - 1
             /\ toServer = 0 /\ toClient = <<Number(lens[no])>>
          \/ Naming(no) /\ toServer = 1 /\ toClient = <<>>
  /\ sender = "part" =>
       /\ toServer = 0 /\ toClient = <<>>
       /\ \/ part = 0 /\ offs = 0 /\ Naming(no)
          \/ part = 1 /\ offs = lens[no] /\ lens[no] = StrBlock /\ ClientAt(no)
  /\ sender = "part_ok" =>
       /\ offs = lens[no]
       /\ \/ part = 1 /\ toServer = 0 /\ Naming(no) /\ toClient = Whole(no)
          \/ part = 1 /\ toServer = 1 /\ ClientAt(no)
          \/ part = 2 /\ toServer = 0 /\ ClientAt(no) /\ lens[no] = StrBlock
  /\ sender = "closed" => ClientAt(Len(lens)) /\ no = Len(lens) + 1
  /\ \A i \in 1..(no - 1) : lens[i] < StrBlock

NamesInv == Tame => NamesState /\ (sender # "killed" => NamesTurns)

--------------------------------------------------------------------------------
(* Streams. *)

\* A stream is divided by recv into what is taken and what is left.
LEMMA Division ==
  ASSUME NEW S, NEW s \in Seq(S), NEW n \in 0..Len(s)
  PROVE  /\ SubSeq(s, 1, n) \in Seq(S) /\ Len(SubSeq(s, 1, n)) = n
         /\ \A k \in 1..n : SubSeq(s, 1, n)[k] = s[k]
         /\ SubSeq(s, n + 1, Len(s)) \in Seq(S) /\ Len(SubSeq(s, n + 1, Len(s))) = Len(s) - n
         /\ \A k \in 1..(Len(s) - n) : SubSeq(s, n + 1, Len(s))[k] = s[n + k]
<1>1. \A i \in 1..Len(s) : s[i] \in S
  BY ElementOfSeq
<1>2. \A i \in 1..n : s[i] \in S
  BY <1>1
<1>3. \A i \in (n + 1)..Len(s) : s[i] \in S
  BY <1>1
<1>4. /\ SubSeq(s, 1, n) \in Seq(S) /\ Len(SubSeq(s, 1, n)) = n
      /\ \A k \in 1..n : SubSeq(s, 1, n)[k] = s[k]
  BY <1>2, SubSeqProperties
<1>5. /\ SubSeq(s, n + 1, Len(s)) \in Seq(S) /\ Len(SubSeq(s, n + 1, Len(s))) = Len(s) - n
      /\ \A k \in 1..(Len(s) - n) : SubSeq(s, n + 1, Len(s))[k] = s[n + k]
  BY <1>3, SubSeqProperties
<1> QED BY <1>4, <1>5

\* recv takes as many units as it may, or fewer if the network splits the stream.
LEMMA ArrivingBounds ==
  ASSUME NEW limit \in Nat, toClient \in Seq(Units), NEW n \in Arriving(limit)
  PROVE  /\ toClient # <<>> /\ n \in 0..Len(toClient) /\ n <= limit
         /\ ~split => n = Least(limit, Len(toClient))
         /\ limit > 0 => n > 0
<1>1. Len(toClient) \in Nat /\ (toClient # <<>> => Len(toClient) > 0)
  OBVIOUS
<1>2. toClient # <<>>
  BY DEF Arriving
<1>3. Least(limit, Len(toClient)) \in Nat /\ Least(limit, Len(toClient)) <= Len(toClient)
      /\ Least(limit, Len(toClient)) <= limit
  BY <1>1 DEF Least
<1>4. limit > 0 => Least(limit, Len(toClient)) > 0
  BY <1>1, <1>2 DEF Least
<1> HIDE DEF Least
<1> QED BY <1>1, <1>2, <1>3, <1>4 DEF Arriving

\* A number that is alone on its way is read whole; when nothing comes any more, what
\* is read for it leaves the stream empty, and the next recv returns 0.
LEMMA NumberRead ==
  ASSUME NEW n \in Ints, ReceiveNumber(n), toClient \in Seq(Units), toServer \in Nat,
         line \in {"open", "closed", "reset"}
  PROVE  /\ toClient' \in Seq(Units) /\ line' \in {line, "closed"} /\ toServer' = toServer + 1
         /\ line = "open" => line' = "open"
         /\ toClient = <<>> => toClient' = <<>> /\ line # "open" /\ line' = "closed"
         /\ \A m : toClient = <<Number(m)>> => n = m /\ toClient' = <<>> /\ line' = line
<1>1. StrBlock \in Nat /\ StrBlock > 0
  BY BlockAssumption DEF StrBlock
<1>2. CASE Ended \/ Reset
  <2>1. toClient = <<>> /\ line \in {"closed", "reset"}
    BY <1>2 DEF Ended, Reset
  <2>2. \A k : k \notin Arriving(StrBlock)
    BY <2>1 DEF Arriving
  <2>3. toClient' = toClient /\ line' = "closed" /\ toServer' = toServer + 1
    BY <2>1, <2>2 DEF ReceiveNumber, Ended, Reset
  <2>4. \A m : toClient # <<Number(m)>>
    BY <2>1
  <2> QED BY <2>1, <2>3, <2>4
<1>3. CASE ~(Ended \/ Reset)
  <2>1. PICK k \in Arriving(StrBlock) : /\ n \in NumberIn(SubSeq(toClient, 1, k))
                                        /\ toClient' = SubSeq(toClient, k + 1, Len(toClient))
    BY <1>3 DEF ReceiveNumber
  <2>2. line' = line /\ toServer' = toServer + 1
    BY <1>3 DEF ReceiveNumber
  <2>3. toClient # <<>> /\ k \in 1..Len(toClient)
    BY <1>1, <2>1, ArrivingBounds
  <2>4. toClient' \in Seq(Units)
    BY <2>1, <2>3, Division
  <2>5. ASSUME NEW m, toClient = <<Number(m)>> PROVE n = m /\ toClient' = <<>>
    <3>1. k = 1 /\ Len(toClient) = 1
      BY <2>3, <2>5
    <3>2. SubSeq(toClient, 1, k) = toClient
      BY <3>1, SubSeqFull
    <3>3. toClient' = <<>>
      BY <2>1, <3>1, SubSeqEmpty
    <3>4. Head(toClient) = Number(m)
      BY <2>5
    <3>5. IsNumber(Number(m)) /\ Number(m)[2] = m
      BY DEF IsNumber, Number
    <3>6. NumberIn(toClient) = {m}
      BY <3>4, <3>5 DEF NumberIn
    <3> QED BY <2>1, <3>2, <3>3, <3>6
  <2> QED BY <2>2, <2>3, <2>4, <2>5
<1> QED BY <1>2, <1>3

LEMMA LineClosed ==
  ASSUME CloseLine
  PROVE  line' \in {"closed", "reset"} /\ toClient' \in {toClient, <<>>}
  BY DEF CloseLine

\* What has been received, with one more name.
LEMMA Gathered ==
  ASSUME NEW names \in Seq(Seq(Units)), NEW name \in Seq(Units)
  PROVE  /\ Append(names, name) \in Seq(Seq(Units))
         /\ Len(Append(names, name)) = Len(names) + 1
         /\ \A i \in 1..Len(names) : Append(names, name)[i] = names[i]
         /\ Append(names, name)[Len(names) + 1] = name
<1> DEFINE S == Seq(Units)
<1>1. names \in Seq(S) /\ name \in S
  OBVIOUS
<1> HIDE DEF S
<1>2. /\ Append(names, name) \in Seq(S)
      /\ Len(Append(names, name)) = Len(names) + 1
      /\ \A i \in 1..Len(names) : Append(names, name)[i] = names[i]
      /\ Append(names, name)[Len(names) + 1] = name
  BY <1>1, AppendProperties
<1> QED BY <1>2 DEF S

\* What a sender appends: n bytes from the one after offs on.
LEMMA BytesAppended ==
  ASSUME NEW i \in 1..IntMax, NEW at \in Nat, NEW n \in Nat, at + n <= IntMax,
         toClient \in Seq(Units)
  PROVE  /\ [k \in 1..n |-> Byte(i, at + k)] \in Seq(Units)
         /\ toClient \o [k \in 1..n |-> Byte(i, at + k)] \in Seq(Units)
         /\ Len(toClient \o [k \in 1..n |-> Byte(i, at + k)]) = Len(toClient) + n
         /\ \A j \in 1..Len(toClient) :
              (toClient \o [k \in 1..n |-> Byte(i, at + k)])[j] = toClient[j]
         /\ \A j \in (Len(toClient) + 1)..(Len(toClient) + n) :
              (toClient \o [k \in 1..n |-> Byte(i, at + k)])[j] = Byte(i, at + j - Len(toClient))
<1> DEFINE bytes == [k \in 1..n |-> Byte(i, at + k)]
<1>1. \A k \in 1..n : Byte(i, at + k) \in Units
  BY IntAssumption DEF Units
<1>2. bytes \in Seq(Units) /\ Len(bytes) = n
  BY <1>1
<1>3. \A k \in 1..n : bytes[k] = Byte(i, at + k)
  OBVIOUS
<1> HIDE DEF bytes
<1>4. /\ toClient \o bytes \in Seq(Units) /\ Len(toClient \o bytes) = Len(toClient) + n
      /\ \A k \in 1..(Len(toClient) + n) :
           (toClient \o bytes)[k] = IF k <= Len(toClient) THEN toClient[k]
                                    ELSE bytes[k - Len(toClient)]
  BY <1>2, ConcatProperties
<1>5. Len(toClient) \in Nat
  OBVIOUS
<1>6. ASSUME NEW k \in (Len(toClient) + 1)..(Len(toClient) + n)
      PROVE  (toClient \o bytes)[k] = Byte(i, at + k - Len(toClient))
  <2>1. k - Len(toClient) \in 1..n /\ ~(k <= Len(toClient)) /\ k \in 1..(Len(toClient) + n)
    BY <1>5
  <2>2. at + (k - Len(toClient)) = at + k - Len(toClient)
    BY <1>5
  <2> QED BY <1>3, <1>4, <2>1, <2>2
<1>7. \A k \in 1..Len(toClient) : (toClient \o bytes)[k] = toClient[k]
  BY <1>4, <1>5
<1> QED BY <1>2, <1>4, <1>6, <1>7 DEF bytes

--------------------------------------------------------------------------------
(* Type correctness. *)

\* What is to be sent: its length is an int, and so is that of each part of it.
Sizes ==
  /\ Len(lens) \in 0..IntMax /\ DOMAIN lens = 1..Len(lens)
  /\ \A i \in 1..Len(lens) : lens[i] \in 0..IntMax /\ Number(lens[i]) \in Units
  /\ Number(Len(lens)) \in Units
  /\ request = "FETCH" => Number(FileLength) \in Units
  /\ Ints \subseteq Int /\ 0 \in Ints
  /\ Block \in Nat /\ Block > 0 /\ StrBlock \in Nat /\ StrBlock > 0
  /\ StrBlock < Limits16

LEMMA Lengths ==
  ASSUME Typed
  PROVE  Sizes
<1>1. lens \in Seq(0..IntMax) /\ Len(lens) <= IntMax
  BY DEF Typed, TypeOK
<1>2. Len(lens) \in 0..IntMax
  BY <1>1, IntAssumption
<1>3. \A i \in 1..Len(lens) : lens[i] \in 0..IntMax
  <2> DEFINE S == 0..IntMax
  <2>1. lens \in Seq(S)
    BY <1>1
  <2> HIDE DEF S
  <2>2. \A i \in 1..Len(lens) : lens[i] \in S
    BY ONLY <2>1, ElementOfSeq
  <2> QED BY <2>2 DEF S
<1>4. /\ Ints \subseteq Int /\ 0 \in Ints /\ -1 \in Ints
      /\ \A n \in 0..IntMax : n \in Ints
  BY IntAssumption DEF Ints
<1>8. \A n \in Ints : Number(n) \in Units
  BY DEF Units
<1>5. Block \in Nat /\ Block > 0 /\ StrBlock \in Nat /\ StrBlock > 0 /\ StrBlock < Limits16
  <2>1. Limits16 \in Nat
    BY ONLY DEF Limits16
  <2> QED BY ONLY <2>1, BlockAssumption DEF StrBlock
<1>6. DOMAIN lens = 1..Len(lens)
  BY <1>1
<1>7. Number(Len(lens)) \in Units /\ \A i \in 1..Len(lens) : Number(lens[i]) \in Units
  BY ONLY <1>2, <1>3, <1>4, <1>8
<1>9. request = "FETCH" => Number(FileLength) \in Units
  <2>1. request = "FETCH" => Len(lens) = 1
    BY DEF Typed
  <2>2. request = "FETCH" => FileLength \in Ints
    BY <1>3, <1>4, <2>1 DEF FileLength
  <2> QED BY <1>8, <2>2
<1> QED BY ONLY <1>2, <1>3, <1>4, <1>5, <1>6, <1>7, <1>9 DEF Sizes

LEMMA Listing ==
  ASSUME NEW names \in Seq(1..IntMax)
  PROVE  /\ names \in Seq(0..IntMax) /\ Len(names) \in Nat
         /\ \A i \in 1..Len(names) : names[i] \in 1..IntMax
<1> DEFINE S == 1..IntMax
           T == 0..IntMax
<1>1. S \subseteq T /\ names \in Seq(S)
  BY IntAssumption
<1> HIDE DEF S, T
<1>2. names \in Seq(T) /\ \A i \in 1..Len(names) : names[i] \in S
  BY <1>1, SeqMonotonic, ElementOfSeq
<1> QED BY <1>1, <1>2 DEF S, T

LEMMA TypedInit == Init => Typed
<1> SUFFICES ASSUME Init PROVE Typed
  OBVIOUS
<1>0. 0 \in Ints
  BY IntAssumption DEF Ints
<1> USE DEF Init, Typed, TypeOK
<1>1. fname \in Seq(Units) /\ got \in Seq(Seq(Units)) /\ toClient \in Seq(Units)
  OBVIOUS
<1>2. CASE request = "LIST" /\ lens \in Listings /\ opened = TRUE
  <2>1. lens \in Seq(1..IntMax) /\ Len(lens) <= IntMax
    BY <1>2, ListingsAssumption
  <2>2. Len(lens) \in Nat /\ \A i \in 1..Len(lens) : lens[i] \in 1..IntMax
    BY <2>1, Listing
  <2>5. lens \in Seq(0..IntMax)
    BY <2>1, Listing
  <2>3. 1 <= Len(lens) => 0 <= lens[1]
    BY <2>2
  <2>4. \A i \in 1..Len(lens) : lens[i] > 0
    BY <2>2
  <2> QED BY <1>0, <1>1, <1>2, <2>1, <2>2, <2>3, <2>4, <2>5, IntAssumption
<1>3. CASE request = "FETCH" /\ lens \in {<<n>> : n \in FileLengths} /\ opened = TRUE
  <2>1. PICK n \in FileLengths : lens = <<n>>
    BY <1>3
  <2>2. n \in 0..IntMax /\ 1 <= IntMax
    BY LengthsAssumption, IntAssumption
  <2>3. lens \in Seq(0..IntMax) /\ Len(lens) = 1 /\ lens[1] = n
    BY <2>1, <2>2
  <2> QED BY <1>0, <1>1, <1>3, <2>2, <2>3, IntAssumption
<1>4. CASE request = "FETCH" /\ lens = <<0>> /\ opened = FALSE
  <2>1. lens \in Seq(0..IntMax) /\ Len(lens) = 1 /\ lens[1] = 0 /\ 1 <= IntMax
    BY <1>4, IntAssumption
  <2>2. 1 \in 1..(Len(lens) + 1) /\ (1 <= Len(lens) => 0 <= lens[1])
    BY <2>1
  <2>3. opened \in BOOLEAN
    BY ONLY <1>4
  <2>4. TypeOK
    BY <1>0, <1>1, <1>4, <2>1, <2>2, <2>3
  <2> QED BY <1>4, <2>1, <2>2, <2>4
<1> QED BY <1>2, <1>3, <1>4

\* The head of the loop over the names, and what an OK leads to.
LEMMA NextNameTyped ==
  ASSUME Typed, NEW i \in 1..(Len(lens) + 1), NextName(i), toServer' \in Nat
  PROVE  /\ no' = i /\ part' = 0 /\ offs' = 0
         /\ sender' \in {"length", "closed"} /\ (sender' = "length" => i <= Len(lens))
         /\ (sender' = "length" => line' = line /\ toClient' = toClient)
         /\ line' \in {"open", "closed", "reset"} /\ toClient' \in Seq(Units)
<1>1. toClient \in Seq(Units) /\ line \in {"open", "closed", "reset"}
  BY DEF Typed, TypeOK
<1>2. CASE i <= Len(lens)
  BY <1>1, <1>2 DEF NextName
<1>3. CASE ~(i <= Len(lens))
  <2>1. CloseLine /\ no' = i /\ part' = 0 /\ offs' = 0 /\ sender' = "closed"
    BY <1>3 DEF NextName
  <2>2. line' \in {"closed", "reset"} /\ toClient' \in {toClient, <<>>}
    BY <2>1, LineClosed
  <2>3. toClient' \in Seq(Units)
    BY <1>1, <2>2, EmptySeq
  <2> QED BY <2>1, <2>2, <2>3
<1> QED BY <1>2, <1>3

LEMMA TakeTyped ==
  ASSUME Typed, NEW limit \in Nat, NEW n \in Arriving(limit), Take(n)
  PROVE  /\ n \in 0..Len(toClient) /\ fname' \in Seq(Units) /\ toClient' \in Seq(Units)
         /\ overall' \in Nat
<1>1. toClient \in Seq(Units) /\ fname \in Seq(Units) /\ overall \in Nat
  BY DEF Typed, TypeOK
<1>2. n \in 0..Len(toClient)
  BY <1>1, ArrivingBounds
<1> QED BY <1>1, <1>2, Division, ConcatProperties DEF Take

LEMMA SenderTyped ==
  ASSUME Typed, SenderStep
  PROVE  Typed'
<1>0. Sizes
  BY Lengths
<1> USE DEF Typed, TypeOK
<1>1. CASE ReceiveRequest
  BY <1>1, <1>0 DEF Sizes, ReceiveRequest, Acknowledged
<1>2. CASE SendCount
  BY <1>2, <1>0 DEF Sizes, SendCount
<1>3. CASE AwaitCount
  <2>1. toServer' \in Nat /\ NextName(1) /\ 1 \in 1..(Len(lens) + 1)
    BY <1>3, <1>0 DEF Sizes, AwaitCount, Acknowledged
  <2>2. /\ no' = 1 /\ part' = 0 /\ offs' = 0
        /\ sender' \in {"length", "closed"} /\ (sender' = "length" => 1 <= Len(lens))
        /\ (sender' = "length" => line' = line /\ toClient' = toClient)
        /\ line' \in {"open", "closed", "reset"} /\ toClient' \in Seq(Units)
    BY <2>1, NextNameTyped
  <2>3. request # "FETCH" /\ sender = "count_ok" /\ UNCHANGED <<rigidVars, clientVars>>
    BY <1>3 DEF AwaitCount
  <2> QED BY <2>1, <2>2, <2>3, <1>0 DEF Sizes
<1>4. CASE SendLength
  <2>1. Number(lens[no]) \in Units
    BY <1>4, <1>0 DEF Sizes, SendLength
  <2>2. toClient' \in Seq(Units)
    BY <1>4, <2>1 DEF SendLength
  <2> QED BY <1>4, <2>2 DEF SendLength
<1>10. CASE SendFileLength
  <2>1. Number(FileLength) \in Units
    BY <1>10, <1>0 DEF Sizes, SendFileLength
  <2>2. toClient' \in Seq(Units)
    BY <1>10, <2>1 DEF SendFileLength
  <2> QED BY <1>10, <2>2 DEF SendFileLength
<1>5. CASE AwaitLength
  BY <1>5, <1>0 DEF Sizes, AwaitLength, Acknowledged
<1>6. CASE SendPart
  <2> DEFINE n == Least(StrBlock, lens[no] - offs)
  <2> HIDE DEF n
  <2>0. no \in 1..Len(lens) /\ offs <= lens[no] /\ offs \in Nat /\ sender = "part"
    BY <1>6, <1>0 DEF Sizes, SendPart
  <2>1. lens[no] \in 0..IntMax /\ no \in 1..IntMax
    <3>1. Len(lens) \in 0..IntMax /\ \A i \in 1..Len(lens) : lens[i] \in 0..IntMax
      BY <1>0 DEF Sizes
    <3> HIDE DEF Typed, TypeOK
    <3> QED BY <2>0, <3>1, IntAssumption
  <2>2. n \in Nat /\ offs + n <= lens[no]
    BY <2>0, <2>1, <1>0 DEF Sizes, Least, n
  <2>7. toClient \in Seq(Units)
    OBVIOUS
  <2> HIDE DEF Typed, TypeOK
  <2>5. offs + n <= IntMax
    BY <2>0, <2>1, <2>2, IntAssumption
  <2>3. /\ toClient' = toClient \o [k \in 1..n |-> Byte(no, offs + k)] /\ offs' = offs + n
        /\ sender' = "part_ok" /\ part' = part + 1
        /\ UNCHANGED <<rigidVars, toServer, line, no, clientVars>>
    BY <1>6 DEF SendPart, n
  <2>4. toClient' \in Seq(Units) /\ offs' \in Nat
    <3>1. toClient \o [k \in 1..n |-> Byte(no, offs + k)] \in Seq(Units)
      BY <2>0, <2>1, <2>2, <2>5, <2>7, BytesAppended
    <3> QED BY <2>0, <2>2, <2>3, <3>1
  <2> QED BY <2>0, <2>2, <2>3, <2>4 DEF Typed, TypeOK
<1>7. CASE AwaitPart
  <2>1. CASE part <= lens[no] \div StrBlock
    BY <1>7, <2>1 DEF AwaitPart, Acknowledged
  <2>2. CASE ~(part <= lens[no] \div StrBlock)
    <3>1. toServer' \in Nat /\ NextName(no + 1) /\ no + 1 \in 1..(Len(lens) + 1)
      BY <1>7, <2>2, <1>0 DEF Sizes, AwaitPart, Acknowledged
    <3>2. /\ no' = no + 1 /\ part' = 0 /\ offs' = 0
          /\ sender' \in {"length", "closed"} /\ (sender' = "length" => no + 1 <= Len(lens))
          /\ (sender' = "length" => line' = line /\ toClient' = toClient)
          /\ line' \in {"open", "closed", "reset"} /\ toClient' \in Seq(Units)
      BY <3>1, NextNameTyped
    <3>3. request # "FETCH" /\ sender = "part_ok" /\ UNCHANGED <<rigidVars, clientVars>>
      BY <1>7 DEF AwaitPart
    <3> QED BY <3>1, <3>2, <3>3, <1>0 DEF Sizes
  <2> QED BY <2>1, <2>2
<1>8. CASE SendBlock
  <2> DEFINE n == Least(Block, lens[1] - offs)
  <2> HIDE DEF n
  <2>1. request = "FETCH" /\ Len(lens) = 1 /\ no = 1
    BY <1>8 DEF SendBlock
  <2>2. lens[1] \in 0..IntMax /\ 1 \in 1..IntMax /\ offs <= lens[1] /\ offs \in Nat
    <3>1. offs <= lens[1] /\ offs \in Nat
      BY <2>1
    <3>2. Len(lens) \in 0..IntMax /\ \A i \in 1..Len(lens) : lens[i] \in 0..IntMax
      BY <1>0 DEF Sizes
    <3> QED BY ONLY <2>1, <3>1, <3>2, IntAssumption
  <2>3. n \in Nat /\ offs + n <= lens[1]
    <3>1. Block \in Nat
      BY <1>0 DEF Sizes
    <3> QED BY ONLY <2>2, <3>1, IntAssumption DEF Least, n
  <2>6. toClient \in Seq(Units)
    OBVIOUS
  <2> HIDE DEF Typed, TypeOK
  <2>7. offs + n <= IntMax
    BY <2>2, <2>3, IntAssumption
  <2>4. /\ toClient' = toClient \o [k \in 1..n |-> Byte(1, offs + k)] /\ offs' = offs + n
        /\ sender' \in {"block", "final_ok"} /\ part' = part + 1
        /\ UNCHANGED <<rigidVars, toServer, line, no, clientVars>>
    BY <1>8 DEF SendBlock, n
  <2>5. toClient' \in Seq(Units) /\ offs' \in Nat
    <3>1. toClient \o [k \in 1..n |-> Byte(1, offs + k)] \in Seq(Units)
      BY <2>2, <2>3, <2>6, <2>7, BytesAppended
    <3> QED BY <2>2, <2>3, <2>4, <3>1
  <2>8. line = "open"
    BY <1>8 DEF SendBlock, Typed
  <2>9. offs' <= lens'[no']
    BY <2>1, <2>3, <2>4
  <2>10. /\ sender' \in {"block", "final_ok"} /\ part' = part + 1
         /\ UNCHANGED <<rigidVars, toServer, line, no, clientVars>>
    BY <2>4
  <2>11. TypeOK'
    BY <2>1, <2>5, <2>10 DEF Typed, TypeOK
  <2> QED BY <2>1, <2>8, <2>9, <2>10, <2>11 DEF Typed
<1>9. CASE AwaitFinal
  <2>1. line' \in {"closed", "reset"} /\ toClient' \in {toClient, <<>>}
    BY <1>9, LineClosed DEF AwaitFinal
  <2>2. toClient' \in Seq(Units) /\ line' \in {"open", "closed", "reset"}
    BY <2>1, EmptySeq
  <2>3. /\ sender' = "closed" /\ toServer' \in Nat
        /\ UNCHANGED <<rigidVars, no, part, offs, clientVars>>
    BY <1>9 DEF AwaitFinal, Acknowledged
  <2> QED BY <2>2, <2>3
<1> QED BY <1>1, <1>2, <1>3, <1>4, <1>5, <1>6, <1>7, <1>8, <1>9, <1>10 DEF SenderStep

LEMMA ClientTyped ==
  ASSUME Typed, ClientStep
  PROVE  Typed'
<1>0. Sizes
  BY Lengths
<1> USE DEF Typed, TypeOK
<1>1. CASE SendRequest
  BY <1>1 DEF SendRequest
<1>2. CASE ReceiveCount
  <2>1. PICK n \in Ints : ReceiveNumber(n) /\ files' = n
    BY <1>2 DEF ReceiveCount
  <2> QED BY <1>2, <2>1, NumberRead DEF ReceiveCount, ExpectName
<1>3. CASE ReceiveLength
  <2>1. PICK n \in Ints : ReceiveNumber(n) /\ max' = n /\ bound' = Least(n, StrBlock)
    BY <1>3 DEF ReceiveLength
  <2>2. bound' \in Int
    BY <2>1, <1>0 DEF Sizes, Least
  <2>3. fname' \in Seq(Units)
    BY <1>3 DEF ReceiveLength
  <2> QED BY <1>3, <2>1, <2>2, <2>3, NumberRead DEF ReceiveLength
<1>4. CASE ReceiveName
  <2>1. PICK n \in Arriving(bound' % Limits16) : Take(n)
    BY <1>4 DEF ReceiveName
  <2>2. bound' \in Int /\ bound' % Limits16 \in Nat
    BY <1>4 DEF ReceiveName, Limits16
  <2>3. fname' \in Seq(Units) /\ toClient' \in Seq(Units) /\ overall' \in Nat
    BY <2>1, <2>2, TakeTyped
  <2>4. (got' = got \/ got' = Append(got, fname')) /\ client' \in {"name", "length", "done"}
    BY <1>4 DEF ReceiveName, NameRead, ExpectName
  <2>6. got' \in Seq(Seq(Units))
    BY <2>3, <2>4, Gathered
  <2>5. /\ toServer' = toServer + 1 /\ client = "name"
        /\ UNCHANGED <<rigidVars, line, senderVars, files, max>>
    BY <1>4 DEF ReceiveName
  <2> QED BY <2>2, <2>3, <2>4, <2>5, <2>6
<1>5. CASE NameCut
  <2>1. /\ client = "name" /\ toServer' \in Nat /\ line' = "closed" /\ line # "open"
        /\ UNCHANGED <<rigidVars, toClient, senderVars, files, max, bound, overall, fname>>
    BY <1>5 DEF NameCut, Ended, Reset
  <2>2. (got' = got \/ got' = Append(got, fname)) /\ client' \in {"spin", "length", "done"}
    BY <1>5 DEF NameCut, ExpectName
  <2>3. got' \in Seq(Seq(Units))
    BY <2>2, Gathered
  <2> QED BY <2>1, <2>2, <2>3
<1>6. CASE ReceiveFileLength
  <2>1. CASE Ended
    BY <1>6, <2>1 DEF ReceiveFileLength
  <2>2. CASE ~Ended
    <3>1. PICK n \in Ints : ReceiveNumber(n) /\ max' = n
      BY <1>6, <2>2 DEF ReceiveFileLength
    <3> QED BY <1>6, <2>2, <3>1, NumberRead DEF ReceiveFileLength
  <2> QED BY <2>1, <2>2
<1>7. CASE ReceiveData
  <2>1. PICK n \in Arriving(Block) : Take(n)
    BY <1>7 DEF ReceiveData
  <2>2. fname' \in Seq(Units) /\ toClient' \in Seq(Units) /\ overall' \in Nat
    BY <2>1, <1>0, TakeTyped DEF Sizes
  <2>3. got' = got \/ got' = Append(got, fname')
    BY <1>7 DEF ReceiveData, FileReceived
  <2>6. client' \in {"data", "done"} /\ toServer' \in Nat
    BY <1>7 DEF ReceiveData, FileReceived
  <2>5. got' \in Seq(Seq(Units))
    BY <2>2, <2>3, Gathered
  <2>4. client = "data" /\ UNCHANGED <<rigidVars, line, senderVars, files, max, bound>>
    BY <1>7 DEF ReceiveData
  <2> QED BY <2>2, <2>4, <2>5, <2>6
<1>8. CASE DataCut
  <2>1. /\ client = "data" /\ toServer' \in Nat /\ line' = "closed" /\ line # "open"
        /\ UNCHANGED <<rigidVars, toClient, senderVars, files, max, bound, overall, fname>>
    BY <1>8 DEF DataCut, FileReceived, Ended, Reset
  <2>2. (got' = got \/ got' = Append(got, fname)) /\ client' \in {"spin", "done"}
    BY <1>8 DEF DataCut, FileReceived
  <2>3. got' \in Seq(Seq(Units))
    BY <2>2, Gathered
  <2> QED BY <2>1, <2>2, <2>3
<1> QED BY <1>1, <1>2, <1>3, <1>4, <1>5, <1>6, <1>7, <1>8 DEF ClientStep

LEMMA TypedStep == Typed /\ [Next]_vars => Typed'
<1> SUFFICES ASSUME Typed, [Next]_vars PROVE Typed'
  OBVIOUS
<1>1. CASE Kill
  <2>1. line' \in {"closed", "reset"} /\ toClient' \in {toClient, <<>>}
    BY <1>1, LineClosed DEF Kill
  <2>2. toClient' \in Seq(Units)
    BY <2>1, EmptySeq DEF Typed, TypeOK
  <2>3. line' \in {"open", "closed", "reset"}
    BY <2>1
  <2>4. sender' = "killed" /\ UNCHANGED <<toServer, rigidVars, no, part, offs, clientVars>>
    BY <1>1 DEF Kill
  <2> QED BY <2>2, <2>3, <2>4 DEF Typed, TypeOK
<1>2. CASE UNCHANGED vars
  BY <1>2 DEF Typed, TypeOK
<1> QED BY <1>1, <1>2, SenderTyped, ClientTyped DEF Next

\* The type invariant of Transfer holds, whatever is sent.
THEOREM TypeCorrect == Spec => []TypeOK
<1>1. Typed => TypeOK
  BY DEF Typed
<1> QED BY <1>1, TypedInit, TypedStep, PTL DEF Spec

--------------------------------------------------------------------------------
(* A file. *)

\* The blocks before the last are full, and the last is what is left.
LEMMA Blocks ==
  ASSUME NEW b \in Nat, b > 0, NEW n \in Nat, NEW p \in Nat, p <= n \div b
  PROVE  /\ p * b \in Nat /\ p * b <= n
         /\ p < n \div b => Least(b, n - p * b) = b /\ (p + 1) * b = p * b + b
         /\ ~(p < n \div b) => Least(b, n - p * b) = n - p * b
<1> DEFINE q == n \div b
<1>1. q \in Nat /\ q * b <= n /\ n < q * b + b
  OBVIOUS
<1> HIDE DEF q
<1>2. p * b \in Nat /\ (p + 1) * b = p * b + b
  OBVIOUS
<1>3. p <= q => p * b <= q * b
  BY <1>1
<1>4. p < q => p * b + b <= q * b
  <2>1. p < q => (p + 1) * b <= q * b
    BY <1>1
  <2> QED BY <2>1, <1>2
<1>5. p * b <= n
  BY <1>1, <1>2, <1>3 DEF q
<1>6. CASE p < q
  <2>1. b <= n - p * b
    BY <1>1, <1>2, <1>4, <1>6
  <2> QED BY <1>2, <1>5, <1>6, <2>1 DEF Least, q
<1>7. CASE ~(p < q)
  <2>1. p = q
    BY <1>1, <1>7 DEF q
  <2>2. ~(b < n - p * b) /\ n - p * b < b
    BY <1>1, <1>2, <2>1
  <2> QED BY <1>2, <1>5, <1>7, <2>2 DEF Least, q
<1> QED BY <1>6, <1>7

LEMMA WholeFile ==
  ASSUME NEW f \in Seq(Units), lens[1] \in Nat, Len(f) = lens[1],
         \A k \in 1..Len(f) : f[k] = Byte(1, k)
  PROVE  f = Whole(1)
  BY DEF Whole

\* recv moves bytes from the one end of the stream to the other.
LEMMA StreamTaken ==
  ASSUME InStream, toClient \in Seq(Units), fname \in Seq(Units), lens' = lens,
         NEW n \in 0..Len(toClient), Take(n)
  PROVE  /\ InStream' /\ fname' \in Seq(Units)
         /\ Len(fname') + Len(toClient') = Len(fname) + Len(toClient)
<1> DEFINE taken == SubSeq(toClient, 1, n)
           left  == SubSeq(toClient, n + 1, Len(toClient))
<1>1. /\ taken \in Seq(Units) /\ Len(taken) = n
      /\ \A k \in 1..n : taken[k] = toClient[k]
      /\ left \in Seq(Units) /\ Len(left) = Len(toClient) - n
      /\ \A k \in 1..(Len(toClient) - n) : left[k] = toClient[n + k]
  BY Division
<1>2. fname' = fname \o taken /\ toClient' = left /\ overall' = overall + n
  BY DEF Take
<1> HIDE DEF taken, left
<1>3. /\ fname' \in Seq(Units) /\ Len(fname') = Len(fname) + n
      /\ \A k \in 1..(Len(fname) + n) :
           fname'[k] = IF k <= Len(fname) THEN fname[k] ELSE taken[k - Len(fname)]
  <2>1. fname \in Seq(Units) /\ taken \in Seq(Units) /\ Len(taken) = n
    BY <1>1
  <2> QED BY ONLY <2>1, <1>2, ConcatProperties
<1>4. Len(fname) \in Nat /\ Len(toClient) \in Nat /\ n \in Nat
  OBVIOUS
<1>5. \A k \in 1..Len(fname') : fname'[k] = Byte(1, k)
  <2> SUFFICES ASSUME NEW k \in 1..(Len(fname) + n) PROVE fname'[k] = Byte(1, k)
    BY <1>3
  <2>1. CASE k <= Len(fname)
    BY <1>3, <1>4, <2>1 DEF InStream
  <2>2. CASE ~(k <= Len(fname))
    <3>1. k - Len(fname) \in 1..n /\ k - Len(fname) \in 1..Len(toClient)
          /\ Len(fname) + (k - Len(fname)) = k
      BY <1>4, <2>2
    <3>2. fname'[k] = toClient[k - Len(fname)]
      BY <1>1, <1>3, <2>2, <3>1
    <3>3. toClient[k - Len(fname)] = Byte(1, Len(fname) + (k - Len(fname)))
      BY <3>1 DEF InStream
    <3> QED BY <3>1, <3>2, <3>3
  <2> QED BY <2>1, <2>2
<1>6. \A k \in 1..Len(toClient') : toClient'[k] = Byte(1, Len(fname') + k)
  <2> SUFFICES ASSUME NEW k \in 1..(Len(toClient) - n)
               PROVE  toClient'[k] = Byte(1, Len(fname') + k)
    BY <1>1, <1>2
  <2>1. toClient'[k] = toClient[n + k] /\ n + k \in 1..Len(toClient)
    BY <1>1, <1>2, <1>4
  <2>2. toClient[n + k] = Byte(1, Len(fname) + (n + k))
    BY <2>1 DEF InStream
  <2>3. Len(fname) + (n + k) = Len(fname') + k
    BY <1>3, <1>4
  <2> QED BY <2>1, <2>2, <2>3
<1>10. Len(toClient') = Len(toClient) - n /\ Len(fname') = Len(fname) + n
  BY <1>1, <1>2, <1>3
<1>7. Len(fname') + Len(toClient') = Len(fname) + Len(toClient)
  BY <1>4, <1>10
<1>8. overall' = Len(fname')
  BY <1>2, <1>3 DEF InStream
<1>9. Len(fname') + Len(toClient') <= lens'[1]
  BY <1>7 DEF InStream
<1> QED BY <1>3, <1>5, <1>6, <1>7, <1>8, <1>9 DEF InStream

\* A block joins the stream behind what is there.
Sent(i, n) == toClient' = toClient \o [k \in 1..n |-> Byte(i, offs + k)]

LEMMA StreamSent ==
  ASSUME InStream, toClient \in Seq(Units), fname \in Seq(Units), lens[1] \in 0..IntMax,
         UNCHANGED <<lens, fname, overall>>, offs \in Nat,
         Len(fname) + Len(toClient) = offs,
         NEW n \in Nat, offs + n <= lens[1], Sent(1, n)
  PROVE  InStream' /\ Len(fname') + Len(toClient') = offs + n
<1>1. 1 \in 1..IntMax \/ lens[1] = 0
  BY IntAssumption
<1>2. Len(fname) \in Nat /\ Len(toClient) \in Nat /\ Len(fname) + Len(toClient) = offs
  OBVIOUS
<1>3. CASE n = 0
  <2>1. toClient' = toClient
    <3>1. [k \in 1..n |-> Byte(1, offs + k)] = <<>>
      BY <1>3
    <3> QED BY <3>1, ConcatEmptySeq DEF Sent
  <2> QED BY <1>3, <2>1 DEF InStream
<1>4. CASE n > 0
  <2>1. 1 \in 1..IntMax /\ offs + n <= IntMax
    BY <1>1, <1>4, IntAssumption
  <2>2. /\ Len(toClient') = Len(toClient) + n
        /\ \A j \in 1..Len(toClient) : toClient'[j] = toClient[j]
        /\ \A j \in (Len(toClient) + 1)..(Len(toClient) + n) :
             toClient'[j] = Byte(1, offs + j - Len(toClient))
    BY <2>1, BytesAppended DEF Sent
  <2>6. Len(toClient') = Len(toClient) + n
    BY <2>2
  <2>3. ASSUME NEW j \in 1..(Len(toClient) + n)
        PROVE  toClient'[j] = Byte(1, Len(fname) + j)
    <3>1. CASE j <= Len(toClient)
      <4>1. j \in 1..Len(toClient)
        BY <1>2, <3>1
      <4>2. toClient[j] = Byte(1, Len(fname) + j)
        BY <4>1 DEF InStream
      <4> QED BY <2>2, <4>1, <4>2
    <3>2. CASE ~(j <= Len(toClient))
      <4>1. j \in (Len(toClient) + 1)..(Len(toClient) + n)
        BY <1>2, <2>2, <3>2
      <4>4. j \in Int
        BY <4>1, <1>2
      <4>2. offs + j - Len(toClient) = Len(fname) + j
        BY ONLY <1>2, <4>4
      <4>3. toClient'[j] = Byte(1, offs + j - Len(toClient))
        BY <2>2, <4>1
      <4> QED BY <4>2, <4>3
    <3> QED BY <3>1, <3>2
  <2>4. Len(fname) + Len(toClient') = offs + n
    BY ONLY <1>2, <2>6
  <2>5. \A k \in 1..Len(toClient') : toClient'[k] = Byte(1, Len(fname) + k)
    BY <2>2, <2>3
  <2> HIDE <2>2, <2>3
  <2> QED BY <2>4, <2>5 DEF InStream
<1> QED BY <1>3, <1>4

LEMMA FileInit == Init => FileInv
  BY DEF Init, FileInv, FileState, FileTurns, Nothing

\* The one length there is, and the ends of a file as Typed knows them.
LEMMA OneFile ==
  ASSUME Typed, request = "FETCH"
  PROVE  /\ lens[1] \in 0..IntMax /\ lens[1] \in Nat /\ no = 1
         /\ Block \in Nat /\ Block > 0 /\ StrBlock > 0
         /\ toClient \in Seq(Units) /\ fname \in Seq(Units) /\ toServer \in Nat
         /\ part \in Nat /\ offs \in Nat /\ overall \in Nat
         /\ line \in {"open", "closed", "reset"}
         /\ sender \in {"request", "length", "length_ok", "block", "final_ok", "closed", "killed"}
         /\ client \in {"ask", "length", "data", "done", "failed", "spin"}
         /\ sender \notin {"closed", "killed"} => line = "open"
<1>1. Len(lens) = 1 /\ no = 1
  BY DEF Typed
<1>2. Sizes
  BY Lengths
<1>3. lens[1] \in 0..IntMax
  BY <1>1, <1>2 DEF Sizes
<1>4. lens[1] \in Nat /\ Block \in Nat /\ Block > 0 /\ StrBlock > 0
  BY <1>2, <1>3, IntAssumption DEF Sizes
<1> QED BY <1>1, <1>3, <1>4 DEF Typed, TypeOK

LEMMA LeastOf ==
  ASSUME NEW a \in Nat, NEW b \in Nat
  PROVE  Least(a, b) \in Nat /\ Least(a, b) <= a /\ Least(a, b) <= b
  BY DEF Least

LEMMA FileSender ==
  ASSUME Typed, request = "FETCH", FileState, sender # "killed" => FileTurns, SenderStep
  PROVE  (FileState /\ FileTurns)'
<1> USE OneFile
<1>1. CASE ReceiveRequest
  BY <1>1 DEF ReceiveRequest, Acknowledged, FileState, FileTurns, Nothing, FileLength
<1>2. CASE SendFileLength
  <2>1. toClient' = <<Number(FileLength)>>
    BY <1>2 DEF SendFileLength, FileTurns
  <2> QED BY <1>2, <2>1 DEF SendFileLength, FileState, FileTurns, Nothing, FileLength
<1>3. CASE AwaitLength
  <2>1. client = "data" /\ toServer' = 0 /\ toClient = <<>> /\ fname = <<>> /\ offs = 0 /\ part = 0
    BY <1>3 DEF AwaitLength, Acknowledged, FileTurns
  <2>2. /\ sender' = "block" /\ sender = "length_ok"
        /\ UNCHANGED <<rigidVars, toClient, line, no, part, offs, clientVars>>
    BY <1>3 DEF AwaitLength
  <2>3. FileState'
    BY <2>1, <2>2 DEF FileState, InStream, Nothing, FileLength
  <2>4. 0 * Block = 0 /\ 0 <= lens[1] \div Block
    <3>1. Block \in Nat /\ Block > 0 /\ lens[1] \in Nat
      OBVIOUS
    <3> QED BY ONLY <3>1
  <2>5. Len(fname) + Len(toClient) = 0
    BY <2>1
  <2> QED BY <2>1, <2>2, <2>3, <2>4, <2>5 DEF FileTurns
<1>4. CASE SendBlock
  <2> DEFINE n == Least(Block, lens[1] - offs)
             q == lens[1] \div Block
  <2>1. offs = part * Block /\ part <= q
    BY <1>4 DEF SendBlock, FileTurns
  <2>2. /\ offs <= lens[1]
        /\ part < q => n = Block /\ (part + 1) * Block = offs + Block
        /\ ~(part < q) => n = lens[1] - offs
    <3>1. Block \in Nat /\ Block > 0 /\ lens[1] \in Nat /\ part \in Nat
      OBVIOUS
    <3>2. /\ part * Block <= lens[1]
          /\ part < q => /\ Least(Block, lens[1] - part * Block) = Block
                         /\ (part + 1) * Block = part * Block + Block
          /\ ~(part < q) => Least(Block, lens[1] - part * Block) = lens[1] - part * Block
      BY ONLY <2>1, <3>1, Blocks, Zenon
    <3> QED BY ONLY <2>1, <3>2, Zenon
  <2>3. n \in Nat /\ offs + n <= lens[1]
    <3>1. Block \in Nat /\ lens[1] \in Nat /\ offs \in Nat
      OBVIOUS
    <3>2. offs <= lens[1]
      BY ONLY <2>2
    <3>3. lens[1] - offs \in Nat
      BY ONLY <3>1, <3>2
    <3>4. n \in Nat /\ n <= lens[1] - offs
      BY ONLY <3>1, <3>3, LeastOf DEF n
    <3> HIDE DEF n
    <3> QED BY ONLY <3>1, <3>4
  <2>4. q \in Nat
    OBVIOUS
  <2>5. /\ Sent(1, n) /\ offs' = offs + n /\ part' = part + 1
        /\ sender = "block" /\ sender' = IF part < q THEN "block" ELSE "final_ok"
        /\ UNCHANGED <<rigidVars, toServer, line, no, clientVars>>
    BY <1>4 DEF SendBlock, Sent
  <2> HIDE DEF n, q
  <2>6. /\ sender' = "block" => offs' = part' * Block /\ part' <= q
        /\ sender' = "final_ok" => offs' = lens[1]
    <3>1. part \in Nat /\ part' = part + 1 /\ offs' = offs + n
      BY <2>5
    <3>2. CASE part < q
      BY ONLY <2>2, <2>4, <2>5, <3>1, <3>2
    <3>3. CASE ~(part < q)
      BY ONLY <2>2, <2>3, <2>5, <3>1, <3>3, offs \in Nat, lens[1] \in Nat
    <3> QED BY ONLY <3>2, <3>3
  <2>7. CASE client = "data"
    <3>1. /\ toServer = 0 /\ Len(fname) + Len(toClient) = offs
          /\ max = FileLength /\ InStream /\ got = <<>>
      BY <2>5, <2>7 DEF FileTurns, FileState
    <3>2. InStream' /\ Len(fname') + Len(toClient') = offs + n
      BY <2>3, <2>5, <3>1, StreamSent
    <3>3. FileState'
      BY <2>5, <2>7, <3>1, <3>2 DEF FileState, FileLength
    <3> QED BY <2>5, <2>6, <2>7, <3>1, <3>2, <3>3 DEF FileTurns, q
  <2>8. CASE client # "data"
    <3>1. client = "done" /\ toServer = 1 /\ offs = lens[1] /\ lens[1] > 0
      BY <2>5, <2>8 DEF FileTurns
    <3>2. offs' = lens[1]
      BY <2>3, <2>5, <3>1
    <3>3. FileState'
      BY <2>5, <3>1 DEF FileState, Whole
    <3> QED BY <2>5, <2>6, <3>1, <3>2, <3>3 DEF FileTurns, q
  <2> QED BY <2>7, <2>8
<1>5. CASE AwaitFinal
  <2>1. client = "done" /\ lens[1] > 0
    BY <1>5 DEF AwaitFinal, Acknowledged, FileTurns
  <2>2. sender = "final_ok" /\ sender' = "closed" /\ UNCHANGED <<rigidVars, clientVars>>
    BY <1>5 DEF AwaitFinal
  <2>3. FileState'
    BY <2>1, <2>2 DEF FileState, Whole
  <2> QED BY <2>1, <2>2, <2>3 DEF FileTurns
<1>6. CASE SendCount \/ AwaitCount \/ SendLength \/ SendPart \/ AwaitPart
  BY <1>6 DEF SendCount, AwaitCount, SendLength, SendPart, AwaitPart
<1> QED BY <1>1, <1>2, <1>3, <1>4, <1>5, <1>6 DEF SenderStep

LEMMA FileClient ==
  ASSUME Typed, request = "FETCH", FileState, sender # "killed" => FileTurns, ClientStep
  PROVE  (FileState /\ (sender # "killed" => FileTurns))'
<1> USE OneFile
<1>0. (Ended \/ Reset) /\ client \in {"length", "data"} => sender = "killed"
  BY DEF Ended, Reset, FileTurns
<1>1. CASE SendRequest
  BY <1>1 DEF SendRequest, FileState, FileTurns, Nothing, FileLength
<1>2. CASE ReceiveFileLength
  <2>1. client = "length" /\ UNCHANGED <<rigidVars, senderVars, files, bound, overall, fname, got>>
    BY <1>2 DEF ReceiveFileLength
  <2>2. CASE Ended
    <3>1. client' = "failed" /\ sender' = "killed"
      BY <1>0, <1>2, <2>1, <2>2 DEF ReceiveFileLength
    <3> QED BY <3>1 DEF FileState
  <2>3. CASE ~Ended
    <3>1. PICK n \in Ints : ReceiveNumber(n) /\ max' = n
      BY <1>2, <2>3 DEF ReceiveFileLength
    <3>2. /\ toServer' = toServer + 1
          /\ toClient = <<>> => toClient' = <<>> /\ line # "open" /\ line' = "closed"
          /\ toClient = <<Number(FileLength)>> => n = FileLength /\ toClient' = <<>>
      BY <3>1, NumberRead
    <3>3. client' = "data"
      BY <1>2, <2>3 DEF ReceiveFileLength
    <3>4. Nothing /\ Nothing'
      BY <2>1 DEF FileState, Nothing
    <3>5. CASE toClient = <<>>
      <4>1. sender = "killed"
        BY <2>1, <3>2, <3>5 DEF FileTurns
      <4> QED BY <2>1, <3>2, <3>3, <3>4, <3>5, <4>1 DEF FileState, Nothing
    <3>6. CASE toClient = <<Number(FileLength)>>
      <4>1. Len(fname') = 0 /\ Len(toClient') = 0 /\ overall' = 0
        BY <3>2, <3>4, <3>6 DEF Nothing
      <4>2. InStream'
        BY <2>1, <4>1 DEF InStream
      <4>3. FileState'
        BY <2>1, <3>1, <3>2, <3>3, <3>4, <3>6, <4>2 DEF FileState, Nothing, FileLength
      <4>4. toClient # <<>>
        BY <3>6
      <4>5. sender # "killed" => sender = "length_ok" /\ toServer = 0 /\ offs = 0 /\ part = 0
        BY <2>1, <4>4 DEF FileTurns
      <4> QED BY <2>1, <3>2, <3>3, <3>4, <3>6, <4>3, <4>5 DEF FileTurns, Nothing
    <3> QED BY <2>1, <3>5, <3>6 DEF FileState
  <2> QED BY <2>2, <2>3
<1>3. CASE ReceiveData
  <2>1. PICK n \in Arriving(Block) : Take(n)
    BY <1>3 DEF ReceiveData
  <2>2. /\ client = "data" /\ UNCHANGED <<rigidVars, line, senderVars, files, max, bound>>
        /\ IF overall' < max THEN UNCHANGED <<client, got, toServer>> ELSE FileReceived
    BY <1>3 DEF ReceiveData
  <2>3. toClient # <<>> /\ n \in 1..Len(toClient)
    BY <2>1, ArrivingBounds
  <2>0. max = FileLength /\ InStream /\ got = <<>> /\ lens[1] > 0
    BY <2>2, <2>3 DEF FileState, InStream
  <2>4. max = lens[1] /\ FileLength = lens[1] /\ InStream /\ got = <<>>
    BY <2>0 DEF FileLength, Typed
  <2>5. /\ InStream' /\ fname' \in Seq(Units)
        /\ Len(fname') + Len(toClient') = Len(fname) + Len(toClient)
    BY <2>1, <2>2, <2>3, <2>4, StreamTaken
  <2>6. sender # "killed" => /\ sender \in {"block", "final_ok"} /\ toServer = 0
                             /\ Len(fname) + Len(toClient) = offs
    BY <2>2, <2>3 DEF FileTurns
  <2>7. CASE overall' < max
    <3>1. client' = "data" /\ got' = got /\ toServer' = toServer
      BY <2>2, <2>7
    <3>2. FileState'
      BY <2>2, <2>4, <2>5, <3>1 DEF FileState, FileLength
    <3> QED BY <2>2, <2>5, <2>6, <3>1, <3>2 DEF FileTurns
  <2>8. CASE ~(overall' < max)
    <3>1. client' = "done" /\ got' = <<fname'>> /\ toServer' = toServer + 1
      BY <2>2, <2>4, <2>8 DEF FileReceived
    <3>2. Len(fname') \in Nat /\ Len(toClient') \in Nat /\ overall' = Len(fname')
          /\ Len(fname') + Len(toClient') <= lens[1]
      BY <2>2, <2>5, TakeTyped, <2>1 DEF InStream
    <3>3. Len(fname') = lens[1] /\ Len(toClient') = 0
      BY <2>4, <2>8, <3>2
    <3>4. fname' = Whole(1)
      BY <2>5, <3>3, WholeFile DEF InStream
    <3>5. FileState'
      BY <2>2, <3>1, <3>4 DEF FileState, Whole
    <3>6. lens[1] > 0
      BY <2>3, <2>4 DEF InStream
    <3>7. sender # "killed" => offs <= lens[1] /\ offs = lens[1]
      BY <2>5, <2>6, <3>3
    <3> QED BY <2>2, <2>6, <3>1, <3>5, <3>6, <3>7 DEF FileTurns
  <2> QED BY <2>7, <2>8
<1>4. CASE DataCut
  <2>1. /\ client = "data" /\ fname' = fname /\ line' = "closed" /\ Cut \in {-1, 0}
        /\ UNCHANGED <<rigidVars, toClient, senderVars, files, max, bound, overall>>
    BY <1>4 DEF DataCut, Cut
  <2>2. sender' = "killed"
    BY <1>0, <1>4, <2>1 DEF DataCut
  <2>3. CASE overall + Cut < max
    <3>1. client' = "spin"
      BY <1>4, <2>3 DEF DataCut
    <3> QED BY <2>2, <3>1 DEF FileState
  <2>4. CASE ~(overall + Cut < max)
    <3>1. client' = "done" /\ got' = <<fname>>
      BY <1>4, <2>1, <2>4 DEF DataCut, FileReceived, FileState
    <3>2. fname = <<>> \/ fname = Whole(1)
      <4>1. CASE max = FileLength /\ InStream
        <5>1. overall = Len(fname) /\ Len(fname) <= lens[1]
          BY <4>1 DEF InStream
        <5>2. opened => max = lens[1]
          BY <4>1 DEF FileLength
        <5>3. ~opened => lens[1] = 0
          BY DEF Typed
        <5>4. Len(fname) = lens[1]
          BY <2>1, <2>4, <5>1, <5>2, <5>3
        <5> QED BY <4>1, <5>4, WholeFile DEF InStream
      <4>2. CASE Nothing
        BY <4>2 DEF Nothing
      <4> QED BY <2>1, <4>1, <4>2 DEF FileState
    <3> QED BY <2>1, <2>2, <3>1, <3>2 DEF FileState, Whole
  <2> QED BY <2>3, <2>4
<1>5. CASE ReceiveCount \/ ReceiveLength \/ ReceiveName \/ NameCut
  BY <1>5 DEF ReceiveCount, ReceiveLength, ReceiveName, NameCut
<1> QED BY <1>1, <1>2, <1>3, <1>4, <1>5 DEF ClientStep

LEMMA FileStep == Typed /\ FileInv /\ [Next]_vars => FileInv'
<1> SUFFICES ASSUME Typed, FileInv, [Next]_vars, request' = "FETCH" PROVE FileInv'
  BY DEF FileInv
<1>0. request = "FETCH"
  BY DEF Next, SenderStep, ClientStep, Kill, ReceiveRequest, SendCount, AwaitCount, SendLength,
    SendFileLength, AwaitLength, SendPart, AwaitPart, SendBlock, AwaitFinal, SendRequest, ReceiveCount,
    ReceiveLength, ReceiveName, NameCut, ReceiveFileLength, ReceiveData, DataCut
<1>1. CASE SenderStep
  BY <1>0, <1>1, FileSender DEF FileInv
<1>2. CASE ClientStep
  BY <1>0, <1>2, FileClient DEF FileInv
<1>3. CASE Kill
  <2>1. toClient' \in {toClient, <<>>} /\ line' \in {"closed", "reset"}
    BY <1>3, LineClosed DEF Kill
  <2>2. /\ sender # "killed" /\ sender' = "killed"
        /\ UNCHANGED <<rigidVars, no, part, offs, clientVars>>
    BY <1>3 DEF Kill
  <2>3. InStream => InStream'
    BY <1>0, <2>1, <2>2, OneFile DEF InStream
  <2>4. FileState'
    BY <1>0, <2>1, <2>2, <2>3 DEF FileInv, FileState, Nothing, Whole, FileLength
  <2> QED BY <2>2, <2>4 DEF FileInv
<1>4. CASE UNCHANGED vars
  BY <1>4 DEF FileInv, FileState, FileTurns, InStream, Nothing, Whole, FileLength
<1> QED BY <1>1, <1>2, <1>3, <1>4 DEF Next

\* A file that is counted is the file that was sent, in the order of its bytes, or, if
\* the Content Server was killed before it sent the length, no byte at all.
THEOREM FileIsWhole == Spec => []FileArrives
<1>1. Init => Typed /\ FileInv
  BY TypedInit, FileInit
<1>2. (Typed /\ FileInv) /\ [Next]_vars => (Typed /\ FileInv)'
  BY TypedStep, FileStep
<1>3. FileInv => FileArrives
  BY DEF FileInv, FileState, FileArrives
<1> QED BY <1>1, <1>2, <1>3, PTL DEF Spec

--------------------------------------------------------------------------------
(* The names of a listing. *)

LEMMA NamesInit == Init => NamesInv
<1> SUFFICES ASSUME Init PROVE NamesState /\ NamesTurns
  BY DEF NamesInv
<1> QED BY DEF Init, NamesState, NamesTurns

\* A name that fits is one part, and has a byte; uint16_t has room for its length.
LEMMA TameName ==
  ASSUME Typed, Tame, NEW i \in 1..Len(lens)
  PROVE  /\ lens[i] \in Nat /\ lens[i] > 0 /\ lens[i] <= StrBlock
         /\ lens[i] % Limits16 = lens[i] /\ Least(lens[i], StrBlock) = lens[i]
         /\ Whole(i) \in Seq(Units) /\ Len(Whole(i)) = lens[i] /\ Whole(i) # <<>>
<1>1. Sizes
  BY Lengths
<1>2. i \in 1..IntMax /\ lens[i] \in 0..IntMax
  BY <1>1, IntAssumption DEF Sizes
<1>3. lens[i] \in Nat /\ lens[i] > 0 /\ lens[i] <= StrBlock
  BY <1>2, IntAssumption DEF Typed, Tame
<1>4. StrBlock \in Nat /\ StrBlock < Limits16 /\ Limits16 \in Nat
  BY <1>1 DEF Sizes, Limits16
<1>5. lens[i] % Limits16 = lens[i] /\ Least(lens[i], StrBlock) = lens[i]
  BY ONLY <1>3, <1>4 DEF Least
<1>6. \A k \in 1..lens[i] : Byte(i, k) \in Units
  BY <1>2, IntAssumption DEF Units
<1>7. Whole(i) \in Seq(Units) /\ Len(Whole(i)) = lens[i]
  BY <1>3, <1>6 DEF Whole
<1>8. Whole(i) # <<>>
  BY <1>3, <1>7
<1> QED BY <1>3, <1>5, <1>7, <1>8

\* What Typed says of the two ends of a listing.
LEMMA Ends ==
  ASSUME Typed, Tame
  PROVE  /\ request = "LIST" /\ ~split /\ Len(lens) \in Nat
         /\ toClient \in Seq(Units) /\ toServer \in Nat
         /\ got \in Seq(Seq(Units)) /\ Len(got) \in Nat
         /\ line \in {"open", "closed", "reset"}
         /\ no \in 1..(Len(lens) + 1)
         /\ sender \in {"length", "length_ok", "part", "part_ok"} => no \in 1..Len(lens)
         /\ sender \in {"request", "count", "count_ok", "length", "length_ok", "part",
                        "part_ok", "closed", "killed"}
         /\ client \in {"ask", "count", "length", "name", "done", "spin"}
         /\ sender \notin {"closed", "killed"} => line = "open"
<1>1. Sizes
  BY Lengths
<1>2. Len(lens) \in Nat /\ no \in 1..(Len(lens) + 1)
  BY <1>1 DEF Sizes, Typed, TypeOK
<1>3. sender \in {"length", "length_ok", "part", "part_ok"} => no \in 1..Len(lens)
  BY <1>2 DEF Typed, TypeOK
<1>4. got \in Seq(Seq(Units)) /\ Len(got) \in Nat
  BY DEF Typed, TypeOK
<1> QED BY <1>2, <1>3, <1>4 DEF Typed, TypeOK, Tame

\* The head of the loop over the names, when no OK is left unread.
LEMMA NextNameQuiet ==
  ASSUME Typed, Tame, NEW i \in 1..(Len(lens) + 1), NextName(i), toServer' = 0, toClient = <<>>
  PROVE  /\ no' = i /\ part' = 0 /\ offs' = 0 /\ toClient' = <<>>
         /\ \/ sender' = "length" /\ i <= Len(lens)
            \/ sender' = "closed" /\ i = Len(lens) + 1
<1>1. no' = i /\ part' = 0 /\ offs' = 0
  BY DEF NextName
<1>2. CASE i <= Len(lens)
  BY <1>1, <1>2 DEF NextName
<1>3. CASE ~(i <= Len(lens))
  <2>1. sender' = "closed" /\ CloseLine
    BY <1>3 DEF NextName
  <2>2. toClient' = <<>>
    BY <2>1 DEF CloseLine
  <2>3. i = Len(lens) + 1
    BY <1>3, Ends
  <2> QED BY <1>1, <2>1, <2>2, <2>3
<1> QED BY <1>2, <1>3

LEMMA Quotient ==
  ASSUME NEW a \in Nat, NEW b \in Nat, a < b
  PROVE  a \div b = 0
  OBVIOUS

LEMMA NamesSender ==
  ASSUME Typed, Tame, NamesState, sender # "killed" => NamesTurns, SenderStep
  PROVE  (NamesState /\ NamesTurns)'
<1> USE Ends
<1> USE DEF ClientAt, Naming
<1>1. CASE ReceiveRequest
  BY <1>1 DEF ReceiveRequest, Acknowledged, NamesState, NamesTurns, Whole
<1>2. CASE SendCount
  <2>1. client = "count" /\ toServer = 0 /\ toClient' = <<Number(Len(lens))>>
    BY <1>2 DEF SendCount, NamesTurns
  <2> QED BY <1>2, <2>1 DEF SendCount, NamesState, NamesTurns, Whole
<1>3. CASE AwaitCount
  <2>1. /\ ClientAt(0) /\ toServer' = 0 /\ sender = "count_ok" /\ NextName(1)
        /\ UNCHANGED <<rigidVars, clientVars>>
    BY <1>3 DEF AwaitCount, Acknowledged, NamesTurns
  <2>2. /\ no' = 1 /\ part' = 0 /\ offs' = 0 /\ toClient' = <<>>
        /\ \/ sender' = "length" /\ 1 <= Len(lens)
           \/ sender' = "closed" /\ Len(lens) = 0
    BY <2>1, NextNameQuiet
  <2>3. NamesState'
    BY <2>1, <2>2 DEF NamesState, Whole
  <2> QED BY <2>1, <2>2, <2>3 DEF NamesTurns
<1>4. CASE SendLength
  <2>1. ClientAt(no - 1) /\ toServer = 0 /\ part = 0 /\ offs = 0 /\ client = "length"
    BY <1>4 DEF SendLength, NamesTurns
  <2>2. toClient' = <<Number(lens[no])>>
    BY <1>4, <2>1 DEF SendLength
  <2>3. /\ sender = "length" /\ sender' = "length_ok"
        /\ UNCHANGED <<rigidVars, toServer, line, no, part, offs, clientVars>>
    BY <1>4 DEF SendLength
  <2>4. Len(got) + 1 = no
    BY <2>1
  <2>5. NamesState'
    BY <2>1, <2>2, <2>3, <2>4 DEF NamesState, Whole
  <2> QED BY <1>4, <2>1, <2>2, <2>3, <2>5 DEF NamesTurns
<1>5. CASE AwaitLength
  <2>1. /\ Naming(no) /\ toServer' = 0 /\ toClient = <<>> /\ part = 0 /\ offs = 0
        /\ sender' = "part" /\ sender = "length_ok"
        /\ UNCHANGED <<rigidVars, toClient, line, no, part, offs, clientVars>>
    BY <1>5 DEF AwaitLength, Acknowledged, NamesTurns
  <2>2. NamesState'
    BY <2>1 DEF NamesState, Whole
  <2> QED BY <1>5, <2>1, <2>2 DEF NamesTurns
<1>6. CASE SendPart
  <2> DEFINE n == Least(StrBlock, lens[no] - offs)
  <2>1. /\ sender = "part" /\ sender' = "part_ok" /\ part' = part + 1 /\ offs' = offs + n
        /\ toClient' = toClient \o [k \in 1..n |-> Byte(no, offs + k)]
        /\ UNCHANGED <<rigidVars, toServer, line, no, clientVars>>
    BY <1>6 DEF SendPart
  <2>2. toServer = 0 /\ toClient = <<>> /\ no \in 1..Len(lens)
    BY <2>1 DEF NamesTurns
  <2>3. lens[no] \in Nat /\ lens[no] > 0 /\ lens[no] <= StrBlock /\ Whole(no) \in Seq(Units)
    BY <2>2, TameName
  <2>4. StrBlock \in Nat
    BY Lengths DEF Sizes
  <2>5. CASE part = 0 /\ offs = 0 /\ Naming(no)
    <3>1. n = lens[no]
      BY <2>3, <2>4, <2>5 DEF Least
    <3> HIDE DEF n
    <3>2. [k \in 1..n |-> Byte(no, offs + k)] = Whole(no)
      BY <2>3, <2>5, <3>1 DEF Whole
    <3>3. toClient' = Whole(no) /\ part' = 1 /\ offs' = lens[no]
      BY <2>1, <2>2, <2>3, <2>5, <3>1, <3>2, ConcatEmptySeq
    <3>4. Len(got) + 1 = no
      BY <2>5
    <3>5. Whole(no)' = Whole(no)
      BY <2>1 DEF Whole
    <3>6. NamesState'
      BY <2>1, <2>2, <2>5, <3>3, <3>4 DEF NamesState, Whole
    <3> HIDE DEF Whole
    <3> QED BY <2>1, <2>2, <2>5, <3>3, <3>5, <3>6 DEF NamesTurns
  <2>6. CASE part = 1 /\ offs = lens[no] /\ lens[no] = StrBlock /\ ClientAt(no)
    <3>1. n = 0
      BY <2>3, <2>4, <2>6 DEF Least
    <3> HIDE DEF n
    <3>2. [k \in 1..n |-> Byte(no, offs + k)] = <<>>
      BY <3>1
    <3>3. toClient' = <<>> /\ part' = 2 /\ offs' = lens[no]
      BY <2>1, <2>2, <2>3, <2>6, <3>1, <3>2
    <3>4. NamesState'
      BY <2>1, <2>6, <3>3 DEF NamesState, Whole
    <3> QED BY <2>1, <2>2, <2>6, <3>3, <3>4 DEF NamesTurns
  <2> QED BY <2>1, <2>5, <2>6 DEF NamesTurns
<1>7. CASE AwaitPart
  <2>1. /\ part = 1 /\ toServer' = 0 /\ ClientAt(no) /\ offs = lens[no] /\ sender = "part_ok"
        /\ UNCHANGED <<rigidVars, clientVars>>
    BY <1>7 DEF AwaitPart, Acknowledged, NamesTurns
  <2>2. lens[no] \in Nat /\ lens[no] > 0 /\ lens[no] <= StrBlock /\ no \in 1..Len(lens)
    BY <2>1, TameName
  <2>3. StrBlock \in Nat /\ StrBlock > 0
    BY Lengths DEF Sizes
  <2>4. CASE lens[no] = StrBlock
    <3>1. part <= lens[no] \div StrBlock
      BY <2>1, <2>3, <2>4
    <3>2. sender' = "part" /\ UNCHANGED <<line, toClient, no, part, offs>>
      BY <1>7, <3>1 DEF AwaitPart
    <3>3. NamesState'
      BY <2>1, <3>2 DEF NamesState, Whole
    <3> QED BY <2>1, <2>2, <2>4, <3>2, <3>3 DEF NamesTurns
  <2>5. CASE lens[no] # StrBlock
    <3>1. lens[no] < StrBlock
      BY <2>2, <2>3, <2>5
    <3>2. ~(part <= lens[no] \div StrBlock)
      BY <2>1, <2>2, <2>3, <3>1, Quotient
    <3>3. NextName(no + 1)
      BY <1>7, <3>2 DEF AwaitPart
    <3>4. /\ no' = no + 1 /\ part' = 0 /\ offs' = 0 /\ toClient' = <<>>
          /\ \/ sender' = "length" /\ no + 1 <= Len(lens)
             \/ sender' = "closed" /\ Len(lens) = no
      BY <2>1, <2>2, <3>3, NextNameQuiet
    <3>5. NamesState'
      BY <2>1, <3>4 DEF NamesState, Whole
    <3>6. \A i \in 1..(no' - 1) : lens[i] < StrBlock
      BY <2>1, <2>2, <3>1, <3>4 DEF NamesTurns
    <3> QED BY <2>1, <2>2, <3>4, <3>5, <3>6 DEF NamesTurns
  <2> QED BY <2>4, <2>5
<1>8. CASE SendFileLength \/ SendBlock \/ AwaitFinal
  BY <1>8 DEF SendFileLength, SendBlock, AwaitFinal
<1> QED BY <1>1, <1>2, <1>3, <1>4, <1>5, <1>6, <1>7, <1>8 DEF SenderStep

LEMMA NamesClient ==
  ASSUME Typed, Tame, NamesState, sender # "killed" => NamesTurns, ClientStep
  PROVE  (NamesState /\ (sender # "killed" => NamesTurns))'
<1> USE Ends
<1> USE DEF ClientAt, Naming
<1>0. toClient = <<>> /\ line # "open" /\ client \in {"count", "length", "name"} =>
        sender = "killed"
  BY DEF NamesTurns
<1>1. CASE SendRequest
  BY <1>1 DEF SendRequest, NamesState, NamesTurns, Whole
<1>2. CASE ReceiveCount
  <2>1. PICK n \in Ints : ReceiveNumber(n) /\ files' = n
    BY <1>2 DEF ReceiveCount
  <2>2. /\ client = "count" /\ got' = got /\ ExpectName(files')
        /\ UNCHANGED <<rigidVars, senderVars, max, bound, overall, fname>>
    BY <1>2 DEF ReceiveCount
  <2>3. /\ toServer' = toServer + 1 /\ line' \in {line, "closed"}
        /\ toClient = <<>> => toClient' = <<>> /\ line # "open" /\ line' = "closed"
        /\ toClient = <<Number(Len(lens))>> => n = Len(lens) /\ toClient' = <<>>
    BY <2>1, NumberRead DEF Typed, TypeOK
  <2>4. toClient' = <<>> /\ got = <<>>
    BY <2>2, <2>3 DEF NamesState
  <2>5. client' \in {"length", "done"}
    BY <2>2 DEF ExpectName
  <2>6. NamesState'
    BY <2>2, <2>4, <2>5 DEF NamesState
  <2>7. sender # "killed" => sender = "count_ok" /\ toServer = 0 /\ toClient = <<Number(Len(lens))>>
    BY <1>0, <2>2, <2>3 DEF NamesState, NamesTurns
  <2>8. sender # "killed" => ClientAt(0)' /\ toServer' = 1
    BY <2>1, <2>2, <2>3, <2>4, <2>7 DEF ExpectName
  <2> QED BY <2>2, <2>6, <2>7, <2>8 DEF NamesTurns
<1>3. CASE ReceiveLength
  <2>1. PICK n \in Ints : ReceiveNumber(n) /\ max' = n /\ bound' = Least(n, StrBlock)
    BY <1>3 DEF ReceiveLength
  <2>2. /\ client = "length" /\ overall' = 0 /\ fname' = <<>> /\ client' = "name"
        /\ UNCHANGED <<rigidVars, senderVars, files, got>>
    BY <1>3 DEF ReceiveLength
  <2>3. /\ toServer' = toServer + 1 /\ line' \in {line, "closed"}
        /\ toClient = <<>> => toClient' = <<>> /\ line # "open" /\ line' = "closed"
        /\ \A m : toClient = <<Number(m)>> => n = m /\ toClient' = <<>>
    BY <2>1, NumberRead DEF Typed, TypeOK
  <2>4. toClient' = <<>>
    BY <2>2, <2>3 DEF NamesState
  <2>5. NamesState'
    BY <2>2, <2>4 DEF NamesState, Whole
  <2>6. sender # "killed" =>
          /\ sender = "length_ok" /\ part = 0 /\ offs = 0 /\ files = Len(lens)
          /\ Len(got) = no - 1 /\ toServer = 0 /\ toClient = <<Number(lens[no])>>
    <3>1. sender # "killed" => toClient # <<>>
      BY <1>0, <2>2, <2>3
    <3> QED BY <2>2, <3>1 DEF NamesTurns
  <2>7. sender # "killed" => max' = lens[no] /\ bound' = lens[no]
    BY <2>1, <2>3, <2>6, TameName
  <2> QED BY <2>2, <2>3, <2>4, <2>5, <2>6, <2>7 DEF NamesTurns
<1>4. CASE ReceiveName
  <2> DEFINE k == Len(got) + 1
  <2>1. PICK n \in Arriving(bound' % Limits16) : Take(n)
    BY <1>4 DEF ReceiveName
  <2>2. /\ client = "name" /\ bound' = bound - overall /\ toServer' = toServer + 1 /\ NameRead
        /\ UNCHANGED <<rigidVars, line, senderVars, files, max>>
    BY <1>4 DEF ReceiveName
  <2>3. toClient # <<>>
    BY <2>1 DEF Arriving
  <2>4. /\ fname = <<>> /\ overall = 0 /\ k \in 1..Len(lens) /\ toClient = Whole(k)
        /\ max = lens[k] /\ bound = max
    BY <2>2, <2>3 DEF NamesState
  <2>5. /\ lens[k] \in Nat /\ lens[k] > 0 /\ lens[k] % Limits16 = lens[k]
        /\ Whole(k) \in Seq(Units) /\ Len(Whole(k)) = lens[k]
    BY <2>4, TameName
  <2> HIDE DEF k
  <2>6. bound' % Limits16 = lens[k]
    BY <2>2, <2>4, <2>5
  <2>7. n = lens[k]
    BY <2>1, <2>4, <2>5, <2>6, ArrivingBounds DEF Least
  <2>8. SubSeq(toClient, 1, n) = Whole(k) /\ SubSeq(toClient, n + 1, Len(toClient)) = <<>>
    BY <2>4, <2>5, <2>7, SubSeqFull, SubSeqEmpty
  <2>9. fname' = Whole(k) /\ toClient' = <<>> /\ overall' = lens[k]
    BY <2>1, <2>4, <2>5, <2>7, <2>8, ConcatEmptySeq DEF Take
  <2>10. got' = Append(got, Whole(k)) /\ ExpectName(files)
    BY <2>2, <2>4, <2>5, <2>9 DEF NameRead
  <2>11. /\ Len(got') = k /\ got'[k] = Whole(k)
         /\ \A i \in 1..Len(got) : got'[i] = got[i]
    BY <2>5, <2>10, Gathered DEF k
  <2>12. client' \in {"length", "done"}
    BY <2>10 DEF ExpectName
  <2>13. \A i \in 1..Len(lens) : Whole(i)' = Whole(i)
    BY <2>2 DEF Whole
  <2>14. ASSUME NEW i \in 1..Len(got')
         PROVE  (i <= Len(lens) /\ got'[i] = Whole(i)') \/ (sender' = "killed" /\ got'[i] = <<>>)
    <3>1. CASE i = k
      BY <2>4, <2>11, <2>13, <3>1
    <3>2. CASE i # k
      <4>0. Len(got') = k /\ Len(got) \in Nat /\ k = Len(got) + 1
        BY <2>11 DEF k
      <4>1. i \in 1..Len(got) /\ got'[i] = got[i]
        BY <2>11, <3>2, <4>0
      <4>2. \/ i <= Len(lens) /\ got[i] = Whole(i)
            \/ sender = "killed" /\ got[i] = <<>>
        BY <4>1 DEF NamesState
      <4>3. i \in Nat /\ i >= 1
        BY <4>1
      <4> QED BY <2>2, <2>13, <4>1, <4>2, <4>3
    <3> QED BY <3>1, <3>2
  <2>15. NamesState'
    <3>1. lens' = lens
      BY <2>2
    <3>2. \A i \in 1..Len(got') : \/ i <= Len(lens)' /\ got'[i] = Whole(i)'
                                  \/ sender' = "killed" /\ got'[i] = <<>>
      BY <2>14, <3>1
    <3> QED BY <2>9, <2>12, <3>2 DEF NamesState
  <2>16. sender # "killed" =>
           /\ sender = "part_ok" /\ offs = lens[no] /\ part = 1 /\ toServer = 0
           /\ files = Len(lens) /\ Len(got) = no - 1
    BY <2>2, <2>3 DEF NamesTurns
  <2>17. sender # "killed" => ClientAt(no)' /\ toServer' = 1
    BY <2>2, <2>9, <2>10, <2>11, <2>16 DEF ExpectName, k
  <2> QED BY <2>2, <2>15, <2>16, <2>17 DEF NamesTurns
<1>5. CASE NameCut
  <2>1. /\ client = "name" /\ toClient = <<>> /\ line # "open"
        /\ UNCHANGED <<rigidVars, toClient, senderVars, files, max, bound, overall, fname>>
    BY <1>5 DEF NameCut, Ended, Reset
  <2>2. sender = "killed" /\ sender' = "killed"
    BY <1>0, <2>1
  <2>3. fname = <<>>
    BY <2>1 DEF NamesState
  <2>4. got' = got \/ got' = Append(got, <<>>)
    BY <1>5, <2>3 DEF NameCut
  <2>5. client' \in {"spin", "length", "done"}
    BY <1>5 DEF NameCut, ExpectName
  <2>6. ASSUME NEW i \in 1..Len(got')
        PROVE  (i <= Len(lens) /\ got'[i] = Whole(i)') \/ (sender' = "killed" /\ got'[i] = <<>>)
    <3>1. (i \in 1..Len(got) /\ got'[i] = got[i]) \/ got'[i] = <<>>
      <4>1. CASE got' = got
        BY <4>1
      <4>2. CASE got' = Append(got, <<>>)
        <5>1. <<>> \in Seq(Units)
          BY EmptySeq
        <5>2. /\ Len(got') = Len(got) + 1 /\ got'[Len(got) + 1] = <<>>
              /\ \A j \in 1..Len(got) : got'[j] = got[j]
          BY <4>2, <5>1, Gathered
        <5> QED BY <5>2
      <4> QED BY <2>4, <4>1, <4>2
    <3> QED BY <2>1, <2>2, <3>1 DEF NamesState, Whole
  <2>7. NamesState'
    BY <2>1, <2>5, <2>6 DEF NamesState
  <2> QED BY <2>2, <2>7
<1>6. CASE ReceiveFileLength \/ ReceiveData \/ DataCut
  BY <1>6 DEF ReceiveFileLength, ReceiveData, DataCut
<1> QED BY <1>1, <1>2, <1>3, <1>4, <1>5, <1>6 DEF ClientStep

LEMMA NamesStep == Typed /\ NamesInv /\ [Next]_vars => NamesInv'
<1> SUFFICES ASSUME Typed, NamesInv, [Next]_vars, Tame' PROVE NamesInv'
  BY DEF NamesInv
<1>0. UNCHANGED rigidVars
  BY DEF Next, SenderStep, ClientStep, Kill, ReceiveRequest, SendCount, AwaitCount, SendLength,
    SendFileLength, AwaitLength, SendPart, AwaitPart, SendBlock, AwaitFinal, SendRequest, ReceiveCount,
    ReceiveLength, ReceiveName, NameCut, ReceiveFileLength, ReceiveData, DataCut
<1>1. Tame
  BY <1>0 DEF Tame
<1>2. CASE SenderStep
  BY <1>1, <1>2, NamesSender DEF NamesInv
<1>3. CASE ClientStep
  BY <1>1, <1>3, NamesClient DEF NamesInv
<1>4. CASE Kill
  <2>1. toClient' \in {toClient, <<>>}
    BY <1>4, LineClosed DEF Kill
  <2>2. /\ sender # "killed" /\ sender' = "killed"
        /\ UNCHANGED <<rigidVars, no, part, offs, clientVars>>
    BY <1>4 DEF Kill
  <2>3. NamesState'
    BY <1>1, <2>1, <2>2 DEF NamesInv, NamesState, Whole
  <2> QED BY <2>2, <2>3 DEF NamesInv
<1>5. CASE UNCHANGED vars
  BY <1>1, <1>5 DEF NamesInv, NamesState, NamesTurns, ClientAt, Naming, Whole
<1> QED BY <1>2, <1>3, <1>4, <1>5 DEF Next

LEMMA Invariants == Spec => [](Typed /\ FileInv /\ NamesInv)
<1>1. Init => Typed /\ FileInv /\ NamesInv
  BY TypedInit, FileInit, NamesInit
<1>2. (Typed /\ FileInv /\ NamesInv) /\ [Next]_vars => (Typed /\ FileInv /\ NamesInv)'
  BY TypedStep, FileStep, NamesStep
<1> QED BY <1>1, <1>2, PTL DEF Spec

LEMMA ShortIsTame ==
  ASSUME Typed, request = "LIST", ShortNames
  PROVE  Tame
<1>1. Sizes
  BY Lengths
<1> QED BY <1>1 DEF Sizes, ShortNames, Tame

\* Names that fit into one block are received whole and in their order, or as empty
\* strings after the Content Server was killed.
THEOREM NamesAreWhole == Spec => []NamesArrive
<1>1. Typed /\ NamesInv => NamesArrive
  <2> SUFFICES ASSUME Typed, NamesInv, request = "LIST", ShortNames, NEW i \in DOMAIN got
               PROVE  \/ i <= Len(lens) /\ got[i] = Whole(i)
                      \/ sender = "killed" /\ got[i] = <<>>
    BY DEF NamesArrive
  <2>1. i \in 1..Len(got)
    BY DEF Typed, TypeOK
  <2> QED BY <2>1, ShortIsTame DEF NamesInv, NamesState
<1> QED BY <1>1, Invariants, PTL

\* When the Content Server closes the connection by itself, the client has it all: no
\* OK stood for another piece than the one that was waited for.
THEOREM ClosedAfterAll == Spec => []ClosedIsReceived
<1>1. Typed /\ FileInv /\ NamesInv => ClosedIsReceived
  <2> SUFFICES ASSUME Typed, FileInv, NamesInv, sender = "closed", request = "LIST" => ShortNames
               PROVE  client = "done" /\ got = Names
    BY DEF ClosedIsReceived
  <2>1. CASE request = "FETCH"
    <3>1. client = "done" /\ got = <<Whole(1)>>
      BY <2>1 DEF FileInv, FileState, FileTurns
    <3>2. DOMAIN lens = 1..1
      BY <2>1, Lengths DEF Typed, Sizes
    <3>3. Names = <<Whole(1)>>
      BY <3>2 DEF Names
    <3> QED BY <3>1, <3>3
  <2>2. CASE request = "LIST"
    <3>1. Tame
      BY <2>2, ShortIsTame
    <3>2. ClientAt(Len(lens)) /\ Len(lens) \in Nat
      BY <3>1, Ends DEF NamesInv, NamesTurns
    <3>3. client = "done" /\ Len(got) = Len(lens)
      BY <3>2 DEF ClientAt
    <3>4. \A i \in 1..Len(got) : got[i] = Whole(i)
      BY <3>1 DEF NamesInv, NamesState
    <3>5. DOMAIN lens = 1..Len(lens)
      BY Lengths DEF Sizes
    <3>6. Names = [i \in 1..Len(got) |-> Whole(i)]
      BY <3>3, <3>5 DEF Names
    <3>7. got = [i \in 1..Len(got) |-> got[i]]
      BY DEF Typed, TypeOK
    <3>8. [i \in 1..Len(got) |-> got[i]] = [i \in 1..Len(got) |-> Whole(i)]
      BY <3>4
    <3> QED BY <3>3, <3>6, <3>7, <3>8
  <2> QED BY <2>1, <2>2 DEF Typed, TypeOK
<1> QED BY <1>1, Invariants, PTL

\* The piece that has no bytes: that of an empty file, or of one that cannot be opened,
\* and the second part of a name of exactly one block.
EmptyPieceBlocks ==
  \/ request = "FETCH" /\ lens[1] = 0
  \/ request = "LIST" /\ ~split /\ StrBlock \in Range(lens)
     /\ \A i \in DOMAIN lens : lens[i] <= StrBlock
  => sender # "closed"

\* A file of no bytes, and a name of exactly one block, are never acknowledged: the
\* sender does not get to close the connection.
THEOREM EmptyPieceIsAwaited == Spec => []EmptyPieceBlocks
<1>1. Typed /\ FileInv /\ NamesInv => EmptyPieceBlocks
  <2> SUFFICES ASSUME Typed, FileInv, NamesInv, sender = "closed",
                      \/ request = "FETCH" /\ lens[1] = 0
                      \/ request = "LIST" /\ ~split /\ StrBlock \in Range(lens)
                         /\ \A i \in DOMAIN lens : lens[i] <= StrBlock
               PROVE  FALSE
    BY DEF EmptyPieceBlocks
  <2>1. CASE request = "FETCH" /\ lens[1] = 0
    BY <2>1 DEF FileInv, FileTurns
  <2>2. CASE request = "LIST" /\ ~split /\ StrBlock \in Range(lens)
             /\ \A i \in DOMAIN lens : lens[i] <= StrBlock
    <3>1. DOMAIN lens = 1..Len(lens) /\ StrBlock \in Nat
      BY Lengths DEF Sizes
    <3>2. Tame
      BY <2>2, <3>1 DEF Tame
    <3>3. PICK i \in 1..Len(lens) : lens[i] = StrBlock
      BY <2>2, <3>1 DEF Range
    <3>4. no = Len(lens) + 1 /\ \A j \in 1..(no - 1) : lens[j] < StrBlock
      BY <3>2 DEF NamesInv, NamesTurns
    <3>5. i \in 1..(no - 1)
      BY <3>2, <3>4, Ends
    <3> QED BY <3>1, <3>3, <3>4, <3>5
  <2> QED BY <2>1, <2>2
<1> QED BY <1>1, Invariants, PTL

================================================================================
