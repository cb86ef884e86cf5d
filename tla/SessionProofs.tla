---------------------------- MODULE SessionProofs ----------------------------
(***************************************************************************)
(* The two ends of an encrypted connection, for any writers, roundTrippers,*)
(* packet length, Writes and buffers.                                      *)
(*                                                                         *)
(* The frame counters.  NoncesAgree alone is not inductive: the writers of *)
(* one roundTripper are never in RoundTrip together (MutexInv), so that as *)
(* long as Writes of two have not overlapped one goroutine at most is in   *)
(* Write (AloneInv).  The frames it has sealed and not sent carry the last *)
(* numbers (SealInv), and the two counters differ by the frames between    *)
(* them and those that were missed (CountInv).                             *)
(*                                                                         *)
(* The bytes.  That they are read in the order they were written needs to  *)
(* be known of all that lies between the two ends: what was read, what the *)
(* receiver holds, the frames on the wire and those in the writer's hands  *)
(* carry consecutive bytes (StreamInv).  The refinement follows.           *)
(***************************************************************************)
EXTENDS Session, TLAPS

\* conn.Read has a buffer to take from.
BufferInv == reader = "take" => readBuf \in Seq(Bytes)

\* What a writer has in its hands where it is.
HandsInv ==
  \A w \in Writers :
    /\ pc[w] \notin Writing => packets[w] = <<>> /\ sealed[w] = <<>>
    /\ pc[w] = "seal" => packets[w] # <<>>
    /\ pc[w] = "count" => sealed[w] # <<>>
    /\ pc[w] = "send" => packets[w] = <<>> /\ sealed[w] # <<>>

\* A roundTripper's mutex is held by one writer at most.
MutexInv ==
  \A v, w \in Writers : Of[v] = Of[w] /\ pc[v] # "out" /\ pc[w] # "out" => v = w

\* As long as no Writes have overlapped one goroutine at most is in Write.
AloneInv ==
  ~crossed => \A v, w \in Writers : pc[v] \in Writing /\ pc[w] \in Writing => v = w

\* The number that w will use next.
Own(w) == IF pc[w] = "count" THEN encryptCount + 1 ELSE encryptCount

\* The frames of a Write that are not sent carry the last numbers.
SealInv ==
  ~crossed =>
    \A w \in Writers : pc[w] \in Writing =>
      \A i \in 1..Len(sealed[w]) : sealed[w][i].nonce = Own(w) - Len(sealed[w]) + i - 1

\* The number that the next frame to be sent should carry.
Due == decryptCount + missed + Len(wire)

Quiet == \A w \in Writers : pc[w] \notin Writing

\* Every number below encryptCount was missed, was used by the receiver, or is
\* that of a frame on the wire or in the hands of the writer.
CountInv ==
  ~crossed /\ up /\ ~closed =>
    /\ Quiet => encryptCount = Due
    /\ \A w \in Writers : pc[w] \in Writing => Own(w) = Due + Len(sealed[w])

\* What the buffers hold where Read is.
PlaceInv ==
  /\ reader = "idle" => buf = <<>>
  /\ reader = "decrypt" => readBuf = None
  /\ reader = "take" => readBuf # None
  /\ reader # "idle" => size # 0

\* A buffer that is empty and not nil means the end, or was emptied just so.
EofInv == readBuf = <<>> => filled \/ (~up /\ wire = <<>>)

WriteInv == HandsInv /\ MutexInv /\ AloneInv

IndInv ==
  /\ TypeOK /\ BufferInv /\ PlaceInv /\ EofInv
  /\ WriteInv /\ SealInv /\ CountInv /\ NoncesAgree

-----------------------------------------------------------------------------
(* What Encrypt cuts. *)

\* A packet lies within the bytes it is cut from, and is not empty.
LEMMA PacketBounds ==
  ASSUME NEW L \in Nat, NEW i \in 1..((L + packetLengthMax - 1) \div packetLengthMax)
  PROVE  /\ (i - 1) * packetLengthMax + 1 \in 1..L
         /\ Least(i * packetLengthMax, L) \in 1..L
         /\ (i - 1) * packetLengthMax + 1 <= Least(i * packetLengthMax, L)
<1> DEFINE P == packetLengthMax
           q == (L + P - 1) \div P
<1>1. P \in Nat \ {0}
  BY SessionAssumption
<1> HIDE DEF P
<1>2. q \in Nat /\ q * P <= L + P - 1
  BY <1>1, SMTT(30)
<1>3. i \in Nat \ {0} /\ i <= q /\ q - i \in Nat
  BY <1>2 DEF P
<1> HIDE DEF q
<1>4. i * P <= q * P
  BY <1>1, <1>2, <1>3, SMTT(30)
<1>5. (i - 1) * P = i * P - P /\ (i - 1) * P \in Nat /\ i * P \in Nat
  BY <1>1, <1>3, SMTT(30)
<1>6. /\ (i - 1) * P + 1 \in 1..L /\ Least(i * P, L) \in 1..L
      /\ (i - 1) * P + 1 <= Least(i * P, L)
  BY <1>1, <1>2, <1>4, <1>5 DEF Least
<1> QED
  BY <1>6 DEF P

\* Packets are sequences of the bytes they are cut from.
LEMMA PacketsType ==
  ASSUME NEW b \in Seq(Bytes)
  PROVE  Packets(b) \in Seq(Bodies)
<1> DEFINE k == (Len(b) + packetLengthMax - 1) \div packetLengthMax
           Part(i) == SubSeq(b, (i - 1) * packetLengthMax + 1, Least(i * packetLengthMax, Len(b)))
<1>1. k \in Nat
  BY SessionAssumption
<1>2. \A i \in 1..k : Part(i) \in Bodies
  <2> TAKE i \in 1..k
  <2>1. /\ (i - 1) * packetLengthMax + 1 \in 1..Len(b)
        /\ Least(i * packetLengthMax, Len(b)) \in 1..Len(b)
        /\ (i - 1) * packetLengthMax + 1 <= Least(i * packetLengthMax, Len(b))
    BY PacketBounds
  <2> DEFINE x == (i - 1) * packetLengthMax + 1
             y == Least(i * packetLengthMax, Len(b))
  <2>2. x \in 1..Len(b) /\ y \in 1..Len(b) /\ x <= y
    BY <2>1
  <2> HIDE DEF x, y
  <2>3. SubSeq(b, x, y) \in Seq(Bytes) /\ Len(SubSeq(b, x, y)) = y - x + 1
    BY <2>2
  <2>4. SubSeq(b, x, y) # <<>>
    BY <2>2, <2>3
  <2> QED
    BY <2>3, <2>4 DEF x, y, Bodies
<1>3. Packets(b) = [i \in 1..k |-> Part(i)]
  BY DEF Packets
<1> HIDE DEF k, Part
<1> QED
  BY <1>1, <1>2, <1>3

\* The next bytes of the stream are within the bound.
LEMMA FreshType ==
  ASSUME written \in 0..MaxBytes, NEW n \in Nat, written + n <= MaxBytes
  PROVE  Fresh(n) \in Seq(Bytes) /\ Len(Fresh(n)) = n
  BY SessionAssumption DEF Fresh, Bytes

\* There is a packet when there is a byte.
LEMMA PacketsSome ==
  ASSUME NEW b \in Seq(Bytes), Len(b) # 0
  PROVE  Packets(b) # <<>>
<1> DEFINE k == (Len(b) + packetLengthMax - 1) \div packetLengthMax
<1>1. Len(b) \in Nat \ {0} /\ packetLengthMax \in Nat \ {0}
  BY SessionAssumption
<1>2. k \in Nat \ {0}
  BY <1>1, SMTT(30)
<1>3. DOMAIN Packets(b) = 1..k
  BY DEF Packets
<1> HIDE DEF k
<1> QED
  BY <1>2, <1>3

\* What Write puts in the hands of its caller.
LEMMA WriteResult ==
  ASSUME DataOK, NEW w \in Writers, Write(w)
  PROVE  \E n \in Lengths :
           /\ n \in Nat \ {0} /\ written + n <= MaxBytes /\ written' = written + n
           /\ packets' = [packets EXCEPT ![w] = Packets(Fresh(n))]
           /\ Fresh(n) \in Seq(Bytes) /\ Packets(Fresh(n)) \in Seq(Bodies)
           /\ Packets(Fresh(n)) # <<>>
<1>1. PICK n \in Lengths :
        /\ written + n <= MaxBytes /\ written' = written + n
        /\ packets' = [packets EXCEPT ![w] = Packets(Fresh(n))]
  BY DEF Write
<1>2. n \in Nat \ {0} /\ written \in 0..MaxBytes
  BY SessionAssumption DEF DataOK
<1>3. Fresh(n) \in Seq(Bytes) /\ Len(Fresh(n)) = n
  BY <1>1, <1>2, FreshType
<1>4. Packets(Fresh(n)) \in Seq(Bodies) /\ Packets(Fresh(n)) # <<>>
  BY <1>2, <1>3, PacketsType, PacketsSome
<1> QED
  BY <1>1, <1>2, <1>3, <1>4

\* The frame that Seal adds.
Frame(w) == [nonce |-> encryptCount, bytes |-> Head(packets[w])]

LEMMA SealResult ==
  ASSUME DataOK, HandsInv, NEW w \in Writers, Seal(w)
  PROVE  /\ packets[w] # <<>> /\ Frame(w) \in Frames
         /\ packets' = [packets EXCEPT ![w] = Tail(packets[w])]
         /\ sealed' = [sealed EXCEPT ![w] = Append(sealed[w], Frame(w))]
         /\ packets[w] \in Seq(Bodies) /\ sealed[w] \in Seq(Frames)
         /\ packets'[w] = Tail(packets[w]) /\ sealed'[w] = Append(sealed[w], Frame(w))
<1>1. packets[w] \in Seq(Bodies) /\ packets[w] # <<>> /\ encryptCount \in Nat
  BY DEF DataOK, HandsInv, Seal
<1>2. Head(packets[w]) \in Bodies
  BY <1>1
<1>3. Frame(w) \in Frames
  BY <1>1, <1>2 DEF Frame, Frames
<1>4. /\ packets' = [packets EXCEPT ![w] = Tail(packets[w])]
      /\ sealed' = [sealed EXCEPT ![w] = Append(sealed[w], Frame(w))]
  BY Zenon DEF Seal, Frame
<1> QED
  BY <1>1, <1>3, <1>4 DEF DataOK

\* The count that Count leaves.
LEMMA CountResult ==
  ASSUME DataOK, HandsInv, NEW w \in Writers, Count(w)
  PROVE  /\ encryptCount' \in Nat /\ sealed[w] \in Seq(Frames) /\ Len(sealed[w]) \in Nat \ {0}
         /\ encryptCount' \in {encryptCount + 1, sealed[w][Len(sealed[w])].nonce + 1}
<1>1. sealed[w] \in Seq(Frames) /\ sealed[w] # <<>>
  BY DEF DataOK, HandsInv, Count
<1>2. Len(sealed[w]) \in Nat \ {0}
  BY <1>1
<1>3. sealed[w][Len(sealed[w])] \in Frames
  BY <1>1, <1>2
<1>4. sealed[w][Len(sealed[w])].nonce \in Nat
  BY <1>3 DEF Frames
<1>5. encryptCount' \in {encryptCount + 1, sealed[w][Len(sealed[w])].nonce + 1}
  BY DEF Count
<1> QED
  BY <1>1, <1>2, <1>4, <1>5 DEF DataOK

-----------------------------------------------------------------------------
\* The inductive invariant holds of a connection before the first byte.
THEOREM InitInv == Init => IndInv
<1> SUFFICES ASSUME Init PROVE IndInv
  OBVIOUS
<1> USE DEF Init
<1>1. FlagsOK
  BY Zenon DEF FlagsOK
<1>2. DataOK /\ BufferInv /\ PlaceInv
  BY SessionAssumption DEF DataOK, BufferInv, PlaceInv
<1>3. EofInv
  <2>1. <<>> \in Seq(Nat)
    OBVIOUS
  <2>2. None # <<>>
    BY <2>1, SessionAssumption
  <2> QED
    BY <2>2 DEF EofInv
<1>4. \A w \in Writers : pc[w] = "out" /\ packets[w] = <<>> /\ sealed[w] = <<>>
  OBVIOUS
<1>5. WriteInv /\ SealInv
  BY <1>4 DEF WriteInv, HandsInv, MutexInv, AloneInv, SealInv, Writing
<1>6. CountInv /\ NoncesAgree
  BY <1>4, SessionAssumption DEF CountInv, Due, Writing, NoncesAgree
<1> QED
  BY <1>1, <1>2, <1>3, <1>5, <1>6 DEF IndInv, TypeOK

\* The flags stay Boolean.
LEMMA FlagsStep ==
  ASSUME FlagsOK, [Next]_vars
  PROVE  FlagsOK'
<1> USE DEF FlagsOK, sendVars, netVars, readVars
<1>1. ASSUME NEW w \in Writers, Write(w) PROVE FlagsOK'
  BY <1>1, Zenon DEF Write, Crossing
<1>2. ASSUME NEW w \in Writers, Lock(w) \/ Seal(w) \/ Count(w) \/ Send(w) \/ Unlock(w)
      PROVE  FlagsOK'
  BY <1>2, Zenon DEF Lock, Seal, Count, Send, Unlock
<1>3. CASE Read
  BY <1>3, Zenon DEF Read, StartRead, OpenFrame, EndOfStream, ReadError, Take, Fail
<1>4. CASE Break \/ Close
  BY <1>4, Zenon DEF Break, Close, Cut
<1>5. CASE UNCHANGED vars
  BY <1>5, Zenon DEF vars
<1> QED
  BY <1>1, <1>2, <1>3, <1>4, <1>5, Zenon DEF Next, Encrypt

\* The types of what a writer's step changes are kept.
LEMMA WriterTypes ==
  ASSUME DataOK, BufferInv, HandsInv,
         NEW w \in Writers, Lock(w) \/ Encrypt(w) \/ Send(w) \/ Unlock(w)
  PROVE  DataOK' /\ BufferInv'
<1> USE DEF DataOK, BufferInv
<1>1. CASE Lock(w) \/ Unlock(w)
  BY <1>1 DEF Lock, Unlock, At, netVars, readVars
<1>2. CASE Write(w)
  <2>1. PICK n \in Lengths :
          /\ n \in Nat \ {0} /\ written + n <= MaxBytes /\ written' = written + n
          /\ packets' = [packets EXCEPT ![w] = Packets(Fresh(n))]
          /\ Packets(Fresh(n)) \in Seq(Bodies)
    BY <1>2, WriteResult
  <2>2. written' \in 0..MaxBytes /\ packets' \in [Writers -> Seq(Bodies)]
    BY <2>1, SessionAssumption
  <2> QED
    BY <1>2, <2>2 DEF Write, At, Writing, netVars, readVars
<1>3. CASE Seal(w)
  <2>1. /\ packets[w] \in Seq(Bodies) /\ packets[w] # <<>>
        /\ sealed[w] \in Seq(Frames) /\ Frame(w) \in Frames
        /\ packets' = [packets EXCEPT ![w] = Tail(packets[w])]
        /\ sealed' = [sealed EXCEPT ![w] = Append(sealed[w], Frame(w))]
    BY <1>3, SealResult
  <2>2. Tail(packets[w]) \in Seq(Bodies) /\ Append(sealed[w], Frame(w)) \in Seq(Frames)
    BY <2>1
  <2>3. packets' \in [Writers -> Seq(Bodies)] /\ sealed' \in [Writers -> Seq(Frames)]
    BY <2>1, <2>2
  <2> QED
    BY <1>3, <2>3 DEF Seal, At, Writing, netVars, readVars
<1>4. CASE Count(w)
  <2>1. encryptCount' \in Nat
    BY <1>4, CountResult
  <2> QED
    BY <1>4, <2>1 DEF Count, At, Writing, netVars, readVars
<1>5. CASE Send(w)
  <2>1. wire' \in Seq(Frames) /\ sealed' \in [Writers -> Seq(Frames)]
    BY <1>5 DEF Send
  <2> QED
    BY <1>5, <2>1 DEF Send, At, Writing, readVars
<1> QED
  BY <1>1, <1>2, <1>3, <1>4, <1>5 DEF Encrypt

\* The types of the data are kept by every step.
LEMMA DataStep ==
  ASSUME DataOK, BufferInv, HandsInv, [Next]_vars
  PROVE  DataOK' /\ BufferInv'
<1>0. ASSUME NEW w \in Writers, Lock(w) \/ Encrypt(w) \/ Send(w) \/ Unlock(w)
      PROVE  DataOK' /\ BufferInv'
  BY <1>0, WriterTypes
<1> USE DEF DataOK, BufferInv
<1>5. CASE StartRead
  <2>1. UNCHANGED <<sendVars, wire, decryptCount, readBuf, read>>
    BY <1>5 DEF StartRead, netVars
  <2>2. size' \in Buffers
    BY <1>5 DEF StartRead
  <2>3. CASE readBuf = None
    BY <1>5, <2>1, <2>2, <2>3 DEF StartRead, sendVars
  <2>4. CASE readBuf # None
    BY <1>5, <2>1, <2>2, <2>4 DEF StartRead, sendVars
  <2> QED
    BY <2>3, <2>4
<1>6. CASE OpenFrame
  <2>1. Head(wire) \in Frames /\ Tail(wire) \in Seq(Frames)
    BY <1>6 DEF OpenFrame
  <2>2. Head(wire).bytes \in Seq(Bytes)
    BY <2>1 DEF Frames, Bodies
  <2>3. buf \o Head(wire).bytes \in Seq(Bytes)
    BY <2>2
  <2>4. /\ UNCHANGED <<sendVars, size, read>>
        /\ wire' = Tail(wire) /\ decryptCount' = decryptCount + 1
    BY <1>6 DEF OpenFrame, Fail
  <2>5. CASE Head(wire).nonce # decryptCount
    BY <1>6, <2>1, <2>4, <2>5 DEF OpenFrame, Fail, sendVars
  <2>6. CASE Head(wire).nonce = decryptCount /\ Short(Len(Head(wire).bytes))
    <3>1. reader' = "take" /\ buf' = buf \o Head(wire).bytes /\ readBuf' = buf'
      BY <1>6, <2>6, Zenon DEF OpenFrame
    <3> QED
      BY <2>1, <2>3, <2>4, <3>1 DEF sendVars
  <2>7. CASE Head(wire).nonce = decryptCount /\ ~Short(Len(Head(wire).bytes))
    <3>1. UNCHANGED <<reader, readBuf>> /\ buf' = buf \o Head(wire).bytes
      BY <1>6, <2>7, Zenon DEF OpenFrame
    <3> QED
      BY <1>6, <2>1, <2>3, <2>4, <3>1 DEF OpenFrame, sendVars
  <2> QED
    BY <2>5, <2>6, <2>7
<1>7. CASE EndOfStream
  BY <1>7 DEF EndOfStream, sendVars, netVars
<1>8. CASE ReadError
  BY <1>8 DEF ReadError, Fail, sendVars, netVars
<1>9. CASE Take
  <2>1. Taken \in 0..Len(readBuf)
    BY <1>9, SessionAssumption DEF Take, Taken, Least
  <2>2. /\ SubSeq(readBuf, 1, Taken) \in Seq(Bytes)
        /\ SubSeq(readBuf, Taken + 1, Len(readBuf)) \in Seq(Bytes)
    BY <1>9, <2>1 DEF Take
  <2> QED
    BY <1>9, <2>2 DEF Take, sendVars, netVars
<1>10. ASSUME Cut PROVE wire' \in Seq(Frames)
  BY <1>10 DEF Cut
<1>11. CASE Break
  BY <1>10, <1>11 DEF Break, sendVars, readVars
<1>12. CASE Close
  BY <1>10, <1>12 DEF Close, sendVars
<1>13. CASE UNCHANGED vars
  BY <1>13 DEF vars, sendVars, netVars, readVars
<1> QED
  BY <1>0, <1>5, <1>6, <1>7, <1>8, <1>9, <1>11, <1>12, <1>13 DEF Next, Read

-----------------------------------------------------------------------------
\* What each step leaves alone.
LEMMA Unmoved ==
  /\ Read \/ Break \/ Close => UNCHANGED sendVars
  /\ UNCHANGED vars => UNCHANGED <<sendVars, wire, decryptCount>>
  /\ StartRead \/ EndOfStream \/ ReadError \/ Take => UNCHANGED <<wire, decryptCount>>
  /\ StartRead \/ EndOfStream \/ Take \/ UNCHANGED vars => UNCHANGED <<up, closed>>
  /\ ReadError \/ Close => closed'
<1> USE DEF vars, sendVars, netVars, readVars
<1>1. Read \/ Break \/ Close => UNCHANGED sendVars
  BY Zenon DEF Read, StartRead, OpenFrame, EndOfStream, ReadError, Take, Break, Close
<1>2. UNCHANGED vars => UNCHANGED <<sendVars, wire, decryptCount>>
  BY Zenon
<1>3. StartRead \/ EndOfStream \/ ReadError \/ Take => UNCHANGED <<wire, decryptCount>>
  BY Zenon DEF StartRead, EndOfStream, ReadError, Take
<1>4. StartRead \/ EndOfStream \/ Take \/ UNCHANGED vars => UNCHANGED <<up, closed>>
  BY Zenon DEF StartRead, EndOfStream, Take
<1>5. ReadError \/ Close => closed'
  BY Zenon DEF ReadError, Fail, Close
<1> QED
  BY <1>1, <1>2, <1>3, <1>4, <1>5, Zenon

\* A buffer is empty and not nil only when it was emptied just so, or at the end.
LEMMA PlaceStep ==
  ASSUME TypeOK, BufferInv, PlaceInv, EofInv, [Next]_vars
  PROVE  PlaceInv' /\ EofInv'
<1>0. <<>> \in Seq(Bytes) /\ None # <<>> /\ 0 \notin Buffers /\ \A s \in Seq(Bytes) : s # None
  <2>1. <<>> \in Seq(Nat) /\ <<>> \in Seq(Bytes) /\ \A s \in Seq(Bytes) : s \in Seq(Nat)
    BY SessionAssumption DEF Bytes
  <2> QED
    BY <2>1, SessionAssumption
<1>1. ASSUME NEW w \in Writers, Lock(w) \/ Encrypt(w) \/ Send(w) \/ Unlock(w)
      PROVE  PlaceInv' /\ EofInv'
  <2>1. UNCHANGED <<reader, size, buf, readBuf, filled, up>>
    BY <1>1, Zenon DEF Lock, Encrypt, Write, Seal, Count, Send, Unlock, netVars, readVars
  <2>2. ~up => wire' = wire
    BY <1>1, Zenon DEF Lock, Encrypt, Write, Seal, Count, Send, Unlock, netVars
  <2> QED
    BY <2>1, <2>2, Zenon DEF PlaceInv, EofInv
<1>2. CASE StartRead
  BY <1>0, <1>2 DEF StartRead, netVars, PlaceInv, EofInv
<1>3. CASE OpenFrame
  <2> DEFINE f == Head(wire)
  <2>1. f \in Frames /\ wire # <<>> /\ reader = "decrypt"
    BY <1>3 DEF OpenFrame, TypeOK, DataOK
  <2>2. f.bytes \in Seq(Bytes) /\ f.bytes # <<>> /\ buf \in Seq(Bytes)
    BY <2>1 DEF Frames, Bodies, TypeOK, DataOK
  <2>3. buf \o f.bytes \in Seq(Bytes) /\ buf \o f.bytes # <<>>
    BY <2>2
  <2>4. size # 0 /\ readBuf = None /\ UNCHANGED <<up, filled, size>>
    BY <1>3, <2>1 DEF OpenFrame, Fail, PlaceInv
  <2>5. CASE f.nonce # decryptCount
    <3>1. reader' = "idle" /\ buf' = <<>> /\ readBuf' = None
      BY <1>3, <2>4, <2>5, Zenon DEF OpenFrame, Fail
    <3> QED
      BY <1>0, <3>1 DEF PlaceInv, EofInv
  <2>6. CASE f.nonce = decryptCount /\ Short(Len(f.bytes))
    <3>1. reader' = "take" /\ readBuf' = buf \o f.bytes
      BY <1>3, <2>6, Zenon DEF OpenFrame
    <3> QED
      BY <1>0, <2>3, <2>4, <3>1 DEF PlaceInv, EofInv
  <2>7. CASE f.nonce = decryptCount /\ ~Short(Len(f.bytes))
    <3>1. reader' = "decrypt" /\ readBuf' = None
      BY <1>3, <2>1, <2>4, <2>7, Zenon DEF OpenFrame
    <3> QED
      BY <1>0, <2>4, <3>1 DEF PlaceInv, EofInv
  <2> QED
    BY <2>5, <2>6, <2>7
<1>4. CASE EndOfStream
  <2>1. /\ reader = "decrypt" /\ reader' = "take" /\ readBuf' = buf /\ size' = size
        /\ ~up' /\ wire' = <<>> /\ buf \in Seq(Bytes)
    BY <1>4, Zenon DEF EndOfStream, netVars, TypeOK, DataOK
  <2> QED
    BY <1>0, <2>1 DEF PlaceInv, EofInv
<1>5. CASE ReadError
  <2>1. /\ reader = "decrypt" /\ reader' = "idle" /\ buf' = <<>> /\ readBuf' = readBuf
    BY <1>5, Zenon DEF ReadError, Fail
  <2> QED
    BY <1>0, <2>1 DEF PlaceInv, EofInv
<1>6. CASE Take
  <2> DEFINE r == SubSeq(readBuf, Taken + 1, Len(readBuf))
  <2>1. /\ reader = "take" /\ reader' = "idle" /\ buf' = <<>>
        /\ readBuf' = IF Taken < size THEN None ELSE r
    BY <1>6 DEF Take, Spent
  <2>2. filled' = (readBuf # <<>> /\ size = Len(readBuf))
    BY <1>6, Zenon DEF Take
  <2>3. readBuf \in Seq(Bytes) /\ Len(readBuf) \in Nat /\ size \in Nat \ {0}
    BY <2>1, SessionAssumption DEF BufferInv, PlaceInv, TypeOK, DataOK
  <2>4. Taken = Least(size, Len(readBuf))
    BY DEF Taken
  <2>5. ASSUME readBuf' = <<>> PROVE readBuf # <<>> /\ size = Len(readBuf)
    <3>1. ~(Taken < size) /\ r = <<>>
      BY <1>0, <2>1, <2>5
    <3>2. Taken = size /\ size <= Len(readBuf)
      BY <2>3, <2>4, <3>1 DEF Least
    <3>3. size = Len(readBuf)
      <4>1. size + 1 > Len(readBuf)
        <5> SUFFICES ASSUME size + 1 <= Len(readBuf) PROVE FALSE
          BY <2>3
        <5>1. Len(SubSeq(readBuf, size + 1, Len(readBuf))) = Len(readBuf) - size
          BY <2>3
        <5>2. SubSeq(readBuf, size + 1, Len(readBuf)) = <<>>
          BY <3>1, <3>2
        <5>3. Len(readBuf) - size = 0
          BY <5>1, <5>2
        <5> QED
          BY <2>3, <5>3
      <4> QED
        BY <2>3, <3>2, <4>1
    <3> QED
      BY <2>3, <3>3
  <2>6. EofInv'
    BY <2>2, <2>5, Zenon DEF EofInv
  <2> QED
    BY <2>1, <2>6 DEF PlaceInv
<1>7. CASE Break \/ Close
  <2>1. UNCHANGED <<reader, size, buf, readBuf, filled>>
    BY <1>7, Zenon DEF Break, Close, readVars
  <2>3. ~up => ~up'
    BY <1>7 DEF Break, Close
  <2>2. wire = <<>> => wire' = <<>>
    <3>1. PICK n \in 0..Len(wire) : wire' = SubSeq(wire, 1, n)
      BY <1>7 DEF Break, Close, Cut
    <3> QED
      BY <3>1
  <2> QED
    BY <2>1, <2>2, <2>3, Zenon DEF PlaceInv, EofInv
<1>8. CASE UNCHANGED vars
  BY <1>8, Zenon DEF vars, netVars, readVars, PlaceInv, EofInv
<1> QED
  BY <1>1, <1>2, <1>3, <1>4, <1>5, <1>6, <1>7, <1>8 DEF Next, Read

\* The mutex is taken by one writer, and a Write that begins while another is
\* on its way is one that crosses.
LEMMA WriteStep ==
  ASSUME TypeOK, WriteInv, [Next]_vars
  PROVE  WriteInv'
<1> USE DEF WriteInv, HandsInv, MutexInv, AloneInv, Writing, At
<1>0. pc \in [Writers -> {"out", "in"} \cup Writing] /\ DataOK
  BY DEF TypeOK, DataOK
<1>1. ASSUME NEW w \in Writers, Lock(w) PROVE WriteInv'
  BY <1>0, <1>1 DEF Lock, Free
<1>2. ASSUME NEW w \in Writers, Unlock(w) PROVE WriteInv'
  BY <1>0, <1>2 DEF Unlock
<1>3. ASSUME NEW w \in Writers, Write(w) PROVE WriteInv'
  <2>1. PICK n \in Lengths :
          /\ packets' = [packets EXCEPT ![w] = Packets(Fresh(n))] /\ Packets(Fresh(n)) # <<>>
    BY <1>0, <1>3, WriteResult
  <2>2. /\ pc[w] = "in" /\ pc' = [pc EXCEPT ![w] = "seal"] /\ sealed' = sealed
        /\ crossed' = (crossed \/ Crossing(w))
    BY <1>3, Zenon DEF Write
  <2>3. HandsInv'
    BY <1>0, <2>1, <2>2 DEF DataOK, TypeOK
  <2>4. MutexInv'
    BY <1>0, <2>2
  <2>5. ASSUME ~crossed', NEW x \in Writers, pc[x] \in Writing PROVE FALSE
    <3>1. ~Crossing(w)
      BY <2>2, <2>5, Zenon
    <3>2. Of[x] = Of[w]
      BY <2>5, <3>1 DEF Crossing
    <3> QED
      BY <2>2, <2>5, <3>2
  <2>6. AloneInv'
    BY <1>0, <2>2, <2>5
  <2> QED
    BY <2>3, <2>4, <2>6
<1>4. ASSUME NEW w \in Writers, Seal(w) PROVE WriteInv'
  <2>1. /\ packets[w] # <<>> /\ sealed[w] \in Seq(Frames) /\ Frame(w) \in Frames
        /\ packets' = [packets EXCEPT ![w] = Tail(packets[w])]
        /\ sealed' = [sealed EXCEPT ![w] = Append(sealed[w], Frame(w))]
    BY <1>0, <1>4, SealResult
  <2>2. Append(sealed[w], Frame(w)) # <<>>
    BY <2>1
  <2>3. pc[w] = "seal" /\ pc' = [pc EXCEPT ![w] = "count"] /\ crossed' = crossed
    BY <1>4 DEF Seal
  <2>4. HandsInv'
    BY <1>0, <2>1, <2>2, <2>3 DEF DataOK
  <2> QED
    BY <1>0, <2>3, <2>4
<1>5. ASSUME NEW w \in Writers, Count(w) PROVE WriteInv'
  BY <1>0, <1>5 DEF Count
<1>6. ASSUME NEW w \in Writers, Send(w) PROVE WriteInv'
  BY <1>0, <1>6 DEF Send, DataOK
<1>7. CASE Read \/ Break \/ Close \/ UNCHANGED vars
  BY <1>7, Unmoved DEF sendVars
<1> QED
  BY <1>1, <1>2, <1>3, <1>4, <1>5, <1>6, <1>7 DEF Next, Encrypt

\* As long as none has crossed it, the writer in Write is the only one there.
LEMMA Only ==
  ASSUME AloneInv, ~crossed, NEW w \in Writers, pc[w] \in Writing
  PROVE  \A x \in Writers : x # w => pc[x] \notin Writing
  BY DEF AloneInv

\* Then it counts by one.
LEMMA CountOne ==
  ASSUME TypeOK, HandsInv, SealInv, ~crossed, NEW w \in Writers, Count(w)
  PROVE  encryptCount' = encryptCount + 1 /\ Own(w) = encryptCount + 1
<1> DEFINE k == Len(sealed[w])
<1>1. pc[w] = "count" /\ pc[w] \in Writing
  BY DEF Count, Writing
<1>2. Own(w) = encryptCount + 1
  BY <1>1 DEF Own
<1>3. /\ k \in Nat \ {0} /\ encryptCount \in Nat
      /\ encryptCount' \in {encryptCount + 1, sealed[w][k].nonce + 1}
  BY CountResult DEF TypeOK, DataOK
<1>4. \A i \in 1..k : sealed[w][i].nonce = Own(w) - k + i - 1
  BY <1>1 DEF SealInv
<1>5. k \in 1..k
  BY <1>3
<1> HIDE DEF k
<1>6. sealed[w][k].nonce = Own(w) - k + k - 1
  BY <1>4, <1>5
<1> QED
  BY <1>2, <1>3, <1>6

LEMMA SealStep ==
  ASSUME TypeOK, WriteInv, SealInv, [Next]_vars
  PROVE  SealInv'
<1> SUFFICES ASSUME ~crossed' PROVE
      \A w \in Writers : pc'[w] \in Writing =>
        \A i \in 1..Len(sealed'[w]) : sealed'[w][i].nonce = Own(w)' - Len(sealed'[w]) + i - 1
  BY Zenon DEF SealInv, Own
<1>0. /\ pc \in [Writers -> {"out", "in"} \cup Writing] /\ DataOK /\ HandsInv /\ AloneInv
      /\ encryptCount \in Nat /\ sealed \in [Writers -> Seq(Frames)]
  BY DEF TypeOK, DataOK, WriteInv
<1>a. ~crossed
  <2>1. ASSUME NEW w \in Writers, Lock(w) \/ Encrypt(w) \/ Send(w) \/ Unlock(w) PROVE ~crossed
    BY <2>1, Zenon DEF Lock, Encrypt, Write, Seal, Count, Send, Unlock
  <2> QED
    BY <2>1, Unmoved, Zenon DEF Next, sendVars
<1>b. \A w \in Writers : pc[w] \in Writing =>
        \A i \in 1..Len(sealed[w]) : sealed[w][i].nonce = Own(w) - Len(sealed[w]) + i - 1
  BY <1>a DEF SealInv
<1>1. ASSUME NEW w \in Writers, Lock(w) \/ Unlock(w) \/ Write(w)
      PROVE  \A x \in Writers : pc'[x] \in Writing =>
               \A i \in 1..Len(sealed'[x]) :
                 sealed'[x][i].nonce = Own(x)' - Len(sealed'[x]) + i - 1
  <2>1. /\ pc[w] \notin Writing /\ UNCHANGED <<sealed, encryptCount>>
        /\ \A x \in Writers : x # w => pc'[x] = pc[x]
    BY <1>0, <1>1 DEF Lock, Unlock, Write, At, Writing
  <2>2. sealed'[w] = <<>>
    BY <1>0, <2>1 DEF HandsInv
  <2>3. \A x \in Writers : x # w => Own(x)' = Own(x)
    BY <2>1 DEF Own
  <2> QED
    BY <1>b, <2>1, <2>2, <2>3
<1>2. ASSUME NEW w \in Writers, Seal(w)
      PROVE  \A x \in Writers : pc'[x] \in Writing =>
               \A i \in 1..Len(sealed'[x]) :
                 sealed'[x][i].nonce = Own(x)' - Len(sealed'[x]) + i - 1
  <2>1. /\ sealed[w] \in Seq(Frames) /\ Frame(w) \in Frames
        /\ sealed'[w] = Append(sealed[w], Frame(w))
    BY <1>0, <1>2, SealResult
  <2>2. /\ pc[w] = "seal" /\ pc[w] \in Writing /\ pc'[w] = "count" /\ encryptCount' = encryptCount
        /\ \A x \in Writers : x # w => pc'[x] = pc[x]
    BY <1>0, <1>2 DEF Seal, At, Writing
  <2>3. \A x \in Writers : pc'[x] \in Writing => x = w
    BY <1>0, <1>a, <2>2, Only
  <2>4. Own(w) = encryptCount /\ Own(w)' = encryptCount + 1 /\ Frame(w).nonce = encryptCount
    BY <2>2 DEF Own, Frame
  <2>5. /\ Len(sealed'[w]) = Len(sealed[w]) + 1 /\ Len(sealed[w]) \in Nat
        /\ \A i \in 1..Len(sealed[w]) : sealed'[w][i] = sealed[w][i]
        /\ sealed'[w][Len(sealed[w]) + 1] = Frame(w)
    BY <2>1
  <2>6. ASSUME NEW i \in 1..Len(sealed'[w])
        PROVE  sealed'[w][i].nonce = Own(w)' - Len(sealed'[w]) + i - 1
    <3>1. CASE i = Len(sealed[w]) + 1
      BY <1>0, <2>4, <2>5, <3>1
    <3>2. CASE i \in 1..Len(sealed[w])
      <4>1. sealed'[w][i].nonce = Own(w) - Len(sealed[w]) + i - 1
        BY <1>b, <2>2, <2>5, <3>2
      <4> QED
        BY <1>0, <2>4, <2>5, <3>2, <4>1
    <3> QED
      BY <2>5, <3>1, <3>2
  <2> QED
    BY <2>3, <2>6
<1>3. ASSUME NEW w \in Writers, Count(w)
      PROVE  \A x \in Writers : pc'[x] \in Writing =>
               \A i \in 1..Len(sealed'[x]) :
                 sealed'[x][i].nonce = Own(x)' - Len(sealed'[x]) + i - 1
  <2>1. /\ pc[w] = "count" /\ pc[w] \in Writing /\ pc'[w] # "count" /\ sealed' = sealed
        /\ \A x \in Writers : x # w => pc'[x] = pc[x]
    BY <1>0, <1>3 DEF Count, At, Writing
  <2>2. \A x \in Writers : pc'[x] \in Writing => x = w
    BY <1>0, <1>a, <2>1, Only
  <2>3. Own(w)' = Own(w)
    <3>1. encryptCount' = encryptCount + 1 /\ Own(w) = encryptCount + 1
      BY <1>0, <1>3, <1>a, CountOne
    <3> QED
      BY <2>1, <3>1 DEF Own
  <2> QED
    BY <1>b, <2>1, <2>2, <2>3
<1>4. ASSUME NEW w \in Writers, Send(w)
      PROVE  \A x \in Writers : pc'[x] \notin Writing
  <2>1. /\ pc[w] \in Writing /\ pc'[w] = "in"
        /\ \A x \in Writers : x # w => pc'[x] = pc[x]
    BY <1>0, <1>4 DEF Send, At, Writing
  <2> QED
    BY <1>0, <1>a, <2>1, Only DEF Writing
<1>5. CASE Read \/ Break \/ Close \/ UNCHANGED vars
  <2>1. UNCHANGED <<pc, sealed, encryptCount>>
    BY <1>5, Unmoved, Zenon DEF sendVars
  <2>2. \A w \in Writers : Own(w)' = Own(w)
    BY <2>1 DEF Own
  <2> QED
    BY <1>b, <2>1, <2>2
<1> QED
  BY <1>1, <1>2, <1>3, <1>4, <1>5 DEF Next, Encrypt

\* A step that moves no writer and no frame leaves the numbers as they are.
LEMMA CountStep ==
  ASSUME TypeOK, WriteInv, SealInv, CountInv, [Next]_vars
  PROVE  CountInv'
<1> SUFFICES ASSUME ~crossed', up', ~closed'
             PROVE  /\ Quiet' => encryptCount' = Due'
                    /\ \A w \in Writers : pc'[w] \in Writing => Own(w)' = Due' + Len(sealed'[w])
  BY Zenon DEF CountInv, Own
<1>0. /\ pc \in [Writers -> {"out", "in"} \cup Writing] /\ DataOK /\ HandsInv /\ AloneInv
      /\ encryptCount \in Nat /\ sealed \in [Writers -> Seq(Frames)]
      /\ decryptCount \in Nat /\ missed \in Nat /\ wire \in Seq(Frames) /\ Len(wire) \in Nat
  BY DEF TypeOK, DataOK, WriteInv
<1>a. ~crossed /\ up /\ ~closed
  <2>1. ASSUME NEW w \in Writers, Lock(w) \/ Encrypt(w) \/ Send(w) \/ Unlock(w)
        PROVE  ~crossed /\ up /\ ~closed
    <3>1. UNCHANGED <<up, closed>>
      BY <2>1, Zenon DEF Lock, Encrypt, Write, Seal, Count, Send, Unlock, netVars, readVars
    <3>2. ~crossed
      BY <2>1, Zenon DEF Lock, Encrypt, Write, Seal, Count, Send, Unlock
    <3> QED
      BY <3>1, <3>2, Zenon
  <2>2. CASE Read \/ Break \/ Close \/ UNCHANGED vars
    <3>1. ~crossed
      BY <2>2, Unmoved, Zenon DEF sendVars
    <3>2. OpenFrame => UNCHANGED up /\ (~closed' => ~closed)
      BY Zenon DEF OpenFrame, Fail
    <3>3. Break => ~up'
      BY DEF Break
    <3>4. StartRead \/ EndOfStream \/ Take \/ UNCHANGED vars => UNCHANGED <<up, closed>>
      BY Unmoved, Zenon
    <3>5. ReadError \/ Close => closed'
      BY Unmoved, Zenon
    <3>6. CASE OpenFrame
      BY <3>1, <3>2, <3>6, Zenon
    <3>7. CASE StartRead \/ EndOfStream \/ Take \/ UNCHANGED vars
      <4>1. UNCHANGED <<up, closed>>
        BY <3>4, <3>7, Zenon
      <4> QED
        BY <3>1, <4>1, Zenon
    <3>8. ~(ReadError \/ Close \/ Break)
      BY <3>3, <3>5, Zenon
    <3> QED
      BY <2>2, <3>6, <3>7, <3>8, Zenon DEF Read
  <2> QED
    BY <2>1, <2>2, Zenon DEF Next
<1>b. /\ Quiet => encryptCount = Due
      /\ \A w \in Writers : pc[w] \in Writing => Own(w) = Due + Len(sealed[w])
  BY <1>a DEF CountInv
<1> DEFINE Goal == /\ Quiet' => encryptCount' = Due'
                   /\ \A w \in Writers : pc'[w] \in Writing => Own(w)' = Due' + Len(sealed'[w])
<1>1. ASSUME NEW w \in Writers, Lock(w) \/ Unlock(w) PROVE Goal
  <2>1. /\ pc[w] \notin Writing /\ pc'[w] \notin Writing
        /\ UNCHANGED <<sealed, encryptCount, decryptCount, missed, wire>>
        /\ \A x \in Writers : x # w => pc'[x] = pc[x]
    BY <1>0, <1>1 DEF Lock, Unlock, At, Writing, netVars, readVars
  <2>2. /\ \A x \in Writers : x # w => Own(x)' = Own(x)
        /\ Due' = Due /\ (Quiet' <=> Quiet)
    BY <2>1 DEF Own, Due, Quiet
  <2> QED
    BY <1>b, <2>1, <2>2
<1>2. ASSUME NEW w \in Writers, Write(w) PROVE Goal
  <2>1. /\ pc[w] = "in" /\ pc[w] \notin Writing /\ pc'[w] = "seal" /\ pc'[w] \in Writing
        /\ UNCHANGED <<sealed, encryptCount, decryptCount, missed, wire>>
        /\ \A x \in Writers : x # w => pc'[x] = pc[x]
    BY <1>0, <1>2 DEF Write, At, Writing, netVars, readVars
  <2>2. AloneInv'
    BY <1>2, WriteStep DEF Next, Encrypt, WriteInv
  <2>3. \A x \in Writers : pc'[x] \in Writing => x = w
    BY <2>1, <2>2 DEF AloneInv
  <2>4. Quiet
    BY <2>1, <2>3 DEF Quiet
  <2>5. sealed'[w] = <<>> /\ Own(w)' = encryptCount /\ Due' = Due
    BY <1>0, <2>1 DEF HandsInv, Own, Due
  <2>6. ~Quiet'
    BY <2>1 DEF Quiet
  <2>7. Own(w)' = Due' + Len(sealed'[w])
    BY <1>0, <1>b, <2>4, <2>5 DEF Due
  <2> QED
    BY <2>3, <2>6, <2>7
<1>3. ASSUME NEW w \in Writers, Seal(w) PROVE Goal
  <2>1. /\ pc[w] = "seal" /\ pc[w] \in Writing /\ pc'[w] = "count" /\ pc'[w] \in Writing
        /\ UNCHANGED <<encryptCount, decryptCount, missed, wire>>
        /\ \A x \in Writers : x # w => pc'[x] = pc[x]
    BY <1>0, <1>3 DEF Seal, At, Writing, netVars, readVars
  <2>2. \A x \in Writers : pc'[x] \in Writing => x = w
    BY <1>0, <1>a, <2>1, Only
  <2>3. Len(sealed'[w]) = Len(sealed[w]) + 1 /\ Len(sealed[w]) \in Nat
    BY <1>0, <1>3, SealResult
  <2>4. Own(w) = encryptCount /\ Own(w)' = encryptCount + 1 /\ Due' = Due /\ Due \in Nat
    BY <1>0, <2>1 DEF Own, Due
  <2>5. Own(w) = Due + Len(sealed[w])
    BY <1>b, <2>1
  <2>6. Own(w)' = Due' + Len(sealed'[w])
    BY <1>0, <2>3, <2>4, <2>5
  <2>7. ~Quiet'
    BY <2>1 DEF Quiet
  <2> QED
    BY <2>2, <2>6, <2>7
<1>4. ASSUME NEW w \in Writers, Count(w) PROVE Goal
  <2>1. /\ pc[w] = "count" /\ pc[w] \in Writing /\ pc'[w] \in {"seal", "send"}
        /\ pc'[w] \in Writing
        /\ UNCHANGED <<sealed, decryptCount, missed, wire>>
        /\ \A x \in Writers : x # w => pc'[x] = pc[x]
    BY <1>0, <1>4 DEF Count, At, Writing, netVars, readVars
  <2>2. \A x \in Writers : pc'[x] \in Writing => x = w
    BY <1>0, <1>a, <2>1, Only
  <2>3. encryptCount' = encryptCount + 1
    BY <1>0, <1>4, <1>a, CountOne
  <2>4. Own(w) = encryptCount + 1 /\ Own(w)' = encryptCount + 1 /\ Due' = Due
    BY <2>1, <2>3 DEF Own, Due
  <2>5. ~Quiet'
    BY <2>1 DEF Quiet
  <2> QED
    BY <1>b, <2>1, <2>2, <2>4, <2>5
<1>5. ASSUME NEW w \in Writers, Send(w) PROVE Goal
  <2>1. /\ pc[w] = "send" /\ pc[w] \in Writing /\ pc'[w] = "in" /\ pc'[w] \notin Writing
        /\ UNCHANGED <<encryptCount, decryptCount, missed>> /\ wire' = wire \o sealed[w]
        /\ \A x \in Writers : x # w => pc'[x] = pc[x]
    BY <1>0, <1>a, <1>5 DEF Send, At, Writing, netVars, readVars
  <2>2. \A x \in Writers : pc'[x] \notin Writing
    BY <1>0, <1>a, <2>1, Only
  <2>3. Own(w) = encryptCount /\ Own(w) = Due + Len(sealed[w])
    BY <1>b, <2>1 DEF Own
  <2>4. Len(wire') = Len(wire) + Len(sealed[w]) /\ Len(sealed[w]) \in Nat
    BY <1>0, <2>1
  <2>5. encryptCount' = Due'
    <3> DEFINE k == Len(sealed[w])
               m == Len(wire)
               n == Len(wire')
    <3>1. k \in Nat /\ m \in Nat /\ n = m + k /\ encryptCount = decryptCount + missed + m + k
      BY <1>0, <2>3, <2>4 DEF Due
    <3> HIDE DEF k, m, n
    <3>2. encryptCount = decryptCount + missed + n
      BY <1>0, <3>1
    <3> QED
      BY <2>1, <3>2 DEF Due, n
  <2> QED
    BY <2>2, <2>5
<1>6. CASE OpenFrame
  <2>1. /\ wire # <<>> /\ wire' = Tail(wire) /\ decryptCount' = decryptCount + 1
        /\ UNCHANGED <<pc, sealed, encryptCount, missed>>
    BY <1>6 DEF OpenFrame, sendVars
  <2>2. Due' = Due
    <3>1. Len(wire') = Len(wire) - 1
      BY <1>0, <2>1
    <3> QED
      BY <1>0, <2>1, <3>1 DEF Due
  <2>3. (Quiet' <=> Quiet) /\ \A w \in Writers : Own(w)' = Own(w)
    BY <2>1 DEF Quiet, Own
  <2> QED
    BY <1>b, <2>1, <2>2, <2>3
<1>7. CASE StartRead \/ EndOfStream \/ Take \/ UNCHANGED vars
  <2>1. UNCHANGED <<pc, sealed, encryptCount, missed, wire, decryptCount>>
    BY <1>7, Unmoved, Zenon DEF sendVars, Read
  <2>2. Due' = Due /\ (Quiet' <=> Quiet) /\ \A w \in Writers : Own(w)' = Own(w)
    BY <2>1 DEF Due, Quiet, Own
  <2> QED
    BY <1>b, <2>1, <2>2
<1>8. ~(ReadError \/ Close \/ Break)
  BY Unmoved DEF Break
<1> QED
  BY <1>1, <1>2, <1>3, <1>4, <1>5, <1>6, <1>7, <1>8 DEF Next, Read, Encrypt

LEMMA NoncesStep ==
  ASSUME TypeOK, WriteInv, SealInv, CountInv, NoncesAgree, [Next]_vars
  PROVE  NoncesAgree'
<1> SUFFICES ASSUME ~crossed'
             PROVE  \A i \in 1..Len(wire') : wire'[i].nonce = decryptCount' + missed' + i - 1
  BY Zenon DEF NoncesAgree
<1>0. /\ sealed \in [Writers -> Seq(Frames)] /\ wire \in Seq(Frames)
      /\ decryptCount \in Nat /\ missed \in Nat /\ encryptCount \in Nat
  BY DEF TypeOK, DataOK
<1>a. ~crossed
  <2>1. ASSUME NEW w \in Writers, Lock(w) \/ Encrypt(w) \/ Send(w) \/ Unlock(w) PROVE ~crossed
    BY <2>1, Zenon DEF Lock, Encrypt, Write, Seal, Count, Send, Unlock
  <2> QED
    BY <2>1, Unmoved, Zenon DEF Next, sendVars
<1>b. \A i \in 1..Len(wire) : wire[i].nonce = decryptCount + missed + i - 1
  BY <1>a DEF NoncesAgree
<1> DEFINE Goal == \A i \in 1..Len(wire') : wire'[i].nonce = decryptCount' + missed' + i - 1
<1>1. ASSUME NEW w \in Writers, Lock(w) \/ Encrypt(w) \/ Unlock(w) PROVE Goal
  <2>1. UNCHANGED <<wire, decryptCount, missed>>
    BY <1>1, Zenon DEF Lock, Encrypt, Write, Seal, Count, Unlock, netVars, readVars
  <2> QED
    BY <1>b, <2>1
<1>2. ASSUME NEW w \in Writers, Send(w) PROVE Goal
  <2>1. UNCHANGED <<decryptCount, missed>> /\ pc[w] = "send" /\ pc[w] \in Writing
    BY <1>2 DEF Send, readVars, Writing
  <2>2. CASE ~(up /\ ~closed)
    BY <1>b, <1>2, <2>1, <2>2 DEF Send
  <2>3. CASE up /\ ~closed
    <3>1. Own(w) = encryptCount
      BY <2>1 DEF Own
    <3>2. \A i \in 1..Len(sealed[w]) : sealed[w][i].nonce = encryptCount - Len(sealed[w]) + i - 1
      BY <1>a, <2>1, <3>1, Zenon DEF SealInv
    <3>3. encryptCount = decryptCount + missed + Len(wire) + Len(sealed[w])
      BY <1>a, <2>1, <2>3, <3>1 DEF CountInv, Due
    <3>4. wire' = wire \o sealed[w] /\ sealed[w] \in Seq(Frames)
      BY <1>0, <1>2, <2>3 DEF Send
    <3>5. /\ Len(wire') = Len(wire) + Len(sealed[w])
          /\ Len(wire) \in Nat /\ Len(sealed[w]) \in Nat /\ Len(wire') \in Nat
      BY <1>0, <3>4
    <3>6. ASSUME NEW i \in 1..Len(wire) PROVE wire'[i].nonce = decryptCount + missed + i - 1
      <4>1. wire'[i] = wire[i]
        BY <1>0, <3>4
      <4> QED
        BY <1>b, <4>1
    <3>7. ASSUME NEW i \in 1..Len(wire'), i > Len(wire)
          PROVE  wire'[i].nonce = decryptCount + missed + i - 1
      <4>1. i - Len(wire) \in 1..Len(sealed[w]) /\ wire'[i] = sealed[w][i - Len(wire)]
        BY <1>0, <3>4, <3>5, <3>7
      <4>2. wire'[i].nonce = encryptCount - Len(sealed[w]) + (i - Len(wire)) - 1
        BY <3>2, <4>1
      <4> DEFINE k == Len(sealed[w])
                 m == Len(wire)
      <4>3. /\ k \in Nat /\ m \in Nat /\ encryptCount = decryptCount + missed + m + k
            /\ wire'[i].nonce = encryptCount - k + (i - m) - 1 /\ i \in Nat
        BY <3>3, <3>5, <4>2
      <4> HIDE DEF k, m
      <4>4. encryptCount - k + (i - m) - 1 = decryptCount + missed + i - 1
        BY <1>0, <4>3
      <4> QED
        BY <4>3, <4>4
    <3> QED
      BY <2>1, <3>5, <3>6, <3>7
  <2> QED
    BY <2>2, <2>3
<1>3. CASE OpenFrame
  <2>1. wire # <<>> /\ wire' = Tail(wire) /\ decryptCount' = decryptCount + 1 /\ missed' = missed
    BY <1>3 DEF OpenFrame, sendVars
  <2> QED
    BY <1>0, <1>b, <2>1
<1>4. CASE Break \/ Close
  <2>1. UNCHANGED <<decryptCount, missed>>
    BY <1>4, Zenon DEF Break, Close, readVars, sendVars
  <2>2. PICK n \in 0..Len(wire) : wire' = SubSeq(wire, 1, n)
    BY <1>4 DEF Break, Close, Cut
  <2>3. Len(wire') = n /\ \A i \in 1..n : i \in 1..Len(wire) /\ wire'[i] = wire[i]
    BY <1>0, <2>2
  <2> QED
    BY <1>b, <2>1, <2>3
<1>5. CASE StartRead \/ EndOfStream \/ ReadError \/ Take \/ UNCHANGED vars
  <2>1. UNCHANGED <<wire, decryptCount, missed>>
    BY <1>5, Unmoved, Zenon DEF sendVars, Read
  <2> QED
    BY <1>b, <2>1
<1> QED
  BY <1>1, <1>2, <1>3, <1>4, <1>5 DEF Next, Read

-----------------------------------------------------------------------------
\* The inductive invariant holds in every reachable state.
THEOREM Invariance == Spec => []IndInv
<1>1. IndInv /\ [Next]_vars => IndInv'
  <2> SUFFICES ASSUME IndInv, [Next]_vars PROVE IndInv'
    OBVIOUS
  <2>1. /\ TypeOK /\ FlagsOK /\ DataOK /\ HandsInv /\ BufferInv /\ PlaceInv /\ EofInv
        /\ WriteInv /\ SealInv /\ CountInv /\ NoncesAgree
    BY DEF IndInv, TypeOK, WriteInv
  <2>2. TypeOK' /\ BufferInv'
    BY <2>1, FlagsStep, DataStep DEF TypeOK
  <2>3. PlaceInv' /\ EofInv'
    BY <2>1, PlaceStep
  <2>4. WriteInv' /\ SealInv'
    BY <2>1, WriteStep, SealStep
  <2>5. CountInv' /\ NoncesAgree'
    BY <2>1, CountStep, NoncesStep
  <2> QED
    BY <2>2, <2>3, <2>4, <2>5 DEF IndInv
<1> QED
  BY InitInv, <1>1, PTL DEF Spec

\* Every variable of an encrypted connection keeps its type.
THEOREM TypeCorrect == Spec => []TypeOK
  BY Invariance, PTL DEF IndInv

\* The frames on the wire carry the numbers that Decrypt will use, in order and
\* past those it missed, wherever the stream breaks, until two writers that go
\* through different roundTrippers have been in Write together.
THEOREM NoncesAgreeAlways == Spec => []NoncesAgree
  BY Invariance, PTL DEF IndInv

\* A frame that Decrypt is about to fail on (session.go:115) tells of frames
\* that were lost with the answer to M3, or of Writes that have overlapped.
FailsOnlySpoiled == wire # <<>> /\ Head(wire).nonce # decryptCount => Spoiled

THEOREM FailureExplained == Spec => []FailsOnlySpoiled
<1>1. IndInv => FailsOnlySpoiled
  <2> SUFFICES ASSUME IndInv, wire # <<>>, Head(wire).nonce # decryptCount, ~Spoiled
               PROVE  FALSE
    BY DEF FailsOnlySpoiled
  <2>1. wire \in Seq(Frames) /\ decryptCount \in Nat /\ ~crossed /\ missed = 0
    BY DEF IndInv, TypeOK, DataOK, Spoiled
  <2>2. Head(wire) = wire[1] /\ 1 \in 1..Len(wire)
    BY <2>1
  <2>3. wire[1].nonce = decryptCount + missed + 1 - 1
    BY <2>1, <2>2, Zenon DEF IndInv, NoncesAgree
  <2> QED
    BY <2>1, <2>2, <2>3
<1> QED
  BY Invariance, <1>1, PTL

-----------------------------------------------------------------------------
(* The bytes.  A packet carries consecutive bytes of the stream, and so do  *)
(* those of a Write and those on the wire; what the receiver has in its     *)
(* buffers goes on where what it returned ends.                             *)

\* What frames carry.
Parts(f) == [i \in 1..Len(f) |-> f[i].bytes]

First(b) == b[1]
Last(b)  == b[1] + Len(b) - 1

\* The bytes of the stream after the k-th.
IsRun(s, k) == \A j \in 1..Len(s) : s[j] = k + j

\* Runs of bytes, one after the other.
Chain(c) ==
  /\ \A i \in 1..Len(c) : c[i] # <<>> /\ IsRun(c[i], First(c[i]) - 1)
  /\ \A i \in 1..(Len(c) - 1) : First(c[i + 1]) = Last(c[i]) + 1

Within(c) == \A i \in 1..Len(c) : Last(c[i]) <= written

\* What a writer has not sent, sealed or not.
Pending(w) == Parts(sealed[w]) \o packets[w]

\* What the receiver has opened and not returned, and how far it has come.
Held == IF readBuf = None THEN buf ELSE readBuf
Pos  == Len(read) + Len(Held)

\* The last byte that is on its way.
Sent == IF wire = <<>> THEN Pos ELSE Last(wire[Len(wire)].bytes)

ReadInv == IsRun(read, 0) /\ IsRun(Held, Len(read)) /\ Pos <= written

WireInv ==
  /\ Chain(Parts(wire)) /\ Within(Parts(wire))
  /\ wire # <<>> => First(wire[1].bytes) = Pos + 1

PendInv ==
  \A w \in Writers : pc[w] \in Writing =>
    /\ Chain(Pending(w)) /\ Within(Pending(w)) /\ Pending(w) # <<>>
    /\ Last(Pending(w)[Len(Pending(w))]) = written

\* Nothing is missing between the two ends while the connection is up.
EndInv ==
  up /\ ~closed =>
    /\ Quiet => Sent = written
    /\ \A w \in Writers : pc[w] \in Writing => First(Pending(w)[1]) = Sent + 1

StreamInv == ~Spoiled => ReadInv /\ WireInv /\ PendInv /\ EndInv

-----------------------------------------------------------------------------
(* Chains. *)

\* The ends of a run are bytes.
LEMMA RunEnds ==
  ASSUME NEW b \in Bodies, IsRun(b, First(b) - 1)
  PROVE  /\ First(b) \in Bytes /\ First(b) \in Nat /\ Last(b) \in Nat /\ First(b) <= Last(b)
         /\ Len(b) \in Nat \ {0} /\ b \in Seq(Bytes)
<1>1. b \in Seq(Bytes) /\ b # <<>>
  BY DEF Bodies
<1>2. Len(b) \in Nat \ {0} /\ b[1] \in Bytes
  BY <1>1
<1> QED
  BY <1>1, <1>2, SessionAssumption DEF First, Last, Bytes

\* A chain without its first run is one.
LEMMA ChainTail ==
  ASSUME NEW c \in Seq(Bodies), c # <<>>, Chain(c), Within(c)
  PROVE  /\ Tail(c) \in Seq(Bodies) /\ Chain(Tail(c)) /\ Within(Tail(c))
         /\ Tail(c) # <<>> =>
              /\ First(Tail(c)[1]) = Last(c[1]) + 1
              /\ Tail(c)[Len(Tail(c))] = c[Len(c)]
<1>1. /\ Tail(c) \in Seq(Bodies) /\ Len(c) \in Nat \ {0} /\ Len(Tail(c)) = Len(c) - 1
      /\ \A i \in 1..Len(Tail(c)) : Tail(c)[i] = c[i + 1]
  OBVIOUS
<1>2. \A i \in 1..Len(Tail(c)) : i + 1 \in 1..Len(c)
  BY <1>1
<1>3. \A i \in 1..(Len(Tail(c)) - 1) :
        i \in 1..Len(Tail(c)) /\ i + 1 \in 1..Len(Tail(c)) /\ i + 1 \in 1..(Len(c) - 1)
  BY <1>1
<1>4. Chain(Tail(c))
  BY <1>1, <1>2, <1>3 DEF Chain
<1>5. Within(Tail(c))
  BY <1>1, <1>2 DEF Within
<1>6. ASSUME Tail(c) # <<>>
      PROVE  First(Tail(c)[1]) = Last(c[1]) + 1 /\ Tail(c)[Len(Tail(c))] = c[Len(c)]
  <2>1. Len(Tail(c)) >= 1
    BY <1>1, <1>6
  <2> QED
    BY <1>1, <2>1 DEF Chain
<1> QED
  BY <1>1, <1>4, <1>5, <1>6

\* The first runs of a chain are one.
LEMMA ChainPrefix ==
  ASSUME NEW c \in Seq(Bodies), Chain(c), Within(c), NEW n \in 0..Len(c)
  PROVE  /\ SubSeq(c, 1, n) \in Seq(Bodies) /\ Chain(SubSeq(c, 1, n)) /\ Within(SubSeq(c, 1, n))
         /\ SubSeq(c, 1, n) # <<>> => c # <<>> /\ SubSeq(c, 1, n)[1] = c[1]
<1>1. /\ SubSeq(c, 1, n) \in Seq(Bodies) /\ Len(SubSeq(c, 1, n)) = n /\ Len(c) \in Nat
      /\ \A i \in 1..n : SubSeq(c, 1, n)[i] = c[i]
  OBVIOUS
<1> HIDE DEF Chain
<1>2. Chain(SubSeq(c, 1, n))
  <2>1. \A i \in 1..n : i \in 1..Len(c)
    BY <1>1
  <2>2. \A i \in 1..(n - 1) : i \in 1..n /\ i + 1 \in 1..n /\ i \in 1..(Len(c) - 1)
    BY <1>1
  <2> QED
    BY <1>1, <2>1, <2>2 DEF Chain
<1>3. Within(SubSeq(c, 1, n))
  BY <1>1 DEF Within
<1> QED
  BY <1>1, <1>2, <1>3

\* Two chains of which one goes on where the other ends are a chain.
LEMMA ChainConcat ==
  ASSUME NEW f \in Seq(Bodies), NEW g \in Seq(Bodies), Chain(f), Chain(g),
         Within(f), Within(g), g # <<>>,
         f # <<>> => First(g[1]) = Last(f[Len(f)]) + 1
  PROVE  /\ Chain(f \o g) /\ Within(f \o g) /\ f \o g # <<>>
         /\ (f \o g)[1] = IF f = <<>> THEN g[1] ELSE f[1]
         /\ (f \o g)[Len(f \o g)] = g[Len(g)]
<1> DEFINE h == f \o g
<1>1. /\ h \in Seq(Bodies) /\ Len(h) = Len(f) + Len(g) /\ Len(f) \in Nat /\ Len(g) \in Nat \ {0}
      /\ \A i \in 1..Len(f) : h[i] = f[i]
      /\ \A i \in 1..Len(g) : h[Len(f) + i] = g[i]
  OBVIOUS
<1> HIDE DEF h
<1>2. \A i \in 1..Len(h) : i \in 1..Len(f) \/ i - Len(f) \in 1..Len(g)
  BY <1>1
<1>3. \A i \in 1..Len(h) : i - Len(f) \in 1..Len(g) => h[i] = g[i - Len(f)]
  BY <1>1
<1>4. Within(h)
  BY <1>1, <1>2, <1>3 DEF Within
<1>5. \A i \in 1..Len(h) : h[i] # <<>> /\ IsRun(h[i], First(h[i]) - 1)
  BY <1>1, <1>2, <1>3 DEF Chain
<1>6. ASSUME NEW i \in 1..(Len(h) - 1) PROVE First(h[i + 1]) = Last(h[i]) + 1
  <2>1. CASE i + 1 \in 1..Len(f)
    <3>1. i \in 1..(Len(f) - 1) /\ h[i] = f[i] /\ h[i + 1] = f[i + 1]
      BY <1>1, <2>1
    <3> QED
      BY <3>1, Zenon DEF Chain
  <2>2. CASE i = Len(f)
    <3>1. h[i] = f[Len(f)] /\ h[i + 1] = g[1] /\ f # <<>>
      BY <1>1, <2>2
    <3> QED
      BY <3>1
  <2>3. CASE i > Len(f)
    <3>1. /\ i - Len(f) \in 1..(Len(g) - 1) /\ i + 1 - Len(f) = (i - Len(f)) + 1
          /\ i + 1 - Len(f) \in 1..Len(g) /\ i - Len(f) \in 1..Len(g)
      BY <1>1, <2>3
    <3>2. h[i] = g[i - Len(f)] /\ h[i + 1] = g[(i - Len(f)) + 1]
      BY <1>1, <1>3, <3>1
    <3> QED
      BY <3>1, <3>2 DEF Chain
  <2> QED
    BY <1>1, <2>1, <2>2, <2>3
<1>7. h # <<>> /\ h[1] = (IF f = <<>> THEN g[1] ELSE f[1]) /\ h[Len(h)] = g[Len(g)]
  BY <1>1
<1> QED
  BY <1>4, <1>5, <1>6, <1>7 DEF Chain, h

\* A run goes on with a run.
LEMMA RunConcat ==
  ASSUME NEW s \in Seq(Nat), NEW t \in Seq(Nat), NEW k \in Nat,
         IsRun(s, k), IsRun(t, k + Len(s))
  PROVE  IsRun(s \o t, k) /\ Len(s \o t) = Len(s) + Len(t) /\ s \o t \in Seq(Nat)
<1>1. /\ s \o t \in Seq(Nat) /\ Len(s \o t) = Len(s) + Len(t) /\ Len(s) \in Nat /\ Len(t) \in Nat
      /\ \A i \in 1..Len(s) : (s \o t)[i] = s[i]
      /\ \A i \in 1..Len(t) : (s \o t)[Len(s) + i] = t[i]
  OBVIOUS
<1>2. ASSUME NEW j \in 1..Len(s \o t) PROVE (s \o t)[j] = k + j
  <2>1. CASE j \in 1..Len(s)
    BY <1>1, <2>1 DEF IsRun
  <2>2. CASE j - Len(s) \in 1..Len(t)
    <3>1. (s \o t)[j] = t[j - Len(s)] /\ t[j - Len(s)] = k + Len(s) + (j - Len(s))
      BY <1>1, <2>2 DEF IsRun
    <3> QED
      BY <1>1, <3>1
  <2> QED
    BY <1>1, <2>1, <2>2
<1> QED
  BY <1>1, <1>2 DEF IsRun

\* What lies between two places in a sequence.
LEMMA Part ==
  ASSUME NEW S, NEW s \in Seq(S), NEW a \in Nat, NEW c \in Nat, a <= c, c <= Len(s)
  PROVE  /\ SubSeq(s, a + 1, c) \in Seq(S) /\ Len(SubSeq(s, a + 1, c)) = c - a
         /\ \A j \in 1..(c - a) : SubSeq(s, a + 1, c)[j] = s[a + j]
<1>1. Len(s) \in Nat /\ s \in [1..Len(s) -> S]
  OBVIOUS
<1>2. Len(SubSeq(s, a + 1, c)) = c - a
  BY <1>1
<1>3. \A j \in 1..(c - a) : a + j \in 1..Len(s)
  BY <1>1
<1>4. \A j \in 1..(c - a) : SubSeq(s, a + 1, c)[j] = s[(a + 1) + j - 1]
  BY <1>1, <1>3
<1>5. \A j \in 1..(c - a) : SubSeq(s, a + 1, c)[j] = s[a + j]
  <2> TAKE j \in 1..(c - a)
  <2>1. (a + 1) + j - 1 = a + j
    OBVIOUS
  <2> QED
    BY <1>4, <2>1
<1>6. SubSeq(s, a + 1, c) \in Seq(S)
  BY <1>1, <1>3
<1> QED
  BY <1>2, <1>5, <1>6

-----------------------------------------------------------------------------
(* What frames carry. *)

LEMMA PartsType ==
  ASSUME NEW f \in Seq(Frames)
  PROVE  /\ Parts(f) \in Seq(Bodies) /\ Len(Parts(f)) = Len(f)
         /\ \A i \in 1..Len(f) : Parts(f)[i] = f[i].bytes /\ f[i].bytes \in Bodies
         /\ Parts(f) = <<>> <=> f = <<>>
<1>1. Len(f) \in Nat /\ \A i \in 1..Len(f) : f[i] \in Frames
  OBVIOUS
<1>2. \A i \in 1..Len(f) : f[i].bytes \in Bodies
  BY <1>1 DEF Frames
<1>3. Parts(f) \in Seq(Bodies) /\ Len(Parts(f)) = Len(f)
  BY <1>1, <1>2 DEF Parts
<1>4. \A i \in 1..Len(f) : Parts(f)[i] = f[i].bytes
  BY DEF Parts
<1>5. Parts(f) = <<>> <=> f = <<>>
  BY <1>3
<1> QED
  BY <1>2, <1>3, <1>4, <1>5

LEMMA PartsTail ==
  ASSUME NEW f \in Seq(Frames), f # <<>>
  PROVE  Parts(Tail(f)) = Tail(Parts(f))
<1>1. /\ Tail(f) \in Seq(Frames) /\ Len(Tail(f)) = Len(f) - 1 /\ Len(f) \in Nat \ {0}
      /\ \A i \in 1..Len(Tail(f)) : i + 1 \in 1..Len(f) /\ Tail(f)[i] = f[i + 1]
  OBVIOUS
<1>2. Parts(f) \in Seq(Bodies) /\ Len(Parts(f)) = Len(f) /\ Parts(f) # <<>>
  BY PartsType
<1>3. /\ Parts(Tail(f)) \in Seq(Bodies) /\ Len(Parts(Tail(f))) = Len(Tail(f))
  BY <1>1, PartsType
<1>4. /\ Tail(Parts(f)) \in Seq(Bodies) /\ Len(Tail(Parts(f))) = Len(Tail(f))
      /\ \A i \in 1..Len(Tail(f)) : Tail(Parts(f))[i] = Parts(f)[i + 1]
  BY <1>1, <1>2
<1>5. \A i \in 1..Len(Tail(f)) : Parts(Tail(f))[i] = Tail(Parts(f))[i]
  BY <1>1, <1>4 DEF Parts
<1> QED
  BY <1>3, <1>4, <1>5

LEMMA PartsPrefix ==
  ASSUME NEW f \in Seq(Frames), NEW n \in 0..Len(f)
  PROVE  Parts(SubSeq(f, 1, n)) = SubSeq(Parts(f), 1, n)
<1>1. /\ SubSeq(f, 1, n) \in Seq(Frames) /\ Len(SubSeq(f, 1, n)) = n /\ Len(f) \in Nat
      /\ \A i \in 1..n : i \in 1..Len(f) /\ SubSeq(f, 1, n)[i] = f[i]
  OBVIOUS
<1>2. Parts(f) \in Seq(Bodies) /\ Len(Parts(f)) = Len(f)
  BY PartsType
<1>3. Parts(SubSeq(f, 1, n)) \in Seq(Bodies) /\ Len(Parts(SubSeq(f, 1, n))) = n
  BY <1>1, PartsType
<1>4. /\ SubSeq(Parts(f), 1, n) \in Seq(Bodies) /\ Len(SubSeq(Parts(f), 1, n)) = n
      /\ \A i \in 1..n : SubSeq(Parts(f), 1, n)[i] = Parts(f)[i]
  BY <1>1, <1>2
<1>5. \A i \in 1..n : Parts(SubSeq(f, 1, n))[i] = SubSeq(Parts(f), 1, n)[i]
  BY <1>1, <1>4 DEF Parts
<1> QED
  BY <1>3, <1>4, <1>5

\* What a concatenation consists of, and when two sequences are one.
LEMMA Joined ==
  ASSUME NEW s \in Seq(Bodies), NEW t \in Seq(Bodies)
  PROVE  /\ s \o t \in Seq(Bodies) /\ Len(s \o t) = Len(s) + Len(t)
         /\ \A i \in 1..Len(s) : (s \o t)[i] = s[i]
         /\ \A i \in 1..Len(t) : (s \o t)[Len(s) + i] = t[i]
  OBVIOUS

LEMMA Equal ==
  ASSUME NEW s \in Seq(Bodies), NEW t \in Seq(Bodies), NEW n \in Nat,
         Len(s) = n, Len(t) = n, \A i \in 1..n : s[i] = t[i]
  PROVE  s = t
  OBVIOUS

LEMMA PartsConcat ==
  ASSUME NEW f \in Seq(Frames), NEW g \in Seq(Frames)
  PROVE  Parts(f \o g) = Parts(f) \o Parts(g)
<1> DEFINE h == f \o g
           p == Parts(f) \o Parts(g)
<1>1. /\ h \in Seq(Frames) /\ Len(h) = Len(f) + Len(g) /\ Len(f) \in Nat /\ Len(g) \in Nat
      /\ \A i \in 1..Len(f) : h[i] = f[i]
      /\ \A i \in 1..Len(g) : h[Len(f) + i] = g[i]
  OBVIOUS
<1>2. /\ Parts(f) \in Seq(Bodies) /\ Len(Parts(f)) = Len(f)
      /\ Parts(g) \in Seq(Bodies) /\ Len(Parts(g)) = Len(g)
  BY PartsType
<1>3. Parts(h) \in Seq(Bodies) /\ Len(Parts(h)) = Len(h)
  BY <1>1, PartsType
<1>4. /\ p \in Seq(Bodies) /\ Len(p) = Len(f) + Len(g)
      /\ \A i \in 1..Len(f) : p[i] = Parts(f)[i]
      /\ \A i \in 1..Len(g) : p[Len(f) + i] = Parts(g)[i]
  <2>1. /\ p \in Seq(Bodies) /\ Len(p) = Len(Parts(f)) + Len(Parts(g))
        /\ \A i \in 1..Len(Parts(f)) : p[i] = Parts(f)[i]
        /\ \A i \in 1..Len(Parts(g)) : p[Len(Parts(f)) + i] = Parts(g)[i]
    BY <1>2, Joined, Zenon
  <2> HIDE DEF p
  <2> QED
    BY <1>2, <2>1
<1> HIDE DEF h, p
<1>5. \A i \in 1..Len(h) :
        i \in 1..Len(f) \/ (i - Len(f) \in 1..Len(g) /\ Len(f) + (i - Len(f)) = i)
  BY <1>1
<1>6. ASSUME NEW i \in 1..Len(h) PROVE Parts(h)[i] = p[i]
  <2>1. Parts(h)[i] = h[i].bytes
    BY DEF Parts
  <2>2. CASE i \in 1..Len(f)
    BY <1>1, <1>4, <2>1, <2>2 DEF Parts
  <2>3. CASE i - Len(f) \in 1..Len(g) /\ Len(f) + (i - Len(f)) = i
    <3>1. h[i] = g[i - Len(f)] /\ p[i] = Parts(g)[i - Len(f)]
      BY <1>1, <1>4, <2>3
    <3>2. Parts(g)[i - Len(f)] = g[i - Len(f)].bytes
      BY <2>3 DEF Parts
    <3> QED
      BY <2>1, <3>1, <3>2
  <2> QED
    BY <1>5, <2>2, <2>3
<1>7. Parts(h) = p
  BY <1>1, <1>3, <1>4, <1>6
<1> QED
  BY <1>7 DEF h, p

\* Sealing a packet moves it from one hand to the other.
LEMMA PartsMove ==
  ASSUME NEW s \in Seq(Frames), NEW p \in Seq(Bodies), p # <<>>, NEW x \in Frames,
         x.bytes = Head(p)
  PROVE  Parts(Append(s, x)) \o Tail(p) = Parts(s) \o p
<1> DEFINE l == Parts(Append(s, x)) \o Tail(p)
           r == Parts(s) \o p
           k == Len(s)
           m == Len(p)
           a == Parts(Append(s, x))
<1>1. /\ Append(s, x) \in Seq(Frames) /\ Len(Append(s, x)) = k + 1 /\ k \in Nat
      /\ \A i \in 1..k : Append(s, x)[i] = s[i]
      /\ Append(s, x)[k + 1] = x
  OBVIOUS
<1>2. /\ Tail(p) \in Seq(Bodies) /\ Len(Tail(p)) = m - 1 /\ m \in Nat \ {0} /\ Head(p) = p[1]
      /\ \A i \in 1..(m - 1) : Tail(p)[i] = p[i + 1]
  OBVIOUS
<1>3. /\ Parts(s) \in Seq(Bodies) /\ Len(Parts(s)) = k
      /\ a \in Seq(Bodies) /\ Len(a) = k + 1
  BY <1>1, PartsType
<1>4. (\A i \in 1..k : a[i] = Parts(s)[i]) /\ a[k + 1] = p[1]
  <2>1. /\ \A i \in 1..(k + 1) : a[i] = Append(s, x)[i].bytes
        /\ \A i \in 1..k : Parts(s)[i] = s[i].bytes
    BY <1>1 DEF Parts
  <2>2. \A i \in 1..k : i \in 1..(k + 1)
    BY <1>1
  <2>3. k + 1 \in 1..(k + 1)
    BY <1>1
  <2> HIDE DEF a, k
  <2> QED
    BY <1>1, <1>2, <2>1, <2>2, <2>3
<1> HIDE DEF a
<1>5. /\ l = a \o Tail(p)
      /\ l \in Seq(Bodies) /\ Len(l) = k + m
      /\ \A i \in 1..(k + 1) : l[i] = a[i]
      /\ \A i \in 1..(m - 1) : l[k + 1 + i] = Tail(p)[i]
  <2>1. l = a \o Tail(p)
    BY DEF a
  <2> HIDE DEF l
  <2>2. /\ a \in Seq(Bodies) /\ Len(a) = k + 1 /\ Tail(p) \in Seq(Bodies) /\ Len(Tail(p)) = m - 1
        /\ k \in Nat /\ m \in Nat \ {0}
    BY <1>1, <1>2, <1>3
  <2>3. /\ l \in Seq(Bodies) /\ Len(l) = Len(a) + Len(Tail(p))
        /\ \A i \in 1..Len(a) : l[i] = a[i]
        /\ \A i \in 1..Len(Tail(p)) : l[Len(a) + i] = Tail(p)[i]
    BY <2>1, <2>2, Joined, Zenon
  <2>4. /\ l \in Seq(Bodies) /\ Len(l) = (k + 1) + (m - 1)
        /\ \A i \in 1..(k + 1) : l[i] = a[i]
        /\ \A i \in 1..(m - 1) : l[k + 1 + i] = Tail(p)[i]
    BY <2>2, <2>3
  <2>5. (k + 1) + (m - 1) = k + m
    BY <2>2
  <2> QED
    BY <2>1, <2>4, <2>5
<1>6. /\ r \in Seq(Bodies) /\ Len(r) = k + m
      /\ \A i \in 1..k : r[i] = Parts(s)[i]
      /\ \A i \in 1..m : r[k + i] = p[i]
  <2>1. Parts(s) \in Seq(Bodies) /\ Len(Parts(s)) = k /\ Len(p) = m
    BY <1>3
  <2>2. /\ r \in Seq(Bodies) /\ Len(r) = Len(Parts(s)) + Len(p)
        /\ \A i \in 1..Len(Parts(s)) : r[i] = Parts(s)[i]
        /\ \A i \in 1..Len(p) : r[Len(Parts(s)) + i] = p[i]
    BY <2>1, Joined, Zenon
  <2> HIDE DEF r, k, m
  <2> QED
    BY <2>1, <2>2
<1> HIDE DEF l, r, k, m
<1>7. ASSUME NEW i \in 1..(k + m) PROVE l[i] = r[i]
  <2>1. CASE i \in 1..k
    <3>1. i \in 1..(k + 1)
      BY <1>1, <2>1
    <3> QED
      BY <1>4, <1>5, <1>6, <2>1, <3>1
  <2>2. CASE i = k + 1
    <3>1. 1 \in 1..m /\ k + 1 \in 1..(k + 1)
      BY <1>1, <1>2
    <3> QED
      BY <1>4, <1>5, <1>6, <2>2, <3>1
  <2>3. CASE i > k + 1
    <3> DEFINE j == i - (k + 1)
    <3>1. j \in 1..(m - 1) /\ j + 1 \in 1..m /\ i = k + 1 + j /\ i = k + (j + 1)
      <4>1. k \in Nat /\ m \in Nat \ {0} /\ i \in 1..(k + m) /\ i > k + 1
        BY <1>1, <1>2, <2>3
      <4> QED
        BY <4>1
    <3> HIDE DEF j
    <3> QED
      BY <1>2, <1>5, <1>6, <3>1
  <2> QED
    BY <1>1, <1>2, <2>1, <2>2, <2>3
<1>8. l = r
  <2>1. k + m \in Nat
    BY <1>1, <1>2
  <2> QED
    BY <1>5, <1>6, <1>7, <2>1, Equal
<1> QED
  BY <1>8 DEF l, r

-----------------------------------------------------------------------------
(* What Encrypt cuts. *)

\* The packets of a Write are the bytes it was given, in order.
LEMMA PacketRuns ==
  ASSUME NEW n \in Nat \ {0}, written \in Nat, written + n <= MaxBytes
  PROVE  LET p == Packets(Fresh(n)) IN
         /\ Len(p) \in Nat \ {0}
         /\ \A i \in 1..Len(p) :
              /\ p[i] \in Seq(Nat) /\ p[i] # <<>>
              /\ IsRun(p[i], written + (i - 1) * packetLengthMax)
              /\ i < Len(p) => Len(p[i]) = packetLengthMax
              /\ Len(p[i]) = Least(i * packetLengthMax, n) - (i - 1) * packetLengthMax
              /\ i = Len(p) => Least(i * packetLengthMax, n) = n
<1> DEFINE P == packetLengthMax
           k == (n + P - 1) \div P
           b == Fresh(n)
<1>1. P \in Nat \ {0}
  BY SessionAssumption
<1>2. b \in Seq(Nat) /\ Len(b) = n /\ \A j \in 1..n : b[j] = written + j
  BY DEF Fresh
<1>3. /\ Packets(b) = [i \in 1..k |-> SubSeq(b, (i - 1) * P + 1, Least(i * P, n))]
  BY <1>2 DEF Packets
<1> HIDE DEF P, b
<1>4. k \in Nat \ {0} /\ k * P <= n + P - 1 /\ n <= k * P
  BY <1>1, SMTT(30)
<1> HIDE DEF k
<1>5. Len(Packets(b)) = k
  BY <1>3, <1>4
<1>6. ASSUME NEW i \in 1..k
      PROVE  /\ Packets(b)[i] \in Seq(Nat) /\ Packets(b)[i] # <<>>
             /\ IsRun(Packets(b)[i], written + (i - 1) * P)
             /\ i < k => Len(Packets(b)[i]) = P
             /\ Len(Packets(b)[i]) = Least(i * P, n) - (i - 1) * P
             /\ i = k => Least(i * P, n) = n
  <2> DEFINE x == (i - 1) * P
             y == Least(i * P, n)
  <2>1. x \in Nat /\ i * P \in Nat /\ x = i * P - P
    BY <1>1, SMTT(30)
  <2>2. i * P <= k * P
    <3>1. k - i \in Nat /\ i \in Nat
      BY <1>4
    <3> QED
      BY <1>1, <1>4, <3>1, SMTT(30)
  <2>3. i < k => i * P <= k * P - P
    <3> SUFFICES ASSUME i < k PROVE i * P <= k * P - P
      OBVIOUS
    <3>1. k - 1 - i \in Nat /\ i \in Nat
      BY <1>4
    <3>2. (k - 1) * P = k * P - P
      BY <1>1, <1>4, SMTT(30)
    <3>3. i * P <= (k - 1) * P
      BY <1>1, <1>4, <3>1, SMTT(30)
    <3> QED
      BY <3>2, <3>3
  <2>4. k * P \in Nat
    BY <1>1, <1>4, SMTT(30)
  <2>5. y \in Nat /\ x < y /\ y <= n /\ (i = k => y = n) /\ (i < k => y = x + P)
    BY <1>1, <1>4, <2>1, <2>2, <2>3, <2>4 DEF Least
  <2>6. Packets(b)[i] = SubSeq(b, x + 1, y)
    BY <1>3
  <2> HIDE DEF x, y
  <2>7. /\ SubSeq(b, x + 1, y) \in Seq(Nat) /\ Len(SubSeq(b, x + 1, y)) = y - x
        /\ \A j \in 1..(y - x) : SubSeq(b, x + 1, y)[j] = b[x + j]
    <3>1. x <= y /\ x \in Nat /\ y \in Nat /\ y <= Len(b) /\ b \in Seq(Nat)
      BY <1>2, <2>1, <2>5
    <3>2. \A s \in Seq(Nat) : \A a, c \in Nat : a <= c /\ c <= Len(s) =>
            /\ SubSeq(s, a + 1, c) \in Seq(Nat) /\ Len(SubSeq(s, a + 1, c)) = c - a
            /\ \A j \in 1..(c - a) : SubSeq(s, a + 1, c)[j] = s[a + j]
      BY Part
    <3> QED
      BY <3>1, <3>2, Zenon
  <2>8. \A j \in 1..(y - x) : b[x + j] = written + x + j
    <3> TAKE j \in 1..(y - x)
    <3>1. x + j \in 1..n
      BY <2>1, <2>5
    <3>2. b[x + j] = written + (x + j)
      BY <1>2, <3>1
    <3> QED
      BY <2>1, <3>2
  <2>9. IsRun(Packets(b)[i], written + x)
    BY <2>6, <2>7, <2>8 DEF IsRun
  <2>10. Packets(b)[i] \in Seq(Nat) /\ Len(Packets(b)[i]) = y - x /\ Packets(b)[i] # <<>>
    <3>1. y - x # 0
      BY <2>1, <2>5
    <3>2. Packets(b)[i] \in Seq(Nat) /\ Len(Packets(b)[i]) = y - x
      BY <2>6, <2>7, Zenon
    <3> QED
      BY <3>1, <3>2
  <2>11. i < k => Len(Packets(b)[i]) = P
    BY <1>1, <2>1, <2>5, <2>10
  <2> QED
    BY <2>5, <2>9, <2>10, <2>11 DEF x, y
<1> QED
  BY <1>4, <1>5, <1>6 DEF b, P

\* The packets of a Write are a chain from the byte after those written before
\* to the last one written now.
LEMMA WriteChain ==
  ASSUME NEW n \in Nat \ {0}, written \in Nat, written + n <= MaxBytes
  PROVE  LET p == Packets(Fresh(n)) IN
         /\ p # <<>> /\ Chain(p)
         /\ First(p[1]) = written + 1 /\ Last(p[Len(p)]) = written + n
         /\ \A i \in 1..Len(p) : Last(p[i]) <= written + n
<1> DEFINE p == Packets(Fresh(n))
           P == packetLengthMax
           At0(i) == (i - 1) * P
<1>6. /\ Len(p) \in Nat \ {0}
      /\ \A i \in 1..Len(p) :
           /\ p[i] \in Seq(Nat) /\ p[i] # <<>> /\ IsRun(p[i], written + At0(i))
           /\ i < Len(p) => Len(p[i]) = P
           /\ Len(p[i]) = Least(i * P, n) - At0(i)
           /\ i = Len(p) => Least(i * P, n) = n
  BY PacketRuns
<1>7. /\ P \in Nat \ {0}
      /\ \A i \in 1..Len(p) : At0(i) \in Nat /\ i * P \in Nat /\ At0(i + 1) = At0(i) + P
  <2>1. P \in Nat \ {0}
    BY SessionAssumption
  <2> HIDE DEF P, p
  <2> QED
    BY <1>6, <2>1, SMTT(30)
<1>8. At0(1) = 0
  BY <1>7
<1> HIDE DEF p, P, At0
<1>9. ASSUME NEW i \in 1..Len(p)
      PROVE  /\ p[i] # <<>> /\ First(p[i]) = written + At0(i) + 1
             /\ IsRun(p[i], First(p[i]) - 1)
             /\ Last(p[i]) = written + Least(i * P, n)
             /\ i < Len(p) => Last(p[i]) = written + At0(i) + P
             /\ Last(p[i]) <= written + n
  <2>1. /\ p[i] \in Seq(Nat) /\ p[i] # <<>> /\ Len(p[i]) \in Nat \ {0}
        /\ IsRun(p[i], written + At0(i)) /\ At0(i) \in Nat
    BY <1>6, <1>7
  <2>2. First(p[i]) = written + At0(i) + 1
    BY <2>1 DEF First, IsRun
  <2>3. IsRun(p[i], First(p[i]) - 1)
    <3>1. First(p[i]) - 1 = written + At0(i)
      BY <2>1, <2>2
    <3> QED
      BY <2>1, <3>1
  <2>4. Last(p[i]) = written + At0(i) + Len(p[i])
    BY <2>1, <2>2 DEF First, Last
  <2>5. Least(i * P, n) <= n /\ Least(i * P, n) \in Nat
    BY <1>7 DEF Least
  <2> QED
    BY <1>6, <2>1, <2>2, <2>3, <2>4, <2>5, SMTT(30)
<1>10. ASSUME NEW i \in 1..(Len(p) - 1) PROVE First(p[i + 1]) = Last(p[i]) + 1
  <2>1. i \in 1..Len(p) /\ i + 1 \in 1..Len(p) /\ i < Len(p)
    BY <1>6
  <2> QED
    BY <1>7, <1>9, <2>1
<1>11. Chain(p)
  BY <1>9, <1>10 DEF Chain
<1>12. First(p[1]) = written + 1 /\ Last(p[Len(p)]) = written + n
  BY <1>6, <1>8, <1>9
<1>13. \A i \in 1..Len(p) : Last(p[i]) <= written + n
  BY <1>9
<1>14. p # <<>>
  BY <1>6
<1> QED
  BY <1>11, <1>12, <1>13, <1>14 DEF p

-----------------------------------------------------------------------------
(* The steps. *)

\* The types that the steps below count with.
LEMMA HeldType ==
  ASSUME TypeOK
  PROVE  /\ Held \in Seq(Nat) /\ read \in Seq(Nat) /\ buf \in Seq(Nat)
         /\ readBuf # None => readBuf \in Seq(Nat)
         /\ Len(read) \in Nat /\ Len(Held) \in Nat /\ Pos \in Nat /\ written \in Nat
<1>1. Bytes \subseteq Nat /\ \A b \in Seq(Bytes) : b \in Seq(Nat)
  BY SessionAssumption DEF Bytes
<1>2. read \in Seq(Nat) /\ buf \in Seq(Nat) /\ (readBuf # None => readBuf \in Seq(Nat))
  BY <1>1 DEF TypeOK, DataOK
<1>3. Held \in Seq(Nat)
  BY <1>2 DEF Held
<1>4. written \in Nat
  BY SessionAssumption DEF TypeOK, DataOK
<1> QED
  BY <1>2, <1>3, <1>4 DEF Pos

\* The frames and packets that the steps below move.
LEMMA HandTypes ==
  ASSUME TypeOK
  PROVE  /\ wire \in Seq(Frames) /\ Parts(wire) \in Seq(Bodies)
         /\ \A w \in Writers :
              /\ packets[w] \in Seq(Bodies) /\ sealed[w] \in Seq(Frames)
              /\ Pending(w) \in Seq(Bodies)
<1>1. /\ wire \in Seq(Frames)
      /\ \A w \in Writers : packets[w] \in Seq(Bodies) /\ sealed[w] \in Seq(Frames)
  BY DEF TypeOK, DataOK
<1>2. Parts(wire) \in Seq(Bodies) /\ \A w \in Writers : Parts(sealed[w]) \in Seq(Bodies)
  BY <1>1, PartsType
<1> QED
  BY <1>1, <1>2, Joined, Zenon DEF Pending

\* Once the frames are spoiled they stay so.
LEMMA SpoiledStays ==
  ASSUME TypeOK, [Next]_vars, ~Spoiled'
  PROVE  ~Spoiled /\ ~crossed /\ missed = 0 /\ missed' = missed /\ ~crossed'
<1>1. ~crossed' /\ missed' = 0
  BY DEF Spoiled
<1>2. missed' = missed /\ ~crossed
  <2>1. ASSUME NEW w \in Writers, Lock(w) \/ Encrypt(w) \/ Send(w) \/ Unlock(w)
        PROVE  missed' = missed /\ ~crossed
    <3>1. missed' = missed
      BY <2>1, Zenon DEF Lock, Encrypt, Write, Seal, Count, Send, Unlock
    <3>2. ~crossed
      BY <1>1, <2>1, Zenon DEF Lock, Encrypt, Write, Seal, Count, Send, Unlock
    <3> QED
      BY <3>1, <3>2
  <2>2. CASE Read \/ Break \/ Close \/ UNCHANGED vars
    <3>1. missed' = missed
      BY <2>2, Unmoved, Zenon DEF sendVars
    <3>2. ~crossed
      BY <1>1, <2>2, Unmoved, Zenon DEF sendVars
    <3> QED
      BY <3>1, <3>2
  <2> QED
    BY <2>1, <2>2, Zenon DEF Next
<1> QED
  BY <1>1, <1>2 DEF Spoiled

\* The sender's bytes are where they were when a step leaves them alone.
LEMMA SenderFrame ==
  ASSUME UNCHANGED <<packets, sealed, written>>,
         \A w \in Writers : pc'[w] \in Writing <=> pc[w] \in Writing
  PROVE  /\ PendInv => PendInv'
         /\ Quiet' <=> Quiet
         /\ \A w \in Writers : Pending(w)' = Pending(w)
<1>1. \A w \in Writers : Pending(w)' = Pending(w)
  BY DEF Pending, Parts
<1>2. Quiet' <=> Quiet
  BY DEF Quiet
<1>3. ASSUME PendInv PROVE PendInv'
  <2> SUFFICES ASSUME NEW w \in Writers, pc'[w] \in Writing
               PROVE  /\ Chain(Pending(w)') /\ (\A i \in 1..Len(Pending(w)') :
                                                    Last(Pending(w)'[i]) <= written')
                      /\ Pending(w)' # <<>> /\ Last(Pending(w)'[Len(Pending(w)')]) = written'
    BY Zenon DEF PendInv, Within, Chain, IsRun, First, Last
  <2>1. pc[w] \in Writing
    OBVIOUS
  <2>2. /\ Chain(Pending(w)) /\ Within(Pending(w))
        /\ Pending(w) # <<>> /\ Last(Pending(w)[Len(Pending(w))]) = written
    BY <1>3, <2>1 DEF PendInv
  <2> QED
    BY <1>1, <2>2, Zenon DEF Within
<1> QED
  BY <1>1, <1>2, <1>3

\* What the receiver holds, and the frames on the wire, when a step leaves them.
LEMMA ReceiverFrame ==
  ASSUME UNCHANGED <<wire, buf, readBuf, read>>, written \in Nat, written' \in Nat,
         written <= written', TypeOK, ReadInv, WireInv
  PROVE  ReadInv' /\ WireInv' /\ Sent' = Sent /\ Pos' = Pos
<1>1. Held' = Held /\ Pos' = Pos /\ Pos \in Nat
  BY HeldType DEF Held, Pos
<1>2. ReadInv'
  <2>1. Pos' <= written'
    BY <1>1 DEF ReadInv
  <2> QED
    BY <1>1, <2>1, Zenon DEF ReadInv, IsRun
<1>3. Parts(wire)' = Parts(wire) /\ Parts(wire) \in Seq(Bodies)
  BY HandTypes DEF Parts
<1>4. \A i \in 1..Len(Parts(wire)) : Last(Parts(wire)[i]) <= written'
  <2> TAKE i \in 1..Len(Parts(wire))
  <2>1. Parts(wire)[i] \in Bodies /\ IsRun(Parts(wire)[i], First(Parts(wire)[i]) - 1)
    BY <1>3 DEF WireInv, Chain
  <2>2. Last(Parts(wire)[i]) \in Nat /\ Last(Parts(wire)[i]) <= written
    BY <2>1, RunEnds DEF WireInv, Within
  <2> QED
    BY <2>2
<1>5. WireInv'
  BY <1>1, <1>3, <1>4, Zenon DEF WireInv, Chain, Within, First, Last, IsRun
<1>6. Sent' = Sent
  BY <1>1, Zenon DEF Sent, Last
<1> QED
  BY <1>1, <1>2, <1>5, <1>6

\* What is on the wire stays as it is.
LEMMA WireFrame ==
  ASSUME UNCHANGED <<wire, written, Pos>>, WireInv
  PROVE  WireInv'
<1>1. Parts(wire)' = Parts(wire)
  BY DEF Parts
<1>2. \A i \in 1..Len(Parts(wire)) : Last(Parts(wire)[i]) <= written'
  BY Zenon DEF WireInv, Within
<1> QED
  BY <1>1, <1>2, Zenon DEF WireInv, Chain, Within, First, Last, IsRun

\* Taking the mutex, giving it back and counting move no byte.
LEMMA LockStream ==
  ASSUME IndInv, ReadInv, WireInv, PendInv, EndInv,
         NEW w \in Writers, Lock(w) \/ Unlock(w) \/ Count(w)
  PROVE  ReadInv' /\ WireInv' /\ PendInv' /\ EndInv'
<1>1. /\ UNCHANGED <<packets, sealed, written, wire, up, closed>>
      /\ UNCHANGED <<buf, readBuf, read>>
  BY Zenon DEF Lock, Unlock, Count, netVars, readVars
<1>2. \A x \in Writers : pc'[x] \in Writing <=> pc[x] \in Writing
  BY DEF Lock, Unlock, Count, At, Writing, IndInv, TypeOK, DataOK
<1>3. PendInv' /\ (Quiet' <=> Quiet) /\ \A x \in Writers : Pending(x)' = Pending(x)
  BY <1>1, <1>2, SenderFrame
<1>4. TypeOK /\ written \in Nat /\ written <= written'
  BY <1>1, HeldType DEF IndInv
<1>5. ReadInv' /\ WireInv' /\ Sent' = Sent
  BY <1>1, <1>4, ReceiverFrame
<1>6. EndInv'
  BY <1>1, <1>2, <1>3, <1>5, Zenon DEF EndInv, First
<1> QED
  BY <1>3, <1>5, <1>6

\* Write puts the next bytes of the stream in the hands of its caller.
LEMMA WriteStream ==
  ASSUME IndInv, ReadInv, WireInv, PendInv, EndInv, ~crossed', NEW w \in Writers, Write(w)
  PROVE  ReadInv' /\ WireInv' /\ PendInv' /\ EndInv'
<1>0. TypeOK /\ DataOK /\ HandsInv /\ WriteInv /\ pc[w] = "in" /\ pc[w] \notin Writing
  BY DEF IndInv, TypeOK, WriteInv, Write, Writing
<1>1. PICK n \in Lengths :
        /\ n \in Nat \ {0} /\ written + n <= MaxBytes /\ written' = written + n
        /\ packets' = [packets EXCEPT ![w] = Packets(Fresh(n))]
        /\ Packets(Fresh(n)) \in Seq(Bodies)
  BY <1>0, WriteResult
<1> DEFINE p == Packets(Fresh(n))
<1>2. written \in Nat /\ written' \in Nat /\ written <= written'
  BY <1>0, <1>1, HeldType
<1>3. /\ p # <<>> /\ Chain(p) /\ First(p[1]) = written + 1 /\ Last(p[Len(p)]) = written'
      /\ \A i \in 1..Len(p) : Last(p[i]) <= written'
  BY <1>1, <1>2, WriteChain
<1> HIDE DEF p
<1>4. /\ UNCHANGED <<sealed, wire, up, closed, buf, readBuf, read>>
      /\ packets'[w] = p /\ pc'[w] = "seal" /\ pc'[w] \in Writing
      /\ sealed[w] = <<>>
  BY <1>0, <1>1 DEF Write, At, Writing, netVars, readVars, DataOK, HandsInv, p
<1>5. Pending(w)' = p
  <2>1. Parts(<<>>) = <<>>
    BY DEF Parts
  <2>2. Pending(w)' = Parts(sealed[w]) \o packets'[w]
    BY <1>4 DEF Pending, Parts
  <2>3. p \in Seq(Bodies)
    BY <1>1 DEF p
  <2>4. <<>> \o p = p
    BY <2>3
  <2> QED
    BY <1>4, <2>1, <2>2, <2>4
<1>6. \A x \in Writers : pc'[x] \in Writing => x = w
  <2>1. AloneInv'
    BY <1>0, WriteStep DEF Next, Encrypt, WriteInv
  <2> QED
    BY <1>4, <2>1 DEF AloneInv
<1>7. Quiet /\ ~Quiet'
  <2>1. \A x \in Writers : x # w => pc'[x] = pc[x]
    BY <1>0 DEF Write, At, DataOK
  <2> QED
    BY <1>0, <1>4, <1>6, <2>1 DEF Quiet
<1>8. PendInv'
  <2>1. /\ Chain(Pending(w)') /\ (\A i \in 1..Len(Pending(w)') : Last(Pending(w)'[i]) <= written')
        /\ Pending(w)' # <<>> /\ Last(Pending(w)'[Len(Pending(w)')]) = written'
    BY <1>3, <1>5
  <2> SUFFICES ASSUME NEW x \in Writers, pc'[x] \in Writing
               PROVE  /\ Chain(Pending(x)') /\ (\A i \in 1..Len(Pending(x)') :
                                                    Last(Pending(x)'[i]) <= written')
                      /\ Pending(x)' # <<>> /\ Last(Pending(x)'[Len(Pending(x)')]) = written'
    BY Zenon DEF PendInv, Within, Chain, IsRun, First, Last
  <2>2. x = w
    BY <1>6
  <2> QED
    BY <2>1, <2>2
<1>9. ReadInv' /\ WireInv' /\ Sent' = Sent
  BY <1>0, <1>2, <1>4, ReceiverFrame
<1>10. EndInv'
  <2> SUFFICES ASSUME up', ~closed' PROVE First(Pending(w)'[1]) = Sent' + 1
    BY <1>6, <1>7, Zenon DEF EndInv, First
  <2>1. up /\ ~closed
    BY <1>4, Zenon
  <2>2. Sent = written
    BY <1>7, <2>1 DEF EndInv
  <2> QED
    BY <1>3, <1>5, <1>9, <2>2
<1> QED
  BY <1>8, <1>9, <1>10

\* Seal moves a packet from one hand to the other.
LEMMA SealStream ==
  ASSUME IndInv, ReadInv, WireInv, PendInv, EndInv, NEW w \in Writers, Seal(w)
  PROVE  ReadInv' /\ WireInv' /\ PendInv' /\ EndInv'
<1>0. TypeOK /\ DataOK /\ HandsInv
  BY DEF IndInv, TypeOK, WriteInv
<1>1. UNCHANGED <<written, wire, up, closed, buf, readBuf, read>>
  BY Zenon DEF Seal, netVars, readVars
<1>2. /\ packets[w] # <<>> /\ Frame(w) \in Frames
      /\ packets' = [packets EXCEPT ![w] = Tail(packets[w])]
      /\ sealed' = [sealed EXCEPT ![w] = Append(sealed[w], Frame(w))]
      /\ packets[w] \in Seq(Bodies) /\ sealed[w] \in Seq(Frames)
      /\ packets'[w] = Tail(packets[w]) /\ sealed'[w] = Append(sealed[w], Frame(w))
  BY <1>0, SealResult
<1>3. ASSUME NEW x \in Writers PROVE Pending(x)' = Pending(x)
  <2>1. CASE x = w
    <3>1. Pending(w)' = Parts(Append(sealed[w], Frame(w))) \o Tail(packets[w])
      <4>1. Pending(w)' = Parts(sealed'[w]) \o packets'[w]
        BY Zenon DEF Pending, Parts
      <4> QED
        BY <1>2, <4>1, Zenon
    <3>2. Frame(w).bytes = Head(packets[w])
      BY DEF Frame
    <3>3. Parts(Append(sealed[w], Frame(w))) \o Tail(packets[w]) = Parts(sealed[w]) \o packets[w]
      BY <1>2, <3>2, PartsMove
    <3> QED
      BY <2>1, <3>1, <3>3 DEF Pending
  <2>2. CASE x # w
    <3>1. packets'[x] = packets[x] /\ sealed'[x] = sealed[x]
      BY <1>0, <1>2, <2>2 DEF DataOK
    <3> QED
      BY <3>1 DEF Pending, Parts
  <2> QED
    BY <2>1, <2>2
<1>4. \A x \in Writers : pc'[x] \in Writing <=> pc[x] \in Writing
  BY <1>0 DEF Seal, At, Writing, DataOK
<1>5. PendInv'
  <2> SUFFICES ASSUME NEW x \in Writers, pc'[x] \in Writing
               PROVE  /\ Chain(Pending(x)') /\ (\A i \in 1..Len(Pending(x)') :
                                                    Last(Pending(x)'[i]) <= written')
                      /\ Pending(x)' # <<>> /\ Last(Pending(x)'[Len(Pending(x)')]) = written'
    BY Zenon DEF PendInv, Within, Chain, IsRun, First, Last
  <2>1. /\ Chain(Pending(x)) /\ Within(Pending(x))
        /\ Pending(x) # <<>> /\ Last(Pending(x)[Len(Pending(x))]) = written
    BY <1>4 DEF PendInv
  <2> QED
    BY <1>1, <1>3, <2>1, Zenon DEF Within
<1>6. Quiet' <=> Quiet
  BY <1>4 DEF Quiet
<1>7. ReadInv' /\ WireInv' /\ Sent' = Sent
  <2>1. written \in Nat /\ written <= written'
    BY <1>0, <1>1, HeldType
  <2> QED
    BY <1>0, <1>1, <2>1, ReceiverFrame
<1>8. EndInv'
  BY <1>1, <1>3, <1>4, <1>6, <1>7, Zenon DEF EndInv, First
<1> QED
  BY <1>5, <1>7, <1>8

\* What is on its way when the frames on the wire are some.
LEMMA WireEnds ==
  ASSUME TypeOK, WireInv, wire # <<>>
  PROVE  /\ wire[1] \in Frames /\ wire[1].bytes \in Bodies
         /\ Parts(wire) # <<>> /\ Len(Parts(wire)) = Len(wire) /\ Len(wire) \in Nat \ {0}
         /\ Parts(wire)[1] = wire[1].bytes
         /\ Parts(wire)[Len(wire)] = wire[Len(wire)].bytes
         /\ IsRun(wire[1].bytes, First(wire[1].bytes) - 1)
<1>1. wire \in Seq(Frames) /\ Len(wire) \in Nat \ {0} /\ wire[1] \in Frames
  BY HandTypes
<1>2. 1 \in 1..Len(wire) /\ Len(wire) \in 1..Len(wire)
  BY <1>1
<1>3. /\ Len(Parts(wire)) = Len(wire) /\ Parts(wire) # <<>>
      /\ Parts(wire)[1] = wire[1].bytes /\ wire[1].bytes \in Bodies
      /\ Parts(wire)[Len(wire)] = wire[Len(wire)].bytes
  BY <1>1, <1>2, PartsType
<1>4. IsRun(Parts(wire)[1], First(Parts(wire)[1]) - 1)
  BY <1>2, <1>3 DEF WireInv, Chain
<1> QED
  BY <1>1, <1>3, <1>4

\* Send hands the frames to the socket, or drops them when it is gone.
LEMMA SendStream ==
  ASSUME IndInv, ReadInv, WireInv, PendInv, EndInv, ~crossed, NEW w \in Writers, Send(w)
  PROVE  ReadInv' /\ WireInv' /\ PendInv' /\ EndInv'
<1>0. TypeOK /\ DataOK /\ HandsInv /\ AloneInv /\ written \in Nat
  BY HeldType DEF IndInv, TypeOK, WriteInv
<1>1. /\ UNCHANGED <<packets, written, buf, readBuf, read>>
      /\ pc[w] = "send" /\ pc[w] \in Writing /\ packets[w] = <<>> /\ sealed[w] # <<>>
      /\ pc'[w] = "in" /\ pc'[w] \notin Writing
      /\ \A x \in Writers : x # w => pc'[x] = pc[x]
  BY <1>0 DEF Send, At, readVars, HandsInv, Writing, DataOK
<1>2. UNCHANGED <<up, closed>>
  BY Zenon DEF Send, readVars
<1>3. wire' = IF up /\ ~closed THEN wire \o sealed[w] ELSE wire
  BY Zenon DEF Send
<1>4. \A x \in Writers : pc'[x] \notin Writing
  BY <1>0, <1>1, Only
<1>5. PendInv' /\ Quiet'
  BY <1>4, Zenon DEF PendInv, Quiet
<1>6. CASE ~(up /\ ~closed)
  <2>1. wire' = wire
    BY <1>3, <1>6, Zenon
  <2>2. ReadInv' /\ WireInv'
    BY <1>0, <1>1, <2>1, ReceiverFrame
  <2>3. ~(up' /\ ~closed')
    BY <1>2, <1>6, Zenon
  <2>4. EndInv'
    BY <2>3, Zenon DEF EndInv
  <2> QED
    BY <1>5, <2>2, <2>4
<1>7. CASE up /\ ~closed
  <2> DEFINE g == Parts(sealed[w])
             c == Parts(wire)
  <2>1. wire' = wire \o sealed[w] /\ wire \in Seq(Frames) /\ sealed[w] \in Seq(Frames)
    BY <1>0, <1>3, <1>7, HandTypes
  <2>2. g \in Seq(Bodies) /\ c \in Seq(Bodies) /\ g # <<>>
    BY <1>1, <2>1, PartsType
  <2>3. Pending(w) = g
    BY <1>1, <2>2 DEF Pending
  <2>4. Parts(wire)' = c \o g
    <3>1. Parts(wire)' = Parts(wire')
      BY DEF Parts
    <3> QED
      BY <2>1, <3>1, PartsConcat
  <2> HIDE DEF g
  <2>5. Chain(g) /\ Within(g) /\ Last(g[Len(g)]) = written /\ First(g[1]) = Sent + 1
    <3>1. Chain(Pending(w)) /\ Within(Pending(w)) /\ Last(Pending(w)[Len(Pending(w))]) = written
      BY <1>1 DEF PendInv
    <3>2. First(Pending(w)[1]) = Sent + 1
      BY <1>1, <1>7 DEF EndInv
    <3> QED
      BY <2>3, <3>1, <3>2
  <2>6. c = <<>> <=> wire = <<>>
    BY <2>1, PartsType
  <2>7. wire # <<>> => Sent = Last(c[Len(c)]) /\ c[1] = wire[1].bytes
    BY <1>0, WireEnds DEF Sent
  <2>8. wire = <<>> => Sent = Pos
    BY DEF Sent
  <2> HIDE DEF c
  <2>9. c # <<>> => First(g[1]) = Last(c[Len(c)]) + 1
    BY <2>5, <2>6, <2>7
  <2>10. Chain(c) /\ Within(c)
    BY DEF WireInv, c
  <2>11. /\ Chain(c \o g) /\ Within(c \o g) /\ c \o g # <<>>
         /\ (c \o g)[1] = (IF c = <<>> THEN g[1] ELSE c[1])
         /\ (c \o g)[Len(c \o g)] = g[Len(g)]
    BY <2>2, <2>5, <2>9, <2>10, ChainConcat
  <2>12. First((c \o g)[1]) = Pos + 1
    BY <2>5, <2>6, <2>7, <2>8, <2>11 DEF WireInv
  <2>13. /\ wire' \in Seq(Frames) /\ wire' # <<>> /\ Len(wire') \in Nat \ {0}
         /\ Len(Parts(wire')) = Len(wire') /\ Parts(wire')[1] = wire'[1].bytes
         /\ Parts(wire')[Len(wire')] = wire'[Len(wire')].bytes
    <3>1. wire' \in Seq(Frames) /\ wire' # <<>> /\ Len(wire') \in Nat \ {0}
      BY <1>1, <2>1
    <3>2. 1 \in 1..Len(wire') /\ Len(wire') \in 1..Len(wire')
      BY <3>1
    <3> QED
      BY <3>1, <3>2, PartsType
  <2>14. Parts(wire)' = Parts(wire')
    BY DEF Parts
  <2>15. First(wire'[1].bytes) = Pos + 1 /\ Last(wire'[Len(wire')].bytes) = written
    BY <2>4, <2>5, <2>11, <2>12, <2>13, <2>14
  <2>16. Held' = Held /\ Pos' = Pos
    BY <1>1 DEF Held, Pos
  <2>17. ReadInv'
    BY <1>1, <2>16, Zenon DEF ReadInv, IsRun
  <2>18. WireInv'
    <3>1. /\ Chain(Parts(wire)')
          /\ \A i \in 1..Len(Parts(wire)') : Last(Parts(wire)'[i]) <= written'
      BY <1>1, <2>4, <2>11 DEF Within
    <3> QED
      BY <2>15, <2>16, <3>1, Zenon DEF WireInv, Chain, Within, First, Last, IsRun
  <2>19. Sent' = written'
    BY <1>1, <2>13, <2>15, Zenon DEF Sent, Last
  <2>20. EndInv'
    BY <1>4, <2>19, Zenon DEF EndInv
  <2> QED
    BY <1>5, <2>17, <2>18, <2>20
<1> QED
  BY <1>6, <1>7

\* What Decrypt opens goes on where its buffer ends.
LEMMA OpenStream ==
  ASSUME IndInv, ReadInv, WireInv, PendInv, EndInv, ~Spoiled, OpenFrame
  PROVE  ReadInv' /\ WireInv' /\ PendInv' /\ EndInv'
<1> DEFINE f == Head(wire)
<1>1. TypeOK /\ wire \in Seq(Frames) /\ wire # <<>> /\ f = wire[1] /\ f \in Frames
  BY DEF OpenFrame, IndInv, TypeOK, DataOK
<1>2. f.nonce = decryptCount
  <2>1. 1 \in 1..Len(wire) /\ decryptCount \in Nat /\ ~crossed /\ missed = 0
    BY <1>1 DEF TypeOK, DataOK, Spoiled
  <2>2. wire[1].nonce = decryptCount + missed + 1 - 1
    BY <2>1 DEF IndInv, NoncesAgree
  <2> QED
    BY <1>1, <2>1, <2>2
<1>3. /\ reader = "decrypt" /\ wire' = Tail(wire) /\ buf' = buf \o f.bytes
      /\ \/ readBuf' = buf \o f.bytes
         \/ readBuf' = readBuf
      /\ UNCHANGED <<read, pc, packets, sealed, written>>
  BY <1>2 DEF OpenFrame, sendVars
<1>4. UNCHANGED <<up, closed>>
  BY <1>2, Zenon DEF OpenFrame
<1>5. readBuf = None /\ Held = buf
  BY <1>3 DEF IndInv, PlaceInv, Held
<1> DEFINE c == Parts(wire)
<1>6. /\ c \in Seq(Bodies) /\ c # <<>> /\ Chain(c) /\ Within(c) /\ c[1] = f.bytes
      /\ First(f.bytes) = Pos + 1 /\ f.bytes \in Bodies /\ IsRun(f.bytes, First(f.bytes) - 1)
      /\ Len(c) = Len(wire) /\ c[Len(c)] = wire[Len(wire)].bytes
  BY <1>1, HandTypes, WireEnds DEF WireInv
<1> DEFINE b == f.bytes
<1>7. /\ First(b) \in Nat /\ Last(b) \in Nat /\ b \in Seq(Nat) /\ Len(b) \in Nat \ {0}
      /\ Last(b) = First(b) + Len(b) - 1 /\ Last(b) <= written
  <2>1. \A s \in Seq(Bytes) : s \in Seq(Nat)
    BY SessionAssumption DEF Bytes
  <2>2. First(b) \in Nat /\ Last(b) \in Nat /\ Len(b) \in Nat \ {0} /\ b \in Seq(Bytes)
    BY <1>6, RunEnds
  <2>3. 1 \in 1..Len(c)
    BY <1>6
  <2>4. Last(b) <= written
    BY <1>6, <2>3 DEF Within
  <2> QED
    BY <2>1, <2>2, <2>4 DEF First, Last
<1>8. /\ read \in Seq(Nat) /\ buf \in Seq(Nat) /\ Pos \in Nat /\ Pos = Len(read) + Len(buf)
      /\ Len(read) \in Nat /\ Len(buf) \in Nat
      /\ IsRun(buf, Len(read)) /\ IsRun(read, 0)
  BY <1>1, <1>5, HeldType DEF ReadInv, Pos
<1>9. First(b) = Pos + 1 /\ IsRun(b, First(b) - 1) /\ buf' = buf \o b
  BY <1>3, <1>6
<1> HIDE DEF f, b
<1>10. IsRun(b, Len(read) + Len(buf))
  <2>1. First(b) - 1 = Len(read) + Len(buf)
    BY <1>8, <1>9
  <2> QED
    BY <1>9, <2>1
<1>11. /\ IsRun(buf', Len(read)) /\ Len(buf') = Len(buf) + Len(b) /\ buf' \in Seq(Nat)
  BY <1>7, <1>8, <1>9, <1>10, RunConcat
<1>12. Held' = buf'
  <2>1. buf' # None
    BY <1>11, SessionAssumption
  <2> QED
    BY <1>3, <1>5, <2>1 DEF Held, b
<1>13. Pos' = Last(b)
  <2>1. Pos' = Len(read) + Len(buf')
    BY <1>3, <1>12 DEF Pos
  <2> DEFINE l == Len(b)
             m == Len(buf)
             n == Len(buf')
             k == Len(read)
  <2>2. l \in Nat /\ m \in Nat /\ k \in Nat /\ n = m + l /\ Pos' = k + n /\ Pos = k + m
    BY <1>7, <1>8, <1>11, <2>1, Zenon
  <2>3. Last(b) = First(b) + l - 1 /\ First(b) = Pos + 1 /\ Pos \in Nat
    BY <1>7, <1>8, <1>9, Zenon
  <2> HIDE DEF l, m, n, k
  <2> QED
    BY <2>2, <2>3
<1>14. ReadInv'
  <2>1. Pos' <= written'
    BY <1>3, <1>7, <1>13
  <2> QED
    BY <1>3, <1>8, <1>11, <1>12, <2>1, Zenon DEF ReadInv, IsRun
<1>15. /\ Tail(c) \in Seq(Bodies) /\ Chain(Tail(c)) /\ Within(Tail(c))
       /\ Tail(c) # <<>> =>
            /\ First(Tail(c)[1]) = Last(b) + 1
            /\ Tail(c)[Len(Tail(c))] = c[Len(c)]
  BY <1>6, ChainTail DEF b
<1>16. Parts(wire') = Tail(c) /\ Parts(wire)' = Parts(wire')
  <2>1. Parts(wire') = Tail(c)
    BY <1>1, <1>3, PartsTail
  <2> QED
    BY <2>1 DEF Parts
<1>17. /\ wire' \in Seq(Frames)
       /\ wire' = <<>> <=> Tail(c) = <<>>
       /\ wire' # <<>> => /\ Tail(c)[1] = wire'[1].bytes
                          /\ Tail(c)[Len(Tail(c))] = wire'[Len(wire')].bytes
  <2>1. wire' \in Seq(Frames) /\ Len(wire') \in Nat
    BY <1>1, <1>3
  <2>2. wire' # <<>> => 1 \in 1..Len(wire') /\ Len(wire') \in 1..Len(wire')
    BY <2>1
  <2> QED
    BY <1>16, <2>1, <2>2, PartsType
<1>18. wire' = <<>> => c[Len(c)] = b
  <2>1. Len(Tail(wire)) = Len(wire) - 1 /\ Len(wire) \in Nat
    BY <1>1
  <2>2. ASSUME wire' = <<>> PROVE Len(wire) = 1
    <3>1. Len(wire') = 0 /\ wire' = Tail(wire)
      BY <1>3, <2>2
    <3> QED
      BY <2>1, <3>1
  <2> QED
    BY <1>6, <2>2 DEF b
<1> HIDE DEF c
<1>19. WireInv'
  <2>1. /\ Chain(Parts(wire)')
        /\ \A i \in 1..Len(Parts(wire)') : Last(Parts(wire)'[i]) <= written'
    BY <1>3, <1>15, <1>16 DEF Within
  <2>2. wire' # <<>> => First(wire'[1].bytes) = Pos' + 1
    BY <1>13, <1>15, <1>17
  <2> QED
    BY <2>1, <2>2, Zenon DEF WireInv, Chain, Within, First, Last, IsRun
<1>20. PendInv' /\ (Quiet' <=> Quiet) /\ \A x \in Writers : Pending(x)' = Pending(x)
  BY <1>3, SenderFrame
<1>21. Sent' = Sent
  <2>1. Sent = Last(c[Len(c)])
    BY <1>1, <1>6 DEF Sent, c
  <2>2. wire' = <<>> => Sent' = Last(b)
    BY <1>13, Zenon DEF Sent
  <2>3. wire' # <<>> => Sent' = Last(wire'[Len(wire')].bytes)
    BY Zenon DEF Sent, Last
  <2> QED
    BY <1>15, <1>17, <1>18, <2>1, <2>2, <2>3
<1>22. EndInv'
  BY <1>3, <1>4, <1>20, <1>21, Zenon DEF EndInv, First
<1> QED
  BY <1>14, <1>19, <1>20, <1>22

\* A Read that begins, or that finds the end of the stream, moves no byte.
LEMMA QuietStream ==
  ASSUME IndInv, ReadInv, WireInv, PendInv, EndInv, StartRead \/ EndOfStream
  PROVE  ReadInv' /\ WireInv' /\ PendInv' /\ EndInv'
<1>1. /\ UNCHANGED <<pc, packets, sealed, written, wire, read>>
      /\ \/ /\ reader = "idle" /\ readBuf' = readBuf
            /\ \/ readBuf = None /\ buf' = <<>>
               \/ readBuf # None /\ buf' = buf
         \/ reader = "decrypt" /\ readBuf' = buf /\ buf' = buf
  BY DEF StartRead, EndOfStream, sendVars, netVars
<1>2. UNCHANGED <<up, closed>>
  BY Zenon DEF StartRead, EndOfStream, netVars
<1>3. buf \in Seq(Nat) /\ None \notin Seq(Nat)
  BY HeldType, SessionAssumption DEF IndInv
<1>4. Held' = Held /\ Pos' = Pos
  <2>1. Held' = Held
    BY <1>1, <1>3 DEF IndInv, PlaceInv, Held
  <2> QED
    BY <1>1, <2>1 DEF Pos
<1>5. ReadInv'
  BY <1>1, <1>4, Zenon DEF ReadInv, IsRun
<1>6. WireInv'
  BY <1>1, <1>4, WireFrame
<1>7. PendInv' /\ (Quiet' <=> Quiet) /\ \A x \in Writers : Pending(x)' = Pending(x)
  BY <1>1, SenderFrame
<1>8. Sent' = Sent
  BY <1>1, <1>4, Zenon DEF Sent, Last
<1>9. EndInv'
  BY <1>1, <1>2, <1>7, <1>8, Zenon DEF EndInv, First
<1> QED
  BY <1>5, <1>6, <1>7, <1>9

\* When Read fails, what it had opened is lost, and nothing is read after it.
LEMMA ErrorStream ==
  ASSUME IndInv, ReadInv, WireInv, PendInv, EndInv, ReadError
  PROVE  ReadInv' /\ WireInv' /\ PendInv' /\ EndInv'
<1>1. /\ UNCHANGED <<pc, packets, sealed, written, wire, read, readBuf>>
      /\ reader = "decrypt" /\ wire = <<>> /\ buf' = <<>>
  BY DEF ReadError, Fail, sendVars, netVars
<1>2. closed'
  BY Zenon DEF ReadError, Fail
<1>3. readBuf = None
  BY <1>1 DEF IndInv, PlaceInv
<1>4. Held' = <<>>
  BY <1>1, <1>3 DEF Held
<1>5. ReadInv'
  <2>1. /\ Len(read) \in Nat /\ Len(Held) \in Nat /\ written \in Nat
        /\ Len(read) + Len(Held) <= written
    BY HeldType DEF IndInv, ReadInv, Pos
  <2>2. Len(read) + 0 <= written
    BY <2>1
  <2>3. Pos' <= written'
    BY <1>1, <1>4, <2>2 DEF Pos
  <2>4. IsRun(read, 0)'
    BY <1>1, Zenon DEF ReadInv, IsRun
  <2>5. IsRun(Held, Len(read))'
    BY <1>4 DEF IsRun
  <2> QED
    BY <2>3, <2>4, <2>5 DEF ReadInv
<1>6. WireInv'
  BY <1>1 DEF WireInv, Parts, Chain, Within
<1>7. PendInv'
  BY <1>1, SenderFrame
<1>8. EndInv'
  BY <1>2, Zenon DEF EndInv
<1> QED
  BY <1>5, <1>6, <1>7, <1>8

\* What Read returns and what is left of its buffer are what the buffer held.
LEMMA Split ==
  ASSUME IndInv, ReadInv, reader = "take"
  PROVE  LET t == SubSeq(readBuf, 1, Taken)
             r == SubSeq(readBuf, Taken + 1, Len(readBuf))
         IN /\ Held = readBuf /\ readBuf \in Seq(Nat) /\ size \in Nat \ {0}
            /\ Taken \in 0..Len(readBuf) /\ Taken <= size /\ Len(readBuf) \in Nat
            /\ Taken < size => Taken = Len(readBuf)
            /\ t \in Seq(Nat) /\ Len(t) = Taken /\ IsRun(t, Len(read))
            /\ r \in Seq(Nat) /\ Len(r) = Len(readBuf) - Taken
            /\ IsRun(r, Len(read) + Taken)
<1> DEFINE n == Len(readBuf)
           T == Taken
           t == SubSeq(readBuf, 1, T)
           r == SubSeq(readBuf, T + 1, n)
<1>1. Held = readBuf /\ readBuf \in Seq(Nat) /\ Len(read) \in Nat /\ IsRun(readBuf, Len(read))
  BY HeldType DEF IndInv, PlaceInv, ReadInv, Held
<1>2. size \in Nat \ {0} /\ n \in Nat
  BY <1>1, SessionAssumption DEF IndInv, TypeOK, DataOK, PlaceInv
<1>3. T \in 0..n /\ T <= size /\ (T < size => T = n)
  BY <1>2 DEF Taken, Least
<1>4. \A s \in Seq(Nat) : \A a, c \in Nat : a <= c /\ c <= Len(s) =>
        /\ SubSeq(s, a + 1, c) \in Seq(Nat) /\ Len(SubSeq(s, a + 1, c)) = c - a
        /\ \A j \in 1..(c - a) : SubSeq(s, a + 1, c)[j] = s[a + j]
  BY Part
<1> HIDE DEF T
<1>5. t \in Seq(Nat) /\ Len(t) = T /\ \A j \in 1..T : t[j] = readBuf[j]
  BY <1>1, <1>2, <1>3
<1>6. /\ r \in Seq(Nat) /\ Len(r) = n - T
      /\ \A j \in 1..(n - T) : r[j] = readBuf[T + j]
  <2>1. T \in Nat /\ n \in Nat /\ T <= n /\ n <= Len(readBuf)
    BY <1>2, <1>3
  <2> HIDE DEF n
  <2> QED
    BY <1>1, <1>4, <2>1, Zenon
<1> HIDE DEF t, r
<1>7. IsRun(t, Len(read))
  <2>1. \A j \in 1..T : j \in 1..Len(readBuf)
    BY <1>2, <1>3
  <2> QED
    BY <1>1, <1>5, <2>1 DEF IsRun
<1>8. IsRun(r, Len(read) + T)
  <2> SUFFICES ASSUME NEW j \in 1..Len(r) PROVE r[j] = Len(read) + T + j
    BY DEF IsRun
  <2>1. j \in 1..(n - T) /\ T + j \in 1..Len(readBuf)
    BY <1>2, <1>3, <1>6
  <2>2. readBuf[T + j] = Len(read) + (T + j)
    BY <1>1, <2>1 DEF IsRun
  <2> QED
    BY <1>1, <1>3, <1>6, <2>1, <2>2
<1> QED
  BY <1>1, <1>2, <1>3, <1>5, <1>6, <1>7, <1>8 DEF T, t, r

\* Take moves bytes from the buffer to the caller, and keeps the rest.
LEMMA TakeStream ==
  ASSUME IndInv, ReadInv, WireInv, PendInv, EndInv, Take
  PROVE  ReadInv' /\ WireInv' /\ PendInv' /\ EndInv'
<1> DEFINE T == Taken
           n == Len(readBuf)
           t == SubSeq(readBuf, 1, T)
           r == SubSeq(readBuf, T + 1, n)
<1>1. /\ UNCHANGED <<pc, packets, sealed, written, wire>>
      /\ reader = "take" /\ buf' = <<>>
      /\ read' = read \o t
      /\ readBuf' = IF T < size THEN None ELSE r
  BY DEF Take, Spent, sendVars, netVars
<1>2. UNCHANGED <<up, closed>>
  BY Zenon DEF Take, netVars
<1>3. /\ Held = readBuf /\ readBuf \in Seq(Nat) /\ size \in Nat \ {0}
      /\ T \in 0..n /\ T <= size /\ n \in Nat
      /\ (T < size => T = n)
      /\ t \in Seq(Nat) /\ Len(t) = T /\ IsRun(t, Len(read))
      /\ r \in Seq(Nat) /\ Len(r) = n - T /\ IsRun(r, Len(read) + T)
  BY <1>1, Split
<1>4. /\ read \in Seq(Nat) /\ Len(read) \in Nat /\ IsRun(read, 0)
      /\ Pos = Len(read) + n /\ Pos \in Nat /\ written \in Nat /\ Pos <= written
  BY <1>3, HeldType DEF IndInv, ReadInv, Pos
<1> HIDE DEF T, n, t, r
<1>5. IsRun(read', 0) /\ Len(read') = Len(read) + T /\ read' \in Seq(Nat)
  <2>1. IsRun(t, 0 + Len(read))
    BY <1>3, <1>4
  <2> QED
    BY <1>1, <1>3, <1>4, <2>1, RunConcat
<1>6. Held' = IF T < size THEN <<>> ELSE r
  BY <1>1, <1>3, SessionAssumption DEF Held
<1>7. Pos' = Pos
  <2>1. Len(Held') = n - T
    BY <1>3, <1>6
  <2>2. Pos' = (Len(read) + T) + (n - T)
    BY <1>5, <2>1, Zenon DEF Pos
  <2> QED
    BY <1>3, <1>4, <2>2
<1>8. IsRun(Held', Len(read'))
  <2>1. CASE T < size
    BY <1>6, <2>1 DEF IsRun
  <2>2. CASE ~(T < size)
    BY <1>3, <1>5, <1>6, <2>2
  <2> QED
    BY <2>1, <2>2
<1>9. ReadInv'
  <2>1. Pos' <= written'
    BY <1>1, <1>4, <1>7
  <2> QED
    BY <1>5, <1>8, <2>1, Zenon DEF ReadInv, IsRun
<1>10. WireInv'
  BY <1>1, <1>7, WireFrame
<1>11. PendInv' /\ (Quiet' <=> Quiet) /\ \A x \in Writers : Pending(x)' = Pending(x)
  BY <1>1, SenderFrame
<1>12. Sent' = Sent
  BY <1>1, <1>7, Zenon DEF Sent, Last
<1>13. EndInv'
  BY <1>1, <1>2, <1>11, <1>12, Zenon DEF EndInv, First
<1> QED
  BY <1>9, <1>10, <1>11, <1>13

\* Frames that do not arrive are the last ones.
LEMMA CutStream ==
  ASSUME IndInv, ReadInv, WireInv, PendInv, EndInv, Break \/ Close
  PROVE  ReadInv' /\ WireInv' /\ PendInv' /\ EndInv'
<1>1. UNCHANGED <<pc, packets, sealed, written, buf, readBuf, read>>
  BY Zenon DEF Break, Close, sendVars, readVars
<1>2. ~(up' /\ ~closed')
  BY Zenon DEF Break, Close
<1>3. PICK n \in 0..Len(wire) : wire' = SubSeq(wire, 1, n)
  BY DEF Break, Close, Cut
<1> DEFINE c == Parts(wire)
<1>4. wire \in Seq(Frames) /\ c \in Seq(Bodies) /\ Len(c) = Len(wire) /\ TypeOK
  BY HandTypes, PartsType DEF IndInv
<1>5. Held' = Held /\ Pos' = Pos
  BY <1>1 DEF Held, Pos
<1>6. ReadInv'
  BY <1>1, <1>5, Zenon DEF ReadInv, IsRun
<1>7. Parts(wire') = SubSeq(c, 1, n) /\ Parts(wire)' = Parts(wire')
  <2>1. Parts(wire') = SubSeq(c, 1, n)
    BY <1>3, <1>4, PartsPrefix
  <2> QED
    BY <2>1 DEF Parts
<1>8. Chain(SubSeq(c, 1, n)) /\ Within(SubSeq(c, 1, n))
  BY <1>4, ChainPrefix DEF WireInv
<1>9. wire' # <<>> => wire # <<>> /\ wire'[1] = wire[1]
  BY <1>3, <1>4
<1> HIDE DEF c
<1>10. WireInv'
  <2>1. /\ Chain(Parts(wire)')
        /\ \A i \in 1..Len(Parts(wire)') : Last(Parts(wire)'[i]) <= written'
    BY <1>1, <1>7, <1>8 DEF Within
  <2>2. wire' # <<>> => First(wire'[1].bytes) = Pos' + 1
    BY <1>5, <1>9 DEF WireInv
  <2> QED
    BY <2>1, <2>2, Zenon DEF WireInv, Chain, Within, First, Last, IsRun
<1>11. PendInv'
  BY <1>1, SenderFrame
<1>12. EndInv'
  BY <1>2, Zenon DEF EndInv
<1> QED
  BY <1>6, <1>10, <1>11, <1>12

-----------------------------------------------------------------------------
\* Before the first byte.
LEMMA InitStream ==
  ASSUME Init
  PROVE  StreamInv
<1>1. /\ pc = [w \in Writers |-> "out"] /\ written = 0 /\ wire = <<>>
      /\ buf = <<>> /\ readBuf = None /\ read = <<>>
  BY DEF Init
<1>2. Held = <<>> /\ Pos = 0 /\ Sent = 0
  BY <1>1 DEF Held, Pos, Sent
<1>3. ReadInv /\ WireInv
  BY <1>1, <1>2 DEF ReadInv, IsRun, WireInv, Parts, Chain, Within
<1>4. PendInv /\ EndInv
  BY <1>1, <1>2 DEF PendInv, EndInv, Writing
<1> QED
  BY <1>3, <1>4 DEF StreamInv

\* Every step keeps the bytes in their order.
LEMMA StreamStep ==
  ASSUME IndInv, StreamInv, [Next]_vars
  PROVE  StreamInv'
<1> SUFFICES ASSUME ~Spoiled' PROVE ReadInv' /\ WireInv' /\ PendInv' /\ EndInv'
  BY DEF StreamInv
<1>1. ~Spoiled /\ ~crossed /\ ~crossed' /\ TypeOK
  BY SpoiledStays DEF IndInv
<1>2. ReadInv /\ WireInv /\ PendInv /\ EndInv
  BY <1>1 DEF StreamInv
<1>3. ASSUME NEW w \in Writers, Lock(w) \/ Encrypt(w) \/ Send(w) \/ Unlock(w)
      PROVE  ReadInv' /\ WireInv' /\ PendInv' /\ EndInv'
  BY <1>1, <1>2, <1>3, LockStream, WriteStream, SealStream, SendStream DEF Encrypt
<1>4. CASE Read
  BY <1>1, <1>2, <1>4, QuietStream, OpenStream, ErrorStream, TakeStream DEF Read
<1>5. CASE Break \/ Close
  BY <1>2, <1>5, CutStream
<1>6. CASE UNCHANGED vars
  <2>1. /\ UNCHANGED <<pc, packets, sealed, written, wire, up, closed>>
        /\ UNCHANGED <<buf, readBuf, read>>
    BY <1>6, Zenon DEF vars, sendVars, netVars, readVars
  <2>2. PendInv' /\ (Quiet' <=> Quiet) /\ \A x \in Writers : Pending(x)' = Pending(x)
    BY <1>2, <2>1, SenderFrame
  <2>3. ReadInv' /\ WireInv' /\ Sent' = Sent
    <3>1. written \in Nat /\ written <= written'
      BY <1>1, <2>1, HeldType
    <3> QED
      BY <1>1, <1>2, <2>1, <3>1, ReceiverFrame
  <2>4. EndInv'
    BY <1>2, <2>1, <2>2, <2>3, Zenon DEF EndInv, First
  <2> QED
    BY <2>2, <2>3, <2>4
<1> QED
  BY <1>3, <1>4, <1>5, <1>6 DEF Next

\* In every reachable state the bytes are in their order from one end to the
\* other, returned, opened, on the wire and in a writer's hands, unless frames
\* were missed or Writes have overlapped.
THEOREM StreamInvariance == Spec => []StreamInv
<1>1. Init => StreamInv
  BY InitStream
<1>2. IndInv /\ StreamInv /\ [Next]_vars => StreamInv'
  BY StreamStep
<1> QED
  BY <1>1, <1>2, Invariance, PTL DEF Spec

\* Write writes, a Take that returns bytes reads, and the other steps leave the
\* stream as it is; when the frames are spoiled anything may be read.
LEMMA StreamRefines ==
  ASSUME IndInv, StreamInv, [Next]_vars
  PROVE  [Stream!Next]_<<written, read, Spoiled>>
<1>0. TypeOK /\ DataOK
  BY DEF IndInv, TypeOK
<1>1. ASSUME NEW w \in Writers, Write(w) PROVE Stream!Write
  <2>1. PICK n \in Lengths : n \in Nat \ {0} /\ written' = written + n
    BY <1>0, <1>1, WriteResult
  <2>2. written \in Nat /\ read' = read
    BY <1>0, <1>1, HeldType DEF Write, readVars
  <2>3. Spoiled \in BOOLEAN /\ Spoiled' \in BOOLEAN
    BY Zenon DEF Spoiled
  <2>4. Spoiled => Spoiled'
    BY <1>0, <1>1, SpoiledStays, Zenon DEF Next, Encrypt
  <2> QED
    BY <2>1, <2>2, <2>3, <2>4 DEF Stream!Write
<1>2. CASE Take
  <2> DEFINE T == Taken
             t == SubSeq(readBuf, 1, T)
  <2>1. read' = read \o t /\ written' = written /\ reader = "take"
    BY <1>2 DEF Take, sendVars
  <2>2. Spoiled' = Spoiled
    BY <1>2, Zenon DEF Take, sendVars, Spoiled
  <2>3. CASE Spoiled
    BY <2>1, <2>2, <2>3, Zenon DEF Stream!Next, Stream!SpoiledRead
  <2>4. CASE ~Spoiled
    <3>1. ReadInv
      BY <2>4 DEF StreamInv
    <3>2. /\ T \in Nat /\ T <= Len(readBuf) /\ Len(readBuf) \in Nat /\ Held = readBuf
          /\ t \in Seq(Nat) /\ Len(t) = T /\ IsRun(t, Len(read))
      BY <2>1, <3>1, Split
    <3>3. read \in Seq(Nat) /\ Len(read) \in Nat /\ written \in Nat
      BY <1>0, HeldType
    <3>4. Len(read) + Len(readBuf) <= written
      BY <3>1, <3>2, Zenon DEF ReadInv, Pos
    <3> HIDE DEF T, t
    <3>5. CASE T = 0
      <4>1. t = <<>>
        BY <3>2, <3>5
      <4>2. read' = read
        BY <2>1, <3>3, <4>1
      <4> QED
        BY <2>1, <2>2, <4>2
    <3>6. CASE T # 0
      <4>1. t = Stream!Run(Len(read), T)
        BY <3>2 DEF Stream!Run, IsRun
      <4>2. T \in 1..(written - Len(read))
        BY <3>2, <3>3, <3>4, <3>6
      <4>3. Stream!Read
        BY <2>1, <2>2, <4>1, <4>2, Zenon DEF Stream!Read
      <4> QED
        BY <4>3 DEF Stream!Next
    <3> QED
      BY <3>5, <3>6
  <2> QED
    BY <2>3, <2>4
<1>3. ASSUME NEW w \in Writers, Lock(w) \/ Seal(w) \/ Count(w) \/ Send(w) \/ Unlock(w)
      PROVE  UNCHANGED <<written, read, Spoiled>>
  <2>1. UNCHANGED <<written, read, missed, crossed>>
    BY <1>3, Zenon DEF Lock, Seal, Count, Send, Unlock, readVars
  <2> QED
    BY <2>1, Zenon DEF Spoiled
<1>4. CASE StartRead \/ OpenFrame \/ EndOfStream \/ ReadError \/ Break \/ Close \/ UNCHANGED vars
  <2>1. UNCHANGED <<written, missed, crossed>>
    BY <1>4, Zenon DEF StartRead, OpenFrame, EndOfStream, ReadError, Break, Close, vars, sendVars
  <2>2. read' = read
    BY <1>4, Zenon
    DEF StartRead, OpenFrame, EndOfStream, ReadError, Fail, Break, Close, vars, readVars
  <2> QED
    BY <2>1, <2>2, Zenon DEF Spoiled
<1> QED
  BY <1>1, <1>2, <1>3, <1>4 DEF Next, Read, Encrypt, Stream!Next

\* An encrypted connection implements the stream of bytes: what Read returns is
\* what Write was given, each byte once and in order, through any packets and
\* buffers, however the writers of one roundTripper interleave and wherever the
\* stream breaks, until the numbering of the frames is spoiled.
THEOREM Refinement == Spec => Implements
<1>1. Init => Stream!Init
  BY Zenon DEF Init, Stream!Init, Spoiled
<1>2. IndInv /\ StreamInv /\ [Next]_vars => [Stream!Next]_<<written, read, Spoiled>>
  BY StreamRefines
<1> QED
  BY <1>1, <1>2, Invariance, StreamInvariance, PTL DEF Spec, Implements, Stream!Spec

\* Read reports the end of a stream that has more only after a Read that took
\* the last bytes it had into a buffer they just filled (conn.go:241).
THEOREM EofAlways == Spec => EofWhenEnded
<1>1. ASSUME IndInv, [Next]_vars, ~eof, eof'
      PROVE  filled \/ (~up /\ wire = <<>>)
  <2>1. Read
    BY <1>1, Zenon
    DEF Next, Lock, Encrypt, Write, Seal, Count, Send, Unlock, Break, Close, readVars, vars
  <2>2. ReadError \/ Take
    BY <1>1, <2>1, Zenon DEF Read, StartRead, OpenFrame, EndOfStream
  <2>3. CASE ReadError
    BY <1>1, <2>3, Zenon DEF ReadError
  <2>4. CASE Take
    BY <1>1, <2>4, Zenon DEF Take, IndInv, EofInv
  <2> QED
    BY <2>2, <2>3, <2>4
<1>2. IndInv /\ [Next]_vars => [~eof /\ eof' => filled \/ (~up /\ wire = <<>>)]_vars
  BY <1>1, Zenon
<1> QED
  BY <1>2, Invariance, PTL DEF Spec, EofWhenEnded
=============================================================================
