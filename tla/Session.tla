------------------------------ MODULE Session ------------------------------
(***************************************************************************)
(* One direction of an encrypted connection (session.go; conn.Write and    *)
(* conn.Read in conn.go).                                                  *)
(*                                                                         *)
(* The sending end is conn.Write: Encrypt cuts what it is given in packets *)
(* of at most packetLengthMax bytes and seals each one under encryptCount, *)
(* which no lock guards, then the frames are written to the socket in a    *)
(* call of their own.  Callers are kept apart by the mutex of their        *)
(* roundTripper, held for a whole request and so for one or more Writes;   *)
(* but connect makes a new roundTripper (device.go:273), and the callers   *)
(* of an old one write to the new connection under a mutex of their own.   *)
(* The receiving end is conn.Read: Decrypt opens frames until a short one, *)
(* and readBuf keeps what the caller's buffer did not take.  The accessory *)
(* is the other end of either direction, with the same framing.            *)
(*                                                                         *)
(* A session begins with the answer to M3, which RoundTrip reads through a *)
(* buffer of its own (device.go:99): frames that came with it are lost.    *)
(*                                                                         *)
(* A byte is its position in the stream, a frame its nonce and its bytes.  *)
(* Encryption is symbolic: a frame opens under its own nonce and no other. *)
(***************************************************************************)
EXTENDS Integers, Sequences

CONSTANTS
  Writers,          \* goroutines that send requests
  Of,               \* Of[w]: the roundTripper that w goes through
  None,             \* no buffer
  Early,            \* how many frames may come with the answer to M3
  packetLengthMax,  \* session.go: the most bytes in a packet
  Lengths,          \* lengths of the Writes that make a request
  Buffers,          \* lengths of the buffers Read is called with
  MaxBytes          \* bound: bytes written in a behaviour

ASSUME SessionAssumption ==
  /\ None \notin Seq(Nat) /\ Early \subseteq Nat /\ packetLengthMax \in Nat \ {0}
  /\ Lengths \subseteq Nat \ {0} /\ Buffers \subseteq Nat \ {0} /\ MaxBytes \in Nat

VARIABLES
  \* the sending end
  pc,            \* pc[w]: "out" of RoundTrip, "in" it with the mutex, in Write
  packets,       \* packets[w]: what Encrypt has still to seal for w
  sealed,        \* sealed[w]: what it sealed for w and is not yet written
  encryptCount,
  written,       \* bytes given to Write
  \* the socket
  wire,          \* frames on their way
  up,            \* the sender has not closed it
  torn,          \* its last frame was cut short
  \* the receiving end
  closed,        \* conn.closed
  decryptCount,
  reader,        \* "idle", "decrypt" or "take": where the goroutine in Read is
  size,          \* len(b) of that Read
  buf,           \* Decrypt's buffer
  readBuf,       \* conn.readBuf, None for nil
  read,          \* the bytes that Read returned, in order
  \* history
  missed,        \* frames that were lost before the first Read
  crossed,       \* Writes under different mutexes have overlapped
  eof,           \* the last Read returned io.EOF
  filled         \* the Read before it took all that was left into a full buffer

sendVars == <<pc, packets, sealed, encryptCount, written, missed, crossed>>
netVars  == <<wire, up, torn>>
readVars == <<closed, decryptCount, reader, size, buf, readBuf, read, eof, filled>>
vars     == <<sendVars, netVars, readVars>>

Bytes   == 1..MaxBytes
Bodies  == Seq(Bytes) \ {<<>>}
Frames  == [nonce : Nat, bytes : Bodies]
Writing == {"seal", "count", "send"}    \* the places in Write

FlagsOK ==
  /\ up \in BOOLEAN /\ torn \in BOOLEAN /\ closed \in BOOLEAN
  /\ eof \in BOOLEAN /\ filled \in BOOLEAN /\ crossed \in BOOLEAN

DataOK ==
  /\ pc \in [Writers -> {"out", "in"} \cup Writing]
  /\ packets \in [Writers -> Seq(Bodies)] /\ sealed \in [Writers -> Seq(Frames)]
  /\ encryptCount \in Nat /\ written \in 0..MaxBytes /\ missed \in Nat
  /\ wire \in Seq(Frames) /\ decryptCount \in Nat
  /\ reader \in {"idle", "decrypt", "take"} /\ size \in Buffers \cup {0}
  /\ buf \in Seq(Bytes) /\ read \in Seq(Bytes)
  /\ (readBuf = None \/ readBuf \in Seq(Bytes))

\* The type invariant.
TypeOK == FlagsOK /\ DataOK

Init ==
  /\ pc = [w \in Writers |-> "out"] /\ packets = [w \in Writers |-> <<>>]
  /\ sealed = [w \in Writers |-> <<>>] /\ written = 0 /\ crossed = FALSE
  /\ missed \in Early /\ encryptCount = missed
  /\ wire = <<>> /\ up = TRUE /\ torn = FALSE
  /\ closed = FALSE /\ decryptCount = 0
  /\ reader = "idle" /\ size = 0 /\ buf = <<>> /\ readBuf = None /\ read = <<>>
  /\ eof = FALSE /\ filled = FALSE

-----------------------------------------------------------------------------
(* Sending. *)

Least(m, n) == IF m <= n THEN m ELSE n

\* packetsFromBytes: full packets and a last one with the rest, if any.
Packets(b) ==
  [i \in 1..((Len(b) + packetLengthMax - 1) \div packetLengthMax) |->
     SubSeq(b, (i - 1) * packetLengthMax + 1, Least(i * packetLengthMax, Len(b)))]

FreshAgain(n) == [i \in 1..n |-> written + i - 1]    \* mutant: one byte back

\* The next n bytes of the stream.
Fresh(n) == [i \in 1..n |-> written + i]

At(w, p) == pc' = [pc EXCEPT ![w] = p]

AlwaysFree(w) == TRUE      \* mutant: requests are not kept apart
Free(w)       == \A v \in Writers : Of[v] = Of[w] => pc[v] = "out"

Lock(w) ==
  /\ pc[w] = "out" /\ Free(w) /\ At(w, "in")
  /\ UNCHANGED <<packets, sealed, encryptCount, written, missed, crossed, netVars, readVars>>

Unlock(w) ==
  /\ pc[w] = "in" /\ At(w, "out")
  /\ UNCHANGED <<packets, sealed, encryptCount, written, missed, crossed, netVars, readVars>>

\* Another goroutine is in Write too, under a mutex of its own.
Crossing(w) == \E v \in Writers : Of[v] # Of[w] /\ pc[v] \in Writing

\* conn.Write(b): Encrypt cuts b in packets, ...
Write(w) ==
  /\ pc[w] = "in" /\ At(w, "seal")
  /\ \E n \in Lengths :
       /\ written + n <= MaxBytes /\ written' = written + n
       /\ packets' = [packets EXCEPT ![w] = Packets(Fresh(n))]
  /\ crossed' = (crossed \/ Crossing(w))
  /\ UNCHANGED <<sealed, encryptCount, missed, netVars, readVars>>

\* ... seals one after the other under encryptCount, ...
Seal(w) ==
  /\ pc[w] = "seal" /\ At(w, "count")
  /\ packets' = [packets EXCEPT ![w] = Tail(@)]
  /\ sealed' = [sealed EXCEPT ![w] =
       Append(@, [nonce |-> encryptCount, bytes |-> Head(packets[w])])]
  /\ UNCHANGED <<encryptCount, written, missed, crossed, netVars, readVars>>

\* ... and counts it; with no lock, the count may be one another goroutine
\* has changed since, or one it has not seen change.
Count(w) ==
  /\ pc[w] = "count" /\ At(w, IF packets[w] = <<>> THEN "send" ELSE "seal")
  /\ encryptCount' \in {encryptCount + 1, sealed[w][Len(sealed[w])].nonce + 1}
  /\ UNCHANGED <<packets, sealed, written, missed, crossed, netVars, readVars>>

\* Then the frames go to the socket, which may fail when the other end is gone.
Send(w) ==
  /\ pc[w] = "send" /\ At(w, "in")
  /\ sealed' = [sealed EXCEPT ![w] = <<>>]
  /\ wire' = IF up /\ ~closed THEN wire \o sealed[w] ELSE wire
  /\ UNCHANGED <<packets, encryptCount, written, missed, crossed, up, torn, readVars>>

\* Some of the frames that were not read arrive, and perhaps half of another.
Cut == \E n \in 0..Len(wire) : /\ wire' = SubSeq(wire, 1, n)
                               /\ torn' \in BOOLEAN /\ (torn' => torn \/ n < Len(wire))

\* The socket is closed by the sending end, or breaks.
Break ==
  /\ up /\ up' = FALSE /\ Cut
  /\ UNCHANGED <<sendVars, readVars>>

-----------------------------------------------------------------------------
(* Receiving. *)

\* Read(b): a new Decrypt when there is no buffer to go on with.
StartRead ==
  /\ reader = "idle" /\ size' \in Buffers
  /\ IF readBuf = None
       THEN reader' = "decrypt" /\ buf' = <<>>
       ELSE reader' = "take" /\ UNCHANGED buf
  /\ UNCHANGED <<sendVars, netVars, closed, decryptCount, readBuf, read, eof, filled>>

\* Read returns an error and closes the connection; Decrypt's buffer is lost.
Fail ==
  /\ closed' = TRUE /\ reader' = "idle" /\ buf' = <<>>
  /\ UNCHANGED <<size, readBuf, read, filled>>

\* length < packetLengthMax
NeverShort(n) == FALSE     \* mutant: Decrypt reads on until the stream ends
Short(n)      == n < packetLengthMax

OpenFrame ==
  /\ reader = "decrypt" /\ wire # <<>>
  /\ LET f == Head(wire) IN
       /\ wire' = Tail(wire) /\ decryptCount' = decryptCount + 1
       /\ IF f.nonce # decryptCount
            THEN Fail /\ eof' = FALSE
            ELSE /\ buf' = buf \o f.bytes
                 /\ IF Short(Len(f.bytes))
                      THEN reader' = "take" /\ readBuf' = buf \o f.bytes
                      ELSE UNCHANGED <<reader, readBuf>>
                 /\ UNCHANGED <<closed, size, read, eof, filled>>
  /\ UNCHANGED <<sendVars, up, torn>>

\* io.EOF where a frame would begin: what was opened is handed out.
EndOfStream ==
  /\ reader = "decrypt" /\ ~closed /\ ~up /\ wire = <<>> /\ ~torn
  /\ reader' = "take" /\ readBuf' = buf
  /\ UNCHANGED <<sendVars, netVars, closed, decryptCount, size, buf, read, eof, filled>>

\* Half a frame, or the connection was closed here.  The error is io.EOF too
\* when the stream ends within a frame between two of its fields.
ReadError ==
  /\ reader = "decrypt" /\ wire = <<>>
  /\ closed \/ (~up /\ torn)
  /\ Fail /\ eof' \in BOOLEAN /\ (eof' => torn /\ ~up)
  /\ UNCHANGED <<sendVars, netVars, decryptCount>>

\* readBuf.Read(b), and nil once it is known to be empty.
Taken == Least(size, Len(readBuf))
SpentAtOnce(n) == TRUE     \* mutant: what does not fit is dropped
SpentOnEof(n)  == n = 0    \* mutant: only when nothing is left
Spent(n)       == n < size
Take ==
  /\ reader = "take" /\ reader' = "idle" /\ buf' = <<>>
  /\ read' = read \o SubSeq(readBuf, 1, Taken)
  /\ readBuf' = IF Spent(Taken) THEN None ELSE SubSeq(readBuf, Taken + 1, Len(readBuf))
  /\ eof' = (readBuf = <<>>) /\ filled' = (readBuf # <<>> /\ size = Len(readBuf))
  /\ UNCHANGED <<sendVars, netVars, closed, decryptCount, size>>

\* Device.close: what bufReader holds by then can still be read.
Close ==
  /\ ~closed /\ closed' = TRUE /\ Cut
  /\ UNCHANGED <<sendVars, up, decryptCount, reader, size, buf, readBuf, read, eof, filled>>

-----------------------------------------------------------------------------
Read == StartRead \/ OpenFrame \/ EndOfStream \/ ReadError \/ Take

Encrypt(w) == Write(w) \/ Seal(w) \/ Count(w)

Next ==
  \/ \E w \in Writers : Lock(w) \/ Encrypt(w) \/ Send(w) \/ Unlock(w)
  \/ Read
  \/ Break \/ Close

Spec == Init /\ [][Next]_vars

\* Goroutines are scheduled: a Read or a Write that has begun goes on, and the
\* loop reads again unless it was told io.EOF, at which it returns.  The
\* application need not write, nor the connection stay.
ReadOn == Read /\ (reader = "idle" => ~eof)

Fairness ==
  /\ WF_vars(ReadOn)
  /\ \A w \in Writers : WF_vars(Seal(w) \/ Count(w) \/ Send(w))

FairSpec == Spec /\ Fairness

-----------------------------------------------------------------------------
(* Properties. *)

\* The frames on the wire carry the numbers that the receiver will use, one
\* after the other and past those it missed, however the writers of one
\* roundTripper interleave.  So a frame fails to open only if frames were lost
\* with the answer to M3, or two Writes have overlapped: the off-by-one that
\* session.go:115 reports is left these two ways, and no third.
NoncesAgree ==
  ~crossed => \A i \in 1..Len(wire) : wire[i].nonce = decryptCount + missed + i - 1

\* Read reports the end of the stream when it has ended, or, wrongly but with
\* nothing lost, after a Read that took the last bytes into a full buffer.
EofWhenEnded == [][~eof /\ eof' => filled \/ (~up /\ wire = <<>>)]_vars

\* Through all the packets and buffers an end sees the stream of the other, as
\* long as no Writes have overlapped and no frames were missed.
Spoiled == crossed \/ missed # 0
Stream  == INSTANCE ByteStream WITH written <- written, read <- read, spoiled <- Spoiled
Implements == Stream!Spec

\* Decrypt has opened full frames and waits for the next, which is not there.
HeldBack ==
  /\ reader = "decrypt" /\ buf # <<>> /\ wire = <<>>
  /\ Len(buf) % packetLengthMax = 0

\* What is written is read, unless the connection ends or Read says it did
\* (conn.go:241): the last frame of a Write may be full, and nothing else ever
\* keeps bytes back.  A frame that does not open ends the connection.
Delivered ==
  \A n \in Bytes :
    written >= n ~> (Len(read) >= n \/ HeldBack \/ closed \/ ~up \/ eof)
=============================================================================
