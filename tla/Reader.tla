------------------------------- MODULE Reader -------------------------------
(***************************************************************************)
(* How the loop of a connection tells messages apart (conn.go): rd, a      *)
(* bufio.Reader over conn.Read, and for an event a second one, rb, over    *)
(* the eventTransformer, which puts HTTP in the place of EVENT.            *)
(*                                                                         *)
(* A message is a sequence of pieces: its first line, its other headers,   *)
(* then its body.  What Decrypt returns at once is a chunk: the accessory  *)
(* may seal a message in several, and a full last frame joins it to the    *)
(* one after it (Session!HeldBack).  A body may hold an end of line.       *)
(* Content-Length is there and right; chunked bodies are not modelled.     *)
(***************************************************************************)
EXTENDS Naturals, Sequences, SequencesExt

CONSTANTS
  Lengths,  \* the pieces of a message
  Size,     \* the pieces that the buffer of a bufio.Reader holds
  MaxSent,  \* bound: messages of the accessory
  MaxPieces \* bound: their pieces

ASSUME ReaderAssumption ==
  Lengths \subseteq Nat \ {0, 1} /\ Size \in Nat \ {0, 1} /\ MaxSent \in Nat
  /\ MaxPieces \in Nat

VARIABLES
  \* the accessory
  sent,    \* messages, as their kind and length
  out,     \* pieces not sealed yet
  wire,    \* chunks on their way
  \* the loop
  chunk,   \* conn.readBuf: what is left of a chunk
  filled,  \* nothing is left, and conn.readBuf is not nil
  rd, rb,  \* what the two buffers hold
  place,   \* "peek", "line", "event", "response", "ended": what is being read
  message, \* the pieces read of it
  fresh,   \* the eventTransformer has not returned from a Read
  \* history
  taken,   \* the messages handed to onEvent and to the callers
  clean    \* every event was a chunk of its own, and fitted in the buffer, and no conn.Read
           \* said io.EOF

accessoryVars == <<sent, out, wire>>
loopVars      == <<chunk, filled, rd, rb, place, message, fresh, taken>>
vars          == <<accessoryVars, loopVars, clean>>

Kinds    == {"event", "response"}
Ids      == 1..MaxSent
Pieces   == [of : Ids, n : Nat]
Junk     == [of |-> 0, n |-> 0]  \* four bytes nobody has written
AnyPiece == Pieces \cup {Junk}

Message(m) == [n \in 1..sent[m].length |-> [of |-> m, n |-> n]]
IsEvent(p) == p.n = 1 /\ sent[p.of].kind = "event"
FirstLine(p) == p.n = 1

TypeOK ==
  /\ sent \in Seq([kind : Kinds, length : Lengths]) /\ Len(sent) <= MaxSent
  /\ out \in Seq(Pieces) /\ wire \in Seq(Seq(Pieces)) /\ chunk \in Seq(Pieces)
  /\ filled \in BOOLEAN /\ (filled => chunk = <<>>) /\ rd \in Seq(Pieces)
  /\ rb \in Seq(AnyPiece) /\ Len(rb) <= Size
  /\ place \in {"peek", "line", "event", "response", "ended"}
  /\ message \in Seq(AnyPiece) /\ fresh \in BOOLEAN
  /\ taken \in Seq(Seq(AnyPiece)) /\ clean \in BOOLEAN

Init ==
  /\ sent = <<>> /\ out = <<>> /\ wire = <<>> /\ chunk = <<>> /\ rd = <<>> /\ rb = <<>>
  /\ place = "peek" /\ message = <<>> /\ fresh = FALSE /\ taken = <<>> /\ clean = TRUE
  /\ filled = FALSE

-----------------------------------------------------------------------------
(* The accessory. *)

\* The pieces written so far.
Total == FoldSeq(LAMBDA m, n : m.length + n, 0, sent)

Write(k, l) ==
  /\ Len(sent) < MaxSent /\ Total + l <= MaxPieces
  /\ sent' = Append(sent, [kind |-> k, length |-> l])
  /\ out' = out \o [n \in 1..l |-> [of |-> Len(sent) + 1, n |-> n]]
  /\ UNCHANGED <<wire, loopVars, clean>>

\* The chunk c is an event, whole, and fits, or has nothing of an event.
Tidy(c) ==
  \/ \A i \in 1..Len(c) : sent[c[i].of].kind = "response"
  \/ c = Message(c[1].of) /\ Len(c) <= Size

Seal ==
  /\ \E n \in 1..Len(out) : LET c == SubSeq(out, 1, n) IN
       /\ wire' = Append(wire, c) /\ out' = SubSeq(out, n + 1, Len(out))
       /\ clean' = (clean /\ Tidy(c))
  /\ UNCHANGED <<sent, loopVars>>

-----------------------------------------------------------------------------
(* The loop. *)

Least(a, b) == IF a < b THEN a ELSE b
Prefix(s, n) == SubSeq(s, 1, Least(n, Len(s)))
Beyond(s, n) == SubSeq(s, n + 1, Len(s))

\* rd is empty and needs more.  The first Read of an eventTransformer has the
\* rest of the first line.
Wanting == /\ place # "ended" /\ rd = <<>>
           /\ place = "event" => rb = <<>> /\ ~fresh

\* What conn.Read may fill: the buffer of rd or, when the body of a response
\* still needs as much, the slice of ReadAll itself.
Rooms ==
  {Size} \cup IF place = "response" /\ Len(message) > 1
              THEN Size..(sent[message[1].of].length - Len(message)) ELSE {}

\* conn.Read, which returns what there is of a chunk.  If that is as much as
\* was asked for, readBuf stays.
Fill ==
  /\ Wanting /\ ~filled
  /\ chunk # <<>> \/ wire # <<>>
  /\ LET c == IF chunk # <<>> THEN chunk ELSE Head(wire) IN
       \E room \in Rooms :
         /\ rd' = Prefix(c, room) /\ chunk' = Beyond(c, room) /\ filled' = (Len(c) = room)
         /\ wire' = IF chunk # <<>> THEN wire ELSE Tail(wire)
  /\ UNCHANGED <<sent, out, rb, place, message, fresh, taken, clean>>

\* And the next conn.Read says 0, io.EOF: the loop returns from Peek, drops the
\* line or the response it is reading, and an event unless what is left in p
\* is its end.
Misled ==
  /\ Wanting /\ filled /\ filled' = FALSE /\ clean' = FALSE
  /\ \/ place = "peek" /\ place' = "ended" /\ UNCHANGED taken
     \/ place \in {"line", "response"} /\ place' = "peek" /\ UNCHANGED taken
     \/ place = "event" /\ Len(message) = 1 /\ place' = "ended" /\ UNCHANGED taken
     \/ LET all == Append(message, Junk) IN
          /\ place = "event" /\ place' = "peek"
          /\ taken' = IF Len(all) = sent[message[1].of].length THEN Append(taken, all) ELSE taken
  /\ UNCHANGED <<accessoryVars, chunk, rd, rb, message, fresh>>

\* EVENT: the first five bytes are skipped.
PeekEvent ==
  /\ place = "peek" /\ rd # <<>> /\ IsEvent(Head(rd))
  /\ place' = "event" /\ message' = <<Head(rd)>> /\ rd' = Tail(rd) /\ fresh' = TRUE
  /\ UNCHANGED <<accessoryVars, chunk, filled, rb, taken, clean>>

PeekResponse ==
  /\ place = "peek" /\ rd # <<>> /\ FirstLine(Head(rd)) /\ ~IsEvent(Head(rd))
  /\ place' = "response" /\ message' = <<>>
  /\ UNCHANGED <<accessoryVars, chunk, filled, rd, rb, fresh, taken, clean>>

\* ReadResponse fails on a line that is not the first of a message, which may
\* take the first line of the next message with it.
PeekOther ==
  /\ rd # <<>> /\ (place = "line" \/ (place = "peek" /\ ~FirstLine(Head(rd))))
  /\ rd' = Tail(rd)
  /\ place' \in IF Head(rd).n <= 2 THEN {"peek"} ELSE {"peek", "line"}
  /\ UNCHANGED <<accessoryVars, chunk, filled, rb, message, fresh, taken, clean>>

\* eventTransformer.Read: HTTP, or from the second time on what was in p, and
\* then what rd has, which the first time may be no more than the first line.
Transformed(before, n) ==
  /\ place = "event" /\ rb = <<>> /\ (fresh \/ rd # <<>>)
  /\ rb' = before \o Prefix(rd, n) /\ rd' = Beyond(rd, n)
  /\ fresh' = FALSE
  /\ UNCHANGED <<accessoryVars, chunk, filled, place, message, taken, clean>>

TransformedAlike == Transformed(<<Junk>>, Size - 1)  \* mutant: no first time
TransformedPast  == Transformed(IF fresh THEN <<>> ELSE <<Junk>>, Size)  \* mutant: beyond p
Transform        == IF fresh THEN Transformed(<<>>, Size) ELSE Transformed(<<Junk>>, Size - 1)

\* The pieces of s that belong to it by its length.
Reads(s) ==
  LET m == IF message = <<>> THEN Head(s).of ELSE message[1].of IN
  Prefix(s, sent[m].length - Len(message))

\* ReadResponse and ReadAll of an event: what rb still holds is dropped with it.
EventRead(next) ==
  /\ place = "event" /\ rb # <<>>
  /\ LET r == Reads(rb) IN
       /\ message' = message \o r
       /\ IF Len(message') = sent[message[1].of].length
          THEN place' = next /\ taken' = Append(taken, message') /\ rb' = <<>>
          ELSE rb' = Beyond(rb, Len(r)) /\ UNCHANGED <<place, taken>>
  /\ UNCHANGED <<accessoryVars, chunk, filled, rd, fresh, clean>>

ReadLastEvent == EventRead("ended")  \* mutant: the loop returns after an event
ReadEvent     == EventRead("peek")

\* Headers that cannot be parsed end the loop; some can, whatever the four bytes.
BadHeader ==
  /\ place = "event" /\ rb # <<>> /\ Len(message) = 1 /\ Head(rb) = Junk
  /\ place' = "ended"
  /\ UNCHANGED <<accessoryVars, chunk, filled, rd, rb, message, fresh, taken, clean>>

ReadResponseTo(length) ==
  /\ place = "response" /\ rd # <<>>
  /\ LET r == Reads(rd) IN
       /\ message' = message \o r /\ rd' = Beyond(rd, Len(r))
       /\ IF Len(message') >= length
          THEN place' = "peek" /\ taken' = Append(taken, message')
          ELSE UNCHANGED <<place, taken>>
  /\ UNCHANGED <<accessoryVars, chunk, filled, rb, fresh, clean>>

ReadHeaders  == ReadResponseTo(2)  \* mutant: the body is left to whoever asks for it
ReadResponse == ReadResponseTo(sent[message'[1].of].length)

Loop ==
  \/ Fill \/ Misled \/ PeekEvent \/ PeekResponse \/ PeekOther \/ Transform
  \/ ReadEvent \/ BadHeader \/ ReadResponse

Next == (\E k \in Kinds, l \in Lengths : Write(k, l)) \/ Seal \/ Loop

Spec == Init /\ [][Next]_vars

\* The goroutine of the loop runs.
FairSpec == Spec /\ WF_vars(Loop)

-----------------------------------------------------------------------------

\* What is being read, without what was handed over already.
Current == IF place \in {"event", "response"} THEN message ELSE <<>>

\* Not a piece is lost, added or moved between the accessory and the
\* application if every event comes in a chunk of its own that fits in the
\* buffer and no io.EOF comes of a buffer filled to the last byte (conn.go:241),
\* however responses are cut and joined (conn.go:99).
NothingLost ==
  clean => FlattenSeq(taken) \o Current \o rb \o rd \o chunk \o FlattenSeq(wire) \o out
             = FlattenSeq([m \in 1..Len(sent) |-> Message(m)])

\* Whatever happens to events, a response that is handed to a caller is one
\* that was sent, whole, and after those handed over before.
ResponsesWhole ==
  \A i \in 1..Len(taken) :
    /\ sent[taken[i][1].of].kind = "response" => taken[i] = Message(taken[i][1].of)
    /\ \A j \in 1..(i - 1) : taken[j][1].of < taken[i][1].of

\* A message that was sealed is read, unless an event was not tidy or such an
\* io.EOF came.
AllRead ==
  \A m \in Ids :
    (Len(sent) >= m /\ out = <<>>) ~> (~clean \/ \E i \in 1..Len(taken) : taken[i][1].of = m)
=============================================================================
