---------------------------- MODULE ReaderProofs ----------------------------
(***************************************************************************)
(* What the loop of a connection hands over, for any lengths of messages,  *)
(* any cuts of them into chunks and any buffer: the types, that responses  *)
(* are whole and in order whatever happens to events, and that everything  *)
(* is while events are tidy and conn.Read does not say io.EOF.             *)
(*                                                                         *)
(* The pieces on their way are not put together into one sequence: each    *)
(* has a position in the stream, and every buffer and chunk holds a run of *)
(* positions that begins where the one before it ends.                     *)
(***************************************************************************)
EXTENDS Reader, WellFoundedInduction, TLAPS

-----------------------------------------------------------------------------
(* Parts of sequences. *)

\* A function on 1..n is a sequence of its values.
LEMMA IsSequence ==
  ASSUME NEW S, NEW n \in Nat, NEW f \in [1..n -> S]
  PROVE  f \in Seq(S) /\ Len(f) = n
OBVIOUS

LEMMA SameSequence ==
  ASSUME NEW S, NEW T, NEW u \in Seq(S), NEW w \in Seq(T), Len(u) = Len(w),
         \A i \in 1..Len(u) : u[i] = w[i]
  PROVE  u = w
OBVIOUS

LEMMA PrefixParts ==
  ASSUME NEW S, NEW s \in Seq(S), NEW n \in Nat
  PROVE  /\ Prefix(s, n) \in Seq(S)
         /\ Len(Prefix(s, n)) = Least(n, Len(s))
         /\ Len(Prefix(s, n)) <= n /\ Len(Prefix(s, n)) <= Len(s)
         /\ \A i \in 1..Len(Prefix(s, n)) : Prefix(s, n)[i] = s[i]
BY DEF Prefix, Least

LEMMA BeyondParts ==
  ASSUME NEW S, NEW s \in Seq(S), NEW n \in 0..Len(s)
  PROVE  /\ Beyond(s, n) \in Seq(S)
         /\ Len(Beyond(s, n)) = Len(s) - n
         /\ \A i \in 1..Len(Beyond(s, n)) : Beyond(s, n)[i] = s[n + i]
BY DEF Beyond

LEMMA BeyondPrefix ==
  ASSUME NEW S, NEW s \in Seq(S), NEW n \in Nat
  PROVE  /\ Beyond(s, n) \in Seq(S)
         /\ Len(Beyond(s, n)) = Len(s) - Len(Prefix(s, n))
         /\ \A i \in 1..Len(Beyond(s, n)) : Beyond(s, n)[i] = s[Len(Prefix(s, n)) + i]
<1>1. CASE n <= Len(s)
  BY <1>1, BeyondParts, PrefixParts DEF Least
<1>2. CASE n > Len(s)
  BY <1>2, PrefixParts DEF Least, Beyond
<1> QED
  BY <1>1, <1>2

LEMMA TailParts ==
  ASSUME NEW S, NEW s \in Seq(S), s # <<>>
  PROVE  /\ Tail(s) \in Seq(S) /\ Len(s) \in Nat \ {0} /\ Len(Tail(s)) = Len(s) - 1
         /\ Head(s) = s[1] /\ s[1] \in S
         /\ \A i \in 1..Len(Tail(s)) : Tail(s)[i] = s[1 + i]
OBVIOUS

LEMMA JoinParts ==
  ASSUME NEW S, NEW s \in Seq(S), NEW t \in Seq(S)
  PROVE  /\ s \o t \in Seq(S) /\ Len(s \o t) = Len(s) + Len(t)
         /\ \A i \in 1..Len(s) : (s \o t)[i] = s[i]
         /\ \A i \in 1..Len(t) : (s \o t)[Len(s) + i] = t[i]
         /\ \A i \in 1..Len(s \o t) :
              (s \o t)[i] = IF i <= Len(s) THEN s[i] ELSE t[i - Len(s)]
OBVIOUS

LEMMA AppendParts ==
  ASSUME NEW S, NEW s \in Seq(S), NEW x \in S
  PROVE  /\ Append(s, x) \in Seq(S) /\ Len(Append(s, x)) = Len(s) + 1
         /\ Append(s, x)[Len(s) + 1] = x
         /\ \A i \in 1..Len(s) : Append(s, x)[i] = s[i]
OBVIOUS

-----------------------------------------------------------------------------
(* Positions. *)

\* A piece of a message that was sent.
Written(p) == p \in Pieces /\ p.of \in 1..Len(sent) /\ p.n \in 1..sent[p.of].length

\* st[m] is where message m starts, st[Len(sent) + 1] the end of the stream.
Offsets(st) ==
  /\ st \in [1..(Len(sent) + 1) -> Nat]
  /\ \A m \in 1..Len(sent) : st[m + 1] = st[m] + sent[m].length
  /\ \A m \in 1..Len(sent), k \in 1..(Len(sent) + 1) : m < k => st[m] + sent[m].length <= st[k]

Position(st, p) == st[p.of] + p.n

\* s holds the pieces that follow position x.
From(st, x, s) == \A i \in 1..Len(s) : Written(s[i]) /\ Position(st, s[i]) = x + i

LEMMA SentMessage ==
  ASSUME TypeOK, NEW m \in 1..Len(sent)
  PROVE  sent[m].kind \in Kinds /\ sent[m].length \in Lengths /\ sent[m].length \in Nat \ {0, 1}
<1> DEFINE R == [kind : Kinds, length : Lengths]
<1>1. sent \in Seq(R)
  BY DEF TypeOK
<1>2. sent[m] \in R
  <2> HIDE DEF R
  <2> QED
    BY <1>1
<1> QED
  BY <1>2, ReaderAssumption

\* Every piece has a position of its own.
LEMMA OnePosition ==
  ASSUME TypeOK, NEW st, Offsets(st), NEW p, NEW q, Written(p), Written(q)
  PROVE  /\ Position(st, p) \in Nat
         /\ Position(st, p) = Position(st, q) => p = q
         /\ Position(st, p) < Position(st, q) /\ p.n = 1 /\ q.n = 1 => p.of < q.of
<1> DEFINE i == p.of
           j == q.of
           a == st[i]
           b == st[j]
           k == sent[i].length
           l == sent[j].length
<1>0. sent \in Seq([kind : Kinds, length : Lengths])
  BY DEF TypeOK
<1>1. /\ i \in 1..Len(sent) /\ j \in 1..Len(sent) /\ Len(sent) \in Nat
      /\ i \in 1..(Len(sent) + 1) /\ j \in 1..(Len(sent) + 1) /\ a \in Nat /\ b \in Nat
  <2>1. i \in 1..Len(sent) /\ j \in 1..Len(sent) /\ Len(sent) \in Nat
    BY <1>0 DEF Written
  <2>2. i \in 1..(Len(sent) + 1) /\ j \in 1..(Len(sent) + 1)
    BY <2>1
  <2> QED
    BY <2>1, <2>2 DEF Offsets
<1>3. /\ k \in Nat /\ l \in Nat /\ p.n \in Nat \ {0} /\ q.n \in Nat \ {0} /\ i \in Nat /\ j \in Nat
      /\ p.n <= k /\ q.n <= l
  <2>1. k \in Nat /\ l \in Nat
    BY <1>1, SentMessage
  <2>2. p.n \in 1..k /\ q.n \in 1..l
    BY DEF Written
  <2> QED
    BY <1>1, <2>1, <2>2, SMTT(30)
<1>4. (i < j => a + k <= b) /\ (j < i => b + l <= a)
  BY <1>1 DEF Offsets
<1>5. p = [of |-> p.of, n |-> p.n] /\ q = [of |-> q.of, n |-> q.n]
  BY DEF Written, Pieces
<1>6. Position(st, p) = a + p.n /\ Position(st, q) = b + q.n /\ (i = j => a = b)
  BY DEF Position
<1> HIDE DEF i, j, a, b, k, l
<1>7. a + p.n = b + q.n => i = j /\ p.n = q.n
  BY <1>1, <1>3, <1>4, <1>6, SMTT(30)
<1>8. a + p.n < b + q.n /\ p.n = 1 /\ q.n = 1 => i < j
  BY <1>1, <1>3, <1>4, <1>6
<1>9. p = q <=> i = j /\ p.n = q.n
  BY <1>5 DEF i, j
<1> QED
  BY <1>1, <1>3, <1>6, <1>7, <1>8, <1>9 DEF i, j

\* The parts of a run are runs.
LEMMA FromParts ==
  ASSUME TypeOK, NEW st, NEW x \in Nat, NEW s \in Seq(Pieces), From(st, x, s), NEW n \in Nat
  PROVE  From(st, x, Prefix(s, n)) /\ From(st, x + Len(Prefix(s, n)), Beyond(s, n))
<1> DEFINE k == Len(Prefix(s, n))
<1>1. k \in 0..Len(s) /\ \A i \in 1..k : Prefix(s, n)[i] = s[i] /\ i \in 1..Len(s)
  <2>1. Len(s) \in Nat /\ k \in Nat /\ k <= Len(s) /\ \A i \in 1..k : Prefix(s, n)[i] = s[i]
    BY PrefixParts
  <2> HIDE DEF k
  <2> QED
    BY <2>1
<1>2. From(st, x, Prefix(s, n))
  BY <1>1 DEF From
<1>3. \A i \in 1..Len(Beyond(s, n)) : Beyond(s, n)[i] = s[k + i] /\ k + i \in 1..Len(s)
  <2>1. Len(Beyond(s, n)) = Len(s) - k /\ \A i \in 1..Len(Beyond(s, n)) : Beyond(s, n)[i] = s[k + i]
    BY BeyondPrefix
  <2> HIDE DEF k
  <2> QED
    BY <1>1, <2>1
<1>4. \A i \in 1..Len(Beyond(s, n)) : x + (k + i) = (x + k) + i
  <2> HIDE DEF k
  <2> QED
    BY <1>1
<1> QED
  <2> HIDE DEF k
  <2>1. From(st, x + k, Beyond(s, n))
    BY <1>3, <1>4 DEF From
  <2> QED
    BY <1>2, <2>1 DEF k

LEMMA TailBeyond ==
  ASSUME NEW S, NEW s \in Seq(S), s # <<>>
  PROVE  Tail(s) = Beyond(s, 1) /\ Len(Prefix(s, 1)) = 1
<1>1. Len(s) \in Nat /\ Len(s) >= 1
  OBVIOUS
<1>2. Len(Prefix(s, 1)) = 1
  <2>1. \A n \in Nat : Len(Prefix(s, n)) = Least(n, Len(s))
    BY PrefixParts
  <2>2. Len(Prefix(s, 1)) = Least(1, Len(s))
    BY <2>1
  <2>3. \A k \in Nat : k >= 1 => Least(1, k) = 1
    BY DEF Least
  <2> QED
    BY <1>1, <2>2, <2>3
<1>3. /\ Tail(s) \in Seq(S) /\ Beyond(s, 1) \in Seq(S) /\ Len(Tail(s)) = Len(Beyond(s, 1))
      /\ \A i \in 1..Len(Tail(s)) : Tail(s)[i] = Beyond(s, 1)[i]
  BY <1>1, TailParts, BeyondParts
<1>4. Tail(s) = Beyond(s, 1)
  BY <1>3, SameSequence
<1> QED
  BY <1>2, <1>4

-----------------------------------------------------------------------------
(* The invariant. *)

\* What the loop has not taken begins after position a, in rd; chunk i begins
\* after position cut[i].
Unread(st, a, cut) ==
  /\ a \in Nat /\ cut \in [1..(Len(wire) + 1) -> Nat]
  /\ From(st, a, rd) /\ From(st, a + Len(rd), chunk) /\ cut[1] = a + Len(rd) + Len(chunk)
  /\ \A i \in 1..Len(wire) :
       wire[i] # <<>> /\ From(st, cut[i], wire[i]) /\ cut[i + 1] = cut[i] + Len(wire[i])
  /\ From(st, cut[Len(wire) + 1], out)
  /\ cut[Len(wire) + 1] + Len(out) = st[Len(sent) + 1]

\* The first piece of a message that begins no later than position a.
Begins(st, a, p, kind) ==
  /\ Written(p) /\ p.n = 1 /\ Position(st, p) <= a /\ sent[p.of].kind = kind

\* The messages handed over: they begin before a, each after those before it,
\* and the responses are whole.
Taken(st, a) ==
  \A i \in 1..Len(taken) :
    /\ taken[i] # <<>> /\ \E kind \in Kinds : Begins(st, a, taken[i][1], kind)
    /\ sent[taken[i][1].of].kind = "response" => taken[i] = Message(taken[i][1].of)
    /\ \A j \in 1..(i - 1) : taken[j][1].of < taken[i][1].of

\* The last of them begins before message m.
TakenBefore(m) == \A i \in 1..Len(taken) : taken[i][1].of < m

\* The response that is being read: what there is of it, up to position a.
Responding(st, a) ==
  place = "response" =>
    /\ message = <<>> => rd # <<>> /\ rd[1].n = 1 /\ sent[rd[1].of].kind = "response"
    /\ message # <<>> => LET m == message[1].of IN
         /\ m \in 1..Len(sent) /\ sent[m].kind = "response" /\ Len(message) < sent[m].length
         /\ \A i \in 1..Len(message) : message[i] = [of |-> m, n |-> i]
         /\ st[m] + Len(message) = a /\ TakenBefore(m)

\* The event that is being read, of which only the first piece is sure.
Receiving(st, a) ==
  place = "event" =>
    /\ message # <<>> /\ Begins(st, a, message[1], "event")
    /\ Len(message) < sent[message[1].of].length /\ TakenBefore(message[1].of)

Stream(st, a, cut) ==
  Offsets(st) /\ Unread(st, a, cut) /\ Taken(st, a) /\ Responding(st, a) /\ Receiving(st, a)

Responses(s) == \A i \in 1..Len(s) : sent[s[i].of].kind = "response"

\* What is on its way is cut so that an event is alone in its chunk.
Neat ==
  /\ \A i \in 1..Len(wire) : Tidy(wire[i])
  /\ Responses(chunk)
  /\ \/ Responses(rd)
     \/ chunk = <<>> /\ place = "event"
     \/ chunk = <<>> /\ rd = Message(rd[1].of) /\ Len(rd) <= Size

\* Every message before the one that is being read was handed over, and what
\* there is of that one ends at position a.
Whole(st, a) == LET t == Len(taken) IN
  /\ place \in {"peek", "event", "response"}
  /\ t <= Len(sent) /\ \A i \in 1..t : taken[i] = Message(i)
  /\ place # "event" => rb = <<>>
  /\ place = "peek" => st[t + 1] = a
  /\ place = "response" => st[t + 1] + Len(message) = a
  /\ place = "event" /\ fresh =>
       /\ t < Len(sent) /\ rb = <<>> /\ Len(message) = 1 /\ message \o rd = Message(t + 1)
       /\ st[t + 1] + 1 = a /\ Len(rd) <= Size
  /\ place = "event" /\ ~fresh =>
       t < Len(sent) /\ rd = <<>> /\ message \o rb = Message(t + 1) /\ st[t + 2] = a

InTurn(st, a) == clean => Neat /\ Whole(st, a)

ReadInv == TypeOK /\ \E st, a, cut : Stream(st, a, cut) /\ InTurn(st, a)

\* The loop goes on by n pieces.
LEMMA Advance ==
  ASSUME TypeOK, NEW st, NEW a, NEW cut, Unread(st, a, cut), NEW n \in Nat,
         NEW k, k = Len(Prefix(rd, n)), rd' = Beyond(rd, n), UNCHANGED <<sent, chunk, wire, out>>
  PROVE  a + k \in Nat /\ a <= a + k /\ Unread(st, a + k, cut)'
<1>1. /\ rd \in Seq(Pieces) /\ Len(rd) \in Nat /\ a \in Nat /\ From(st, a, rd) /\ k \in Nat
      /\ chunk \in Seq(Pieces) /\ Len(chunk) \in Nat
  BY PrefixParts, SMTT(30) DEF TypeOK, Unread
<1>2. From(st, a + k, rd') /\ Len(rd') = Len(rd) - k /\ k <= Len(rd)
  BY <1>1, FromParts, BeyondPrefix, PrefixParts
<1>3. From(st, a + k, rd)'
  BY <1>2 DEF From, Written
<1>4. /\ a + k \in Nat /\ a <= a + k /\ (a + k) + Len(rd') = a + Len(rd)
      /\ (a + k) + Len(rd') + Len(chunk) = a + Len(rd) + Len(chunk)
  BY <1>1, <1>2
<1>5. From(st, (a + k) + Len(rd), chunk)'
  BY <1>4 DEF Unread, From, Written
<1>6. /\ (\A i \in 1..Len(wire) : From(st, cut[i], wire[i]))'
      /\ From(st, cut[Len(wire) + 1], out)'
  BY DEF Unread, From, Written
<1>7. Unread(st, a + k, cut)'
  BY <1>3, <1>4, <1>5, <1>6 DEF Unread
<1> QED
  BY <1>4, <1>7

LEMMA SameTaken ==
  ASSUME NEW st, NEW a, Taken(st, a), UNCHANGED <<sent, taken>>
  PROVE  Taken(st, a)'
<1>1. \A m : Message(m)' = Message(m)
  BY DEF Message
<1>2. \A p, kind : Begins(st, a, p, kind) => Begins(st, a, p, kind)'
  BY DEF Begins, Written
<1> QED
  BY <1>1, <1>2 DEF Taken

\* What was handed over begins as much before a later position.
LEMMA TakenLater ==
  ASSUME TypeOK, NEW st, NEW a \in Nat, NEW b \in Nat, a <= b, Offsets(st), Taken(st, a),
         UNCHANGED <<sent, taken>>
  PROVE  Taken(st, b)'
<1>1. \A i \in 1..Len(taken) : \E kind \in Kinds : Begins(st, b, taken[i][1], kind)
  <2> SUFFICES ASSUME NEW i \in 1..Len(taken)
               PROVE  \E kind \in Kinds : Begins(st, b, taken[i][1], kind)
    OBVIOUS
  <2>1. PICK kind \in Kinds : Begins(st, a, taken[i][1], kind)
    BY DEF Taken
  <2>2. Position(st, taken[i][1]) \in Nat
    BY <2>1, OnePosition DEF Begins
  <2> QED
    BY <2>1, <2>2 DEF Begins
<1>2. Taken(st, b)
  BY <1>1 DEF Taken
<1> QED
  BY <1>2, SameTaken

\* A step that leaves the buffers and chunks alone.
LEMMA SameUnread ==
  ASSUME NEW st, NEW a, NEW cut, Stream(st, a, cut), UNCHANGED <<sent, out, wire, chunk, rd>>
  PROVE  Offsets(st)' /\ Unread(st, a, cut)'
<1>1. Offsets(st)'
  BY DEF Stream, Offsets
<1>2. \A x, u : From(st, x, u) => From(st, x, u)'
  BY DEF From, Written
<1>3. From(st, a, rd)' /\ From(st, a + Len(rd), chunk)' /\ From(st, cut[Len(wire) + 1], out)'
  BY <1>2 DEF Stream, Unread
<1>4. \A i \in 1..Len(wire) : From(st, cut[i], wire[i])'
  BY <1>2 DEF Stream, Unread
<1>5. Unread(st, a, cut)'
  BY <1>3, <1>4 DEF Stream, Unread
<1> QED
  BY <1>1, <1>5

-----------------------------------------------------------------------------
(* The types. *)

LEMMA AnySequence ==
  ASSUME NEW s \in Seq(Pieces)
  PROVE  s \in Seq(AnyPiece)
<1>1. Pieces \subseteq AnyPiece
  BY DEF AnyPiece
<1> QED
  BY <1>1

\* What belongs to the message that is being read is the beginning of s.
LEMMA ReadsPrefix ==
  ASSUME TypeOK, NEW st, NEW a, Offsets(st), NEW s,
         \/ place = "event" /\ Receiving(st, a)
         \/ place = "response" /\ Responding(st, a) /\ From(st, a, rd) /\ s = rd
  PROVE  \E m \in 1..Len(sent), n \in Nat \ {0} :
           /\ m = (IF message = <<>> THEN Head(s).of ELSE message[1].of)
           /\ n = sent[m].length - Len(message) /\ Reads(s) = Prefix(s, n)
<1>1. Len(message) \in Nat /\ rd \in Seq(Pieces)
  BY DEF TypeOK
<1>2. ASSUME NEW m \in 1..Len(sent), Len(message) < sent[m].length,
             m = (IF message = <<>> THEN Head(s).of ELSE message[1].of)
      PROVE  /\ sent[m].length - Len(message) \in Nat \ {0}
             /\ Reads(s) = Prefix(s, sent[m].length - Len(message))
  <2>1. sent[m].length \in Nat
    BY SentMessage
  <2>2. sent[m].length - Len(message) \in Nat \ {0}
    <3> DEFINE l == sent[m].length
               k == Len(message)
    <3>1. l \in Nat /\ k \in Nat /\ k < l
      BY <1>1, <1>2, <2>1
    <3> HIDE DEF l, k
    <3>2. l - k \in Nat \ {0}
      BY <3>1
    <3> QED
      BY <3>2 DEF l, k
  <2> QED
    BY <1>2, <2>2 DEF Reads
<1>3. CASE place = "event"
  <2>1. /\ message # <<>> /\ message[1].of \in 1..Len(sent)
        /\ Len(message) < sent[message[1].of].length
    BY <1>3 DEF Receiving, Begins, Written
  <2> QED
    BY <1>2, <2>1
<1>4. CASE place = "response"
  <2>1. CASE message = <<>>
    <3>1. rd # <<>> /\ 1 \in 1..Len(rd) /\ Head(rd) = rd[1] /\ From(st, a, rd) /\ s = rd
      BY <1>1, <1>4, <2>1 DEF Responding
    <3>2. Head(s).of \in 1..Len(sent)
      BY <3>1 DEF From, Written
    <3>3. sent[Head(s).of].length \in Nat \ {0} /\ Len(message) = 0
      BY <2>1, <3>2, SentMessage
    <3> QED
      BY <1>2, <2>1, <3>2, <3>3
  <2>2. CASE message # <<>>
    <3>1. message[1].of \in 1..Len(sent) /\ Len(message) < sent[message[1].of].length
      BY <1>4, <2>2 DEF Responding
    <3> QED
      BY <1>2, <2>2, <3>1
  <2> QED
    BY <2>1, <2>2
<1> QED
  BY <1>3, <1>4

\* A Read has room for the buffer at least.
LEMMA RoomOf ==
  ASSUME TypeOK, NEW st, NEW a, Responding(st, a), NEW room \in Rooms
  PROVE  room \in Nat /\ Size <= room
<1>1. CASE room = Size
  BY <1>1, ReaderAssumption
<1>2. CASE room # Size
  <2> DEFINE m == message[1].of
  <2>1. place = "response" /\ Len(message) > 1 /\ room \in Size..(sent[m].length - Len(message))
    BY <1>2 DEF Rooms
  <2>2. message # <<>> /\ Len(message) \in Nat
    BY <2>1 DEF TypeOK
  <2>3. m \in 1..Len(sent)
    BY <2>1, <2>2 DEF Responding
  <2>4. sent[m].length \in Nat
    BY <2>3, SentMessage
  <2> QED
    BY <2>1, <2>2, <2>4, ReaderAssumption
<1> QED
  BY <1>1, <1>2

LEMMA TypeInit == Init => TypeOK
<1>1. <<>> \in Seq(Pieces) /\ <<>> \in Seq(AnyPiece) /\ Len(<<>>) = 0
  OBVIOUS
<1>2. <<>> \in Seq(Seq(Pieces)) /\ <<>> \in Seq(Seq(AnyPiece))
      /\ <<>> \in Seq([kind : Kinds, length : Lengths])
  OBVIOUS
<1>3. 0 <= Size /\ 0 <= MaxSent
  BY ReaderAssumption
<1> QED
  BY <1>1, <1>2, <1>3 DEF Init, TypeOK

LEMMA TypeNext ==
  ASSUME ReadInv, [Next]_vars
  PROVE  TypeOK'
<1>1. PICK st, a, cut : Stream(st, a, cut)
  BY DEF ReadInv
<1> DEFINE Sent == [kind : Kinds, length : Lengths]
           Chunks == Seq(Pieces)
           Messages == Seq(AnyPiece)
           Places == {"peek", "line", "event", "response", "ended"}
<1>2. /\ sent \in Seq(Sent) /\ Len(sent) <= MaxSent /\ out \in Chunks /\ wire \in Seq(Chunks)
      /\ chunk \in Chunks /\ filled \in BOOLEAN /\ (filled => chunk = <<>>) /\ rd \in Chunks
      /\ rb \in Messages /\ Len(rb) <= Size /\ place \in Places /\ message \in Messages
      /\ fresh \in BOOLEAN /\ taken \in Seq(Messages) /\ clean \in BOOLEAN /\ TypeOK
  BY DEF ReadInv, TypeOK
<1>3. ASSUME sent' \in Seq(Sent), Len(sent') <= MaxSent, out' \in Chunks, wire' \in Seq(Chunks),
             chunk' \in Chunks, filled' \in BOOLEAN, filled' => chunk' = <<>>,
             rd' \in Chunks, rb' \in Messages,
             Len(rb') <= Size, place' \in Places, message' \in Messages, fresh' \in BOOLEAN,
             taken' \in Seq(Messages), clean' \in BOOLEAN
      PROVE  TypeOK'
  BY <1>3 DEF TypeOK
<1>4. Chunks \subseteq Messages /\ Size \in Nat /\ MaxSent \in Nat
      /\ Len(sent) \in Nat /\ Len(rd) \in Nat /\ Len(rb) \in Nat
  BY <1>2, AnySequence, ReaderAssumption
<1>5. <<Junk>> \in Messages /\ Len(<<Junk>>) = 1 /\ <<>> \in Messages /\ Len(<<>>) = 0
  BY DEF AnyPiece
<1>6. \A s \in Chunks, n \in Nat :
        /\ Prefix(s, n) \in Chunks /\ Len(Prefix(s, n)) <= n /\ Len(Prefix(s, n)) \in Nat
        /\ Beyond(s, n) \in Chunks /\ Len(Beyond(s, n)) <= Len(s)
  <2>1. \A s \in Chunks, n \in Nat :
          /\ Prefix(s, n) \in Chunks /\ Len(Prefix(s, n)) <= n
          /\ Beyond(s, n) \in Chunks /\ Len(Beyond(s, n)) = Len(s) - Len(Prefix(s, n))
    BY PrefixParts, BeyondPrefix
  <2> QED
    BY <2>1
<1>7. \A s \in Chunks : s # <<>> =>
        /\ Tail(s) \in Chunks /\ Len(Tail(s)) <= Len(s) /\ <<Head(s)>> \in Messages
  <2>1. \A s \in Chunks : s # <<>> =>
          Tail(s) \in Chunks /\ Len(Tail(s)) = Len(s) - 1 /\ Head(s) \in Pieces
    BY TailParts
  <2>2. Pieces \subseteq AnyPiece
    BY DEF AnyPiece
  <2> QED
    BY <2>1, <2>2
<1> HIDE DEF Sent, Chunks, Messages, Places
<1>8. ASSUME NEW k \in Kinds, NEW l \in Lengths, Write(k, l) PROVE TypeOK'
  <2> DEFINE new == [n \in 1..l |-> [of |-> Len(sent) + 1, n |-> n]]
  <2>1. l \in Nat /\ [kind |-> k, length |-> l] \in Sent
    BY ReaderAssumption DEF Sent
  <2>2. Len(sent) < MaxSent /\ sent' = Append(sent, [kind |-> k, length |-> l])
    BY <1>8 DEF Write
  <2>3. sent' \in Seq(Sent) /\ Len(sent') <= MaxSent
    BY <1>2, <1>4, <2>1, <2>2
  <2>4. new \in [1..l -> Pieces]
    <3>1. Len(sent) + 1 \in Ids
      BY <1>4, <2>2 DEF Ids
    <3> QED
      BY <2>1, <3>1 DEF Pieces
  <2>5. new \in Chunks
    BY <2>1, <2>4, IsSequence DEF Chunks
  <2>6. out' = out \o new
    BY <1>8 DEF Write
  <2>7. out' \in Chunks
    BY <1>2, <2>5, <2>6 DEF Chunks
  <2> QED
    BY <1>2, <1>3, <1>8, <2>3, <2>7 DEF Write, loopVars
<1>9. CASE Seal
  <2>1. PICK n \in 1..Len(out) :
          /\ wire' = Append(wire, SubSeq(out, 1, n)) /\ out' = SubSeq(out, n + 1, Len(out))
          /\ clean' = (clean /\ Tidy(SubSeq(out, 1, n)))
    BY <1>9 DEF Seal
  <2>2. SubSeq(out, 1, n) \in Chunks /\ out' \in Chunks
    BY <1>2, <2>1 DEF Chunks
  <2>3. wire' \in Seq(Chunks)
    BY <1>2, <2>1, <2>2
  <2>4. clean' \in BOOLEAN
    BY <2>1
  <2> QED
    BY <1>2, <1>3, <1>9, <2>2, <2>3, <2>4 DEF Seal, loopVars
<1>10. CASE Fill
  <2> DEFINE c == IF chunk # <<>> THEN chunk ELSE Head(wire)
  <2>1. /\ chunk # <<>> \/ wire # <<>>
        /\ wire' = IF chunk # <<>> THEN wire ELSE Tail(wire)
    BY <1>10 DEF Fill
  <2>2. c \in Chunks /\ wire' \in Seq(Chunks)
    BY <1>2, <2>1
  <2>3. PICK room \in Nat :
          rd' = Prefix(c, room) /\ chunk' = Beyond(c, room) /\ filled' = (Len(c) = room)
    <3>1. PICK room \in Rooms :
            rd' = Prefix(c, room) /\ chunk' = Beyond(c, room) /\ filled' = (Len(c) = room)
      BY <1>10 DEF Fill
    <3>2. room \in Nat
      BY <1>1, <1>2, RoomOf DEF Stream
    <3> QED
      BY <3>1, <3>2
  <2>4. rd' \in Chunks /\ chunk' \in Chunks /\ filled' \in BOOLEAN
    BY <1>6, <2>2, <2>3
  <2>5. filled' => chunk' = <<>>
    <3> SUFFICES ASSUME Len(c) = room PROVE Beyond(c, room) = <<>>
      BY <2>3
    <3>1. Beyond(c, room) \in Seq(Pieces) /\ Len(Beyond(c, room)) = Len(c) - Len(Prefix(c, room))
      BY <2>2, BeyondPrefix DEF Chunks
    <3>2. Len(Prefix(c, room)) = Len(c) /\ Len(c) \in Nat
      BY <2>2, PrefixParts DEF Least, Chunks
    <3>3. Len(Beyond(c, room)) = 0
      BY <3>1, <3>2
    <3> QED
      BY <3>1, <3>3
  <2> QED
    BY <1>2, <1>3, <1>10, <2>2, <2>4, <2>5 DEF Fill
<1>19. CASE Misled
  <2>1. place' \in Places
    BY <1>19 DEF Misled, Places
  <2>2. taken' \in Seq(Messages)
    <3>1. Append(message, Junk) \in Messages
      <4>1. Junk \in AnyPiece
        BY DEF AnyPiece
      <4> QED
        BY <1>2, <4>1 DEF Messages
    <3>2. taken' = taken \/ taken' = Append(taken, Append(message, Junk))
      BY <1>19 DEF Misled
    <3>3. ASSUME NEW x \in Messages PROVE Append(taken, x) \in Seq(Messages)
      BY <1>2
    <3> QED
      BY <1>2, <3>1, <3>2, <3>3
  <2> QED
    BY <1>2, <1>3, <1>19, <2>1, <2>2 DEF Misled, accessoryVars
<1>11. CASE PeekEvent
  <2>1. rd' \in Chunks /\ message' \in Messages
    <3>1. /\ rd # <<>> /\ rd' = Tail(rd) /\ message' = <<Head(rd)>>
      BY <1>11 DEF PeekEvent
    <3>2. Tail(rd) \in Chunks /\ Len(Tail(rd)) <= Len(rd) /\ <<Head(rd)>> \in Messages
      BY <1>2, <1>7, <3>1
    <3> QED
      BY <3>1, <3>2
  <2>2. place' \in Places /\ fresh' \in BOOLEAN
    BY <1>11 DEF PeekEvent, Places
  <2> QED
    BY <1>2, <1>3, <1>11, <2>1, <2>2 DEF PeekEvent, accessoryVars
<1>12. CASE PeekResponse
  <2>1. place' \in Places /\ message' \in Messages
    BY <1>5, <1>12 DEF PeekResponse, Places
  <2> QED
    BY <1>2, <1>3, <1>12, <2>1 DEF PeekResponse, accessoryVars
<1>13. CASE PeekOther
  <2>1. rd' \in Chunks
    <3>1. rd # <<>> /\ rd' = Tail(rd)
      BY <1>13 DEF PeekOther
    <3>2. Tail(rd) \in Chunks /\ Len(Tail(rd)) <= Len(rd)
      BY <1>2, <1>7, <3>1
    <3> QED
      BY <3>1, <3>2
  <2>2. place' \in Places
    BY <1>13 DEF PeekOther, Places
  <2> QED
    BY <1>2, <1>3, <1>13, <2>1, <2>2 DEF PeekOther, accessoryVars
<1>14. CASE Transform
  <2>1. PICK before \in {<<>>, <<Junk>>}, n \in Nat :
          n + Len(before) = Size /\ Transformed(before, n)
    <3>1. Size - 1 \in Nat /\ (Size - 1) + 1 = Size /\ Size + 0 = Size
      BY ReaderAssumption
    <3> QED
      BY <1>4, <1>5, <1>14, <3>1 DEF Transform
  <2>2. rb' = before \o Prefix(rd, n) /\ rd' = Beyond(rd, n) /\ fresh' = FALSE
    BY <2>1 DEF Transformed
  <2>3. Prefix(rd, n) \in Messages /\ Len(Prefix(rd, n)) <= n /\ Len(Prefix(rd, n)) \in Nat
        /\ rd' \in Chunks /\ Len(rd') <= Len(rd) /\ Len(rd') \in Nat
    <3>1. rd' \in Chunks
      BY <1>2, <1>6, <2>2
    <3> QED
      BY <1>2, <1>4, <1>6, <2>2, <3>1 DEF Chunks
  <2>4. before \in Messages
    BY <1>5
  <2>5. rb' \in Messages /\ Len(rb') = Len(before) + Len(Prefix(rd, n)) /\ Len(before) \in Nat
    BY <2>2, <2>3, <2>4 DEF Messages
  <2>6. Len(rb') <= Size
    BY <1>2, <1>4, <2>1, <2>3, <2>5
  <2> QED
    BY <1>2, <1>3, <2>1, <2>2, <2>3, <2>5, <2>6 DEF Transformed, accessoryVars
<1>15. CASE ReadEvent
  <2>1. PICK n \in Nat : Reads(rb) = Prefix(rb, n)
    BY <1>1, <1>2, <1>15, ReadsPrefix DEF ReadEvent, EventRead, Stream
  <2>2. Reads(rb) \in Messages /\ Len(Reads(rb)) \in 0..Len(rb)
    <3>1. Prefix(rb, n) \in Messages /\ Len(Prefix(rb, n)) <= Len(rb)
      BY <1>2, PrefixParts DEF Messages
    <3>2. Len(Prefix(rb, n)) \in Nat
      BY <3>1 DEF Messages
    <3> QED
      BY <1>4, <2>1, <3>1, <3>2
  <2>3. message' = message \o Reads(rb)
    BY <1>15 DEF ReadEvent, EventRead
  <2>4. message' \in Messages
    BY <1>2, <2>2, <2>3 DEF Messages
  <2>5. Beyond(rb, Len(Reads(rb))) \in Messages /\ Len(Beyond(rb, Len(Reads(rb)))) <= Size
    <3>1. /\ Beyond(rb, Len(Reads(rb))) \in Messages
          /\ Len(Beyond(rb, Len(Reads(rb)))) = Len(rb) - Len(Reads(rb))
      BY <1>2, <2>2, BeyondParts DEF Messages
    <3> QED
      BY <1>2, <1>4, <2>2, <3>1
  <2>6. rb' \in Messages /\ Len(rb') <= Size /\ place' \in Places /\ taken' \in Seq(Messages)
    <3>1. CASE place' = "peek" /\ taken' = Append(taken, message') /\ rb' = <<>>
      <4>1. taken' \in Seq(Messages)
        BY <1>2, <2>4, <3>1
      <4> QED
        BY <1>4, <1>5, <3>1, <4>1 DEF Places
    <3>2. CASE rb' = Beyond(rb, Len(Reads(rb))) /\ UNCHANGED <<place, taken>>
      BY <1>2, <2>5, <3>2
    <3> QED
      BY <1>15, <3>1, <3>2 DEF ReadEvent, EventRead
  <2> QED
    BY <1>2, <1>3, <1>15, <2>4, <2>6 DEF ReadEvent, EventRead, accessoryVars
<1>16. CASE BadHeader
  <2>1. place' \in Places
    BY <1>16 DEF BadHeader, Places
  <2> QED
    BY <1>2, <1>3, <1>16, <2>1 DEF BadHeader, accessoryVars
<1>17. CASE ReadResponse
  <2>1. place = "response" /\ message' = message \o Reads(rd) /\ rd' = Beyond(rd, Len(Reads(rd)))
    BY <1>17 DEF ReadResponse, ReadResponseTo
  <2>2. PICK n \in Nat : Reads(rd) = Prefix(rd, n)
    BY <1>1, <1>2, <2>1, ReadsPrefix DEF Stream, Unread
  <2>3. Reads(rd) \in Chunks /\ Len(Reads(rd)) \in Nat
    BY <1>2, <1>6, <2>2
  <2>4. message' \in Messages
    BY <1>2, <1>4, <2>1, <2>3 DEF Messages
  <2>5. rd' \in Chunks
    BY <1>2, <1>6, <2>1, <2>3
  <2>6. place' \in Places /\ taken' \in Seq(Messages)
    <3>1. CASE place' = "peek" /\ taken' = Append(taken, message')
      BY <1>2, <2>4, <3>1 DEF Places
    <3>2. CASE UNCHANGED <<place, taken>>
      BY <1>2, <3>2
    <3> QED
      BY <1>17, <3>1, <3>2 DEF ReadResponse, ReadResponseTo
  <2> QED
    BY <1>2, <1>3, <1>17, <2>4, <2>5, <2>6 DEF ReadResponse, ReadResponseTo, accessoryVars
<1>18. CASE UNCHANGED vars
  BY <1>2, <1>3, <1>18 DEF vars, accessoryVars, loopVars
<1> QED
  BY <1>8, <1>9, <1>10, <1>11, <1>12, <1>13, <1>14, <1>15, <1>16, <1>17, <1>18, <1>19 DEF Next, Loop

-----------------------------------------------------------------------------
(* The stream, one lemma per action. *)

\* A message that is written begins where the stream ended.
LEMMA WriteStream ==
  ASSUME TypeOK, NEW st, NEW a, NEW cut, Stream(st, a, cut),
         NEW k \in Kinds, NEW l \in Lengths, Write(k, l)
  PROVE  \E s : Stream(s, a, cut)' /\ \A m \in 1..(Len(sent) + 1) : s[m] = st[m]
<1>1. PICK N \in Nat : N = Len(sent)
  BY DEF TypeOK
<1> DEFINE s == [m \in 1..(N + 2) |-> IF m = N + 2 THEN st[N + 1] + l ELSE st[m]]
           new == [n \in 1..l |-> [of |-> N + 1, n |-> n]]
<1>2. /\ l \in Nat \ {0} /\ N < MaxSent /\ out' = out \o new
      /\ UNCHANGED <<wire, chunk, rd, rb, place, message, fresh, taken>>
  BY <1>1, ReaderAssumption DEF Write, loopVars
<1>3. /\ Len(sent') = N + 1 /\ \A m \in 1..N : sent'[m] = sent[m]
      /\ sent'[N + 1].kind = k /\ sent'[N + 1].length = l
  <2> DEFINE Sent == [kind : Kinds, length : Lengths]
             x == [kind |-> k, length |-> l]
  <2>1. sent \in Seq(Sent) /\ x \in Sent /\ sent' = Append(sent, x)
    BY DEF Write, TypeOK
  <2>2. x.kind = k /\ x.length = l
    OBVIOUS
  <2> HIDE DEF Sent, x
  <2>3. Len(sent') = N + 1 /\ (\A m \in 1..N : sent'[m] = sent[m]) /\ sent'[N + 1] = x
    BY <1>1, <2>1, AppendParts
  <2> QED
    BY <2>2, <2>3
<1>4. /\ st \in [1..(N + 1) -> Nat]
      /\ \A m \in 1..N : st[m + 1] = st[m] + sent[m].length
      /\ \A m \in 1..N, j \in 1..(N + 1) : m < j => st[m] + sent[m].length <= st[j]
      /\ \A m \in 1..N : sent[m].length \in Nat
  BY <1>1, SentMessage DEF Stream, Offsets
<1>5. /\ s \in [1..(N + 2) -> Nat] /\ s[N + 2] = st[N + 1] + l
      /\ \A m \in 1..(N + 1) : s[m] = st[m]
  <2>1. st[N + 1] + l \in Nat
    <3>1. N + 1 \in 1..(N + 1)
      BY <1>1
    <3> QED
      BY <1>2, <1>4, <3>1
  <2>4. \A m \in 1..(N + 1) : st[m] \in Nat /\ m \in 1..(N + 2) /\ m # N + 2
    BY <1>1, <1>4
  <2>2. \A m \in 1..(N + 2) : m # N + 2 => m \in 1..(N + 1)
    BY <1>1
  <2>3. N + 2 \in 1..(N + 2)
    BY <1>1
  <2> QED
    BY <2>1, <2>2, <2>3, <2>4
<1> HIDE DEF s
<1>6. Offsets(s)'
  <2>1. \A m \in 1..(N + 1) : s[m + 1] = s[m] + sent'[m].length
    <3> SUFFICES ASSUME NEW m \in 1..(N + 1) PROVE s[m + 1] = s[m] + sent'[m].length
      OBVIOUS
    <3>1. CASE m = N + 1
      BY <1>1, <1>3, <1>5, <3>1
    <3>2. CASE m # N + 1
      <4>1. m \in 1..N /\ m + 1 \in 1..(N + 1)
        BY <1>1, <3>2
      <4> QED
        BY <1>3, <1>4, <1>5, <4>1
    <3> QED
      BY <3>1, <3>2
  <2>2. \A m \in 1..(N + 1), j \in 1..(N + 2) : m < j => s[m] + sent'[m].length <= s[j]
    <3> SUFFICES ASSUME NEW m \in 1..(N + 1), NEW j \in 1..(N + 2), m < j
                 PROVE  s[m] + sent'[m].length <= s[j]
      OBVIOUS
    <3>1. CASE m = N + 1
      BY <1>1, <1>3, <1>5, <3>1
    <3>2. CASE m # N + 1 /\ j # N + 2
      <4>1. m \in 1..N /\ j \in 1..(N + 1)
        BY <1>1, <3>2
      <4> QED
        BY <1>3, <1>4, <1>5, <4>1
    <3>3. CASE m # N + 1 /\ j = N + 2
      <4>1. m \in 1..N /\ N + 1 \in 1..(N + 1) /\ m < N + 1
        BY <1>1, <3>3
      <4>2. st[m] + sent[m].length <= st[N + 1] /\ st[N + 1] \in Nat
            /\ st[m] \in Nat /\ sent[m].length \in Nat
        BY <1>4, <4>1
      <4>3. s[m] = st[m] /\ s[j] = st[N + 1] + l /\ sent'[m].length = sent[m].length
        BY <1>3, <1>5, <3>3, <4>1
      <4> QED
        BY <1>2, <4>2, <4>3
    <3> QED
      BY <3>1, <3>2, <3>3
  <2>3. (N + 1) + 1 = N + 2
    BY <1>1
  <2> QED
    BY <1>3, <1>5, <2>1, <2>2, <2>3 DEF Offsets
<1>7. \A p : Written(p) =>
        /\ Written(p)' /\ Position(s, p) = Position(st, p) /\ p.of \in 1..N
        /\ sent'[p.of] = sent[p.of]
  <2>1. \A m \in 1..N : m \in 1..(N + 1)
    BY <1>1
  <2> QED
    BY <1>1, <1>3, <1>5, <2>1 DEF Written, Position
<1>8. \A x, q : From(st, x, q) => From(s, x, q)'
  BY <1>7 DEF From, Position
<1>9. Unread(s, a, cut)'
  <2>1. From(s, a, rd)' /\ From(s, a + Len(rd), chunk)'
    BY <1>2, <1>8 DEF Stream, Unread
  <2>2. \A i \in 1..Len(wire) : From(s, cut[i], wire[i])'
    BY <1>2, <1>8 DEF Stream, Unread
  <2>3. PICK e : e = cut[Len(wire) + 1]
    OBVIOUS
  <2>4. out \in Seq(Pieces) /\ From(st, e, out) /\ e + Len(out) = st[N + 1] /\ Len(out) \in Nat
    BY <1>1, <2>3 DEF TypeOK, Stream, Unread
  <2>5. e \in Nat
    <3>1. Len(wire) \in Nat
      BY DEF TypeOK
    <3>2. Len(wire) + 1 \in 1..(Len(wire) + 1)
      BY <3>1
    <3> QED
      BY <2>3, <3>2 DEF Stream, Unread
  <2>6. new \in Seq(Pieces) /\ Len(new) = l /\ \A i \in 1..l : Written(new[i])' /\ new[i].n = i
                                                              /\ new[i].of = N + 1
    <3>1. N + 1 \in Ids /\ N + 1 \in 1..(N + 1)
      BY <1>1, <1>2, ReaderAssumption DEF Ids
    <3>2. new \in [1..l -> Pieces]
      BY <1>2, <3>1 DEF Pieces
    <3>3. new \in Seq(Pieces) /\ Len(new) = l
      BY <1>2, <3>2, IsSequence
    <3>4. \A i \in 1..l : new[i] = [of |-> N + 1, n |-> i] /\ new[i] \in Pieces
      BY <3>2
    <3> QED
      BY <1>2, <1>3, <3>1, <3>3, <3>4 DEF Written
  <2> HIDE DEF new
  <2>7. /\ Len(out') = Len(out) + l
        /\ \A i \in 1..Len(out) : out'[i] = out[i]
        /\ \A i \in 1..l : out'[Len(out) + i] = new[i]
    <3>1. /\ Len(out \o new) = Len(out) + Len(new)
          /\ \A i \in 1..Len(out) : (out \o new)[i] = out[i]
          /\ \A i \in 1..Len(new) : (out \o new)[Len(out) + i] = new[i]
      <4>1. out \in Seq(Pieces) /\ new \in Seq(Pieces)
        BY <2>4, <2>6
      <4> QED
        BY ONLY <4>1, JoinParts
    <3>2. out' = out \o new /\ Len(new) = l
      BY <1>2, <2>6 DEF new
    <3> QED
      BY <3>1, <3>2
  <2>11. From(s, e, out)'
    <3>0. PICK o : o = out'
      OBVIOUS
    <3>1. \A i \in 1..Len(out) : Written(o[i])' /\ Position(s, o[i]) = e + i
      <4>1. \A i \in 1..Len(out) : Written(out[i]) /\ Position(st, out[i]) = e + i
        BY <2>4 DEF From
      <4>2. \A i \in 1..Len(out) : o[i] = out[i]
        BY <2>7, <3>0
      <4> QED
        BY <1>7, <4>1, <4>2
    <3>2. ASSUME NEW j \in 1..l
          PROVE  Position(s, new[j]) = e + (Len(out) + j)
      <4>1. N + 1 \in 1..(N + 1) /\ j \in Nat
        BY <1>1, <1>2
      <4>2. Position(s, new[j]) = st[N + 1] + j
        BY <1>5, <2>6, <4>1 DEF Position
      <4>3. (e + Len(out)) + j = e + (Len(out) + j)
        BY <2>4, <2>5, <4>1
      <4> QED
        BY <2>4, <4>2, <4>3
    <3>3. ASSUME NEW i \in 1..Len(out')
          PROVE  i \in 1..Len(out) \/ \E j \in 1..l : i = Len(out) + j
      <4>1. ASSUME NEW w \in Nat, NEW t \in Nat, NEW h \in 1..(w + t)
            PROVE  h \in 1..w \/ \E j \in 1..t : h = w + j
        <5>1. h > w => h - w \in 1..t /\ h = w + (h - w)
          OBVIOUS
        <5> QED
          BY <5>1
      <4>2. PICK w \in Nat, t \in Nat : w = Len(out) /\ t = l /\ Len(out') = w + t
        BY <1>2, <2>4, <2>7
      <4>3. i \in 1..(w + t)
        BY <4>2
      <4>4. i \in 1..w \/ \E j \in 1..t : i = w + j
        BY <4>1, <4>3
      <4> QED
        BY <4>2, <4>4
    <3>4. ASSUME NEW i \in 1..Len(o)
          PROVE  Written(o[i])' /\ Position(s, o[i]) = e + i
      <4>1. CASE i \in 1..Len(out)
        BY <3>1, <4>1
      <4>2. CASE \E j \in 1..l : i = Len(out) + j
        <5>1. PICK j \in 1..l : i = Len(out) + j
          BY <4>2
        <5>2. o[i] = new[j]
          BY <2>7, <3>0, <5>1
        <5> QED
          BY <2>6, <3>2, <5>1, <5>2
      <4> QED
        BY <3>0, <3>3, <4>1, <4>2
    <3>5. From(s, e, o)'
      BY <3>4 DEF From, Position
    <3> QED
      BY <3>0, <3>5
  <2>9. From(s, cut[Len(wire) + 1], out)'
    BY <1>2, <2>3, <2>11
  <2>10. e + Len(out') = s[Len(sent') + 1]
    <3>1. (e + Len(out)) + l = e + (Len(out) + l) /\ (N + 1) + 1 = N + 2
      BY <1>1, <1>2, <2>4, <2>5
    <3> QED
      BY <1>3, <1>5, <2>4, <2>7, <3>1
  <2> QED
    BY <1>2, <2>1, <2>2, <2>3, <2>9, <2>10 DEF Stream, Unread
<1>10. \A p, kind : Begins(st, a, p, kind) => Begins(s, a, p, kind)'
  BY <1>7 DEF Begins
<1>11. Taken(s, a)'
  <2>1. \A i \in 1..Len(taken) : \E kind \in Kinds : Begins(s, a, taken[i][1], kind)'
    BY <1>2, <1>10 DEF Stream, Taken
  <2>2. \A i \in 1..Len(taken) : sent'[taken[i][1].of] = sent[taken[i][1].of]
    BY <1>7 DEF Stream, Taken, Begins
  <2>3. \A i \in 1..Len(taken) : Message(taken[i][1].of)' = Message(taken[i][1].of)
    BY <1>2, <2>2 DEF Message
  <2>4. /\ taken' = taken
        /\ \A i \in 1..Len(taken) :
             /\ taken[i] # <<>>
             /\ sent[taken[i][1].of].kind = "response" => taken[i] = Message(taken[i][1].of)
             /\ \A j \in 1..(i - 1) : taken[j][1].of < taken[i][1].of
    BY <1>2 DEF Stream, Taken
  <2> QED
    BY <2>1, <2>2, <2>3, <2>4 DEF Taken
<1>12. Responding(s, a)'
  <2>1. rd # <<>> => Written(rd[1])
    <3>1. rd # <<>> => 1 \in 1..Len(rd)
      BY DEF TypeOK
    <3> QED
      BY <3>1 DEF Stream, Unread, From
  <2>2. \A m \in 1..N : sent'[m] = sent[m] /\ s[m] = st[m] /\ m \in 1..(N + 1)
    BY <1>1, <1>3, <1>5
  <2>3. message = <<>> /\ place = "response" =>
          rd # <<>> /\ rd[1].n = 1 /\ sent'[rd[1].of].kind = "response"
    BY <1>7, <2>1 DEF Stream, Responding
  <2> QED
    BY <1>1, <1>2, <1>3, <2>2, <2>3 DEF Stream, Responding, TakenBefore
<1>13. Receiving(s, a)'
  BY <1>2, <1>7, <1>10 DEF Stream, Receiving, TakenBefore, Begins
<1> QED
  BY <1>1, <1>5, <1>6, <1>9, <1>11, <1>12, <1>13 DEF Stream

\* Sealing moves a run from out to the end of wire.
LEMMA SealStream ==
  ASSUME TypeOK, NEW st, NEW a, NEW cut, Stream(st, a, cut), Seal
  PROVE  \E c : Stream(st, a, c)'
<1>0. PICK W \in Nat : W = Len(wire)
  BY DEF TypeOK
<1>1. PICK e : W = Len(wire) /\ e = cut[W + 1]
  BY <1>0
<1>2. PICK n \in 1..Len(out) :
        wire' = Append(wire, SubSeq(out, 1, n)) /\ out' = SubSeq(out, n + 1, Len(out))
  BY DEF Seal
<1> DEFINE c == [i \in 1..(W + 2) |-> IF i = W + 2 THEN e + n ELSE cut[i]]
<1>3. /\ UNCHANGED <<sent, chunk, rd, rb, place, message, fresh, taken>>
      /\ out \in Seq(Pieces) /\ wire \in Seq(Seq(Pieces)) /\ Len(out) \in Nat /\ n \in Nat
  BY DEF Seal, loopVars, TypeOK
<1>4. /\ cut \in [1..(W + 1) -> Nat] /\ e \in Nat /\ From(st, e, out)
      /\ e + Len(out) = st[Len(sent) + 1]
  <2>1. W + 1 \in 1..(W + 1)
    BY <1>1
  <2> QED
    BY <1>1, <2>1 DEF Stream, Unread
<1>5. Prefix(out, n) = SubSeq(out, 1, n) /\ Beyond(out, n) = out' /\ Len(Prefix(out, n)) = n
  <2>1. Least(n, Len(out)) = n
    BY <1>3 DEF Least
  <2>2. Len(Prefix(out, n)) = Least(n, Len(out))
    BY <1>3, PrefixParts
  <2> QED
    BY <1>2, <2>1, <2>2 DEF Prefix, Beyond
<1>6. /\ From(st, e, Prefix(out, n)) /\ From(st, e + n, out') /\ Len(out') = Len(out) - n
      /\ Prefix(out, n) \in Seq(Pieces) /\ Prefix(out, n) # <<>>
  <2>1. From(st, e, Prefix(out, n)) /\ From(st, e + Len(Prefix(out, n)), Beyond(out, n))
    BY <1>3, <1>4, FromParts
  <2>2. Prefix(out, n) \in Seq(Pieces)
    BY <1>3, PrefixParts
  <2>3. Len(Beyond(out, n)) = Len(out) - Len(Prefix(out, n))
    BY <1>3, BeyondPrefix
  <2>4. Prefix(out, n) # <<>>
    BY <1>3, <1>5
  <2> QED
    BY <1>5, <2>1, <2>2, <2>3, <2>4
<1>7. /\ c \in [1..(W + 2) -> Nat] /\ c[W + 2] = e + n /\ c[W + 1] = e
      /\ \A i \in 1..(W + 1) : c[i] = cut[i]
  <2>1. e + n \in Nat /\ W + 2 \in 1..(W + 2) /\ W + 1 \in 1..(W + 1)
    BY <1>1, <1>3, <1>4
  <2>2. \A i \in 1..(W + 2) : i # W + 2 => i \in 1..(W + 1)
    BY <1>1
  <2>3. \A i \in 1..(W + 1) : i # W + 2 /\ i \in 1..(W + 2)
    BY <1>1
  <2> QED
    BY <1>1, <1>4, <2>1, <2>2, <2>3
<1> HIDE DEF c
<1>8. /\ Len(wire') = W + 1 /\ \A i \in 1..W : wire'[i] = wire[i]
      /\ wire'[W + 1] = Prefix(out, n)
  BY <1>1, <1>2, <1>3, <1>5, <1>6, AppendParts
<1>9. \A i \in 1..(W + 1) :
        /\ wire'[i] # <<>> /\ From(st, c[i], wire'[i]) /\ c[i + 1] = c[i] + Len(wire'[i])
  <2> SUFFICES ASSUME NEW i \in 1..(W + 1)
               PROVE  wire'[i] # <<>> /\ From(st, c[i], wire'[i]) /\ c[i + 1] = c[i] + Len(wire'[i])
    OBVIOUS
  <2>1. CASE i = W + 1
    <3>1. i + 1 = W + 2
      BY <1>1, <2>1
    <3> QED
      BY <1>5, <1>6, <1>7, <1>8, <2>1, <3>1
  <2>2. CASE i # W + 1
    <3>1. i \in 1..W /\ i + 1 \in 1..(W + 1)
      BY <1>1, <2>2
    <3> QED
      BY <1>1, <1>7, <1>8, <3>1 DEF Stream, Unread
  <2> QED
    BY <2>1, <2>2
<1>10. Unread(st, a, c)'
  <2>1. From(st, a, rd)' /\ From(st, a + Len(rd), chunk)'
    BY <1>3 DEF Stream, Unread, From, Written
  <2>2. (\A i \in 1..Len(wire) : From(st, c[i], wire[i]))' /\ From(st, c[W + 2], out)'
    BY <1>3, <1>6, <1>7, <1>8, <1>9 DEF From, Written
  <2>3. c[1] = a + Len(rd) + Len(chunk)
    <3>1. 1 \in 1..(W + 1)
      BY <1>1
    <3> QED
      BY <1>7, <3>1 DEF Stream, Unread
  <2>4. (W + 1) + 1 = W + 2 /\ (e + n) + (Len(out) - n) = e + Len(out)
    BY <1>1, <1>3, <1>4
  <2>5. c[W + 2] + Len(out') = st[Len(sent') + 1]
    BY <1>3, <1>4, <1>6, <1>7, <2>4
  <2>6. a \in Nat
    BY DEF Stream, Unread
  <2> QED
    BY <1>3, <1>7, <1>8, <1>9, <2>1, <2>2, <2>3, <2>4, <2>5, <2>6 DEF Unread
<1>11. Offsets(st)' /\ Taken(st, a)' /\ Responding(st, a)' /\ Receiving(st, a)'
  <2>1. Offsets(st)' /\ Taken(st, a)'
    BY <1>3, SameTaken DEF Stream, Offsets
  <2>2. Responding(st, a)'
    BY <1>3 DEF Stream, Responding, TakenBefore
  <2>3. Receiving(st, a)'
    BY <1>3 DEF Stream, Receiving, TakenBefore, Begins, Written
  <2> QED
    BY <2>1, <2>2, <2>3
<1> QED
  BY <1>10, <1>11 DEF Stream

\* What Fill does when there is room for so many pieces.
FillTo(room) ==
  /\ chunk # <<>> \/ wire # <<>>
  /\ Size <= room
  /\ LET c == IF chunk # <<>> THEN chunk ELSE Head(wire) IN
       rd' = Prefix(c, room) /\ chunk' = Beyond(c, room)
  /\ wire' = IF chunk # <<>> THEN wire ELSE Tail(wire)

LEMMA FillIs ==
  ASSUME TypeOK, NEW st, NEW a, Responding(st, a), Fill
  PROVE  \E room \in Nat : FillTo(room)
<1>1. PICK room \in Rooms :
        LET c == IF chunk # <<>> THEN chunk ELSE Head(wire) IN
          rd' = Prefix(c, room) /\ chunk' = Beyond(c, room)
  BY DEF Fill
<1>2. room \in Nat /\ Size <= room
  BY RoomOf
<1>3. FillTo(room)
  BY <1>1, <1>2 DEF Fill, FillTo
<1> QED
  BY <1>2, <1>3

\* Filling moves the beginning of a chunk to rd.
LEMMA FillStream ==
  ASSUME TypeOK, NEW st, NEW a, NEW cut, Stream(st, a, cut), Fill
  PROVE  \E c : Stream(st, a, c)'
<1>0. PICK room \in Nat : FillTo(room)
  BY FillIs DEF Stream
<1>1. /\ UNCHANGED <<sent, out, rb, place, message, fresh, taken>> /\ rd = <<>> /\ Len(rd) = 0
      /\ a \in Nat /\ chunk \in Seq(Pieces) /\ wire \in Seq(Seq(Pieces))
  <2>1. /\ UNCHANGED <<sent, out, rb, place, message, fresh, taken>> /\ rd = <<>> /\ Len(rd) = 0
        /\ a \in Nat
    BY DEF Fill, Wanting, Stream, Unread
  <2>2. chunk \in Seq(Pieces) /\ wire \in Seq(Seq(Pieces))
    BY DEF TypeOK
  <2> QED
    BY <2>1, <2>2
<1>2. Offsets(st)' /\ Taken(st, a)' /\ Receiving(st, a)'
  <2>1. UNCHANGED <<sent, place, message, taken>>
    BY <1>1
  <2>2. Offsets(st)' /\ Taken(st, a)'
    BY <2>1, SameTaken DEF Stream, Offsets
  <2>3. Receiving(st, a)'
    BY <2>1 DEF Stream, Receiving, TakenBefore, Begins, Written
  <2> QED
    BY <2>2, <2>3
<1>3. Responding(st, a)'
  BY <1>1 DEF Stream, Responding, TakenBefore
<1>4. ASSUME NEW s \in Seq(Pieces), From(st, a, s), rd' = Prefix(s, room), chunk' = Beyond(s, room)
      PROVE  /\ From(st, a, rd)' /\ From(st, a + Len(rd), chunk)'
             /\ a + Len(rd') + Len(chunk') = a + Len(s)
  <2>1. /\ From(st, a, Prefix(s, room)) /\ From(st, a + Len(Prefix(s, room)), Beyond(s, room))
        /\ Len(Beyond(s, room)) = Len(s) - Len(Prefix(s, room))
        /\ Prefix(s, room) \in Seq(Pieces)
    BY <1>1, <1>4, FromParts, BeyondPrefix, PrefixParts
  <2>2. Len(s) \in Nat /\ Len(rd') \in Nat
    BY <1>4, <2>1
  <2>3. a + Len(rd') + Len(chunk') = a + Len(s)
    BY <1>1, <1>4, <2>1, <2>2
  <2>4. From(st, a, rd') /\ From(st, a + Len(rd'), chunk')
    BY <1>4, <2>1
  <2> QED
    BY <1>1, <2>3, <2>4 DEF From, Written
<1>5. CASE chunk # <<>>
  <2>1. rd' = Prefix(chunk, room) /\ chunk' = Beyond(chunk, room) /\ wire' = wire
    BY <1>0, <1>5 DEF FillTo
  <2>2. a + 0 = a /\ a + 0 + Len(chunk) = a + Len(chunk)
    BY <1>1
  <2>3. From(st, a, chunk) /\ cut[1] = a + Len(chunk)
    BY <1>1, <2>2 DEF Stream, Unread
  <2>4. /\ From(st, a, rd)' /\ From(st, a + Len(rd), chunk)'
        /\ cut[1] = a + Len(rd') + Len(chunk')
    BY <1>1, <1>4, <2>1, <2>3
  <2>5. (\A i \in 1..Len(wire) : From(st, cut[i], wire[i]))' /\ From(st, cut[Len(wire) + 1], out)'
    <3>1. \A x, u : From(st, x, u) => From(st, x, u)'
      BY <1>1 DEF From, Written
    <3> QED
      BY <1>1, <2>1, <3>1 DEF Stream, Unread
  <2>6. Unread(st, a, cut)'
    BY <1>1, <2>1, <2>4, <2>5 DEF Stream, Unread
  <2> QED
    BY <1>2, <1>3, <2>6 DEF Stream
<1>6. CASE chunk = <<>>
  <2>1. /\ wire # <<>> /\ rd' = Prefix(Head(wire), room) /\ chunk' = Beyond(Head(wire), room)
        /\ wire' = Tail(wire)
    BY <1>0, <1>6 DEF FillTo
  <2>2. PICK W \in Nat : W + 1 = Len(wire)
    <3>1. Len(wire) \in Nat \ {0}
      BY <1>1, <2>1
    <3>2. Len(wire) - 1 \in Nat /\ (Len(wire) - 1) + 1 = Len(wire)
      BY <3>1
    <3> QED
      BY <3>2
  <2>3. /\ Len(wire') = W /\ Head(wire) = wire[1] /\ wire[1] \in Seq(Pieces)
        /\ \A i \in 1..W : wire'[i] = wire[1 + i]
    <3>1. Len(wire') = Len(wire) - 1 /\ (W + 1) - 1 = W
      BY <1>1, <2>1, <2>2, TailParts
    <3> QED
      BY <1>1, <2>1, <2>2, <3>1, TailParts
  <2> DEFINE c == [i \in 1..(W + 1) |-> cut[i + 1]]
  <2>4. cut \in [1..(W + 2) -> Nat] /\ \A i \in 1..(W + 1) : i + 1 \in 1..(W + 2)
    <3>1. (W + 1) + 1 = W + 2 /\ \A i \in 1..(W + 1) : i + 1 \in 1..(W + 2)
      BY <2>2
    <3>2. cut \in [1..((W + 1) + 1) -> Nat]
      BY <2>2 DEF Stream, Unread
    <3> QED
      BY <3>1, <3>2
  <2>5. c \in [1..(W + 1) -> Nat] /\ \A i \in 1..(W + 1) : c[i] = cut[i + 1]
    BY <2>4
  <2> HIDE DEF c
  <2>6. /\ cut[1] = a /\ From(st, a, wire[1]) /\ cut[2] = a + Len(wire[1])
    <3>1. Len(chunk) = 0 /\ a + 0 + 0 = a /\ 1 \in 1..Len(wire) /\ 1 + 1 = 2
      BY <1>1, <1>6, <2>2
    <3> QED
      BY <1>1, <3>1 DEF Stream, Unread
  <2>7. /\ From(st, a, rd)' /\ From(st, a + Len(rd), chunk)'
        /\ c[1] = a + Len(rd') + Len(chunk')
    <3>1. c[1] = cut[2]
      <4>1. 1 \in 1..(W + 1) /\ 1 + 1 = 2
        BY <2>2
      <4> QED
        BY <2>5, <4>1
    <3> QED
      BY <1>4, <2>1, <2>3, <2>6, <3>1
  <2>8. \A i \in 1..W :
          /\ wire'[i] # <<>> /\ From(st, c[i], wire'[i]) /\ c[i + 1] = c[i] + Len(wire'[i])
    <3> SUFFICES ASSUME NEW i \in 1..W
                 PROVE  /\ wire'[i] # <<>> /\ From(st, c[i], wire'[i])
                        /\ c[i + 1] = c[i] + Len(wire'[i])
      OBVIOUS
    <3>1. i \in 1..(W + 1) /\ i + 1 \in 1..(W + 1) /\ i + 1 = 1 + i
      BY <2>2
    <3>2. c[i] = cut[i + 1] /\ c[i + 1] = cut[(i + 1) + 1] /\ wire'[i] = wire[i + 1]
      BY <2>3, <2>5, <3>1
    <3>3. i + 1 \in 1..Len(wire)
      BY <2>2, <3>1
    <3> QED
      BY <3>2, <3>3 DEF Stream, Unread
  <2>9. From(st, c[W + 1], out) /\ c[W + 1] + Len(out) = st[Len(sent) + 1]
    <3>1. c[W + 1] = cut[Len(wire) + 1]
      <4>1. W + 1 \in 1..(W + 1)
        BY <2>2
      <4> QED
        BY <2>2, <2>5, <4>1
    <3> QED
      BY <3>1 DEF Stream, Unread
  <2>10. (\A i \in 1..Len(wire) : From(st, c[i], wire[i]))' /\ From(st, c[W + 1], out)'
    <3>1. \A x, u : From(st, x, u) => From(st, x, u)'
      BY <1>1 DEF From, Written
    <3>2. PICK w : w = wire'
      OBVIOUS
    <3>3. Len(w) = W /\ \A i \in 1..W : From(st, c[i], w[i])'
      BY <2>3, <2>8, <3>1, <3>2
    <3>4. From(st, c[W + 1], out)'
      BY <1>1, <2>9, <3>1
    <3> QED
      BY <3>2, <3>3, <3>4
  <2>11. Unread(st, a, c)'
    BY <1>1, <2>3, <2>5, <2>7, <2>8, <2>9, <2>10 DEF Unread
  <2> QED
    BY <1>2, <1>3, <2>11 DEF Stream
<1> QED
  BY <1>5, <1>6

\* What is read next begins after what was handed over.
LEMMA BeforeNext ==
  ASSUME TypeOK, NEW st, NEW a \in Nat, Offsets(st), Taken(st, a),
         NEW p, Written(p), p.n = 1, Position(st, p) = a + 1
  PROVE  TakenBefore(p.of)
<1> SUFFICES ASSUME NEW i \in 1..Len(taken) PROVE taken[i][1].of < p.of
  BY DEF TakenBefore
<1>1. PICK kind \in Kinds : Begins(st, a, taken[i][1], kind)
  BY DEF Taken
<1>2. PICK q : q = taken[i][1]
  OBVIOUS
<1>3. Written(q) /\ q.n = 1 /\ Position(st, q) <= a
  BY <1>1, <1>2 DEF Begins
<1>4. Position(st, q) \in Nat
  BY <1>3, OnePosition
<1>5. Position(st, q) < Position(st, p)
  BY <1>3, <1>4
<1>6. q.of < p.of
  BY <1>3, <1>5, OnePosition
<1> QED
  BY <1>2, <1>6

\* A message that is handed over is the last one.
LEMMA TakenAppend ==
  ASSUME TypeOK, NEW st, NEW a \in Nat, NEW b \in Nat, a <= b, Offsets(st), Taken(st, a),
         NEW x \in Seq(AnyPiece), x # <<>>, NEW kind \in Kinds, Begins(st, b, x[1], kind),
         kind = "response" => x = Message(x[1].of), TakenBefore(x[1].of),
         taken' = Append(taken, x), sent' = sent
  PROVE  Taken(st, b)'
<1>1. PICK T \in Nat : T = Len(taken)
  BY DEF TypeOK
<1>2. /\ Len(taken') = T + 1 /\ taken'[T + 1] = x /\ \A i \in 1..T : taken'[i] = taken[i]
  <2>1. taken \in Seq(Seq(AnyPiece))
    BY DEF TypeOK
  <2> QED
    BY <1>1, <2>1, AppendParts
<1>3. \A p : \A c \in Kinds : Begins(st, a, p, c) => Begins(st, b, p, c)'
  <2> SUFFICES ASSUME NEW p, NEW c \in Kinds, Begins(st, a, p, c) PROVE Begins(st, b, p, c)'
    OBVIOUS
  <2>1. Written(p) /\ Position(st, p) <= a
    BY DEF Begins
  <2>2. Position(st, p) \in Nat
    BY <2>1, OnePosition
  <2>3. Position(st, p) <= b
    BY <2>1, <2>2
  <2> QED
    BY <2>3 DEF Begins, Written
<1>4. Begins(st, b, x[1], kind)'
  BY DEF Begins, Written
<1>5. \A i \in 1..(T + 1) : i \in 1..T \/ i = T + 1
  BY <1>1
<1>6. ASSUME NEW i \in 1..T
      PROVE  /\ taken[i] # <<>> /\ \E c \in Kinds : Begins(st, b, taken[i][1], c)'
             /\ sent[taken[i][1].of].kind = "response" => taken[i] = Message(taken[i][1].of)
             /\ \A j \in 1..(i - 1) : taken[j][1].of < taken[i][1].of
  <2>1. PICK y : y = taken[i] /\ y = taken'[i]
    BY <1>2
  <2>2. PICK c \in Kinds : Begins(st, a, y[1], c)
    BY <1>1, <2>1 DEF Taken
  <2>3. Begins(st, b, y[1], c)'
    BY <1>3, <2>2
  <2> QED
    BY <1>1, <2>1, <2>3 DEF Taken
<1>7. \A j \in 1..T : taken[j][1].of < x[1].of
  BY <1>1 DEF TakenBefore
<1>8. sent[x[1].of].kind = "response" => x = Message(x[1].of)
  BY DEF Begins
<1>9. \A m : Message(m)' = Message(m)
  BY DEF Message
<1>10. ASSUME NEW i \in 1..(T + 1)
       PROVE  /\ taken'[i] # <<>> /\ \E c \in Kinds : Begins(st, b, taken[i][1], c)'
              /\ sent'[taken'[i][1].of].kind = "response" => taken'[i] = Message(taken'[i][1].of)
              /\ \A j \in 1..(i - 1) : taken'[j][1].of < taken'[i][1].of
  <2>1. CASE i \in 1..T
    <3>1. \A j \in 1..(i - 1) : j \in 1..T
      BY <1>1, <2>1
    <3> QED
      BY <1>2, <1>6, <2>1, <3>1
  <2>2. CASE i = T + 1
    <3>1. \A j \in 1..(i - 1) : j \in 1..T
      BY <1>1, <2>2
    <3> QED
      BY <1>2, <1>4, <1>7, <1>8, <2>2, <3>1
  <2> QED
    BY <1>5, <2>1, <2>2
<1> QED
  BY <1>2, <1>9, <1>10 DEF Taken

\* The piece that the loop is at.
LEMMA FirstOfRd ==
  ASSUME TypeOK, NEW st, NEW a, NEW cut, Stream(st, a, cut), rd # <<>>
  PROVE  /\ a \in Nat /\ a + 1 \in Nat /\ a <= a + 1 /\ Head(rd) = rd[1] /\ rd[1] \in AnyPiece
         /\ Written(rd[1]) /\ Position(st, rd[1]) = a + 1
         /\ rd[1].n = 1 => TakenBefore(rd[1].of)
         /\ Tail(rd) = Beyond(rd, 1) /\ Len(Prefix(rd, 1)) = 1
<1>1. rd \in Seq(Pieces) /\ a \in Nat
  BY DEF TypeOK, Stream, Unread
<1>2. Len(rd) \in Nat \ {0} /\ Head(rd) = rd[1] /\ rd[1] \in Pieces
  BY <1>1, TailParts
<1>3. Written(rd[1]) /\ Position(st, rd[1]) = a + 1
  BY <1>2 DEF Stream, Unread, From
<1>4. rd[1].n = 1 => TakenBefore(rd[1].of)
  BY <1>1, <1>3, BeforeNext DEF Stream
<1> QED
  BY <1>1, <1>2, <1>3, <1>4, TailBeyond DEF AnyPiece

LEMMA PeekEventStream ==
  ASSUME TypeOK, NEW st, NEW a, NEW cut, Stream(st, a, cut), PeekEvent
  PROVE  Stream(st, a + 1, cut)'
<1>1. /\ rd # <<>> /\ Head(rd).n = 1 /\ sent[Head(rd).of].kind = "event"
      /\ place' = "event" /\ message' = <<Head(rd)>> /\ rd' = Tail(rd)
      /\ UNCHANGED <<sent, out, wire, chunk, taken>>
  BY DEF PeekEvent, IsEvent, accessoryVars
<1>2. /\ a \in Nat /\ a + 1 \in Nat /\ a <= a + 1 /\ Head(rd) = rd[1] /\ Written(rd[1])
      /\ Position(st, rd[1]) = a + 1 /\ TakenBefore(rd[1].of)
      /\ Tail(rd) = Beyond(rd, 1) /\ Len(Prefix(rd, 1)) = 1
  BY <1>1, FirstOfRd
<1>3. Unread(st, a + 1, cut)'
  BY <1>1, <1>2, Advance DEF Stream
<1>4. Taken(st, a + 1)'
  BY <1>1, <1>2, TakenLater DEF Stream
<1>5. Offsets(st)'
  BY <1>1 DEF Stream, Offsets
<1>6. Responding(st, a + 1)'
  BY <1>1 DEF Responding
<1>7. Receiving(st, a + 1)'
  <2>1. PICK p : p = rd[1]
    OBVIOUS
  <2>2. /\ Written(p) /\ p.n = 1 /\ Position(st, p) = a + 1 /\ TakenBefore(p.of)
        /\ message' = <<p>> /\ sent[p.of].kind = "event"
    BY <1>1, <1>2, <2>1
  <2>3. message' # <<>> /\ message'[1] = p /\ Len(message') = 1
    BY <2>2
  <2>4. 1 < sent[p.of].length
    <3>1. p.of \in 1..Len(sent)
      BY <2>2 DEF Written
    <3>2. sent[p.of].length \in Nat \ {0, 1}
      BY <3>1, SentMessage
    <3> QED
      BY <3>2
  <2>5. Begins(st, a + 1, p, "event")'
    BY <1>1, <1>2, <2>2 DEF Begins, Written
  <2>6. TakenBefore(p.of)'
    BY <1>1, <2>2 DEF TakenBefore
  <2> QED
    BY <1>1, <2>3, <2>4, <2>5, <2>6 DEF Receiving
<1> QED
  BY <1>3, <1>4, <1>5, <1>6, <1>7 DEF Stream

LEMMA PeekResponseStream ==
  ASSUME TypeOK, NEW st, NEW a, NEW cut, Stream(st, a, cut), PeekResponse
  PROVE  Stream(st, a, cut)'
<1>1. /\ rd # <<>> /\ Head(rd).n = 1 /\ sent[Head(rd).of].kind # "event"
      /\ place' = "response" /\ message' = <<>>
      /\ UNCHANGED <<sent, out, wire, chunk, rd, taken>>
  BY DEF PeekResponse, FirstLine, IsEvent, accessoryVars
<1>2. Head(rd) = rd[1] /\ rd[1].of \in 1..Len(sent)
  BY <1>1, FirstOfRd DEF Written
<1>3. sent[rd[1].of].kind = "response"
  BY <1>1, <1>2, SentMessage DEF Kinds
<1>4. Responding(st, a)'
  BY <1>1, <1>2, <1>3 DEF Responding
<1>5. Offsets(st)' /\ Unread(st, a, cut)' /\ Taken(st, a)'
  <2>1. Offsets(st)' /\ Unread(st, a, cut)'
    BY <1>1, SameUnread
  <2>2. Taken(st, a)'
    BY <1>1, SameTaken DEF Stream
  <2> QED
    BY <2>1, <2>2
<1>6. Receiving(st, a)'
  BY <1>1 DEF Receiving
<1> QED
  BY <1>4, <1>5, <1>6 DEF Stream

LEMMA PeekOtherStream ==
  ASSUME TypeOK, NEW st, NEW a, NEW cut, Stream(st, a, cut), PeekOther
  PROVE  Stream(st, a + 1, cut)'
<1>1. /\ rd # <<>> /\ rd' = Tail(rd) /\ place' \in {"peek", "line"}
      /\ UNCHANGED <<sent, out, wire, chunk, taken>>
  BY DEF PeekOther, accessoryVars
<1>2. /\ a \in Nat /\ a + 1 \in Nat /\ a <= a + 1
      /\ Tail(rd) = Beyond(rd, 1) /\ Len(Prefix(rd, 1)) = 1
  BY <1>1, FirstOfRd
<1>3. Unread(st, a + 1, cut)'
  BY <1>1, <1>2, Advance DEF Stream
<1>4. Taken(st, a + 1)'
  BY <1>1, <1>2, TakenLater DEF Stream
<1>5. Offsets(st)'
  BY <1>1 DEF Stream, Offsets
<1>6. Responding(st, a + 1)' /\ Receiving(st, a + 1)'
  BY <1>1 DEF Responding, Receiving
<1> QED
  BY <1>3, <1>4, <1>5, <1>6 DEF Stream

\* The event goes on as it began.
LEMMA ReceivingLater ==
  ASSUME TypeOK, NEW st, NEW a \in Nat, NEW b \in Nat, a <= b, Offsets(st), Receiving(st, a),
         UNCHANGED <<sent, place, message, taken>>
  PROVE  Receiving(st, b)'
<1> SUFFICES ASSUME place = "event" PROVE Receiving(st, b)'
  BY DEF Receiving
<1>1. PICK p : p = message[1]
  OBVIOUS
<1>2. Begins(st, a, p, "event")
  BY <1>1 DEF Receiving
<1>3. Position(st, p) \in Nat
  BY <1>2, OnePosition DEF Begins
<1>4. Begins(st, b, p, "event")'
  BY <1>2, <1>3 DEF Begins, Written
<1> QED
  BY <1>1, <1>4 DEF Receiving, TakenBefore

LEMMA TransformStream ==
  ASSUME TypeOK, NEW st, NEW a, NEW cut, Stream(st, a, cut), Transform
  PROVE  \E b : /\ Stream(st, b, cut)'
                /\ b = a + Len(Prefix(rd, IF fresh THEN Size ELSE Size - 1))
<1>1. \E n \in Nat : rd' = Beyond(rd, n) /\ n = IF fresh THEN Size ELSE Size - 1
  <2>1. Size \in Nat /\ Size - 1 \in Nat
    BY ReaderAssumption
  <2> QED
    BY <2>1 DEF Transform, Transformed
<1>2. place = "event" /\ UNCHANGED <<sent, out, wire, chunk, place, message, taken>>
  BY DEF Transform, Transformed, accessoryVars
<1>3. PICK n \in Nat : rd' = Beyond(rd, n) /\ n = IF fresh THEN Size ELSE Size - 1
  BY <1>1
<1>4. PICK k : k = Len(Prefix(rd, n))
  OBVIOUS
<1>5. a \in Nat
  BY DEF Stream, Unread
<1>6. a + k \in Nat /\ a <= a + k /\ Unread(st, a + k, cut)'
  BY <1>2, <1>3, <1>4, Advance DEF Stream
<1>7. Taken(st, a + k)'
  BY <1>2, <1>5, <1>6, TakenLater DEF Stream
<1>8. Receiving(st, a + k)'
  BY <1>2, <1>5, <1>6, ReceivingLater DEF Stream
<1>9. Offsets(st)' /\ Responding(st, a + k)'
  BY <1>2 DEF Stream, Offsets, Responding
<1> QED
  BY <1>3, <1>4, <1>6, <1>7, <1>8, <1>9 DEF Stream

LEMMA BadHeaderStream ==
  ASSUME TypeOK, NEW st, NEW a, NEW cut, Stream(st, a, cut), BadHeader
  PROVE  Stream(st, a, cut)'
<1>1. place' = "ended" /\ UNCHANGED <<sent, out, wire, chunk, rd, taken>>
  BY DEF BadHeader, accessoryVars
<1>2. Offsets(st)' /\ Unread(st, a, cut)'
  BY <1>1, SameUnread
<1>3. Taken(st, a)'
  BY <1>1, SameTaken DEF Stream
<1>4. Responding(st, a)' /\ Receiving(st, a)'
  BY <1>1 DEF Responding, Receiving
<1> QED
  BY <1>2, <1>3, <1>4 DEF Stream

\* An end of file hands over nothing, or an event.
LEMMA MisledStream ==
  ASSUME TypeOK, NEW st, NEW a, NEW cut, Stream(st, a, cut), Misled
  PROVE  Stream(st, a, cut)'
<1>1. place' \in {"peek", "ended"} /\ UNCHANGED <<sent, out, wire, chunk, rd>>
  BY DEF Misled, accessoryVars
<1>2. Offsets(st)' /\ Unread(st, a, cut)'
  BY <1>1, SameUnread
<1>3. Responding(st, a)' /\ Receiving(st, a)'
  BY <1>1 DEF Responding, Receiving
<1>4. Taken(st, a)'
  <2>1. CASE taken' = taken
    BY <1>1, <2>1, SameTaken DEF Stream
  <2>2. CASE place = "event" /\ taken' = Append(taken, Append(message, Junk))
    <3>1. /\ message \in Seq(AnyPiece) /\ message # <<>> /\ Begins(st, a, message[1], "event")
          /\ TakenBefore(message[1].of) /\ Offsets(st) /\ Taken(st, a) /\ a \in Nat
      BY <2>2 DEF TypeOK, Stream, Receiving, Unread
    <3>2. PICK x : x = Append(message, Junk)
      OBVIOUS
    <3>3. x \in Seq(AnyPiece) /\ x # <<>> /\ x[1] = message[1]
      <4>1. Junk \in AnyPiece
        BY DEF AnyPiece
      <4>2. x \in Seq(AnyPiece) /\ Len(x) = Len(message) + 1
            /\ \A i \in 1..Len(message) : x[i] = message[i]
        BY <3>1, <3>2, <4>1, AppendParts
      <4>3. Len(message) \in Nat \ {0} /\ 1 \in 1..Len(message)
        BY <3>1
      <4> QED
        BY <4>2, <4>3
    <3>4. "event" \in Kinds /\ a <= a
      BY <3>1 DEF Kinds
    <3>5. \A kind : kind = "event" => (kind = "response" => x = Message(x[1].of))
      OBVIOUS
    <3> QED
      BY <1>1, <2>2, <3>1, <3>2, <3>3, <3>4, <3>5, TakenAppend
  <2> QED
    BY <2>1, <2>2 DEF Misled
<1> QED
  BY <1>2, <1>3, <1>4 DEF Stream

\* What Read returns to ReadResponse and ReadAll belongs to the event; the rest
\* of rb is dropped.
LEMMA ReadEventStream ==
  ASSUME TypeOK, NEW st, NEW a, NEW cut, Stream(st, a, cut), ReadEvent
  PROVE  Stream(st, a, cut)'
<1>1. /\ place = "event" /\ message' = message \o Reads(rb)
      /\ UNCHANGED <<sent, out, wire, chunk, rd>>
  BY DEF ReadEvent, EventRead, accessoryVars
<1>2. \/ /\ Len(message') = sent[message[1].of].length /\ place' = "peek"
         /\ taken' = Append(taken, message')
      \/ Len(message') # sent[message[1].of].length /\ UNCHANGED <<place, taken>>
  BY DEF ReadEvent, EventRead
<1>3. /\ message \in Seq(AnyPiece) /\ rb \in Seq(AnyPiece) /\ a \in Nat /\ Offsets(st)
      /\ Receiving(st, a) /\ Taken(st, a)
  BY DEF TypeOK, Stream, Unread
<1>4. /\ message # <<>> /\ Begins(st, a, message[1], "event") /\ TakenBefore(message[1].of)
      /\ message[1].of \in 1..Len(sent)
  BY <1>1, <1>3 DEF Receiving, Begins, Written
<1>5. PICK p : p = message[1]
  OBVIOUS
<1>6. PICK l \in Nat \ {0}, n \in Nat \ {0} :
        l = sent[p.of].length /\ n = l - Len(message) /\ Reads(rb) = Prefix(rb, n)
  <2>1. PICK m \in 1..Len(sent), n \in Nat \ {0} :
          /\ m = (IF message = <<>> THEN Head(rb).of ELSE message[1].of)
          /\ n = sent[m].length - Len(message) /\ Reads(rb) = Prefix(rb, n)
    BY <1>1, <1>3, ReadsPrefix
  <2>2. m = p.of
    BY <1>4, <1>5, <2>1
  <2>3. sent[m].length \in Nat \ {0}
    BY <2>1, SentMessage
  <2> QED
    BY <2>1, <2>2, <2>3
<1>7. PICK x : x = message'
  OBVIOUS
<1>8. x \in Seq(AnyPiece) /\ Len(x) <= l /\ x # <<>> /\ x[1] = p
  <2>1. Prefix(rb, n) \in Seq(AnyPiece) /\ Len(Prefix(rb, n)) <= n
    BY <1>3, PrefixParts
  <2>2. PICK r \in Seq(AnyPiece) : r = Prefix(rb, n) /\ Len(r) <= n
    BY <2>1
  <2>3. x = message \o r
    BY <1>1, <1>6, <1>7, <2>2
  <2>4. x \in Seq(AnyPiece) /\ Len(x) = Len(message) + Len(r)
        /\ \A i \in 1..Len(message) : x[i] = message[i]
    BY <1>3, <2>3, JoinParts
  <2>5. Len(message) \in Nat \ {0} /\ 1 \in 1..Len(message)
    BY <1>3, <1>4
  <2>6. Len(r) \in Nat
    BY <2>2
  <2> QED
    BY <1>5, <1>6, <2>2, <2>4, <2>5, <2>6
<1>9. Offsets(st)' /\ Unread(st, a, cut)'
  BY <1>1, SameUnread
<1>10. CASE Len(x) = l
  <2>1. place' = "peek" /\ taken' = Append(taken, x)
    BY <1>2, <1>5, <1>6, <1>7, <1>10
  <2>2. "event" \in Kinds /\ a <= a
    BY <1>3 DEF Kinds
  <2>3. Begins(st, a, x[1], "event") /\ TakenBefore(x[1].of)
    BY <1>4, <1>5, <1>8
  <2>4. \A kind : kind = "event" => (kind = "response" => x = Message(x[1].of))
    OBVIOUS
  <2>5. Taken(st, a)'
    BY <1>1, <1>3, <1>8, <2>1, <2>2, <2>3, <2>4, TakenAppend
  <2>6. Responding(st, a)' /\ Receiving(st, a)'
    BY <2>1 DEF Responding, Receiving
  <2> QED
    BY <1>9, <2>5, <2>6 DEF Stream
<1>11. CASE Len(x) # l
  <2>1. UNCHANGED <<place, taken>>
    BY <1>2, <1>5, <1>6, <1>7, <1>11
  <2>2. Taken(st, a)' /\ Responding(st, a)'
    <3>1. Taken(st, a)'
      BY <1>1, <1>3, <2>1, TakenLater
    <3>2. Responding(st, a)'
      BY <1>1, <2>1 DEF Responding
    <3> QED
      BY <3>1, <3>2
  <2>3. Len(x) < l
    BY <1>6, <1>8, <1>11
  <2>4. Begins(st, a, p, "event")'
    BY <1>1, <1>4, <1>5 DEF Begins, Written
  <2>5. TakenBefore(p.of)'
    BY <1>4, <1>5, <2>1 DEF TakenBefore
  <2>6. Receiving(st, a)'
    BY <1>1, <1>6, <1>7, <1>8, <2>3, <2>4, <2>5 DEF Receiving
  <2> QED
    BY <1>9, <2>2, <2>6 DEF Stream
<1> QED
  BY <1>10, <1>11

\* What a response has been read of, whether it is empty or not.
LEMMA RespondingTo ==
  ASSUME TypeOK, NEW st, NEW a, NEW cut, Stream(st, a, cut), place = "response", rd # <<>>
  PROVE  \E m \in 1..Len(sent) :
           /\ m = (IF message = <<>> THEN Head(rd).of ELSE message[1].of)
           /\ sent[m].kind = "response" /\ Len(message) < sent[m].length
           /\ \A i \in 1..Len(message) : message[i] = [of |-> m, n |-> i]
           /\ st[m] + Len(message) = a /\ TakenBefore(m)
<1>1. CASE message # <<>>
  BY <1>1 DEF Stream, Responding
<1>2. CASE message = <<>>
  <2>1. rd[1].n = 1 /\ sent[rd[1].of].kind = "response"
    BY <1>2 DEF Stream, Responding
  <2>2. PICK p : p = rd[1]
    OBVIOUS
  <2>3. /\ Written(p) /\ Position(st, p) = a + 1 /\ TakenBefore(p.of) /\ Head(rd) = p
        /\ a \in Nat /\ p.n = 1
    BY <2>1, <2>2, FirstOfRd
  <2>4. p.of \in 1..Len(sent)
    BY <2>3 DEF Written
  <2>5. sent[p.of].length \in Nat \ {0, 1}
    BY <2>4, SentMessage
  <2>6. Len(message) = 0 /\ \A i \in 1..Len(message) : FALSE
    BY <1>2
  <2>7. st[p.of] \in Nat /\ st[p.of] + 1 = a + 1
    <3>1. Len(sent) \in Nat
      BY DEF TypeOK
    <3>2. p.of \in 1..(Len(sent) + 1)
      BY <2>4, <3>1
    <3> QED
      BY <2>3, <3>2 DEF Stream, Offsets, Position
  <2>8. st[p.of] + 0 = a
    BY <2>3, <2>7
  <2> QED
    BY <1>2, <2>1, <2>2, <2>3, <2>4, <2>5, <2>6, <2>8
<1> QED
  BY <1>1, <1>2

\* What ReadResponse and io.ReadAll take from rd are the next pieces of the
\* response: with the last of them it is whole.
LEMMA ResponseRead ==
  ASSUME TypeOK, NEW st, NEW a, NEW cut, Stream(st, a, cut), ReadResponse
  PROVE  \E m \in 1..Len(sent), k \in Nat \ {0} :
           /\ sent[m].kind = "response" /\ st[m] \in Nat /\ st[m] + Len(message) = a
           /\ TakenBefore(m)
           /\ k = Len(Reads(rd)) /\ k = Len(Prefix(rd, k)) /\ rd' = Beyond(rd, k)
           /\ message' \in Seq(AnyPiece) /\ message' # <<>> /\ message'[1] = [of |-> m, n |-> 1]
           /\ Len(message') = Len(message) + k /\ Len(message') <= sent[m].length
           /\ \A i \in 1..Len(message') : message'[i] = [of |-> m, n |-> i]
           /\ Len(message') = sent[m].length => message' = Message(m)
<1>1. /\ place = "response" /\ rd # <<>> /\ message' = message \o Reads(rd)
      /\ rd' = Beyond(rd, Len(Reads(rd))) /\ UNCHANGED <<sent, out, wire, chunk>>
  BY DEF ReadResponse, ReadResponseTo, accessoryVars
<1>3. /\ message \in Seq(AnyPiece) /\ Len(message) \in Nat /\ rd \in Seq(Pieces)
      /\ Len(rd) \in Nat \ {0} /\ a \in Nat /\ Offsets(st) /\ From(st, a, rd) /\ Taken(st, a)
      /\ Responding(st, a)
  <2>1. message \in Seq(AnyPiece) /\ rd \in Seq(Pieces)
    BY DEF TypeOK
  <2>2. Len(message) \in Nat /\ Len(rd) \in Nat \ {0}
    BY <1>1, <2>1
  <2> QED
    BY <2>1, <2>2 DEF Stream, Unread
<1>4. PICK m \in 1..Len(sent) :
        /\ m = (IF message = <<>> THEN Head(rd).of ELSE message[1].of)
        /\ sent[m].kind = "response" /\ Len(message) < sent[m].length
        /\ \A i \in 1..Len(message) : message[i] = [of |-> m, n |-> i]
        /\ st[m] + Len(message) = a /\ TakenBefore(m)
  BY <1>1, RespondingTo
<1>5. PICK l \in Nat \ {0} : l = sent[m].length
  BY SentMessage
<1>6. PICK n \in Nat \ {0} : n = l - Len(message) /\ Reads(rd) = Prefix(rd, n)
  BY <1>1, <1>3, <1>4, <1>5, ReadsPrefix
<1>7. PICK r \in Seq(Pieces), k \in Nat \ {0} :
        /\ r = Reads(rd) /\ k = Len(r) /\ k <= n /\ k <= Len(rd)
        /\ \A i \in 1..k : r[i] = rd[i] /\ i \in 1..Len(rd)
  <2>1. /\ Prefix(rd, n) \in Seq(Pieces) /\ Len(Prefix(rd, n)) = Least(n, Len(rd))
        /\ Len(Prefix(rd, n)) <= n /\ Len(Prefix(rd, n)) <= Len(rd)
        /\ \A i \in 1..Len(Prefix(rd, n)) : Prefix(rd, n)[i] = rd[i]
    BY <1>3, PrefixParts
  <2>2. \A x, y \in Nat \ {0} : Least(x, y) \in Nat \ {0}
    BY DEF Least
  <2>3. Len(Prefix(rd, n)) \in Nat \ {0}
    BY <1>3, <2>1, <2>2
  <2>4. PICK k \in Nat \ {0} : k = Len(Prefix(rd, n))
    BY <2>3
  <2>5. k <= Len(rd) /\ \A i \in 1..k : i \in 1..Len(rd)
    BY <1>3, <2>1, <2>4
  <2> QED
    BY <1>6, <2>1, <2>4, <2>5
<1>8. st[m] \in Nat
  <2>1. Len(sent) \in Nat
    BY DEF TypeOK
  <2>2. m \in 1..(Len(sent) + 1)
    BY <2>1
  <2> QED
    BY <1>3, <2>2 DEF Offsets
<1>9. ASSUME NEW i \in 1..k
      PROVE  r[i] = [of |-> m, n |-> Len(message) + i]
  <2>1. PICK q : q = [of |-> m, n |-> Len(message) + i]
    OBVIOUS
  <2>2. Written(r[i]) /\ Position(st, r[i]) = a + i
    BY <1>3, <1>7 DEF From
  <2>3. Len(message) + i \in 1..l /\ Len(message) + i \in Nat
        /\ st[m] + (Len(message) + i) = a + i
    <3>1. PICK t \in Nat, e \in Nat : t = Len(message) /\ e = st[m]
      BY <1>3, <1>8
    <3>2. e + t = a /\ t < l /\ n = l - t /\ k <= n
      BY <1>4, <1>5, <1>6, <1>7, <3>1
    <3>3. t + i \in 1..l /\ t + i \in Nat /\ e + (t + i) = a + i
      BY <3>2
    <3> QED
      BY <3>1, <3>3
  <2>4. m \in Ids
    <3>1. Len(sent) <= MaxSent /\ Len(sent) \in Nat
      BY DEF TypeOK
    <3> QED
      BY <3>1, ReaderAssumption DEF Ids
  <2>5. Written(q)
    BY <1>5, <2>1, <2>3, <2>4 DEF Written, Pieces
  <2>6. Position(st, q) = Position(st, r[i])
    BY <2>1, <2>2, <2>3 DEF Position
  <2> QED
    BY <1>3, <2>1, <2>2, <2>5, <2>6, OnePosition
<1>10. PICK x : x = message'
  OBVIOUS
<1>11. /\ x \in Seq(AnyPiece) /\ Len(x) = Len(message) + k /\ Len(x) \in Nat \ {0} /\ Len(x) <= l
       /\ \A i \in 1..Len(x) : x[i] = [of |-> m, n |-> i]
  <2>1. r \in Seq(AnyPiece)
    BY <1>7, AnySequence
  <2>2. x = message \o r
    BY <1>1, <1>7, <1>10
  <2>3. /\ x \in Seq(AnyPiece) /\ Len(x) = Len(message) + Len(r)
        /\ \A i \in 1..Len(x) : x[i] = IF i <= Len(message) THEN message[i] ELSE r[i - Len(message)]
    BY <1>3, <2>1, <2>2, JoinParts
  <2>4. Len(x) = Len(message) + k /\ Len(x) \in Nat \ {0} /\ Len(x) <= l
    BY <1>3, <1>6, <1>7, <2>3
  <2>5. ASSUME NEW i \in 1..Len(x)
        PROVE  x[i] = [of |-> m, n |-> i]
    <3>1. CASE i <= Len(message)
      <4>1. i \in 1..Len(message)
        BY <1>3, <2>4, <3>1
      <4> QED
        BY <1>4, <2>3, <3>1, <4>1
    <3>2. CASE ~(i <= Len(message))
      <4>1. i - Len(message) \in 1..k /\ Len(message) + (i - Len(message)) = i
        BY <1>3, <1>7, <2>4, <3>2
      <4>2. PICK j \in 1..k : j = i - Len(message) /\ Len(message) + j = i
        BY <4>1
      <4>3. x[i] = r[j]
        BY <2>3, <3>2, <4>2
      <4> QED
        BY <1>9, <4>2, <4>3
    <3> QED
      BY <3>1, <3>2
  <2> QED
    BY <2>3, <2>4, <2>5
<1>12. /\ x # <<>> /\ x[1] = [of |-> m, n |-> 1] /\ x[1].of = m
  <2>1. 1 \in 1..Len(x) /\ x # <<>>
    BY <1>11
  <2>2. x[1] = [of |-> m, n |-> 1]
    BY <1>11, <2>1
  <2> QED
    BY <2>1, <2>2
<1>13. k = Len(Prefix(rd, k)) /\ rd' = Beyond(rd, k)
  <2>1. Len(Prefix(rd, k)) = Least(k, Len(rd))
    BY <1>3, PrefixParts
  <2>2. Least(k, Len(rd)) = k
    BY <1>7 DEF Least
  <2> QED
    BY <1>1, <1>7, <2>1, <2>2
<1>14. Len(x) = l => x = Message(m)
  <2>1. Message(m) \in [1..l -> Pieces \cup {[of |-> m, n |-> i] : i \in 1..l}]
    BY <1>5 DEF Message
  <2>2. PICK S : Message(m) \in [1..l -> S]
    BY <2>1
  <2>3. Message(m) \in Seq(S) /\ Len(Message(m)) = l
    BY <2>2, IsSequence
  <2>4. \A i \in 1..l : Message(m)[i] = [of |-> m, n |-> i]
    BY <1>5 DEF Message
  <2>5. \A T, U : \A u \in Seq(T), w \in Seq(U) :
          Len(u) = Len(w) /\ (\A i \in 1..Len(u) : u[i] = w[i]) => u = w
    OBVIOUS
  <2> QED
    BY <1>11, <2>3, <2>4, <2>5
<1>15. k = Len(Reads(rd)) /\ rd' = Beyond(rd, k)
  BY <1>7, <1>13
<1>16. /\ message' \in Seq(AnyPiece) /\ message' # <<>> /\ message'[1] = [of |-> m, n |-> 1]
       /\ Len(message') = Len(message) + k /\ Len(message') <= sent[m].length
       /\ \A i \in 1..Len(message') : message'[i] = [of |-> m, n |-> i]
       /\ Len(message') = sent[m].length => message' = Message(m)
  <2>1. \A y : y = x => y[1] = x[1] /\ Len(y) = Len(x)
    OBVIOUS
  <2> QED
    BY <1>5, <1>10, <1>11, <1>12, <1>14, <2>1
<1> QED
  BY <1>4, <1>8, <1>13, <1>15, <1>16

LEMMA ReadResponseStream ==
  ASSUME TypeOK, NEW st, NEW a, NEW cut, Stream(st, a, cut), ReadResponse
  PROVE  \E b : Stream(st, b, cut)' /\ b = a + Len(Reads(rd))
<1>1. place = "response" /\ UNCHANGED <<sent, out, wire, chunk>>
  BY DEF ReadResponse, ReadResponseTo, accessoryVars
<1>2. \/ /\ Len(message') >= sent[message'[1].of].length /\ place' = "peek"
         /\ taken' = Append(taken, message')
      \/ ~(Len(message') >= sent[message'[1].of].length) /\ UNCHANGED <<place, taken>>
  BY DEF ReadResponse, ReadResponseTo
<1>3. a \in Nat /\ Offsets(st) /\ Taken(st, a)
  BY DEF Stream, Unread
<1>4. PICK m \in 1..Len(sent), k \in Nat \ {0} :
        /\ sent[m].kind = "response" /\ st[m] \in Nat /\ st[m] + Len(message) = a
        /\ TakenBefore(m)
        /\ k = Len(Reads(rd)) /\ k = Len(Prefix(rd, k)) /\ rd' = Beyond(rd, k)
        /\ message' \in Seq(AnyPiece) /\ message' # <<>> /\ message'[1] = [of |-> m, n |-> 1]
        /\ Len(message') = Len(message) + k /\ Len(message') <= sent[m].length
        /\ \A i \in 1..Len(message') : message'[i] = [of |-> m, n |-> i]
        /\ Len(message') = sent[m].length => message' = Message(m)
  BY ResponseRead
<1>5. PICK l \in Nat \ {0} : l = sent[m].length
  BY SentMessage
<1>6. PICK x \in Seq(AnyPiece) : x = message'
  BY <1>4
<1>7. /\ x # <<>> /\ x[1] = [of |-> m, n |-> 1] /\ x[1].of = m /\ Len(x) <= l /\ Len(x) \in Nat
      /\ Len(x) = Len(message) + k
      /\ Len(x) = l => x = Message(m)
      /\ \A i \in 1..Len(x) : x[i] = [of |-> m, n |-> i]
  <2>1. x # <<>> /\ x[1] = [of |-> m, n |-> 1] /\ Len(x) <= l /\ Len(x) = Len(message) + k
        /\ (\A i \in 1..Len(x) : x[i] = [of |-> m, n |-> i]) /\ (Len(x) = l => x = Message(m))
    BY <1>4, <1>5, <1>6
  <2>2. x[1].of = m /\ Len(x) \in Nat
    BY <1>6, <2>1
  <2> QED
    BY <2>1, <2>2
<1>8. a + k \in Nat /\ a <= a + k /\ Unread(st, a + k, cut)'
  BY <1>1, <1>4, Advance DEF Stream
<1>9. Offsets(st)'
  BY <1>1, <1>3 DEF Offsets
<1>10. st[m] + Len(x) = a + k /\ st[m] + 1 <= a + k
  <2>1. PICK t \in Nat, e \in Nat : t = Len(message) /\ e = st[m]
    <3>1. Len(message) \in Nat
      BY DEF TypeOK
    <3> QED
      BY <1>4, <3>1
  <2>2. e + t = a /\ Len(x) = t + k
    <3>1. st[m] + Len(message) = a
      BY <1>4
    <3>2. Len(x) = Len(message) + k
      BY <1>7
    <3> QED
      BY <2>1, <3>1, <3>2
  <2>3. e + (t + k) = a + k /\ e + 1 <= a + k
    BY <2>2
  <2> QED
    BY <2>1, <2>2, <2>3
<1>11. CASE Len(x) >= l
  <2>1. place' = "peek" /\ taken' = Append(taken, x)
    <3>1. sent[message'[1].of].length = l
      <4>1. x[1].of = m
        BY <1>7
      <4> QED
        BY <1>5, <1>6, <4>1
    <3> QED
      BY <1>2, <1>6, <1>11, <3>1
  <2>2. x = Message(m)
    BY <1>7, <1>11, SMTT(30)
  <2>3. Begins(st, a + k, x[1], "response")
    <3>1. m \in Ids
      <4>1. Len(sent) <= MaxSent /\ Len(sent) \in Nat
        BY DEF TypeOK
      <4> QED
        BY <4>1, ReaderAssumption DEF Ids
    <3>2. 1 \in 1..sent[m].length
      BY <1>5
    <3> QED
      BY <1>4, <1>7, <1>10, <3>1, <3>2 DEF Begins, Written, Pieces, Position
  <2>4. "response" \in Kinds /\ TakenBefore(x[1].of) /\ x = Message(x[1].of)
    BY <1>4, <1>7, <2>2 DEF Kinds
  <2>5. Taken(st, a + k)'
    BY <1>1, <1>3, <1>7, <1>8, <2>1, <2>3, <2>4, TakenAppend
  <2>6. Responding(st, a + k)' /\ Receiving(st, a + k)'
    BY <2>1 DEF Responding, Receiving
  <2> QED
    BY <1>4, <1>8, <1>9, <2>5, <2>6 DEF Stream
<1>12. CASE ~(Len(x) >= l)
  <2>1. UNCHANGED <<place, taken>>
    BY <1>2, <1>5, <1>6, <1>7, <1>12
  <2>2. Taken(st, a + k)'
    BY <1>1, <1>3, <1>8, <2>1, TakenLater
  <2>3. Receiving(st, a + k)'
    BY <1>1, <2>1 DEF Receiving
  <2>4. Len(x) < l
    BY <1>7, <1>12
  <2>5. TakenBefore(m)'
    BY <1>4, <2>1 DEF TakenBefore
  <2>6. Responding(st, a + k)'
    BY <1>1, <1>4, <1>5, <1>6, <1>7, <1>10, <2>4, <2>5 DEF Responding
  <2> QED
    BY <1>4, <1>8, <1>9, <2>2, <2>3, <2>6 DEF Stream
<1> QED
  BY <1>11, <1>12

-----------------------------------------------------------------------------
(* While events are tidy. *)

LEMMA MessageParts ==
  ASSUME TypeOK, NEW m \in 1..Len(sent)
  PROVE  /\ Message(m) \in Seq(Pieces) /\ Message(m) # <<>> /\ Len(Message(m)) = sent[m].length
         /\ m \in Nat \ {0}
         /\ \A i \in 1..sent[m].length :
              Message(m)[i] = [of |-> m, n |-> i] /\ Written(Message(m)[i])
<1>1. PICK l \in Nat \ {0, 1} : l = sent[m].length
  BY SentMessage
<1>2. m \in Ids /\ m \in Nat \ {0}
  <2>1. Len(sent) <= MaxSent /\ Len(sent) \in Nat
    BY DEF TypeOK
  <2> QED
    BY <2>1, ReaderAssumption DEF Ids
<1>3. Message(m) \in [1..l -> Pieces] /\ \A i \in 1..l : Message(m)[i] = [of |-> m, n |-> i]
  BY <1>1, <1>2 DEF Message, Pieces
<1>4. Message(m) \in Seq(Pieces) /\ Len(Message(m)) = l
  BY <1>3, IsSequence
<1>5. \A i \in 1..l : Written(Message(m)[i])
  <2> SUFFICES ASSUME NEW i \in 1..l PROVE Written(Message(m)[i])
    OBVIOUS
  <2>1. PICK p : p = [of |-> m, n |-> i]
    OBVIOUS
  <2>2. p \in Pieces /\ p.of = m /\ p.n = i
    BY <1>2, <2>1 DEF Pieces
  <2>3. Written(p)
    BY <1>1, <2>2 DEF Written
  <2> QED
    BY <1>3, <2>1, <2>3
<1>6. Message(m) # <<>>
  BY <1>1, <1>4
<1> QED
  BY <1>1, <1>2, <1>3, <1>4, <1>5, <1>6

\* A message is the run of pieces after its offset.
LEMMA MessageRun ==
  ASSUME TypeOK, NEW st, Offsets(st), NEW m \in 1..Len(sent)
  PROVE  /\ From(st, st[m], Message(m)) /\ st[m] \in Nat /\ st[m + 1] \in Nat
         /\ st[m + 1] = st[m] + Len(Message(m))
<1>1. PICK l \in Nat \ {0, 1} : l = sent[m].length
  BY SentMessage
<1>2. Len(sent) \in Nat
  BY DEF TypeOK
<1>3. m \in 1..(Len(sent) + 1) /\ m + 1 \in 1..(Len(sent) + 1)
  BY <1>2
<1>4. st[m] \in Nat /\ st[m + 1] \in Nat /\ st[m + 1] = st[m] + l
  BY <1>1, <1>3 DEF Offsets
<1>5. /\ Len(Message(m)) = l
      /\ \A i \in 1..l : Message(m)[i] = [of |-> m, n |-> i] /\ Written(Message(m)[i])
  BY <1>1, MessageParts
<1>6. From(st, st[m], Message(m))
  BY <1>5 DEF From, Position
<1> QED
  BY <1>4, <1>5, <1>6

\* The piece at a position in message t + 1.
LEMMA Locate ==
  ASSUME TypeOK, NEW st, Offsets(st), NEW p, Written(p), NEW t \in Nat, t <= Len(sent),
         NEW j \in Nat \ {0}, Position(st, p) = st[t + 1] + j,
         t < Len(sent) => j <= sent[t + 1].length
  PROVE  t + 1 \in 1..Len(sent) /\ p = [of |-> t + 1, n |-> j]
<1>1. PICK N \in Nat : N = Len(sent)
  BY DEF TypeOK
<1>2. PICK m \in 1..N, n \in Nat \ {0} : m = p.of /\ n = p.n /\ n <= sent[m].length
  <2>1. p.of \in 1..N /\ p.n \in 1..sent[p.of].length
    BY <1>1 DEF Written
  <2>2. sent[p.of].length \in Nat
    BY <1>1, <2>1, SentMessage
  <2>3. p.n \in Nat \ {0} /\ p.n <= sent[p.of].length
    BY <2>1, <2>2
  <2> QED
    BY <2>1, <2>3
<1>3. PICK l \in Nat, e \in Nat, b \in Nat : l = sent[m].length /\ e = st[m] /\ b = st[t + 1]
  <2>1. sent[m].length \in Nat
    BY <1>1, SentMessage
  <2>2. m \in 1..(N + 1) /\ t + 1 \in 1..(N + 1)
    BY <1>1
  <2>3. st[m] \in Nat /\ st[t + 1] \in Nat
    BY <1>1, <2>2 DEF Offsets
  <2> QED
    BY <2>1, <2>3
<1>4. e + n = b + j /\ n <= l
  BY <1>2, <1>3 DEF Position
<1>5. m < t + 1 => e + l <= b
  <2>1. t + 1 \in 1..(N + 1)
    BY <1>1
  <2> QED
    BY <1>1, <1>3, <2>1 DEF Offsets
<1>6. ~(m < t + 1)
  BY <1>4, <1>5
<1>7. t + 1 \in 1..N
  BY <1>6
<1>8. PICK k \in Nat : k = sent[t + 1].length
  BY <1>1, <1>7, SentMessage
<1>9. j <= k
  BY <1>1, <1>7, <1>8
<1>10. t + 1 < m => b + k <= e
  <2>1. m \in 1..(N + 1)
    BY <1>1
  <2> QED
    BY <1>1, <1>3, <1>7, <1>8, <2>1 DEF Offsets
<1>11. ~(t + 1 < m)
  BY <1>4, <1>9, <1>10
<1>12. m = t + 1
  BY <1>6, <1>11
<1>13. n = j
  BY <1>3, <1>4, <1>12
<1>14. p = [of |-> p.of, n |-> p.n]
  BY DEF Written, Pieces
<1> QED
  BY <1>1, <1>2, <1>7, <1>12, <1>13, <1>14

\* Between messages the loop is at the first piece of the next one.
LEMMA AtStart ==
  ASSUME TypeOK, NEW st, NEW a, NEW cut, Stream(st, a, cut), Whole(st, a),
         place = "peek", rd # <<>>
  PROVE  Len(taken) + 1 \in 1..Len(sent) /\ rd[1] = [of |-> Len(taken) + 1, n |-> 1]
<1>1. PICK t \in Nat : t = Len(taken)
  BY DEF TypeOK
<1>2. t <= Len(sent) /\ st[t + 1] = a
  BY <1>1 DEF Whole
<1>3. Written(rd[1]) /\ Position(st, rd[1]) = a + 1
  BY FirstOfRd
<1>4. t < Len(sent) => 1 <= sent[t + 1].length
  <2> SUFFICES ASSUME t < Len(sent) PROVE 1 <= sent[t + 1].length
    OBVIOUS
  <2>1. Len(sent) \in Nat
    BY DEF TypeOK
  <2>2. t + 1 \in 1..Len(sent)
    BY <2>1
  <2>3. sent[t + 1].length \in Nat \ {0}
    BY <2>2, SentMessage
  <2> QED
    BY <2>3
<1>5. PICK p : p = rd[1]
  OBVIOUS
<1>6. t + 1 \in 1..Len(sent) /\ p = [of |-> t + 1, n |-> 1]
  BY <1>2, <1>3, <1>4, <1>5, Locate DEF Stream
<1> QED
  BY <1>1, <1>5, <1>6

\* Nothing that was sent changes.
LEMMA SameMessages ==
  ASSUME sent' = sent
  PROVE  /\ \A m : Message(m)' = Message(m)
         /\ \A s : Tidy(s)' <=> Tidy(s)
         /\ \A s : Responses(s)' <=> Responses(s)
<1>1. \A m : Message(m)' = Message(m)
  BY DEF Message
<1> QED
  BY <1>1 DEF Tidy, Responses

LEMMA WriteInTurn ==
  ASSUME TypeOK, NEW st, NEW a, NEW cut, Stream(st, a, cut), InTurn(st, a),
         NEW k \in Kinds, NEW l \in Lengths, Write(k, l),
         NEW s, \A m \in 1..(Len(sent) + 1) : s[m] = st[m]
  PROVE  InTurn(s, a)'
<1>1. PICK N \in Nat, t \in Nat : N = Len(sent) /\ t = Len(taken)
  BY DEF TypeOK
<1>2. UNCHANGED <<wire, chunk, rd, rb, place, message, fresh, taken, clean>>
  BY DEF Write, loopVars
<1>3. Len(sent') = N + 1 /\ \A m \in 1..N : sent'[m] = sent[m]
  <2> DEFINE Sent == [kind : Kinds, length : Lengths]
             x == [kind |-> k, length |-> l]
  <2>1. sent \in Seq(Sent) /\ x \in Sent /\ sent' = Append(sent, x)
    BY DEF Write, TypeOK
  <2> HIDE DEF Sent, x
  <2> QED
    BY <1>1, <2>1, AppendParts
<1>4. \A m \in 1..N : Message(m)' = Message(m)
  BY <1>3 DEF Message
<1> SUFFICES ASSUME clean PROVE (Neat /\ Whole(s, a))'
  BY <1>2 DEF InTurn
<1>5. Neat /\ Whole(st, a)
  BY DEF InTurn
<1>6. \A p : Written(p) => p.of \in 1..N /\ sent'[p.of] = sent[p.of]
  BY <1>1, <1>3 DEF Written
<1>7. \A x, q : From(st, x, q) /\ Responses(q) => Responses(q)'
  BY <1>6 DEF From, Responses
<1>8. \A x, q : From(st, x, q) /\ q \in Seq(Pieces) /\ q # <<>> /\ q = Message(q[1].of) =>
                  q = Message(q[1].of)'
  <2> SUFFICES ASSUME NEW x, NEW q, From(st, x, q), q \in Seq(Pieces), q # <<>>,
                      q = Message(q[1].of)
               PROVE  q = Message(q[1].of)'
    OBVIOUS
  <2>1. 1 \in 1..Len(q)
    OBVIOUS
  <2>2. PICK m : m = q[1].of
    OBVIOUS
  <2>3. m \in 1..N
    BY <1>6, <2>1, <2>2 DEF From
  <2>4. Message(m)' = Message(m)
    BY <1>4, <2>3
  <2> QED
    BY <2>2, <2>4
<1>9. Neat'
  <2>1. Responses(chunk)'
    BY <1>2, <1>5, <1>7 DEF Neat, Stream, Unread
  <2>2. ASSUME NEW i \in 1..Len(wire) PROVE Tidy(wire[i])'
    <3>1. PICK c : c = wire[i]
      OBVIOUS
    <3>2. c \in Seq(Pieces)
      <4>1. wire \in Seq(Seq(Pieces))
        BY DEF TypeOK
      <4> QED
        BY <3>1, <4>1
    <3>3. From(st, cut[i], c) /\ c # <<>> /\ Tidy(c)
      BY <1>5, <3>1 DEF Neat, Stream, Unread
    <3>4. Tidy(c)'
      <4>1. CASE Responses(c)
        BY <1>7, <3>3, <4>1 DEF Responses, Tidy
      <4>2. CASE c = Message(c[1].of) /\ Len(c) <= Size
        BY <1>8, <3>2, <3>3, <4>2 DEF Tidy
      <4> QED
        BY <3>3, <4>1, <4>2 DEF Tidy, Responses
    <3> QED
      BY <1>2, <3>1, <3>4
  <2>3. (\/ Responses(rd)
         \/ chunk = <<>> /\ place = "event"
         \/ chunk = <<>> /\ rd = Message(rd[1].of) /\ Len(rd) <= Size)'
    <3>1. PICK c \in Seq(Pieces) : c = rd
      BY DEF TypeOK
    <3>2. From(st, a, c)
      BY <3>1 DEF Stream, Unread
    <3>3. CASE Responses(c)
      <4>1. Responses(c)'
        BY <1>7, <3>2, <3>3
      <4> QED
        BY <1>2, <3>1, <4>1
    <3>4. CASE c = <<>>
      <4>1. Responses(c)
        BY <3>4 DEF Responses
      <4>2. Responses(c)'
        BY <1>7, <3>2, <4>1
      <4> QED
        BY <1>2, <3>1, <4>2
    <3>5. CASE chunk = <<>> /\ place = "event"
      BY <1>2, <3>5
    <3>6. CASE chunk = <<>> /\ c # <<>> /\ c = Message(c[1].of) /\ Len(c) <= Size
      <4>1. c = Message(c[1].of)'
        BY <1>8, <3>2, <3>6
      <4> QED
        BY <1>2, <3>1, <3>6, <4>1
    <3> QED
      BY <1>5, <3>1, <3>3, <3>4, <3>5, <3>6 DEF Neat
  <2> QED
    BY <1>2, <2>1, <2>2, <2>3 DEF Neat
<1>10. Whole(s, a)'
  <2>1. t <= N /\ t <= N + 1 /\ t + 1 \in 1..(N + 1) /\ s[t + 1] = st[t + 1]
    <3>1. t <= N
      BY <1>1, <1>5 DEF Whole
    <3>2. t + 1 \in 1..(N + 1) /\ t <= N + 1
      BY <1>1, <3>1
    <3> QED
      BY <1>1, <3>1, <3>2
  <2>2. \A i \in 1..t : taken[i] = Message(i)'
    <3>1. \A i \in 1..t : i \in 1..N
      BY <1>1, <2>1
    <3> QED
      BY <1>1, <1>4, <1>5, <3>1 DEF Whole
  <2>3. t < N => /\ t + 1 \in 1..N /\ t + 2 \in 1..(N + 1) /\ s[t + 2] = st[t + 2]
                 /\ t < N + 1 /\ Message(t + 1)' = Message(t + 1)
    <3>1. t < N => t + 1 \in 1..N /\ t + 2 \in 1..(N + 1) /\ t < N + 1
      BY <1>1
    <3> QED
      BY <1>1, <1>4, <3>1
  <2>4. /\ place \in {"peek", "event", "response"} /\ (place # "event" => rb = <<>>)
        /\ place = "peek" => s[t + 1] = a
        /\ place = "response" => s[t + 1] + Len(message) = a
    BY <1>1, <1>5, <2>1 DEF Whole
  <2>5. place = "event" /\ fresh =>
          /\ t < N + 1 /\ rb = <<>> /\ Len(message) = 1 /\ message \o rd = Message(t + 1)'
          /\ s[t + 1] + 1 = a /\ Len(rd) <= Size
    BY <1>1, <1>5, <2>1, <2>3 DEF Whole
  <2>6. place = "event" /\ ~fresh =>
          t < N + 1 /\ rd = <<>> /\ message \o rb = Message(t + 1)' /\ s[t + 2] = a
    BY <1>1, <1>5, <2>3 DEF Whole
  <2> QED
    BY <1>1, <1>2, <1>3, <2>1, <2>2, <2>4, <2>5, <2>6 DEF Whole
<1> QED
  BY <1>9, <1>10

LEMMA SealInTurn ==
  ASSUME TypeOK, NEW st, NEW a, NEW cut, Stream(st, a, cut), InTurn(st, a), Seal
  PROVE  InTurn(st, a)'
<1>1. PICK n \in 1..Len(out) :
        wire' = Append(wire, SubSeq(out, 1, n)) /\ clean' = (clean /\ Tidy(SubSeq(out, 1, n)))
  BY DEF Seal
<1>2. UNCHANGED <<sent, chunk, rd, rb, place, message, fresh, taken>>
  BY DEF Seal, loopVars
<1> SUFFICES ASSUME clean' PROVE (Neat /\ Whole(st, a))'
  BY DEF InTurn
<1>3. PICK c \in Seq(Pieces) : c = SubSeq(out, 1, n)
  <2>1. out \in Seq(Pieces)
    BY DEF TypeOK
  <2>2. \A S, q : q \in Seq(S) => \A j \in 1..Len(q) : SubSeq(q, 1, j) \in Seq(S)
    OBVIOUS
  <2>3. SubSeq(out, 1, n) \in Seq(Pieces)
    BY <2>1, <2>2
  <2> QED
    BY <2>3
<1>4. Neat /\ Whole(st, a) /\ Tidy(c)
  BY <1>1, <1>3 DEF InTurn
<1>5. PICK W \in Nat : W = Len(wire)
  BY DEF TypeOK
<1>6. Len(wire') = W + 1 /\ wire'[W + 1] = c /\ \A i \in 1..W : wire'[i] = wire[i]
  <2>1. wire \in Seq(Seq(Pieces)) /\ wire' = Append(wire, c)
    BY <1>1, <1>3 DEF TypeOK
  <2> QED
    BY <1>5, <2>1, AppendParts
<1>7. ASSUME NEW i \in 1..(W + 1) PROVE Tidy(wire[i])'
  <2>1. CASE i = W + 1
    BY <1>2, <1>4, <1>6, <2>1, SameMessages
  <2>2. CASE i # W + 1
    <3>1. i \in 1..W
      BY <1>5, <2>2
    <3>2. PICK x : x = wire[i]
      OBVIOUS
    <3>3. Tidy(x)
      BY <1>4, <1>5, <3>1, <3>2 DEF Neat
    <3> QED
      BY <1>2, <1>6, <3>1, <3>2, <3>3, SameMessages
  <2> QED
    BY <2>1, <2>2
<1>8. Neat'
  <2>1. Responses(chunk)' /\ (Responses(rd)' <=> Responses(rd))
        /\ (rd = Message(rd[1].of))' = (rd = Message(rd[1].of))
    BY <1>2, <1>4 DEF Neat, Responses, Message
  <2> QED
    BY <1>2, <1>4, <1>6, <1>7, <2>1 DEF Neat
<1>9. Whole(st, a)'
  BY <1>2, <1>4, SameMessages DEF Whole
<1> QED
  BY <1>8, <1>9

\* While an event is being read, rb holds the rest of it.
LEMMA EventUnread ==
  ASSUME TypeOK, NEW st, NEW a, NEW cut, Stream(st, a, cut), Whole(st, a), place = "event", ~fresh
  PROVE  rb # <<>>
<1> SUFFICES ASSUME rb = <<>> PROVE FALSE
  OBVIOUS
<1>1. PICK t \in Nat, N \in Nat : t = Len(taken) /\ N = Len(sent)
  BY DEF TypeOK
<1>2. PICK h \in Seq(AnyPiece) : h = message
  BY DEF TypeOK
<1>3. t < N /\ h \o <<>> = Message(t + 1)
  BY <1>1, <1>2 DEF Whole
<1>4. h = Message(t + 1)
  BY <1>2, <1>3
<1>5. t + 1 \in 1..Len(sent)
  BY <1>1, <1>3
<1>6. Len(Message(t + 1)) = sent[t + 1].length /\ Message(t + 1)[1].of = t + 1
  <2>1. 1 \in 1..sent[t + 1].length
    BY <1>5, SentMessage
  <2>2. \A m : [of |-> m, n |-> 1].of = m
    OBVIOUS
  <2> QED
    BY <1>5, <2>1, <2>2, MessageParts
<1>7. Len(h) < sent[h[1].of].length
  BY <1>2 DEF Stream, Receiving
<1>8. Len(h) < Len(h)
  BY <1>4, <1>6, <1>7
<1> QED
  BY <1>2, <1>8

\* The next message is handed over.
LEMMA HandOver ==
  ASSUME TypeOK, NEW t \in Nat, t = Len(taken), t + 1 \in 1..Len(sent),
         \A i \in 1..t : taken[i] = Message(i), taken' = Append(taken, Message(t + 1))
  PROVE  Len(taken') = t + 1 /\ \A i \in 1..(t + 1) : taken'[i] = Message(i)
<1>1. PICK M \in Seq(AnyPiece) : M = Message(t + 1)
  BY MessageParts, AnySequence
<1>2. taken \in Seq(Seq(AnyPiece))
  BY DEF TypeOK
<1>3. Len(taken') = t + 1 /\ taken'[t + 1] = M /\ \A i \in 1..t : taken'[i] = taken[i]
  BY <1>1, <1>2, AppendParts
<1>4. \A i \in 1..(t + 1) : i \in 1..t \/ i = t + 1
  OBVIOUS
<1> QED
  BY <1>1, <1>3, <1>4

LEMMA FillInTurn ==
  ASSUME TypeOK, NEW st, NEW a, NEW cut, Stream(st, a, cut), InTurn(st, a), Fill
  PROVE  InTurn(st, a)'
<1>1. /\ UNCHANGED <<sent, rb, place, message, fresh, taken, clean>> /\ rd = <<>>
      /\ place = "event" => rb = <<>> /\ ~fresh
  BY DEF Fill, Wanting
<1>0. PICK room \in Nat : FillTo(room)
  BY FillIs DEF Stream
<1> SUFFICES ASSUME clean PROVE (Neat /\ Whole(st, a))'
  BY <1>1 DEF InTurn
<1>2. Neat /\ Whole(st, a)
  BY DEF InTurn
<1>3. PICK t \in Nat, N \in Nat : t = Len(taken) /\ N = Len(sent)
  BY DEF TypeOK
<1>4. /\ message \in Seq(AnyPiece) /\ chunk \in Seq(Pieces) /\ wire \in Seq(Seq(Pieces))
      /\ Size \in Nat /\ Size <= room
  BY <1>0, ReaderAssumption DEF TypeOK, FillTo
<1>5. place # "event"
  BY <1>1, <1>2, EventUnread
<1>6. Whole(st, a)'
  BY <1>1, <1>2, <1>5, SameMessages DEF Whole
<1>7. CASE chunk # <<>>
  <2>1. rd' = Prefix(chunk, room) /\ chunk' = Beyond(chunk, room) /\ wire' = wire
    BY <1>0, <1>7 DEF FillTo
  <2>2. PICK k : k = Len(Prefix(chunk, room))
    OBVIOUS
  <2>3. /\ k \in Nat /\ k <= Len(chunk) /\ Len(rd') = k /\ \A i \in 1..k : rd'[i] = chunk[i]
        /\ Len(chunk') = Len(chunk) - k /\ \A i \in 1..Len(chunk') : chunk'[i] = chunk[k + i]
    <3>1. /\ Prefix(chunk, room) \in Seq(Pieces) /\ Len(Prefix(chunk, room)) <= Len(chunk)
          /\ \A i \in 1..Len(Prefix(chunk, room)) : Prefix(chunk, room)[i] = chunk[i]
      BY <1>4, PrefixParts
    <3>2. /\ Len(Beyond(chunk, room)) = Len(chunk) - Len(Prefix(chunk, room))
          /\ \A i \in 1..Len(Beyond(chunk, room)) :
               Beyond(chunk, room)[i] = chunk[Len(Prefix(chunk, room)) + i]
      BY <1>4, BeyondPrefix
    <3> QED
      BY <2>1, <2>2, <3>1, <3>2
  <2>4. (\A i \in 1..k : i \in 1..Len(chunk)) /\ \A i \in 1..Len(chunk') : k + i \in 1..Len(chunk)
    <3>1. Len(chunk) \in Nat
      BY <1>4
    <3> QED
      BY <2>3, <3>1
  <2>5. Responses(chunk)
    BY <1>2 DEF Neat
  <2>6. Responses(rd)' /\ Responses(chunk)'
    BY <1>1, <2>3, <2>4, <2>5 DEF Responses
  <2>7. \A i \in 1..Len(wire) : Tidy(wire[i])'
    <3>1. PICK w : w = wire
      OBVIOUS
    <3>2. \A i \in 1..Len(w) : Tidy(w[i])'
      BY <1>1, <1>2, <3>1, SameMessages DEF Neat
    <3> QED
      BY <2>1, <3>1, <3>2
  <2>8. Neat'
    BY <2>1, <2>6, <2>7 DEF Neat
  <2> QED
    BY <1>6, <2>8
<1>8. CASE chunk = <<>>
  <2>1. /\ wire # <<>> /\ rd' = Prefix(Head(wire), room) /\ chunk' = Beyond(Head(wire), room)
        /\ wire' = Tail(wire)
    BY <1>0, <1>8 DEF FillTo
  <2>2. PICK W \in Nat, c \in Seq(Pieces) :
          W + 1 = Len(wire) /\ c = Head(wire) /\ c = wire[1] /\ 1 \in 1..Len(wire)
    <3>1. /\ Len(wire) \in Nat \ {0} /\ Head(wire) = wire[1] /\ wire[1] \in Seq(Pieces)
      BY <1>4, <2>1, TailParts
    <3>2. Len(wire) - 1 \in Nat /\ (Len(wire) - 1) + 1 = Len(wire) /\ 1 \in 1..Len(wire)
      BY <3>1
    <3> QED
      BY <3>1, <3>2
  <2>3. Len(wire') = W /\ \A i \in 1..W : wire'[i] = wire[1 + i] /\ 1 + i \in 1..Len(wire)
    <3>1. /\ Len(Tail(wire)) = Len(wire) - 1
          /\ \A i \in 1..Len(Tail(wire)) : Tail(wire)[i] = wire[1 + i]
      BY <1>4, <2>1, TailParts
    <3>2. (W + 1) - 1 = W /\ \A i \in 1..W : 1 + i \in 1..(W + 1)
      OBVIOUS
    <3> QED
      BY <2>1, <2>2, <3>1, <3>2
  <2>4. \A i \in 1..W : Tidy(wire[i])'
    <3>1. PICK w : w = wire'
      OBVIOUS
    <3>2. \A i \in 1..W : Tidy(w[i])
      BY <1>2, <2>3, <3>1 DEF Neat
    <3>3. \A i \in 1..W : Tidy(w[i])'
      BY <1>1, <3>2, SameMessages
    <3> QED
      BY <3>1, <3>3
  <2>5. Tidy(c)
    BY <1>2, <2>2 DEF Neat
  <2>6. PICK k : k = Len(Prefix(c, room))
    OBVIOUS
  <2>7. /\ k \in Nat /\ k <= Len(c) /\ rd' \in Seq(Pieces) /\ chunk' \in Seq(Pieces)
        /\ Len(rd') = k /\ \A i \in 1..k : rd'[i] = c[i]
        /\ Len(chunk') = Len(c) - k /\ \A i \in 1..Len(chunk') : chunk'[i] = c[k + i]
        /\ k = Least(room, Len(c)) /\ Len(c) \in Nat
    <3>1. /\ Prefix(c, room) \in Seq(Pieces) /\ Len(Prefix(c, room)) <= Len(c)
          /\ \A i \in 1..Len(Prefix(c, room)) : Prefix(c, room)[i] = c[i]
          /\ Len(Prefix(c, room)) = Least(room, Len(c))
      BY <1>4, PrefixParts
    <3>2. /\ Beyond(c, room) \in Seq(Pieces) /\ Len(Beyond(c, room)) = Len(c) - Len(Prefix(c, room))
          /\ \A i \in 1..Len(Beyond(c, room)) : Beyond(c, room)[i] = c[Len(Prefix(c, room)) + i]
      BY <1>4, BeyondPrefix
    <3>3. rd' = Prefix(c, room) /\ chunk' = Beyond(c, room) /\ Len(c) \in Nat
      BY <2>1, <2>2
    <3>4. Len(Prefix(c, room)) \in Nat
      BY <3>1
    <3> QED
      BY <2>6, <3>1, <3>2, <3>3, <3>4
  <2>8. CASE Responses(c)
    <3>1. (\A i \in 1..k : i \in 1..Len(c)) /\ \A i \in 1..Len(chunk') : k + i \in 1..Len(c)
      BY <2>7
    <3>2. Responses(rd)' /\ Responses(chunk)'
      <4>1. PICK r, q : r = rd' /\ q = chunk'
        OBVIOUS
      <4>2. ASSUME NEW i \in 1..Len(r) PROVE sent[r[i].of].kind = "response"
        <5>1. i \in 1..Len(c) /\ r[i] = c[i]
          BY <2>7, <3>1, <4>1
        <5> QED
          BY <2>8, <5>1 DEF Responses
      <4>3. ASSUME NEW i \in 1..Len(q) PROVE sent[q[i].of].kind = "response"
        <5>1. k + i \in 1..Len(c) /\ q[i] = c[k + i]
          BY <2>7, <3>1, <4>1
        <5> QED
          BY <2>8, <5>1 DEF Responses
      <4>4. Responses(r) /\ Responses(q)
        BY <4>2, <4>3 DEF Responses
      <4>5. Responses(r)' /\ Responses(q)'
        BY <1>1, <4>4, SameMessages
      <4> QED
        BY <4>1, <4>5
    <3>3. Neat'
      BY <2>3, <2>4, <3>2 DEF Neat
    <3> QED
      BY <1>6, <3>3
  <2>9. CASE c = Message(c[1].of) /\ Len(c) <= Size
    <3>1. k = Len(c) /\ Len(chunk') = 0
      BY <1>4, <2>7, <2>9 DEF Least
    <3>2. chunk' = <<>>
      BY <2>7, <3>1
    <3>3. rd' = c
      <4>1. rd' \in Seq(Pieces) /\ Len(rd') = Len(c) /\ \A i \in 1..Len(rd') : rd'[i] = c[i]
        BY <2>7, <3>1
      <4> QED
        BY <4>1, SameSequence
    <3>4. (rd = Message(rd[1].of) /\ Len(rd) <= Size)'
      <4>1. c = Message(c[1].of)'
        BY <1>1, <2>9, SameMessages
      <4> QED
        BY <2>9, <3>3, <4>1
    <3>5. Responses(chunk)'
      BY <3>2 DEF Responses
    <3>6. Neat'
      BY <2>3, <2>4, <3>2, <3>4, <3>5 DEF Neat
    <3> QED
      BY <1>6, <3>6
  <2> QED
    BY <2>5, <2>8, <2>9 DEF Tidy, Responses
<1> QED
  BY <1>7, <1>8

\* An event is alone in rd, and what remains of it is its rest.
LEMMA PeekEventInTurn ==
  ASSUME TypeOK, NEW st, NEW a, NEW cut, Stream(st, a, cut), InTurn(st, a), PeekEvent
  PROVE  InTurn(st, a + 1)'
<1>1. /\ rd # <<>> /\ Head(rd).n = 1 /\ sent[Head(rd).of].kind = "event" /\ place = "peek"
      /\ place' = "event" /\ message' = <<Head(rd)>> /\ rd' = Tail(rd) /\ fresh' = TRUE
      /\ UNCHANGED <<sent, out, wire, chunk, rb, taken, clean>>
  BY DEF PeekEvent, IsEvent, accessoryVars
<1> SUFFICES ASSUME clean PROVE (Neat /\ Whole(st, a + 1))'
  BY <1>1 DEF InTurn
<1>2. Neat /\ Whole(st, a)
  BY DEF InTurn
<1>3. PICK t \in Nat, N \in Nat : t = Len(taken) /\ N = Len(sent)
  BY DEF TypeOK
<1>4. PICK s \in Seq(Pieces) : s = rd
  BY DEF TypeOK
<1>5. t + 1 \in 1..N /\ s[1] = [of |-> t + 1, n |-> 1] /\ Head(s) = s[1] /\ 1 \in 1..Len(s)
  <2>1. t + 1 \in 1..N /\ s[1] = [of |-> t + 1, n |-> 1]
    BY <1>1, <1>2, <1>3, <1>4, AtStart
  <2> QED
    BY <1>1, <1>4, <2>1
<1>6. ~Responses(rd)
  BY <1>1, <1>4, <1>5 DEF Responses
<1>7. chunk = <<>> /\ s = Message(t + 1) /\ Len(s) <= Size
  <2>1. chunk = <<>> /\ rd = Message(rd[1].of) /\ Len(rd) <= Size
    BY <1>1, <1>2, <1>6 DEF Neat
  <2>2. s[1].of = t + 1
    BY <1>5
  <2> QED
    BY <1>4, <2>1, <2>2
<1>8. PICK h \in Seq(Pieces) : h = message' /\ Len(h) = 1 /\ h \o Tail(s) = s
  <2>1. s # <<>> /\ s[1] \in Pieces
    BY <1>5
  <2>2. <<s[1]>> \in Seq(Pieces) /\ Len(<<s[1]>>) = 1 /\ <<s[1]>> \o Tail(s) = s
    BY <2>1
  <2> QED
    BY <1>1, <1>4, <1>5, <2>2
<1>9. Neat'
  <2>1. Responses(chunk)'
    BY <1>1, <1>2, SameMessages DEF Neat
  <2>2. \A i \in 1..Len(wire) : Tidy(wire[i])'
    <3>1. PICK w : w = wire
      OBVIOUS
    <3>2. \A i \in 1..Len(w) : Tidy(w[i])'
      BY <1>1, <1>2, <3>1, SameMessages DEF Neat
    <3> QED
      BY <1>1, <3>1, <3>2
  <2> QED
    BY <1>1, <1>7, <2>1, <2>2 DEF Neat
<1>10. Whole(st, a + 1)'
  <2>1. t <= N /\ (\A i \in 1..t : taken[i] = Message(i)) /\ rb = <<>> /\ st[t + 1] = a
    BY <1>1, <1>2, <1>3 DEF Whole
  <2>2. t < N /\ st[t + 1] + 1 = a + 1 /\ Len(rd') <= Size
    <3>1. Len(Tail(s)) = Len(s) - 1 /\ Len(s) \in Nat /\ Size \in Nat
      BY <1>5, ReaderAssumption
    <3> QED
      BY <1>1, <1>4, <1>5, <1>7, <2>1, <3>1
  <2>3. message' \o rd' = Message(t + 1)'
    BY <1>1, <1>4, <1>7, <1>8, SameMessages
  <2>4. \A i \in 1..t : taken[i] = Message(i)'
    BY <1>1, <2>1, SameMessages
  <2> QED
    BY <1>1, <1>3, <1>8, <2>1, <2>2, <2>3, <2>4 DEF Whole
<1> QED
  BY <1>9, <1>10

LEMMA PeekResponseInTurn ==
  ASSUME TypeOK, NEW st, NEW a, NEW cut, Stream(st, a, cut), InTurn(st, a), PeekResponse
  PROVE  InTurn(st, a)'
<1>1. /\ place = "peek" /\ place' = "response" /\ message' = <<>> /\ Len(message') = 0
      /\ UNCHANGED <<sent, out, wire, chunk, rd, rb, taken, clean>>
  BY DEF PeekResponse, accessoryVars
<1> SUFFICES ASSUME clean PROVE (Neat /\ Whole(st, a))'
  BY <1>1 DEF InTurn
<1>2. Neat /\ Whole(st, a)
  BY DEF InTurn
<1>3. a \in Nat
  BY DEF Stream, Unread
<1>4. Neat'
  <2>1. /\ \A m : Message(m)' = Message(m)
        /\ \A s : Tidy(s)' <=> Tidy(s)
        /\ \A s : Responses(s)' <=> Responses(s)
    BY <1>1, SameMessages
  <2> QED
    BY <1>1, <1>2, <2>1 DEF Neat
<1>5. Whole(st, a)'
  BY <1>1, <1>2, <1>3, SameMessages DEF Whole
<1> QED
  BY <1>4, <1>5

\* The loop is never at another piece than the first one of a message.
LEMMA PeekOtherInTurn ==
  ASSUME TypeOK, NEW st, NEW a, NEW cut, Stream(st, a, cut), InTurn(st, a), PeekOther
  PROVE  InTurn(st, a + 1)'
<1>1. rd # <<>> /\ (place = "line" \/ (place = "peek" /\ Head(rd).n # 1)) /\ clean' = clean
  BY DEF PeekOther, FirstLine
<1> SUFFICES ASSUME clean PROVE FALSE
  BY <1>1 DEF InTurn
<1>2. Whole(st, a) /\ place = "peek"
  BY <1>1 DEF InTurn, Whole
<1>3. rd[1] = [of |-> Len(taken) + 1, n |-> 1] /\ Head(rd) = rd[1]
  BY <1>1, <1>2, AtStart, FirstOfRd
<1> QED
  BY <1>1, <1>2, <1>3

LEMMA TransformInTurn ==
  ASSUME TypeOK, NEW st, NEW a, NEW cut, Stream(st, a, cut), InTurn(st, a), Transform,
         NEW b, b = a + Len(Prefix(rd, IF fresh THEN Size ELSE Size - 1))
  PROVE  InTurn(st, b)'
<1>1. /\ place = "event" /\ rb = <<>> /\ fresh' = FALSE
      /\ UNCHANGED <<sent, out, wire, chunk, place, message, taken, clean>>
  BY DEF Transform, Transformed, accessoryVars
<1> SUFFICES ASSUME clean PROVE (Neat /\ Whole(st, b))'
  BY <1>1 DEF InTurn
<1>2. Neat /\ Whole(st, a)
  BY DEF InTurn
<1>3. fresh = TRUE
  <2>1. ~fresh => FALSE
    BY <1>1, <1>2, EventUnread
  <2> QED
    BY <2>1 DEF TypeOK
<1>4. PICK t \in Nat, N \in Nat : t = Len(taken) /\ N = Len(sent)
  BY DEF TypeOK
<1>5. PICK s \in Seq(Pieces), h \in Seq(AnyPiece) : s = rd /\ h = message /\ Len(s) <= Size
  BY <1>1, <1>2, <1>3 DEF TypeOK, Whole
<1>6. /\ t < N /\ Len(h) = 1 /\ h \o s = Message(t + 1) /\ st[t + 1] + 1 = a
      /\ t <= N /\ \A i \in 1..t : taken[i] = Message(i)
  BY <1>1, <1>2, <1>3, <1>4, <1>5 DEF Whole
<1>7. Size \in Nat
  BY ReaderAssumption
<1>8. Prefix(s, Size) = s /\ Beyond(s, Size) = <<>>
  <2>1. /\ Prefix(s, Size) \in Seq(Pieces) /\ Len(Prefix(s, Size)) = Least(Size, Len(s))
        /\ \A i \in 1..Len(Prefix(s, Size)) : Prefix(s, Size)[i] = s[i]
    BY <1>7, PrefixParts
  <2>2. Beyond(s, Size) \in Seq(Pieces) /\ Len(Beyond(s, Size)) = Len(s) - Len(Prefix(s, Size))
    BY <1>7, BeyondPrefix
  <2>3. Len(s) \in Nat /\ Least(Size, Len(s)) = Len(s)
    <3>1. \A x, y \in Nat : x <= y => Least(y, x) = x
      BY DEF Least
    <3>2. Len(s) \in Nat /\ Len(s) <= Size
      BY <1>5
    <3> QED
      BY <1>7, <3>1, <3>2
  <2>5. Prefix(s, Size) = s
    BY <2>1, <2>3, SameSequence
  <2>6. Len(Beyond(s, Size)) = 0
    BY <2>2, <2>3, <2>5
  <2> QED
    BY <2>2, <2>5, <2>6
<1>9. rb' = s /\ rd' = <<>>
  <2>1. rb' = <<>> \o Prefix(rd, Size) /\ rd' = Beyond(rd, Size)
    BY <1>3 DEF Transform, Transformed
  <2> QED
    BY <1>5, <1>8, <2>1
<1>10. st[t + 2] = b
  <2>1. t + 1 \in 1..Len(sent) /\ (t + 1) + 1 = t + 2
    BY <1>4, <1>6
  <2>2. PICK e \in Nat, l \in Nat :
          e = st[t + 1] /\ l = Len(Message(t + 1)) /\ st[t + 2] = e + l
    <3>1. Len(Message(t + 1)) \in Nat
      BY <2>1, MessageParts
    <3> QED
      BY <2>1, <3>1, MessageRun DEF Stream
  <2>3. l = 1 + Len(s) /\ Len(s) \in Nat
    <3>1. s \in Seq(AnyPiece) /\ Len(s) \in Nat
      BY AnySequence
    <3>2. Len(h \o s) = Len(h) + Len(s)
      BY <3>1, JoinParts
    <3> QED
      BY <1>6, <2>2, <3>1, <3>2
  <2>4. b = a + Len(s)
    BY <1>3, <1>5, <1>8
  <2>5. e + (1 + Len(s)) = (e + 1) + Len(s)
    BY <2>2, <2>3, SMTT(30)
  <2> QED
    BY <1>6, <2>2, <2>3, <2>4, <2>5
<1>11. Neat'
  <2>1. Responses(chunk)' /\ Responses(rd)'
    <3>1. Responses(chunk)'
      BY <1>1, <1>2, SameMessages DEF Neat
    <3>2. Responses(rd)'
      BY <1>9 DEF Responses
    <3> QED
      BY <3>1, <3>2
  <2>2. \A i \in 1..Len(wire) : Tidy(wire[i])'
    <3>1. PICK w : w = wire
      OBVIOUS
    <3>2. \A i \in 1..Len(w) : Tidy(w[i])'
      BY <1>1, <1>2, <3>1, SameMessages DEF Neat
    <3> QED
      BY <1>1, <3>1, <3>2
  <2> QED
    BY <1>1, <2>1, <2>2 DEF Neat
<1>12. Whole(st, b)'
  <2>1. \A i \in 1..t : taken[i] = Message(i)'
    BY <1>1, <1>6, SameMessages
  <2>2. message' \o rb' = Message(t + 1)'
    BY <1>1, <1>5, <1>6, <1>9, SameMessages
  <2> QED
    BY <1>1, <1>4, <1>6, <1>9, <1>10, <2>1, <2>2 DEF Whole
<1> QED
  BY <1>11, <1>12

\* Nothing but the event is in rb: it is read whole, and nothing is dropped.
LEMMA ReadEventInTurn ==
  ASSUME TypeOK, NEW st, NEW a, NEW cut, Stream(st, a, cut), InTurn(st, a), ReadEvent
  PROVE  InTurn(st, a)'
<1>1. /\ place = "event" /\ rb # <<>> /\ message' = message \o Reads(rb)
      /\ UNCHANGED <<sent, out, wire, chunk, rd, fresh, clean>>
  BY DEF ReadEvent, EventRead, accessoryVars
<1> SUFFICES ASSUME clean PROVE (Neat /\ Whole(st, a))'
  BY <1>1 DEF InTurn
<1>2. Neat /\ Whole(st, a)
  BY DEF InTurn
<1>3. fresh = FALSE
  BY <1>1, <1>2 DEF Whole, TypeOK
<1>4. PICK t \in Nat, N \in Nat : t = Len(taken) /\ N = Len(sent)
  BY DEF TypeOK
<1>5. PICK s \in Seq(AnyPiece), h \in Seq(AnyPiece) : s = rb /\ h = message
  BY DEF TypeOK
<1>6. /\ t < N /\ rd = <<>> /\ h \o s = Message(t + 1) /\ st[t + 2] = a
      /\ t <= N /\ \A i \in 1..t : taken[i] = Message(i)
  BY <1>1, <1>2, <1>3, <1>4, <1>5 DEF Whole
<1>7. t + 1 \in 1..Len(sent)
  BY <1>4, <1>6
<1>8. PICK l \in Nat \ {0} :
        /\ l = sent[t + 1].length /\ Len(h \o s) = l /\ l = Len(h) + Len(s)
        /\ h # <<>> /\ h[1].of = t + 1
  <2>1. /\ Len(Message(t + 1)) = sent[t + 1].length /\ sent[t + 1].length \in Nat \ {0}
    BY <1>7, MessageParts, SentMessage
  <2>2. h # <<>>
    BY <1>1, <1>5 DEF Stream, Receiving
  <2>3. 1 \in 1..Len(h) /\ 1 \in 1..sent[t + 1].length
    BY <2>1, <2>2
  <2>4. (h \o s)[1] = h[1] /\ Len(h \o s) = Len(h) + Len(s)
    BY <2>3, JoinParts
  <2>5. Message(t + 1)[1] = [of |-> t + 1, n |-> 1]
    BY <1>7, <2>3, MessageParts
  <2>6. h[1].of = t + 1
    BY <1>6, <2>4, <2>5
  <2> QED
    BY <1>6, <2>1, <2>2, <2>4, <2>6
<1>9. Reads(rb) = s
  <2>1. Reads(rb) = Prefix(s, l - Len(h))
    BY <1>5, <1>8 DEF Reads
  <2>2. l - Len(h) = Len(s) /\ Len(s) \in Nat
    BY <1>8
  <2>3. Prefix(s, Len(s)) = s
    <3>1. /\ Prefix(s, Len(s)) \in Seq(AnyPiece) /\ Len(Prefix(s, Len(s))) = Least(Len(s), Len(s))
          /\ \A i \in 1..Len(Prefix(s, Len(s))) : Prefix(s, Len(s))[i] = s[i]
      BY <2>2, PrefixParts
    <3>2. Least(Len(s), Len(s)) = Len(s)
      BY DEF Least
    <3>3. \A u, w \in Seq(AnyPiece) :
            Len(u) = Len(w) /\ (\A i \in 1..Len(u) : u[i] = w[i]) => u = w
      OBVIOUS
    <3> QED
      BY <3>1, <3>2, <3>3
  <2> QED
    BY <2>1, <2>2, <2>3
<1>10. message' = Message(t + 1) /\ Len(message') = sent[message[1].of].length
  BY <1>1, <1>5, <1>6, <1>8, <1>9
<1>11. place' = "peek" /\ taken' = Append(taken, Message(t + 1)) /\ rb' = <<>>
  BY <1>10 DEF ReadEvent, EventRead
<1>12. Neat'
  <2>1. Responses(chunk)' /\ Responses(rd)'
    <3>1. Responses(chunk)'
      BY <1>1, <1>2, SameMessages DEF Neat
    <3>2. Responses(rd)'
      BY <1>1, <1>6 DEF Responses
    <3> QED
      BY <3>1, <3>2
  <2>2. \A i \in 1..Len(wire) : Tidy(wire[i])'
    <3>1. PICK w : w = wire
      OBVIOUS
    <3>2. \A i \in 1..Len(w) : Tidy(w[i])'
      BY <1>1, <1>2, <3>1, SameMessages DEF Neat
    <3> QED
      BY <1>1, <3>1, <3>2
  <2> QED
    BY <1>1, <2>1, <2>2 DEF Neat
<1>13. Len(taken') = t + 1 /\ \A i \in 1..(t + 1) : taken'[i] = Message(i)
  BY <1>4, <1>6, <1>7, <1>11, HandOver
<1>14. Whole(st, a)'
  <2>1. \A i \in 1..(t + 1) : taken'[i] = Message(i)'
    BY <1>1, <1>13, SameMessages
  <2>2. t + 1 <= N /\ (t + 1) + 1 = t + 2
    BY <1>4, <1>6
  <2> QED
    BY <1>1, <1>4, <1>6, <1>11, <1>13, <2>1, <2>2 DEF Whole
<1> QED
  BY <1>12, <1>14

\* No header is anything but what the accessory wrote.
LEMMA BadHeaderInTurn ==
  ASSUME TypeOK, NEW st, NEW a, NEW cut, Stream(st, a, cut), InTurn(st, a), BadHeader
  PROVE  InTurn(st, a)'
<1>1. place = "event" /\ rb # <<>> /\ Len(message) = 1 /\ Head(rb) = Junk /\ clean' = clean
  BY DEF BadHeader
<1> SUFFICES ASSUME clean PROVE FALSE
  BY <1>1 DEF InTurn
<1>2. Whole(st, a)
  BY DEF InTurn
<1>3. PICK t \in Nat, N \in Nat : t = Len(taken) /\ N = Len(sent)
  BY DEF TypeOK
<1>4. PICK s \in Seq(AnyPiece), h \in Seq(AnyPiece) : s = rb /\ h = message
  BY DEF TypeOK
<1>5. t < N /\ h \o s = Message(t + 1) /\ Len(h) = 1
  BY <1>1, <1>2, <1>3, <1>4 DEF Whole, TypeOK
<1>6. t + 1 \in 1..Len(sent)
  BY <1>3, <1>5
<1>7. s[1] = Junk /\ Len(s) \in Nat \ {0}
  BY <1>1, <1>4
<1>8. 2 \in 1..Len(h \o s) /\ (h \o s)[2] = s[1]
  <2>1. /\ Len(h \o s) = Len(h) + Len(s)
        /\ \A i \in 1..Len(s) : (h \o s)[Len(h) + i] = s[i]
    BY JoinParts
  <2>2. 1 \in 1..Len(s) /\ 1 + 1 = 2 /\ 2 \in 1..(1 + Len(s))
    BY <1>7
  <2> QED
    BY <1>5, <2>1, <2>2
<1>9. Message(t + 1)[2] = [of |-> t + 1, n |-> 2]
  <2>1. 2 \in 1..Len(Message(t + 1))
    BY <1>5, <1>8
  <2>2. /\ Len(Message(t + 1)) = sent[t + 1].length
        /\ \A i \in 1..sent[t + 1].length : Message(t + 1)[i] = [of |-> t + 1, n |-> i]
    BY <1>6, MessageParts
  <2> QED
    BY <2>1, <2>2
<1>10. Junk.of = t + 1
  BY <1>5, <1>7, <1>8, <1>9
<1> QED
  BY <1>10 DEF Junk

\* The response that is read is the next message.
LEMMA ReadResponseInTurn ==
  ASSUME TypeOK, NEW st, NEW a, NEW cut, Stream(st, a, cut), InTurn(st, a), ReadResponse,
         NEW b, b = a + Len(Reads(rd))
  PROVE  InTurn(st, b)'
<1>1. place = "response" /\ rd # <<>>
      /\ UNCHANGED <<sent, out, wire, chunk, rb, fresh, clean>>
  BY DEF ReadResponse, ReadResponseTo, accessoryVars
<1> SUFFICES ASSUME clean PROVE (Neat /\ Whole(st, b))'
  BY <1>1 DEF InTurn
<1>2. Neat /\ Whole(st, a)
  BY DEF InTurn
<1>3. PICK m \in 1..Len(sent), k \in Nat \ {0} :
        /\ sent[m].kind = "response" /\ st[m] \in Nat /\ st[m] + Len(message) = a
        /\ k = Len(Reads(rd)) /\ k = Len(Prefix(rd, k)) /\ rd' = Beyond(rd, k)
        /\ message' \in Seq(AnyPiece) /\ message' # <<>> /\ message'[1] = [of |-> m, n |-> 1]
        /\ Len(message') = Len(message) + k /\ Len(message') <= sent[m].length
        /\ Len(message') = sent[m].length => message' = Message(m)
  BY ResponseRead
<1>4. PICK t \in Nat, N \in Nat : t = Len(taken) /\ N = Len(sent)
  BY DEF TypeOK
<1>5. t <= N /\ (\A i \in 1..t : taken[i] = Message(i)) /\ rb = <<>> /\ st[t + 1] + Len(message) = a
  BY <1>1, <1>2, <1>4 DEF Whole
<1>6. PICK e \in Nat, g \in Nat, u \in Nat : e = st[m] /\ g = st[t + 1] /\ u = Len(message)
  <2>1. st[t + 1] \in Nat
    <3>1. t + 1 \in 1..(Len(sent) + 1)
      BY <1>4, <1>5
    <3> QED
      BY <3>1 DEF Stream, Offsets
  <2>2. Len(message) \in Nat
    BY DEF TypeOK
  <2> QED
    BY <1>3, <2>1, <2>2
<1>7. e = g /\ e + u = a /\ a \in Nat
  <2>1. st[m] + Len(message) = a /\ a \in Nat
    BY <1>3 DEF Stream, Unread
  <2>2. e + u = a /\ g + u = a
    BY <1>5, <1>6, <2>1
  <2> QED
    BY <2>1, <2>2
<1>8. PICK l \in Nat \ {0, 1} : l = sent[m].length
  BY SentMessage
<1>9. m = t + 1
  <2>1. PICK p : p = Message(m)[1]
    OBVIOUS
  <2>2. Written(p) /\ p = [of |-> m, n |-> 1]
    <3>1. 1 \in 1..sent[m].length
      BY <1>8
    <3> QED
      BY <2>1, <3>1, MessageParts
  <2>3. Position(st, p) = st[t + 1] + 1
    BY <1>6, <1>7, <2>2 DEF Position
  <2>4. t < Len(sent) => 1 <= sent[t + 1].length
    <3> SUFFICES ASSUME t < Len(sent) PROVE 1 <= sent[t + 1].length
      OBVIOUS
    <3>1. t + 1 \in 1..Len(sent)
      BY <1>4
    <3>2. sent[t + 1].length \in Nat \ {0}
      BY <3>1, SentMessage
    <3> QED
      BY <3>2
  <2>5. p = [of |-> t + 1, n |-> 1]
    <3>1. Offsets(st) /\ 1 \in Nat \ {0} /\ t <= Len(sent)
      BY <1>4, <1>5 DEF Stream
    <3> QED
      BY <2>2, <2>3, <2>4, <3>1, Locate
  <2> QED
    BY <2>2, <2>5
<1>10. Neat'
  <2>1. PICK s \in Seq(Pieces) : s = rd
    BY DEF TypeOK
  <2>2. Responses(s)
    <3>1. CASE Responses(rd)
      BY <2>1, <3>1
    <3>2. CASE rd = Message(rd[1].of)
      <4>1. 1 \in 1..Len(s) /\ Written(s[1])
        BY <1>1, <2>1, FirstOfRd
      <4>2. PICK j \in 1..Len(sent) : j = s[1].of
        BY <4>1 DEF Written
      <4>3. s = Message(j)
        BY <2>1, <3>2, <4>2
      <4>4. \A i \in 1..Len(s) : s[i] = [of |-> j, n |-> i]
        BY <4>3, MessageParts
      <4>5. sent[j].kind = "response"
        <5>1. CASE message = <<>>
          <6>1. sent[rd[1].of].kind = "response"
            BY <1>1, <5>1 DEF Stream, Responding
          <6> QED
            BY <2>1, <4>2, <6>1
        <5>2. CASE message # <<>>
          <6>1. u > 0
            BY <1>6, <5>2 DEF TypeOK
          <6>2. Position(st, s[1]) = a + 1 /\ s[1] = [of |-> j, n |-> 1]
            BY <1>1, <2>1, <4>1, <4>4, FirstOfRd
          <6>3. PICK p : p = Message(m)[u + 1]
            OBVIOUS
          <6>4. u + 1 \in 1..l
            <7>1. Len(message') = u + k /\ u + k <= l
              BY <1>3, <1>6, <1>8
            <7> QED
              BY <7>1
          <6>5. Written(p) /\ p = [of |-> m, n |-> u + 1]
            <7>1. u + 1 \in 1..sent[m].length
              BY <1>8, <6>4
            <7> QED
              BY <6>3, <7>1, MessageParts
          <6>6. Position(st, p) = a + 1
            <7>1. p.of = m /\ p.n = u + 1
              BY <6>5
            <7>2. e + (u + 1) = a + 1
              BY <1>7
            <7> QED
              BY <1>6, <7>1, <7>2 DEF Position
          <6>7. p = s[1]
            BY <4>1, <6>2, <6>5, <6>6, OnePosition DEF Stream
          <6>8. m = j
            BY <6>2, <6>5, <6>7
          <6> QED
            BY <1>3, <6>8
        <5> QED
          BY <5>1, <5>2
      <4>6. \A i \in 1..Len(s) : s[i].of = j
        <5>1. \A n : [of |-> j, n |-> n].of = j
          OBVIOUS
        <5> QED
          BY <4>4, <5>1, ZenonT(30)
      <4> QED
        BY <4>5, <4>6 DEF Responses
    <3> QED
      BY <1>1, <1>2, <3>1, <3>2 DEF Neat
  <2>3. Responses(rd)'
    <3>1. k \in 0..Len(s)
      <4>1. Len(Prefix(s, k)) <= Len(s) /\ Len(s) \in Nat
        BY PrefixParts
      <4> QED
        BY <1>3, <2>1, <4>1
    <3>2. /\ rd' = Beyond(s, k) /\ Len(rd') = Len(s) - k
          /\ \A i \in 1..Len(rd') : rd'[i] = s[k + i]
      <4>1. rd' = Beyond(s, k)
        BY <1>3, <2>1
      <4> QED
        BY <3>1, <4>1, BeyondParts
    <3>3. \A i \in 1..Len(rd') : k + i \in 1..Len(s)
      BY <3>1, <3>2
    <3> QED
      BY <1>1, <2>2, <3>2, <3>3 DEF Responses
  <2>4. Responses(chunk)'
    BY <1>1, <1>2, SameMessages DEF Neat
  <2>5. \A i \in 1..Len(wire) : Tidy(wire[i])'
    <3>1. PICK w : w = wire
      OBVIOUS
    <3>2. \A i \in 1..Len(w) : Tidy(w[i])'
      BY <1>1, <1>2, <3>1, SameMessages DEF Neat
    <3> QED
      BY <1>1, <3>1, <3>2
  <2> QED
    BY <1>1, <2>3, <2>4, <2>5 DEF Neat
<1>11. PICK x \in Seq(AnyPiece) : x = message' /\ Len(x) = u + k /\ Len(x) <= l /\ x[1].of = m
  <2>1. \A i : [of |-> i, n |-> 1].of = i
    OBVIOUS
  <2> QED
    <3>1. message' \in Seq(AnyPiece) /\ message'[1] = [of |-> m, n |-> 1]
          /\ Len(message') = Len(message) + k /\ Len(message') <= sent[m].length
      BY <1>3
    <3>2. message'[1].of = m
      BY <2>1, <3>1
    <3> QED
      BY <1>6, <1>8, <3>1, <3>2
<1>12. g + Len(x) = b
  <2>1. g + (u + k) = a + k
    BY <1>7
  <2> QED
    BY <1>3, <1>11, <2>1
<1>13. \A i \in 1..t : taken[i] = Message(i)'
  BY <1>1, <1>5, SameMessages
<1>14. CASE Len(x) >= l
  <2>1. Len(x) = l /\ x = Message(t + 1)
    <3>1. Len(x) = l
      BY <1>11, <1>14
    <3> QED
      BY <1>3, <1>8, <1>9, <1>11, <3>1
  <2>2. place' = "peek" /\ taken' = Append(taken, Message(t + 1))
    BY <1>8, <1>11, <1>14, <2>1 DEF ReadResponse, ReadResponseTo
  <2>3. Len(taken') = t + 1 /\ \A i \in 1..(t + 1) : taken'[i] = Message(i)
    BY <1>4, <1>5, <1>9, <2>2, HandOver
  <2>4. \A i \in 1..(t + 1) : taken'[i] = Message(i)'
    BY <1>1, <2>3, SameMessages
  <2>5. st[(t + 1) + 1] = b /\ t + 1 <= N
    <3>1. st[m + 1] = st[m] + Len(Message(m)) /\ Len(Message(m)) = sent[m].length
      BY MessageRun, MessageParts DEF Stream
    <3>2. st[m + 1] = g + l
      BY <1>6, <1>7, <1>8, <3>1
    <3> QED
      BY <1>4, <1>9, <1>12, <2>1, <3>2
  <2>6. Whole(st, b)'
    BY <1>1, <1>4, <1>5, <2>2, <2>3, <2>4, <2>5 DEF Whole
  <2> QED
    BY <1>10, <2>6
<1>15. CASE ~(Len(x) >= l)
  <2>1. UNCHANGED <<place, taken>>
    BY <1>8, <1>11, <1>15 DEF ReadResponse, ReadResponseTo
  <2>2. st[t + 1] + Len(message') = b
    BY <1>6, <1>11, <1>12
  <2>3. Whole(st, b)'
    BY <1>1, <1>4, <1>5, <1>13, <2>1, <2>2 DEF Whole
  <2> QED
    BY <1>10, <2>3
<1> QED
  BY <1>14, <1>15

-----------------------------------------------------------------------------
(* FlattenSeq.  Induction goes by the least counterexample. *)

LEMMA LeastOf ==
  ASSUME NEW T \in SUBSET Nat, T # {}
  PROVE  \E n \in T : \A m \in T : n <= m
<1> DEFINE R == OpToRel(<, Nat)
<1>1. IsWellFoundedOn(R, Nat)
  BY NatLessThanWellFounded
<1>2. \A m, n \in Nat : m < n => <<m, n>> \in R
  BY DEF OpToRel
<1> HIDE DEF R
<1>3. PICK n \in T : \A m \in T : <<m, n>> \notin R
  BY <1>1, WFMin
<1>4. ASSUME NEW m \in T PROVE n <= m
  <2>1. m \in Nat /\ n \in Nat /\ ~(m < n)
    BY <1>2, <1>3
  <2> QED
    BY <2>1
<1> QED
  BY <1>4

\* A set with 0 and with the successor of each of its numbers has all numbers.
LEMMA Induction ==
  ASSUME NEW S, 0 \in S, \A n \in Nat : n \in S => n + 1 \in S
  PROVE  Nat \subseteq S
<1> DEFINE T == {n \in Nat : n \notin S}
<1> SUFFICES ASSUME T # {} PROVE FALSE
  OBVIOUS
<1>1. PICK n \in T : \A m \in T : n <= m
  BY LeastOf
<1>2. n # 0 /\ n - 1 \in Nat /\ n - 1 \notin T
  BY <1>1
<1> QED
  BY <1>1, <1>2

\* FlattenSeq joins the first, the second and so on.
LEMMA FlattenParts ==
  ASSUME NEW S, NEW ss \in Seq(Seq(S)), ss # <<>>
  PROVE  \E f \in [1..Len(ss) -> Seq(S)] :
           /\ f[1] = ss[1] /\ \A i \in 2..Len(ss) : f[i] = f[i - 1] \o ss[i]
           /\ FlattenSeq(ss) = f[Len(ss)]
<1>1. PICK L \in Nat \ {0} : L = Len(ss)
  OBVIOUS
<1>2. \A i \in 1..L : ss[i] \in Seq(S)
  BY <1>1
<1> DEFINE Joins(g, n) ==
             /\ g \in [1..n -> Seq(S)] /\ (n >= 1 => g[1] = ss[1])
             /\ \A i \in 2..n : g[i] = g[i - 1] \o ss[i]
           Done == {n \in Nat : n <= L => \E g : Joins(g, n)}
<1>3. 0 \in Done
  <2> DEFINE g == [i \in 1..0 |-> <<>>]
  <2>1. Joins(g, 0)
    OBVIOUS
  <2> QED
    BY <2>1
<1>4. ASSUME NEW n \in Nat, n \in Done PROVE n + 1 \in Done
  <2> SUFFICES ASSUME n + 1 <= L PROVE \E g : Joins(g, n + 1)
    <3> HIDE DEF Joins
    <3> QED
      OBVIOUS
  <2>1. n <= L /\ n + 1 \in 1..L
    BY <1>1
  <2>2. PICK g : Joins(g, n)
    BY <1>4, <2>1
  <2> DEFINE new == IF n = 0 THEN ss[1] ELSE g[n] \o ss[n + 1]
             h == [i \in 1..(n + 1) |-> IF i = n + 1 THEN new ELSE g[i]]
  <2>3. new \in Seq(S)
    <3>1. n = 0 => ss[1] \in Seq(S)
      BY <1>1, <1>2
    <3>2. n # 0 => g[n] \in Seq(S) /\ ss[n + 1] \in Seq(S)
      BY <1>2, <2>1, <2>2
    <3> QED
      BY <3>1, <3>2
  <2>4. \A i \in 1..(n + 1) : i # n + 1 => i \in 1..n
    OBVIOUS
  <2>5. /\ h \in [1..(n + 1) -> Seq(S)] /\ h[n + 1] = new /\ \A i \in 1..n : h[i] = g[i]
    <3>1. \A i \in 1..n : g[i] \in Seq(S) /\ i \in 1..(n + 1) /\ i # n + 1
      BY <2>2
    <3>2. n + 1 \in 1..(n + 1)
      OBVIOUS
    <3> HIDE DEF new
    <3> QED
      BY <2>3, <2>4, <3>1, <3>2
  <2> HIDE DEF h
  <2>6. h[1] = ss[1]
    <3>1. CASE n = 0
      BY <2>5, <3>1
    <3>2. CASE n # 0
      <4>1. 1 \in 1..n /\ n >= 1
        BY <3>2
      <4> QED
        BY <2>2, <2>5, <4>1
    <3> QED
      BY <3>1, <3>2
  <2>7. ASSUME NEW i \in 2..(n + 1) PROVE h[i] = h[i - 1] \o ss[i]
    <3>1. CASE i = n + 1
      <4>1. n # 0 /\ n \in 1..n /\ i - 1 = n
        BY <3>1
      <4> QED
        BY <2>5, <3>1, <4>1
    <3>2. CASE i # n + 1
      <4>1. i \in 2..n /\ i \in 1..n /\ i - 1 \in 1..n
        BY <3>2
      <4> QED
        BY <2>2, <2>5, <4>1
    <3> QED
      BY <3>1, <3>2
  <2>8. Joins(h, n + 1)
    BY <2>5, <2>6, <2>7
  <2> QED
    BY <2>8
<1>5. PICK g : Joins(g, L)
  <2> HIDE DEF Joins
  <2>1. Nat \subseteq Done
    <3> HIDE DEF Done
    <3> QED
      BY <1>3, <1>4, Induction
  <2> QED
    BY <1>1, <2>1
<1> DEFINE Steps(f) == [i \in 1..Len(ss) |-> IF i = 1 THEN ss[i] ELSE f[i - 1] \o ss[i]]
           flat == CHOOSE f : f = Steps(f)
<1>6. g = Steps(g)
  <2>1. ASSUME NEW i \in 1..L PROVE g[i] = Steps(g)[i]
    <3>1. Steps(g)[i] = IF i = 1 THEN ss[i] ELSE g[i - 1] \o ss[i]
      BY <1>1
    <3>2. L >= 1 /\ (i # 1 => i \in 2..L)
      OBVIOUS
    <3> HIDE DEF Steps
    <3> QED
      BY <1>5, <3>1, <3>2
  <2>2. g \in [1..L -> Seq(S)] /\ Steps(g) = [i \in 1..L |-> Steps(g)[i]]
    BY <1>1, <1>5
  <2>3. g = [i \in 1..L |-> g[i]]
    BY <2>2
  <2> HIDE DEF Steps
  <2> QED
    BY <2>1, <2>2, <2>3
<1>7. flat = Steps(flat)
  <2> HIDE DEF Steps
  <2> QED
    BY <1>6, Zenon
<1>8. FlattenSeq(ss) = flat[L]
  BY <1>1 DEF FlattenSeq
<1>9. \A i \in 1..L : flat[i] = IF i = 1 THEN ss[i] ELSE flat[i - 1] \o ss[i]
  <2>1. \A i \in 1..L : Steps(flat)[i] = IF i = 1 THEN ss[i] ELSE flat[i - 1] \o ss[i]
    <3> HIDE DEF flat
    <3> QED
      BY <1>1
  <2> HIDE DEF Steps, flat
  <2> QED
    BY <1>7, <2>1
<1> HIDE DEF flat
<1> DEFINE Same == {n \in Nat : n \in 1..L => flat[n] = g[n]}
<1>10. Nat \subseteq Same
  <2>1. 0 \in Same
    OBVIOUS
  <2>2. ASSUME NEW n \in Nat, n \in Same PROVE n + 1 \in Same
    <3> SUFFICES ASSUME n + 1 \in 1..L PROVE flat[n + 1] = g[n + 1]
      OBVIOUS
    <3>1. flat[n + 1] = IF n + 1 = 1 THEN ss[n + 1] ELSE flat[n] \o ss[n + 1]
      BY <1>9
    <3>2. n # 0 => n \in 1..L /\ n + 1 \in 2..L /\ (n + 1) - 1 = n
      OBVIOUS
    <3>3. L >= 1
      OBVIOUS
    <3>4. CASE n = 0
      <4>1. g[1] = ss[1] /\ n + 1 = 1
        BY <1>5, <3>3, <3>4
      <4> QED
        BY <3>1, <4>1
    <3>5. CASE n # 0
      <4>1. flat[n] = g[n]
        BY <2>2, <3>2, <3>5
      <4>2. PICK k \in 2..L : k = n + 1 /\ k - 1 = n /\ k # 1
        BY <3>2, <3>5
      <4>3. g[k] = g[k - 1] \o ss[k]
        BY <1>5
      <4> QED
        BY <3>1, <4>1, <4>2, <4>3
    <3> QED
      BY <3>4, <3>5
  <2> HIDE DEF Same
  <2> QED
    BY <2>1, <2>2, Induction
<1>11. L \in 1..L /\ L >= 1
  OBVIOUS
<1>12. FlattenSeq(ss) = g[L]
  BY <1>8, <1>10, <1>11
<1> QED
  BY <1>1, <1>5, <1>11, <1>12

-----------------------------------------------------------------------------
(* What is on its way, put together. *)

\* s is the run of pieces between the positions x and y.
Run(st, x, y, s) ==
  s \in Seq(AnyPiece) /\ x \in Nat /\ y \in Nat /\ y = x + Len(s) /\ From(st, x, s)

LEMMA RunJoin ==
  ASSUME NEW st, NEW x, NEW y, NEW z, NEW s, NEW u, Run(st, x, y, s), Run(st, y, z, u)
  PROVE  Run(st, x, z, s \o u)
<1>1. /\ s \in Seq(AnyPiece) /\ u \in Seq(AnyPiece) /\ x \in Nat /\ y \in Nat /\ z \in Nat
      /\ y = x + Len(s) /\ z = y + Len(u) /\ Len(s) \in Nat /\ Len(u) \in Nat
  BY DEF Run
<1>2. PICK w : w = s \o u
  OBVIOUS
<1>3. /\ w \in Seq(AnyPiece) /\ Len(w) = Len(s) + Len(u)
      /\ \A i \in 1..Len(w) : w[i] = IF i <= Len(s) THEN s[i] ELSE u[i - Len(s)]
  BY <1>1, <1>2, JoinParts
<1>4. ASSUME NEW i \in 1..Len(w) PROVE Written(w[i]) /\ Position(st, w[i]) = x + i
  <2>1. CASE i <= Len(s)
    <3>1. i \in 1..Len(s) /\ w[i] = s[i]
      BY <1>1, <1>3, <2>1
    <3> QED
      BY <3>1 DEF Run, From
  <2>2. CASE ~(i <= Len(s))
    <3>1. PICK j \in 1..Len(u) : j = i - Len(s) /\ w[i] = u[j] /\ y + j = x + i
      BY <1>1, <1>3, <2>2
    <3> QED
      BY <3>1 DEF Run, From
  <2> QED
    BY <2>1, <2>2
<1>5. z = x + Len(w)
  BY <1>1, <1>3
<1> QED
  BY <1>1, <1>2, <1>3, <1>4, <1>5 DEF Run, From

LEMMA RunSplit ==
  ASSUME NEW st, NEW x, NEW z, NEW s \in Seq(AnyPiece), NEW u \in Seq(AnyPiece),
         Run(st, x, z, s \o u)
  PROVE  Run(st, x, x + Len(s), s) /\ Run(st, x + Len(s), z, u)
<1>1. PICK y \in Nat, k \in Nat, l \in Nat : k = Len(s) /\ l = Len(u) /\ y = x + k
  BY DEF Run
<1>2. PICK w : w = s \o u
  OBVIOUS
<1>3. /\ x \in Nat /\ z \in Nat /\ z = x + Len(w) /\ Len(w) = k + l
      /\ (\A i \in 1..k : w[i] = s[i]) /\ (\A i \in 1..l : w[k + i] = u[i])
  BY <1>1, <1>2, JoinParts DEF Run
<1>4. \A i \in 1..(k + l) : Written(w[i]) /\ Position(st, w[i]) = x + i
  BY <1>2, <1>3 DEF Run, From
<1>5. From(st, x, s)
  <2>1. \A i \in 1..k : i \in 1..(k + l)
    OBVIOUS
  <2> QED
    BY <1>1, <1>3, <1>4, <2>1 DEF From
<1>6. From(st, y, u)
  <2>1. \A i \in 1..l : k + i \in 1..(k + l) /\ x + (k + i) = y + i
    BY <1>1, <1>3
  <2> QED
    BY <1>1, <1>3, <1>4, <2>1 DEF From
<1>7. z = y + l
  BY <1>1, <1>3
<1> QED
  BY <1>1, <1>3, <1>5, <1>6, <1>7 DEF Run

\* There is one run between two positions.
LEMMA RunEqual ==
  ASSUME TypeOK, NEW st, Offsets(st), NEW x, NEW y, NEW s, NEW u, Run(st, x, y, s), Run(st, x, y, u)
  PROVE  s = u
<1>1. /\ s \in Seq(AnyPiece) /\ u \in Seq(AnyPiece) /\ x \in Nat /\ Len(s) \in Nat
      /\ Len(u) \in Nat /\ x + Len(s) = x + Len(u)
  BY DEF Run
<1>2. Len(s) = Len(u)
  BY <1>1
<1>3. ASSUME NEW i \in 1..Len(s) PROVE s[i] = u[i]
  <2>1. /\ Written(s[i]) /\ Written(u[i])
        /\ Position(st, s[i]) = Position(st, u[i])
    BY <1>2 DEF Run, From
  <2> QED
    BY <2>1, OnePosition
<1> QED
  BY <1>1, <1>2, <1>3, SameSequence

\* Runs one after the other are a run.
LEMMA FlattenRuns ==
  ASSUME NEW st, NEW ss \in Seq(Seq(AnyPiece)), NEW c, c[1] \in Nat,
         \A i \in 1..Len(ss) : Run(st, c[i], c[i + 1], ss[i])
  PROVE  Run(st, c[1], c[Len(ss) + 1], FlattenSeq(ss))
<1>1. CASE ss = <<>>
  <2>1. FlattenSeq(ss) = <<>> /\ Len(ss) = 0 /\ 0 + 1 = 1
    BY <1>1 DEF FlattenSeq
  <2>2. \A x \in Nat : Run(st, x, x, <<>>)
    BY DEF Run, From
  <2> QED
    BY <2>1, <2>2
<1>2. CASE ss # <<>>
  <2>1. PICK L \in Nat \ {0} : L = Len(ss)
    BY <1>2
  <2>2. PICK f \in [1..L -> Seq(AnyPiece)] :
          /\ f[1] = ss[1] /\ \A i \in 2..L : f[i] = f[i - 1] \o ss[i]
          /\ FlattenSeq(ss) = f[L]
    BY <1>2, <2>1, FlattenParts
  <2> DEFINE Done == {n \in Nat : n \in 1..L => Run(st, c[1], c[n + 1], f[n])}
  <2>3. 0 \in Done
    OBVIOUS
  <2>4. ASSUME NEW n \in Nat, n \in Done PROVE n + 1 \in Done
    <3> SUFFICES ASSUME n + 1 \in 1..L PROVE Run(st, c[1], c[(n + 1) + 1], f[n + 1])
      OBVIOUS
    <3>1. PICK k \in 1..L : k = n + 1
      OBVIOUS
    <3>2. Run(st, c[k], c[k + 1], ss[k])
      BY <2>1
    <3>3. CASE n = 0
      <4>1. k = 1
        BY <3>1, <3>3
      <4> QED
        BY <2>2, <3>1, <3>2, <4>1
    <3>4. CASE n # 0
      <4>1. n \in 1..L /\ k \in 2..L /\ k - 1 = n
        BY <3>1, <3>4
      <4>2. f[k] = f[n] \o ss[k]
        BY <2>2, <4>1
      <4>3. Run(st, c[1], c[k], f[n])
        BY <2>4, <3>1, <4>1
      <4> QED
        BY <3>1, <3>2, <4>2, <4>3, RunJoin
    <3> QED
      BY <3>3, <3>4
  <2>5. L \in Done
    <3> HIDE DEF Done
    <3> QED
      BY <2>3, <2>4, Induction
  <2> QED
    BY <2>1, <2>2, <2>5
<1> QED
  BY <1>1, <1>2

\* A buffer or chunk is a run.
LEMMA PiecesRun ==
  ASSUME NEW st, NEW x \in Nat, NEW s \in Seq(Pieces), From(st, x, s)
  PROVE  Run(st, x, x + Len(s), s)
BY AnySequence DEF Run

\* What the loop has of the message it is reading.
LEMMA CurrentRun ==
  ASSUME TypeOK, NEW st, NEW a, NEW cut, Stream(st, a, cut), Whole(st, a)
  PROVE  \E p : Run(st, st[Len(taken) + 1], p, Current) /\ Run(st, p, a, rb)
<1>1. PICK t \in Nat, N \in Nat : t = Len(taken) /\ N = Len(sent)
  BY DEF TypeOK
<1>2. PICK b \in Nat : b = st[t + 1]
  <2>1. t + 1 \in 1..(N + 1)
    BY <1>1 DEF Whole
  <2> QED
    BY <1>1, <2>1 DEF Stream, Offsets
<1>3. /\ a \in Nat /\ message \in Seq(AnyPiece) /\ rb \in Seq(AnyPiece) /\ Len(message) \in Nat
      /\ rd \in Seq(Pieces) /\ rd \in Seq(AnyPiece) /\ From(st, a, rd)
  BY AnySequence DEF TypeOK, Stream, Unread
<1>4. \A x \in Nat : Run(st, x, x, <<>>)
  BY DEF Run, From
<1>5. CASE place = "peek"
  <2>1. Current = <<>> /\ rb = <<>> /\ b = a
    BY <1>1, <1>2, <1>5 DEF Current, Whole
  <2> QED
    BY <1>1, <1>2, <1>4, <2>1
<1>6. CASE place = "response"
  <2>1. Current = message /\ rb = <<>> /\ b + Len(message) = a
    BY <1>1, <1>2, <1>6 DEF Current, Whole
  <2>2. From(st, b, message)
    <3>1. CASE message = <<>>
      BY <3>1 DEF From
    <3>2. CASE message # <<>>
      <4>1. PICK m \in 1..N :
              /\ m = message[1].of /\ Len(message) < sent[m].length
              /\ \A i \in 1..Len(message) : message[i] = [of |-> m, n |-> i]
              /\ st[m] + Len(message) = a
        BY <1>1, <1>6, <3>2 DEF Stream, Responding
      <4>2. st[m] \in Nat /\ st[m] = b /\ sent[m].length \in Nat
        <5>1. st[m] \in Nat /\ sent[m].length \in Nat
          BY <1>1, MessageRun, SentMessage DEF Stream
        <5> QED
          BY <1>3, <2>1, <4>1, <5>1
      <4>3. From(st, st[m], Message(m))
        BY <1>1, MessageRun DEF Stream
      <4>4. /\ Len(Message(m)) = sent[m].length
            /\ \A i \in 1..sent[m].length : Message(m)[i] = [of |-> m, n |-> i]
        BY <1>1, MessageParts
      <4>5. \A i \in 1..Len(message) : i \in 1..sent[m].length
        BY <1>3, <4>1, <4>2
      <4> QED
        BY <4>1, <4>2, <4>3, <4>4, <4>5, ZenonT(30) DEF From
    <3> QED
      BY <3>1, <3>2
  <2>3. Run(st, b, a, message)
    BY <1>2, <1>3, <2>1, <2>2 DEF Run
  <2> QED
    BY <1>1, <1>2, <1>3, <1>4, <2>1, <2>3
<1>7. CASE place = "event"
  <2>1. Current = message /\ t + 1 \in 1..N /\ t < N
    BY <1>1, <1>7 DEF Current, Whole
  <2>2. /\ From(st, b, Message(t + 1)) /\ st[t + 2] = b + Len(Message(t + 1))
        /\ Message(t + 1) \in Seq(Pieces)
    <3>1. (t + 1) + 1 = t + 2
      BY <1>1
    <3> QED
      BY <1>1, <1>2, <2>1, <3>1, MessageRun, MessageParts DEF Stream
  <2>3. Run(st, b, st[t + 2], Message(t + 1))
    BY <1>2, <2>2, PiecesRun
  <2>4. CASE fresh
    <3>1. rb = <<>> /\ Len(message) = 1 /\ message \o rd = Message(t + 1) /\ b + 1 = a
      BY <1>1, <1>2, <1>7, <2>4 DEF Whole
    <3>2. Run(st, b, b + Len(message), message)
      <4>1. Run(st, b, st[t + 2], message \o rd)
        BY <2>3, <3>1
      <4>2. message \in Seq(AnyPiece) /\ rd \in Seq(AnyPiece)
        BY <1>3
      <4> QED
        BY <4>1, <4>2, RunSplit
    <3>3. Run(st, b, a, message)
      BY <3>1, <3>2
    <3> QED
      BY <1>1, <1>2, <1>3, <1>4, <2>1, <3>1, <3>3
  <2>5. CASE ~fresh
    <3>1. message \o rb = Message(t + 1) /\ st[t + 2] = a
      BY <1>1, <1>7, <2>5 DEF Whole
    <3>2. Run(st, b, b + Len(message), message) /\ Run(st, b + Len(message), a, rb)
      BY <1>3, <2>3, <3>1, RunSplit
    <3> QED
      BY <1>1, <1>2, <2>1, <3>2
  <2> QED
    BY <2>4, <2>5
<1> QED
  BY <1>5, <1>6, <1>7 DEF Whole

LEMMA AllThere ==
  ASSUME TypeOK, NEW st, NEW a, NEW cut, Stream(st, a, cut), InTurn(st, a)
  PROVE  NothingLost
<1> SUFFICES ASSUME clean
             PROVE  FlattenSeq(taken) \o Current \o rb \o rd \o chunk \o FlattenSeq(wire) \o out
                      = FlattenSeq([m \in 1..Len(sent) |-> Message(m)])
  BY DEF NothingLost
<1> DEFINE all == [m \in 1..Len(sent) |-> Message(m)]
<1>1. PICK N \in Nat, t \in Nat, W \in Nat : N = Len(sent) /\ t = Len(taken) /\ W = Len(wire)
  BY DEF TypeOK
<1>2. Whole(st, a) /\ t <= N /\ Offsets(st) /\ Unread(st, a, cut)
  BY <1>1 DEF InTurn, Stream, Whole
<1>3. /\ rd \in Seq(Pieces) /\ chunk \in Seq(Pieces) /\ wire \in Seq(Seq(Pieces))
      /\ out \in Seq(Pieces) /\ taken \in Seq(Seq(AnyPiece))
  BY DEF TypeOK
<1>4. ASSUME NEW m \in 1..N PROVE Run(st, st[m], st[m + 1], Message(m))
  <2>1. Message(m) \in Seq(Pieces)
    BY <1>1, MessageParts
  <2>2. From(st, st[m], Message(m)) /\ st[m] \in Nat /\ st[m + 1] = st[m] + Len(Message(m))
    BY <1>1, <1>2, MessageRun
  <2> QED
    BY <2>1, <2>2, PiecesRun
<1>5. st[1] \in Nat
  <2>1. 1 \in 1..(N + 1)
    OBVIOUS
  <2> QED
    BY <1>1, <1>2, <2>1 DEF Offsets
<1>6. Run(st, st[1], st[t + 1], FlattenSeq(taken))
  <2>1. \A i \in 1..t : i \in 1..N /\ taken[i] = Message(i)
    BY <1>1, <1>2 DEF Whole
  <2>2. \A i \in 1..t : Run(st, st[i], st[i + 1], taken[i])
    BY <1>4, <2>1
  <2> QED
    BY <1>1, <1>3, <1>5, <2>2, FlattenRuns
<1>7. Run(st, st[1], st[N + 1], FlattenSeq(all))
  <2>1. \A m \in 1..N : Message(m) \in Seq(AnyPiece)
    BY <1>4 DEF Run
  <2>2. all \in [1..N -> Seq(AnyPiece)] /\ \A m \in 1..N : all[m] = Message(m)
    BY <1>1, <2>1
  <2> HIDE DEF all
  <2>3. all \in Seq(Seq(AnyPiece)) /\ Len(all) = N
    BY <2>2, IsSequence
  <2> QED
    BY <1>4, <1>5, <2>2, <2>3, FlattenRuns
<1>8. Run(st, a, a + Len(rd), rd)
  BY <1>2, <1>3, PiecesRun DEF Unread
<1>9. Run(st, a + Len(rd), cut[1], chunk)
  <2>1. a + Len(rd) \in Nat
    BY <1>2, <1>3 DEF Unread
  <2> QED
    BY <1>2, <1>3, <2>1, PiecesRun DEF Unread
<1>10. cut \in [1..(W + 1) -> Nat]
  BY <1>1, <1>2 DEF Unread
<1>11. Run(st, cut[1], cut[W + 1], FlattenSeq(wire))
  <2>1. ASSUME NEW i \in 1..W PROVE wire[i] \in Seq(Pieces) /\ Run(st, cut[i], cut[i + 1], wire[i])
    <3>1. i \in 1..(W + 1) /\ i \in 1..Len(wire)
      BY <1>1
    <3>2. cut[i] \in Nat
      BY <1>10, <3>1
    <3>3. \A S : wire \in Seq(S) => wire[i] \in S
      BY <3>1
    <3>4. wire[i] \in Seq(Pieces)
      BY <1>3, <3>3
    <3> QED
      BY <1>2, <3>1, <3>2, <3>4, PiecesRun DEF Unread
  <2>2. wire \in Seq(Seq(AnyPiece))
    <3>1. /\ \A i \in 1..W : wire[i] \in Seq(AnyPiece)
          /\ wire = [i \in 1..W |-> wire[i]]
      BY <1>1, <1>3, <2>1, AnySequence
    <3>2. wire \in [1..W -> Seq(AnyPiece)]
      BY <3>1
    <3> QED
      BY <3>2, IsSequence
  <2>3. cut[1] \in Nat
    BY <1>10
  <2> QED
    BY <1>1, <2>1, <2>2, <2>3, FlattenRuns
<1>12. Run(st, cut[W + 1], st[N + 1], out)
  <2>1. cut[W + 1] \in Nat
    BY <1>10
  <2> QED
    BY <1>1, <1>2, <1>3, <2>1, PiecesRun DEF Unread
<1>13. PICK p : Run(st, st[t + 1], p, Current) /\ Run(st, p, a, rb)
  BY <1>1, <1>2, CurrentRun
<1> HIDE DEF all
<1>14. Run(st, st[1], p, FlattenSeq(taken) \o Current)
  BY <1>6, <1>13, RunJoin
<1>15. Run(st, st[1], a, FlattenSeq(taken) \o Current \o rb)
  BY <1>13, <1>14, RunJoin
<1>16. Run(st, st[1], a + Len(rd), FlattenSeq(taken) \o Current \o rb \o rd)
  BY <1>8, <1>15, RunJoin
<1>17. Run(st, st[1], cut[1], FlattenSeq(taken) \o Current \o rb \o rd \o chunk)
  BY <1>9, <1>16, RunJoin
<1>18. Run(st, st[1], cut[W + 1],
           FlattenSeq(taken) \o Current \o rb \o rd \o chunk \o FlattenSeq(wire))
  BY <1>11, <1>17, RunJoin
<1>19. Run(st, st[1], st[N + 1],
           FlattenSeq(taken) \o Current \o rb \o rd \o chunk \o FlattenSeq(wire) \o out)
  BY <1>12, <1>18, RunJoin
<1> QED
  BY <1>2, <1>7, <1>19, RunEqual DEF all

-----------------------------------------------------------------------------
(* The theorems. *)

LEMMA StreamInit == Init => \E st, a, cut : Stream(st, a, cut) /\ InTurn(st, a)
<1> SUFFICES ASSUME Init PROVE \E st, a, cut : Stream(st, a, cut) /\ InTurn(st, a)
  OBVIOUS
<1> DEFINE z == [i \in 1..1 |-> 0]
<1>1. z \in [1..1 -> Nat] /\ z[1] = 0
  BY 1 \in 1..1
<1> HIDE DEF z
<1>2. /\ sent = <<>> /\ out = <<>> /\ wire = <<>> /\ chunk = <<>> /\ rd = <<>> /\ rb = <<>>
      /\ place = "peek" /\ taken = <<>>
  BY DEF Init
<1>3. /\ Len(sent) = 0 /\ Len(out) = 0 /\ Len(wire) = 0 /\ Len(chunk) = 0 /\ Len(rd) = 0
      /\ Len(taken) = 0
  BY <1>2
<1>4. (\A i \in 1..0 : FALSE) /\ 0 + 1 = 1 /\ 0 + 0 = 0
  OBVIOUS
<1>5. Offsets(z)
  BY <1>1, <1>3, <1>4 DEF Offsets
<1>6. Unread(z, 0, z)
  BY <1>1, <1>3, <1>4 DEF Unread, From
<1>7. Taken(z, 0) /\ Responding(z, 0) /\ Receiving(z, 0)
  BY <1>2, <1>3, <1>4 DEF Taken, Responding, Receiving
<1>8. Neat /\ Whole(z, 0)
  BY <1>1, <1>2, <1>3, <1>4 DEF Neat, Responses, Whole
<1> QED
  BY <1>5, <1>6, <1>7, <1>8 DEF Stream, InTurn

LEMMA StreamNext ==
  ASSUME ReadInv, [Next]_vars
  PROVE  (\E st, a, cut : Stream(st, a, cut) /\ InTurn(st, a))'
<1>1. PICK st, a, cut : Stream(st, a, cut) /\ InTurn(st, a)
  BY DEF ReadInv
<1>2. TypeOK
  BY DEF ReadInv
<1>3. CASE \E k \in Kinds, l \in Lengths : Write(k, l)
  <2>1. PICK k \in Kinds, l \in Lengths : Write(k, l)
    BY <1>3
  <2>2. PICK s : Stream(s, a, cut)' /\ \A m \in 1..(Len(sent) + 1) : s[m] = st[m]
    BY <1>1, <1>2, <2>1, WriteStream
  <2>3. InTurn(s, a)'
    BY <1>1, <1>2, <2>1, <2>2, WriteInTurn
  <2> QED
    BY <2>2, <2>3
<1>4. CASE Seal
  <2>1. PICK c : Stream(st, a, c)'
    BY <1>1, <1>2, <1>4, SealStream
  <2>2. InTurn(st, a)'
    BY <1>1, <1>2, <1>4, SealInTurn
  <2> QED
    BY <2>1, <2>2
<1>5. CASE Fill
  <2>1. PICK c : Stream(st, a, c)'
    BY <1>1, <1>2, <1>5, FillStream
  <2>2. InTurn(st, a)'
    BY <1>1, <1>2, <1>5, FillInTurn
  <2> QED
    BY <2>1, <2>2
<1>14. CASE Misled
  <2>1. Stream(st, a, cut)'
    BY <1>1, <1>2, <1>14, MisledStream
  <2>2. InTurn(st, a)'
    BY <1>14 DEF Misled, InTurn
  <2> QED
    BY <2>1, <2>2
<1>6. CASE PeekEvent
  <2>1. Stream(st, a + 1, cut)'
    BY <1>1, <1>2, <1>6, PeekEventStream
  <2>2. InTurn(st, a + 1)'
    BY <1>1, <1>2, <1>6, PeekEventInTurn
  <2> QED
    BY <2>1, <2>2
<1>7. CASE PeekResponse
  <2>1. Stream(st, a, cut)'
    BY <1>1, <1>2, <1>7, PeekResponseStream
  <2>2. InTurn(st, a)'
    BY <1>1, <1>2, <1>7, PeekResponseInTurn
  <2> QED
    BY <2>1, <2>2
<1>8. CASE PeekOther
  <2>1. Stream(st, a + 1, cut)'
    BY <1>1, <1>2, <1>8, PeekOtherStream
  <2>2. InTurn(st, a + 1)'
    BY <1>1, <1>2, <1>8, PeekOtherInTurn
  <2> QED
    BY <2>1, <2>2
<1>9. CASE ReadEvent
  <2>1. Stream(st, a, cut)'
    BY <1>1, <1>2, <1>9, ReadEventStream
  <2>2. InTurn(st, a)'
    BY <1>1, <1>2, <1>9, ReadEventInTurn
  <2> QED
    BY <2>1, <2>2
<1>10. CASE BadHeader
  <2>1. Stream(st, a, cut)'
    BY <1>1, <1>2, <1>10, BadHeaderStream
  <2>2. InTurn(st, a)'
    BY <1>1, <1>2, <1>10, BadHeaderInTurn
  <2> QED
    BY <2>1, <2>2
<1>11. CASE Transform
  <2>1. PICK b : Stream(st, b, cut)' /\ b = a + Len(Prefix(rd, IF fresh THEN Size ELSE Size - 1))
    BY <1>1, <1>2, <1>11, TransformStream
  <2>2. InTurn(st, b)'
    BY <1>1, <1>2, <1>11, <2>1, TransformInTurn
  <2> QED
    BY <2>1, <2>2
<1>12. CASE ReadResponse
  <2>1. PICK b : Stream(st, b, cut)' /\ b = a + Len(Reads(rd))
    BY <1>1, <1>2, <1>12, ReadResponseStream
  <2>2. InTurn(st, b)'
    BY <1>1, <1>2, <1>12, <2>1, ReadResponseInTurn
  <2> QED
    BY <2>1, <2>2
<1>13. CASE UNCHANGED vars
  <2>1. UNCHANGED <<sent, out, wire, chunk, rd, rb, place, message, fresh, taken, clean>>
    BY <1>13 DEF vars, accessoryVars, loopVars
  <2>2. Offsets(st)' /\ Unread(st, a, cut)'
    BY <1>1, <2>1, SameUnread
  <2>3. Taken(st, a)'
    BY <1>1, <2>1, SameTaken DEF Stream
  <2>4. Responding(st, a)' /\ Receiving(st, a)'
    BY <1>1, <2>1 DEF Stream, Responding, Receiving, TakenBefore, Begins, Written
  <2>5. (Neat' <=> Neat) /\ (Whole(st, a)' <=> Whole(st, a))
    <3>1. /\ \A m : Message(m)' = Message(m)
          /\ \A s : Tidy(s)' <=> Tidy(s)
          /\ \A s : Responses(s)' <=> Responses(s)
      BY <2>1, SameMessages
    <3>2. Neat' <=> Neat
      BY <2>1, <3>1 DEF Neat
    <3>3. Whole(st, a)' <=> Whole(st, a)
      BY <2>1, <3>1 DEF Whole
    <3> QED
      BY <3>2, <3>3
  <2> QED
    BY <1>1, <2>1, <2>2, <2>3, <2>4, <2>5 DEF Stream, InTurn
<1> QED
  BY <1>3, <1>4, <1>5, <1>6, <1>7, <1>8, <1>9, <1>10, <1>11, <1>12, <1>13, <1>14 DEF Next, Loop

\* What the loop holds and what is on its way are runs of one stream, each from
\* where the one before it ends, whatever the chunks and the buffers (conn.go).
THEOREM Invariance == Spec => []ReadInv
<1>1. Init => ReadInv
  BY TypeInit, StreamInit DEF ReadInv
<1>2. ReadInv /\ [Next]_vars => ReadInv'
  BY TypeNext, StreamNext DEF ReadInv
<1> QED
  BY <1>1, <1>2, PTL DEF Spec

\* The variables have their types, and rb holds no more than its size.
THEOREM TypeCorrect == Spec => []TypeOK
<1>1. ReadInv => TypeOK
  BY DEF ReadInv
<1> QED
  BY <1>1, Invariance, PTL

\* For any lengths, cuts and buffer: a response that is handed to a caller is one
\* that was sent, whole, and after everything handed over before (conn.go:99).
THEOREM ResponsesWholeAlways == Spec => []ResponsesWhole
<1>1. ReadInv => ResponsesWhole
  BY DEF ReadInv, Stream, Taken, ResponsesWhole
<1> QED
  BY <1>1, Invariance, PTL

\* For any lengths, cuts and buffer: nothing that the accessory writes is lost,
\* added or moved while events come in chunks of their own and conn.Read has not
\* said io.EOF, as it does after a buffer filled to the last byte (conn.go:99,
\* conn.go:241).
THEOREM NothingLostAlways == Spec => []NothingLost
<1>1. ReadInv => NothingLost
  BY AllThere DEF ReadInv
<1> QED
  BY <1>1, Invariance, PTL
=============================================================================
