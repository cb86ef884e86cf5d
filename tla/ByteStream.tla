----------------------------- MODULE ByteStream -----------------------------
(***************************************************************************)
(* What conn promises to the HTTP layer (conn.go:184 "Write writes bytes   *)
(* to the connection", conn.go:215 "Read reads bytes from the connection"): *)
(* a stream of bytes in one direction.  The bytes read are a prefix of the *)
(* bytes written, each once and in order, whatever is encrypted below and  *)
(* wherever the stream breaks.  A byte is its position in the stream.      *)
(* The promise ends when the numbering of the frames is spoiled.           *)
(***************************************************************************)
EXTENDS Integers, Sequences

VARIABLES written,  \* bytes given to Write so far
          read,     \* the bytes that Read returned, in order
          spoiled   \* frames were missed, or Writes have overlapped

Init == written = 0 /\ read = <<>> /\ spoiled \in BOOLEAN

\* The next n bytes of the stream after the k-th.
Run(k, n) == [i \in 1..n |-> k + i]

\* A Write may be one that overlaps another.
Write == /\ written' \in Nat /\ written' > written
         /\ spoiled' \in BOOLEAN /\ (spoiled => spoiled')
         /\ UNCHANGED read

Read == /\ \E n \in 1..(written - Len(read)) : read' = read \o Run(Len(read), n)
        /\ UNCHANGED <<written, spoiled>>

\* Nothing is promised of what is read then.
SpoiledRead == spoiled /\ UNCHANGED <<written, spoiled>>

Next == Write \/ Read \/ SpoiledRead

Spec == Init /\ [][Next]_<<written, read, spoiled>>
=============================================================================
