-------------------------------- MODULE Tlv8 --------------------------------
(***************************************************************************)
(* The TLV8 codec (tlv8/): Marshal and Unmarshal of structs, as items.     *)
(*                                                                         *)
(* A struct is the sequence of its fields, a field its tag, its kind and   *)
(* its value; elem is the struct that the elements of a slice have, of     *)
(* scalar fields in a slice without a tag of its own.  A string is a       *)
(* []byte, a pointer what it points to.  What is marshalled are bytes.     *)
(***************************************************************************)
EXTENDS TlvItems

CONSTANT Base   \* values of a byte of data: 256

ASSUME Tlv8Assumption == Base \in Nat \ {0, 1} /\ MaxItem >= 8

\* The integers, and how many bytes each has.
Width == [uint8 |-> 1, uint16 |-> 2, uint32 |-> 4, uint64 |-> 8,
          int16 |-> 2, int32 |-> 4, int64 |-> 8]
SignedKinds == {"int16", "int32", "int64"}

\* The w low bytes of n, the lowest first, and back.
LittleEndian(n, w) == [i \in 1..w |-> (n \div Base^(i-1)) % Base]
Unsigned(b, w)     == MapThenSumSet(LAMBDA i : b[i] * Base^(i-1), 1..w)
TwosComplement(b, w) ==
  LET n == Unsigned(b, w) IN IF 2 * n >= Base^w THEN n - Base^w ELSE n

-----------------------------------------------------------------------------
(* The writer. *)

\* writeInt64 writes buf[:4], writeFloat32 a buffer that it never fills.
WrittenInteger(f) == LittleEndian(f.val, IF f.kind = "int64" THEN 4 ELSE Width[f.kind])
WrittenFloat      == LittleEndian(0, 4)

\* Elements of a slice have {0, 0} between them.
Delimited(parts) ==
  FlattenSeq([i \in DOMAIN parts |-> IF i = 1 THEN parts[i] ELSE <<0, 0>> \o parts[i]])

RECURSIVE StructPayload(_)

FieldPayload(f) ==
  CASE f.kind \in DOMAIN Width -> WriteBytes(f.tag, WrittenInteger(f))
    [] f.kind = "float32"      -> WriteBytes(f.tag, WrittenFloat)
    [] f.kind = "bool"         -> Item(f.tag, IF f.val THEN <<1>> ELSE <<0>>)
    [] f.kind = "bytes"        -> WriteBytes(f.tag, f.val)
    [] f.kind = "struct"       -> WriteBytes(f.tag, StructPayload(f.val))
    [] f.kind = "named"        ->
         Delimited([i \in DOMAIN f.val |-> WriteBytes(f.tag, StructPayload(f.val[i]))])
    [] f.kind = "inline"       -> Delimited([i \in DOMAIN f.val |-> StructPayload(f.val[i])])

StructPayload(s) == FlattenSeq([i \in DOMAIN s |-> FieldPayload(s[i])])

Marshal(s) == StructPayload(s)

-----------------------------------------------------------------------------
(* The reader. *)

\* readBytes removes the value that it returns.
Rest(m, tag) == [m EXCEPT ![tag] = Tail(@)]
Eof(m)       == \A tag \in DOMAIN m : m[tag] = <<>>

\* An integer that is shorter than its field is read with the largest width it has.
ReadInteger(kind, b) ==
  LET w == Max({k \in {1, 2, 4, 8} : k <= Width[kind] /\ k <= Len(b)})
  IN IF w > 1 /\ kind \in SignedKinds THEN TwosComplement(b, w) ELSE Unsigned(b, w)

Scalar(kind, b) ==
  CASE kind \in DOMAIN Width -> ReadInteger(kind, b)
    [] kind = "float32"      -> Unsigned(b, 4)
    [] kind = "bool"         -> b[1] = 1
    [] kind = "bytes"        -> b

-----------------------------------------------------------------------------
(* The decoder. *)

RECURSIVE Zero(_)

\* The zero struct, or the value of a field in one.
ZeroValue(f) ==
  CASE f.kind \in DOMAIN Width \cup {"float32"}  -> 0
    [] f.kind = "bool"                           -> FALSE
    [] f.kind \in {"bytes", "named", "inline"}   -> <<>>
    [] f.kind = "struct"                         -> Zero(f.val)
Zero(s) == [i \in DOMAIN s |-> [s[i] EXCEPT !.val = ZeroValue(s[i])]]

RECURSIVE Decode(_, _)

\* The struct in b, a new one of the form s.
Unmarshal(b, s) ==
  LET r == Read(b) IN
    IF r.err # "none" THEN [m |-> <<>>, val |-> Zero(s), err |-> r.err] ELSE Decode(r.m, s)

RECURSIVE NamedSlice(_, _, _), InlineSlice(_, _, _)

\* Each value of the tag is an element.  One that cannot be scanned ends the
\* loop, one that cannot be decoded does unless it is the last of the message.
NamedSlice(m, f, slice) ==
  IF Buckets(m, f.tag) = <<>> THEN [m |-> m, val |-> slice, err |-> "none"]
  ELSE
    LET b    == Head(m[f.tag])
        rest == Rest(m, f.tag)
        d    == Unmarshal(b, f.elem)
        more == IF d.err = "none" THEN Append(slice, d.val) ELSE slice
    IN CASE Scan(b).err # "none" \/ Eof(rest) -> [m |-> rest, val |-> more, err |-> "none"]
         [] Scan(b).err = "none" /\ ~Eof(rest) /\ d.err = "none" -> NamedSlice(rest, f, more)
         [] OTHER -> [m |-> rest, val |-> f.val, err |-> d.err]

\* Each element takes one value of each of its tags, until one is zero.
InlineSlice(m, f, slice) ==
  LET d    == Decode(m, f.elem)
      more == Append(slice, d.val)
  IN IF d.val = Zero(f.elem) THEN [d EXCEPT !.val = slice]
     ELSE IF Eof(d.m) THEN [d EXCEPT !.val = more]
     ELSE InlineSlice(d.m, f, more)

\* One field: what is left of m, and its value.  A nested struct that ends
\* where an item is due is taken for one that is missing.
DecodeField(m, f) ==
  CASE f.kind = "named"  -> NamedSlice(m, f, <<>>)
    [] f.kind = "inline" -> InlineSlice(m, f, <<>>)
    [] f.kind \notin {"named", "inline"} /\ Buckets(m, f.tag) = <<>> ->
         [m |-> m, val |-> f.val, err |-> "none"]
    [] f.kind = "struct" /\ Buckets(m, f.tag) # <<>> ->
         LET d == Unmarshal(Head(m[f.tag]), f.val) IN
           [m |-> Rest(m, f.tag), val |-> IF d.err = "none" THEN d.val ELSE f.val,
            err |-> IF d.err = "EOF" THEN "none" ELSE d.err]
    [] OTHER -> [m |-> Rest(m, f.tag), val |-> Scalar(f.kind, Head(m[f.tag])), err |-> "none"]

AddField(acc, f) ==
  IF acc.err # "none" THEN [acc EXCEPT !.val = Append(@, f)]
  ELSE LET r == DecodeField(acc.m, f) IN
         [m |-> r.m, val |-> Append(acc.val, [f EXCEPT !.val = r.val]), err |-> r.err]

Decode(m, s) == FoldLeft(AddField, [m |-> m, val |-> <<>>, err |-> "none"], Zero(s))
=============================================================================
