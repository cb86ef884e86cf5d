------------------------------ MODULE TlvItems ------------------------------
(***************************************************************************)
(* The items of TLV8 (tlv8/writer.go, reader.go): how a value is written   *)
(* as items, each a tag, a length and that many bytes, and how the items   *)
(* of a message are read and put together by tag.                          *)
(***************************************************************************)
EXTENDS Integers, SequencesExt

CONSTANT MaxItem   \* the most bytes in an item: 255

ASSUME ItemAssumption == MaxItem \in Nat \ {0}

-----------------------------------------------------------------------------
(* The writer. *)

Item(tag, v) == <<tag, Len(v)>> \o v

FullFragments(v) == Len(v) \div MaxItem                 \* mutant: a short one is lost

\* io.ReadFull into 255 bytes until fewer come: an empty value has no item.
Fragments(v) == (Len(v) + MaxItem - 1) \div MaxItem

WriteBytes(tag, v) ==
  FlattenSeq([k \in 1..Fragments(v) |->
    Item(tag, SubSeq(v, (k - 1) * MaxItem + 1, Min({k * MaxItem, Len(v)})))])

-----------------------------------------------------------------------------
(* The reader. *)

\* Where the item at i ends, if its length is there.
ItemEnd(b, i) == i + 1 + b[i+1]

\* binary.Read of a length or a value: nothing is left, or not enough.
Missing(b, i) ==
  CASE i = Len(b) -> "EOF"
    [] i + 1 = Len(b) /\ ItemEnd(b, i) > Len(b) -> "EOF"
    [] i + 1 < Len(b) /\ ItemEnd(b, i) > Len(b) -> "ErrUnexpectedEOF"
    [] OTHER -> "none"

\* The items of b, and the error that ends them.
Scan(b) ==
  LET from[i \in 1..Len(b)+1] ==
        IF i > Len(b) THEN [items |-> <<>>, err |-> "none"]
        ELSE IF Missing(b, i) # "none" THEN [items |-> <<>>, err |-> Missing(b, i)]
        ELSE LET rest == from[ItemEnd(b, i) + 1]
                 item == [tag |-> b[i], v |-> SubSeq(b, i + 2, ItemEnd(b, i))]
             IN [rest EXCEPT !.items = <<item>> \o @]
  IN from[1]

\* r.m[tag], <<>> if the tag is not there.
Buckets(m, tag) == IF tag \in DOMAIN m THEN m[tag] ELSE <<>>

\* An item joins the values of its tag: after a delimiter as a value of its
\* own, else as more of the first.
Joined(list, v, delimited) ==
  CASE list = <<>>                   -> <<v>>
    [] list # <<>> /\ delimited      -> Append(list, v)
    [] list # <<>> /\ ~delimited     -> <<list[1] \o v>>

AddUndelimited(acc, it) ==                              \* mutant
  [m |-> (it.tag :> Joined(Buckets(acc.m, it.tag), it.v, FALSE)) @@ acc.m, delimiter |-> FALSE]

Add(acc, it) ==
  [m |-> IF it.v = <<>> THEN acc.m
           ELSE (it.tag :> Joined(Buckets(acc.m, it.tag), it.v, acc.delimiter)) @@ acc.m,
   delimiter |-> it.tag = 0 /\ it.v = <<>>]

\* read: the values by tag.
Read(b) ==
  LET scan == Scan(b) IN
    [m |-> FoldLeft(Add, [m |-> <<>>, delimiter |-> FALSE], scan.items).m, err |-> scan.err]
=============================================================================
