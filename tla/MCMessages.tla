----------------------------- MODULE MCMessages -----------------------------
(* Instances of Messages for TLC: bytes have two bits, items eight bytes. *)
EXTENDS Messages

Field(tag, kind, v) == [tag |-> tag, kind |-> kind, val |-> v]

\* Byte strings that are told apart: the first n of 0, 1, 2, 3, 0, ...
Str(n) == [i \in 1..n |-> i % Base]

\* Around the bounds of the widths.
Edges(w) ==
  {n \in {0, 1} \cup UNION {{Base^k - 1, Base^k, Base^k \div 2} : k \in 1..7} : n < Base^w}
Signs(w) ==
  {n \in UNION {{k, -k, -k - 1} : k \in Edges(w)} : 2 * n < Base^w /\ -(2 * n) <= Base^w}

Numbers ==
  UNION {{<<Field(1, k, n)>> :
            n \in IF k \in SignedKinds THEN Signs(Width[k]) ELSE Edges(Width[k])} :
              k \in DOMAIN Width}
Floats  == {<<Field(1, "float32", n)>> : n \in {0, 1}}

Elem1(n)    == <<Field(1, "bytes", Str(n))>>
Elem2(n, b) == <<Field(1, "bytes", Str(n)), Field(2, "uint8", b)>>
Elem3(n, m) == <<Field(1, "bytes", Str(n)), Field(2, "bytes", Str(m))>>

UpTo(n, S)     == UNION {[1..k -> S] : k \in 0..n}
Named(l, elem)  == [tag |-> 10, kind |-> "named", val |-> l, elem |-> elem]
Inline(l, elem) == [tag |-> 0, kind |-> "inline", val |-> l, elem |-> elem]

\* Fields that take no item, part of one, a whole one, and several.
Strings == {<<Field(1, "bytes", Str(n)), Field(6, "uint8", b), Field(0, "bytes", Str(m))>> :
              n \in {0, 7, 8, 9, 16, 17}, b \in {0, 3}, m \in {0, 9}}
Nested  == {<<[tag |-> 3, kind |-> "struct", val |-> Elem2(n, b)], Field(4, "bool", t)>> :
              n \in {0, 2, 3, 4, 8, 9}, b \in {0, 1}, t \in BOOLEAN}
Slices  ==
  UNION {{<<Named(l, Elem1(0)), Field(4, "uint16", 5)>>,
          <<Inline(l, Elem1(0)), Field(4, "uint16", 5)>>} :
           l \in UpTo(2, {Elem1(n) : n \in {0, 1, 6, 9}})}
Slices2 ==
  UNION {{<<Named(l, Elem2(0, 0))>>, <<Inline(l, Elem2(0, 0))>>} :
           l \in UpTo(2, {Elem2(0, 1), Elem2(2, 0), Elem2(3, 3), Elem2(8, 2)})}
Slices3 ==
  UNION {{<<Named(l, Elem3(0, 0))>>, <<Inline(l, Elem3(0, 0))>>} :
           l \in UpTo(3, {Elem3(2, 0), Elem3(0, 3)})}
Both    == {<<Named(l, Elem1(0)), Inline(k, Elem1(0))>> :
              l \in UpTo(2, {Elem1(1), Elem1(7)}), k \in UpTo(3, {Elem1(2), Elem1(3)})}

MCStructs ==
  Numbers \cup Floats \cup Strings \cup Nested \cup Slices \cup Slices2 \cup Slices3 \cup Both

MCPairings == [Id : {Str(1), Str(3)}, PublicKey : {Str(2), Str(8)}, Permission : {0, 1}]
MCLists    ==
  UpTo(2, MCPairings) \cup [1..3 -> {p \in MCPairings : p.Permission = 1 /\ Len(p.Id) = 1}]
=============================================================================
