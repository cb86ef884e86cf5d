------------------------------ MODULE Messages ------------------------------
(***************************************************************************)
(* What the other side makes of a message: structs through the TLV8 codec, *)
(* beside lists of pairings (Listing).                                     *)
(*                                                                         *)
(* The sender may write the fields of a struct in any order, as accessories *)
(* do, and the message may be cut off anywhere.                            *)
(***************************************************************************)
EXTENDS Tlv8, Listing

CONSTANT Structs   \* structs that are sent

Init == ListInit \/ (form = "struct" /\ sent \in Structs /\ Unsent)

-----------------------------------------------------------------------------
\* A struct, its fields in any order.
Send ==
  /\ form = "struct" /\ place = "new" /\ place' = "wire"
  /\ \E order \in SetToSeqs(DOMAIN sent) : wire' = Marshal([i \in DOMAIN sent |-> sent[order[i]]])
  /\ UNCHANGED <<form, sent, cut, loopVars, got>>

Receive ==
  /\ form = "struct" /\ place = "wire" /\ place' = "done"
  /\ got' = Unmarshal(wire, sent)
  /\ UNCHANGED <<form, sent, wire, cut, loopVars>>

Next == Send \/ Receive \/ ListNext

Spec == Init /\ [][Next]_listVars

-----------------------------------------------------------------------------
(* Properties. *)

RECURSIVE Lossless(_)

\* What the format does not keep: more than 32 bits of an int64, a float32,
\* elements without content, elements of a slice with a tag of its own that
\* need more than one item (but for the first), elements of a slice without
\* one that are zero or, if there are several, of more than one item.
Kept(f) ==
  CASE f.kind = "int64"   -> f.val = TwosComplement(LittleEndian(f.val, 4), 4)
    [] f.kind = "float32" -> f.val = 0
    [] f.kind = "struct"  -> Lossless(f.val)
    [] f.kind = "named"   ->
         \A i \in DOMAIN f.val : LET b == StructPayload(f.val[i]) IN
           Lossless(f.val[i]) /\ b # <<>> /\ (i > 1 => Len(b) <= MaxItem)
    [] f.kind = "inline"  ->
         \A i \in DOMAIN f.val : LET items(k) == Scan(StructPayload(f.val[k])).items IN
           /\ Lossless(f.val[i]) /\ f.val[i] # Zero(f.elem)
           /\ Len(f.val) > 1 => Len(items(i)) = 1 /\ items(i)[1].tag = items(1)[1].tag
    [] OTHER -> TRUE
Lossless(s) == \A i \in DOMAIN s : Kept(s[i])

\* Unmarshal gives back what Marshal was given, fragments, slices and nested
\* structs included, in whatever order the fields were written.
Returned ==
  form = "struct" /\ place = "done" /\ ~cut /\ Lossless(sent) =>
    got.err = "none" /\ got.val = sent

RECURSIVE PartOf(_, _)

\* The field g is what arrived of f.
Arrived(g, f) ==
  CASE f.kind = "bytes"  -> IsPrefix(g.val, f.val)
    [] f.kind = "struct" -> PartOf(g.val, f.val)
    [] f.kind \in {"named", "inline"} ->
         /\ Len(g.val) <= Len(f.val)
         /\ \A i \in DOMAIN g.val :
              g.val[i] = f.val[i] \/ (i = Len(g.val) /\ PartOf(g.val[i], f.val[i]))
    [] OTHER -> g.val \in {f.val, ZeroValue(f)}
PartOf(t, s) == \A i \in DOMAIN s : Arrived(t[i], s[i])

\* A message that is cut off is an error, or what is returned is a part of what
\* was sent: no field, element or nested struct has the bytes of another.
CutIsPart ==
  form = "struct" /\ place = "done" /\ cut /\ Lossless(sent) =>
    got.err # "none" \/ PartOf(got.val, sent)
=============================================================================
