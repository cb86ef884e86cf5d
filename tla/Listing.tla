------------------------------ MODULE Listing -------------------------------
(***************************************************************************)
(* The list of pairings: the accessory writes it, ListPairings             *)
(* (controller-pair-list.go) reads it item by item from the body of the    *)
(* answer.  The accessory may write fewer pairings than it has, or refuse, *)
(* and the body may end anywhere, though whole for the layers below.       *)
(***************************************************************************)
EXTENDS TlvItems

CONSTANT Lists   \* lists of pairings that an accessory has

Pairing == [Id : Seq(Nat), PublicKey : Seq(Nat), Permission : Nat]

ASSUME ListsAssumption == Lists \subseteq Seq(Pairing)

VARIABLES
  form,      \* what kind of message it is: "list"
  sent,      \* what is to be sent
  place,     \* "new", "wire", "reading" (the loop of ListPairings) or "done"
  wire,      \* its bytes
  cut,       \* the accessory refused, or the message ends early
  written,   \* pairings the accessory has written
  at,        \* the loop: where the next item is
  pp,        \* the pairing that is being read
  result,    \* those before it
  got        \* what was returned

loopVars == <<written, at, pp, result>>
listVars == <<form, sent, place, wire, cut, loopVars, got>>

Blank == [Id |-> <<>>, PublicKey |-> <<>>, Permission |-> 0]
M2    == 2

\* Nothing has been sent.
Unsent ==
  /\ place = "new" /\ wire = <<>> /\ cut = FALSE /\ got = <<>>
  /\ written = 0 /\ at = 0 /\ pp = Blank /\ result = <<>>

ListInit == form = "list" /\ sent \in Lists /\ Unsent

-----------------------------------------------------------------------------
(* The accessory. *)

State  == Item(6, <<M2>>)
Reason == Item(7, <<2>>)
PairingItems(p) == Item(1, p.Id) \o Item(3, p.PublicKey) \o Item(11, <<p.Permission>>)

SendList ==
  /\ form = "list" /\ place = "new" /\ place' = "wire"
  /\ wire' = State
  /\ UNCHANGED <<form, sent, cut, loopVars, got>>

Refuse ==
  /\ form = "list" /\ place = "new" /\ place' = "wire"
  /\ wire' = State \o Reason /\ cut' = TRUE
  /\ UNCHANGED <<form, sent, loopVars, got>>

\* The next pairing, after a separator unless it is the first.
WritePairing ==
  /\ form = "list" /\ place = "wire" /\ ~cut /\ written < Len(sent)
  /\ written' = written + 1
  /\ wire' = wire \o (IF written = 0 THEN <<>> ELSE Item(255, <<>>))
                  \o PairingItems(sent[written + 1])
  /\ UNCHANGED <<form, sent, place, cut, at, pp, result, got>>

CutOff ==
  /\ place = "wire" /\ cut' = TRUE
  /\ \E k \in 0..Len(wire)-1 : wire' = SubSeq(wire, 1, k)
  /\ UNCHANGED <<form, sent, place, loopVars, got>>

-----------------------------------------------------------------------------
(* ListPairings. *)

Return(list, err) == place' = "done" /\ got' = [list |-> list, err |-> err]

\* The first item, before the loop.
FirstError ==
  CASE wire = <<>> -> "EOF"
    [] wire # <<>> /\ Missing(wire, 1) # "none" -> Missing(wire, 1)
    [] wire # <<>> /\ Missing(wire, 1) = "none" ->
         IF wire[1] # 6 /\ wire[3] # M2 THEN "wrong response" ELSE "none"

ReceiveList ==
  /\ form = "list" /\ place = "wire"
  /\ \/ FirstError # "none" /\ Return(<<>>, FirstError) /\ UNCHANGED at
     \/ /\ FirstError = "none" /\ place' = "reading" /\ at' = ItemEnd(wire, 1) + 1
        /\ UNCHANGED got
  /\ pp' = Blank /\ result' = <<>>
  /\ UNCHANGED <<form, sent, wire, cut, written>>

\* pp with an item.
Set(tag, v) ==
  CASE tag = 1  -> [pp EXCEPT !.Id = v]
    [] tag = 3  -> [pp EXCEPT !.PublicKey = v]
    [] tag = 11 -> [pp EXCEPT !.Permission = v[1]]
    [] OTHER    -> pp

NotReset  == pp                                         \* mutant: the next one inherits
Separated == Blank

\* The loop at a separator, of which it does not read a value.
Separator ==
  /\ place = "reading" /\ at < Len(wire) /\ wire[at] = 255
  /\ result' = Append(result, pp) /\ pp' = Separated /\ at' = at + 2
  /\ UNCHANGED <<form, sent, place, wire, cut, written, got>>

ReadItem ==
  /\ place = "reading" /\ at < Len(wire) /\ wire[at] # 255 /\ Missing(wire, at) = "none"
  /\ pp' = Set(wire[at], SubSeq(wire, at + 2, ItemEnd(wire, at)))
  /\ at' = ItemEnd(wire, at) + 1
  /\ UNCHANGED <<form, sent, place, wire, cut, written, result, got>>

\* io.EOF ends the list anywhere: before a tag, a length or a value.
EndOfList ==
  /\ place = "reading"
  /\ at < Len(wire) => wire[at] # 255 /\ Missing(wire, at) = "EOF"
  /\ Return(Append(result, pp), "none")
  /\ UNCHANGED <<form, sent, wire, cut, loopVars>>

\* In a value there is less than its length.
TornItem ==
  /\ place = "reading" /\ at < Len(wire) /\ wire[at] # 255
  /\ Missing(wire, at) = "ErrUnexpectedEOF"
  /\ Return(<<>>, "ErrUnexpectedEOF")
  /\ UNCHANGED <<form, sent, wire, cut, loopVars>>

ListNext ==
  \/ SendList \/ Refuse \/ WritePairing \/ CutOff \/ ReceiveList
  \/ Separator \/ ReadItem \/ EndOfList \/ TornItem

ListSpec == ListInit /\ [][ListNext]_listVars

-----------------------------------------------------------------------------
(* Properties. *)

\* ListPairings returns the accessory's pairings, each with its own key, if
\* the whole list arrives.
ListedInFull ==
  form = "list" /\ place = "done" /\ ~cut /\ written = Len(sent) /\ sent # <<>> =>
    got = [list |-> sent, err |-> "none"]

\* Of a list that is cut off all but the last are whole, and the last is a part
\* of the pairing in its place: none has the key of another.
ListedIsPart ==
  form = "list" /\ place = "done" /\ got.err = "none" =>
    \A i \in DOMAIN got.list : LET p == got.list[i] IN
      \/ i \in DOMAIN sent /\ p = sent[i]
      \/ i = Len(got.list) /\ p = Blank
      \/ /\ i = Len(got.list) /\ i \in DOMAIN sent
         /\ p.Id = sent[i].Id /\ p.PublicKey \in {sent[i].PublicKey, <<>>} /\ p.Permission = 0

\* A whole list is returned in full, and no list is mixed up.
Listed == ListedInFull /\ ListedIsPart
=============================================================================
