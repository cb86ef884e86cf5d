----------------------------- MODULE StoreProofs -----------------------------
(***************************************************************************)
(* The files of fsStore implement the store of KeyValue, for any threads,  *)
(* keys and values: the types, the invariant that ties handles to          *)
(* directory entries, and the step by step refinement.                     *)
(*                                                                         *)
(* Then the controller over them: every step of Storer is one of           *)
(* FileStore, so that its invariant holds there; on top come whose call    *)
(* each goroutine is in (CallInv), what the file of the key pair holds     *)
(* (PairInv) and what is known of every entry (KnownInv).                  *)
(***************************************************************************)
EXTENDS Storer, FiniteSetTheorems, TLAPS

-----------------------------------------------------------------------------
(* Sequences of pieces. *)

\* A function on 1..n is a sequence of its values.
LEMMA IsSequence ==
  ASSUME NEW S, NEW n \in Nat, NEW f \in [1..n -> S]
  PROVE  f \in Seq(S) /\ Len(f) = n
OBVIOUS

\* The whole of a value: its first piece tells it from every other.
LEMMA WholePieces ==
  ASSUME NEW v \in Values
  PROVE  /\ Whole(v) \in Seq(Pieces) /\ Len(Whole(v)) = Size[v] /\ Whole(v) # <<>>
         /\ Whole(v)[1] = <<v, 1>>
<1>1. Size[v] \in Nat \ {0}
  BY StoreAssumption
<1>2. Whole(v) \in [1..Size[v] -> Pieces]
  BY <1>1 DEF Whole, Pieces
<1>3. Whole(v) \in Seq(Pieces) /\ Len(Whole(v)) = Size[v]
  BY <1>1, <1>2, IsSequence
<1>4. Whole(v)[1] = <<v, 1>>
  BY <1>1 DEF Whole
<1> QED
  BY <1>1, <1>3, <1>4

\* A value is read back from its own pieces.
LEMMA DecodeWhole ==
  ASSUME NEW v \in Values
  PROVE  Decode(Whole(v)) = v
<1>1. \A w \in Values : Whole(v) = Whole(w) => w = v
  BY WholePieces
<1> QED
  BY <1>1, WholePieces DEF Decode

\* What reading may return.
LEMMA DecodeKinds ==
  ASSUME NEW s
  PROVE  /\ Decode(s) \in Values \cup {Empty, Broken}
         /\ Decode(s) \in Values => s = Whole(Decode(s))
         /\ Decode(s) # None
         /\ Decode(s) = Empty <=> s = <<>>
<1>1. CASE s = <<>>
  BY <1>1, StoreAssumption DEF Decode
<1>2. CASE s # <<>> /\ \E v \in Values : s = Whole(v)
  <2>1. PICK v \in Values : s = Whole(v)
    BY <1>2
  <2>2. Decode(s) = v
    BY <2>1, DecodeWhole
  <2> QED
    BY <1>2, <2>1, <2>2, StoreAssumption
<1>3. CASE s # <<>> /\ ~\E v \in Values : s = Whole(v)
  BY <1>3, StoreAssumption DEF Decode
<1> QED
  BY <1>1, <1>2, <1>3

\* What a write of n pieces leaves of a file.
LEMMA OverPieces ==
  ASSUME NEW s \in Seq(Pieces), NEW v \in Values, NEW n \in 0..Size[v]
  PROVE  /\ Over(s, v, n) \in Seq(Pieces)
         /\ Len(Over(s, v, n)) = IF n > Len(s) THEN n ELSE Len(s)
         /\ \A i \in 1..Len(Over(s, v, n)) :
              Over(s, v, n)[i] = IF i <= n THEN <<v, i>> ELSE s[i]
<1> DEFINE m == IF n > Len(s) THEN n ELSE Len(s)
<1>1. Size[v] \in Nat /\ n \in Nat /\ m \in Nat
  BY StoreAssumption
<1>2. \A i \in 1..m : (IF i <= n THEN <<v, i>> ELSE s[i]) \in Pieces
  BY <1>1 DEF Pieces
<1>3. Over(s, v, n) = [i \in 1..m |-> IF i <= n THEN <<v, i>> ELSE s[i]]
  BY DEF Over
<1>4. Over(s, v, n) \in [1..m -> Pieces]
  BY <1>2, <1>3
<1>5. Over(s, v, n) \in Seq(Pieces) /\ Len(Over(s, v, n)) = m
  BY <1>1, <1>4, IsSequence
<1> QED
  BY <1>3, <1>5

\* A write that the file is not longer than leaves the value.
LEMMA OverShort ==
  ASSUME NEW s \in Seq(Pieces), NEW v \in Values, Len(s) <= Size[v]
  PROVE  Over(s, v, Size[v]) = Whole(v)
<1>1. Size[v] \in Nat
  BY StoreAssumption
<1>2. Over(s, v, Size[v]) = [i \in 1..Size[v] |-> IF i <= Size[v] THEN <<v, i>> ELSE s[i]]
  BY <1>1 DEF Over
<1> QED
  BY <1>1, <1>2 DEF Whole

\* A file whose first piece is one of v holds v, or nothing that can be read.
LEMMA OverDecoded ==
  ASSUME NEW s \in Seq(Pieces), NEW v \in Values, NEW n \in 1..Size[v]
  PROVE  Decode(Over(s, v, n)) \in {v, Broken}
<1> DEFINE o == Over(s, v, n)
<1>1. n \in 0..Size[v] /\ n >= 1 /\ n \in Nat /\ Len(s) \in Nat
  BY StoreAssumption
<1>2. Len(o) >= 1 /\ o[1] = <<v, 1>> /\ o # <<>>
  <2>1. Len(o) = IF n > Len(s) THEN n ELSE Len(s)
    BY <1>1, OverPieces
  <2>2. Len(o) \in Nat /\ Len(o) >= 1
    BY <1>1, <2>1
  <2>3. 1 \in 1..Len(o)
    BY <2>2
  <2>4. o[1] = IF 1 <= n THEN <<v, 1>> ELSE s[1]
    BY <1>1, <2>3, OverPieces
  <2>5. o[1] = <<v, 1>>
    BY <1>1, <2>4
  <2> QED
    BY <2>2, <2>5
<1>3. ASSUME Decode(o) \in Values PROVE Decode(o) = v
  <2>1. o = Whole(Decode(o))
    BY <1>3, DecodeKinds
  <2>2. o[1] = <<Decode(o), 1>>
    BY <1>3, <2>1, WholePieces
  <2> QED
    BY <1>2, <2>2
<1> QED
  BY <1>2, <1>3, DecodeKinds

\* Nor can a whole value be read of a file that was longer.
LEMMA OverLonger ==
  ASSUME NEW s \in Seq(Pieces), NEW v \in Values, Len(s) > Size[v]
  PROVE  Decode(Over(s, v, Size[v])) = Broken
<1> DEFINE o == Over(s, v, Size[v])
<1>1. Size[v] \in Nat \ {0}
  BY StoreAssumption
<1>2. Len(o) = Len(s)
  BY <1>1, OverPieces
<1>3. Decode(o) \in {v, Broken}
  BY <1>1, OverDecoded
<1>4. Decode(o) # v
  BY <1>1, <1>2, DecodeKinds, WholePieces
<1> QED
  BY <1>3, <1>4

-----------------------------------------------------------------------------
(* The invariant. *)

\* A thread has a file open while it writes or reads, and no longer.
Places ==
  \A t \in Threads :
    /\ place[t] = "write" => op[t] = "set" /\ handle[t] # 0
    /\ place[t] = "read" => op[t] = "get" /\ handle[t] # 0
    /\ place[t] \in {"idle", "open"} => handle[t] = 0
    /\ place[t] # "read" => got[t] = <<>>

\* No two keys have one file.
OneKey == \A k, l \in Keys : dir[k] = dir[l] /\ dir[k] # 0 => k = l

\* A file that is open is that of the thread's key, or of none any more.
OwnFile == \A t \in Threads, k \in Keys : handle[t] # 0 /\ dir[k] = handle[t] => k = key[t]

\* Until another call changes the key it is still that of the key.
SameFile == \A t \in Threads : handle[t] # 0 /\ ~crossed[t] => dir[key[t]] = handle[t]

\* And what a Get has read is what is there.
SameRead ==
  \A t \in Threads : place[t] = "read" /\ ~crossed[t] =>
    /\ Len(got[t]) <= Len(data[handle[t]])
    /\ \A i \in 1..Len(got[t]) : got[t][i] = data[handle[t]][i]

IndInv == TypeOK /\ Places /\ OneKey /\ OwnFile /\ SameFile /\ SameRead

LEMMA InodesPositive == 0 \notin Inodes
BY DEF Inodes

LEMMA TypeInit == Init => TypeOK
<1> SUFFICES ASSUME Init PROVE TypeOK
  OBVIOUS
<1>1. (CHOOSE k \in Keys : TRUE) \in Keys /\ (CHOOSE v \in Values : TRUE) \in Values
  BY StoreAssumption
<1>2. <<>> \in Seq(Pieces)
  OBVIOUS
<1> QED
  BY <1>1, <1>2 DEF Init, TypeOK

\* What is left of a call that returns.
LEMMA ReturnType ==
  ASSUME TypeOK, NEW t \in Threads, NEW r, Return(t, r)
  PROVE  /\ op' \in [Threads -> {"none", "set", "get", "delete"}]
         /\ key' \in [Threads -> Keys] /\ val' \in [Threads -> Values]
         /\ place' \in [Threads -> {"idle", "open", "write", "read"}]
         /\ handle' \in [Threads -> Inodes \cup {0}] /\ got' \in [Threads -> Seq(Pieces)]
         /\ \A u \in Threads : op'[u] = "none" <=> place'[u] = "idle"
BY DEF TypeOK, Return

LEMMA CrossType ==
  ASSUME TypeOK, NEW t \in Threads, Cross(t)
  PROVE  crossed' \in [Threads -> BOOLEAN]
BY Zenon DEF TypeOK, Cross

\* The type invariant, one step per operation.
LEMMA TypeNext == TypeOK /\ Places /\ [Next]_vars => TypeOK'
<1> SUFFICES ASSUME TypeOK, Places, [Next]_vars PROVE TypeOK'
  OBVIOUS
<1> USE InodesPositive
<1>1. ASSUME NEW t \in Threads, NEW o \in {"set", "get", "delete"}, NEW k \in Keys,
             NEW v \in Values, Call(t, o, k, v)
      PROVE  TypeOK'
  BY <1>1 DEF Call, TypeOK, fileVars
<1>2. ASSUME NEW t \in Threads, SetOpen(t) PROVE TypeOK'
  <2>1. place' \in [Threads -> {"idle", "open", "write", "read"}] /\ op' = op /\ place[t] = "open"
    BY <1>2 DEF SetOpen, TypeOK
  <2>2. \A u \in Threads : op'[u] = "none" <=> place'[u] = "idle"
    BY <1>2, <2>1 DEF SetOpen, TypeOK
  <2>3. CASE dir[key[t]] # 0 /\ handle' = [handle EXCEPT ![t] = dir[key[t]]]
             /\ UNCHANGED <<fileVars, crossed>>
    BY <1>2, <2>1, <2>2, <2>3 DEF SetOpen, TypeOK, fileVars
  <2>4. CASE /\ \E i \in Inodes :
                  /\ dir' = [dir EXCEPT ![key[t]] = i] /\ data' = [data EXCEPT ![i] = <<>>]
                  /\ handle' = [handle EXCEPT ![t] = i]
             /\ Cross(t)
    <3>1. /\ dir' \in [Keys -> Inodes \cup {0}] /\ data' \in [Inodes -> Seq(Pieces)]
          /\ handle' \in [Threads -> Inodes \cup {0}]
      BY <2>4 DEF TypeOK
    <3> QED
      BY <1>2, <2>1, <2>2, <2>4, <3>1, CrossType DEF SetOpen, TypeOK
  <2> QED
    BY <1>2, <2>3, <2>4 DEF SetOpen
<1>3. ASSUME NEW t \in Threads, NEW n \in 0..Size[val[t]], Write(t, n), NEW r, Return(t, r),
             faults' \in Nat
      PROVE  TypeOK'
  <2>1. handle[t] \in Inodes /\ val[t] \in Values /\ data[handle[t]] \in Seq(Pieces)
    BY <1>3 DEF Write, Places, TypeOK
  <2>2. Over(data[handle[t]], val[t], n) \in Seq(Pieces)
    BY <2>1, OverPieces
  <2>3. data' \in [Inodes -> Seq(Pieces)]
    BY <1>3, <2>1, <2>2 DEF Write, TypeOK
  <2> QED
    BY <1>3, <2>3, ReturnType, CrossType DEF Write, TypeOK
<1>4. ASSUME NEW t \in Threads, SetWrite(t) PROVE TypeOK'
  <2>1. val[t] \in Values /\ Size[val[t]] \in 0..Size[val[t]]
    BY StoreAssumption DEF TypeOK
  <2>2. faults' \in Nat
    BY <1>4 DEF SetWrite, TypeOK
  <2> QED
    BY <1>3, <1>4, <2>1, <2>2 DEF SetWrite
<1>5. ASSUME NEW t \in Threads, GetOpen(t) PROVE TypeOK'
  <2>1. CASE Return(t, None)
    BY <1>5, <2>1, ReturnType DEF GetOpen, TypeOK, fileVars
  <2>2. CASE /\ handle' = [handle EXCEPT ![t] = dir[key[t]]]
             /\ place' = [place EXCEPT ![t] = "read"] /\ UNCHANGED <<op, key, val, got, ret>>
    BY <1>5, <2>2 DEF GetOpen, TypeOK, fileVars
  <2> QED
    BY <1>5, <2>1, <2>2 DEF GetOpen
<1>6. ASSUME NEW t \in Threads, GetRead(t) PROVE TypeOK'
  <2>1. handle[t] \in Inodes /\ data[handle[t]] \in Seq(Pieces) /\ got[t] \in Seq(Pieces)
    BY <1>6 DEF GetRead, Reading, Places, TypeOK
  <2>2. CASE /\ Len(got[t]) < Len(data[handle[t]])
             /\ got' = [got EXCEPT ![t] = Append(@, data[handle[t]][Len(got[t]) + 1])]
             /\ UNCHANGED <<op, key, val, place, handle, ret>>
    <3>1. data[handle[t]][Len(got[t]) + 1] \in Pieces
      BY <2>1, <2>2
    <3>2. got' \in [Threads -> Seq(Pieces)]
      BY <2>1, <2>2, <3>1 DEF TypeOK
    <3> QED
      BY <1>6, <2>2, <3>2 DEF GetRead, Reading, TypeOK, fileVars
  <2>3. CASE Return(t, Decode(got[t]))
    BY <1>6, <2>3, ReturnType DEF GetRead, Reading, TypeOK, fileVars
  <2> QED
    BY <1>6, <2>2, <2>3 DEF GetRead, Reading
<1>7. ASSUME NEW t \in Threads, DeleteFile(t) PROVE TypeOK'
  <2>1. dir' \in [Keys -> Inodes \cup {0}]
    BY <1>7 DEF DeleteFile, TypeOK
  <2>2. crossed' \in [Threads -> BOOLEAN]
    BY <1>7, CrossType DEF DeleteFile, TypeOK
  <2> QED
    BY <1>7, <2>1, <2>2, ReturnType DEF DeleteFile, TypeOK
<1>8. ASSUME NEW t \in Threads, Fault(t) PROVE TypeOK'
  <2>1. faults' \in Nat
    BY <1>8 DEF Fault, TypeOK
  <2>2. CASE place[t] \in {"open", "read"} /\ UNCHANGED <<fileVars, crossed>>
             /\ \E r \in {"error", Decode(got[t])} : Return(t, r)
    BY <2>1, <2>2, ReturnType DEF TypeOK, fileVars
  <2>3. CASE \E n \in 0..(Size[val[t]] - 1) : Write(t, n) /\ Return(t, "error")
    <3>1. PICK n \in 0..(Size[val[t]] - 1) : Write(t, n) /\ Return(t, "error")
      BY <2>3
    <3>2. n \in 0..Size[val[t]]
      BY <3>1, StoreAssumption DEF TypeOK
    <3> QED
      BY <1>3, <2>1, <3>1, <3>2
  <2> QED
    BY <1>8, <2>2, <2>3 DEF Fault
<1>9. ASSUME Crash PROVE TypeOK'
  BY <1>9 DEF Crash, TypeOK, fileVars
<1>10. ASSUME UNCHANGED vars PROVE TypeOK'
  BY <1>10 DEF vars, fileVars, callVars, TypeOK
<1> QED
  BY <1>1, <1>2, <1>4, <1>5, <1>6, <1>7, <1>8, <1>9, <1>10 DEF Next, Step

-----------------------------------------------------------------------------

\* The shapes of a step: a call begins, returns, or opens or reads a file.
Leaves(t) == UNCHANGED <<dir, data, crossed>> /\ \E r : Return(t, r)
Writes(t) == \E r : \E n \in 0..Size[val[t]] : Write(t, n) /\ Return(t, r)
Opens(t, p) ==
  /\ dir[key[t]] # 0 /\ handle' = [handle EXCEPT ![t] = dir[key[t]]]
  /\ place' = [place EXCEPT ![t] = p] /\ UNCHANGED <<dir, data, crossed, op, key, val, got>>
Creates(t) ==
  /\ dir[key[t]] = 0 /\ Cross(t)
  /\ \E i \in Inodes :
       /\ Free(i) /\ dir' = [dir EXCEPT ![key[t]] = i] /\ data' = [data EXCEPT ![i] = <<>>]
       /\ handle' = [handle EXCEPT ![t] = i]
  /\ place' = [place EXCEPT ![t] = "write"] /\ UNCHANGED <<op, key, val, got>>
Reads(t) ==
  /\ place[t] = "read" /\ Len(got[t]) < Len(data[handle[t]])
  /\ got' = [got EXCEPT ![t] = Append(@, data[handle[t]][Len(got[t]) + 1])]
  /\ UNCHANGED <<dir, data, crossed, op, key, val, place, handle>>
Removes(t) ==
  /\ dir[key[t]] # 0 /\ dir' = [dir EXCEPT ![key[t]] = 0] /\ UNCHANGED data
  /\ Cross(t) /\ Return(t, "ok")

Shapes(t) ==
  \/ \E o \in {"set", "get", "delete"}, k \in Keys, v \in Values : Call(t, o, k, v)
  \/ Leaves(t) \/ (place[t] = "write" /\ Writes(t))
  \/ (place[t] = "open" /\ op[t] = "get" /\ Opens(t, "read"))
  \/ (place[t] = "open" /\ op[t] = "set" /\ (Opens(t, "write") \/ Creates(t)))
  \/ Reads(t) \/ Removes(t)

\* Every step of a thread has one of them.
LEMMA StepShapes ==
  ASSUME TypeOK, NEW t \in Threads, Step(t) \/ Fault(t)
  PROVE  Shapes(t)
<1>1. val[t] \in Values /\ Size[val[t]] \in Nat \ {0}
  BY StoreAssumption DEF TypeOK
<1>2. CASE SetOpen(t)
  BY <1>2 DEF SetOpen, Shapes, Opens, Creates, fileVars
<1>3. CASE SetWrite(t)
  <2>1. Size[val[t]] \in 0..Size[val[t]]
    BY <1>1
  <2>2. Write(t, Size[val[t]]) /\ Return(t, "ok") /\ place[t] = "write"
    BY <1>3 DEF SetWrite, Write
  <2>3. Writes(t)
    BY <2>1, <2>2 DEF Writes
  <2> QED
    BY <2>2, <2>3 DEF Shapes
<1>4. CASE GetOpen(t)
  <2>1. CASE Return(t, None)
    BY <1>4, <2>1 DEF GetOpen, Shapes, Leaves, fileVars
  <2>2. CASE ~Return(t, None)
    BY <1>4, <2>2 DEF GetOpen, Shapes, Opens, fileVars
  <2> QED
    BY <2>1, <2>2
<1>5. CASE GetRead(t)
  <2>1. CASE Return(t, Decode(got[t]))
    BY <1>5, <2>1 DEF GetRead, Reading, Shapes, Leaves, fileVars
  <2>2. CASE ~Return(t, Decode(got[t]))
    BY <1>5, <2>2 DEF GetRead, Reading, Shapes, Reads, fileVars
  <2> QED
    BY <2>1, <2>2
<1>6. CASE DeleteFile(t)
  <2>1. CASE dir[key[t]] # 0
    BY <1>6, <2>1 DEF DeleteFile, Shapes, Removes
  <2>2. CASE dir[key[t]] = 0
    BY <1>6, <2>2 DEF DeleteFile, Shapes, Leaves
  <2> QED
    BY <2>1, <2>2
<1>7. CASE Fault(t)
  <2>1. CASE UNCHANGED <<fileVars, crossed>> /\ \E r : Return(t, r)
    BY <2>1 DEF Shapes, Leaves, fileVars
  <2>2. CASE \E n \in 0..(Size[val[t]] - 1) : Write(t, n) /\ Return(t, "error")
    <3>1. PICK n \in 0..(Size[val[t]] - 1) : Write(t, n) /\ Return(t, "error")
      BY <2>2
    <3>2. n \in 0..Size[val[t]] /\ place[t] = "write"
      BY <1>1, <3>1 DEF Write
    <3>3. Writes(t)
      BY <3>1, <3>2 DEF Writes
    <3> QED
      BY <3>2, <3>3 DEF Shapes
  <2> QED
    BY <1>7, <2>1, <2>2 DEF Fault
<1> QED
  BY <1>2, <1>3, <1>4, <1>5, <1>6, <1>7 DEF Step

\* A thread's place says what it does and whether it has a file open.
LEMMA PlacesNext ==
  ASSUME TypeOK, Places, NEW t \in Threads, Shapes(t)
  PROVE  Places'
<1> USE InodesPositive
<1>1. CASE \E o \in {"set", "get", "delete"}, k \in Keys, v \in Values : Call(t, o, k, v)
  BY <1>1 DEF Call, TypeOK, Places
<1>2. CASE \E r : Return(t, r)
  BY <1>2 DEF Return, TypeOK, Places
<1>3. CASE place[t] = "open" /\ op[t] = "get" /\ Opens(t, "read")
  BY <1>3 DEF Opens, TypeOK, Places
<1>4. CASE place[t] = "open" /\ op[t] = "set" /\ (Opens(t, "write") \/ Creates(t))
  <2>1. CASE Opens(t, "write")
    BY <1>4, <2>1 DEF Opens, TypeOK, Places
  <2>2. CASE Creates(t)
    <3>1. PICK i \in Inodes : handle' = [handle EXCEPT ![t] = i]
      BY <2>2 DEF Creates
    <3>2. place' = [place EXCEPT ![t] = "write"] /\ op' = op /\ got' = got
      BY <2>2 DEF Creates
    <3> QED
      BY <1>4, <3>1, <3>2 DEF TypeOK, Places
  <2> QED
    BY <1>4, <2>1, <2>2
<1>5. CASE Reads(t)
  BY <1>5 DEF Reads, Places
<1> QED
  BY <1>1, <1>2, <1>3, <1>4, <1>5 DEF Shapes, Leaves, Writes, Removes

\* A new file is one that nobody refers to.
LEMMA OneKeyNext ==
  ASSUME TypeOK, OneKey, NEW t \in Threads, Shapes(t)
  PROVE  OneKey'
<1>1. CASE UNCHANGED dir
  BY <1>1 DEF OneKey
<1>2. CASE Creates(t)
  BY <1>2 DEF Creates, Free, TypeOK, OneKey
<1>3. CASE Removes(t)
  BY <1>3 DEF Removes, TypeOK, OneKey
<1> QED
  BY <1>1, <1>2, <1>3 DEF Shapes, Call, Leaves, Writes, Write, Opens, Reads, fileVars

LEMMA OwnFileNext ==
  ASSUME TypeOK, Places, OneKey, OwnFile, NEW t \in Threads, Shapes(t)
  PROVE  OwnFile'
<1> USE InodesPositive
<1>1. CASE \E o \in {"set", "get", "delete"}, k \in Keys, v \in Values : Call(t, o, k, v)
  BY <1>1 DEF Call, TypeOK, Places, OwnFile, fileVars
<1>2. CASE (\E r : Return(t, r)) /\ UNCHANGED dir
  BY <1>2 DEF Return, TypeOK, OwnFile
<1>3. CASE \E p : Opens(t, p)
  BY <1>3 DEF Opens, TypeOK, OneKey, OwnFile
<1>4. CASE Creates(t)
  BY <1>4 DEF Creates, Free, TypeOK, OwnFile
<1>5. CASE Reads(t)
  BY <1>5 DEF Reads, OwnFile
<1>6. CASE Removes(t)
  BY <1>6 DEF Removes, Return, TypeOK, OwnFile
<1> QED
  BY <1>1, <1>2, <1>3, <1>4, <1>5, <1>6 DEF Shapes, Leaves, Writes, Write

LEMMA SameFileNext ==
  ASSUME TypeOK, Places, SameFile, NEW t \in Threads, Shapes(t)
  PROVE  SameFile'
<1> USE InodesPositive
<1>1. CASE \E o \in {"set", "get", "delete"}, k \in Keys, v \in Values : Call(t, o, k, v)
  BY <1>1 DEF Call, TypeOK, Places, SameFile, fileVars
<1>2. CASE Leaves(t)
  BY <1>2 DEF Leaves, Return, TypeOK, SameFile
<1>3. CASE \E p : Opens(t, p)
  BY <1>3 DEF Opens, TypeOK, SameFile
<1>4. CASE Reads(t)
  BY <1>4 DEF Reads, SameFile
<1>5. CASE Writes(t)
  <2>1. \A u \in Threads : crossed[u] => crossed'[u]
    BY <1>5 DEF Writes, Write, Cross
  <2> QED
    BY <1>5, <2>1 DEF Writes, Write, Return, TypeOK, SameFile
<1>6. CASE Creates(t) /\ place[t] = "open" /\ op[t] = "set"
  <2>1. \A u \in Threads :
          ~crossed'[u] => ~crossed[u] /\ (u = t \/ op[u] = "none" \/ key[u] # key[t])
    BY <1>6 DEF Creates, Cross
  <2>2. \A u \in Threads : op[u] = "none" => handle[u] = 0
    BY DEF TypeOK, Places
  <2>3. PICK i \in Inodes :
          dir' = [dir EXCEPT ![key[t]] = i] /\ handle' = [handle EXCEPT ![t] = i]
    BY <1>6 DEF Creates
  <2>4. key' = key
    BY <1>6 DEF Creates
  <2> QED
    BY <2>1, <2>2, <2>3, <2>4 DEF TypeOK, SameFile
<1>7. CASE Removes(t)
  <2>1. \A u \in Threads :
          ~crossed'[u] => ~crossed[u] /\ (u = t \/ op[u] = "none" \/ key[u] # key[t])
    BY <1>7 DEF Removes, Cross
  <2>2. \A u \in Threads : op[u] = "none" => handle[u] = 0
    BY DEF TypeOK, Places
  <2>3. /\ dir' = [dir EXCEPT ![key[t]] = 0] /\ handle' = [handle EXCEPT ![t] = 0]
        /\ key' = key
    BY <1>7 DEF Removes, Return
  <2> QED
    BY <2>1, <2>2, <2>3 DEF TypeOK, SameFile
<1> QED
  BY <1>1, <1>2, <1>3, <1>4, <1>5, <1>6, <1>7 DEF Shapes

\* Whoever changes a file that another has open changes the other's key.
LEMMA SameReadNext ==
  ASSUME TypeOK, Places, OwnFile, SameFile, SameRead, NEW t \in Threads, Shapes(t)
  PROVE  SameRead'
<1> USE InodesPositive
<1>1. CASE \E o \in {"set", "get", "delete"}, k \in Keys, v \in Values : Call(t, o, k, v)
  BY <1>1 DEF Call, TypeOK, SameRead, fileVars
<1>2. CASE Leaves(t)
  BY <1>2 DEF Leaves, Return, TypeOK, SameRead
<1>3. CASE (\E p : Opens(t, p)) /\ place[t] = "open"
  <2>1. got[t] = <<>> /\ dir[key[t]] \in Inodes /\ data[dir[key[t]]] \in Seq(Pieces)
    BY <1>3 DEF Opens, Places, TypeOK
  <2> QED
    BY <1>3, <2>1 DEF Opens, TypeOK, SameRead
<1>4. CASE Reads(t)
  <2>1. \A u \in Threads : u # t => got'[u] = got[u]
    BY <1>4 DEF Reads, TypeOK
  <2>2. /\ handle[t] \in Inodes /\ data[handle[t]] \in Seq(Pieces) /\ got[t] \in Seq(Pieces)
        /\ Len(got[t]) < Len(data[handle[t]])
        /\ got'[t] = Append(got[t], data[handle[t]][Len(got[t]) + 1])
    BY <1>4 DEF Reads, Places, TypeOK
  <2>3. data[handle[t]][Len(got[t]) + 1] \in Pieces
    BY <2>2
  <2>4. Len(got'[t]) = Len(got[t]) + 1 /\ Len(got[t]) \in Nat
    BY <2>2, <2>3
  <2>5. \A i \in 1..Len(got'[t]) :
          got'[t][i] = IF i = Len(got[t]) + 1 THEN data[handle[t]][i] ELSE got[t][i]
    BY <2>2, <2>3, <2>4
  <2>6. UNCHANGED <<data, crossed, place, handle>>
    BY <1>4 DEF Reads
  <2>7. Len(data[handle[t]]) \in Nat
    BY <2>2
  <2>8. ~crossed[t] => /\ Len(got'[t]) <= Len(data[handle[t]])
                       /\ \A i \in 1..Len(got'[t]) : got'[t][i] = data[handle[t]][i]
    <3>1. ~crossed[t] => \A i \in 1..Len(got[t]) : got[t][i] = data[handle[t]][i]
      BY <1>4 DEF Reads, SameRead
    <3> QED
      BY <2>2, <2>4, <2>5, <2>7, <3>1
  <2> QED
    BY <2>1, <2>6, <2>8 DEF SameRead
<1>5. CASE Writes(t) /\ place[t] = "write"
  <2>1. /\ \A i \in Inodes : i # handle[t] => data'[i] = data[i]
        /\ \A u \in Threads : u # t => place'[u] = place[u] /\ handle'[u] = handle[u]
                                         /\ got'[u] = got[u]
        /\ place'[t] = "idle"
    BY <1>5 DEF Writes, Write, Return, TypeOK
  <2>2. \A u \in Threads :
          ~crossed'[u] => ~crossed[u] /\ (u = t \/ op[u] = "none" \/ key[u] # key[t])
    BY <1>5 DEF Writes, Write, Cross
  <2>3. ASSUME NEW u \in Threads, place[u] = "read", ~crossed'[u], u # t
        PROVE  handle[u] \in Inodes /\ handle[u] # handle[t]
    <3>1. handle[u] # 0 /\ handle[u] \in Inodes /\ op[u] # "none" /\ key[u] \in Keys
      BY <2>3 DEF Places, TypeOK
    <3>2. dir[key[u]] = handle[u] /\ key[u] # key[t]
      BY <2>2, <2>3, <3>1 DEF SameFile
    <3>3. handle[t] # 0
      BY <1>5 DEF Places
    <3> QED
      BY <3>1, <3>2, <3>3 DEF OwnFile
  <2> QED
    BY <2>1, <2>2, <2>3 DEF SameRead
<1>6. CASE Creates(t) /\ place[t] = "open"
  <2>1. PICK i \in Inodes :
          /\ Free(i) /\ data' = [data EXCEPT ![i] = <<>>]
          /\ handle' = [handle EXCEPT ![t] = i]
    BY <1>6 DEF Creates
  <2>2. \A u \in Threads : ~crossed'[u] => ~crossed[u]
    BY <1>6 DEF Creates, Cross
  <2>3. place' = [place EXCEPT ![t] = "write"] /\ got' = got
    BY <1>6 DEF Creates
  <2>4. \A u \in Threads : handle[u] # i
    BY <2>1 DEF Free
  <2>5. ASSUME NEW u \in Threads, place'[u] = "read", ~crossed'[u]
        PROVE  /\ place[u] = "read" /\ ~crossed[u] /\ handle'[u] = handle[u]
               /\ data'[handle[u]] = data[handle[u]]
    <3>1. u # t /\ place[u] = "read"
      BY <2>3, <2>5 DEF TypeOK
    <3>2. handle[u] \in Inodes /\ handle[u] # i
      BY <2>4, <3>1 DEF Places, TypeOK
    <3> QED
      BY <2>1, <2>2, <2>5, <3>1, <3>2 DEF TypeOK
  <2> QED
    BY <2>3, <2>5 DEF SameRead
<1>7. CASE Removes(t)
  <2>1. \A u \in Threads : ~crossed'[u] => ~crossed[u]
    BY <1>7 DEF Removes, Cross
  <2> QED
    BY <1>7, <2>1 DEF Removes, Return, TypeOK, SameRead
<1> QED
  BY <1>1, <1>2, <1>3, <1>4, <1>5, <1>6, <1>7 DEF Shapes

-----------------------------------------------------------------------------
(* The theorems. *)

LEMMA InvInit == Init => IndInv
<1> SUFFICES ASSUME Init PROVE IndInv
  OBVIOUS
<1> QED
  BY TypeInit DEF Init, IndInv, Places, OneKey, OwnFile, SameFile, SameRead

LEMMA InvNext == IndInv /\ [Next]_vars => IndInv'
<1> SUFFICES ASSUME IndInv, [Next]_vars PROVE IndInv'
  OBVIOUS
<1>1. TypeOK'
  BY TypeNext DEF IndInv
<1>2. ASSUME NEW t \in Threads, Shapes(t) PROVE IndInv'
  BY <1>1, <1>2, PlacesNext, OneKeyNext, OwnFileNext, SameFileNext, SameReadNext DEF IndInv
<1>3. ASSUME NEW t \in Threads, Step(t) \/ Fault(t) PROVE IndInv'
  BY <1>2, <1>3, StepShapes DEF IndInv
<1>4. ASSUME NEW t \in Threads, NEW o \in {"set", "get", "delete"}, NEW k \in Keys,
             NEW v \in Values, Call(t, o, k, v)
      PROVE  IndInv'
  BY <1>2, <1>4 DEF Shapes
<1>5. ASSUME Crash PROVE IndInv'
  BY <1>1, <1>5 DEF Crash, IndInv, Places, OneKey, OwnFile, SameFile, SameRead, fileVars
<1>6. ASSUME UNCHANGED vars PROVE IndInv'
  BY <1>1, <1>6
     DEF vars, fileVars, callVars, IndInv, Places, OneKey, OwnFile, SameFile, SameRead
<1> QED
  BY <1>3, <1>4, <1>5, <1>6 DEF Next

\* Handles, directory and files fit together in every reachable state.
THEOREM Invariance == Spec => []IndInv
BY InvInit, InvNext, PTL DEF Spec

\* Every variable of the file store keeps its type.
THEOREM TypeCorrect == Spec => []TypeOK
<1>1. IndInv => TypeOK
  BY DEF IndInv
<1> QED
  BY Invariance, <1>1, PTL

-----------------------------------------------------------------------------
(* The refinement. *)

LEMMA InitRefines == Init => Store!Init
<1> SUFFICES ASSUME Init PROVE Store!Init
  OBVIOUS
<1>1. (CHOOSE k \in Keys : TRUE) \in Keys /\ (CHOOSE v \in Values : TRUE) \in Values
  BY StoreAssumption
<1>2. \A k \in Keys : Entry(k) = None
  BY DEF Init, Entry
<1> QED
  BY <1>1, <1>2 DEF Init, Store!Init

\* No entry changes but that of the key of t.
LEMMA CallRefines ==
  ASSUME NEW t \in Threads, NEW o \in {"set", "get", "delete"}, NEW k \in Keys,
         NEW v \in Values, TypeOK, Call(t, o, k, v)
  PROVE  Store!Call(t, o, k, v)
BY DEF Call, Store!Call, TypeOK, fileVars, Entry

LEMMA SetOpenRefines ==
  ASSUME IndInv, NEW t \in Threads, SetOpen(t)
  PROVE  Store!SetOpens(t) \/ UNCHANGED Store!kvVars
<1>1. CASE UNCHANGED fileVars /\ UNCHANGED crossed
  BY <1>1 DEF SetOpen, fileVars, Entry, Store!kvVars
<1>2. CASE dir[key[t]] = 0 /\ Cross(t)
  <2>1. PICK i \in Inodes :
          Free(i) /\ dir' = [dir EXCEPT ![key[t]] = i] /\ data' = [data EXCEPT ![i] = <<>>]
    BY <1>2 DEF SetOpen
  <2>2. key[t] \in Keys /\ i # 0
    BY InodesPositive DEF IndInv, TypeOK
  <2>3. Entry(key[t]) = None
    BY <1>2 DEF Entry
  <2>4. dir'[key[t]] = i /\ data'[i] = <<>> /\ key' = key
    BY <1>2, <2>1, <2>2 DEF SetOpen, IndInv, TypeOK
  <2>5. \A k \in Keys : k = key[t] => Entry(k)' = Empty
    BY <2>2, <2>4 DEF Entry, Decode
  <2>6. \A k \in Keys : k # key[t] => Entry(k)' = Entry(k)
    BY <2>1 DEF Free, IndInv, TypeOK, Entry
  <2>7. [k \in Keys |-> Entry(k)'] = [[k \in Keys |-> Entry(k)] EXCEPT ![key[t]] = Empty]
    BY <2>2, <2>5, <2>6
  <2> QED
    BY <1>2, <2>2, <2>3, <2>7 DEF SetOpen, Cross, Store!SetOpens, Store!Change
<1> QED
  BY <1>1, <1>2 DEF SetOpen

\* A write changes the entry of its key, and none if the file was deleted.
LEMMA WriteEntries ==
  ASSUME IndInv, NEW t \in Threads, NEW n, Write(t, n)
  PROVE  [k \in Keys |-> Entry(k)'] =
           [[k \in Keys |-> Entry(k)] EXCEPT ![key[t]] =
              IF dir[key[t]] = handle[t] THEN Decode(Over(data[handle[t]], val[t], n))
                                         ELSE Entry(key[t])]
<1>1. handle[t] \in Inodes /\ handle[t] # 0 /\ key[t] \in Keys
  BY InodesPositive DEF Write, IndInv, Places, TypeOK
<1>2. dir' = dir /\ data' = [data EXCEPT ![handle[t]] = Over(data[handle[t]], val[t], n)]
  BY DEF Write
<1>3. \A k \in Keys : dir[k] # handle[t] => Entry(k)' = Entry(k)
  BY <1>2 DEF IndInv, TypeOK, Entry
<1>4. \A k \in Keys : dir[k] = handle[t] =>
        k = key[t] /\ Entry(k)' = Decode(Over(data[handle[t]], val[t], n))
  BY <1>1, <1>2 DEF IndInv, TypeOK, OwnFile, Entry
<1> QED
  BY <1>1, <1>3, <1>4

LEMMA SetWriteRefines ==
  ASSUME IndInv, NEW t \in Threads, SetWrite(t)
  PROVE  Store!SetReturns(t)
<1> DEFINE s == data[handle[t]]
           v == val[t]
           after(e) == [k \in Keys |-> Entry(k)'] = [[k \in Keys |-> Entry(k)] EXCEPT ![key[t]] = e]
<1>1. /\ v \in Values /\ s \in Seq(Pieces) /\ Size[v] \in Nat \ {0}
      /\ key[t] \in Keys /\ handle[t] # 0
  BY StoreAssumption DEF SetWrite, Write, IndInv, Places, TypeOK
<1>2. Write(t, Size[v]) /\ Return(t, "ok") /\ faults' = faults /\ op[t] = "set"
  BY DEF SetWrite, Write, IndInv, Places
<1>3. ASSUME NEW e, after(e) PROVE Store!Change(t, e)
  BY <1>2, <1>3 DEF Write, Cross, Store!Change
<1>4. Store!Return(t, "ok")
  BY <1>2 DEF Return, Store!Return
<1>5. CASE dir[key[t]] = handle[t] /\ Len(s) <= Size[v]
  <2>1. after(v)
    BY <1>1, <1>2, <1>5, WriteEntries, OverShort, DecodeWhole
  <2> QED
    BY <1>2, <1>3, <1>4, <2>1 DEF Store!SetReturns
<1>6. CASE dir[key[t]] = handle[t] /\ Len(s) > Size[v]
  <2>1. after(Broken)
    BY <1>1, <1>2, <1>6, WriteEntries, OverLonger
  <2>2. Entry(key[t]) = Decode(s) /\ s # <<>>
    BY <1>1, <1>6 DEF Entry
  <2>3. Decode(s) = Broken \/ (Decode(s) \in Values /\ Size[Decode(s)] = Len(s))
    BY <2>2, DecodeKinds, WholePieces
  <2>4. Store!Unsafe(t)
    BY <1>1, <1>6, <2>2, <2>3 DEF Store!Unsafe
  <2> QED
    BY <1>2, <1>3, <1>4, <2>1, <2>4 DEF Store!SetReturns
<1>7. CASE dir[key[t]] # handle[t]
  <2>1. after(Entry(key[t]))
    BY <1>2, <1>7, WriteEntries
  <2>2. Store!Unsafe(t)
    BY <1>1, <1>7 DEF IndInv, SameFile, Store!Unsafe
  <2>3. Store!Change(t, [k \in Keys |-> Entry(k)][key[t]])
    BY <1>1, <1>3, <2>1
  <2> QED
    BY <1>2, <1>4, <2>2, <2>3 DEF Store!SetReturns
<1> QED
  BY <1>1, <1>5, <1>6, <1>7

\* Nothing changes in the files.
LEMMA SameEntries ==
  ASSUME UNCHANGED fileVars
  PROVE  [k \in Keys |-> Entry(k)'] = [k \in Keys |-> Entry(k)]
BY DEF fileVars, Entry

LEMMA GetOpenRefines ==
  ASSUME IndInv, NEW t \in Threads, GetOpen(t)
  PROVE  Store!GetReturns(t) \/ UNCHANGED Store!kvVars
<1>1. CASE dir[key[t]] = 0 /\ Return(t, None)
  <2>1. key[t] \in Keys /\ [k \in Keys |-> Entry(k)][key[t]] = None
    BY <1>1 DEF IndInv, TypeOK, Entry
  <2>2. Store!Return(t, None)
    BY <1>1 DEF Return, Store!Return
  <2>3. None \in Store!Entries
    BY DEF Store!Entries
  <2> QED
    BY <2>1, <2>2, <2>3, SameEntries DEF GetOpen, Store!GetReturns
<1>2. CASE UNCHANGED <<op, key, val, got, ret>>
  BY <1>2, SameEntries DEF GetOpen, Store!kvVars
<1> QED
  BY <1>1, <1>2 DEF GetOpen

LEMMA GetReadRefines ==
  ASSUME IndInv, NEW t \in Threads, GetRead(t)
  PROVE  Store!GetReturns(t) \/ UNCHANGED Store!kvVars
<1> DEFINE s == data[handle[t]]
           e == Decode(got[t])
<1>1. /\ key[t] \in Keys /\ s \in Seq(Pieces) /\ got[t] \in Seq(Pieces)
      /\ place[t] = "read" /\ op[t] = "get" /\ handle[t] # 0
  BY DEF GetRead, Reading, IndInv, Places, TypeOK
<1>2. CASE UNCHANGED <<op, key, val, place, handle, ret>>
  BY <1>2, SameEntries DEF GetRead, Reading, Store!kvVars
<1>3. CASE Len(got[t]) >= Len(s) /\ Return(t, e)
  <2>1. e \in Store!Entries
    BY DecodeKinds DEF Store!Entries
  <2>2. ASSUME ~crossed[t] PROVE e = Entry(key[t])
    <3>1. Len(got[t]) = Len(s) /\ \A i \in 1..Len(s) : got[t][i] = s[i]
      BY <1>1, <1>3, <2>2 DEF IndInv, SameRead
    <3>2. got[t] = s
      BY <1>1, <3>1
    <3>3. dir[key[t]] = handle[t]
      BY <1>1, <2>2 DEF IndInv, SameFile
    <3> QED
      BY <1>1, <3>2, <3>3 DEF Entry
  <2>3. Store!Return(t, e)
    BY <1>3 DEF Return, Store!Return
  <2> QED
    BY <1>1, <2>1, <2>2, <2>3, SameEntries DEF GetRead, Reading, Store!GetReturns
<1> QED
  BY <1>1, <1>2, <1>3 DEF GetRead, Reading

LEMMA DeleteRefines ==
  ASSUME IndInv, NEW t \in Threads, DeleteFile(t)
  PROVE  Store!DeleteReturns(t)
<1>1. key[t] \in Keys /\ op[t] = "delete" /\ faults' = faults
  BY DEF DeleteFile, IndInv, TypeOK
<1>2. CASE dir[key[t]] # 0
  <2>1. dir' = [dir EXCEPT ![key[t]] = 0] /\ data' = data /\ Cross(t) /\ Return(t, "ok")
    BY <1>2 DEF DeleteFile
  <2>2. \A k \in Keys : Entry(k)' = IF k = key[t] THEN None ELSE Entry(k)
    BY <2>1 DEF IndInv, TypeOK, Entry
  <2>3. Store!Change(t, None)
    BY <1>1, <2>1, <2>2 DEF Cross, Store!Change
  <2>4. [k \in Keys |-> Entry(k)][key[t]] # None
    BY <1>1, <1>2, DecodeKinds DEF Entry
  <2> QED
    BY <1>1, <2>1, <2>3, <2>4 DEF Return, Store!Return, Store!DeleteReturns
<1>3. CASE dir[key[t]] = 0
  <2>1. UNCHANGED <<fileVars, crossed>> /\ Return(t, "error")
    BY <1>3 DEF DeleteFile, fileVars
  <2>2. [k \in Keys |-> Entry(k)][key[t]] = None
    BY <1>1, <1>3 DEF Entry
  <2> QED
    BY <1>1, <2>1, <2>2, SameEntries DEF Return, Store!Return, Store!DeleteReturns
<1> QED
  BY <1>2, <1>3

LEMMA FaultRefines ==
  ASSUME IndInv, NEW t \in Threads, Fault(t)
  PROVE  Store!Fault(t)
<1> DEFINE s == data[handle[t]]
           v == val[t]
           m == [k \in Keys |-> Entry(k)]
           m2 == [k \in Keys |-> Entry(k)']
<1>1. key[t] \in Keys /\ faults' = faults + 1
  BY DEF Fault, IndInv, TypeOK
<1>2. CASE UNCHANGED <<fileVars, crossed>>
  <2>1. CASE place[t] = "open" /\ Return(t, "error")
    <3>1. op[t] # "none" /\ Store!Return(t, "error")
      BY <2>1 DEF IndInv, TypeOK, Return, Store!Return
    <3> QED
      BY <1>1, <1>2, <3>1, SameEntries DEF Store!Fault
  <2>2. CASE place[t] = "read" /\ Return(t, Decode(got[t]))
    <3>1. op[t] = "get" /\ Store!Return(t, Decode(got[t]))
      BY <2>2 DEF IndInv, Places, Return, Store!Return
    <3>2. Decode(got[t]) \in Store!Entries
      BY DecodeKinds DEF Store!Entries
    <3> QED
      BY <1>1, <1>2, <3>1, <3>2, SameEntries DEF Store!Fault
  <2>3. CASE place[t] = "write" /\ Return(t, "error")
    <3>1. op[t] # "none" /\ Store!Return(t, "error")
      BY <2>3 DEF IndInv, Places, Return, Store!Return
    <3> QED
      BY <1>1, <1>2, <3>1, SameEntries DEF Store!Fault
  <2> QED
    BY <2>1, <2>2, <2>3 DEF Fault, Write
<1>3. CASE \E n \in 0..(Size[v] - 1) : Write(t, n) /\ Return(t, "error")
  <2>1. PICK n \in 0..(Size[v] - 1) : Write(t, n) /\ Return(t, "error")
    BY <1>3
  <2>2. v \in Values /\ s \in Seq(Pieces) /\ Size[v] \in Nat /\ n \in Nat /\ handle[t] # 0
    BY <2>1, StoreAssumption DEF Write, IndInv, Places, TypeOK
  <2>3. op[t] = "set" /\ Store!Return(t, "error")
    BY <2>1 DEF Write, IndInv, Places, Return, Store!Return
  <2>4. ASSUME NEW e \in {v, Broken, m[key[t]]}, m2 = [m EXCEPT ![key[t]] = e]
        PROVE  Store!Fault(t)
    <3>1. Store!Change(t, e)
      BY <2>1, <2>4 DEF Write, Cross, Store!Change
    <3> QED
      BY <1>1, <2>3, <2>4, <3>1 DEF Store!Fault
  <2>5. CASE dir[key[t]] # handle[t]
    <3>1. m2 = [m EXCEPT ![key[t]] = m[key[t]]]
      BY <1>1, <2>1, <2>5, WriteEntries
    <3> QED
      BY <2>4, <3>1
  <2>6. CASE dir[key[t]] = handle[t] /\ n = 0
    <3>1. Over(s, v, n) = s
      <4>1. n \in 0..Size[v]
        BY <2>2, <2>6
      <4>2. Over(s, v, n) \in Seq(Pieces) /\ Len(Over(s, v, n)) = Len(s)
        BY <2>2, <2>6, <4>1, OverPieces
      <4>3. \A i \in 1..Len(Over(s, v, n)) :
              Over(s, v, n)[i] = IF i <= n THEN <<v, i>> ELSE s[i]
        BY <2>2, <4>1, OverPieces
      <4>4. \A i \in 1..Len(s) : ~ (i <= n)
        BY <2>2, <2>6
      <4>5. \A i \in 1..Len(s) : Over(s, v, n)[i] = s[i]
        BY <4>2, <4>3, <4>4
      <4> QED
        BY <2>2, <4>2, <4>5
    <3>2. m2 = [m EXCEPT ![key[t]] = m[key[t]]]
      BY <1>1, <2>1, <2>2, <2>6, <3>1, WriteEntries DEF Entry
    <3> QED
      BY <2>4, <3>2
  <2>7. CASE dir[key[t]] = handle[t] /\ n # 0
    <3>1. n \in 1..Size[v]
      BY <2>2, <2>7
    <3>2. Decode(Over(s, v, n)) \in {v, Broken}
      BY <2>2, <3>1, OverDecoded
    <3>3. m2 = [m EXCEPT ![key[t]] = Decode(Over(s, v, n))]
      BY <2>1, <2>7, WriteEntries
    <3> QED
      BY <2>4, <3>2, <3>3
  <2> QED
    BY <2>5, <2>6, <2>7
<1> QED
  BY <1>2, <1>3 DEF Fault

\* A step of the files is one of the store, or is not seen.
LEMMA NextRefines == IndInv /\ [Next]_vars => [Store!Next]_(Store!kvVars)
<1> SUFFICES ASSUME IndInv, [Next]_vars PROVE Store!Next \/ UNCHANGED Store!kvVars
  OBVIOUS
<1>1. ASSUME NEW t \in Threads, NEW o \in {"set", "get", "delete"}, NEW k \in Keys,
             NEW v \in Values, Call(t, o, k, v)
      PROVE  Store!Next
  BY <1>1, CallRefines DEF IndInv, Store!Next
<1>2. ASSUME NEW t \in Threads, Step(t) PROVE Store!Next \/ UNCHANGED Store!kvVars
  BY <1>2, SetOpenRefines, SetWriteRefines, GetOpenRefines, GetReadRefines, DeleteRefines
     DEF Step, Store!Next
<1>3. ASSUME NEW t \in Threads, Fault(t) PROVE Store!Next
  BY <1>3, FaultRefines DEF Store!Next
<1>4. ASSUME Crash PROVE Store!Next
  <2>1. Store!Crash
    BY <1>4, SameEntries DEF Crash, fileVars, Store!Crash
  <2> QED
    BY <2>1 DEF Store!Next
<1>5. ASSUME UNCHANGED vars PROVE UNCHANGED Store!kvVars
  BY <1>5, SameEntries DEF vars, fileVars, callVars, Store!kvVars
<1> QED
  BY <1>1, <1>2, <1>3, <1>4, <1>5 DEF Next

\* The files of fsStore are a store of safe registers, for any number of
\* goroutines, keys and values of any length, through errors and crashes.
THEOREM Refinement == Spec => Implements
BY Invariance, InitRefines, NextRefines, PTL DEF Spec, Implements, Store!Spec

-----------------------------------------------------------------------------
(* The controller over its store: whose call each thread is in. *)

Changes(t) == op[t] \in {"set", "delete"}

Returned == Values \cup {None, Empty, Broken, "ok", "error"}

\* main is in the call of its phase.
MainCalls ==
  /\ phase \in {"off", "up", "list"} => Idle(main)
  /\ phase = "keypair" => Idle(main) \/ (op[main] = "get" /\ key[main] = keypair)
  /\ phase = "save" =>
       Idle(main) \/ (op[main] = "set" /\ key[main] = keypair /\ val[main] = identity)
  /\ phase = "entry" => key[main] \in todo /\ (Idle(main) \/ op[main] = "get")
  /\ identity # None <=> phase \in {"save", "up", "list", "entry"}

\* The others change pairings.
OtherCalls ==
  \A t \in Threads : t # main /\ op[t] # "none" =>
    /\ Changes(t) /\ key[t] \in PairingKeys
    /\ op[t] = "set" => val[t] \in Pairings

CallInv == IndInv /\ ret \in [Threads -> Returned] /\ StorerTypeOK /\ MainCalls /\ OtherCalls

\* Every step is one of the files.
LEMMA IsFileStep == [StorerNext]_allVars /\ StorerTypeOK => [Next]_vars
<1> SUFFICES ASSUME [StorerNext]_allVars, StorerTypeOK PROVE [Next]_vars
  OBVIOUS
<1>1. ASSUME NEW t \in Threads, NEW o \in {"set", "get", "delete"}, NEW k \in Keys,
             NEW v \in Values, Call(t, o, k, v)
      PROVE  Next
  BY <1>1 DEF Next
<1>2. main \in Threads /\ keypair \in Keys /\ KeyPairs \subseteq Values
  BY StorerAssumption
<1>3. CASE Start
  BY <1>1, <1>2, <1>3 DEF Start
<1>4. CASE KeyPairRead
  BY <1>1, <1>2, <1>4 DEF KeyPairRead, ReadKeyPair, Changing
<1>5. CASE KeyPairSaved \/ List \/ EntryRead \/ Listed
  BY <1>5 DEF KeyPairSaved, SavedKeyPair, List, EntryRead, Listed
<1>6. CASE ReadEntry
  <2>1. todo \subseteq Keys
    BY DEF StorerTypeOK, PairingKeys
  <2> QED
    BY <1>1, <1>2, <1>6, <2>1 DEF ReadEntry
<1>7. CASE Stop
  BY <1>7 DEF Stop, Next
<1>8. ASSUME NEW t \in Threads, SavePairing(t) \/ DeletePairing(t) PROVE Next
  BY <1>1, <1>8 DEF SavePairing, DeletePairing, Changing, PairingKeys, Pairings
<1>9. ASSUME NEW t \in Threads, Work(t) \/ Fail(t) PROVE Next
  BY <1>9 DEF Work, Fail, Next
<1>10. CASE UNCHANGED allVars
  BY <1>10 DEF allVars
<1> QED
  BY <1>3, <1>4, <1>5, <1>6, <1>7, <1>8, <1>9, <1>10 DEF StorerNext

\* What a call does to the thread that makes it, and to the others.
LEMMA CallEffect ==
  ASSUME TypeOK, NEW t \in Threads, NEW o \in {"set", "get", "delete"}, NEW k \in Keys,
         NEW v \in Values, Call(t, o, k, v)
  PROVE  /\ place[t] = "idle" /\ op[t] = "none" /\ place'[t] = "open" /\ op'[t] = o /\ key'[t] = k
         /\ o = "set" => val'[t] = v
         /\ ~crossed'[t]
         /\ \A u \in Threads : u # t =>
              /\ place'[u] = place[u] /\ op'[u] = op[u] /\ key'[u] = key[u] /\ val'[u] = val[u]
              /\ crossed'[u] = crossed[u]
         /\ ret' = ret /\ dir' = dir /\ data' = data /\ faults' = faults
BY DEF Call, TypeOK, fileVars

\* What a step of a call does to the thread that is in it, and to the others.
LEMMA StepEffect ==
  ASSUME TypeOK, Places, ret \in [Threads -> Returned], NEW t \in Threads, Step(t) \/ Fault(t)
  PROVE  /\ op[t] # "none" /\ place[t] # "idle" /\ key' = key /\ val' = val
         /\ op'[t] \in {op[t], "none"} /\ (op'[t] # "none" => ret'[t] = ret[t])
         /\ ret' \in [Threads -> Returned]
         /\ \A u \in Threads : u # t =>
              place'[u] = place[u] /\ op'[u] = op[u] /\ ret'[u] = ret[u]
<1>1. ASSUME NEW r \in Returned, Return(t, r), place[t] # "idle"
      PROVE  /\ op[t] # "none" /\ place[t] # "idle" /\ key' = key /\ val' = val
             /\ op'[t] = "none" /\ ret' \in [Threads -> Returned]
             /\ \A u \in Threads : u # t =>
                  place'[u] = place[u] /\ op'[u] = op[u] /\ ret'[u] = ret[u]
  BY <1>1 DEF Return, TypeOK
<1>2. Decode(got[t]) \in Returned /\ {"ok", "error", None} \subseteq Returned
  BY DecodeKinds DEF Returned
<1>3. CASE SetOpen(t)
  BY <1>3 DEF SetOpen, TypeOK
<1>4. CASE SetWrite(t)
  BY <1>1, <1>2, <1>4 DEF SetWrite, Write
<1>5. CASE GetOpen(t)
  <2>1. CASE Return(t, None)
    BY <1>1, <1>2, <1>5, <2>1 DEF GetOpen
  <2>2. CASE place' = [place EXCEPT ![t] = "read"] /\ UNCHANGED <<op, key, val, got, ret>>
    BY <1>5, <2>2 DEF GetOpen, TypeOK
  <2> QED
    BY <1>5, <2>1, <2>2 DEF GetOpen
<1>6. CASE GetRead(t)
  <2>1. CASE Return(t, Decode(got[t]))
    BY <1>1, <1>2, <1>6, <2>1 DEF GetRead, Reading
  <2>2. CASE UNCHANGED <<op, key, val, place, handle, ret>>
    BY <1>6, <2>2 DEF GetRead, Reading, TypeOK
  <2> QED
    BY <1>6, <2>1, <2>2 DEF GetRead, Reading
<1>7. CASE DeleteFile(t)
  <2>1. \E r \in {"ok", "error"} : Return(t, r)
    BY <1>7 DEF DeleteFile
  <2> QED
    BY <1>1, <1>2, <1>7, <2>1 DEF DeleteFile
<1>8. CASE Fault(t)
  <2>1. place[t] # "idle" /\ \E r \in {"error", Decode(got[t])} : Return(t, r)
    BY <1>8 DEF Fault, Write
  <2> QED
    BY <1>1, <1>2, <2>1
<1> QED
  BY <1>3, <1>4, <1>5, <1>6, <1>7, <1>8 DEF Step

\* Only a call that changes the key of another crosses it.
LEMMA CrossedOnly ==
  ASSUME IndInv, NEW t \in Threads, Step(t) \/ Fault(t), NEW u \in Threads, crossed'[u]
  PROVE  crossed[u] \/ (u # t /\ op[u] # "none" /\ key[u] = key[t] /\ Changes(t))
<1>1. UNCHANGED crossed \/ (Cross(t) /\ Changes(t))
  BY DEF Step, SetOpen, SetWrite, GetOpen, GetRead, Reading, DeleteFile, Fault, Write,
         IndInv, Places, Changes
<1> QED
  BY <1>1 DEF Cross

\* Nor does any other call touch the file of a key.
Untouched(k) == dir'[k] = dir[k] /\ (dir[k] # 0 => data'[dir[k]] = data[dir[k]])

LEMMA UntouchedEntry ==
  ASSUME NEW k \in Keys, Untouched(k)
  PROVE  Entry(k)' = Entry(k)
BY DEF Untouched, Entry

LEMMA OtherKeys ==
  ASSUME IndInv, NEW t \in Threads, Step(t) \/ Fault(t), NEW k \in Keys,
         Changes(t) => k # key[t]
  PROVE  Untouched(k)
<1> USE InodesPositive
<1>1. CASE UNCHANGED fileVars
  BY <1>1 DEF fileVars, Untouched
<1>2. CASE Changes(t)
  <2>1. k # key[t] /\ key[t] \in Keys
    BY <1>2 DEF IndInv, TypeOK
  <2>2. CASE Creates(t)
    BY <2>1, <2>2 DEF Creates, Free, IndInv, TypeOK, Untouched
  <2>3. CASE \E n : Write(t, n)
    <3>1. handle[t] # 0 /\ handle[t] \in Inodes
      BY <2>3 DEF Write, IndInv, Places, TypeOK
    <3>2. dir[k] # handle[t]
      BY <2>1, <3>1 DEF IndInv, OwnFile
    <3> QED
      BY <2>3, <3>1, <3>2 DEF Write, IndInv, TypeOK, Untouched
  <2>4. CASE dir' = [dir EXCEPT ![key[t]] = 0] /\ data' = data
    BY <2>1, <2>4 DEF IndInv, TypeOK, Untouched
  <2>5. Shapes(t)
    BY StepShapes DEF IndInv
  <2>6. place[t] # "idle"
    BY <1>2 DEF IndInv, TypeOK, Changes
  <2> QED
    BY <1>1, <2>2, <2>3, <2>4, <2>5, <2>6
       DEF Shapes, Call, Leaves, Writes, Opens, Reads, Removes, fileVars
<1>3. CASE ~Changes(t)
  BY <1>1, <1>3 DEF Step, SetOpen, SetWrite, GetOpen, GetRead, Reading, DeleteFile, Fault,
                    Write, IndInv, Places, Changes
<1> QED
  BY <1>2, <1>3

\* A Get that nobody crosses, and that meets no error, returns the entry.
LEMMA GetEntry ==
  ASSUME IndInv, ret \in [Threads -> Returned], NEW t \in Threads, Step(t), op[t] = "get",
         op'[t] = "none", ~crossed[t]
  PROVE  ret'[t] = Entry(key[t])
<1>1. GetOpen(t) \/ GetRead(t)
  BY DEF Step, SetOpen, SetWrite, DeleteFile, IndInv, Places, Write
<1>2. ~UNCHANGED Store!kvVars
  BY DEF Store!kvVars
<1>3. Store!GetReturns(t)
  BY <1>1, <1>2, GetOpenRefines, GetReadRefines
<1>4. key[t] \in Keys
  BY DEF IndInv, TypeOK
<1> QED
  BY <1>3, <1>4 DEF Store!GetReturns, Store!Return

\* A Set that nobody crosses, and that shortens nothing, leaves its value, and
\* with an error or without, no more than the longer of the two.
LEMMA SetEntry ==
  ASSUME IndInv, NEW t \in Threads, SetWrite(t), ~crossed[t], Fits(key[t], val[t])
  PROVE  Entry(key[t])' = val[t]
<1>1. /\ val[t] \in Values /\ key[t] \in Keys /\ handle[t] # 0 /\ handle[t] \in Inodes
      /\ data[handle[t]] \in Seq(Pieces) /\ Write(t, Size[val[t]]) /\ key' = key
  BY DEF SetWrite, Return, Write, IndInv, Places, TypeOK
<1>2. dir[key[t]] = handle[t]
  BY <1>1 DEF IndInv, SameFile
<1>3. Len(data[handle[t]]) <= Size[val[t]]
  BY <1>1, <1>2 DEF Fits
<1>4. Decode(Over(data[handle[t]], val[t], Size[val[t]])) = val[t]
  BY <1>1, <1>3, OverShort, DecodeWhole
<1>5. [k \in Keys |-> Entry(k)'] = [[k \in Keys |-> Entry(k)] EXCEPT ![key[t]] = val[t]]
  BY <1>1, <1>2, <1>4, WriteEntries
<1>6. \A k \in Keys : k = key[t] => Entry(k)' = val[t]
  BY <1>1, <1>5
<1> QED
  BY <1>1, <1>6

LEMMA DeletedEntry ==
  ASSUME IndInv, NEW t \in Threads, DeleteFile(t)
  PROVE  Entry(key[t])' = None
<1>1. key[t] \in Keys /\ key' = key
  BY DEF DeleteFile, Return, IndInv, TypeOK
<1>2. dir'[key[t]] = 0
  BY <1>1 DEF DeleteFile, IndInv, TypeOK
<1> QED
  BY <1>1, <1>2 DEF Entry

-----------------------------------------------------------------------------
(* The calls and the phases. *)

\* The types of what the controller keeps.
StorerTypes ==
  /\ phase \in {"off", "keypair", "save", "up", "list", "entry"}
  /\ identity \in KeyPairs \cup {None} /\ todo \subseteq PairingKeys
  /\ loaded \in [PairingKeys -> Pairings \cup {None}]
  /\ known \in [Keys -> Values \cup {None, Broken}]
  /\ steady \subseteq PairingKeys /\ saves \in 0..MaxSaves
  /\ loads \in 0..MaxLoads /\ starts \in 0..MaxStarts
  /\ used \subseteq KeyPairs /\ misread \in BOOLEAN

LEMMA CallInit == StorerInit => CallInv
<1> SUFFICES ASSUME StorerInit PROVE CallInv
  OBVIOUS
<1>1. IndInv /\ TypeOK
  BY InvInit DEF StorerInit, IndInv
<1>2. ret \in [Threads -> Returned]
  BY DEF StorerInit, Init, Returned
<1>3. StorerTypes
  <2>1. 0 \in 0..MaxSaves /\ 0 \in 0..MaxLoads /\ 0 \in 0..MaxStarts
    BY StorerAssumption
  <2>2. /\ [k \in PairingKeys |-> None] \in [PairingKeys -> Pairings \cup {None}]
        /\ [k \in Keys |-> None] \in [Keys -> Values \cup {None, Broken}]
    OBVIOUS
  <2> QED
    BY <2>1, <2>2 DEF StorerInit, StorerTypes
<1>4. MainCalls
  BY StorerAssumption DEF StorerInit, Init, MainCalls, Idle
<1>5. OtherCalls
  BY DEF StorerInit, Init, OtherCalls
<1> QED
  BY <1>1, <1>2, <1>3, <1>4, <1>5 DEF CallInv, StorerTypes, StorerTypeOK

LEMMA StorerTypesNext ==
  ASSUME CallInv, [StorerNext]_allVars
  PROVE  StorerTypes'
<1>1. /\ StorerTypes /\ val \in [Threads -> Values] /\ key \in [Threads -> Keys]
      /\ keypair \in Keys /\ KeyPairs \subseteq Values
  BY StorerAssumption DEF CallInv, StorerTypeOK, StorerTypes, TypeOK
<1>2. CASE Start
  BY <1>1, <1>2, StorerAssumption DEF Start, StorerTypes
<1>3. CASE KeyPairRead
  <2>1. known' \in [Keys -> Values \cup {None, Broken}]
    BY <1>1, <1>3 DEF KeyPairRead, ReadKeyPair, Changing, StorerTypes
  <2> QED
    BY <1>1, <1>3, <2>1 DEF KeyPairRead, ReadKeyPair, Use, StorerTypes
<1>4. CASE KeyPairSaved
  <2>1. identity # None \/ phase # "save"
    BY DEF CallInv, MainCalls
  <2> QED
    BY <1>1, <1>4, <2>1 DEF KeyPairSaved, SavedKeyPair, Use, StorerTypes
<1>5. CASE List
  BY <1>1, <1>5, StorerAssumption DEF List, StorerTypes
<1>6. CASE ReadEntry \/ Listed
  BY <1>1, <1>6 DEF ReadEntry, Listed, StorerTypes
<1>7. CASE EntryRead
  <2>1. loaded' \in [PairingKeys -> Pairings \cup {None}]
    BY <1>1, <1>7 DEF EntryRead, StorerTypes
  <2> QED
    BY <1>1, <1>7, <2>1 DEF EntryRead, StorerTypes
<1>8. CASE Stop
  BY <1>1, <1>8 DEF Stop, StorerTypes
<1>9. ASSUME NEW t \in Threads, SavePairing(t) \/ DeletePairing(t) PROVE StorerTypes'
  <2>1. known' \in [Keys -> Values \cup {None, Broken}] /\ steady' \subseteq PairingKeys
    BY <1>1, <1>9 DEF SavePairing, DeletePairing, Changing, StorerTypes
  <2>2. saves' \in 0..MaxSaves
    BY <1>1, <1>9, StorerAssumption DEF SavePairing, DeletePairing, StorerTypes
  <2> QED
    BY <1>1, <1>9, <2>1, <2>2 DEF SavePairing, DeletePairing, StorerTypes
<1>10. ASSUME NEW t \in Threads, Work(t) PROVE StorerTypes'
  <2>1. Changed(t) \in [Keys -> Values \cup {None, Broken}]
    BY <1>1 DEF Changed, StorerTypes
  <2> QED
    BY <1>1, <1>10, <2>1 DEF Work, StorerTypes
<1>11. ASSUME NEW t \in Threads, Fail(t) PROVE StorerTypes'
  <2>1. misread' \in BOOLEAN
    BY <1>11 DEF Fail
  <2> QED
    BY <1>1, <1>11, <2>1 DEF Fail, StorerTypes
<1>12. CASE UNCHANGED allVars
  BY <1>1, <1>12 DEF allVars, storerVars, StorerTypes
<1> QED
  BY <1>2, <1>3, <1>4, <1>5, <1>6, <1>7, <1>8, <1>9, <1>10, <1>11, <1>12 DEF StorerNext

LEMMA MainCallsNext ==
  ASSUME CallInv, [StorerNext]_allVars
  PROVE  MainCalls' /\ OtherCalls' /\ ret' \in [Threads -> Returned]
<1>1. /\ TypeOK /\ Places /\ ret \in [Threads -> Returned] /\ MainCalls /\ OtherCalls
      /\ StorerTypes /\ main \in Threads /\ keypair \in Keys /\ KeyPairs \subseteq Values
      /\ None \notin KeyPairs /\ "get" \in {"set", "get", "delete"}
  BY StoreAssumption, StorerAssumption DEF CallInv, IndInv, StorerTypeOK, StorerTypes
<1> DEFINE goal == MainCalls' /\ OtherCalls' /\ ret' \in [Threads -> Returned]
<1>2. CASE Start
  <2>1. PICK v \in Values : Call(main, "get", keypair, v)
    BY <1>2 DEF Start
  <2> QED
    BY <1>1, <1>2, <2>1, CallEffect DEF Start, MainCalls, OtherCalls, Changes, Idle
<1>3. CASE KeyPairRead
  <2>1. CASE ret[main] \in KeyPairs
    BY <1>1, <1>3, <2>1
       DEF KeyPairRead, ReadKeyPair, Use, MainCalls, OtherCalls, Changes, Idle, vars, callVars
  <2>2. CASE ret[main] \notin KeyPairs
    <3>1. PICK kp \in KeyPairs : identity' = kp /\ Call(main, "set", keypair, kp)
      BY <1>3, <2>2 DEF KeyPairRead, ReadKeyPair, Changing
    <3> QED
      BY <1>1, <1>3, <2>2, <3>1, CallEffect
         DEF KeyPairRead, ReadKeyPair, MainCalls, OtherCalls, Changes, Idle
  <2> QED
    BY <2>1, <2>2
<1>4. CASE KeyPairSaved
  BY <1>1, <1>4
     DEF KeyPairSaved, SavedKeyPair, Use, MainCalls, OtherCalls, Changes, Idle, vars, callVars
<1>5. CASE List \/ Listed
  BY <1>1, <1>5 DEF List, Listed, MainCalls, OtherCalls, Changes, Idle, vars, callVars
<1>6. CASE ReadEntry
  <2>1. PICK k \in todo, v \in Values : Call(main, "get", k, v)
    BY <1>6 DEF ReadEntry
  <2>2. k \in Keys
    BY <1>1 DEF StorerTypes, PairingKeys
  <2> QED
    BY <1>1, <1>6, <2>1, <2>2, CallEffect DEF ReadEntry, MainCalls, OtherCalls, Changes, Idle
<1>7. CASE EntryRead
  BY <1>1, <1>7 DEF EntryRead, MainCalls, OtherCalls, Changes, Idle, vars, callVars
<1>8. CASE Stop
  BY <1>1, <1>8 DEF Stop, Crash, MainCalls, OtherCalls, Changes, Idle
<1>9. ASSUME NEW t \in Threads, SavePairing(t) \/ DeletePairing(t) PROVE goal
  <2>1. PICK o \in {"set", "delete"}, k \in PairingKeys, v \in Values :
          Call(t, o, k, v) /\ (o = "set" => v \in Pairings)
    BY <1>9 DEF SavePairing, DeletePairing, Changing, Pairings
  <2>2. t # main /\ UNCHANGED <<phase, identity, todo>>
    BY <1>9 DEF SavePairing, DeletePairing
  <2>3. k \in Keys /\ o \in {"set", "get", "delete"}
    BY DEF PairingKeys
  <2> QED
    BY <1>1, <2>1, <2>2, <2>3, CallEffect DEF MainCalls, OtherCalls, Changes, Idle
<1>10. ASSUME NEW t \in Threads, Work(t) \/ Fail(t) PROVE goal
  <2>1. (Step(t) \/ Fault(t)) /\ UNCHANGED <<phase, identity, todo>>
    BY <1>10 DEF Work, Fail
  <2>2. op'[main] = "none" <=> Idle(main)'
    <3>1. IndInv'
      BY IsFileStep, InvNext DEF CallInv
    <3> QED
      BY <1>1, <3>1 DEF IndInv, TypeOK, Idle
  <2> QED
    BY <1>1, <2>1, <2>2, StepEffect DEF MainCalls, OtherCalls, Changes, Idle
<1>11. CASE UNCHANGED allVars
  BY <1>1, <1>11
     DEF allVars, storerVars, vars, callVars, MainCalls, OtherCalls, Changes, Idle
<1> QED
  BY <1>2, <1>3, <1>4, <1>5, <1>6, <1>7, <1>8, <1>9, <1>10, <1>11 DEF StorerNext

LEMMA CallNext == CallInv /\ [StorerNext]_allVars => CallInv'
<1> SUFFICES ASSUME CallInv, [StorerNext]_allVars PROVE CallInv'
  OBVIOUS
<1>1. IndInv' /\ TypeOK'
  BY IsFileStep, InvNext DEF CallInv, IndInv
<1>2. StorerTypes' /\ MainCalls' /\ OtherCalls' /\ (ret \in [Threads -> Returned])'
  BY StorerTypesNext, MainCallsNext
<1> QED
  BY <1>1, <1>2 DEF CallInv, StorerTypes, StorerTypeOK

-----------------------------------------------------------------------------
(* The key pair. *)

\* The file of the key pair is never longer than a key pair.
KeyFile == dir[keypair] # 0 => \A kp \in KeyPairs : Len(data[dir[keypair]]) <= Size[kp]

\* Nobody crosses main on it.
Uncrossed == op[main] # "none" /\ key[main] = keypair => ~crossed[main]

\* What is in it, or has been read of it, in each phase.
UsedPair ==
  /\ ~misread /\ used # {} => used = {Entry(keypair)}
  /\ phase \in {"up", "list", "entry"} => identity \in used
  /\ phase = "save" /\ ~misread => used = {}
  /\ phase = "save" /\ Idle(main) /\ ret[main] = "ok" => Entry(keypair) = identity
  /\ phase = "keypair" /\ Idle(main) /\ ~misread => ret[main] = Entry(keypair)

PairInv == CallInv /\ KeyFile /\ Uncrossed /\ UsedPair

\* Only main has the key of the key pair.
LEMMA OthersElsewhere ==
  ASSUME CallInv, NEW t \in Threads, Changes(t), key[t] = keypair
  PROVE  t = main /\ phase = "save" /\ op[main] = "set" /\ val[main] = identity
<1>1. op[t] # "none"
  BY DEF Changes
<1>2. t = main
  BY <1>1 DEF CallInv, OtherCalls, PairingKeys
<1>3. ~Idle(main) /\ op[main] # "get"
  BY <1>1, <1>2 DEF CallInv, StorerTypeOK, TypeOK, Changes, Idle
<1>4. phase \in {"off", "keypair", "save", "up", "list", "entry"}
  BY DEF CallInv, StorerTypeOK
<1> QED
  BY <1>2, <1>3, <1>4 DEF CallInv, MainCalls

\* Steps that no call makes leave every entry.
LEMMA FilesSame ==
  ASSUME UNCHANGED fileVars, NEW k \in Keys
  PROVE  Untouched(k) /\ Entry(k)' = Entry(k)
BY DEF fileVars, Untouched, Entry

LEMMA KeyFileNext ==
  ASSUME PairInv, [StorerNext]_allVars
  PROVE  KeyFile'
<1>1. keypair \in Keys
  BY StorerAssumption
<1>2. ASSUME Untouched(keypair) PROVE KeyFile'
  BY <1>2 DEF PairInv, KeyFile, Untouched
<1>3. ASSUME UNCHANGED fileVars PROVE KeyFile'
  BY <1>1, <1>2, <1>3, FilesSame
<1>4. ASSUME NEW t \in Threads, Step(t) \/ Fault(t) PROVE KeyFile'
  <2>1. CASE ~(Changes(t) /\ key[t] = keypair)
    BY <1>1, <1>2, <1>4, <2>1, OtherKeys DEF PairInv, CallInv
  <2>2. CASE Changes(t) /\ key[t] = keypair
    <3>1. t = main /\ op[main] = "set" /\ val[main] = identity /\ identity \in KeyPairs
      <4>1. t = main /\ phase = "save" /\ op[main] = "set" /\ val[main] = identity
        BY <2>2, OthersElsewhere DEF PairInv
      <4>2. identity # None /\ identity \in KeyPairs \cup {None}
        BY <4>1 DEF PairInv, CallInv, MainCalls, StorerTypeOK
      <4> QED
        BY <4>1, <4>2
    <3>2. TypeOK /\ Places /\ OwnFile /\ KeyFile
      BY DEF PairInv, CallInv, IndInv
    <3>3. \A kp \in KeyPairs : Size[kp] = Size[identity] /\ Size[kp] \in Nat
      BY <3>1, StoreAssumption, StorerAssumption
    <3>4. CASE Creates(t)
      <4>1. PICK i \in Inodes :
              dir' = [dir EXCEPT ![keypair] = i] /\ data' = [data EXCEPT ![i] = <<>>]
        BY <2>2, <3>4 DEF Creates
      <4>2. dir'[keypair] = i /\ data'[i] = <<>>
        BY <1>1, <3>2, <4>1 DEF TypeOK
      <4> QED
        BY <3>3, <4>2 DEF KeyFile
    <3>5. ASSUME NEW n \in 0..Size[identity], Write(t, n) PROVE KeyFile'
      <4>1. handle[t] \in Inodes /\ data[handle[t]] \in Seq(Pieces) /\ identity \in Values
        BY <3>1, <3>2, <3>5, StorerAssumption DEF Write, Places, TypeOK
      <4>2. CASE dir[keypair] = handle[t]
        <5> DEFINE s == data[handle[t]]
        <5>1. dir'[keypair] = handle[t] /\ data'[handle[t]] = Over(s, identity, n)
          BY <3>1, <3>2, <3>5, <4>1, <4>2 DEF Write, TypeOK
        <5>2. Len(Over(s, identity, n)) = IF n > Len(s) THEN n ELSE Len(s)
          BY <4>1, OverPieces
        <5>3. \A kp \in KeyPairs : Len(s) <= Size[kp] /\ n <= Size[kp]
          BY <3>2, <3>3, <4>1, <4>2, InodesPositive DEF KeyFile
        <5>4. \A kp \in KeyPairs : Len(Over(s, identity, n)) <= Size[kp]
          BY <5>2, <5>3
        <5> QED
          BY <5>1, <5>4 DEF KeyFile
      <4>3. CASE dir[keypair] # handle[t]
        BY <1>1, <1>2, <3>2, <3>5, <4>1, <4>3 DEF Write, TypeOK, Untouched
      <4> QED
        BY <4>2, <4>3
    <3>6. CASE SetOpen(t)
      BY <1>3, <3>4, <3>6 DEF SetOpen, Creates
    <3>7. CASE SetWrite(t)
      <4>1. Size[identity] \in 0..Size[identity]
        BY <3>1, <3>3
      <4> QED
        BY <3>1, <3>5, <3>7, <4>1 DEF SetWrite
    <3>8. CASE Fault(t)
      <4>1. 0..(Size[identity] - 1) \subseteq 0..Size[identity]
        BY <3>1, <3>3
      <4> QED
        BY <1>3, <3>1, <3>5, <3>8, <4>1 DEF Fault
    <3>9. CASE GetOpen(t) \/ GetRead(t) \/ DeleteFile(t)
      BY <3>1, <3>2, <3>9 DEF GetOpen, GetRead, Reading, DeleteFile, Places
    <3> QED
      BY <1>4, <3>6, <3>7, <3>8, <3>9 DEF Step
  <2> QED
    BY <2>1, <2>2
<1>5. ASSUME UNCHANGED vars \/ Crash \/ (\E t \in Threads : \E o, k, v : Call(t, o, k, v))
      PROVE  KeyFile'
  BY <1>3, <1>5 DEF vars, Crash, Call, fileVars
<1>6. [Next]_vars
  BY IsFileStep DEF PairInv, CallInv
<1> QED
  BY <1>4, <1>5, <1>6 DEF Next

LEMMA UncrossedNext ==
  ASSUME PairInv, [StorerNext]_allVars
  PROVE  Uncrossed'
<1>1. /\ IndInv /\ TypeOK /\ Places /\ ret \in [Threads -> Returned] /\ OtherCalls
      /\ Uncrossed /\ main \in Threads
  BY StorerAssumption DEF PairInv, CallInv, IndInv
<1>2. ASSUME NEW t \in Threads, NEW o \in {"set", "get", "delete"}, NEW k \in Keys,
             NEW v \in Values, Call(t, o, k, v)
      PROVE  Uncrossed'
  BY <1>1, <1>2, CallEffect DEF Uncrossed
<1>3. ASSUME NEW t \in Threads, Step(t) \/ Fault(t) PROVE Uncrossed'
  <2>1. SUFFICES ASSUME op'[main] # "none", key'[main] = keypair, crossed'[main] PROVE FALSE
    BY DEF Uncrossed
  <2>2. op[main] # "none" /\ key[main] = keypair
    <3>1. key' = key /\ (op'[main] = op[main] \/ op'[main] = "none" \/ main # t)
      BY <1>1, <1>3, StepEffect
    <3>2. main # t => op'[main] = op[main]
      BY <1>1, <1>3, StepEffect
    <3> QED
      BY <2>1, <3>1, <3>2
  <2>3. main # t /\ key[main] = key[t] /\ Changes(t)
    BY <1>1, <1>3, <2>1, <2>2, CrossedOnly DEF Uncrossed
  <2>4. t = main
    BY <2>2, <2>3, OthersElsewhere DEF PairInv
  <2> QED
    BY <2>3, <2>4
<1>4. CASE Crash
  BY <1>1, <1>4 DEF Crash, Uncrossed
<1>5. CASE UNCHANGED vars
  BY <1>1, <1>5 DEF vars, callVars, Uncrossed
<1>6. [Next]_vars
  BY IsFileStep DEF PairInv, CallInv
<1> QED
  BY <1>2, <1>3, <1>4, <1>5, <1>6 DEF Next

LEMMA UsedPairNext ==
  ASSUME PairInv, [StorerNext]_allVars
  PROVE  UsedPair'
<1> DEFINE e == Entry(keypair)
<1>1. /\ IndInv /\ TypeOK /\ Places /\ ret \in [Threads -> Returned] /\ MainCalls /\ OtherCalls
      /\ UsedPair /\ Uncrossed /\ KeyFile
      /\ main \in Threads /\ keypair \in Keys /\ keypair' = keypair
      /\ phase \in {"off", "keypair", "save", "up", "list", "entry"} /\ used \subseteq KeyPairs
      /\ identity \in KeyPairs \cup {None}
  BY StorerAssumption DEF PairInv, CallInv, IndInv, StorerTypeOK
<1>2. ASSUME UNCHANGED fileVars PROVE e' = e
  BY <1>1, <1>2, FilesSame
<1>3. CASE Start
  <2>1. PICK v \in Values : Call(main, "get", keypair, v)
    BY <1>3 DEF Start
  <2>2. place'[main] = "open" /\ UNCHANGED fileVars
    BY <1>1, <2>1, CallEffect DEF fileVars
  <2>3. e' = e
    BY <1>2, <2>2
  <2> QED
    BY <1>1, <1>3, <2>2, <2>3 DEF Start, UsedPair, Idle
<1>4. CASE KeyPairRead
  <2>1. phase = "keypair" /\ UNCHANGED misread /\ (~misread => ret[main] = e)
    BY <1>1, <1>4 DEF KeyPairRead, ReadKeyPair, UsedPair
  <2>2. CASE ret[main] \in KeyPairs
    <3>1. /\ UNCHANGED fileVars /\ identity' = ret[main] /\ used' = used \cup {ret[main]}
          /\ phase' = "up"
      BY <1>4, <2>2 DEF KeyPairRead, ReadKeyPair, Use, vars
    <3>2. e' = e
      BY <1>2, <3>1
    <3>3. ~misread => used' = {e}
      BY <1>1, <2>1, <3>1 DEF UsedPair
    <3> QED
      BY <2>1, <3>1, <3>2, <3>3 DEF UsedPair
  <2>3. CASE ret[main] \notin KeyPairs
    <3>1. PICK kp \in KeyPairs : Call(main, "set", keypair, kp)
      BY <1>4, <2>3 DEF KeyPairRead, ReadKeyPair, Changing
    <3>2. kp \in Values
      BY StorerAssumption
    <3>3. place'[main] = "open" /\ UNCHANGED fileVars
      BY <1>1, <3>1, <3>2, CallEffect DEF fileVars
    <3>4. phase' = "save" /\ used' = used
      BY <1>4, <2>3 DEF KeyPairRead, ReadKeyPair
    <3>5. ~misread => used = {}
      BY <1>1, <2>1, <2>3 DEF UsedPair
    <3> QED
      BY <2>1, <3>3, <3>4, <3>5 DEF UsedPair, Idle
  <2> QED
    BY <2>2, <2>3
<1>5. CASE KeyPairSaved
  <2>1. UNCHANGED fileVars /\ UNCHANGED misread /\ phase = "save" /\ Idle(main)
    BY <1>5 DEF KeyPairSaved, SavedKeyPair, vars
  <2>2. e' = e /\ (~misread => used = {})
    BY <1>1, <1>2, <2>1 DEF UsedPair
  <2>3. CASE ret[main] = "ok"
    <3>1. identity' = identity /\ used' = used \cup {identity} /\ phase' = "up" /\ e = identity
      BY <1>1, <1>5, <2>1, <2>3 DEF KeyPairSaved, SavedKeyPair, Use, UsedPair
    <3> QED
      BY <2>1, <2>2, <3>1 DEF UsedPair
  <2>4. CASE ret[main] # "ok"
    <3>1. phase' = "off" /\ used' = used
      BY <1>5, <2>4 DEF KeyPairSaved, SavedKeyPair
    <3> QED
      BY <2>1, <2>2, <3>1 DEF UsedPair
  <2> QED
    BY <2>3, <2>4
<1>6. CASE List \/ EntryRead \/ Listed
  <2>1. /\ UNCHANGED fileVars /\ UNCHANGED <<misread, used, identity>>
        /\ phase \in {"up", "list", "entry"} /\ phase' \in {"up", "list", "entry"}
    BY <1>6 DEF List, EntryRead, Listed, vars
  <2>2. e' = e
    BY <1>2, <2>1
  <2> QED
    BY <1>1, <2>1, <2>2 DEF UsedPair
<1>7. CASE ReadEntry
  <2>1. /\ UNCHANGED fileVars /\ UNCHANGED <<misread, used, identity>>
        /\ phase = "list" /\ phase' = "entry"
    BY <1>7 DEF ReadEntry, Call
  <2>2. e' = e
    BY <1>2, <2>1
  <2> QED
    BY <1>1, <2>1, <2>2 DEF UsedPair
<1>8. CASE Stop
  <2>1. UNCHANGED fileVars /\ UNCHANGED <<misread, used>> /\ phase' = "off"
    BY <1>8 DEF Stop, Crash
  <2>2. e' = e
    BY <1>2, <2>1
  <2> QED
    BY <1>1, <2>1, <2>2 DEF UsedPair
<1>9. ASSUME NEW t \in Threads, SavePairing(t) \/ DeletePairing(t) PROVE UsedPair'
  <2>1. PICK o \in {"set", "delete"}, k \in Keys, v \in Values : Call(t, o, k, v)
    BY <1>9 DEF SavePairing, DeletePairing, Changing, PairingKeys, Pairings
  <2>2. t # main /\ UNCHANGED <<phase, identity, used, misread>>
    BY <1>9 DEF SavePairing, DeletePairing
  <2>3. place'[main] = place[main] /\ ret' = ret /\ UNCHANGED fileVars
    BY <1>1, <2>1, <2>2, CallEffect DEF fileVars
  <2>4. e' = e
    BY <1>2, <2>3
  <2> QED
    BY <1>1, <2>2, <2>3, <2>4 DEF UsedPair, Idle
<1>10. ASSUME NEW t \in Threads, Work(t) \/ Fail(t) PROVE UsedPair'
  <2>1. (Step(t) \/ Fault(t)) /\ UNCHANGED <<phase, identity, used>>
    BY <1>10 DEF Work, Fail
  <2>2. ~misread' => ~misread /\ ~(Fail(t) /\ phase = "keypair" /\ t = main)
    BY <1>10, Zenon DEF Work, Fail
  <2>3. Changes(t) => (key[t] # keypair \/ (t = main /\ phase = "save"))
    BY OthersElsewhere DEF PairInv
  <2>4. CASE phase = "save" /\ t = main
    <3>1. Idle(main)' /\ ret'[main] = "ok" => e' = identity
      <4>1. SUFFICES ASSUME Idle(main)', ret'[main] = "ok" PROVE e' = identity
        OBVIOUS
      <4>2. op[main] = "set" /\ key[main] = keypair /\ val[main] = identity /\ place[main] # "read"
        BY <1>1, <2>1, <2>4, StepEffect DEF MainCalls, Places, Idle
      <4>3. ~Fault(main)
        <5>1. ASSUME Fault(main) PROVE Return(main, "error")
          BY <4>2, <5>1 DEF Fault
        <5> QED
          BY <1>1, <4>1, <5>1 DEF Return
      <4>4. SetWrite(main)
        <5>1. place'[main] = "idle"
          BY <4>1 DEF Idle
        <5> QED
          BY <1>1, <2>1, <2>4, <4>2, <4>3, <5>1
             DEF Step, SetOpen, GetOpen, GetRead, Reading, DeleteFile, TypeOK, Places
      <4>5. Fits(key[main], val[main])
        <5>1. identity \in KeyPairs
          BY <1>1, <2>4 DEF MainCalls
        <5> QED
          BY <1>1, <4>2, <5>1 DEF Fits, KeyFile
      <4>6. ~crossed[main]
        BY <1>1, <4>2 DEF Uncrossed
      <4>7. Entry(key[main])' = val[main] /\ key' = key
        BY <1>1, <2>1, <2>4, <4>4, <4>5, <4>6, SetEntry, StepEffect
      <4> QED
        BY <4>2, <4>7
    <3> QED
      BY <1>1, <2>1, <2>2, <2>4, <3>1 DEF UsedPair
  <2>5. CASE ~(phase = "save" /\ t = main)
    <3>1. e' = e
      BY <1>1, <2>1, <2>3, <2>5, OtherKeys, UntouchedEntry
    <3>2. CASE t # main
      <4>1. place'[main] = place[main] /\ ret'[main] = ret[main]
        BY <1>1, <2>1, <3>2, StepEffect
      <4> QED
        BY <1>1, <2>1, <2>2, <3>1, <4>1 DEF UsedPair, Idle
    <3>3. CASE t = main
      <4>1. phase = "keypair" /\ Idle(main)' /\ ~misread' => ret'[main] = e'
        <5>1. SUFFICES ASSUME phase = "keypair", Idle(main)', ~misread' PROVE ret'[main] = e'
          OBVIOUS
        <5>2. Step(main)
          BY <1>10, <2>2, <3>3, <5>1 DEF Work
        <5>3. op[main] = "get" /\ key[main] = keypair
          BY <1>1, <2>1, <3>3, <5>1, StepEffect DEF MainCalls, Idle
        <5>4. op'[main] = "none"
          <6>1. TypeOK'
            BY <1>1, IsFileStep, InvNext DEF PairInv, CallInv, IndInv
          <6> QED
            BY <1>1, <5>1, <6>1 DEF TypeOK, Idle
        <5> QED
          BY <1>1, <3>1, <5>2, <5>3, <5>4, GetEntry DEF Uncrossed
      <4> QED
        BY <1>1, <2>1, <2>2, <2>5, <3>1, <3>3, <4>1 DEF UsedPair
    <3> QED
      BY <3>2, <3>3
  <2> QED
    BY <2>4, <2>5
<1>11. CASE UNCHANGED allVars
  <2>1. UNCHANGED fileVars /\ UNCHANGED <<misread, used, identity, phase, place, ret>>
    BY <1>11 DEF allVars, vars, callVars, storerVars
  <2>2. e' = e
    BY <1>2, <2>1
  <2> QED
    BY <1>1, <2>1, <2>2 DEF UsedPair, Idle
<1> QED
  BY <1>3, <1>4, <1>5, <1>6, <1>7, <1>8, <1>9, <1>10, <1>11 DEF StorerNext

-----------------------------------------------------------------------------
(* What is known of the entries, and what LoadPairings finds. *)

\* What the last call left is there, if that is known.
KnownEntries == \A k \in Keys : known[k] # Broken => Entry(k) = known[k]

\* Nothing is known of a key that is being changed.
ChangedUnknown == \A t \in Threads : Changes(t) => known[key[t]] = Broken

\* Under the key of a pairing there is a pairing.
KnownPairings == \A k \in PairingKeys : known[k] \in Pairings \cup {None, Broken}

\* A steady key is known; so nobody crosses main on one.
SteadyKnown == \A k \in steady : known[k] # Broken
SteadyRead == op[main] = "get" /\ key[main] \in steady => ~crossed[main]

\* LoadPairings has found what is known of the steady keys it has been through,
\* and of the one it is at.
Loaded ==
  phase \in {"list", "entry"} =>
    /\ \A k \in todo : loaded[k] = None
    /\ faults = 0 => \A k \in steady \ todo : loaded[k] = known[k]
EntryFound ==
  phase = "entry" /\ Idle(main) /\ faults = 0 /\ key[main] \in steady =>
    ret[main] = known[key[main]]

KnownInv ==
  /\ CallInv /\ KnownEntries /\ ChangedUnknown /\ KnownPairings
  /\ SteadyKnown /\ SteadyRead /\ Loaded /\ EntryFound

\* A call that begins: its key is known no more.
LEMMA ChangingKnown ==
  ASSUME KnownInv, NEW t \in Threads, NEW o \in {"set", "delete"}, NEW k \in Keys,
         NEW v \in Values, Changing(t, o, k, v)
  PROVE  KnownEntries' /\ ChangedUnknown' /\ KnownPairings'
<1>1. /\ TypeOK /\ known \in [Keys -> Values \cup {None, Broken}] /\ Call(t, o, k, v)
      /\ o \in {"set", "get", "delete"} /\ known' = [known EXCEPT ![k] = Broken]
  BY DEF KnownInv, CallInv, StorerTypeOK, Changing
<1>2. UNCHANGED fileVars
  BY <1>1 DEF Call
<1>3. \A l \in Keys : Entry(l)' = Entry(l)
  BY <1>2, FilesSame
<1>4. KnownEntries'
  BY <1>1, <1>3 DEF KnownInv, KnownEntries
<1>5. ChangedUnknown'
  <2>1. \A u \in Threads : key[u] \in Keys
    BY <1>1 DEF TypeOK
  <2> QED
    BY <1>1, <2>1, CallEffect DEF KnownInv, ChangedUnknown, Changes
<1>6. KnownPairings'
  BY <1>1 DEF KnownInv, KnownPairings, PairingKeys
<1> QED
  BY <1>4, <1>5, <1>6

\* A call that goes on or returns: what it leaves is known if nobody crossed it.
LEMMA WorkKnown ==
  ASSUME KnownInv, NEW t \in Threads, Step(t) \/ Fault(t),
         known' = known \/ (Step(t) /\ op'[t] = "none" /\ known' = Changed(t))
  PROVE  KnownEntries' /\ ChangedUnknown' /\ KnownPairings'
<1>1. /\ IndInv /\ TypeOK /\ Places /\ ret \in [Threads -> Returned] /\ OtherCalls /\ MainCalls
      /\ known \in [Keys -> Values \cup {None, Broken}]
      /\ KnownEntries /\ ChangedUnknown /\ KnownPairings /\ key[t] \in Keys
  BY DEF KnownInv, CallInv, IndInv, StorerTypeOK, TypeOK
<1>2. key' = key /\ \A u \in Threads : op'[u] \in {op[u], "none"}
  <2>1. key' = key /\ op'[t] \in {op[t], "none"} /\ \A u \in Threads : u # t => op'[u] = op[u]
    BY <1>1, StepEffect
  <2> QED
    BY <2>1
<1>3. \A k \in Keys : (Changes(t) => k # key[t]) => Entry(k)' = Entry(k)
  BY <1>1, OtherKeys, UntouchedEntry
<1>4. CASE known' = known
  <2>1. KnownEntries'
    <3>1. \A k \in Keys : known[k] # Broken => (Changes(t) => k # key[t])
      BY <1>1 DEF ChangedUnknown
    <3> QED
      BY <1>1, <1>3, <1>4, <3>1 DEF KnownEntries
  <2>2. ChangedUnknown'
    BY <1>1, <1>2, <1>4 DEF ChangedUnknown, Changes
  <2>3. KnownPairings'
    BY <1>1, <1>4 DEF KnownPairings
  <2> QED
    BY <2>1, <2>2, <2>3
<1>5. CASE /\ Step(t) /\ op'[t] = "none" /\ Changes(t) /\ Alone(t)
           /\ \E x \in Values \cup {None} :
                /\ known' = [known EXCEPT ![key[t]] = x] /\ Entry(key[t])' = x
                /\ key[t] \in PairingKeys => x \in Pairings \cup {None}
  <2>1. PICK x \in Values \cup {None} :
          /\ known' = [known EXCEPT ![key[t]] = x] /\ Entry(key[t])' = x
          /\ key[t] \in PairingKeys => x \in Pairings \cup {None}
    BY <1>5
  <2>2. KnownEntries'
    <3> SUFFICES ASSUME NEW k \in Keys, known'[k] # Broken PROVE Entry(k)' = known'[k]
      BY DEF KnownEntries
    <3>1. CASE k = key[t]
      BY <1>1, <1>2, <2>1, <3>1
    <3>2. CASE k # key[t]
      BY <1>1, <1>3, <2>1, <3>2 DEF KnownEntries
    <3> QED
      BY <3>1, <3>2
  <2>3. ChangedUnknown'
    <3> SUFFICES ASSUME NEW u \in Threads, Changes(u)' PROVE known'[key'[u]] = Broken
      BY DEF ChangedUnknown
    <3>1. Changes(u) /\ u # t
      BY <1>2, <1>5 DEF Changes
    <3>2. key[u] # key[t] /\ key[u] \in Keys
      BY <1>1, <1>5, <3>1 DEF Alone, Changes, TypeOK
    <3> QED
      BY <1>1, <1>2, <2>1, <3>1, <3>2 DEF ChangedUnknown
  <2>4. KnownPairings'
    BY <1>1, <2>1 DEF KnownPairings, PairingKeys
  <2> QED
    BY <2>2, <2>3, <2>4
<1>6. CASE Step(t) /\ op'[t] = "none" /\ known' = Changed(t)
  <2>1. CASE op[t] = "set" /\ Alone(t) /\ Fits(key[t], val[t])
    <3>1. SetWrite(t)
      BY <1>1, <1>6, <2>1
         DEF Step, SetOpen, GetOpen, GetRead, Reading, DeleteFile, Places
    <3>2. Entry(key[t])' = val[t]
      BY <1>1, <2>1, <3>1, SetEntry DEF Alone
    <3>3. key[t] \in PairingKeys => val[t] \in Pairings
      BY <1>1, <2>1, StorerAssumption DEF OtherCalls, MainCalls, PairingKeys, Idle, TypeOK,
                                          KnownInv, CallInv, StorerTypeOK
    <3>4. known' = [known EXCEPT ![key[t]] = val[t]] /\ val[t] \in Values
      BY <1>1, <1>6, <2>1 DEF Changed, TypeOK
    <3> QED
      BY <1>5, <1>6, <2>1, <3>2, <3>3, <3>4 DEF Changes
  <2>2. CASE op[t] = "delete" /\ Alone(t)
    <3>1. DeleteFile(t)
      BY <1>1, <1>6, <2>2 DEF Step, SetOpen, SetWrite, Write, GetOpen, GetRead, Reading, Places
    <3>2. Entry(key[t])' = None
      BY <1>1, <3>1, DeletedEntry
    <3>3. known' = [known EXCEPT ![key[t]] = None]
      BY <1>6, <2>2 DEF Changed
    <3> QED
      BY <1>5, <1>6, <2>2, <3>2, <3>3 DEF Changes
  <2>3. CASE ~(op[t] = "set" /\ Alone(t) /\ Fits(key[t], val[t])) /\ ~(op[t] = "delete" /\ Alone(t))
    BY <1>4, <1>6, <2>3 DEF Changed
  <2> QED
    BY <2>1, <2>2, <2>3
<1> QED
  BY <1>4, <1>6

\* A step that changes no file, and after which no more calls do.
LEMMA QuietKnown ==
  ASSUME KnownInv, UNCHANGED <<fileVars, known>>,
         \A u \in Threads : Changes(u)' => Changes(u) /\ key'[u] = key[u]
  PROVE  KnownEntries' /\ ChangedUnknown' /\ KnownPairings'
<1>1. \A k \in Keys : Entry(k)' = Entry(k)
  BY FilesSame
<1> QED
  BY <1>1 DEF KnownInv, KnownEntries, ChangedUnknown, KnownPairings

\* A call of a goroutine other than main.
LEMMA PairingCallKnown ==
  ASSUME KnownInv, NEW t \in Threads, SavePairing(t) \/ DeletePairing(t)
  PROVE  /\ KnownEntries' /\ ChangedUnknown' /\ KnownPairings'
         /\ SteadyKnown' /\ SteadyRead' /\ Loaded' /\ EntryFound'
<1>1. /\ TypeOK /\ known \in [Keys -> Values \cup {None, Broken}] /\ main \in Threads
      /\ SteadyKnown /\ SteadyRead /\ Loaded /\ EntryFound /\ steady \subseteq Keys
  BY StorerAssumption DEF KnownInv, CallInv, StorerTypeOK, PairingKeys
<1>2. PICK o \in {"set", "delete"}, k \in PairingKeys, v \in Values :
        Changing(t, o, k, v) /\ steady' = steady \ {k}
  BY <1>1 DEF SavePairing, DeletePairing, Pairings
<1>3. t # main /\ UNCHANGED <<phase, todo, loaded>>
  BY DEF SavePairing, DeletePairing
<1>4. k \in Keys /\ Call(t, o, k, v) /\ known' = [known EXCEPT ![k] = Broken]
  BY <1>2 DEF Changing, PairingKeys
<1>5. KnownEntries' /\ ChangedUnknown' /\ KnownPairings'
  BY <1>2, <1>4, ChangingKnown
<1>6. \A l \in steady' : l \in steady /\ known'[l] = known[l]
  BY <1>1, <1>2, <1>4
<1>7. o \in {"set", "get", "delete"}
  OBVIOUS
<1>8. /\ place'[main] = place[main] /\ op'[main] = op[main] /\ key'[main] = key[main]
      /\ crossed'[main] = crossed[main] /\ ret' = ret /\ faults' = faults
  BY <1>1, <1>3, <1>4, <1>7, CallEffect
<1>9. SteadyKnown' /\ SteadyRead'
  BY <1>1, <1>6, <1>8 DEF SteadyKnown, SteadyRead
<1>10. Loaded' /\ EntryFound'
  BY <1>1, <1>3, <1>6, <1>8 DEF Loaded, EntryFound, Idle
<1> QED
  BY <1>5, <1>9, <1>10

\* A step of a call.
LEMMA WorkSteady ==
  ASSUME KnownInv, TypeOK', NEW t \in Threads, Work(t) \/ Fail(t)
  PROVE  /\ KnownEntries' /\ ChangedUnknown' /\ KnownPairings'
         /\ SteadyKnown' /\ SteadyRead' /\ Loaded' /\ EntryFound'
<1>1. /\ IndInv /\ TypeOK /\ Places /\ ret \in [Threads -> Returned] /\ MainCalls
      /\ known \in [Keys -> Values \cup {None, Broken}]
      /\ KnownEntries /\ ChangedUnknown /\ SteadyKnown /\ SteadyRead /\ Loaded /\ EntryFound
      /\ steady \subseteq Keys /\ main \in Threads /\ faults \in Nat
  BY StorerAssumption DEF KnownInv, CallInv, IndInv, StorerTypeOK, TypeOK, PairingKeys
<1>2. (Step(t) \/ Fault(t)) /\ UNCHANGED <<phase, todo, loaded, steady>>
  BY DEF Work, Fail
<1>3. known' = known \/ (Step(t) /\ op'[t] = "none" /\ known' = Changed(t))
  BY DEF Work, Fail
<1>4. KnownEntries' /\ ChangedUnknown' /\ KnownPairings'
  BY <1>2, <1>3, WorkKnown
<1>5. \A k \in steady : known'[k] = known[k]
  <2>1. Changes(t) => key[t] \notin steady
    BY <1>1 DEF ChangedUnknown, SteadyKnown
  <2> QED
    BY <1>1, <1>3, <2>1 DEF Changed, Changes
<1>6. SteadyKnown'
  BY <1>1, <1>2, <1>5 DEF SteadyKnown
<1>7. key' = key /\ op'[main] \in {op[main], "none"}
  <2>1. key' = key /\ op'[t] \in {op[t], "none"} /\ (main # t => op'[main] = op[main])
    BY <1>1, <1>2, StepEffect
  <2> QED
    BY <2>1
<1>8. SteadyRead'
  <2>1. SUFFICES ASSUME op'[main] = "get", key'[main] \in steady', crossed'[main] PROVE FALSE
    BY DEF SteadyRead
  <2>2. op[main] = "get" /\ key[main] \in steady
    BY <1>2, <1>7, <2>1
  <2>3. Changes(t) /\ key[main] = key[t]
    BY <1>1, <1>2, <2>1, <2>2, CrossedOnly DEF SteadyRead
  <2> QED
    BY <1>1, <2>2, <2>3 DEF ChangedUnknown, SteadyKnown
<1>9. faults' = 0 => faults = 0 /\ Step(t)
  <2>1. Fault(t) => faults' # 0
    BY <1>1 DEF Fault
  <2>2. Step(t) => faults' = faults
    BY DEF Step, SetOpen, SetWrite, GetOpen, GetRead, Reading, DeleteFile
  <2> QED
    BY <1>2, <2>1, <2>2
<1>10. Loaded'
  BY <1>1, <1>2, <1>5, <1>9 DEF Loaded
<1>11. EntryFound'
  <2>1. SUFFICES ASSUME phase = "entry", Idle(main)', faults' = 0, key[main] \in steady
                 PROVE  ret'[main] = known[key[main]]
    BY <1>2, <1>5, <1>7 DEF EntryFound
  <2>2. CASE t # main
    <3>1. place'[main] = place[main] /\ ret'[main] = ret[main]
      BY <1>1, <1>2, <2>2, StepEffect
    <3> QED
      BY <1>1, <1>9, <2>1, <3>1 DEF EntryFound, Idle
  <2>3. CASE t = main
    <3>1. op[main] = "get" /\ Step(main)
      BY <1>1, <1>2, <1>9, <2>1, <2>3, StepEffect DEF MainCalls, Idle
    <3>2. op'[main] = "none" /\ ~crossed[main]
      BY <1>1, <2>1, <3>1 DEF TypeOK, Idle, SteadyRead
    <3>3. ret'[main] = Entry(key[main])
      BY <1>1, <3>1, <3>2, GetEntry
    <3> QED
      BY <1>1, <2>1, <3>3 DEF KnownEntries, SteadyKnown
  <2> QED
    BY <2>2, <2>3
<1> QED
  BY <1>4, <1>6, <1>8, <1>10, <1>11

LEMMA KnownNext == KnownInv /\ [StorerNext]_allVars => KnownInv'
<1> SUFFICES ASSUME KnownInv, [StorerNext]_allVars PROVE KnownInv'
  OBVIOUS
<1> DEFINE goal == /\ KnownEntries' /\ ChangedUnknown' /\ KnownPairings'
                   /\ SteadyKnown' /\ SteadyRead' /\ Loaded' /\ EntryFound'
<1>1. /\ TypeOK /\ MainCalls /\ KnownEntries /\ KnownPairings /\ ChangedUnknown
      /\ SteadyKnown /\ SteadyRead /\ Loaded /\ EntryFound
      /\ known \in [Keys -> Values \cup {None, Broken}]
      /\ loaded \in [PairingKeys -> Pairings \cup {None}]
      /\ steady \subseteq PairingKeys /\ todo \subseteq PairingKeys
      /\ main \in Threads /\ keypair \in Keys /\ KeyPairs \subseteq Values
      /\ PairingKeys \subseteq Keys /\ None \notin Pairings /\ "get" \in {"set", "get", "delete"}
  BY StoreAssumption, StorerAssumption
     DEF KnownInv, CallInv, StorerTypeOK, PairingKeys, Pairings
<1>2. CallInv' /\ TypeOK'
  BY CallNext DEF KnownInv, CallInv, StorerTypeOK
<1> SUFFICES goal
  BY <1>2 DEF KnownInv
<1>3. ASSUME NEW k \in Keys, NEW v \in Values, Call(main, "get", k, v), known' = known,
             steady' = steady
      PROVE  KnownEntries' /\ ChangedUnknown' /\ KnownPairings' /\ SteadyKnown' /\ SteadyRead'
  <2>1. /\ op'[main] = "get" /\ ~crossed'[main]
        /\ \A u \in Threads : u # main => op'[u] = op[u] /\ key'[u] = key[u]
        /\ UNCHANGED fileVars
    BY <1>1, <1>3, CallEffect DEF fileVars
  <2>2. \A u \in Threads : Changes(u)' => Changes(u) /\ key'[u] = key[u]
    BY <2>1 DEF Changes
  <2>3. KnownEntries' /\ ChangedUnknown' /\ KnownPairings'
    BY <1>3, <2>1, <2>2, QuietKnown
  <2> QED
    BY <1>1, <1>3, <2>1, <2>3 DEF SteadyKnown, SteadyRead
<1>4. ASSUME UNCHANGED <<vars, known>>
      PROVE  KnownEntries' /\ ChangedUnknown' /\ KnownPairings'
  BY <1>4, QuietKnown DEF vars, callVars, Changes
<1>5. CASE Start
  <2>1. PICK v \in Values : Call(main, "get", keypair, v)
    BY <1>5 DEF Start
  <2> QED
    BY <1>1, <1>3, <1>5, <2>1 DEF Start, Loaded, EntryFound
<1>6. CASE KeyPairRead
  <2>1. CASE ret[main] \in KeyPairs
    BY <1>1, <1>4, <1>6, <2>1
       DEF KeyPairRead, ReadKeyPair, Use, vars, callVars,
           SteadyKnown, SteadyRead, Loaded, EntryFound
  <2>2. CASE ret[main] \notin KeyPairs
    <3>1. PICK kp \in KeyPairs : Changing(main, "set", keypair, kp)
      BY <1>6, <2>2 DEF KeyPairRead, ReadKeyPair
    <3>2. kp \in Values /\ "set" \in {"set", "delete"}
      BY <1>1
    <3>3. KnownEntries' /\ ChangedUnknown' /\ KnownPairings'
      BY <1>1, <3>1, <3>2, ChangingKnown
    <3>4. op'[main] = "set" /\ known' = [known EXCEPT ![keypair] = Broken]
      BY <1>1, <3>1 DEF Changing, Call, TypeOK
    <3>5. phase' = "save" /\ steady' = steady
      BY <1>6, <2>2 DEF KeyPairRead, ReadKeyPair
    <3> QED
      BY <1>1, <3>3, <3>4, <3>5
         DEF SteadyKnown, SteadyRead, Loaded, EntryFound, PairingKeys
  <2> QED
    BY <2>1, <2>2
<1>7. CASE KeyPairSaved \/ Listed
  BY <1>1, <1>4, <1>7
     DEF KeyPairSaved, SavedKeyPair, Use, Listed, vars, callVars,
         SteadyKnown, SteadyRead, Loaded, EntryFound
<1>8. CASE List
  <2>1. /\ UNCHANGED <<vars, known>> /\ phase = "up" /\ phase' = "list"
        /\ todo' = {k \in PairingKeys : dir[k] # 0}
        /\ loaded' = [k \in PairingKeys |-> None]
        /\ steady' = {k \in PairingKeys : known[k] # Broken}
    BY <1>8 DEF List
  <2>2. KnownEntries' /\ ChangedUnknown' /\ KnownPairings'
    BY <1>4, <2>1
  <2>3. SteadyKnown'
    BY <2>1 DEF SteadyKnown
  <2>4. SteadyRead'
    BY <1>1, <2>1 DEF MainCalls, Idle, TypeOK, SteadyRead, vars, callVars
  <2>5. Loaded' /\ EntryFound'
    <3>1. \A k \in steady' \ todo' : known'[k] = None
      BY <1>1, <2>1 DEF KnownEntries, Entry
    <3> QED
      BY <2>1, <3>1 DEF Loaded, EntryFound
  <2> QED
    BY <2>2, <2>3, <2>4, <2>5
<1>9. CASE ReadEntry
  <2>1. PICK k \in todo, v \in Values : Call(main, "get", k, v)
    BY <1>9 DEF ReadEntry
  <2>2. /\ place'[main] = "open" /\ faults' = faults /\ phase = "list"
        /\ UNCHANGED <<todo, loaded, known, steady>>
    BY <1>1, <1>9, <2>1 DEF ReadEntry, Call, TypeOK
  <2>3. KnownEntries' /\ ChangedUnknown' /\ KnownPairings' /\ SteadyKnown' /\ SteadyRead'
    BY <1>1, <1>3, <2>1, <2>2
  <2> QED
    BY <1>1, <2>2, <2>3 DEF Loaded, EntryFound, Idle
<1>10. CASE EntryRead
  <2>1. /\ UNCHANGED <<vars, known, steady>> /\ phase = "entry" /\ phase' = "list"
        /\ todo' = todo \ {key[main]} /\ key[main] \in todo /\ Idle(main)
    BY <1>1, <1>10 DEF EntryRead, MainCalls
  <2>2. KnownEntries' /\ ChangedUnknown' /\ KnownPairings'
    BY <1>4, <2>1
  <2>3. SteadyKnown' /\ SteadyRead' /\ EntryFound'
    BY <1>1, <2>1 DEF SteadyKnown, SteadyRead, EntryFound, vars, callVars
  <2>4. loaded' = [loaded EXCEPT ![key[main]] =
                     IF ret[main] \in Pairings THEN ret[main] ELSE @]
    BY <1>10 DEF EntryRead
  <2>5. key[main] \in PairingKeys /\ loaded[key[main]] = None /\ faults' = faults
    BY <1>1, <2>1 DEF Loaded, vars
  <2>6. ASSUME faults = 0, key[main] \in steady PROVE loaded'[key[main]] = known[key[main]]
    <3>1. ret[main] = known[key[main]] /\ known[key[main]] \in Pairings \cup {None}
      BY <1>1, <2>1, <2>5, <2>6 DEF EntryFound, KnownPairings, SteadyKnown
    <3> QED
      BY <1>1, <2>4, <2>5, <3>1
  <2>7. \A k \in PairingKeys : k # key[main] => loaded'[k] = loaded[k]
    BY <1>1, <2>4
  <2>8. Loaded'
    BY <1>1, <2>1, <2>5, <2>6, <2>7 DEF Loaded
  <2> QED
    BY <2>2, <2>3, <2>8
<1>11. CASE Stop
  <2>1. /\ UNCHANGED <<fileVars, known, steady>> /\ phase' = "off"
        /\ \A u \in Threads : op'[u] = "none"
    BY <1>11 DEF Stop, Crash
  <2>2. KnownEntries' /\ ChangedUnknown' /\ KnownPairings'
    BY <2>1, QuietKnown DEF Changes
  <2> QED
    BY <1>1, <2>1, <2>2 DEF SteadyKnown, SteadyRead, Loaded, EntryFound
<1>12. ASSUME NEW t \in Threads, SavePairing(t) \/ DeletePairing(t) PROVE goal
  BY <1>12, PairingCallKnown
<1>13. ASSUME NEW t \in Threads, Work(t) \/ Fail(t) PROVE goal
  BY <1>2, <1>13, WorkSteady
<1>14. CASE UNCHANGED allVars
  BY <1>1, <1>4, <1>14
     DEF allVars, storerVars, vars, callVars, SteadyKnown, SteadyRead, Loaded, EntryFound, Idle
<1> QED
  BY <1>2, <1>5, <1>6, <1>7, <1>8, <1>9, <1>10, <1>11, <1>12, <1>13, <1>14
     DEF StorerNext, KnownInv

-----------------------------------------------------------------------------
(* The theorems about the controller's store. *)

LEMMA KnownInit == StorerInit => KnownInv
<1> SUFFICES ASSUME StorerInit PROVE KnownInv
  OBVIOUS
<1>1. CallInv
  BY CallInit
<1>2. \A k \in Keys : Entry(k) = None
  BY DEF StorerInit, Init, Entry
<1>3. /\ known = [k \in Keys |-> None] /\ steady = {} /\ phase = "off"
      /\ \A t \in Threads : op[t] = "none"
  BY DEF StorerInit, Init
<1> QED
  BY <1>1, <1>2, <1>3
     DEF KnownInv, KnownEntries, ChangedUnknown, KnownPairings, PairingKeys, Changes,
         SteadyKnown, SteadyRead, Loaded, EntryFound

LEMMA PairInit == StorerInit => PairInv
<1> SUFFICES ASSUME StorerInit PROVE PairInv
  OBVIOUS
<1>1. CallInv /\ keypair \in Keys
  BY CallInit, StorerAssumption
<1>2. dir[keypair] = 0 /\ op[main] = "none" /\ phase = "off" /\ used = {}
  BY <1>1, StorerAssumption DEF StorerInit, Init
<1> QED
  BY <1>1, <1>2 DEF PairInv, KeyFile, Uncrossed, UsedPair

LEMMA PairNext == PairInv /\ [StorerNext]_allVars => PairInv'
BY CallNext, KeyFileNext, UncrossedNext, UsedPairNext DEF PairInv

\* The calls of the controller are those of its phase, its key pair is that of
\* the file, and what it lists is what it saved, in every reachable state.
THEOREM StorerInvariance == StorerSpec => [](PairInv /\ KnownInv)
<1>1. StorerInit => PairInv /\ KnownInv
  BY PairInit, KnownInit
<1>2. PairInv /\ KnownInv /\ [StorerNext]_allVars => (PairInv /\ KnownInv)'
  BY PairNext, KnownNext
<1> QED
  BY <1>1, <1>2, PTL DEF StorerSpec

\* Every variable of the store and of the controller over it keeps its type.
THEOREM StorerTypeCorrect == StorerSpec => []StorerTypeOK
<1>1. PairInv => StorerTypeOK
  BY DEF PairInv, CallInv
<1> QED
  BY StorerInvariance, <1>1, PTL

\* A controller has the key pair that is in the store, and every later one the
\* same, however often and wherever the program is stopped, for any goroutines,
\* accessories and lengths, unless KeyPair met an error of the operating system
\* and took it for a missing file (misread, controller.go:47).
THEOREM OneIdentityAlways == StorerSpec => []OneIdentity
<1>1. PairInv => OneIdentity
  <2> SUFFICES ASSUME PairInv, ~misread
               PROVE  /\ Cardinality(used) <= 1
                      /\ phase \in {"up", "list", "entry"} => Entry(keypair) = identity
    BY DEF OneIdentity
  <2>1. used = {} \/ used = {Entry(keypair)}
    BY DEF PairInv, UsedPair
  <2>2. Cardinality(used) \in {0, 1}
    BY <2>1, FS_EmptySet, FS_Singleton
  <2>3. phase \in {"up", "list", "entry"} => Entry(keypair) = identity
    BY <2>1 DEF PairInv, UsedPair
  <2> QED
    BY <2>2, <2>3
<1> QED
  BY StorerInvariance, <1>1, PTL

\* LoadPairings returns what was saved and not deleted since, for any number of
\* goroutines that save and delete meanwhile, under every key whose last change
\* was not crossed by another, cut off by an error or the end of the program, or
\* a shortening (fs.go:32), and as long as the operating system reported no error
\* (fs.go:54 leaves out what it cannot read).
THEOREM LoadsKnownAlways == StorerSpec => []LoadsKnown
<1>1. KnownInv => LoadsKnown
  BY DEF KnownInv, Loaded, LoadsKnown
<1> QED
  BY StorerInvariance, <1>1, PTL

\* What the controller does with its files is what goroutines may do with a
\* store of safe registers.
THEOREM StorerRefinement == StorerSpec => Implements
<1>1. StorerInit => Init
  BY DEF StorerInit
<1>2. StorerTypeOK /\ [StorerNext]_allVars => [Next]_vars
  BY IsFileStep
<1>3. StorerSpec => Spec
  BY <1>1, <1>2, StorerTypeCorrect, PTL DEF StorerSpec, Spec
<1> QED
  BY <1>3, Refinement
=============================================================================
