----------------------------- MODULE FileStore ------------------------------
(***************************************************************************)
(* fsStore (fs.go): a file for each key.  Set opens the file, creating it  *)
(* but not truncating it, and writes over what is there; Get reads it 32   *)
(* bytes at a time; Delete unlinks it.  There is no lock: the goroutines   *)
(* of putDevice and those of the application may be in any of them.        *)
(*                                                                         *)
(* A value is a JSON object of Size[v] pieces of 32 bytes.  It is read     *)
(* back if the file holds exactly its pieces.  A file is its inode, which  *)
(* stays with those that have it open.  A write of the operating system is *)
(* one step; power failures, which may lose what was written, are not      *)
(* modelled.                                                               *)
(***************************************************************************)
EXTENDS Naturals, Sequences, FiniteSets

CONSTANTS Threads, Keys, Values, None, Empty, Broken, Size

ASSUME StoreAssumption ==
  /\ IsFiniteSet(Threads) /\ IsFiniteSet(Keys) /\ Keys # {} /\ Values # {}
  /\ Size \in [Values -> Nat \ {0}]
  /\ {None, Empty, Broken} \cap Values = {} /\ None # Empty /\ None # Broken /\ Empty # Broken

\* Enough for the files and the handles on files that were deleted.
Inodes == 1..(Cardinality(Keys) + Cardinality(Threads))

VARIABLES
  dir,      \* the inode of each key, 0 if there is none
  data,     \* the pieces in each inode
  op, key, val,
  place,    \* where a thread is in its call
  handle,   \* the file it has open
  got,      \* what Get has read
  crossed,  \* history: another call has changed the key since the call began
  ret, faults

fileVars == <<dir, data>>
callVars == <<op, key, val, place, handle, got, crossed, ret>>
vars     == <<fileVars, callVars, faults>>

Pieces   == Values \X Nat
Whole(v) == [i \in 1..Size[v] |-> <<v, i>>]

\* json.Unmarshal of a file or of a part of it.
Decode(s) ==
  IF s = <<>> THEN Empty
  ELSE IF \E v \in Values : s = Whole(v) THEN CHOOSE v \in Values : s = Whole(v)
  ELSE Broken

\* The entry of k, as a Get alone would return it.
Entry(k) == IF dir[k] = 0 THEN None ELSE Decode(data[dir[k]])

TypeOK ==
  /\ dir \in [Keys -> Inodes \cup {0}] /\ data \in [Inodes -> Seq(Pieces)]
  /\ op \in [Threads -> {"none", "set", "get", "delete"}]
  /\ key \in [Threads -> Keys] /\ val \in [Threads -> Values]
  /\ place \in [Threads -> {"idle", "open", "write", "read"}]
  /\ handle \in [Threads -> Inodes \cup {0}] /\ got \in [Threads -> Seq(Pieces)]
  /\ crossed \in [Threads -> BOOLEAN] /\ faults \in Nat
  /\ \A t \in Threads : op[t] = "none" <=> place[t] = "idle"

Init ==
  /\ dir = [k \in Keys |-> 0] /\ data = [i \in Inodes |-> <<>>]
  /\ op = [t \in Threads |-> "none"] /\ place = [t \in Threads |-> "idle"]
  /\ key = [t \in Threads |-> CHOOSE k \in Keys : TRUE]
  /\ val = [t \in Threads |-> CHOOSE v \in Values : TRUE]
  /\ handle = [t \in Threads |-> 0] /\ got = [t \in Threads |-> <<>>]
  /\ crossed = [t \in Threads |-> FALSE] /\ ret = [t \in Threads |-> None] /\ faults = 0

-----------------------------------------------------------------------------

\* t calls o on k, with v if o is "set".
Call(t, o, k, v) ==
  /\ place[t] = "idle" /\ place' = [place EXCEPT ![t] = "open"]
  /\ op' = [op EXCEPT ![t] = o] /\ key' = [key EXCEPT ![t] = k]
  /\ val' = IF o = "set" THEN [val EXCEPT ![t] = v] ELSE val
  /\ crossed' = [crossed EXCEPT ![t] = FALSE]
  /\ UNCHANGED <<fileVars, handle, got, ret, faults>>

Return(t, r) ==
  /\ place' = [place EXCEPT ![t] = "idle"] /\ op' = [op EXCEPT ![t] = "none"]
  /\ handle' = [handle EXCEPT ![t] = 0] /\ got' = [got EXCEPT ![t] = <<>>]
  /\ ret' = [ret EXCEPT ![t] = r] /\ UNCHANGED <<key, val>>

\* The other calls on the key of t.
Cross(t) ==
  crossed' = [u \in Threads |->
    crossed[u] \/ (u # t /\ op[u] # "none" /\ key[u] = key[t])]

Free(i) == (\A k \in Keys : dir[k] # i) /\ (\A u \in Threads : handle[u] # i)

\* os.OpenFile(O_WRONLY|O_CREATE)
SetOpen(t) ==
  /\ place[t] = "open" /\ op[t] = "set" /\ place' = [place EXCEPT ![t] = "write"]
  /\ \/ /\ dir[key[t]] # 0 /\ handle' = [handle EXCEPT ![t] = dir[key[t]]]
        /\ UNCHANGED <<fileVars, crossed>>
     \/ /\ dir[key[t]] = 0
        /\ \E i \in Inodes :
             /\ Free(i) /\ \A j \in Inodes : Free(j) => i <= j
             /\ dir' = [dir EXCEPT ![key[t]] = i] /\ data' = [data EXCEPT ![i] = <<>>]
             /\ handle' = [handle EXCEPT ![t] = i]
        /\ Cross(t)
  /\ UNCHANGED <<op, key, val, got, ret, faults>>

Appended(s, v, n) == s \o [i \in 1..n |-> <<v, i>>]  \* mutant: O_APPEND

\* The file with the first n pieces of v written over it.
Over(s, v, n) ==
  [i \in 1..(IF n > Len(s) THEN n ELSE Len(s)) |-> IF i <= n THEN <<v, i>> ELSE s[i]]

Write(t, n) ==
  /\ place[t] = "write"
  /\ data' = [data EXCEPT ![handle[t]] = Over(@, val[t], n)]
  /\ Cross(t) /\ UNCHANGED dir

\* file.Write, and the return
SetWrite(t) == Write(t, Size[val[t]]) /\ Return(t, "ok") /\ UNCHANGED faults

\* os.OpenFile(O_RDONLY)
GetOpen(t) ==
  /\ place[t] = "open" /\ op[t] = "get" /\ UNCHANGED <<fileVars, crossed, faults>>
  /\ \/ dir[key[t]] = 0 /\ Return(t, None)
     \/ /\ dir[key[t]] # 0 /\ handle' = [handle EXCEPT ![t] = dir[key[t]]]
        /\ place' = [place EXCEPT ![t] = "read"]
        /\ UNCHANGED <<op, key, val, got, ret>>

\* file.Read into the buffer of 32 bytes: the next piece, or the end
Reading(t, limit) ==
  /\ place[t] = "read" /\ UNCHANGED <<fileVars, crossed, faults>>
  /\ LET s == data[handle[t]] n == Len(got[t]) IN
       \/ /\ n < Len(s) /\ n < limit /\ got' = [got EXCEPT ![t] = Append(@, s[n + 1])]
          /\ UNCHANGED <<op, key, val, place, handle, ret>>
       \/ (n >= Len(s) \/ n >= limit) /\ Return(t, Decode(got[t]))

GetReadOnce(t) == Reading(t, 1)  \* mutant: one buffer is taken for the file
GetRead(t)     == Reading(t, Len(data[handle[t]]))

\* os.Remove
DeleteFile(t) ==
  /\ place[t] = "open" /\ op[t] = "delete" /\ UNCHANGED <<data, faults>>
  /\ \/ /\ dir[key[t]] # 0 /\ dir' = [dir EXCEPT ![key[t]] = 0]
        /\ Cross(t) /\ Return(t, "ok")
     \/ dir[key[t]] = 0 /\ UNCHANGED <<dir, crossed>> /\ Return(t, "error")

\* An error of the operating system in any of them.  Get ignores those of
\* file.Read and returns what it has.
Fault(t) ==
  /\ faults' = faults + 1
  /\ \/ place[t] = "open" /\ UNCHANGED <<fileVars, crossed>> /\ Return(t, "error")
     \/ place[t] = "read" /\ UNCHANGED <<fileVars, crossed>> /\ Return(t, Decode(got[t]))
     \/ \E n \in 0..(Size[val[t]] - 1) : Write(t, n) /\ Return(t, "error")

\* The program ends; the files remain.
Crash ==
  /\ op' = [t \in Threads |-> "none"] /\ place' = [t \in Threads |-> "idle"]
  /\ handle' = [t \in Threads |-> 0] /\ got' = [t \in Threads |-> <<>>]
  /\ crossed' = [t \in Threads |-> FALSE]
  /\ UNCHANGED <<fileVars, key, val, ret, faults>>

\* A step of the call t is in.
Step(t) == SetOpen(t) \/ SetWrite(t) \/ GetOpen(t) \/ GetRead(t) \/ DeleteFile(t)

Next ==
  \/ \E t \in Threads :
       \/ \E o \in {"set", "get", "delete"}, k \in Keys, v \in Values : Call(t, o, k, v)
       \/ Step(t) \/ Fault(t)
  \/ Crash

Spec == Init /\ [][Next]_vars

-----------------------------------------------------------------------------

Store == INSTANCE KeyValue WITH map <- [k \in Keys |-> Entry(k)]

\* The files are a store of safe registers: a Set that returns nil, that no
\* other change of its key crossed and that did not shorten the file is what
\* the next Get returns, whatever other goroutines do to other keys, and
\* wherever the program was stopped (store.go:6, fs.go:32).
Implements == Store!Spec
=============================================================================
