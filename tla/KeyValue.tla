------------------------------ MODULE KeyValue ------------------------------
(***************************************************************************)
(* What a Store promises (store.go), as far as fsStore keeps it: each key  *)
(* is a safe register.  A call that no change of its key crosses takes     *)
(* effect at once; a Get that is crossed may return anything; a Set that   *)
(* is crossed, or that shortens what was there, may leave an entry that    *)
(* nobody can read.  Other keys are never touched.  A fault is an error of *)
(* the operating system, a crash the end of the program in any call.       *)
(***************************************************************************)
EXTENDS Naturals

CONSTANTS
  Threads,  \* goroutines that call the store
  Keys,
  Values,
  None,     \* there is no entry
  Empty,    \* an entry without a byte
  Broken,   \* an entry that is not a value
  Size      \* the length of each value

Entries == Values \cup {None, Empty, Broken}

VARIABLES
  map,                \* the entry of each key
  op, key, val,       \* the call each thread is in
  crossed,            \* another call has changed the key since the call began
  ret,                \* what the last call returned
  faults              \* errors of the operating system

kvVars == <<map, op, key, val, crossed, ret, faults>>

Init ==
  /\ map = [k \in Keys |-> None]
  /\ op = [t \in Threads |-> "none"]
  /\ key \in [Threads -> Keys] /\ val \in [Threads -> Values]
  /\ crossed = [t \in Threads |-> FALSE]
  /\ ret = [t \in Threads |-> None] /\ faults = 0

\* t calls o on k, with v if o is "set".
Call(t, o, k, v) ==
  /\ op[t] = "none"
  /\ op' = [op EXCEPT ![t] = o]
  /\ key' = [key EXCEPT ![t] = k]
  /\ val' = IF o = "set" THEN [val EXCEPT ![t] = v] ELSE val
  /\ crossed' = [crossed EXCEPT ![t] = FALSE]
  /\ UNCHANGED <<map, ret, faults>>

\* t returns r.
Return(t, r) ==
  /\ op' = [op EXCEPT ![t] = "none"] /\ ret' = [ret EXCEPT ![t] = r]
  /\ UNCHANGED <<key, val>>

\* The entry of t's key becomes e, which every other call on the key notices.
Change(t, e) ==
  /\ map' = [map EXCEPT ![key[t]] = e]
  /\ crossed' = [u \in Threads |->
       crossed[u] \/ (u # t /\ op[u] # "none" /\ key[u] = key[t])]

\* Set is not sure to leave its value.
Unsafe(t) ==
  \/ crossed[t] \/ map[key[t]] = Broken
  \/ map[key[t]] \in Values /\ Size[map[key[t]]] > Size[val[t]]

\* A Set on a new key is seen before its value is there.
SetOpens(t) ==
  /\ op[t] = "set" /\ map[key[t]] = None /\ Change(t, Empty)
  /\ UNCHANGED <<op, key, val, ret, faults>>

SetReturns(t) ==
  /\ op[t] = "set" /\ Return(t, "ok") /\ UNCHANGED faults
  /\ \/ Change(t, val[t])
     \/ Unsafe(t) /\ \E e \in {Broken, map[key[t]]} : Change(t, e)

GetReturns(t) ==
  /\ op[t] = "get" /\ UNCHANGED <<map, crossed, faults>>
  /\ \E e \in IF crossed[t] THEN Entries ELSE {map[key[t]]} : Return(t, e)

DeleteReturns(t) ==
  /\ op[t] = "delete" /\ UNCHANGED faults
  /\ \/ map[key[t]] # None /\ Change(t, None) /\ Return(t, "ok")
     \/ map[key[t]] = None /\ UNCHANGED <<map, crossed>> /\ Return(t, "error")

\* An error of the operating system: a Set may have written a part, a Get
\* returns what it has read, and nobody else is touched.
Fault(t) ==
  /\ op[t] # "none" /\ faults' = faults + 1
  /\ \E r \in Entries \cup {"error"} : Return(t, r) /\ (r # "error" => op[t] = "get")
  /\ \/ UNCHANGED <<map, crossed>>
     \/ op[t] = "set" /\ \E e \in {val[t], Broken, map[key[t]]} : Change(t, e)

\* The program ends in whatever it does and starts again.
Crash ==
  /\ op' = [t \in Threads |-> "none"] /\ crossed' = [t \in Threads |-> FALSE]
  /\ UNCHANGED <<map, key, val, ret, faults>>

Next ==
  \/ \E t \in Threads :
       \/ \E o \in {"set", "get", "delete"}, k \in Keys, v \in Values : Call(t, o, k, v)
       \/ SetOpens(t) \/ SetReturns(t) \/ GetReturns(t) \/ DeleteReturns(t) \/ Fault(t)
  \/ Crash

Spec == Init /\ [][Next]_kvVars
=============================================================================
