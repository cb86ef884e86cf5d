------------------------------- MODULE Storer -------------------------------
(***************************************************************************)
(* What the controller does with its store (controller.go:43-90, 233-246,  *)
(* the storer of fs.go): NewController loads the key pair, or makes one,   *)
(* the goroutines of putDevice save and delete pairings, and LoadPairings  *)
(* lists them.  Each call is a call of FileStore, whose steps interleave.  *)
(* The program may end anywhere and start again.                           *)
(***************************************************************************)
EXTENDS FileStore

CONSTANTS
  main,       \* the goroutine that makes the controller and loads the pairings
  keypair,    \* the key of the key pair; the other keys are those of pairings
  KeyPairs,   \* the values that are key pairs; the others are pairings
  MaxSaves,   \* bound: pairings saved or deleted
  MaxLoads,   \* bound: LoadPairings
  MaxStarts,  \* bound: times the program starts
  MaxFaults   \* bound: errors of the operating system

\* Every key pair is as long as another: JSON of 32 and of 64 bytes in base64
\* (keypair.go:4).
ASSUME StorerAssumption ==
  /\ main \in Threads /\ keypair \in Keys /\ KeyPairs \subseteq Values
  /\ \A v, w \in KeyPairs : Size[v] = Size[w]
  /\ {MaxSaves, MaxLoads, MaxStarts, MaxFaults} \subseteq Nat

VARIABLES
  phase,      \* where main is
  identity,   \* the key pair of the controller
  todo,       \* the files LoadPairings still has to read
  loaded,     \* what it has found in them
  known,      \* what the last call that changed a key has left there, or Broken
              \* when that cannot be told
  steady,     \* keys nobody has changed since LoadPairings began
  \* bounds and history
  saves, loads, starts,
  used,       \* the key pairs controllers have had
  misread     \* KeyPair met an error of the operating system

storerVars == <<phase, identity, todo, loaded, known, steady, saves, loads, starts,
                used, misread>>
allVars    == <<vars, storerVars>>

PairingKeys == Keys \ {keypair}
Pairings    == Values \ KeyPairs

StorerTypeOK ==
  /\ TypeOK
  /\ phase \in {"off", "keypair", "save", "up", "list", "entry"}
  /\ identity \in KeyPairs \cup {None} /\ todo \subseteq PairingKeys
  /\ loaded \in [PairingKeys -> Pairings \cup {None}]
  /\ known \in [Keys -> Values \cup {None, Broken}]
  /\ steady \subseteq PairingKeys /\ saves \in 0..MaxSaves
  /\ loads \in 0..MaxLoads /\ starts \in 0..MaxStarts
  /\ used \subseteq KeyPairs /\ misread \in BOOLEAN

StorerInit ==
  /\ Init
  /\ phase = "off" /\ identity = None /\ todo = {}
  /\ loaded = [k \in PairingKeys |-> None] /\ known = [k \in Keys |-> None] /\ steady = {}
  /\ saves = 0 /\ loads = 0 /\ starts = 0 /\ used = {} /\ misread = FALSE

Idle(t) == place[t] = "idle"

\* A call that may change k: while it runs, and when another crosses it,
\* nobody knows what k holds; so is it when it shortens an entry.
Changing(t, o, k, v) ==
  /\ Call(t, o, k, v)
  /\ known' = [known EXCEPT ![k] = Broken]

Alone(t) ==
  ~crossed[t] /\ \A u \in Threads \ {t} : op[u] \in {"set", "delete"} => key[u] # key[t]

Fits(k, v) == dir[k] = 0 \/ Len(data[dir[k]]) <= Size[v]

\* The call of t returns, and what is under its key is known again.
Changed(t) ==
  CASE op[t] = "set" /\ Alone(t) /\ Fits(key[t], val[t]) -> [known EXCEPT ![key[t]] = val[t]]
    [] op[t] = "delete" /\ Alone(t) -> [known EXCEPT ![key[t]] = None]
    [] OTHER -> known

-----------------------------------------------------------------------------
(* NewController. *)

Start ==
  /\ phase = "off" /\ Idle(main) /\ starts < MaxStarts /\ starts' = starts + 1
  /\ \E v \in Values : Call(main, "get", keypair, v)
  /\ phase' = "keypair"
  /\ UNCHANGED <<identity, todo, loaded, known, steady, saves, loads, used, misread>>

\* An identity is used once NewController has returned.
Use(kp) == identity' = kp /\ used' = used \cup {kp} /\ phase' = "up"

ReadKeyPair(good) ==
  /\ phase = "keypair" /\ Idle(main)
  /\ \/ /\ ret[main] \in good /\ Use(ret[main])
        /\ UNCHANGED <<vars, known>>
     \/ /\ ret[main] \notin good /\ phase' = "save" /\ UNCHANGED used
        /\ \E kp \in KeyPairs \ used :
             identity' = kp /\ Changing(main, "set", keypair, kp)
  /\ UNCHANGED <<todo, loaded, steady, saves, loads, starts, misread>>

KeyPairUnchecked == ReadKeyPair(KeyPairs \cup {Empty})  \* mutant: no JSON is no error
KeyPairRead      == ReadKeyPair(KeyPairs)

SavedKeyPair(failed) ==
  /\ phase = "save" /\ Idle(main)
  /\ \/ ~failed /\ Use(identity)
     \/ failed /\ phase' = "off" /\ identity' = None /\ UNCHANGED used
  /\ UNCHANGED <<vars, todo, loaded, known, steady, saves, loads, starts, misread>>

KeyPairUnsaved == SavedKeyPair(FALSE)  \* mutant: the error of the save is ignored
KeyPairSaved   == SavedKeyPair(ret[main] # "ok")

-----------------------------------------------------------------------------
(* LoadPairings. *)

\* KeysWithSuffix(".pairing")
List ==
  /\ phase = "up" /\ loads < MaxLoads /\ loads' = loads + 1 /\ phase' = "list"
  /\ todo' = {k \in PairingKeys : dir[k] # 0}
  /\ loaded' = [k \in PairingKeys |-> None]
  /\ steady' = {k \in PairingKeys : known[k] # Broken}
  /\ UNCHANGED <<vars, identity, known, saves, starts, used, misread>>

ReadEntry ==
  /\ phase = "list" /\ Idle(main) /\ phase' = "entry"
  /\ \E k \in todo, v \in Values : Call(main, "get", k, v)
  /\ UNCHANGED <<identity, todo, loaded, known, steady, saves, loads, starts, used, misread>>

\* An entry that is not a pairing is skipped.
EntryRead ==
  /\ phase = "entry" /\ Idle(main) /\ phase' = "list"
  /\ loaded' = [loaded EXCEPT ![key[main]] = IF ret[main] \in Pairings THEN ret[main] ELSE @]
  /\ todo' = todo \ {key[main]}
  /\ UNCHANGED <<vars, identity, known, steady, saves, loads, starts, used, misread>>

Listed ==
  /\ phase = "list" /\ todo = {} /\ phase' = "up"
  /\ UNCHANGED <<vars, identity, todo, loaded, known, steady, saves, loads, starts, used, misread>>

-----------------------------------------------------------------------------
(* The goroutines of putDevice. *)

SavePairing(t) ==
  /\ t # main /\ identity # None /\ phase # "save" /\ saves < MaxSaves /\ saves' = saves + 1
  /\ \E k \in PairingKeys, p \in Pairings : Changing(t, "set", k, p) /\ steady' = steady \ {k}
  /\ UNCHANGED <<phase, identity, todo, loaded, loads, starts, used, misread>>

DeletePairing(t) ==
  /\ t # main /\ identity # None /\ phase # "save" /\ saves < MaxSaves /\ saves' = saves + 1
  /\ \E k \in PairingKeys, v \in Values : Changing(t, "delete", k, v) /\ steady' = steady \ {k}
  /\ UNCHANGED <<phase, identity, todo, loaded, loads, starts, used, misread>>

-----------------------------------------------------------------------------

Work(t) ==
  /\ Step(t) /\ known' = IF op'[t] = "none" THEN Changed(t) ELSE known
  /\ UNCHANGED <<phase, identity, todo, loaded, steady, saves, loads, starts, used, misread>>

Fail(t) ==
  /\ faults < MaxFaults /\ Fault(t)
  /\ misread' = (misread \/ (phase = "keypair" /\ t = main))
  /\ UNCHANGED <<phase, identity, todo, loaded, known, steady, saves, loads, starts, used>>

Stop ==
  /\ phase # "off" /\ starts < MaxStarts
  /\ Crash /\ phase' = "off" /\ identity' = None /\ todo' = {}
  /\ loaded' = [k \in PairingKeys |-> None]
  /\ UNCHANGED <<known, steady, saves, loads, starts, used, misread>>

StorerNext ==
  \/ Start \/ KeyPairRead \/ KeyPairSaved \/ List \/ ReadEntry \/ EntryRead \/ Listed \/ Stop
  \/ \E t \in Threads : SavePairing(t) \/ DeletePairing(t) \/ Work(t) \/ Fail(t)

StorerSpec == StorerInit /\ [][StorerNext]_allVars

-----------------------------------------------------------------------------

\* The key pair of a controller that has returned from NewController is the
\* one in the store, and no later controller has another, wherever the program
\* was stopped and whether or not a save failed.  The exception is an error of
\* the operating system while KeyPair reads, which NewController takes for a
\* missing file (controller.go:47): then it saves a new key pair over the old.
OneIdentity ==
  misread \/ /\ Cardinality(used) <= 1
             /\ phase \in {"up", "list", "entry"} => Entry(keypair) = identity

\* What LoadPairings returns is what was saved and not deleted since, for
\* every key whose last change was not crossed, cut off or a shortening
\* (fs.go:32 does not truncate), as long as the operating system reports no
\* error: LoadPairings leaves out what it cannot read (fs.go:54).
LoadsKnown ==
  phase = "list" /\ todo = {} /\ faults = 0 =>
    \A k \in steady : loaded[k] = known[k]
=============================================================================
