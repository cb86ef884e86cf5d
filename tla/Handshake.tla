----------------------------- MODULE Handshake ------------------------------
(***************************************************************************)
(* Pair-setup and pair-verify (controller-pair-setup.go,                   *)
(* controller-pair-verify.go) between one Device and its accessory.        *)
(*                                                                         *)
(* Callers are goroutines of the application, each in one PairSetup or     *)
(* PairVerify at a time; they share the Device, its connection and the     *)
(* pairing.  A request and its answer are one step, as the mutex of the    *)
(* roundTripper keeps requests apart; an answer may be lost with the       *)
(* connection after the accessory has acted.  Device.close is one step     *)
(* here: module Device has its steps, and what a late close can do.        *)
(*                                                                         *)
(* Cryptography is symbolic.  The keys a call makes (SRP, Curve25519) are  *)
(* its number, and a proof or a sealed message made with them is good for  *)
(* an accessory that has the same number.  The long-term key of the        *)
(* accessory is a number that a reset changes.                             *)
(***************************************************************************)
EXTENDS Naturals, FiniteSets

CONSTANTS
  Callers,
  MaxCalls,   \* bound: calls of PairSetup and PairVerify
  MaxResets,  \* bound: resets of the accessory
  MaxFaults   \* bound: answers lost, connections closed, requests refused

ASSUME HandshakeAssumption ==
  IsFiniteSet(Callers) /\ MaxCalls \in Nat /\ MaxResets \in Nat /\ MaxFaults \in Nat

VARIABLES
  \* the accessory
  identity,  \* its long-term key
  held,      \* it holds a pairing with this controller
  \* its end of the connection
  setup,     \* the call whose M1 of pair-setup it answered last, 0 for none
  proved,    \* and whose M3 it found right
  verify,    \* the call whose M1 of pair-verify it answered last
  theirKey,  \* the call whose key the connection is encrypted with, 0 for none
  \* the device
  cc,        \* "nil", "open" or "closed"
  ourKey,    \* cc.ss
  paired, verified,
  pairing,   \* the key in d.pairing, 0 for none
  \* the callers
  pc, run,   \* run[u]: the number of its call
  goodPin,
  \* bounds and history
  calls, resets, faults,
  panic,     \* nil was dereferenced
  lost,      \* an answer to M5 was lost, or came for nobody
  silent,    \* M3 of pair-verify was refused without a TLV error on this connection
  crowded,   \* a call overlapped another since the accessory was last reached anew
  undone     \* d.cc was nil when PairVerify last set verified

accVars    == <<identity, held>>
peerVars   == <<setup, proved, verify, theirKey>>
devVars    == <<cc, ourKey, paired, verified, pairing>>
callerVars == <<pc, run, goodPin>>
boundVars  == <<calls, resets, faults>>
histVars   == <<panic, lost, silent, crowded, undone>>
vars       == <<accVars, peerVars, devVars, callerVars, boundVars, histVars>>

Exchanges == {"setup1", "setup3", "setup5", "verify1", "verify3"}
Places    == Exchanges \cup {"idle", "dial", "verifyDial", "setupDone", "verifyDone", "verifyFlag"}

After == [p \in Exchanges |->
  CASE p = "setup1"  -> "setup3"
    [] p = "setup3"  -> "setup5"
    [] p = "setup5"  -> "setupDone"
    [] p = "verify1" -> "verify3"
    [] p = "verify3" -> "verifyDone"]

TypeOK ==
  /\ identity \in 1..(MaxResets + 1) /\ held \in BOOLEAN
  /\ setup \in 0..MaxCalls /\ proved \in BOOLEAN /\ verify \in 0..MaxCalls
  /\ theirKey \in 0..MaxCalls
  /\ cc \in {"nil", "open", "closed"} /\ ourKey \in 0..MaxCalls
  /\ paired \in BOOLEAN /\ verified \in BOOLEAN /\ pairing \in 0..(MaxResets + 1)
  /\ pc \in [Callers -> Places] /\ run \in [Callers -> 0..MaxCalls]
  /\ goodPin \in [Callers -> BOOLEAN]
  /\ (cc = "nil" /\ verified => undone) /\ (paired => pairing # 0)
  /\ calls \in 0..MaxCalls /\ resets \in 0..MaxResets /\ faults \in 0..MaxFaults
  /\ panic \in BOOLEAN /\ lost \in BOOLEAN /\ silent \in BOOLEAN /\ crowded \in BOOLEAN
  /\ undone \in BOOLEAN

Init ==
  /\ identity = 1 /\ held = FALSE
  /\ setup = 0 /\ proved = FALSE /\ verify = 0 /\ theirKey = 0
  /\ cc = "nil" /\ ourKey = 0 /\ paired = FALSE /\ verified = FALSE /\ pairing = 0
  /\ pc = [u \in Callers |-> "idle"] /\ run = [u \in Callers |-> 0]
  /\ goodPin = [u \in Callers |-> TRUE]
  /\ calls = 0 /\ resets = 0 /\ faults = 0
  /\ panic = FALSE /\ lost = FALSE /\ silent = FALSE /\ crowded = FALSE /\ undone = FALSE

-----------------------------------------------------------------------------

Go(u, p) == pc' = [pc EXCEPT ![u] = p]

Alone(u) == \A v \in Callers \ {u} : pc[v] = "idle"

Begin(u) ==
  /\ pc[u] = "idle" /\ calls < MaxCalls /\ calls' = calls + 1
  /\ run' = [run EXCEPT ![u] = calls'] /\ crowded' = (crowded \/ ~Alone(u))
  /\ UNCHANGED <<resets, faults, panic, lost, silent, undone>>

\* A connection that is open is used; else a new one is made, after the device
\* is closed if "closes".
Connected(u, p, q, open, closes) ==
  IF open THEN Go(u, p) /\ UNCHANGED <<cc, verified>>
          ELSE Go(u, q) /\ cc' = "nil" /\ verified' = (verified /\ ~closes)

\* PairSetup, with the right pin or with another.  connect closes the device
\* only if there is a connection.
PairSetup(u) ==
  /\ Begin(u) /\ goodPin' \in {[goodPin EXCEPT ![u] = b] : b \in BOOLEAN}
  /\ Connected(u, "setup1", "dial", cc = "open", cc # "nil")
  /\ UNCHANGED <<accVars, peerVars, ourKey, paired, pairing>>

\* PairVerify: a verified device closes its connection in any case.
PairVerify(u) ==
  /\ paired /\ Begin(u)
  /\ Connected(u, "verify1", "verifyDial", cc = "open" /\ ~verified, TRUE)
  /\ UNCHANGED <<accVars, peerVars, goodPin, ourKey, paired, pairing>>

\* connect: a new connection takes the place of what is there by now.
Dial(u) ==
  /\ pc[u] \in {"dial", "verifyDial"} /\ Go(u, IF pc[u] = "dial" THEN "setup1" ELSE "verify1")
  /\ cc' = "open" /\ ourKey' = 0
  /\ setup' = 0 /\ proved' = FALSE /\ verify' = 0 /\ theirKey' = 0
  /\ crowded' = ((crowded /\ verified) \/ ~Alone(u)) /\ silent' = FALSE
  /\ UNCHANGED <<accVars, paired, verified, pairing, run, goodPin, boundVars, panic, lost, undone>>

DialFails(u) ==
  /\ pc[u] \in {"dial", "verifyDial"} /\ faults < MaxFaults /\ faults' = faults + 1
  /\ Go(u, "idle")
  /\ UNCHANGED <<accVars, peerVars, devVars, run, goodPin, calls, resets, histVars>>

-----------------------------------------------------------------------------
(* The accessory.  ok: the controller goes on with what it is answered.     *)

ServeSetup1(u, ok) ==
  /\ ok = ~held /\ UNCHANGED <<accVars, verify, theirKey>>
  /\ IF ok THEN setup' = run[u] /\ proved' = FALSE ELSE UNCHANGED <<setup, proved>>

ServeSetup3(u, ok) ==
  /\ ok = (setup = run[u] /\ goodPin[u]) /\ UNCHANGED <<accVars, verify, theirKey>>
  /\ setup' = (IF ok THEN setup ELSE 0) /\ proved' = ok

ServeSetup5(u, ok) ==
  /\ ok = (setup = run[u] /\ proved /\ ~held)
  /\ held' = (held \/ ok) /\ setup' = 0 /\ proved' = FALSE
  /\ UNCHANGED <<identity, verify, theirKey>>

\* M2 is signed with the accessory's key, and checked with the pairing's.
ServeVerify1(u, ok) ==
  /\ verify' = run[u] /\ ok = (pairing = identity)
  /\ UNCHANGED <<accVars, setup, proved, theirKey>>

\* The call that began the exchange is of a controller it has a pairing with.
Accepts(u) == verify = run[u] /\ held

\* A refusal may come without a TLV error; the status is not looked at.
ServeVerify3(u, ok) ==
  /\ verify' = 0 /\ UNCHANGED <<accVars, setup, proved>>
  /\ IF Accepts(u) THEN ok /\ theirKey' = run[u] ELSE UNCHANGED theirKey

Serve(u, ok) ==
  \/ pc[u] = "setup1"  /\ ServeSetup1(u, ok)
  \/ pc[u] = "setup3"  /\ ServeSetup3(u, ok)
  \/ pc[u] = "setup5"  /\ ServeSetup5(u, ok)
  \/ pc[u] = "verify1" /\ ServeVerify1(u, ok)
  \/ pc[u] = "verify3" /\ ServeVerify3(u, ok)

\* Both ends encrypt alike, or not at all.
Talk == cc = "open" /\ ourKey = theirKey

\* One of the pairSetupM's, or half of PairVerify.  d.pairing is set when the
\* answer to M5 is in good.
ExchangeIf(u, good) ==
  /\ pc[u] \in Exchanges /\ Talk
  /\ \E ok \in BOOLEAN :
       /\ Serve(u, ok) /\ Go(u, IF ok THEN After[pc[u]] ELSE "idle")
       /\ pairing' = IF pc[u] = "setup5" /\ ok \in good THEN identity ELSE pairing
       /\ silent' = (silent \/ (pc[u] = "verify3" /\ ok /\ ~Accepts(u)))
  /\ UNCHANGED <<cc, ourKey, paired, verified, run, goodPin, boundVars, panic, lost, crowded,
                 undone>>

ExchangeUnchecked(u) == ExchangeIf(u, BOOLEAN)  \* mutant: before M6 is checked
Exchange(u)          == ExchangeIf(u, {TRUE})

\* The accessory acts, and the connection ends before its answer is here.
AnswerLost(u) ==
  /\ pc[u] \in Exchanges /\ Talk /\ faults < MaxFaults /\ faults' = faults + 1
  /\ \E ok \in BOOLEAN : Serve(u, ok) /\ lost' = (lost \/ (pc[u] = "setup5" /\ ok))
  /\ Go(u, "idle") /\ cc' = "closed"
  /\ UNCHANGED <<ourKey, paired, verified, pairing, run, goodPin, calls, resets, panic, silent,
                 crowded, undone>>

\* The accessory is busy, or answers with another status than 200.
Refused(u) ==
  /\ pc[u] \in Exchanges \ {"verify3"} /\ Talk /\ faults < MaxFaults /\ faults' = faults + 1
  /\ Go(u, "idle")
  /\ UNCHANGED <<accVars, peerVars, devVars, run, goodPin, calls, resets, histVars>>

\* The same of the last answer, which is looked at for a TLV error only: the
\* call goes on.
RefusedUnseen(u) ==
  /\ pc[u] = "verify3" /\ Talk /\ faults < MaxFaults /\ faults' = faults + 1
  /\ Go(u, "verifyDone") /\ silent' = TRUE
  /\ UNCHANGED <<accVars, peerVars, devVars, run, goodPin, calls, resets, panic, lost, crowded,
                 undone>>

\* No connection, or one whose other end cannot read what is sent.
Unreached(u) ==
  /\ pc[u] \in Exchanges /\ ~Talk
  /\ Go(u, "idle") /\ cc' = IF cc = "nil" THEN "nil" ELSE "closed"
  /\ UNCHANGED <<accVars, peerVars, ourKey, paired, verified, pairing, run, goodPin, boundVars,
                 histVars>>

-----------------------------------------------------------------------------

SetupDone(u) ==
  /\ pc[u] = "setupDone" /\ Go(u, "idle") /\ paired' = TRUE /\ verified' = FALSE
  /\ UNCHANGED <<accVars, peerVars, cc, ourKey, pairing, run, goodPin, boundVars, histVars>>

\* d.cc.UpgradeEnc: d.cc may be gone by now.
UpgradeWith(u, key) ==
  /\ pc[u] = "verifyDone"
  /\ IF cc = "nil" THEN panic' = TRUE /\ UNCHANGED <<ourKey, pc>>
                   ELSE ourKey' = key /\ Go(u, "verifyFlag") /\ UNCHANGED panic
  /\ UNCHANGED <<accVars, peerVars, cc, paired, verified, pairing, run, goodPin, boundVars, lost,
                 silent, crowded, undone>>

UpgradeInClear(u) == UpgradeWith(u, ourKey)  \* mutant: UpgradeEnc does nothing
UpgradeEnc(u)     == UpgradeWith(u, run[u])

\* d.verified = true, and it may be gone before this too.
VerifyDone(u) ==
  /\ pc[u] = "verifyFlag" /\ Go(u, "idle") /\ verified' = TRUE /\ undone' = (cc = "nil")
  /\ UNCHANGED <<accVars, peerVars, cc, ourKey, paired, pairing, run, goodPin, boundVars, panic,
                 lost, silent, crowded>>

-----------------------------------------------------------------------------
(* The environment. *)

Ends ==
  /\ cc = "open" /\ faults < MaxFaults /\ faults' = faults + 1 /\ cc' = "closed"
  /\ UNCHANGED <<accVars, peerVars, ourKey, paired, verified, pairing, callerVars, calls, resets,
                 histVars>>

\* Device.close, of the background goroutine or when the device is lost.
Closed(after) ==
  /\ cc = "closed" /\ verified
  /\ cc' = "nil" /\ verified' = after
  /\ UNCHANGED <<accVars, peerVars, ourKey, paired, pairing, callerVars, boundVars, histVars>>

CloseVerified == Closed(TRUE)  \* mutant: verified stays
Close         == Closed(FALSE)

LostClose ==
  /\ cc # "nil" \/ verified
  /\ faults < MaxFaults /\ faults' = faults + 1
  /\ cc' = "nil" /\ verified' = FALSE
  /\ UNCHANGED <<accVars, peerVars, ourKey, paired, pairing, callerVars, calls, resets, histVars>>

\* The accessory forgets its pairings and takes another key, and ends its
\* connections.
Reset ==
  /\ resets < MaxResets /\ resets' = resets + 1
  /\ identity' = identity + 1 /\ held' = FALSE
  /\ setup' = 0 /\ proved' = FALSE /\ verify' = 0 /\ theirKey' = 0
  /\ cc' = IF cc = "nil" THEN "nil" ELSE "closed"
  /\ lost' = FALSE
  /\ UNCHANGED <<ourKey, paired, verified, pairing, callerVars, calls, faults, panic, silent,
                 crowded, undone>>

Next ==
  /\ ~panic
  /\ \/ \E u \in Callers :
          \/ PairSetup(u) \/ PairVerify(u) \/ Dial(u) \/ DialFails(u)
          \/ Exchange(u) \/ AnswerLost(u) \/ Refused(u) \/ RefusedUnseen(u)
          \/ Unreached(u) \/ SetupDone(u) \/ UpgradeEnc(u) \/ VerifyDone(u)
     \/ Ends \/ Close \/ LostClose \/ Reset

Spec == Init /\ [][Next]_vars

-----------------------------------------------------------------------------

\* A device that has the key the accessory has now is one the accessory holds
\* a pairing with: PairSetup does not return nil for one side alone.
BothPaired == pairing = identity => held

\* The accessory holds a pairing the device does not have only if the answer
\* to M5 was lost, after which it refuses every PairSetup until it is reset.
HalfPaired == held /\ ~lost => pairing = identity

\* The two sides agree on whether they are paired, with that exception, however
\* calls overlap, connections end and the accessory is reset
\* (controller-pair-setup.go:194).
Agreed == BothPaired /\ HalfPaired

\* A verified device and its accessory encrypt with the same key, which it
\* took for a controller it has paired with, unless it refused M3 without a
\* TLV error, two calls used the connection at once, or a close had come between
\* UpgradeEnc and the flag.
SameKey ==
  verified /\ cc = "open" /\ ~silent /\ ~crowded /\ ~undone => ourKey = theirKey /\ ourKey # 0
=============================================================================
