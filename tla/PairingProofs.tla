--------------------------- MODULE PairingProofs ----------------------------
(***************************************************************************)
(* Pairing an accessory and listing its pairings.                          *)
(*                                                                         *)
(* Handshake for any number of callers, calls, resets and faults: types,   *)
(* that device and accessory agree on whether they are paired, and that    *)
(* they encrypt with the same key.  SameKey is inductive together with     *)
(* what it takes for the calls not to be crowded: then one call at most is *)
(* under way (Solo), it has a number (Numbered), it is one whose device is *)
(* not verified (Pending), and if it is about to switch to its key, or has *)
(* done so, its peer has done so (Upgraded).                                *)
(*                                                                         *)
(* Listing for any pairings and any end of the answer.  Listed is only of  *)
(* what is returned.  Before that, the bytes that have arrived are the     *)
(* items of the pairings one after the other, as far as they go, at places *)
(* that are known (Laid), and the loop is at one of these items with what  *)
(* the items before it say (Spot).                                         *)
(***************************************************************************)
EXTENDS Handshake, Listing, SequenceTheorems, TLAPS

-----------------------------------------------------------------------------
(* Pairing: the inductive invariant. *)

\* Where a call that uses, or is to open, a connection that is not encrypted is.
Moving == {"dial", "verifyDial", "verify1", "verify3", "verifyDone", "verifyFlag"}

Born     == identity = resets + 1 /\ pairing <= identity
Kept     == \A u \in Callers : pc[u] = "setupDone" => pairing # 0
Solo     == ~crowded => \A u, v \in Callers : pc[u] # "idle" /\ pc[v] # "idle" => u = v
Numbered == \A u \in Callers : pc[u] # "idle" => run[u] # 0
Pending  ==
  ~crowded => \A u \in Callers :
                pc[u] \in Moving => ~verified \/ (pc[u] = "dial" /\ undone)
Upgraded ==
  ~crowded /\ ~silent /\ cc = "open" =>
    \A u \in Callers : /\ pc[u] \in {"verifyDone", "verifyFlag"} => theirKey = run[u]
                       /\ pc[u] = "verifyFlag" => ourKey = run[u]

IndInv ==
  TypeOK /\ Born /\ Kept /\ Agreed /\ Solo /\ Numbered /\ Pending /\ Upgraded /\ SameKey

\* What is not a step of a call.
World == Ends \/ Close \/ LostClose \/ Reset

\* A step of the call of u.
Act(u) ==
  \/ PairSetup(u) \/ PairVerify(u) \/ Dial(u) \/ DialFails(u)
  \/ Exchange(u) \/ AnswerLost(u) \/ Refused(u) \/ RefusedUnseen(u)
  \/ Unreached(u) \/ SetupDone(u) \/ UpgradeEnc(u) \/ VerifyDone(u)

-----------------------------------------------------------------------------

\* A step is of a call, of the world, or nothing.
LEMMA Steps ==
  [Next]_vars => (\E u \in Callers : Act(u)) \/ World \/ UNCHANGED vars
  BY DEF Next, Act, World

\* The inductive invariant holds when nothing has been paired.
THEOREM InitInv == Init => IndInv
<1> SUFFICES ASSUME Init PROVE IndInv
  OBVIOUS
<1> USE HandshakeAssumption DEF Init
<1>1. TypeOK
  <2>1. /\ held \in BOOLEAN /\ proved \in BOOLEAN /\ paired \in BOOLEAN /\ verified \in BOOLEAN
        /\ panic \in BOOLEAN /\ lost \in BOOLEAN /\ silent \in BOOLEAN /\ crowded \in BOOLEAN
        /\ undone \in BOOLEAN /\ goodPin \in [Callers -> BOOLEAN]
        /\ (cc = "nil" /\ verified => undone) /\ (paired => pairing # 0)
    BY Zenon
  <2>2. /\ identity \in 1..(MaxResets + 1) /\ pairing \in 0..(MaxResets + 1)
        /\ setup \in 0..MaxCalls /\ verify \in 0..MaxCalls /\ theirKey \in 0..MaxCalls
        /\ cc \in {"nil", "open", "closed"} /\ ourKey \in 0..MaxCalls
        /\ pc \in [Callers -> Places] /\ run \in [Callers -> 0..MaxCalls]
        /\ calls \in 0..MaxCalls /\ resets \in 0..MaxResets /\ faults \in 0..MaxFaults
    BY DEF Places
  <2> QED
    BY <2>1, <2>2, Zenon DEF TypeOK
<1>2. Born /\ Kept /\ Numbered
  BY DEF Born, Kept, Numbered
<1>3. Agreed
  BY DEF Agreed, BothPaired, HalfPaired
<1>4. Solo /\ Pending /\ Upgraded /\ SameKey
  BY DEF Solo, Pending, Moving, Upgraded, SameKey
<1> QED
  BY <1>1, <1>2, <1>3, <1>4, Zenon DEF IndInv

-----------------------------------------------------------------------------
(* What an answer of the accessory changes. *)

\* The numbers it keeps are those of the call, or what they were, or none.
LEMMA ServeNumbers ==
  ASSUME NEW u \in Callers, NEW ok \in BOOLEAN, Serve(u, ok)
  PROVE  /\ setup' \in {setup, run[u], 0} /\ verify' \in {verify, run[u], 0}
         /\ theirKey' \in {theirKey, run[u]} /\ identity' = identity
<1>1. CASE pc[u] = "setup1" /\ ServeSetup1(u, ok)
  BY <1>1 DEF ServeSetup1, accVars
<1>2. CASE pc[u] = "setup3" /\ ServeSetup3(u, ok)
  BY <1>2 DEF ServeSetup3, accVars
<1>3. CASE pc[u] = "setup5" /\ ServeSetup5(u, ok)
  BY <1>3 DEF ServeSetup5
<1>4. CASE pc[u] = "verify1" /\ ServeVerify1(u, ok)
  BY <1>4 DEF ServeVerify1, accVars
<1>5. CASE pc[u] = "verify3" /\ ServeVerify3(u, ok)
  BY <1>5 DEF ServeVerify3, accVars
<1> QED
  BY <1>1, <1>2, <1>3, <1>4, <1>5 DEF Serve

\* It holds a pairing when it did or accepts M5.
LEMMA ServeHeld ==
  ASSUME NEW u \in Callers, NEW ok \in BOOLEAN, Serve(u, ok), held \in BOOLEAN, proved \in BOOLEAN
  PROVE  /\ held' \in BOOLEAN /\ proved' \in BOOLEAN
         /\ held' <=> held \/ (pc[u] = "setup5" /\ ok)
<1>1. CASE pc[u] = "setup1" /\ ServeSetup1(u, ok)
  BY <1>1, Zenon DEF ServeSetup1, accVars
<1>2. CASE pc[u] = "setup3" /\ ServeSetup3(u, ok)
  BY <1>2, Zenon DEF ServeSetup3, accVars
<1>3. CASE pc[u] = "setup5" /\ ServeSetup5(u, ok)
  BY <1>3, Zenon DEF ServeSetup5
<1>4. CASE pc[u] = "verify1" /\ ServeVerify1(u, ok)
  BY <1>4, Zenon DEF ServeVerify1, accVars
<1>5. CASE pc[u] = "verify3" /\ ServeVerify3(u, ok)
  BY <1>5, Zenon DEF ServeVerify3, accVars
<1> QED
  BY <1>1, <1>2, <1>3, <1>4, <1>5, Zenon DEF Serve

\* Its key changes with M3 of pair-verify only, which it accepts or not.
LEMMA ServeKey ==
  ASSUME NEW u \in Callers, NEW ok \in BOOLEAN, Serve(u, ok)
  PROVE  /\ pc[u] # "verify3" => theirKey' = theirKey
         /\ pc[u] = "verify3" /\ Accepts(u) => theirKey' = run[u]
<1>1. CASE pc[u] = "setup1" /\ ServeSetup1(u, ok)
  BY <1>1 DEF ServeSetup1
<1>2. CASE pc[u] = "setup3" /\ ServeSetup3(u, ok)
  BY <1>2 DEF ServeSetup3
<1>3. CASE pc[u] = "setup5" /\ ServeSetup5(u, ok)
  BY <1>3 DEF ServeSetup5
<1>4. CASE pc[u] = "verify1" /\ ServeVerify1(u, ok)
  BY <1>4 DEF ServeVerify1
<1>5. CASE pc[u] = "verify3" /\ ServeVerify3(u, ok)
  BY <1>5, Zenon DEF ServeVerify3
<1> QED
  BY <1>1, <1>2, <1>3, <1>4, <1>5 DEF Serve

-----------------------------------------------------------------------------
(* Types. *)

FlagsOK ==
  /\ held \in BOOLEAN /\ proved \in BOOLEAN /\ paired \in BOOLEAN /\ verified \in BOOLEAN
  /\ panic \in BOOLEAN /\ lost \in BOOLEAN /\ silent \in BOOLEAN /\ crowded \in BOOLEAN
  /\ undone \in BOOLEAN /\ goodPin \in [Callers -> BOOLEAN]

NumbersOK ==
  /\ identity \in 1..(MaxResets + 1) /\ pairing \in 0..(MaxResets + 1)
  /\ setup \in 0..MaxCalls /\ verify \in 0..MaxCalls /\ theirKey \in 0..MaxCalls
  /\ cc \in {"nil", "open", "closed"} /\ ourKey \in 0..MaxCalls
  /\ pc \in [Callers -> Places] /\ run \in [Callers -> 0..MaxCalls]
  /\ calls \in 0..MaxCalls /\ resets \in 0..MaxResets /\ faults \in 0..MaxFaults

FactsOK == (cc = "nil" /\ verified => undone) /\ (paired => pairing # 0)

\* The parts of the type invariant.
LEMMA TypeParts == TypeOK <=> FlagsOK /\ NumbersOK /\ FactsOK
  BY Zenon DEF TypeOK, FlagsOK, NumbersOK, FactsOK

\* Booleans stay Boolean.
LEMMA FlagsStep ==
  ASSUME FlagsOK, [Next]_vars
  PROVE  FlagsOK'
<1> USE DEF FlagsOK, accVars, peerVars, devVars, callerVars, boundVars, histVars
<1>1. ASSUME NEW u \in Callers, Act(u) PROVE FlagsOK'
  <2>1. CASE PairSetup(u) \/ PairVerify(u)
    <3>1. goodPin' \in [Callers -> BOOLEAN]
      <4>1. CASE PairSetup(u)
        <5>1. PICK b \in BOOLEAN : goodPin' = [goodPin EXCEPT ![u] = b]
          BY <4>1, Zenon DEF PairSetup
        <5> QED
          BY <5>1, Zenon
      <4>2. CASE PairVerify(u)
        BY <4>2, Zenon DEF PairVerify
      <4> QED
        BY <2>1, <4>1, <4>2
    <3> QED
      BY <2>1, <3>1, Zenon DEF PairSetup, PairVerify, Begin, Connected
  <2>2. CASE Dial(u) \/ DialFails(u) \/ Refused(u) \/ RefusedUnseen(u) \/ Unreached(u)
    BY <2>2, ZenonT(30) DEF Dial, DialFails, Refused, RefusedUnseen, Unreached
  <2>3. CASE Exchange(u)
    <3>1. PICK ok \in BOOLEAN :
            Serve(u, ok) /\ silent' = (silent \/ (pc[u] = "verify3" /\ ok /\ ~Accepts(u)))
      BY <2>3, Zenon DEF Exchange, ExchangeIf
    <3>2. held' \in BOOLEAN /\ proved' \in BOOLEAN
      BY <3>1, ServeHeld, Zenon
    <3> QED
      BY <2>3, <3>1, <3>2, Zenon DEF Exchange, ExchangeIf
  <2>4. CASE AnswerLost(u)
    <3>1. PICK ok \in BOOLEAN : Serve(u, ok) /\ lost' = (lost \/ (pc[u] = "setup5" /\ ok))
      BY <2>4, Zenon DEF AnswerLost
    <3>2. held' \in BOOLEAN /\ proved' \in BOOLEAN
      BY <3>1, ServeHeld, Zenon
    <3> QED
      BY <2>4, <3>1, <3>2, Zenon DEF AnswerLost
  <2>5. CASE SetupDone(u) \/ UpgradeEnc(u) \/ VerifyDone(u)
    BY <2>5, Zenon DEF SetupDone, UpgradeEnc, UpgradeWith, VerifyDone
  <2> QED
    BY <1>1, <2>1, <2>2, <2>3, <2>4, <2>5 DEF Act
<1>2. CASE World
  BY <1>2, Zenon DEF World, Ends, Close, Closed, LostClose, Reset
<1>3. CASE UNCHANGED vars
  BY <1>3, Zenon DEF vars
<1> QED
  BY <1>1, <1>2, <1>3, Steps

\* Numbers stay within their bounds.
LEMMA NumbersStep ==
  ASSUME NumbersOK, Born, [Next]_vars
  PROVE  NumbersOK' /\ Born'
<1> USE HandshakeAssumption
        DEF NumbersOK, Born, accVars, peerVars, devVars, callerVars, boundVars, histVars
<1>1. ASSUME NEW u \in Callers, Act(u) PROVE NumbersOK' /\ Born'
  <2> USE DEF Go, Places, Exchanges
  <2>1. CASE PairSetup(u) \/ PairVerify(u)
    BY <2>1 DEF PairSetup, PairVerify, Begin, Connected
  <2>2. CASE Dial(u)
    BY <2>2 DEF Dial
  <2>3. CASE DialFails(u) \/ Refused(u) \/ RefusedUnseen(u) \/ Unreached(u)
    BY <2>3 DEF DialFails, Refused, RefusedUnseen, Unreached
  <2>4. CASE Exchange(u)
    <3>1. PICK ok \in BOOLEAN :
            /\ Serve(u, ok) /\ Go(u, IF ok THEN After[pc[u]] ELSE "idle")
            /\ pairing' = IF pc[u] = "setup5" /\ ok \in {TRUE} THEN identity ELSE pairing
      BY <2>4, Zenon DEF Exchange, ExchangeIf
    <3>2. /\ setup' \in {setup, run[u], 0} /\ verify' \in {verify, run[u], 0}
          /\ theirKey' \in {theirKey, run[u]} /\ identity' = identity
      BY <3>1, ServeNumbers
    <3>3. pc' \in [Callers -> Places]
      BY <2>4, <3>1 DEF Exchange, ExchangeIf, After
    <3>4. UNCHANGED <<cc, ourKey, run, calls, resets, faults>>
      BY <2>4, Zenon DEF Exchange, ExchangeIf
    <3>5. pairing' \in 0..(MaxResets + 1) /\ pairing' <= identity'
      <4>1. pairing' = identity \/ pairing' = pairing
        BY <3>1, Zenon
      <4> QED
        BY <3>2, <4>1
    <3> QED
      BY <3>2, <3>3, <3>4, <3>5
  <2>5. CASE AnswerLost(u)
    <3>1. PICK ok \in BOOLEAN : Serve(u, ok)
      BY <2>5, Zenon DEF AnswerLost
    <3>2. /\ setup' \in {setup, run[u], 0} /\ verify' \in {verify, run[u], 0}
          /\ theirKey' \in {theirKey, run[u]} /\ identity' = identity
      BY <3>1, ServeNumbers
    <3> QED
      BY <2>5, <3>2 DEF AnswerLost
  <2>6. CASE SetupDone(u) \/ UpgradeEnc(u) \/ VerifyDone(u)
    BY <2>6 DEF SetupDone, UpgradeEnc, UpgradeWith, VerifyDone
  <2> QED
    BY <1>1, <2>1, <2>2, <2>3, <2>4, <2>5, <2>6 DEF Act
<1>2. CASE World
  <2>1. CASE Reset
    BY <2>1 DEF Reset
  <2>2. CASE Ends \/ Close \/ LostClose
    BY <2>2 DEF Ends, Close, Closed, LostClose
  <2> QED
    BY <1>2, <2>1, <2>2 DEF World
<1>3. CASE UNCHANGED vars
  BY <1>3 DEF vars
<1> QED
  BY <1>1, <1>2, <1>3, Steps

\* An exchange, in its parts.
LEMMA ExchangeDoes ==
  ASSUME NEW u \in Callers, Exchange(u)
  PROVE  /\ pc[u] \in Exchanges
         /\ UNCHANGED <<cc, ourKey, paired, verified, run, calls, resets, faults, lost, crowded,
                        undone>>
         /\ \E ok \in BOOLEAN :
              /\ Serve(u, ok) /\ pc' = [pc EXCEPT ![u] = IF ok THEN After[pc[u]] ELSE "idle"]
              /\ pairing' = IF pc[u] = "setup5" /\ ok THEN identity ELSE pairing
              /\ silent' = (silent \/ (pc[u] = "verify3" /\ ok /\ ~Accepts(u)))
<1>1. PICK ok \in BOOLEAN :
        /\ Serve(u, ok) /\ Go(u, IF ok THEN After[pc[u]] ELSE "idle")
        /\ pairing' = IF pc[u] = "setup5" /\ ok \in {TRUE} THEN identity ELSE pairing
        /\ silent' = (silent \/ (pc[u] = "verify3" /\ ok /\ ~Accepts(u)))
  BY Zenon DEF Exchange, ExchangeIf
<1>2. pairing' = IF pc[u] = "setup5" /\ ok THEN identity ELSE pairing
  BY <1>1, Zenon
<1>3. pc' = [pc EXCEPT ![u] = IF ok THEN After[pc[u]] ELSE "idle"]
  BY <1>1, Zenon DEF Go
<1>4. /\ pc[u] \in Exchanges
      /\ UNCHANGED <<cc, ourKey, paired, verified, run, calls, resets, faults, lost, crowded,
                     undone>>
  BY Zenon DEF Exchange, ExchangeIf, boundVars
<1> QED
  BY <1>1, <1>2, <1>3, <1>4, Zenon

\* A verified device has a connection, unless it was gone when the flag was set,
\* and a device that is paired, or about to be, has a pairing.
LEMMA FactsStep ==
  ASSUME TypeOK, Born, Kept, [Next]_vars
  PROVE  FactsOK' /\ Kept'
<1> USE DEF Kept, FactsOK, accVars, peerVars, devVars, callerVars, boundVars, histVars
<1>0. FactsOK /\ NumbersOK
  BY Zenon, TypeParts
<1>1. ASSUME NEW u \in Callers, Act(u) PROVE FactsOK' /\ Kept'
  <2> USE DEF Go
  <2> pc \in [Callers -> Places]
    BY <1>0 DEF NumbersOK
  <2>1. CASE PairSetup(u) \/ PairVerify(u)
    <3>1. UNCHANGED <<paired, pairing, undone>>
      BY <2>1, Zenon DEF PairSetup, PairVerify, Begin
    <3>2. cc' = "nil" /\ verified' => cc = "nil" /\ verified
      BY <2>1 DEF PairSetup, PairVerify, Connected
    <3>3. \A v \in Callers : pc'[v] = "setupDone" => pc[v] = "setupDone"
      BY <2>1 DEF PairSetup, PairVerify, Connected
    <3> QED
      BY <1>0, <3>1, <3>2, <3>3, Zenon
  <2>2. CASE Dial(u)
    BY <1>0, <2>2 DEF Dial
  <2>3. CASE DialFails(u) \/ Refused(u) \/ RefusedUnseen(u) \/ Unreached(u)
    BY <1>0, <2>3 DEF DialFails, Refused, RefusedUnseen, Unreached
  <2>4. CASE Exchange(u)
    <3>1. /\ pc[u] \in Exchanges /\ UNCHANGED <<cc, paired, verified, undone>>
          /\ \E ok \in BOOLEAN :
               /\ pc' = [pc EXCEPT ![u] = IF ok THEN After[pc[u]] ELSE "idle"]
               /\ pairing' = IF pc[u] = "setup5" /\ ok THEN identity ELSE pairing
      BY <2>4, ExchangeDoes, Zenon
    <3>2. identity # 0
      BY <1>0 DEF NumbersOK
    <3>3. \A e \in Exchanges : After[e] = "setupDone" => e = "setup5"
      BY DEF After, Exchanges
    <3> QED
      BY <1>0, <3>1, <3>2, <3>3
  <2>5. CASE AnswerLost(u)
    BY <1>0, <2>5 DEF AnswerLost
  <2>6. CASE SetupDone(u)
    BY <1>0, <2>6 DEF SetupDone
  <2>7. CASE UpgradeEnc(u)
    BY <1>0, <2>7 DEF UpgradeEnc, UpgradeWith
  <2>8. CASE VerifyDone(u)
    BY <1>0, <2>8 DEF VerifyDone
  <2> QED
    BY <1>1, <2>1, <2>2, <2>3, <2>4, <2>5, <2>6, <2>7, <2>8 DEF Act
<1>2. CASE World
  <2>1. CASE Reset
    BY <1>0, <2>1 DEF Reset
  <2>2. CASE Ends \/ Close \/ LostClose
    BY <1>0, <2>2 DEF Ends, Close, Closed, LostClose
  <2> QED
    BY <1>2, <2>1, <2>2 DEF World
<1>3. CASE UNCHANGED vars
  BY <1>0, <1>3 DEF vars
<1> QED
  BY <1>1, <1>2, <1>3, Steps

-----------------------------------------------------------------------------
(* Agreement. *)

\* A pairing is made on both sides in one step, but for an answer that is lost,
\* and a reset leaves the device with a key that is not the accessory's.
LEMMA AgreedStep ==
  ASSUME TypeOK, Born, Agreed, [Next]_vars
  PROVE  Agreed'
<1> USE DEF Agreed, BothPaired, HalfPaired
<1>0. FlagsOK /\ NumbersOK
  BY Zenon, TypeParts
<1>1. ASSUME UNCHANGED <<identity, held, pairing, lost>> PROVE Agreed'
  BY <1>1, Zenon
<1>2. ASSUME NEW u \in Callers, Act(u) PROVE Agreed'
  <2> USE DEF accVars, devVars, histVars
  <2>1. CASE Exchange(u)
    <3>1. PICK ok \in BOOLEAN :
            Serve(u, ok) /\ pairing' = IF pc[u] = "setup5" /\ ok THEN identity ELSE pairing
      BY <2>1, ExchangeDoes, Zenon
    <3>2. (held' <=> held \/ (pc[u] = "setup5" /\ ok)) /\ lost' = lost
      BY <1>0, <2>1, <3>1, ServeHeld, ExchangeDoes, Zenon DEF FlagsOK
    <3>3. identity' = identity
      BY <3>1, ServeNumbers
    <3> QED
      BY <3>1, <3>2, <3>3, Zenon
  <2>2. CASE AnswerLost(u)
    <3>1. PICK ok \in BOOLEAN : Serve(u, ok) /\ lost' = (lost \/ (pc[u] = "setup5" /\ ok))
      BY <2>2, Zenon DEF AnswerLost
    <3>2. held' <=> held \/ (pc[u] = "setup5" /\ ok)
      BY <1>0, <3>1, ServeHeld, Zenon DEF FlagsOK
    <3>3. identity' = identity /\ pairing' = pairing
      BY <2>2, <3>1, ServeNumbers DEF AnswerLost
    <3> QED
      BY <3>1, <3>2, <3>3, Zenon
  <2>3. CASE \/ PairSetup(u) \/ PairVerify(u) \/ Dial(u) \/ DialFails(u)
             \/ Refused(u) \/ RefusedUnseen(u) \/ Unreached(u)
    BY <1>1, <2>3, Zenon
       DEF PairSetup, PairVerify, Begin, Dial, DialFails, Refused, RefusedUnseen,
           Unreached
  <2>4. CASE SetupDone(u) \/ UpgradeEnc(u) \/ VerifyDone(u)
    BY <1>1, <2>4, Zenon DEF SetupDone, UpgradeEnc, UpgradeWith, VerifyDone
  <2> QED
    BY <1>2, <2>1, <2>2, <2>3, <2>4 DEF Act
<1>3. CASE World
  <2>1. CASE Reset
    <3>1. pairing' = pairing /\ identity' = identity + 1 /\ held' = FALSE
      BY <2>1 DEF Reset
    <3>2. pairing' # identity'
      BY <1>0, <3>1 DEF NumbersOK, Born
    <3> QED
      BY <3>1, <3>2
  <2>2. CASE Ends \/ Close \/ LostClose
    BY <1>1, <2>2, Zenon DEF Ends, Close, Closed, LostClose, accVars, histVars
  <2> QED
    BY <1>3, <2>1, <2>2 DEF World
<1>4. CASE UNCHANGED vars
  BY <1>1, <1>4, Zenon DEF vars, accVars, devVars, histVars
<1> QED
  BY <1>2, <1>3, <1>4, Steps

-----------------------------------------------------------------------------
(* Calls that are not crowded. *)

\* A step moves one call.  A call that begins, or dials, is alone or crowded.
LEMMA ActMoves ==
  ASSUME NumbersOK, NEW u \in Callers, Act(u)
  PROVE  /\ \E p \in Places : pc' = [pc EXCEPT ![u] = p]
         /\ \/ pc[u] # "idle" /\ run' = run
            \/ run' = [run EXCEPT ![u] = calls + 1]
         /\ \/ pc[u] # "idle" /\ crowded' = crowded
            \/ ~crowded' => Alone(u)
<1> USE DEF Go, Places, Exchanges, callerVars, histVars
<1>1. CASE PairSetup(u) \/ PairVerify(u)
  <2>1. \E p \in Places : pc' = [pc EXCEPT ![u] = p]
    BY <1>1, Zenon DEF PairSetup, PairVerify, Connected
  <2>2. run' = [run EXCEPT ![u] = calls + 1] /\ (~crowded' => Alone(u))
    <3>1. run' = [run EXCEPT ![u] = calls'] /\ calls' = calls + 1
      BY <1>1 DEF PairSetup, PairVerify, Begin
    <3>2. ~crowded' => Alone(u)
      BY <1>1, Zenon DEF PairSetup, PairVerify, Begin
    <3> QED
      BY <3>1, <3>2
  <2> QED
    BY <2>1, <2>2
<1>2. CASE Dial(u)
  <2>1. \E p \in Places : pc' = [pc EXCEPT ![u] = p]
    BY <1>2, Zenon DEF Dial
  <2>2. pc[u] # "idle" /\ run' = run
    BY <1>2 DEF Dial
  <2>3. ~crowded' => Alone(u)
    BY <1>2, Zenon DEF Dial
  <2> QED
    BY <2>1, <2>2, <2>3
<1>3. CASE Exchange(u)
  <2>1. PICK ok \in BOOLEAN : pc' = [pc EXCEPT ![u] = IF ok THEN After[pc[u]] ELSE "idle"]
    BY <1>3, ExchangeDoes, Zenon
  <2>2. pc[u] \in Exchanges /\ run' = run /\ crowded' = crowded
    BY <1>3, ExchangeDoes, Zenon
  <2>3. After[pc[u]] \in Places
    BY <2>2 DEF After
  <2> QED
    BY <2>1, <2>2, <2>3
<1>4. CASE AnswerLost(u) \/ DialFails(u) \/ Refused(u) \/ Unreached(u)
  <2>1. pc' = [pc EXCEPT ![u] = "idle"] /\ run' = run /\ crowded' = crowded
    BY <1>4, Zenon DEF AnswerLost, DialFails, Refused, Unreached
  <2>2. pc[u] # "idle"
    BY <1>4 DEF AnswerLost, DialFails, Refused, Unreached
  <2> QED
    BY <2>1, <2>2
<1>5. CASE SetupDone(u) \/ VerifyDone(u)
  <2>1. pc' = [pc EXCEPT ![u] = "idle"] /\ run' = run /\ crowded' = crowded
    BY <1>5, Zenon DEF SetupDone, VerifyDone
  <2>2. pc[u] # "idle"
    BY <1>5 DEF SetupDone, VerifyDone
  <2> QED
    BY <2>1, <2>2
<1>6. CASE RefusedUnseen(u)
  <2>1. /\ pc' = [pc EXCEPT ![u] = "verifyDone"] /\ run' = run /\ crowded' = crowded
        /\ pc[u] # "idle"
    BY <1>6, Zenon DEF RefusedUnseen
  <2> QED
    BY <2>1
<1>7. CASE UpgradeEnc(u)
  <2>1. pc' = [pc EXCEPT ![u] = "verifyFlag"] \/ pc' = [pc EXCEPT ![u] = pc[u]]
    BY <1>7 DEF UpgradeEnc, UpgradeWith, NumbersOK
  <2>2. run' = run /\ crowded' = crowded /\ pc[u] = "verifyDone"
    BY <1>7, Zenon DEF UpgradeEnc, UpgradeWith
  <2> QED
    BY <2>1, <2>2
<1> QED
  BY <1>1, <1>2, <1>3, <1>4, <1>5, <1>6, <1>7 DEF Act

\* Without crowding one call at most is under way, and it has a number.
LEMMA SoloStep ==
  ASSUME FlagsOK, NumbersOK, Solo, Numbered, [Next]_vars
  PROVE  Solo' /\ Numbered'
<1> USE DEF NumbersOK, callerVars, histVars
<1>1. ASSUME NEW u \in Callers, Act(u) PROVE Solo' /\ Numbered'
  <2>1. PICK p \in Places : pc' = [pc EXCEPT ![u] = p]
    BY <1>1, ActMoves
  <2>2. ASSUME ~crowded' PROVE Alone(u)
    <3>1. CASE pc[u] # "idle" /\ crowded' = crowded
      BY <2>2, <3>1, Zenon DEF Solo, Alone
    <3> QED
      BY <1>1, <2>2, <3>1, ActMoves, Zenon
  <2>3. Solo'
    <3> SUFFICES ASSUME ~crowded'
                 PROVE  \A v, w \in Callers : pc'[v] # "idle" /\ pc'[w] # "idle" => v = w
      BY Zenon DEF Solo
    <3>1. \A v \in Callers \ {u} : pc'[v] = "idle"
      BY <2>1, <2>2 DEF Alone
    <3> QED
      BY <3>1, Zenon
  <2>4. Numbered'
    BY <1>1, <2>1, ActMoves DEF Numbered
  <2> QED
    BY <2>3, <2>4
<1>2. CASE World
  <2>1. UNCHANGED <<pc, run, crowded>>
    BY <1>2, Zenon DEF World, Ends, Close, Closed, LostClose, Reset
  <2> QED
    BY <2>1, Zenon DEF Solo, Numbered
<1>3. CASE UNCHANGED vars
  BY <1>3, Zenon DEF vars, Solo, Numbered
<1> QED
  BY <1>1, <1>2, <1>3, Steps

\* Unless the calls are crowded after it, a step is of the one call there is.
LEMMA OthersIdle ==
  ASSUME FlagsOK, NumbersOK, Solo, NEW u \in Callers, Act(u), ~crowded'
  PROVE  \A v \in Callers \ {u} : pc[v] = "idle" /\ pc'[v] = "idle"
<1>1. PICK p \in Places : pc' = [pc EXCEPT ![u] = p]
  BY ActMoves
<1>2. Alone(u)
  <2>1. CASE pc[u] # "idle" /\ crowded' = crowded
    BY <2>1, Zenon DEF Solo, Alone
  <2> QED
    BY <2>1, ActMoves, Zenon
<1> QED
  BY <1>1, <1>2 DEF NumbersOK, Alone

\* What the world does leaves the calls alone, and verifies no device.
LEMMA WorldKeeps ==
  ASSUME World
  PROVE  UNCHANGED <<pc, run, silent, crowded, undone>> /\ (verified' => verified)
<1> USE DEF callerVars, histVars
<1>1. CASE Ends
  BY <1>1, Zenon DEF Ends
<1>2. CASE Close \/ LostClose \/ Reset
  <2>1. UNCHANGED <<pc, run, silent, crowded, undone>>
    BY <1>2, Zenon DEF Close, Closed, LostClose, Reset
  <2>2. verified' = FALSE \/ verified' = verified
    BY <1>2 DEF Close, Closed, LostClose, Reset
  <2> QED
    BY <2>1, <2>2
<1> QED
  BY <1>1, <1>2 DEF World

\* Without crowding, the device of a call that is to use a connection in clear
\* is not verified, or verified without a connection.
LEMMA PendingStep ==
  ASSUME FlagsOK, NumbersOK, FactsOK, Solo, Pending, [Next]_vars
  PROVE  Pending'
<1> USE DEF NumbersOK, Go
<1>1. ASSUME NEW u \in Callers, Act(u) PROVE Pending'
  <2> SUFFICES ASSUME ~crowded', pc'[u] \in Moving
               PROVE  ~verified' \/ (pc'[u] = "dial" /\ undone')
    <3>1. ~crowded' => \A v \in Callers \ {u} : pc'[v] \notin Moving
      BY <1>1, OthersIdle DEF Moving
    <3> QED
      BY <3>1, Zenon DEF Pending
  <2>1. CASE PairSetup(u)
    <3>1. (undone' = undone /\ cc = "nil" /\ pc'[u] = "dial") \/ ~verified'
      BY <2>1 DEF PairSetup, Connected, Moving, Begin
    <3>2. verified' => verified
      BY <2>1 DEF PairSetup, Connected
    <3> QED
      BY <3>1, <3>2 DEF FactsOK
  <2>2. CASE PairVerify(u)
    BY <2>2 DEF PairVerify, Connected, Moving
  <2>3. CASE Dial(u)
    <3>1. ~ (crowded /\ verified) /\ verified' = verified
      BY <2>3, Zenon DEF Dial
    <3>2. pc[u] \in Moving /\ pc[u] # "dial"
      BY <2>3 DEF Dial, Moving
    <3> QED
      BY <3>1, <3>2, Zenon DEF Pending
  <2>4. CASE Exchange(u)
    <3>1. /\ pc[u] \in Exchanges /\ verified' = verified /\ crowded' = crowded
          /\ \E ok \in BOOLEAN : pc' = [pc EXCEPT ![u] = IF ok THEN After[pc[u]] ELSE "idle"]
      BY <2>4, ExchangeDoes, Zenon
    <3>2. \A e \in Exchanges : After[e] \in Moving => e \in Moving \ {"dial"}
      BY DEF After, Exchanges, Moving
    <3>3. pc[u] \in Moving /\ pc[u] # "dial"
      BY <3>1, <3>2 DEF Moving
    <3> QED
      BY <3>1, <3>3, Zenon DEF Pending
  <2>5. CASE AnswerLost(u) \/ DialFails(u) \/ Refused(u) \/ Unreached(u)
    BY <2>5 DEF AnswerLost, DialFails, Refused, Unreached, Moving
  <2>6. CASE SetupDone(u) \/ VerifyDone(u)
    BY <2>6 DEF SetupDone, VerifyDone, Moving
  <2>7. CASE RefusedUnseen(u)
    <3>1. pc[u] = "verify3" /\ verified' = verified /\ crowded' = crowded
      BY <2>7, Zenon DEF RefusedUnseen, devVars
    <3> QED
      BY <3>1, Zenon DEF Pending, Moving
  <2>8. CASE UpgradeEnc(u)
    <3>1. pc[u] = "verifyDone" /\ verified' = verified /\ crowded' = crowded
      BY <2>8, Zenon DEF UpgradeEnc, UpgradeWith
    <3> QED
      BY <3>1, Zenon DEF Pending, Moving
  <2> QED
    BY <1>1, <2>1, <2>2, <2>3, <2>4, <2>5, <2>6, <2>7, <2>8 DEF Act
<1>2. CASE World
  <2>1. pc' = pc /\ crowded' = crowded /\ undone' = undone /\ (verified' => verified)
    BY <1>2, WorldKeeps, Zenon
  <2> QED
    BY <2>1, Zenon DEF Pending
<1>3. CASE UNCHANGED vars
  BY <1>3, Zenon DEF vars, callerVars, histVars, devVars, Pending
<1> QED
  BY <1>1, <1>2, <1>3, Steps

\* The accessory has switched to the key of the call that is about to, or has.
LEMMA UpgradedStep ==
  ASSUME FlagsOK, NumbersOK, Solo, Upgraded, [Next]_vars
  PROVE  Upgraded'
<1> USE DEF NumbersOK, Go
<1>1. ASSUME NEW u \in Callers, Act(u) PROVE Upgraded'
  <2> SUFFICES ASSUME ~crowded', ~silent', cc' = "open", pc'[u] \in {"verifyDone", "verifyFlag"}
               PROVE  theirKey' = run'[u] /\ (pc'[u] = "verifyFlag" => ourKey' = run'[u])
    <3>1. ~crowded' => \A v \in Callers \ {u} : pc'[v] \notin {"verifyDone", "verifyFlag"}
      BY <1>1, OthersIdle
    <3> QED
      BY <3>1, Zenon DEF Upgraded
  <2>1. CASE Exchange(u)
    <3>1. pc[u] \in Exchanges /\ run' = run
      BY <2>1, ExchangeDoes, Zenon
    <3>2. PICK ok \in BOOLEAN :
            /\ Serve(u, ok) /\ pc' = [pc EXCEPT ![u] = IF ok THEN After[pc[u]] ELSE "idle"]
            /\ silent' = (silent \/ (pc[u] = "verify3" /\ ok /\ ~Accepts(u)))
      BY <2>1, ExchangeDoes, Zenon
    <3>3. \A e \in Exchanges : /\ After[e] # "verifyFlag"
                               /\ After[e] = "verifyDone" => e = "verify3"
      BY DEF After, Exchanges
    <3>4. ok = TRUE
      BY <3>1, <3>2
    <3>5. pc'[u] = After[pc[u]]
      BY <3>1, <3>2, <3>4
    <3>6. pc[u] = "verify3" /\ pc'[u] = "verifyDone"
      BY <3>1, <3>3, <3>5
    <3>7. Accepts(u)
      BY <3>2, <3>4, <3>6, Zenon
    <3> QED
      BY <3>1, <3>2, <3>6, <3>7, ServeKey
  <2>2. CASE PairSetup(u) \/ PairVerify(u)
    BY <2>2 DEF PairSetup, PairVerify, Connected
  <2>3. CASE Dial(u)
    BY <2>3 DEF Dial
  <2>4. CASE AnswerLost(u) \/ DialFails(u) \/ Refused(u) \/ RefusedUnseen(u) \/ Unreached(u)
    BY <2>4 DEF AnswerLost, DialFails, Refused, RefusedUnseen, Unreached
  <2>5. CASE SetupDone(u) \/ VerifyDone(u)
    BY <2>5 DEF SetupDone, VerifyDone
  <2>6. CASE UpgradeEnc(u)
    <3>1. /\ pc[u] = "verifyDone" /\ cc = "open" /\ ourKey' = run[u] /\ run' = run
          /\ theirKey' = theirKey
      BY <2>6 DEF UpgradeEnc, UpgradeWith, peerVars
    <3>2. silent' = silent /\ crowded' = crowded
      BY <2>6, Zenon DEF UpgradeEnc, UpgradeWith
    <3>3. ~crowded /\ ~silent
      BY <3>2, Zenon
    <3>4. theirKey = run[u]
      BY <3>1, <3>3 DEF Upgraded
    <3> QED
      BY <3>1, <3>4
  <2> QED
    BY <1>1, <2>1, <2>2, <2>3, <2>4, <2>5, <2>6 DEF Act
<1>2. CASE World
  <2>1. UNCHANGED <<pc, run, silent, crowded>>
    BY <1>2, WorldKeeps, Zenon
  <2>2. cc' = "open" => cc = "open" /\ theirKey' = theirKey /\ ourKey' = ourKey
    BY <1>2 DEF World, Ends, Close, Closed, LostClose, Reset, peerVars
  <2> QED
    BY <2>1, <2>2, Zenon DEF Upgraded
<1>3. CASE UNCHANGED vars
  BY <1>3, Zenon DEF vars, callerVars, histVars, devVars, peerVars, Upgraded
<1> QED
  BY <1>1, <1>2, <1>3, Steps

\* The keys become equal before the last step of pair-verify, and only steps of
\* a device that is not verified change one of them.
LEMMA SameKeyStep ==
  ASSUME FlagsOK, NumbersOK, Solo, Numbered, Pending, Upgraded, SameKey, [Next]_vars
  PROVE  SameKey'
<1> USE DEF NumbersOK, Go
<1>1. ASSUME UNCHANGED <<ourKey, theirKey>>, verified' => verified, cc' = "open" => cc = "open",
             silent' = silent, crowded' = crowded, undone' = undone
      PROVE  SameKey'
  BY <1>1, Zenon DEF SameKey
<1>2. ASSUME NEW u \in Callers, Act(u) PROVE SameKey'
  <2> SUFFICES ASSUME verified', cc' = "open", ~silent', ~crowded', ~undone'
               PROVE  ourKey' = theirKey' /\ ourKey' # 0
    BY Zenon DEF SameKey
  <2>1. CASE PairSetup(u) \/ PairVerify(u)
    <3>1. UNCHANGED <<ourKey, theirKey, silent, undone>> /\ (crowded => crowded')
      BY <2>1, Zenon DEF PairSetup, PairVerify, Begin, peerVars
    <3>2. cc = "open" /\ (verified' => verified)
      BY <2>1 DEF PairSetup, PairVerify, Connected
    <3> QED
      BY <3>1, <3>2, Zenon DEF SameKey
  <2>2. CASE Dial(u)
    <3>1. ~ (crowded /\ verified) /\ verified' = verified /\ undone' = undone
      BY <2>2, Zenon DEF Dial
    <3>2. pc[u] \in Moving
      BY <2>2 DEF Dial, Moving
    <3> QED
      BY <3>1, <3>2, Zenon DEF Pending
  <2>3. CASE Exchange(u)
    <3>1. UNCHANGED <<cc, ourKey, verified, crowded, undone>> /\ (silent => silent')
      BY <2>3, ExchangeDoes, Zenon
    <3>2. pc[u] # "verify3"
      <4>1. ~undone /\ ~crowded /\ verified
        BY <3>1, Zenon
      <4> QED
        BY <4>1 DEF Pending, Moving
    <3>3. theirKey' = theirKey
      <4>1. PICK ok \in BOOLEAN : Serve(u, ok)
        BY <2>3, ExchangeDoes, Zenon
      <4> QED
        BY <3>2, <4>1, ServeKey
    <3> QED
      BY <3>1, <3>3, Zenon DEF SameKey
  <2>4. CASE AnswerLost(u) \/ Unreached(u)
    BY <2>4 DEF AnswerLost, Unreached
  <2>5. CASE DialFails(u) \/ Refused(u)
    BY <1>1, <2>5, Zenon DEF DialFails, Refused, peerVars, devVars, histVars, SameKey
  <2>6. CASE SetupDone(u) \/ RefusedUnseen(u)
    BY <2>6 DEF SetupDone, RefusedUnseen
  <2>7. CASE UpgradeEnc(u)
    <3>1. pc[u] = "verifyDone" /\ verified' = verified /\ crowded' = crowded
      BY <2>7, Zenon DEF UpgradeEnc, UpgradeWith
    <3> QED
      BY <3>1, Zenon DEF Pending, Moving
  <2>8. CASE VerifyDone(u)
    <3>1. pc[u] = "verifyFlag" /\ cc = "open" /\ theirKey' = theirKey /\ ourKey' = ourKey
      BY <2>8 DEF VerifyDone, peerVars
    <3>2. silent' = silent /\ crowded' = crowded
      BY <2>8, Zenon DEF VerifyDone
    <3>3. theirKey = run[u] /\ ourKey = run[u]
      BY <3>1, <3>2 DEF Upgraded
    <3> QED
      BY <3>1, <3>3 DEF Numbered
  <2> QED
    BY <1>2, <2>1, <2>2, <2>3, <2>4, <2>5, <2>6, <2>7, <2>8 DEF Act
<1>3. CASE World
  <2>1. silent' = silent /\ crowded' = crowded /\ undone' = undone /\ (verified' => verified)
    BY <1>3, WorldKeeps, Zenon
  <2>2. cc' = "open" => cc = "open" /\ UNCHANGED <<ourKey, theirKey>>
    BY <1>3 DEF World, Ends, Close, Closed, LostClose, Reset, peerVars
  <2> QED
    BY <2>1, <2>2, Zenon DEF SameKey
<1>4. CASE UNCHANGED vars
  BY <1>1, <1>4, Zenon DEF vars, histVars, devVars, peerVars
<1> QED
  BY <1>2, <1>3, <1>4, Steps

-----------------------------------------------------------------------------
\* The inductive invariant holds in every behaviour.
THEOREM Invariance == Spec => []IndInv
<1>1. IndInv /\ [Next]_vars => IndInv'
  <2> SUFFICES ASSUME IndInv, [Next]_vars PROVE IndInv'
    OBVIOUS
  <2>1. /\ TypeOK /\ Born /\ Kept /\ Agreed /\ Solo /\ Numbered /\ Pending /\ Upgraded /\ SameKey
        /\ FlagsOK /\ NumbersOK /\ FactsOK
    BY TypeParts, Zenon DEF IndInv
  <2>2. TypeOK' /\ Born' /\ Kept'
    <3>1. FlagsOK' /\ NumbersOK' /\ FactsOK' /\ Born' /\ Kept'
      BY <2>1, FlagsStep, NumbersStep, FactsStep, Zenon
    <3> QED
      BY <3>1, Zenon DEF TypeOK, FlagsOK, NumbersOK, FactsOK
  <2>3. Agreed'
    BY <2>1, AgreedStep, Zenon
  <2>4. Solo' /\ Numbered'
    BY <2>1, SoloStep, Zenon
  <2>5. Pending' /\ Upgraded'
    BY <2>1, PendingStep, UpgradedStep, Zenon
  <2>6. SameKey'
    BY <2>1, SameKeyStep, Zenon
  <2> QED
    BY <2>2, <2>3, <2>4, <2>5, <2>6, Zenon DEF IndInv
<1> QED
  BY InitInv, <1>1, PTL DEF Spec

\* Every variable keeps its type.
THEOREM TypeCorrect == Spec => []TypeOK
<1>1. IndInv => TypeOK
  BY Zenon DEF IndInv
<1> QED
  BY Invariance, <1>1, PTL

\* Device and accessory agree on whether they are paired, unless the answer to
\* M5 was lost (controller-pair-setup.go:194).
THEOREM AgreedAlways == Spec => []Agreed
<1>1. IndInv => Agreed
  BY Zenon DEF IndInv
<1> QED
  BY Invariance, <1>1, PTL

\* A verified device and its accessory encrypt with the same key, unless M3 was
\* refused without a TLV error, calls were crowded (controller-pair-verify.go:189),
\* or d.cc was nil when the flag was set (controller-pair-verify.go:199).
THEOREM SameKeyAlways == Spec => []SameKey
<1>1. IndInv => SameKey
  BY Zenon DEF IndInv
<1> QED
  BY Invariance, <1>1, PTL

-----------------------------------------------------------------------------
(* Listing: the inductive invariant. *)

\* What a pairing takes, and where its items are in it.
Size(p) == Len(p.Id) + Len(p.PublicKey) + 7
Offset(p, j) ==
  CASE j = 0 -> 0
    [] j = 1 -> Len(p.Id) + 2
    [] j = 2 -> Len(p.Id) + Len(p.PublicKey) + 4
    [] j = 3 -> Size(p)

\* Its items.
Tag(j) ==
  CASE j = 0 -> 1
    [] j = 1 -> 3
    [] j = 2 -> 11
Value(p, j) ==
  CASE j = 0 -> p.Id
    [] j = 1 -> p.PublicKey
    [] j = 2 -> <<p.Permission>>

\* What is known of a pairing after j of its items.
Part(p, j) ==
  [Id         |-> IF j = 0 THEN <<>> ELSE p.Id,
   PublicKey  |-> IF j <= 1 THEN <<>> ELSE p.PublicKey,
   Permission |-> IF j <= 2 THEN 0 ELSE p.Permission]

\* As far as b goes, an item is at i.
Here(b, i, tag, v) ==
  /\ i <= Len(b) => b[i] = tag
  /\ i + 1 <= Len(b) => b[i + 1] = Len(v)
  /\ \A j \in 1..Len(v) : i + 1 + j <= Len(b) => b[i + 1 + j] = v[j]

PairingHere(b, i, p) == \A j \in 0..2 : Here(b, i + Offset(p, j), Tag(j), Value(p, j))

\* The pairing k is at st[k] and the answer ends at e, if it is not cut off.
Laid(st, e) ==
  /\ st \in [1..(written + 1) -> Nat] /\ e \in Nat /\ st[1] = 4
  /\ \A k \in 1..(written + 1) : st[k] >= 4
  /\ Here(wire, 1, 6, <<M2>>)
  /\ \A k \in 1..written :
       /\ st[k + 1] = st[k] + Size(sent[k]) + 2 /\ st[k + 1] <= e + 3
       /\ PairingHere(wire, st[k], sent[k])
       /\ k > 1 => Here(wire, st[k] - 2, 255, <<>>)
  /\ written > 0 => e = st[written + 1] - 3
  /\ written = 0 => e = 3 \/ (e = 6 /\ cut /\ Here(wire, 4, 7, << 2 >>))
  /\ Len(wire) <= e /\ (~cut => Len(wire) = e)

\* The loop is at an item of a pairing, or there is none.
Spot(st) ==
  \/ written = 0 /\ at \in {4, 7} /\ pp = Blank /\ result = <<>>
  \/ \E k \in 1..written, j \in 0..3 :
       /\ at = st[k] + Offset(sent[k], j) /\ pp = Part(sent[k], j)
       /\ Len(result) = k - 1 /\ \A i \in 1..(k - 1) : result[i] = sent[i]

ListTypeOK ==
  /\ form = "list" /\ sent \in Seq(Pairing) /\ place \in {"new", "wire", "reading", "done"}
  /\ wire \in Seq(Nat) /\ cut \in BOOLEAN /\ written \in 0..Len(sent)
  /\ at \in Nat /\ pp \in Pairing /\ result \in Seq(Pairing)

ListInv ==
  /\ ListTypeOK
  /\ place = "new" => written = 0 /\ ~cut
  /\ place \in {"wire", "reading"} => \E st, e : Laid(st, e) /\ (place = "reading" => Spot(st))
  /\ Listed

-----------------------------------------------------------------------------
(* Items in the bytes of an answer. *)

\* Of the first bytes an item is the item as far as they go.
LEMMA HerePart ==
  ASSUME NEW b \in Seq(Nat), NEW k \in 0..Len(b), NEW i \in Nat \ {0}, NEW tag,
         NEW v \in Seq(Nat), Here(b, i, tag, v)
  PROVE  Here(SubSeq(b, 1, k), i, tag, v)
<1>1. PICK c : c = SubSeq(b, 1, k)
  OBVIOUS
<1>2. Len(c) = k /\ \A x \in 1..k : c[x] = b[x]
  BY <1>1
<1>3. k <= Len(b) /\ Len(b) \in Nat /\ Len(v) \in Nat
  OBVIOUS
<1>4. i <= k => c[i] = tag
  BY <1>2, <1>3 DEF Here
<1>5. i + 1 <= k => c[i + 1] = Len(v)
  BY <1>2, <1>3 DEF Here
<1>6. ASSUME NEW j \in 1..Len(v), i + 1 + j <= k PROVE c[i + 1 + j] = v[j]
  <2>1. i + 1 + j \in 1..k /\ i + 1 + j <= Len(b)
    BY <1>3, <1>6
  <2> QED
    BY <1>2, <2>1 DEF Here
<1> QED
  BY <1>1, <1>2, <1>4, <1>5, <1>6 DEF Here

\* c is b, and more.
Longer(b, c) ==
  b \in Seq(Nat) /\ c \in Seq(Nat) /\ Len(b) <= Len(c) /\ \A x \in 1..Len(b) : c[x] = b[x]

\* What is longer than a longer one is longer.
LEMMA LongerStill ==
  ASSUME NEW b, NEW c, NEW d, Longer(b, c), Longer(c, d)
  PROVE  Longer(b, d)
<1>1. PICK m \in Nat, n \in Nat, l \in Nat : m = Len(b) /\ n = Len(c) /\ l = Len(d)
  BY DEF Longer
<1>2. m <= l /\ \A x \in 1..m : x \in 1..n
  BY <1>1 DEF Longer
<1>3. \A x \in 1..m : d[x] = b[x]
  BY <1>1, <1>2 DEF Longer
<1> QED
  BY <1>1, <1>2, <1>3 DEF Longer

\* An item that is there in full stays.
LEMMA HereLonger ==
  ASSUME NEW b, NEW c, Longer(b, c),
         NEW i \in Nat \ {0}, NEW tag, NEW v \in Seq(Nat), i + 1 + Len(v) <= Len(b),
         Here(b, i, tag, v)
  PROVE  Here(c, i, tag, v)
<1>1. Len(b) \in Nat /\ Len(v) \in Nat
  BY DEF Longer
<1>2. i \in 1..Len(b) /\ i + 1 \in 1..Len(b) /\ i <= Len(b) /\ i + 1 <= Len(b)
  BY <1>1
<1>3. c[i] = tag /\ c[i + 1] = Len(v)
  BY <1>2 DEF Here, Longer
<1>4. ASSUME NEW j \in 1..Len(v) PROVE c[i + 1 + j] = v[j]
  <2>1. i + 1 + j \in 1..Len(b) /\ i + 1 + j <= Len(b)
    BY <1>1
  <2> QED
    BY <2>1 DEF Here, Longer
<1> QED
  BY <1>3, <1>4 DEF Here

\* b, then w.
Join(b, w) == b \o w

\* The bytes of b, then those of w.
LEMMA JoinParts ==
  ASSUME NEW b \in Seq(Nat), NEW w \in Seq(Nat)
  PROVE  /\ Join(b, w) \in Seq(Nat) /\ Len(Join(b, w)) = Len(b) + Len(w)
         /\ \A i \in 1..(Len(b) + Len(w)) :
              Join(b, w)[i] = IF i <= Len(b) THEN b[i] ELSE w[i - Len(b)]
BY ConcatProperties DEF Join

\* Three pieces may be joined one by one.
LEMMA JoinThree ==
  ASSUME NEW b \in Seq(Nat), NEW u \in Seq(Nat), NEW v \in Seq(Nat), NEW w \in Seq(Nat)
  PROVE  Join(Join(Join(b, u), v), w) = Join(b, (u \o v) \o w)
<1>1. u \o v \in Seq(Nat)
  OBVIOUS
<1>2. (b \o u) \o v = b \o (u \o v)
  BY SMTT(30)
<1>3. (b \o (u \o v)) \o w = b \o ((u \o v) \o w)
  <2>1. \A x \in Seq(Nat) : (b \o x) \o w = b \o (x \o w)
    BY SMTT(30)
  <2> QED
    BY <1>1, <2>1, Zenon
<1> QED
  BY <1>2, <1>3 DEF Join

\* c is b and an item.
Grown(b, c, tag, v) ==
  Longer(b, c) /\ Len(c) = Len(b) + 2 + Len(v) /\ Here(c, Len(b) + 1, tag, v)

\* An item that is written is there.
LEMMA ItemGrows ==
  ASSUME NEW b \in Seq(Nat), NEW tag \in Nat, NEW v \in Seq(Nat)
  PROVE  Grown(b, Join(b, Item(tag, v)), tag, v)
<1>0. PICK c : c = Join(b, Item(tag, v))
  OBVIOUS
<1>1. PICK w : w = Item(tag, v)
  OBVIOUS
<1>2. /\ w \in Seq(Nat) /\ Len(w) = 2 + Len(v) /\ w[1] = tag /\ w[2] = Len(v)
      /\ \A j \in 1..Len(v) : w[2 + j] = v[j]
  <2>1. PICK h \in Seq(Nat) : h = <<tag, Len(v)>> /\ Len(h) = 2 /\ h[1] = tag /\ h[2] = Len(v)
    <3>1. \A x \in Nat, y \in Nat :
            <<x, y>> \in Seq(Nat) /\ Len(<<x, y>>) = 2 /\ <<x, y>>[1] = x /\ <<x, y>>[2] = y
      OBVIOUS
    <3>2. Len(v) \in Nat
      OBVIOUS
    <3>3. /\ <<tag, Len(v)>> \in Seq(Nat) /\ Len(<<tag, Len(v)>>) = 2
          /\ <<tag, Len(v)>>[1] = tag /\ <<tag, Len(v)>>[2] = Len(v)
      BY <3>1, <3>2, Zenon
    <3> QED
      BY <3>3, Zenon
  <2>2. w = h \o v
    BY <1>1, <2>1 DEF Item
  <2>3. /\ w \in Seq(Nat) /\ Len(w) = 2 + Len(v)
        /\ \A x \in 1..(2 + Len(v)) : w[x] = IF x <= 2 THEN h[x] ELSE v[x - 2]
    BY <2>1, <2>2, ConcatProperties
  <2>4. \A j \in 1..Len(v) : 2 + j \in 1..(2 + Len(v)) /\ ~(2 + j <= 2) /\ (2 + j) - 2 = j
    OBVIOUS
  <2>5. 1 \in 1..(2 + Len(v)) /\ 2 \in 1..(2 + Len(v))
    OBVIOUS
  <2> QED
    BY <2>1, <2>3, <2>4, <2>5
<1>3. /\ c \in Seq(Nat) /\ Len(c) = Len(b) + Len(w)
      /\ \A x \in 1..(Len(b) + Len(w)) : c[x] = IF x <= Len(b) THEN b[x] ELSE w[x - Len(b)]
  <2>1. c = Join(b, w)
    BY <1>0, <1>1
  <2>2. w \in Seq(Nat)
    BY <1>2
  <2>3. /\ Join(b, w) \in Seq(Nat) /\ Len(Join(b, w)) = Len(b) + Len(w)
        /\ \A x \in 1..(Len(b) + Len(w)) :
             Join(b, w)[x] = IF x <= Len(b) THEN b[x] ELSE w[x - Len(b)]
    BY <2>2, JoinParts, Zenon
  <2> QED
    BY <2>1, <2>3, Zenon
<1>4. PICK m \in Nat, l \in Nat : m = Len(b) /\ l = Len(v)
  OBVIOUS
<1>5. \A x \in 1..m : c[x] = b[x]
  <2>1. \A x \in 1..m : x \in 1..(m + (2 + l)) /\ x <= m
    OBVIOUS
  <2> QED
    BY <1>2, <1>3, <1>4, <2>1
<1>6. \A y \in 1..(2 + l) : c[m + y] = w[y]
  <2>1. \A y \in 1..(2 + l) : m + y \in 1..(m + (2 + l)) /\ ~(m + y <= m) /\ (m + y) - m = y
    OBVIOUS
  <2>2. \A x \in 1..(m + (2 + l)) : c[x] = IF x <= m THEN b[x] ELSE w[x - m]
    BY <1>2, <1>3, <1>4, Zenon
  <2> QED
    BY <2>1, <2>2, Zenon
<1>7. Here(c, m + 1, tag, v)
  <2>1. c[m + 1] = tag /\ c[(m + 1) + 1] = l
    <3>1. 1 \in 1..(2 + l) /\ 2 \in 1..(2 + l) /\ (m + 1) + 1 = m + 2
      OBVIOUS
    <3> QED
      BY <1>2, <1>4, <1>6, <3>1
  <2>2. ASSUME NEW j \in 1..l PROVE c[(m + 1) + 1 + j] = v[j]
    <3>1. 2 + j \in 1..(2 + l) /\ (m + 1) + 1 + j = m + (2 + j)
      OBVIOUS
    <3> QED
      BY <1>2, <1>4, <1>6, <3>1
  <2> QED
    BY <1>4, <2>1, <2>2 DEF Here
<1>8. Longer(b, c) /\ Len(c) = Len(b) + 2 + Len(v)
  <2>1. m <= m + (2 + l) /\ m + (2 + l) = m + 2 + l
    OBVIOUS
  <2>2. Len(c) = m + (2 + l)
    BY <1>2, <1>3, <1>4
  <2> QED
    BY <1>3, <1>4, <1>5, <2>1, <2>2 DEF Longer
<1> QED
  BY <1>0, <1>4, <1>7, <1>8, Zenon DEF Grown

\* What the loop reads of an item that is there.
LEMMA ItemRead ==
  ASSUME NEW b \in Seq(Nat), NEW i \in Nat \ {0}, i < Len(b), NEW tag, NEW v \in Seq(Nat),
         Here(b, i, tag, v), Missing(b, i) = "none"
  PROVE  ItemEnd(b, i) = i + 1 + Len(v) /\ SubSeq(b, i + 2, ItemEnd(b, i)) = v
<1>1. PICK n \in Nat, l \in Nat : n = Len(b) /\ l = Len(v)
  OBVIOUS
<1>2. ItemEnd(b, i) = i + 1 + l
  <2>1. i + 1 <= n
    BY <1>1
  <2> QED
    BY <1>1, <2>1 DEF Here, ItemEnd
<1>3. i + 1 + l <= n
  <2>1. i # n
    BY <1>1
  <2> QED
    BY <1>1, <1>2, <2>1 DEF Missing
<1>4. PICK w : w = SubSeq(b, i + 2, i + 1 + l)
  OBVIOUS
<1>5. /\ w \in Seq(Nat) /\ Len(w) = l
      /\ \A j \in 1..l : w[j] = b[i + 1 + j]
  <2>1. \A x \in (i + 2)..(i + 1 + l) : x \in 1..n
    BY <1>3
  <2>2. \A x \in 1..n : b[x] \in Nat
    BY <1>1
  <2>3. i + 2 \in Int /\ i + 1 + l \in Int /\ \A x \in (i + 2)..(i + 1 + l) : b[x] \in Nat
    <3>1. i + 2 \in Int /\ i + 1 + l \in Int
      OBVIOUS
    <3>2. ASSUME NEW x \in (i + 2)..(i + 1 + l) PROVE b[x] \in Nat
      BY <2>1, <2>2
    <3> QED
      BY <3>1, <3>2, Zenon
  <2>4. /\ w \in Seq(Nat)
        /\ Len(w) = IF i + 2 <= i + 1 + l THEN (i + 1 + l) - (i + 2) + 1 ELSE 0
        /\ \A j \in 1..((i + 1 + l) - (i + 2) + 1) : w[j] = b[(i + 2) + j - 1]
    <3>1. PICK a \in Int, z \in Int : a = i + 2 /\ z = i + 1 + l
      BY <2>3, Zenon
    <3>2. \A x \in a..z : b[x] \in Nat
      BY <2>3, <3>1, Zenon
    <3>3. SubSeq(b, a, z) \in Seq(Nat)
      BY <3>2, SubSeqProperties, Zenon
    <3>4. Len(SubSeq(b, a, z)) = IF a <= z THEN z - a + 1 ELSE 0
      BY <3>2, SubSeqProperties
    <3>5. \A j \in 1..(z - a + 1) : SubSeq(b, a, z)[j] = b[a + j - 1]
      BY <3>2, SubSeqProperties
    <3> QED
      BY <1>4, <3>1, <3>3, <3>4, <3>5, Zenon
  <2>5. (i + 1 + l) - (i + 2) + 1 = l /\ \A j \in 1..l : (i + 2) + j - 1 = i + 1 + j
    OBVIOUS
  <2>6. Len(w) = l
    BY <2>4
  <2> QED
    BY <2>4, <2>5, <2>6
<1>6. \A j \in 1..l : w[j] = v[j]
  <2>1. \A j \in 1..l : i + 1 + j <= n
    BY <1>3
  <2> QED
    BY <1>1, <1>5, <2>1 DEF Here
<1>7. w = v
  BY <1>1, <1>5, <1>6, SeqEqual
<1> QED
  BY <1>1, <1>2, <1>4, <1>7

\* An item that is there in full is not missed.
LEMMA ItemThere ==
  ASSUME NEW b \in Seq(Nat), NEW i \in Nat \ {0}, NEW tag, NEW v \in Seq(Nat),
         Here(b, i, tag, v), i + 1 + Len(v) <= Len(b)
  PROVE  i < Len(b) /\ b[i] = tag /\ Missing(b, i) = "none"
<1>1. PICK n \in Nat, l \in Nat : n = Len(b) /\ l = Len(v)
  OBVIOUS
<1>2. i + 1 <= n /\ i < n /\ i <= n /\ i # n
  BY <1>1
<1>3. b[i] = tag /\ ItemEnd(b, i) = i + 1 + l
  BY <1>1, <1>2 DEF Here, ItemEnd
<1>4. ~(ItemEnd(b, i) > n)
  BY <1>1, <1>3
<1> QED
  BY <1>1, <1>2, <1>3, <1>4 DEF Missing

-----------------------------------------------------------------------------
(* The items of a pairing. *)

\* Each item by its number.
LEMMA Items ==
  ASSUME NEW p \in Pairing
  PROVE  /\ Tag(0) = 1 /\ Tag(1) = 3 /\ Tag(2) = 11
         /\ Value(p, 0) = p.Id /\ Value(p, 1) = p.PublicKey /\ Value(p, 2) = <<p.Permission>>
         /\ Offset(p, 0) = 0 /\ Offset(p, 1) = Len(p.Id) + 2
         /\ Offset(p, 2) = Len(p.Id) + Len(p.PublicKey) + 4 /\ Offset(p, 3) = Size(p)
<1>1. Tag(0) = 1 /\ Tag(1) = 3 /\ Tag(2) = 11
  BY DEF Tag
<1>2. Value(p, 0) = p.Id /\ Value(p, 1) = p.PublicKey /\ Value(p, 2) = <<p.Permission>>
  BY DEF Value
<1>3. /\ Offset(p, 0) = 0 /\ Offset(p, 1) = Len(p.Id) + 2
      /\ Offset(p, 2) = Len(p.Id) + Len(p.PublicKey) + 4 /\ Offset(p, 3) = Size(p)
  BY DEF Offset
<1> QED
  BY <1>1, <1>2, <1>3

\* What a pairing and its values are.
LEMMA Values ==
  ASSUME NEW p \in Pairing
  PROVE  /\ p.Id \in Seq(Nat) /\ p.PublicKey \in Seq(Nat) /\ p.Permission \in Nat
         /\ Len(p.Id) \in Nat /\ Len(p.PublicKey) \in Nat /\ Size(p) \in Nat
         /\ <<p.Permission>> \in Seq(Nat) /\ Len(<<p.Permission>>) = 1
<1>1. p.Id \in Seq(Nat) /\ p.PublicKey \in Seq(Nat) /\ p.Permission \in Nat
  BY DEF Pairing
<1>2. \A n \in Nat : <<n>> \in Seq(Nat) /\ Len(<<n>>) = 1
  OBVIOUS
<1> QED
  <2>1. <<p.Permission>> \in Seq(Nat) /\ Len(<<p.Permission>>) = 1
    BY <1>1, <1>2, Zenon
  <2>2. Len(p.Id) \in Nat /\ Len(p.PublicKey) \in Nat
    BY <1>1
  <2>3. Size(p) \in Nat
    <3>1. PICK d \in Nat, k \in Nat : d = Len(p.Id) /\ k = Len(p.PublicKey)
      BY <2>2, Zenon
    <3>2. Size(p) = d + k + 7
      BY <3>1, Zenon DEF Size
    <3>3. d + k + 7 \in Nat
      OBVIOUS
    <3> QED
      BY <3>2, <3>3, Zenon
  <2> QED
    BY <1>1, <2>1, <2>2, <2>3, Zenon

\* One item after the other.
LEMMA NextItem ==
  ASSUME NEW p \in Pairing, NEW j \in 0..2
  PROVE  /\ Tag(j) \in Nat /\ Tag(j) # 255 /\ Value(p, j) \in Seq(Nat)
         /\ Offset(p, j) \in Nat /\ Offset(p, j + 1) \in Nat /\ Offset(p, j + 1) <= Size(p)
         /\ Offset(p, j + 1) = Offset(p, j) + 2 + Len(Value(p, j))
<1>1. PICK d \in Nat, k \in Nat : d = Len(p.Id) /\ k = Len(p.PublicKey)
  <2>1. Len(p.Id) \in Nat /\ Len(p.PublicKey) \in Nat
    BY Values
  <2> QED
    BY <2>1, Zenon
<1>2. Size(p) = d + k + 7
  BY <1>1 DEF Size
<1>3. CASE j = 0
  <2>1. /\ Tag(j) = 1 /\ Value(p, j) = p.Id /\ Offset(p, j) = 0 /\ Offset(p, j + 1) = d + 2
    <3>1. j + 1 = 1
      BY <1>3
    <3> QED
      BY <1>1, <1>3, <3>1, Items
  <2> QED
    <3>1. Value(p, j) \in Seq(Nat) /\ Len(Value(p, j)) = d
      BY <1>1, <2>1, Values, Zenon
    <3>2. /\ Offset(p, j) \in Nat /\ Offset(p, j + 1) \in Nat /\ Offset(p, j + 1) <= Size(p)
          /\ Offset(p, j + 1) = Offset(p, j) + 2 + Len(Value(p, j))
      BY <1>2, <2>1, <3>1
    <3>3. Tag(j) \in Nat /\ Tag(j) # 255
      BY <2>1
    <3> QED
      BY <3>1, <3>2, <3>3, Zenon
<1>4. CASE j = 1
  <2>1. /\ Tag(j) = 3 /\ Value(p, j) = p.PublicKey /\ Offset(p, j) = d + 2
        /\ Offset(p, j + 1) = d + k + 4
    <3>1. j + 1 = 2
      BY <1>4
    <3> QED
      BY <1>1, <1>4, <3>1, Items
  <2> QED
    <3>1. Value(p, j) \in Seq(Nat) /\ Len(Value(p, j)) = k
      BY <1>1, <2>1, Values, Zenon
    <3>2. /\ Offset(p, j) \in Nat /\ Offset(p, j + 1) \in Nat /\ Offset(p, j + 1) <= Size(p)
          /\ Offset(p, j + 1) = Offset(p, j) + 2 + Len(Value(p, j))
      BY <1>2, <2>1, <3>1
    <3>3. Tag(j) \in Nat /\ Tag(j) # 255
      BY <2>1
    <3> QED
      BY <3>1, <3>2, <3>3, Zenon
<1>5. CASE j = 2
  <2>1. /\ Tag(j) = 11 /\ Value(p, j) = <<p.Permission>> /\ Offset(p, j) = d + k + 4
        /\ Offset(p, j + 1) = d + k + 7
    <3>1. j + 1 = 3
      BY <1>5
    <3> QED
      BY <1>1, <1>2, <1>5, <3>1, Items
  <2> QED
    <3>1. Value(p, j) \in Seq(Nat) /\ Len(Value(p, j)) = 1
      BY <1>1, <2>1, Values, Zenon
    <3>2. /\ Offset(p, j) \in Nat /\ Offset(p, j + 1) \in Nat /\ Offset(p, j + 1) <= Size(p)
          /\ Offset(p, j + 1) = Offset(p, j) + 2 + Len(Value(p, j))
      BY <1>2, <2>1, <3>1
    <3>3. Tag(j) \in Nat /\ Tag(j) # 255
      BY <2>1
    <3> QED
      BY <3>1, <3>2, <3>3, Zenon
<1> QED
  BY <1>3, <1>4, <1>5

\* What they say.
LEMMA Parts ==
  ASSUME NEW p \in Pairing
  PROVE  /\ Part(p, 0) = Blank /\ Part(p, 3) = p
         /\ \A j \in 0..3 : Part(p, j) \in Pairing
<1>1. \A j \in 0..3 : Part(p, j) \in Pairing
  <2>1. <<>> \in Seq(Nat) /\ 0 \in Nat
    OBVIOUS
  <2> QED
    BY <2>1, Values DEF Part, Pairing
<1>2. Part(p, 0) = Blank
  BY DEF Part, Blank
<1>3. Part(p, 3) = p
  <2>1. Part(p, 3) = [Id |-> p.Id, PublicKey |-> p.PublicKey, Permission |-> p.Permission]
    BY DEF Part
  <2>2. p = [Id |-> p.Id, PublicKey |-> p.PublicKey, Permission |-> p.Permission]
    BY DEF Pairing
  <2> QED
    BY <2>1, <2>2
<1> QED
  BY <1>1, <1>2, <1>3

\* The loop adds an item to what it knows of the pairing.
LEMMA SetPart ==
  ASSUME NEW p \in Pairing, NEW j \in 0..2, pp = Part(p, j)
  PROVE  Set(Tag(j), Value(p, j)) = Part(p, j + 1)
<1>1. PICK d, k, n : d = p.Id /\ k = p.PublicKey /\ n = p.Permission
  OBVIOUS
<1>2. CASE j = 0
  <2>1. pp = [Id |-> <<>>, PublicKey |-> <<>>, Permission |-> 0]
    BY <1>2 DEF Part
  <2>2. Part(p, j + 1) = [Id |-> d, PublicKey |-> <<>>, Permission |-> 0]
    BY <1>1, <1>2 DEF Part
  <2>3. Set(Tag(j), Value(p, j)) = [pp EXCEPT !.Id = d]
    <3>1. Tag(j) = 1 /\ Value(p, j) = d
      BY <1>1, <1>2, Items, Zenon
    <3>2. \A v : Set(1, v) = [pp EXCEPT !.Id = v]
      BY DEF Set
    <3> QED
      BY <3>1, <3>2, Zenon
  <2> QED
    BY <2>1, <2>2, <2>3
<1>3. CASE j = 1
  <2>1. pp = [Id |-> d, PublicKey |-> <<>>, Permission |-> 0]
    BY <1>1, <1>3 DEF Part
  <2>2. Part(p, j + 1) = [Id |-> d, PublicKey |-> k, Permission |-> 0]
    BY <1>1, <1>3 DEF Part
  <2>3. Set(Tag(j), Value(p, j)) = [pp EXCEPT !.PublicKey = k]
    <3>1. Tag(j) = 3 /\ Value(p, j) = k
      BY <1>1, <1>3, Items, Zenon
    <3>2. \A v : Set(3, v) = [pp EXCEPT !.PublicKey = v]
      BY DEF Set
    <3> QED
      BY <3>1, <3>2, Zenon
  <2> QED
    BY <2>1, <2>2, <2>3
<1>4. CASE j = 2
  <2>1. pp = [Id |-> d, PublicKey |-> k, Permission |-> 0]
    BY <1>1, <1>4 DEF Part
  <2>2. Part(p, j + 1) = [Id |-> d, PublicKey |-> k, Permission |-> n]
    BY <1>1, <1>4 DEF Part
  <2>3. Set(Tag(j), Value(p, j)) = [pp EXCEPT !.Permission = n]
    <3>1. Tag(j) = 11 /\ Value(p, j) = <<n>> /\ <<n>>[1] = n
      BY <1>1, <1>4, Items
    <3>2. \A v : Set(11, v) = [pp EXCEPT !.Permission = v[1]]
      BY DEF Set
    <3> QED
      BY <3>1, <3>2
  <2> QED
    BY <2>1, <2>2, <2>3
<1> QED
  BY <1>2, <1>3, <1>4

\* Three items, one after the other.
LEMMA ThreeItems ==
  ASSUME NEW b, NEW c1, NEW c2, NEW c,
         NEW x \in Seq(Nat), NEW y \in Seq(Nat), NEW z \in Seq(Nat), Len(z) = 1,
         Grown(b, c1, 1, x), Grown(c1, c2, 3, y), Grown(c2, c, 11, z)
  PROVE  /\ Longer(b, c) /\ Len(c) = Len(b) + (Len(x) + Len(y) + 7)
         /\ Here(c, Len(b) + 1, 1, x) /\ Here(c, Len(b) + Len(x) + 3, 3, y)
         /\ Here(c, Len(b) + Len(x) + Len(y) + 5, 11, z)
<1>1. Longer(b, c1) /\ Longer(c1, c2) /\ Longer(c2, c)
  BY Zenon DEF Grown
<1>2. Longer(c1, c) /\ Longer(b, c)
  BY <1>1, LongerStill, Zenon
<1>3. PICK u \in Nat, d \in Nat, k \in Nat : u = Len(b) /\ d = Len(x) /\ k = Len(y)
  BY <1>1 DEF Longer
<1>4. Len(c1) = u + 2 + d /\ Len(c2) = u + d + k + 4 /\ Len(c) = u + (d + k + 7)
  <2>1. Len(c1) = u + 2 + d
    BY <1>3 DEF Grown
  <2>2. Len(c2) = u + d + k + 4
    BY <1>3, <2>1 DEF Grown
  <2>3. Len(c) = u + (d + k + 7)
    <3>1. Len(c) = Len(c2) + 2 + Len(z)
      BY Zenon DEF Grown
    <3>2. (u + d + k + 4) + 2 + 1 = u + (d + k + 7)
      OBVIOUS
    <3> QED
      BY <2>2, <3>1, <3>2, Zenon
  <2> QED
    BY <2>1, <2>2, <2>3, Zenon
<1>5. Here(c, u + 1, 1, x)
  <2>1. Here(c1, u + 1, 1, x)
    BY <1>3, Zenon DEF Grown
  <2>2. u + 1 \in Nat \ {0} /\ (u + 1) + 1 + Len(x) <= Len(c1)
    BY <1>3, <1>4
  <2> QED
    BY <1>2, <2>1, <2>2, HereLonger, Zenon
<1>6. Here(c, u + d + 3, 3, y)
  <2>1. PICK i \in Nat \ {0} : i = Len(c1) + 1 /\ i = u + d + 3
    BY <1>4
  <2>2. Here(c2, i, 3, y)
    BY <2>1, Zenon DEF Grown
  <2>3. i + 1 + Len(y) <= Len(c2)
    BY <1>3, <1>4, <2>1
  <2> QED
    <3>1. Here(c, i, 3, y)
      BY <1>1, <2>2, <2>3, HereLonger, Zenon
    <3> QED
      BY <2>1, <3>1, Zenon
<1>7. Here(c, u + d + k + 5, 11, z)
  <2>1. Len(c2) + 1 = u + d + k + 5
    BY <1>4
  <2> QED
    BY <2>1, Zenon DEF Grown
<1> QED
  BY <1>2, <1>3, <1>4, <1>5, <1>6, <1>7, Zenon

\* An item is bytes.
LEMMA ItemType ==
  ASSUME NEW t \in Nat, NEW v \in Seq(Nat)
  PROVE  Item(t, v) \in Seq(Nat)
<1>1. PICK l \in Nat : l = Len(v)
  OBVIOUS
<1>2. <<t, l>> \in Seq(Nat)
  OBVIOUS
<1> QED
  BY <1>1, <1>2, ConcatProperties DEF Item

\* A pairing is its three items.
LEMMA PairingJoin ==
  ASSUME NEW b \in Seq(Nat), NEW p \in Pairing
  PROVE  /\ PairingItems(p) \in Seq(Nat)
         /\ Join(b, PairingItems(p)) =
              Join(Join(Join(b, Item(1, p.Id)), Item(3, p.PublicKey)), Item(11, <<p.Permission>>))
<1>1. 1 \in Nat /\ 3 \in Nat /\ 11 \in Nat
  OBVIOUS
<1>2. PICK u \in Seq(Nat), v \in Seq(Nat), w \in Seq(Nat) :
        u = Item(1, p.Id) /\ v = Item(3, p.PublicKey) /\ w = Item(11, <<p.Permission>>)
  BY <1>1, Values, ItemType, Zenon
<1>3. PairingItems(p) = (u \o v) \o w
  BY <1>2, Zenon DEF PairingItems
<1>4. (u \o v) \o w \in Seq(Nat)
  OBVIOUS
<1>5. Join(Join(Join(b, u), v), w) = Join(b, (u \o v) \o w)
  BY JoinThree
<1> QED
  BY <1>2, <1>3, <1>4, <1>5, Zenon

\* A pairing that is written is there.
LEMMA PairingGrows ==
  ASSUME NEW b \in Seq(Nat), NEW p \in Pairing
  PROVE  /\ Longer(b, Join(b, PairingItems(p)))
         /\ Len(Join(b, PairingItems(p))) = Len(b) + Size(p)
         /\ PairingHere(Join(b, PairingItems(p)), Len(b) + 1, p)
<1>0. PICK c : c = Join(b, PairingItems(p))
  OBVIOUS
<1>1. PICK x \in Seq(Nat), y \in Seq(Nat), z \in Seq(Nat) :
        x = p.Id /\ y = p.PublicKey /\ z = <<p.Permission>> /\ Len(z) = 1
  BY Values, Zenon
<1>2. PICK u \in Nat, d \in Nat, k \in Nat : u = Len(b) /\ d = Len(x) /\ k = Len(y)
  <2>1. \A s \in Seq(Nat) : Len(s) \in Nat
    OBVIOUS
  <2> QED
    BY <2>1, Zenon
<1>3. PICK c1, c2 : Grown(b, c1, 1, x) /\ Grown(c1, c2, 3, y) /\ Grown(c2, c, 11, z)
  <2>0. 1 \in Nat /\ 3 \in Nat /\ 11 \in Nat
    OBVIOUS
  <2>1. PICK c1 : c1 = Join(b, Item(1, x))
    OBVIOUS
  <2>2. Grown(b, c1, 1, x) /\ c1 \in Seq(Nat)
    <3>1. Grown(b, c1, 1, x)
      BY <2>0, <2>1, ItemGrows, Zenon
    <3> QED
      BY <3>1, Zenon DEF Grown, Longer
  <2>3. PICK c2 : c2 = Join(c1, Item(3, y))
    OBVIOUS
  <2>4. Grown(c1, c2, 3, y) /\ c2 \in Seq(Nat)
    <3>1. Grown(c1, c2, 3, y)
      BY <2>0, <2>2, <2>3, ItemGrows, Zenon
    <3> QED
      BY <3>1, Zenon DEF Grown, Longer
  <2>5. c = Join(c2, Item(11, z))
    BY <1>0, <1>1, <2>1, <2>3, PairingJoin, Zenon
  <2>6. Grown(c2, c, 11, z)
    BY <2>0, <2>4, <2>5, ItemGrows, Zenon
  <2> QED
    BY <2>2, <2>4, <2>6, Zenon
<1>4. /\ Longer(b, c) /\ Len(c) = u + (d + k + 7)
      /\ Here(c, u + 1, 1, x) /\ Here(c, u + d + 3, 3, y) /\ Here(c, u + d + k + 5, 11, z)
  <2>1. /\ Longer(b, c) /\ Len(c) = Len(b) + (Len(x) + Len(y) + 7)
        /\ Here(c, Len(b) + 1, 1, x) /\ Here(c, Len(b) + Len(x) + 3, 3, y)
        /\ Here(c, Len(b) + Len(x) + Len(y) + 5, 11, z)
    <3>1. Len(z) = 1
      BY <1>1, Zenon
    <3> QED
      BY <1>3, <3>1, ThreeItems, Zenon
  <2> QED
    BY <1>2, <2>1, Zenon
<1>5. Size(p) = d + k + 7
  BY <1>1, <1>2, Zenon DEF Size
<1>6. /\ Tag(0) = 1 /\ Value(p, 0) = x /\ Offset(p, 0) = 0
      /\ Tag(1) = 3 /\ Value(p, 1) = y /\ Offset(p, 1) = d + 2
      /\ Tag(2) = 11 /\ Value(p, 2) = z /\ Offset(p, 2) = d + k + 4
  BY <1>1, <1>2, Items, Zenon
<1>7. /\ (u + 1) + 0 = u + 1 /\ (u + 1) + (d + 2) = u + d + 3
      /\ (u + 1) + (d + k + 4) = u + d + k + 5
  OBVIOUS
<1>8. /\ Here(c, (u + 1) + Offset(p, 0), Tag(0), Value(p, 0))
      /\ Here(c, (u + 1) + Offset(p, 1), Tag(1), Value(p, 1))
      /\ Here(c, (u + 1) + Offset(p, 2), Tag(2), Value(p, 2))
  BY <1>4, <1>6, <1>7, Zenon
<1>9. PairingHere(c, u + 1, p)
  <2>1. \A j \in 0..2 : j = 0 \/ j = 1 \/ j = 2
    OBVIOUS
  <2> QED
    BY <1>8, <2>1, Zenon DEF PairingHere
<1> QED
  BY <1>0, <1>2, <1>4, <1>5, <1>9, Zenon

\* Of the first bytes a pairing is the pairing as far as they go.
LEMMA PairingPart ==
  ASSUME NEW b \in Seq(Nat), NEW k \in 0..Len(b), NEW i \in Nat \ {0}, NEW p \in Pairing,
         PairingHere(b, i, p)
  PROVE  PairingHere(SubSeq(b, 1, k), i, p)
<1>1. ASSUME NEW j \in 0..2
      PROVE  Here(SubSeq(b, 1, k), i + Offset(p, j), Tag(j), Value(p, j))
  <2>1. i + Offset(p, j) \in Nat \ {0} /\ Value(p, j) \in Seq(Nat)
    <3>1. Offset(p, j) \in Nat /\ Value(p, j) \in Seq(Nat)
      BY NextItem, Zenon
    <3>2. \A o \in Nat : i + o \in Nat \ {0}
      OBVIOUS
    <3> QED
      BY <3>1, <3>2, Zenon
  <2>2. Here(b, i + Offset(p, j), Tag(j), Value(p, j))
    BY DEF PairingHere
  <2> QED
    BY <2>1, <2>2, HerePart
<1> QED
  BY <1>1 DEF PairingHere

\* A pairing that is there in full stays.
LEMMA PairingLonger ==
  ASSUME NEW b, NEW c, Longer(b, c),
         NEW i \in Nat \ {0}, NEW p \in Pairing, i + Size(p) <= Len(b) + 1,
         PairingHere(b, i, p)
  PROVE  PairingHere(c, i, p)
<1>1. ASSUME NEW j \in 0..2
      PROVE  Here(c, i + Offset(p, j), Tag(j), Value(p, j))
  <2>1. PICK o \in Nat, l \in Nat, n \in Nat, z \in Nat :
          o = Offset(p, j) /\ l = Len(Value(p, j)) /\ n = Len(b) /\ z = Size(p)
    <3>1. Value(p, j) \in Seq(Nat)
      BY NextItem, Zenon
    <3>2. \A s \in Seq(Nat) : Len(s) \in Nat
      OBVIOUS
    <3> QED
      <4>1. Offset(p, j) \in Nat /\ Size(p) \in Nat
        BY NextItem, Values, Zenon
      <4>2. Len(b) \in Nat /\ Len(Value(p, j)) \in Nat
        BY <3>1, <3>2, Zenon DEF Longer
      <4> QED
        BY <4>1, <4>2, Zenon
  <2>2. o + 2 + l <= z /\ i + z <= n + 1 /\ Value(p, j) \in Seq(Nat)
    <3>1. /\ Offset(p, j + 1) <= Size(p) /\ Value(p, j) \in Seq(Nat)
          /\ Offset(p, j + 1) = Offset(p, j) + 2 + Len(Value(p, j))
      BY NextItem, Zenon
    <3> QED
      BY <2>1, <3>1, Zenon
  <2>3. i + o \in Nat \ {0} /\ (i + o) + 1 + l <= n
    <3>1. o + 2 + l <= z /\ i + z <= n + 1
      BY <2>2, Zenon
    <3> QED
      BY <3>1
  <2>4. Here(b, i + o, Tag(j), Value(p, j))
    BY <2>1 DEF PairingHere
  <2> QED
    BY <2>1, <2>2, <2>3, <2>4, HereLonger, Zenon
<1> QED
  BY <1>1 DEF PairingHere

-----------------------------------------------------------------------------
(* The answer, and the loop in it. *)

\* A single byte.
LEMMA Bytes == \A n \in Nat : <<n>> \in Seq(Nat) /\ Len(<<n>>) = 1
OBVIOUS

\* An empty value.
LEMMA None == <<>> \in Seq(Nat) /\ Len(<<>>) = 0
OBVIOUS

\* What is known of the pairing k of the answer.
LEMMA LaidAt ==
  ASSUME ListTypeOK, NEW st, NEW e, Laid(st, e), NEW k \in 1..written
  PROVE  /\ k \in Nat /\ written \in Nat /\ e \in Nat
         /\ sent[k] \in Pairing /\ st[k] \in Nat /\ st[k + 1] \in Nat /\ Size(sent[k]) \in Nat
         /\ st[k] >= 4 /\ st[k + 1] = st[k] + Size(sent[k]) + 2 /\ st[k] + Size(sent[k]) <= e + 1
         /\ PairingHere(wire, st[k], sent[k])
         /\ (k > 1 => Here(wire, st[k] - 2, 255, <<>>))
<1>1. PICK n \in Nat, l \in Nat : n = written /\ l = Len(sent) /\ n <= l
  <2>1. written \in Nat /\ Len(sent) \in Nat /\ written <= Len(sent)
    BY DEF ListTypeOK
  <2> QED
    BY <2>1, Zenon
<1>2. k \in Nat /\ k \in 1..l /\ k \in 1..(n + 1) /\ k + 1 \in 1..(n + 1)
  BY <1>1
<1>3. sent[k] \in Pairing
  BY <1>1, <1>2 DEF ListTypeOK
<1>4. Size(sent[k]) \in Nat
  BY <1>3, Values, Zenon
<1>5. st[k] \in Nat /\ st[k + 1] \in Nat /\ st[k] >= 4 /\ e \in Nat
  BY <1>1, <1>2 DEF Laid
<1>6. /\ st[k + 1] = st[k] + Size(sent[k]) + 2 /\ st[k + 1] <= e + 3
      /\ PairingHere(wire, st[k], sent[k])
      /\ (k > 1 => Here(wire, st[k] - 2, 255, <<>>))
  BY Zenon DEF Laid
<1>7. st[k] + Size(sent[k]) <= e + 1
  <2>1. PICK s \in Nat, t \in Nat, z \in Nat : s = st[k] /\ t = st[k + 1] /\ z = Size(sent[k])
    BY <1>4, <1>5, Zenon
  <2>2. t = s + z + 2 /\ t <= e + 3
    BY <1>6, <2>1, Zenon
  <2>3. s + z <= e + 1
    BY <1>5, <2>2
  <2> QED
    BY <2>1, <2>3, Zenon
<1> QED
  BY <1>1, <1>2, <1>3, <1>4, <1>5, <1>6, <1>7, Zenon

\* What is known of the answer as a whole.
LEMMA LaidLen ==
  ASSUME ListTypeOK, NEW st, NEW e, Laid(st, e)
  PROVE  /\ wire \in Seq(Nat) /\ Len(wire) \in Nat /\ e \in Nat /\ written \in Nat /\ at \in Nat
         /\ Len(wire) <= e /\ (~cut => Len(wire) = e) /\ e >= 3
         /\ st \in [1..(written + 1) -> Nat] /\ st[1] = 4
         /\ Here(wire, 1, 6, <<M2>>)
         /\ (written > 0 => st[written + 1] \in Nat /\ e = st[written + 1] - 3)
<1>1. wire \in Seq(Nat) /\ Len(wire) \in Nat /\ written \in Nat /\ at \in Nat
  BY DEF ListTypeOK
<1>2. /\ e \in Nat /\ Len(wire) <= e /\ (~cut => Len(wire) = e)
      /\ st \in [1..(written + 1) -> Nat] /\ st[1] = 4
      /\ Here(wire, 1, 6, <<M2>>)
  BY Zenon DEF Laid
<1>3. ASSUME written > 0 PROVE st[written + 1] \in Nat /\ e = st[written + 1] - 3
  <2>1. written + 1 \in 1..(written + 1)
    BY <1>1
  <2> QED
    BY <1>2, <1>3, <2>1, Zenon DEF Laid
<1>4. e >= 3
  <2>1. CASE written = 0
    <3>1. e = 3 \/ e = 6
      BY <2>1, Zenon DEF Laid
    <3> QED
      BY <3>1
  <2>2. CASE written > 0
    <3>1. 1 \in 1..written
      BY <1>1, <2>2
    <3>2. st[1] \in Nat /\ Size(sent[1]) \in Nat /\ st[1] + Size(sent[1]) <= e + 1
      BY <3>1, LaidAt, Zenon
    <3> QED
      BY <1>2, <3>2
  <2> QED
    BY <1>1, <2>1, <2>2
<1> QED
  BY <1>1, <1>2, <1>3, <1>4, Zenon

\* Where the loop is: at an item of a pairing, at the separator after it, or
\* after the last.
LEMMA SpotAt ==
  ASSUME ListTypeOK, NEW st, NEW e, Laid(st, e), NEW k \in 1..written, NEW j \in 0..3,
         at = st[k] + Offset(sent[k], j)
  PROVE  /\ at \in Nat \ {0}
         /\ (j # 3 => /\ Here(wire, at, Tag(j), Value(sent[k], j))
                      /\ at + 1 + Len(Value(sent[k], j)) <= e)
         /\ (j = 3 /\ k # written => /\ k + 1 \in 1..written /\ at + 2 = st[k + 1]
                                     /\ Here(wire, at, 255, <<>>) /\ at + 1 <= e)
         /\ (j = 3 /\ k = written => at = e + 1)
<1>1. PICK s \in Nat, z \in Nat, w \in Nat, f \in Nat :
        s = st[k] /\ z = Size(sent[k]) /\ w = written /\ f = e /\ s >= 4 /\ s + z <= f + 1
  BY LaidAt, ZenonT(30)
<1>2. /\ sent[k] \in Pairing /\ k \in Nat /\ PairingHere(wire, s, sent[k])
      /\ st[k + 1] = s + z + 2
  BY <1>1, LaidAt, Zenon
<1>3. CASE j # 3
  <2>1. j \in 0..2
    BY <1>3
  <2>2. PICK o \in Nat, l \in Nat : /\ o = Offset(sent[k], j) /\ l = Len(Value(sent[k], j))
                                    /\ o + 2 + l <= z
    <3>1. /\ Offset(sent[k], j) \in Nat /\ Offset(sent[k], j + 1) <= z
          /\ Offset(sent[k], j + 1) = Offset(sent[k], j) + 2 + Len(Value(sent[k], j))
          /\ Value(sent[k], j) \in Seq(Nat)
      BY <1>1, <1>2, <2>1, NextItem, Zenon
    <3>2. \A v \in Seq(Nat) : Len(v) \in Nat
      OBVIOUS
    <3> QED
      BY <3>1, <3>2, Zenon
  <2>3. at = s + o
    BY <1>1, <2>2, Zenon
  <2>4. at \in Nat \ {0} /\ at + 1 + l <= f
    <3>1. s >= 4 /\ s + z <= f + 1 /\ o + 2 + l <= z
      BY <1>1, <2>2, Zenon
    <3>2. \A a : a = s + o => a \in Nat \ {0} /\ a + 1 + l <= f
      BY <3>1
    <3> QED
      BY <2>3, <3>2, Zenon
  <2>5. Here(wire, at, Tag(j), Value(sent[k], j))
    BY <1>1, <1>2, <2>1, <2>2, <2>3, Zenon DEF PairingHere
  <2> QED
    BY <1>1, <1>3, <2>2, <2>4, <2>5, Zenon
<1>4. CASE j = 3
  <2>1. at = s + z
    BY <1>1, <1>2, <1>4, Items, Zenon
  <2>2. at \in Nat \ {0}
    BY <1>1, <2>1
  <2>3. ASSUME k # written
        PROVE  /\ k + 1 \in 1..written /\ at + 2 = st[k + 1]
               /\ Here(wire, at, 255, <<>>) /\ at + 1 <= e
    <3>1. k + 1 \in 1..w /\ k + 1 > 1
      BY <1>1, <1>2, <2>3
    <3>2. PICK t \in Nat, y \in Nat : t = st[k + 1] /\ y = Size(sent[k + 1]) /\ t + y <= f + 1
      BY <1>1, <3>1, LaidAt, Zenon
    <3>3. Here(wire, t - 2, 255, <<>>)
      BY <1>1, <3>1, <3>2, LaidAt, Zenon
    <3>4. t = s + z + 2
      BY <1>2, <3>2, Zenon
    <3>5. at + 2 = t /\ t - 2 = at /\ at + 1 <= f
      BY <1>1, <2>1, <3>2, <3>4
    <3> QED
      BY <1>1, <3>1, <3>2, <3>3, <3>5, Zenon
  <2>4. ASSUME k = written PROVE at = e + 1
    <3>1. w > 0
      BY <1>1, <2>4
    <3>2. f = st[w + 1] - 3
      BY <1>1, <3>1, LaidLen, Zenon
    <3>3. st[w + 1] = s + z + 2
      BY <1>1, <1>2, <2>4, Zenon
    <3>4. f = (s + z + 2) - 3
      BY <3>2, <3>3, Zenon
    <3>5. at = f + 1
      BY <1>1, <2>1, <3>4
    <3> QED
      BY <1>1, <3>5, Zenon
  <2> QED
    BY <1>4, <2>2, <2>3, <2>4, Zenon
<1> QED
  BY <1>3, <1>4, Zenon

-----------------------------------------------------------------------------
(* The steps of the loop. *)

\* Of an answer that arrives in full the loop misses nothing.
LEMMA NoneMissing ==
  ASSUME ListTypeOK, NEW st, NEW e, Laid(st, e), Len(wire) = e,
         NEW k \in 1..written, NEW j \in 0..3,
         at = st[k] + Offset(sent[k], j)
  PROVE  \/ j # 3 /\ at < Len(wire) /\ wire[at] # 255 /\ Missing(wire, at) = "none"
         \/ j = 3 /\ k # written /\ at < Len(wire) /\ wire[at] = 255
         \/ j = 3 /\ k = written /\ ~(at < Len(wire))
<1>1. wire \in Seq(Nat) /\ Len(wire) \in Nat /\ e \in Nat
  BY LaidLen, Zenon
<1>2. sent[k] \in Pairing
  BY LaidAt, Zenon
<1>3. at \in Nat \ {0}
  BY SpotAt, Zenon
<1>4. CASE j # 3
  <2>1. j \in 0..2
    BY <1>4
  <2>2. PICK v \in Seq(Nat), t \in Nat : v = Value(sent[k], j) /\ t = Tag(j) /\ t # 255
    BY <1>2, <2>1, NextItem, Zenon
  <2>3. Here(wire, at, t, v) /\ at + 1 + Len(v) <= Len(wire)
    BY <1>4, <2>2, SpotAt, ZenonT(30)
  <2>4. at < Len(wire) /\ wire[at] = t /\ Missing(wire, at) = "none"
    BY <1>1, <1>3, <2>3, ItemThere, Zenon
  <2> QED
    BY <1>4, <2>2, <2>4, Zenon
<1>5. CASE j = 3 /\ k # written
  <2>1. Here(wire, at, 255, <<>>) /\ at + 1 <= Len(wire)
    BY <1>5, SpotAt, Zenon
  <2>2. at < Len(wire) /\ at <= Len(wire)
    BY <1>1, <1>3, <2>1
  <2>3. wire[at] = 255
    BY <2>1, <2>2, Zenon DEF Here
  <2> QED
    BY <1>5, <2>2, <2>3, Zenon
<1>6. CASE j = 3 /\ k = written
  <2>1. at = e + 1
    BY <1>6, SpotAt, Zenon
  <2>2. ~(at < Len(wire))
    BY <1>1, <2>1
  <2> QED
    BY <1>6, <2>2, Zenon
<1> QED
  BY <1>4, <1>5, <1>6, Zenon

\* What the loop is at, if it is in the answer.
LEMMA Within ==
  ASSUME ListTypeOK, NEW st, NEW e, Laid(st, e), at < Len(wire),
         NEW k \in 1..written, NEW j \in 0..3,
         at = st[k] + Offset(sent[k], j)
  PROVE  \/ /\ j # 3 /\ wire[at] = Tag(j) /\ Tag(j) # 255
            /\ Here(wire, at, Tag(j), Value(sent[k], j))
         \/ j = 3 /\ k # written /\ wire[at] = 255
<1>1. wire \in Seq(Nat) /\ Len(wire) \in Nat /\ e \in Nat /\ Len(wire) <= e
  BY LaidLen, Zenon
<1>2. at \in Nat /\ at <= Len(wire) /\ at # e + 1
  <2>1. at \in Nat
    BY SpotAt, Zenon
  <2> QED
    BY <1>1, <2>1
<1>3. CASE j # 3
  <2>1. j \in 0..2
    BY <1>3
  <2>2. Tag(j) # 255
    BY <2>1 DEF Tag
  <2>3. Here(wire, at, Tag(j), Value(sent[k], j))
    BY <1>3, SpotAt, Zenon
  <2>4. wire[at] = Tag(j)
    BY <1>2, <2>3, Zenon DEF Here
  <2> QED
    BY <1>3, <2>2, <2>3, <2>4, Zenon
<1>4. CASE j = 3
  <2>1. k # written /\ Here(wire, at, 255, <<>>)
    BY <1>2, <1>4, SpotAt, Zenon
  <2>2. wire[at] = 255
    BY <1>2, <2>1, Zenon DEF Here
  <2> QED
    BY <1>4, <2>1, <2>2, Zenon
<1> QED
  BY <1>3, <1>4, Zenon

\* The next step of the loop within the pairing k.
LEMMA ReadAt ==
  ASSUME ListTypeOK, NEW st, NEW e, Laid(st, e), ReadItem,
         NEW k \in 1..written, NEW j \in 0..3,
         at = st[k] + Offset(sent[k], j), pp = Part(sent[k], j)
  PROVE  /\ j \in 0..2
         /\ at' = st[k] + Offset(sent[k], j + 1) /\ at' \in Nat
         /\ pp' = Part(sent[k], j + 1)
<1>1. at < Len(wire) /\ wire[at] # 255 /\ Missing(wire, at) = "none"
  BY Zenon DEF ReadItem
<1>2. j # 3 /\ wire[at] = Tag(j) /\ Here(wire, at, Tag(j), Value(sent[k], j))
  BY <1>1, Within, ZenonT(30)
<1>3. j \in 0..2
  BY <1>2
<1>4. PICK p \in Pairing, v \in Seq(Nat) :
        p = sent[k] /\ v = Value(p, j)
  <2>1. sent[k] \in Pairing
    BY LaidAt, Zenon
  <2>2. Value(sent[k], j) \in Seq(Nat)
    BY <1>3, <2>1, NextItem, Zenon
  <2> QED
    BY <2>1, <2>2, Zenon
<1>5. wire \in Seq(Nat) /\ at \in Nat \ {0}
  BY LaidLen, SpotAt, Zenon
<1>6. ItemEnd(wire, at) = at + 1 + Len(v) /\ SubSeq(wire, at + 2, ItemEnd(wire, at)) = v
  BY <1>1, <1>2, <1>4, <1>5, ItemRead, Zenon
<1>7. pp' = Part(sent[k], j + 1)
  <2>1. pp' = Set(wire[at], SubSeq(wire, at + 2, ItemEnd(wire, at)))
    BY Zenon DEF ReadItem
  <2>2. pp' = Set(Tag(j), Value(p, j))
    BY <1>2, <1>4, <1>6, <2>1, Zenon
  <2>3. pp = Part(p, j)
    BY <1>4, Zenon
  <2>4. Set(Tag(j), Value(p, j)) = Part(p, j + 1)
    BY <1>3, <2>3, SetPart, Zenon
  <2> QED
    BY <1>4, <2>2, <2>4, Zenon
<1>8. at' = st[k] + Offset(sent[k], j + 1) /\ at' \in Nat
  <2>1. PICK a \in Nat, s \in Nat, o \in Nat, q \in Nat, l \in Nat :
          /\ a = at /\ s = st[k] /\ o = Offset(p, j) /\ q = Offset(p, j + 1) /\ l = Len(v)
          /\ q = o + 2 + l
    <3>1. /\ Offset(p, j) \in Nat /\ Offset(p, j + 1) \in Nat
          /\ Offset(p, j + 1) = Offset(p, j) + 2 + Len(v)
      BY <1>3, <1>4, NextItem, Zenon
    <3>2. at \in Nat /\ st[k] \in Nat
      BY LaidLen, LaidAt, Zenon
    <3>3. Len(v) \in Nat
      OBVIOUS
    <3> QED
      BY <3>1, <3>2, <3>3, Zenon
  <2>2. a = s + o
    BY <1>4, <2>1, Zenon
  <2>3. at' = ItemEnd(wire, at) + 1
    BY Zenon DEF ReadItem
  <2>4. at' = (a + 1 + l) + 1
    BY <1>6, <2>1, <2>3, Zenon
  <2>5. (a + 1 + l) + 1 = s + q /\ s + q \in Nat
    <3>1. q = o + 2 + l
      BY <2>1, Zenon
    <3> QED
      BY <2>2, <3>1
  <2> QED
    BY <1>4, <2>1, <2>4, <2>5, Zenon
<1> QED
  BY <1>3, <1>7, <1>8, Zenon

\* The answer is as it was.
LEMMA SameLaid ==
  ASSUME NEW st, NEW e, Laid(st, e), UNCHANGED <<sent, wire, cut, written>>
  PROVE  Laid(st, e)'
BY Zenon DEF Laid

\* Until ListPairings returns nothing is said of what it returned.
LEMMA NotListed ==
  ASSUME place' # "done"
  PROVE  Listed'
BY Zenon DEF Listed, ListedInFull, ListedIsPart

\* The invariant after a step of the loop that goes on.
LEMMA ReadingInv ==
  ASSUME ListTypeOK, place = "reading", NEW st, NEW e, Laid(st, e), Spot(st)',
         UNCHANGED <<form, sent, place, wire, cut, written>>,
         at' \in Nat, pp' \in Pairing, result' \in Seq(Pairing)
  PROVE  ListInv'
<1>1. Laid(st, e)'
  BY SameLaid, Zenon
<1>2. ListTypeOK'
  BY Zenon DEF ListTypeOK
<1>3. place' = "reading" /\ place' # "new" /\ place' # "done"
  BY Zenon
<1>4. Listed'
  BY <1>3, NotListed, Zenon
<1> QED
  BY <1>1, <1>2, <1>3, <1>4, Zenon DEF ListInv

\* An item of the pairing k is read: the loop is at the next one.
LEMMA ReadItemInv ==
  ASSUME ListInv, ReadItem
  PROVE  ListInv'
<1>1. /\ place = "reading" /\ UNCHANGED <<form, sent, place, wire, cut, written>>
      /\ result' = result /\ at < Len(wire) /\ Missing(wire, at) = "none"
  BY Zenon DEF ReadItem
<1>2. ListTypeOK
  BY Zenon DEF ListInv
<1>3. PICK st, e : Laid(st, e) /\ Spot(st)
  BY <1>1, Zenon DEF ListInv
<1>4. result' \in Seq(Pairing)
  BY <1>1, <1>2, Zenon DEF ListTypeOK
<1>5. CASE written = 0 /\ at \in {4, 7} /\ pp = Blank /\ result = <<>>
  <2>1. PICK n \in Nat : n = Len(wire) /\ n <= e /\ wire \in Seq(Nat)
    BY <1>2, <1>3, LaidLen, Zenon
  <2>2. e = 3 \/ (e = 6 /\ Here(wire, 4, 7, << 2 >>))
    BY <1>3, <1>5, Zenon DEF Laid
  <2>3. at < n
    BY <1>1, <2>1, Zenon
  <2>4. at = 4 /\ e = 6
    BY <1>5, <2>1, <2>2, <2>3
  <2>5. 4 \in Nat \ {0} /\ 4 <= n /\ 4 < Len(wire) /\ Missing(wire, 4) = "none"
    BY <1>1, <2>1, <2>3, <2>4
  <2>6. wire[4] = 7
    BY <2>1, <2>2, <2>4, <2>5 DEF Here
  <2>7. << 2 >> \in Seq(Nat) /\ Len(<< 2 >>) = 1
    BY Bytes
  <2>8. ItemEnd(wire, 4) = 4 + 1 + Len(<< 2 >>)
    <3>1. PICK v \in Seq(Nat) : v = << 2 >>
      BY <2>7, Zenon
    <3>2. Here(wire, 4, 7, v)
      BY <2>2, <2>4, <3>1
    <3>3. wire \in Seq(Nat)
      BY <2>1, Zenon
    <3>4. ItemEnd(wire, 4) = 4 + 1 + Len(v)
      BY <2>5, <3>2, <3>3, ItemRead, ZenonT(30)
    <3> QED
      BY <3>1, <3>4, Zenon
  <2>9. at' = 7
    <3>1. at' = ItemEnd(wire, 4) + 1
      BY <2>4, Zenon DEF ReadItem
    <3>2. at' = (4 + 1 + 1) + 1
      BY <2>7, <2>8, <3>1, Zenon
    <3> QED
      BY <3>2
  <2>10. pp' = pp
    <3>1. \A v : Set(7, v) = pp
      BY DEF Set
    <3>2. pp' = Set(7, SubSeq(wire, at + 2, ItemEnd(wire, at)))
      BY <2>4, <2>6, Zenon DEF ReadItem
    <3> QED
      BY <3>1, <3>2, Zenon
  <2>11. Spot(st)'
    BY <1>1, <1>5, <2>9, <2>10, Zenon DEF Spot
  <2>12. at' \in Nat
    BY <2>9
  <2>13. pp' \in Pairing
    BY <1>2, <2>10, Zenon DEF ListTypeOK
  <2> QED
    BY <1>1, <1>2, <1>3, <1>4, <2>11, <2>12, <2>13, ReadingInv, Zenon
<1>6. ASSUME NEW k \in 1..written, NEW j \in 0..3,
             at = st[k] + Offset(sent[k], j), pp = Part(sent[k], j),
             Len(result) = k - 1, \A i \in 1..(k - 1) : result[i] = sent[i]
      PROVE  ListInv'
  <2>1. /\ j \in 0..2 /\ at' = st[k] + Offset(sent[k], j + 1) /\ at' \in Nat
        /\ pp' = Part(sent[k], j + 1)
    BY <1>2, <1>3, <1>6, ReadAt, Zenon
  <2>2. j + 1 \in 0..3
    BY <2>1
  <2>3. Spot(st)'
    <3>1. /\ at' = st[k] + Offset(sent'[k], j + 1) /\ pp' = Part(sent'[k], j + 1)
          /\ Len(result') = k - 1 /\ \A i \in 1..(k - 1) : result'[i] = sent'[i]
      BY <1>1, <1>6, <2>1, Zenon
    <3>2. k \in 1..written'
      BY <1>1, Zenon
    <3> QED
      BY <2>2, <3>1, <3>2, Zenon DEF Spot
  <2>4. pp' \in Pairing
    <3>1. sent[k] \in Pairing
      BY <1>2, <1>3, LaidAt, Zenon
    <3> QED
      BY <2>1, <2>2, <3>1, Parts, Zenon
  <2> QED
    BY <1>1, <1>2, <1>3, <1>4, <2>1, <2>3, <2>4, ReadingInv, Zenon
<1> QED
  BY <1>3, <1>5, <1>6, Zenon DEF Spot

\* q is the pairings of s before k, and p.
OneMore(q, s, k, p) ==
  /\ q \in Seq(Pairing) /\ Len(q) = k /\ DOMAIN q = 1..k
  /\ q[k] = p /\ \A i \in 1..(k - 1) : q[i] = s[i]

\* Append adds it.
LEMMA OneMoreAppended ==
  ASSUME NEW s, NEW r \in Seq(Pairing), NEW p \in Pairing, NEW k \in Nat \ {0},
         Len(r) = k - 1, \A i \in 1..(k - 1) : r[i] = s[i], NEW q, q = Append(r, p)
  PROVE  OneMore(q, s, k, p)
<1>1. PICK n \in Nat : n = k - 1 /\ k = n + 1 /\ n = Len(r)
  <2>1. k - 1 \in Nat /\ k = (k - 1) + 1
    OBVIOUS
  <2> QED
    BY <2>1, Zenon
<1>3. /\ q \in Seq(Pairing) /\ Len(q) = n + 1 /\ q[n + 1] = p
      /\ \A i \in 1..n : q[i] = r[i]
  BY <1>1, AppendProperties
<1>4. DOMAIN q = 1..(n + 1)
  BY <1>3
<1> QED
  BY <1>1, <1>3, <1>4, Zenon DEF OneMore

\* After a separator the loop is at the first item of the next pairing.
LEMMA SeparatorInv ==
  ASSUME ListInv, Separator
  PROVE  ListInv'
<1>1. /\ place = "reading" /\ UNCHANGED <<form, sent, place, wire, cut, written>>
      /\ result' = Append(result, pp) /\ pp' = Blank /\ at' = at + 2
      /\ at < Len(wire) /\ wire[at] = 255
  BY Zenon DEF Separator, Separated
<1>2. ListTypeOK
  BY Zenon DEF ListInv
<1>3. PICK st, e : Laid(st, e) /\ Spot(st)
  BY <1>1, Zenon DEF ListInv
<1>4. CASE written = 0 /\ at \in {4, 7} /\ pp = Blank /\ result = <<>>
  <2>1. PICK n \in Nat : n = Len(wire) /\ n <= e /\ wire \in Seq(Nat)
    BY <1>2, <1>3, LaidLen, Zenon
  <2>2. e = 3 \/ (e = 6 /\ Here(wire, 4, 7, << 2 >>))
    BY <1>3, <1>4, Zenon DEF Laid
  <2>3. at < n
    BY <1>1, <2>1, Zenon
  <2>4. at = 4 /\ e = 6 /\ 4 <= n
    BY <1>4, <2>1, <2>2, <2>3
  <2>5. wire[4] = 7
    BY <2>1, <2>2, <2>4 DEF Here
  <2> QED
    BY <1>1, <2>4, <2>5
<1>5. ASSUME NEW k \in 1..written, NEW j \in 0..3,
             at = st[k] + Offset(sent[k], j), pp = Part(sent[k], j),
             Len(result) = k - 1, \A i \in 1..(k - 1) : result[i] = sent[i]
      PROVE  ListInv'
  <2>1. j = 3 /\ k # written
    <3>1. Laid(st, e) /\ at < Len(wire) /\ at = st[k] + Offset(sent[k], j)
      BY <1>1, <1>3, <1>5, Zenon
    <3>2. \/ j # 3 /\ wire[at] = Tag(j) /\ Tag(j) # 255
             /\ Here(wire, at, Tag(j), Value(sent[k], j))
          \/ j = 3 /\ k # written /\ wire[at] = 255
      BY <1>2, <3>1, Within, Zenon
    <3> QED
      BY <1>1, <3>2, Zenon
  <2>2. k + 1 \in 1..written /\ at + 2 = st[k + 1]
    BY <1>2, <1>3, <1>5, <2>1, SpotAt, Zenon
  <2>3. sent[k] \in Pairing /\ sent[k + 1] \in Pairing /\ st[k + 1] \in Nat
    BY <1>2, <1>3, <2>2, LaidAt, Zenon
  <2>4. pp = sent[k]
    BY <1>5, <2>1, <2>3, Parts, Zenon
  <2>5. /\ result' \in Seq(Pairing) /\ Len(result') = k /\ result'[k] = sent[k]
        /\ \A i \in 1..(k - 1) : result'[i] = sent[i]
    <3>1. result \in Seq(Pairing) /\ sent[k] \in Pairing
      BY <1>2, <2>3, Zenon DEF ListTypeOK
    <3>2. k \in Nat \ {0}
      BY <1>2 DEF ListTypeOK
    <3> QED
      <4>1. Len(result) = k - 1 /\ \A i \in 1..(k - 1) : result[i] = sent[i]
        BY <1>5, Zenon
      <4>2. result' = Append(result, sent[k])
        BY <1>1, <2>4, Zenon
      <4>3. OneMore(result', sent, k, sent[k])
        BY <3>1, <3>2, <4>1, <4>2, OneMoreAppended, Zenon
      <4> QED
        BY <4>3, Zenon DEF OneMore
  <2>6. /\ (k + 1) - 1 = k /\ \A i \in 1..k : i = k \/ i \in 1..(k - 1)
    <3>1. k \in Nat
      BY <1>2, <1>3, LaidAt, Zenon
    <3> QED
      BY <3>1
  <2>7. Spot(st)'
    <3>1. /\ at' = st[k + 1] + Offset(sent'[k + 1], 0) /\ pp' = Part(sent'[k + 1], 0)
      <4>1. Offset(sent[k + 1], 0) = 0 /\ Part(sent[k + 1], 0) = Blank
        BY <2>3, Items, Parts, Zenon
      <4>2. st[k + 1] + 0 = st[k + 1]
        BY <2>3
      <4> QED
        BY <1>1, <2>2, <4>1, <4>2, Zenon
    <3>2. Len(result') = (k + 1) - 1 /\ \A i \in 1..((k + 1) - 1) : result'[i] = sent'[i]
      BY <1>1, <2>5, <2>6, Zenon
    <3>3. k + 1 \in 1..written' /\ 0 \in 0..3
      BY <1>1, <2>2
    <3> QED
      BY <3>1, <3>2, <3>3, Zenon DEF Spot
  <2>8. at' \in Nat /\ pp' \in Pairing
    <3>1. at' \in Nat
      BY <1>1, <2>2, <2>3, Zenon
    <3>2. 0 \in 0..3
      OBVIOUS
    <3>3. pp' = Part(sent[k], 0)
      BY <1>1, <2>3, Parts, Zenon
    <3> QED
      BY <2>3, <3>1, <3>2, <3>3, Parts, Zenon
  <2> QED
    BY <1>1, <1>2, <1>3, <2>5, <2>7, <2>8, ReadingInv, Zenon
<1> QED
  BY <1>3, <1>4, <1>5, Zenon DEF Spot

\* What the end of the list says of it.
LEMMA EndListed ==
  ASSUME ListTypeOK, place = "reading", NEW st, NEW e, Laid(st, e), Spot(st), EndOfList
  PROVE  Listed'
<1>1. /\ UNCHANGED <<form, sent, cut, written>>
      /\ got' = [list |-> Append(result, pp), err |-> "none"]
      /\ at < Len(wire) => wire[at] # 255 /\ Missing(wire, at) = "EOF"
  BY Zenon DEF EndOfList, Return, loopVars
<1>2. PICK q : q = Append(result, pp) /\ got'.list = q /\ got' = [list |-> q, err |-> "none"]
  BY <1>1
<1>3. sent \in Seq(Pairing) /\ result \in Seq(Pairing) /\ pp \in Pairing
  BY Zenon DEF ListTypeOK
<1>4. CASE written = 0 /\ at \in {4, 7} /\ pp = Blank /\ result = <<>>
  <2>1. q \in Seq(Pairing) /\ Len(q) = 1 /\ DOMAIN q = 1..1 /\ q[1] = Blank
    BY <1>2, <1>3, <1>4
  <2>2. ListedInFull'
    <3>1. written' = Len(sent') => sent' = <<>>
      <4>1. \A s \in Seq(Pairing) : Len(s) = 0 => s = <<>>
        OBVIOUS
      <4> QED
        BY <1>1, <1>3, <1>4, <4>1, Zenon
    <3> QED
      BY <3>1, Zenon DEF ListedInFull
  <2>3. ListedIsPart'
    <3>1. ASSUME NEW i \in DOMAIN q PROVE i = Len(q) /\ q[i] = Blank
      <4>1. i = 1
        BY <2>1
      <4> QED
        BY <2>1, <4>1, Zenon
    <3> QED
      BY <1>2, <3>1, Zenon DEF ListedIsPart
  <2> QED
    BY <2>2, <2>3, Zenon DEF Listed
<1>5. ASSUME NEW k \in 1..written, NEW j \in 0..3,
             at = st[k] + Offset(sent[k], j), pp = Part(sent[k], j),
             Len(result) = k - 1, \A i \in 1..(k - 1) : result[i] = sent[i]
      PROVE  Listed'
  <2>1. k \in 1..Len(sent) /\ DOMAIN sent = 1..Len(sent)
    BY <1>3 DEF ListTypeOK
  <2>2. /\ q \in Seq(Pairing) /\ Len(q) = k /\ DOMAIN q = 1..k /\ q[k] = pp
        /\ \A i \in 1..(k - 1) : q[i] = sent[i]
    <3>1. Len(result) = k - 1 /\ \A i \in 1..(k - 1) : result[i] = sent[i]
      BY <1>5, Zenon
    <3>2. k \in Nat \ {0}
      BY <1>3, <2>1
    <3>3. OneMore(q, sent, k, pp)
      BY <1>2, <1>3, <3>1, <3>2, OneMoreAppended, Zenon
    <3> QED
      BY <3>3, Zenon DEF OneMore
  <2>3. k \in Nat /\ sent[k] \in Pairing
    BY LaidAt, Zenon
  <2>4. \A i \in 1..k : i = k \/ i \in 1..(k - 1)
    BY <2>3
  <2>5. ListedInFull'
    <3>1. ASSUME ~cut, written = Len(sent) PROVE q = sent
      <4>1. Len(wire) = e
        BY <3>1, LaidLen, Zenon
      <4>2. at = st[k] + Offset(sent[k], j)
        BY <1>5, Zenon
      <4>3. \/ j # 3 /\ at < Len(wire) /\ wire[at] # 255 /\ Missing(wire, at) = "none"
            \/ j = 3 /\ k # written /\ at < Len(wire) /\ wire[at] = 255
            \/ j = 3 /\ k = written /\ ~(at < Len(wire))
        BY <4>1, <4>2, NoneMissing, Zenon
      <4>4. j = 3 /\ k = written
        <5>1. "none" # "EOF"
          OBVIOUS
        <5> QED
          BY <1>1, <4>3, <5>1, Zenon
      <4>5. q[k] = sent[k] /\ Len(sent) = k
        BY <1>5, <2>2, <2>3, <3>1, <4>4, Parts, Zenon
      <4>6. \A i \in 1..k : q[i] = sent[i]
        BY <2>2, <2>4, <4>5, Zenon
      <4> QED
        BY <1>3, <2>2, <4>5, <4>6, SeqEqual, Zenon
    <3> QED
      BY <1>1, <1>2, <3>1, Zenon DEF ListedInFull
  <2>6. ListedIsPart'
    <3>1. ASSUME NEW i \in DOMAIN q
          PROVE  \/ i \in DOMAIN sent /\ q[i] = sent[i]
                 \/ i = Len(q) /\ q[i] = Blank
                 \/ /\ i = Len(q) /\ i \in DOMAIN sent
                    /\ q[i].Id = sent[i].Id /\ q[i].PublicKey \in {sent[i].PublicKey, <<>>}
                    /\ q[i].Permission = 0
      <4>1. i = k \/ i \in 1..(k - 1)
        BY <2>2, <2>4, <3>1, Zenon
      <4>2. CASE i \in 1..(k - 1)
        <5>1. i \in DOMAIN sent
          <6>1. \A n \in Nat, l \in Nat : n \in 1..l => \A x \in 1..(n - 1) : x \in 1..l
            OBVIOUS
          <6>2. Len(sent) \in Nat
            BY <1>3
          <6> QED
            BY <2>1, <2>3, <4>2, <6>1, <6>2, Zenon
        <5> QED
          BY <2>2, <4>2, <5>1, Zenon
      <4>3. CASE i = k
        <5>1. q[i] = Part(sent[i], j) /\ i = Len(q) /\ i \in DOMAIN sent /\ sent[i] \in Pairing
          BY <1>5, <2>1, <2>2, <2>3, <4>3, Zenon
        <5>2. CASE j = 0
          <6>1. q[i] = Blank
            BY <5>1, <5>2, Parts, Zenon
          <6> QED
            BY <5>1, <6>1, Zenon
        <5>3. CASE j = 3
          <6>1. q[i] = sent[i]
            BY <5>1, <5>3, Parts, Zenon
          <6> QED
            BY <5>1, <6>1, Zenon
        <5>4. CASE j \in {1, 2}
          <6>1. \A p : /\ Part(p, j).Id = p.Id /\ Part(p, j).PublicKey \in {p.PublicKey, <<>>}
                       /\ Part(p, j).Permission = 0
            BY <5>4 DEF Part
          <6> QED
            BY <5>1, <6>1, Zenon
        <5>5. j = 0 \/ j = 3 \/ j \in {1, 2}
          OBVIOUS
        <5> QED
          BY <5>2, <5>3, <5>4, <5>5, Zenon
      <4> QED
        BY <4>1, <4>2, <4>3, Zenon
    <3>2. got'.list = q /\ sent' = sent
      BY <1>1, <1>2, Zenon
    <3> QED
      BY <3>1, <3>2, Zenon DEF ListedIsPart
  <2> QED
    BY <2>5, <2>6, Zenon DEF Listed
<1> QED
  BY <1>4, <1>5, Zenon DEF Spot

\* What is returned at the end of the bytes is Listed.
LEMMA EndOfListInv ==
  ASSUME ListInv, EndOfList
  PROVE  ListInv'
<1>1. place = "reading" /\ place' = "done" /\ UNCHANGED <<form, sent, wire, cut, loopVars>>
  BY Zenon DEF EndOfList, Return
<1>2. PICK st, e : Laid(st, e) /\ Spot(st)
  BY <1>1, Zenon DEF ListInv
<1>3. ListTypeOK
  BY Zenon DEF ListInv
<1>4. Listed'
  BY <1>1, <1>2, <1>3, EndListed, Zenon
<1>5. ListTypeOK'
  BY <1>1, <1>3 DEF ListTypeOK, loopVars
<1>6. place' # "new" /\ place' \notin {"wire", "reading"}
  BY <1>1
<1> QED
  BY <1>4, <1>5, <1>6, Zenon DEF ListInv

\* An answer that arrives in full has no torn item.
LEMMA TornItemInv ==
  ASSUME ListInv, TornItem
  PROVE  ListInv'
<1>1. /\ place = "reading" /\ place' = "done" /\ UNCHANGED <<form, sent, wire, cut, loopVars>>
      /\ at < Len(wire) /\ wire[at] # 255 /\ Missing(wire, at) = "ErrUnexpectedEOF"
      /\ got' = [list |-> <<>>, err |-> "ErrUnexpectedEOF"]
  BY Zenon DEF TornItem, Return
<1>2. PICK st, e : Laid(st, e) /\ Spot(st)
  BY <1>1, Zenon DEF ListInv
<1>3. ListTypeOK
  BY Zenon DEF ListInv
<1>4. cut \/ written # Len(sent) \/ sent = <<>>
  <2>1. SUFFICES ASSUME ~cut, written = Len(sent) PROVE sent = <<>>
    BY Zenon
  <2>2. CASE written = 0
    <3>1. \A s \in Seq(Pairing) : Len(s) = 0 => s = <<>>
      OBVIOUS
    <3>2. sent \in Seq(Pairing)
      BY <1>3, Zenon DEF ListTypeOK
    <3> QED
      BY <2>1, <2>2, <3>1, <3>2, Zenon
  <2>3. ASSUME NEW k \in 1..written, NEW j \in 0..3, at = st[k] + Offset(sent[k], j)
        PROVE  FALSE
    <3>1. Len(wire) = e
      BY <1>2, <1>3, <2>1, LaidLen, Zenon
    <3>2. \/ j # 3 /\ at < Len(wire) /\ wire[at] # 255 /\ Missing(wire, at) = "none"
          \/ j = 3 /\ k # written /\ at < Len(wire) /\ wire[at] = 255
          \/ j = 3 /\ k = written /\ ~(at < Len(wire))
      BY <1>2, <1>3, <2>3, <3>1, NoneMissing, Zenon
    <3>3. "none" # "ErrUnexpectedEOF"
      OBVIOUS
    <3> QED
      BY <1>1, <3>2, <3>3, Zenon
  <2> QED
    BY <1>2, <2>2, <2>3, Zenon DEF Spot
<1>5. Listed'
  <2>1. got'.err # "none"
    BY <1>1
  <2>2. cut' \/ written' # Len(sent') \/ sent' = <<>>
    BY <1>1, <1>4, Zenon DEF loopVars
  <2> QED
    BY <2>1, <2>2, Zenon DEF Listed, ListedInFull, ListedIsPart
<1>6. ListTypeOK'
  BY <1>1, <1>3 DEF ListTypeOK, loopVars
<1>7. place' # "new" /\ place' \notin {"wire", "reading"}
  BY <1>1
<1> QED
  BY <1>5, <1>6, <1>7, Zenon DEF ListInv

-----------------------------------------------------------------------------
(* The steps of the accessory, and of ListPairings before the loop. *)

\* What the variables are at first.
LEMMA Initial == Blank \in Pairing /\ <<>> \in Seq(Pairing) /\ 0 \in Nat /\ <<>> \in Seq(Nat)
BY DEF Blank, Pairing

\* The invariant holds at first.
LEMMA ListInitInv ==
  ASSUME ListInit
  PROVE  ListInv
<1>1. /\ form = "list" /\ sent \in Seq(Pairing) /\ place = "new" /\ wire = <<>> /\ cut = FALSE
      /\ written = 0 /\ at = 0 /\ pp = Blank /\ result = <<>>
  BY ListsAssumption DEF ListInit, Unsent
<1>2. 0 \in 0..Len(sent)
  BY <1>1
<1>3. ListTypeOK
  BY <1>1, <1>2, Initial DEF ListTypeOK
<1>4. Listed
  BY <1>1 DEF Listed, ListedInFull, ListedIsPart
<1> QED
  BY <1>1, <1>3, <1>4 DEF ListInv

\* The accessory has written.
LEMMA WireInv ==
  ASSUME ListTypeOK, place' = "wire", UNCHANGED <<form, sent, at, pp, result>>,
         NEW st, NEW e, Laid(st, e)', wire' \in Seq(Nat), cut' \in BOOLEAN,
         written' \in 0..Len(sent)
  PROVE  ListInv'
<1>1. ListTypeOK'
  BY Zenon DEF ListTypeOK
<1>2. place' # "new" /\ place' # "done" /\ place' # "reading"
  BY Zenon
<1>3. Listed'
  BY <1>2, NotListed, Zenon
<1> QED
  BY <1>1, <1>2, <1>3, Zenon DEF ListInv

\* The state of the answer, before any pairing.
LEMMA StateItem ==
  /\ State \in Seq(Nat) /\ Len(State) = 3 /\ Here(State, 1, 6, <<M2>>)
  /\ Join(State, Reason) \in Seq(Nat) /\ Len(Join(State, Reason)) = 6
  /\ Here(Join(State, Reason), 1, 6, <<M2>>) /\ Here(Join(State, Reason), 4, 7, << 2 >>)
<1>1. <<M2>> \in Seq(Nat) /\ Len(<<M2>>) = 1 /\ << 2 >> \in Seq(Nat) /\ Len(<< 2 >>) = 1
  BY Bytes DEF M2
<1>2. 6 \in Nat /\ 7 \in Nat /\ <<>> \in Seq(Nat) /\ Len(<<>>) = 0
  OBVIOUS
<1>3. PICK s, t : s = State /\ t = Join(State, Reason)
  OBVIOUS
<1>4. Grown(<<>>, s, 6, <<M2>>)
  <2>1. \A w \in Seq(Nat) : Join(<<>>, w) = w
    BY DEF Join
  <2>2. State = Join(<<>>, Item(6, <<M2>>))
    BY <1>1, <1>2, <2>1, ItemType, Zenon DEF State
  <2> QED
    BY <1>1, <1>2, <1>3, <2>2, ItemGrows, Zenon
<1>5. s \in Seq(Nat) /\ Len(s) = 3 /\ Here(s, 1, 6, <<M2>>)
  <2>1. s \in Seq(Nat) /\ Len(s) = 0 + 2 + 1 /\ Here(s, 0 + 1, 6, <<M2>>)
    BY <1>1, <1>2, <1>4, Zenon DEF Grown, Longer
  <2> QED
    BY <2>1
<1>6. Grown(s, t, 7, << 2 >>)
  BY <1>1, <1>2, <1>3, <1>5, ItemGrows, Zenon DEF Reason
<1>7. t \in Seq(Nat) /\ Len(t) = 6 /\ Here(t, 4, 7, << 2 >>) /\ Longer(s, t)
  <2>1. t \in Seq(Nat) /\ Len(t) = 3 + 2 + 1 /\ Here(t, 3 + 1, 7, << 2 >>) /\ Longer(s, t)
    BY <1>1, <1>5, <1>6, Zenon DEF Grown, Longer
  <2> QED
    BY <2>1
<1>8. Here(t, 1, 6, <<M2>>)
  <2>1. 1 \in Nat \ {0} /\ 1 + 1 + 1 <= 3
    OBVIOUS
  <2>2. 1 + 1 + Len(<<M2>>) <= Len(s)
    BY <1>1, <1>5, <2>1, Zenon
  <2> QED
    BY <1>1, <1>5, <1>7, <2>1, <2>2, HereLonger, Zenon
<1> QED
  BY <1>3, <1>5, <1>7, <1>8, Zenon

\* Before the first pairing the answer ends at e.
LEMMA LaidFirst ==
  ASSUME written' = 0, NEW e \in {3, 6}, Here(wire, 1, 6, <<M2>>)', Len(wire') = e,
         e = 6 => cut' /\ Here(wire, 4, 7, << 2 >>)'
  PROVE  Laid([k \in 1..1 |-> 4], e)'
<1>1. PICK st : st = [k \in 1..1 |-> 4]
  OBVIOUS
<1>2. /\ st \in [1..1 -> Nat] /\ st[1] = 4 /\ \A k \in 1..1 : st[k] >= 4
  BY <1>1
<1>3. 0 + 1 = 1 /\ 1..0 = {} /\ ~(0 > 0) /\ e \in Nat /\ e <= e
  OBVIOUS
<1>4. e = 3 \/ (e = 6 /\ cut' /\ Here(wire, 4, 7, << 2 >>)')
  BY Zenon
<1> QED
  BY <1>1, <1>2, <1>3, <1>4, Zenon DEF Laid

\* The answer is its state.
LEMMA SendListInv ==
  ASSUME ListInv, SendList
  PROVE  ListInv'
<1>1. /\ place = "new" /\ place' = "wire" /\ wire' = State
      /\ UNCHANGED <<form, sent, cut, written, at, pp, result>>
  BY Zenon DEF SendList, loopVars
<1>2. ListTypeOK /\ written = 0 /\ ~cut
  BY <1>1, Zenon DEF ListInv
<1>3. Laid([k \in 1..1 |-> 4], 3)'
  <2>1. 3 \in {3, 6} /\ 3 # 6
    OBVIOUS
  <2>2. Len(wire') = 3 /\ Here(wire, 1, 6, <<M2>>)' /\ written' = 0
    BY <1>1, <1>2, StateItem, Zenon
  <2> QED
    BY <2>1, <2>2, LaidFirst, Zenon
<1>4. wire' \in Seq(Nat) /\ cut' \in BOOLEAN /\ written' \in 0..Len(sent)
  BY <1>1, <1>2, StateItem, Zenon DEF ListTypeOK
<1> QED
  BY <1>1, <1>2, <1>3, <1>4, WireInv, Zenon

\* The answer is its state and a reason.
LEMMA RefuseInv ==
  ASSUME ListInv, Refuse
  PROVE  ListInv'
<1>1. /\ place = "new" /\ place' = "wire" /\ wire' = Join(State, Reason) /\ cut' = TRUE
      /\ UNCHANGED <<form, sent, written, at, pp, result>>
  BY Zenon DEF Refuse, Join, loopVars
<1>2. ListTypeOK /\ written = 0
  BY <1>1, Zenon DEF ListInv
<1>3. Laid([k \in 1..1 |-> 4], 6)'
  <2>1. 6 \in {3, 6}
    OBVIOUS
  <2>2. /\ Len(wire') = 6 /\ Here(wire, 1, 6, <<M2>>)' /\ Here(wire, 4, 7, << 2 >>)'
        /\ written' = 0 /\ cut'
    BY <1>1, <1>2, StateItem, Zenon
  <2> QED
    BY <2>1, <2>2, LaidFirst, Zenon
<1>4. wire' \in Seq(Nat) /\ cut' \in BOOLEAN /\ written' \in 0..Len(sent)
  BY <1>1, <1>2, StateItem, Zenon DEF ListTypeOK
<1> QED
  BY <1>1, <1>2, <1>3, <1>4, WireInv, Zenon

\* What is left of an answer is as it was.
LEMMA CutOffInv ==
  ASSUME ListInv, CutOff
  PROVE  ListInv'
<1>1. /\ place = "wire" /\ place' = "wire" /\ cut' = TRUE
      /\ UNCHANGED <<form, sent, written, at, pp, result>>
  BY Zenon DEF CutOff, loopVars
<1>2. ListTypeOK
  BY Zenon DEF ListInv
<1>3. PICK st, e : Laid(st, e)
  BY <1>1, Zenon DEF ListInv
<1>4. PICK m \in 0..Len(wire)-1 : wire' = SubSeq(wire, 1, m)
  BY Zenon DEF CutOff
<1>5. /\ wire \in Seq(Nat) /\ Len(wire) \in Nat /\ e \in Nat /\ written \in Nat
      /\ Len(wire) <= e /\ st \in [1..(written + 1) -> Nat] /\ st[1] = 4
      /\ Here(wire, 1, 6, <<M2>>)
  BY <1>2, <1>3, LaidLen, Zenon
<1>6. m \in 0..Len(wire) /\ m <= e
  BY <1>4, <1>5
<1>7. wire' \in Seq(Nat) /\ Len(wire') = m
  BY <1>4, <1>5, <1>6
<1>8. ASSUME NEW i \in Nat \ {0}, NEW tag, NEW v \in Seq(Nat), Here(wire, i, tag, v)
      PROVE  Here(wire', i, tag, v)
  BY <1>4, <1>5, <1>6, <1>8, HerePart, Zenon
<1>9. Here(wire', 1, 6, <<M2>>)
  <2>1. 1 \in Nat \ {0} /\ <<M2>> \in Seq(Nat)
    BY Bytes DEF M2
  <2> QED
    BY <1>5, <1>8, <2>1, Zenon
<1>10. ASSUME NEW k \in 1..written
       PROVE  /\ PairingHere(wire', st[k], sent[k])
              /\ (k > 1 => Here(wire', st[k] - 2, 255, <<>>))
  <2>1. /\ sent[k] \in Pairing /\ st[k] \in Nat /\ st[k] >= 4
        /\ PairingHere(wire, st[k], sent[k])
        /\ (k > 1 => Here(wire, st[k] - 2, 255, <<>>))
    BY <1>2, <1>3, LaidAt, Zenon
  <2>2. st[k] \in Nat \ {0} /\ st[k] - 2 \in Nat \ {0}
    BY <2>1
  <2>3. PairingHere(wire', st[k], sent[k])
    BY <1>4, <1>5, <1>6, <2>1, <2>2, PairingPart, Zenon
  <2>4. ASSUME k > 1 PROVE Here(wire', st[k] - 2, 255, <<>>)
    BY <1>8, <2>1, <2>2, <2>4, None, Zenon
  <2> QED
    BY <2>3, <2>4, Zenon
<1>11. written = 0 => e = 3 \/ (e = 6 /\ Here(wire', 4, 7, << 2 >>))
  <2>1. ASSUME written = 0 PROVE e = 3 \/ (e = 6 /\ Here(wire, 4, 7, << 2 >>))
    BY <1>3, <2>1, Zenon DEF Laid
  <2>2. 4 \in Nat \ {0} /\ << 2 >> \in Seq(Nat)
    BY Bytes
  <2> QED
    BY <1>8, <2>1, <2>2, Zenon
<1>12. Laid(st, e)'
  <2>1. \A k \in 1..(written + 1) : st[k] >= 4
    BY <1>3, Zenon DEF Laid
  <2>2. \A k \in 1..written : st[k + 1] = st[k] + Size(sent[k]) + 2 /\ st[k + 1] <= e + 3
    BY <1>3, Zenon DEF Laid
  <2>3. written > 0 => e = st[written + 1] - 3
    BY <1>3, Zenon DEF Laid
  <2> QED
    BY <1>1, <1>5, <1>6, <1>7, <1>9, <1>10, <1>11, <2>1, <2>2, <2>3, Zenon DEF Laid
<1>13. cut' \in BOOLEAN /\ written' \in 0..Len(sent)
  BY <1>1, <1>2, Zenon DEF ListTypeOK
<1> QED
  BY <1>1, <1>2, <1>7, <1>12, <1>13, WireInv, Zenon

\* What the accessory writes before the pairing written + 1.
LEMMA BeforePairing ==
  ASSUME ListTypeOK, ~cut, NEW st, NEW e, Laid(st, e)
  PROVE  \E b : /\ b = wire \o (IF written = 0 THEN <<>> ELSE Item(255, <<>>))
                /\ Longer(wire, b) /\ Len(b) + 1 = st[written + 1]
                /\ (written # 0 => Here(b, st[written + 1] - 2, 255, <<>>))
<1>1. /\ wire \in Seq(Nat) /\ Len(wire) = e /\ e \in Nat /\ written \in Nat /\ e >= 3
      /\ st[1] = 4
      /\ (written > 0 => st[written + 1] \in Nat /\ e = st[written + 1] - 3)
  BY LaidLen, Zenon
<1>2. CASE written = 0
  <2>1. wire \o <<>> = wire
    BY <1>1
  <2>2. Longer(wire, wire)
    BY <1>1 DEF Longer
  <2>3. e = 3
    BY <1>2, Zenon DEF Laid
  <2>4. written + 1 = 1 /\ e + 1 = 4
    BY <1>2, <2>3
  <2> QED
    BY <1>1, <1>2, <2>1, <2>2, <2>4, Zenon
<1>3. CASE written # 0
  <2>1. PICK t \in Nat : t = st[written + 1] /\ e = t - 3
    <3>1. written > 0
      BY <1>1, <1>3
    <3> QED
      BY <1>1, <3>1, Zenon
  <2>2. PICK b : b = Join(wire, Item(255, <<>>))
    OBVIOUS
  <2>3. Grown(wire, b, 255, <<>>)
    <3>1. 255 \in Nat
      OBVIOUS
    <3> QED
      BY <1>1, <2>2, <3>1, None, ItemGrows, ZenonT(30)
  <2>4. Longer(wire, b) /\ Len(b) = e + 2 + 0 /\ Here(b, e + 1, 255, <<>>)
    BY <1>1, <2>3, None, Zenon DEF Grown
  <2>5. (e + 2 + 0) + 1 = t /\ e + 1 = t - 2
    BY <1>1, <2>1
  <2> QED
    BY <1>3, <2>1, <2>2, <2>4, <2>5, Zenon DEF Join
<1> QED
  BY <1>2, <1>3, Zenon

\* The bytes after it.
LEMMA AfterPairing ==
  ASSUME ListTypeOK, WritePairing, NEW st, NEW e, Laid(st, e)
  PROVE  /\ wire' \in Seq(Nat) /\ Longer(wire, wire')
         /\ sent[written + 1] \in Pairing /\ st[written + 1] \in Nat /\ st[written + 1] >= 4
         /\ Len(wire') + 1 = st[written + 1] + Size(sent[written + 1])
         /\ PairingHere(wire', st[written + 1], sent[written + 1])
         /\ (written # 0 => Here(wire', st[written + 1] - 2, 255, <<>>))
<1>1. ~cut /\ written < Len(sent)
  BY Zenon DEF WritePairing
<1>2. PICK b : /\ b = wire \o (IF written = 0 THEN <<>> ELSE Item(255, <<>>))
               /\ Longer(wire, b) /\ Len(b) + 1 = st[written + 1]
               /\ (written # 0 => Here(b, st[written + 1] - 2, 255, <<>>))
  BY <1>1, BeforePairing, Zenon
<1>3. b \in Seq(Nat)
  BY <1>2, Zenon DEF Longer
<1>4. PICK p \in Pairing : p = sent[written + 1]
  <2>1. sent \in Seq(Pairing) /\ written + 1 \in 1..Len(sent)
    BY <1>1 DEF ListTypeOK
  <2>2. sent[written + 1] \in Pairing
    BY <2>1
  <2> QED
    BY <2>2, Zenon
<1>5. PICK t \in Nat : t = st[written + 1] /\ t >= 4
  <2>1. written + 1 \in 1..(written + 1)
    BY DEF ListTypeOK
  <2>2. st \in [1..(written + 1) -> Nat] /\ st[written + 1] >= 4
    BY <2>1, Zenon DEF Laid
  <2>3. st[written + 1] \in Nat
    BY <2>1, <2>2, Zenon
  <2> QED
    BY <2>2, <2>3, Zenon
<1>6. wire' = Join(b, PairingItems(p))
  BY <1>2, <1>4, Zenon DEF WritePairing, Join
<1>7. /\ Longer(b, wire') /\ Len(wire') = Len(b) + Size(p)
      /\ PairingHere(wire', Len(b) + 1, p)
  BY <1>3, <1>6, PairingGrows, Zenon
<1>8. Longer(wire, wire') /\ wire' \in Seq(Nat)
  <2>1. Longer(wire, wire')
    BY <1>2, <1>7, LongerStill, Zenon
  <2> QED
    BY <2>1, Zenon DEF Longer
<1>9. Len(wire') + 1 = t + Size(p)
  <2>1. PICK l \in Nat, z \in Nat : l = Len(b) /\ z = Size(p)
    <3>1. Len(b) \in Nat
      BY <1>3
    <3> QED
      BY <3>1, Values, Zenon
  <2>2. l + 1 = t /\ Len(wire') = l + z
    BY <1>2, <1>5, <1>7, <2>1, Zenon
  <2>3. Len(wire') + 1 = t + z
    BY <2>2
  <2> QED
    BY <2>1, <2>3, Zenon
<1>10. PairingHere(wire', t, p)
  BY <1>2, <1>5, <1>7, Zenon
<1>11. ASSUME written # 0 PROVE Here(wire', t - 2, 255, <<>>)
  <2>1. Here(b, t - 2, 255, <<>>)
    BY <1>2, <1>5, <1>11, Zenon
  <2>2. t - 2 \in Nat \ {0} /\ (t - 2) + 1 + 0 <= Len(b)
    <3>1. Len(b) + 1 = t /\ Len(b) \in Nat
      BY <1>2, <1>3, <1>5
    <3> QED
      BY <1>5, <3>1
  <2>3. (t - 2) + 1 + Len(<<>>) <= Len(b)
    BY <2>2, None, Zenon
  <2> QED
    BY <1>7, <2>1, <2>2, <2>3, None, HereLonger, Zenon
<1> QED
  BY <1>4, <1>5, <1>8, <1>9, <1>10, <1>11, Zenon

\* One more pairing has its place in the answer.
LEMMA WritePairingInv ==
  ASSUME ListInv, WritePairing
  PROVE  ListInv'
<1>1. /\ place = "wire" /\ place' = "wire" /\ ~cut /\ cut' = cut /\ written' = written + 1
      /\ written < Len(sent) /\ UNCHANGED <<form, sent, at, pp, result>>
  BY Zenon DEF WritePairing
<1>2. ListTypeOK
  BY Zenon DEF ListInv
<1>3. PICK st, e : Laid(st, e)
  BY <1>1, Zenon DEF ListInv
<1>0. PICK w : w = wire'
  OBVIOUS
<1>4. PICK n \in Nat : n = written /\ w = wire' /\ written' = n + 1
  BY <1>0, <1>1, <1>2, <1>3, LaidLen, Zenon
<1>5. /\ wire \in Seq(Nat) /\ e \in Nat /\ Len(wire) = e /\ e >= 3
      /\ st \in [1..(n + 1) -> Nat] /\ st[1] = 4 /\ Here(wire, 1, 6, <<M2>>)
  BY <1>1, <1>2, <1>3, <1>4, LaidLen, Zenon
<1>6. PICK p \in Pairing, t \in Nat, z \in Nat, f \in Nat :
        /\ p = sent[n + 1] /\ t = st[n + 1] /\ t >= 4 /\ z = Size(p)
        /\ f = Len(w) /\ f + 1 = t + z /\ w \in Seq(Nat) /\ Longer(wire, w)
        /\ PairingHere(w, t, p) /\ (n # 0 => Here(w, t - 2, 255, <<>>))
  <2>1. /\ w \in Seq(Nat) /\ Longer(wire, w)
        /\ sent[n + 1] \in Pairing /\ st[n + 1] \in Nat /\ st[n + 1] >= 4
        /\ Len(w) + 1 = st[n + 1] + Size(sent[n + 1])
        /\ PairingHere(w, st[n + 1], sent[n + 1])
        /\ (n # 0 => Here(w, st[n + 1] - 2, 255, <<>>))
    BY <1>2, <1>3, <1>4, AfterPairing, Zenon
  <2>2. Len(w) \in Nat
    BY <2>1
  <2>3. Size(sent[n + 1]) \in Nat
    BY <2>1, Values, Zenon
  <2> QED
    BY <2>1, <2>2, <2>3, Zenon
<1>7. PICK u : u = [i \in 1..(n + 2) |-> IF i = n + 2 THEN t + z + 2 ELSE st[i]]
  OBVIOUS
<1>8. /\ u \in [1..((n + 1) + 1) -> Nat] /\ u[n + 2] = t + z + 2
      /\ \A i \in 1..(n + 1) : u[i] = st[i]
  <2>1. t + z + 2 \in Nat
    OBVIOUS
  <2>2. (n + 1) + 1 = n + 2 /\ n + 2 \in 1..(n + 2)
    OBVIOUS
  <2>3. \A i \in 1..(n + 2) : i # n + 2 => i \in 1..(n + 1)
    OBVIOUS
  <2>4. \A i \in 1..(n + 1) : i # n + 2 /\ i \in 1..(n + 2)
    OBVIOUS
  <2>5. \A i \in 1..(n + 1) : st[i] \in Nat
    BY <1>5
  <2>6. \A i \in 1..(n + 2) : (IF i = n + 2 THEN t + z + 2 ELSE st[i]) \in Nat
    BY <2>1, <2>3, <2>5, Zenon
  <2>7. u \in [1..(n + 2) -> Nat]
    BY <1>7, <2>6, Zenon
  <2> QED
    BY <1>7, <2>2, <2>4, <2>7, Zenon
<1>9. u[1] = 4
  <2>1. 1 \in 1..(n + 1)
    OBVIOUS
  <2> QED
    BY <1>5, <1>8, <2>1, Zenon
<1>10. \A k \in 1..((n + 1) + 1) : u[k] >= 4
  <2>1. \A k \in 1..(n + 1) : u[k] >= 4
    <3>1. \A k \in 1..(n + 1) : st[k] >= 4
      BY <1>3, <1>4, Zenon DEF Laid
    <3> QED
      BY <1>8, <3>1, Zenon
  <2>2. t + z + 2 >= 4
    <3>1. t >= 4
      BY <1>6, Zenon
    <3> QED
      BY <3>1
  <2>3. u[n + 2] >= 4
    BY <1>8, <2>2, Zenon
  <2>4. \A k \in 1..((n + 1) + 1) : k \in 1..(n + 1) \/ k = n + 2
    OBVIOUS
  <2> QED
    BY <2>1, <2>3, <2>4, Zenon
<1>11. Here(w, 1, 6, <<M2>>)
  <2>1. <<M2>> \in Seq(Nat) /\ Len(<<M2>>) = 1
    BY Bytes DEF M2
  <2>2. 1 \in Nat \ {0} /\ 1 + 1 + 1 <= e
    BY <1>5
  <2>3. 1 + 1 + Len(<<M2>>) <= Len(wire)
    BY <1>5, <2>1, <2>2, Zenon
  <2> QED
    BY <1>5, <1>6, <2>1, <2>2, <2>3, HereLonger, Zenon
<1>12. e <= f
  BY <1>5, <1>6, Zenon DEF Longer
<1>13. ASSUME NEW k \in 1..n
       PROVE  /\ u[k + 1] = u[k] + Size(sent[k]) + 2 /\ u[k + 1] <= f + 3
              /\ PairingHere(w, u[k], sent[k])
              /\ (k > 1 => Here(w, u[k] - 2, 255, <<>>))
  <2>1. PICK s \in Nat, q \in Pairing, y \in Nat :
          /\ s = st[k] /\ q = sent[k] /\ y = Size(q) /\ s >= 4 /\ s + y <= e + 1
          /\ st[k + 1] = s + y + 2
          /\ PairingHere(wire, s, q) /\ (k > 1 => Here(wire, s - 2, 255, <<>>))
    BY <1>2, <1>3, <1>4, LaidAt, Zenon
  <2>2. u[k] = s /\ u[k + 1] = s + y + 2
    <3>1. k \in 1..(n + 1) /\ k + 1 \in 1..(n + 1)
      OBVIOUS
    <3> QED
      BY <1>8, <2>1, <3>1, Zenon
  <2>3. /\ s + y + 2 <= f + 3 /\ s \in Nat \ {0} /\ s - 2 \in Nat \ {0}
        /\ (s - 2) + 1 + 0 <= e
    <3>1. s >= 4 /\ s + y <= e + 1 /\ e <= f /\ e \in Nat
      BY <1>5, <1>12, <2>1, Zenon
    <3> QED
      BY <3>1
  <2>4. PairingHere(w, s, q)
    <3>1. s + Size(q) <= Len(wire) + 1
      BY <1>5, <2>1, Zenon
    <3>2. PairingHere(wire, s, q) /\ Longer(wire, w) /\ s \in Nat \ {0}
      BY <1>6, <2>1, <2>3, Zenon
    <3> QED
      BY <3>1, <3>2, PairingLonger, Zenon
  <2>5. ASSUME k > 1 PROVE Here(w, s - 2, 255, <<>>)
    <3>1. Here(wire, s - 2, 255, <<>>) /\ Longer(wire, w)
      BY <1>6, <2>1, <2>5, Zenon
    <3>2. (s - 2) + 1 + Len(<<>>) <= Len(wire)
      BY <1>5, <2>3, None, Zenon
    <3> QED
      BY <2>3, <3>1, <3>2, None, HereLonger, Zenon
  <2> QED
    BY <2>1, <2>2, <2>3, <2>4, <2>5, Zenon
<1>14. /\ u[(n + 1) + 1] = u[n + 1] + Size(sent[n + 1]) + 2 /\ u[(n + 1) + 1] <= f + 3
       /\ PairingHere(w, u[n + 1], sent[n + 1])
       /\ (n + 1 > 1 => Here(w, u[n + 1] - 2, 255, <<>>))
       /\ f = u[(n + 1) + 1] - 3
  <2>1. (n + 1) + 1 = n + 2 /\ n + 1 \in 1..(n + 1) /\ (n + 1 > 1 => n # 0)
    OBVIOUS
  <2>2. u[n + 1] = t
    BY <1>6, <1>8, <2>1, Zenon
  <2>3. t + z + 2 <= f + 3 /\ f = (t + z + 2) - 3
    <3>1. f + 1 = t + z
      BY <1>6, Zenon
    <3> QED
      BY <3>1
  <2> QED
    BY <1>6, <1>8, <2>1, <2>2, <2>3, Zenon
<1>15. \A k \in 1..(n + 1) :
         /\ u[k + 1] = u[k] + Size(sent[k]) + 2 /\ u[k + 1] <= f + 3
         /\ PairingHere(w, u[k], sent[k])
         /\ (k > 1 => Here(w, u[k] - 2, 255, <<>>))
  <2>1. \A k \in 1..(n + 1) : k \in 1..n \/ k = n + 1
    OBVIOUS
  <2> QED
    BY <1>13, <1>14, <2>1, Zenon
<1>16. Laid(u, f)'
  <2>1. n + 1 # 0 /\ f <= f
    OBVIOUS
  <2> QED
    BY <1>1, <1>4, <1>6, <1>8, <1>9, <1>10, <1>11, <1>14, <1>15, <2>1, ZenonT(30) DEF Laid
<1>17. wire' \in Seq(Nat) /\ cut' \in BOOLEAN /\ written' \in 0..Len(sent)
  <2>1. written + 1 \in 0..Len(sent)
    BY <1>1, <1>2 DEF ListTypeOK
  <2> QED
    BY <1>1, <1>2, <1>4, <1>6, <2>1, Zenon DEF ListTypeOK
<1> QED
  BY <1>1, <1>2, <1>16, <1>17, WireInv, Zenon

\* The first item: an answer that has it is read, one that arrives in full has it.
LEMMA FirstItem ==
  ASSUME ListTypeOK, NEW st, NEW e, Laid(st, e)
  PROVE  /\ (FirstError = "none" => ItemEnd(wire, 1) + 1 = 4)
         /\ (~cut => FirstError = "none")
<1>1. PICK n \in Nat : n = Len(wire) /\ wire \in Seq(Nat) /\ (~cut => n >= 3)
  BY LaidLen, Zenon
<1>2. /\ Here(wire, 1, 6, <<M2>>) /\ <<M2>> \in Seq(Nat) /\ Len(<<M2>>) = 1
      /\ 1 \in Nat \ {0}
  <2>1. <<M2>> \in Seq(Nat) /\ Len(<<M2>>) = 1 /\ 1 \in Nat \ {0}
    BY Bytes DEF M2
  <2> QED
    BY <2>1, LaidLen, Zenon
<1>3. ASSUME FirstError = "none" PROVE ItemEnd(wire, 1) + 1 = 4
  <2>1. wire # <<>> /\ Missing(wire, 1) = "none"
    <3>1. "EOF" # "none"
      OBVIOUS
    <3> QED
      BY <1>3, <3>1 DEF FirstError
  <2>2. n # 1
    <3>1. ASSUME n = 1 PROVE FALSE
      <4>1. Missing(wire, 1) = "EOF"
        BY <1>1, <3>1 DEF Missing
      <4> QED
        BY <2>1, <4>1
    <3> QED
      BY <3>1
  <2>3. 1 < n
    <3>1. n # 0
      BY <1>1, <2>1
    <3> QED
      BY <2>2, <3>1
  <2>4. ItemEnd(wire, 1) = 1 + 1 + Len(<<M2>>)
    <3>1. 1 < Len(wire) /\ wire \in Seq(Nat)
      BY <1>1, <2>3, Zenon
    <3> QED
      BY <1>2, <2>1, <3>1, ItemRead, Zenon
  <2>5. (1 + 1 + 1) + 1 = 4
    OBVIOUS
  <2> QED
    BY <1>2, <2>4, <2>5, Zenon
<1>4. ASSUME ~cut PROVE FirstError = "none"
  <2>1. 1 + 1 + Len(<<M2>>) <= Len(wire) /\ wire \in Seq(Nat)
    <3>1. 1 + 1 + 1 <= n
      BY <1>1, <1>4
    <3> QED
      BY <1>1, <1>2, <3>1, Zenon
  <2>2. wire[1] = 6 /\ Missing(wire, 1) = "none" /\ wire # <<>>
    <3>1. 1 < Len(wire) /\ wire[1] = 6 /\ Missing(wire, 1) = "none"
      <4>1. PICK v \in Seq(Nat) : Here(wire, 1, 6, v) /\ 1 + 1 + Len(v) <= Len(wire)
        BY <1>2, <2>1, Zenon
      <4>2. 1 \in Nat \ {0} /\ wire \in Seq(Nat)
        BY <1>2, <2>1, Zenon
      <4> QED
        BY <4>1, <4>2, ItemThere, ZenonT(30)
    <3>2. wire # <<>>
      BY <1>1, <1>4
    <3> QED
      BY <3>1, <3>2
  <2> QED
    BY <2>2 DEF FirstError
<1> QED
  BY <1>3, <1>4, Zenon

\* After the first item the loop is at the first pairing, or there is none.
LEMMA ReceiveListInv ==
  ASSUME ListInv, ReceiveList
  PROVE  ListInv'
<1>1. /\ place = "wire" /\ pp' = Blank /\ result' = <<>>
      /\ UNCHANGED <<form, sent, wire, cut, written>>
  BY Zenon DEF ReceiveList
<1>2. ListTypeOK
  BY Zenon DEF ListInv
<1>3. PICK st, e : Laid(st, e)
  BY <1>1, Zenon DEF ListInv
<1>4. CASE FirstError # "none" /\ Return(<<>>, FirstError) /\ UNCHANGED at
  <2>1. /\ place' = "done" /\ got' = [list |-> <<>>, err |-> FirstError] /\ at' = at
    BY <1>4, Zenon DEF Return
  <2>2. got'.err # "none"
    BY <1>4, <2>1
  <2>3. cut'
    BY <1>1, <1>2, <1>3, <1>4, FirstItem, Zenon
  <2>4. Listed'
    BY <2>2, <2>3, Zenon DEF Listed, ListedInFull, ListedIsPart
  <2>5. ListTypeOK'
    <3>1. place' \in {"new", "wire", "reading", "done"}
      BY <2>1
    <3> QED
      BY <1>1, <1>2, <2>1, <3>1, Initial, Zenon DEF ListTypeOK
  <2>6. place' # "new" /\ place' \notin {"wire", "reading"}
    BY <2>1
  <2> QED
    BY <2>4, <2>5, <2>6, Zenon DEF ListInv
<1>5. CASE FirstError = "none" /\ place' = "reading" /\ at' = ItemEnd(wire, 1) + 1
  <2>1. at' = 4
    BY <1>2, <1>3, <1>5, FirstItem, Zenon
  <2>2. Spot(st)'
    <3>1. CASE written = 0
      <4>1. at' \in {4, 7}
        BY <2>1
      <4> QED
        BY <1>1, <3>1, <4>1, Zenon DEF Spot
    <3>2. CASE written # 0
      <4>1. 1 \in 1..written /\ 0 \in 0..3 /\ 1..(1 - 1) = {} /\ Len(<<>>) = 1 - 1
        BY <1>2, <3>2 DEF ListTypeOK
      <4>2. sent[1] \in Pairing /\ st[1] = 4
        BY <1>2, <1>3, <4>1, LaidAt, LaidLen, Zenon
      <4>3. Offset(sent[1], 0) = 0 /\ Part(sent[1], 0) = Blank
        BY <4>2, Items, Parts, Zenon
      <4>4. 4 + 0 = 4
        OBVIOUS
      <4>5. /\ at' = st[1] + Offset(sent'[1], 0) /\ pp' = Part(sent'[1], 0)
            /\ Len(result') = 1 - 1 /\ \A i \in 1..(1 - 1) : result'[i] = sent'[i]
            /\ 1 \in 1..written'
        BY <1>1, <2>1, <4>1, <4>2, <4>3, <4>4, Zenon
      <4> QED
        BY <4>1, <4>5, Zenon DEF Spot
    <3> QED
      BY <3>1, <3>2, Zenon
  <2>3. Laid(st, e)'
    BY <1>1, <1>3, SameLaid, Zenon
  <2>4. ListTypeOK'
    <3>1. place' \in {"new", "wire", "reading", "done"} /\ at' \in Nat
      BY <1>5, <2>1
    <3> QED
      BY <1>1, <1>2, <3>1, Initial, Zenon DEF ListTypeOK
  <2>5. place' # "new" /\ place' # "done"
    BY <1>5
  <2>6. Listed'
    BY <2>5, NotListed, Zenon
  <2> QED
    BY <2>2, <2>3, <2>4, <2>5, <2>6, Zenon DEF ListInv
<1> QED
  BY <1>4, <1>5, Zenon DEF ReceiveList

\* Nothing changes.
LEMMA ListStutterInv ==
  ASSUME ListInv, UNCHANGED listVars
  PROVE  ListInv'
<1>1. UNCHANGED <<form, sent, place, wire, cut, written, at, pp, result, got>>
  BY Zenon DEF listVars, loopVars
<1>2. ListTypeOK'
  BY <1>1, Zenon DEF ListInv, ListTypeOK
<1>3. Listed'
  BY <1>1, Zenon DEF ListInv, Listed, ListedInFull, ListedIsPart
<1>4. place' = "new" => written' = 0 /\ ~cut'
  BY <1>1, Zenon DEF ListInv
<1>5. ASSUME place' \in {"wire", "reading"}
      PROVE  \E st, e : Laid(st, e)' /\ (place' = "reading" => Spot(st)')
  <2>1. PICK st, e : Laid(st, e) /\ (place = "reading" => Spot(st))
    BY <1>1, <1>5, Zenon DEF ListInv
  <2>2. Laid(st, e)'
    BY <1>1, <2>1, SameLaid, Zenon
  <2>3. Spot(st) => Spot(st)'
    BY <1>1, Zenon DEF Spot
  <2> QED
    BY <1>1, <2>1, <2>2, <2>3, Zenon
<1> QED
  BY <1>2, <1>3, <1>4, <1>5, Zenon DEF ListInv

\* Every step keeps the invariant.
LEMMA ListNextInv ==
  ASSUME ListInv, [ListNext]_listVars
  PROVE  ListInv'
<1>1. ASSUME ListNext PROVE ListInv'
  BY <1>1, SendListInv, RefuseInv, WritePairingInv, CutOffInv, ReceiveListInv,
     SeparatorInv, ReadItemInv, EndOfListInv, TornItemInv, Zenon DEF ListNext
<1> QED
  BY <1>1, ListStutterInv, Zenon

\* The bytes are laid out as Laid says and the loop is where Spot says, in every
\* reachable state (controller-pair-list.go:69).
THEOREM ListInvariance == ListSpec => []ListInv
BY ListInitInv, ListNextInv, PTL DEF ListSpec

\* ListPairings returns the accessory's pairings, each with its own key, if the
\* whole list arrives, and of a list that is cut off no pairing with the key of
\* another, whatever the pairings are and wherever the answer ends
\* (controller-pair-list.go:90).
THEOREM ListedAlways == ListSpec => []Listed
<1>1. ListInv => Listed
  BY Zenon DEF ListInv
<1> QED
  BY ListInvariance, <1>1, PTL
=============================================================================
