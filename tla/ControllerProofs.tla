-------------------------- MODULE ControllerProofs --------------------------
(***************************************************************************)
(* The registry, the store and the accessory, for any number of objects,   *)
(* reports, operations and restarts.                                       *)
(*                                                                         *)
(* The registry forgets devices that are neither paired nor discovered.    *)
(* Two goroutines may delete a device.  The one for "lost" looks at paired *)
(* after mDNS has cleared discovered, the one for "unpaired" looks at      *)
(* discovered after it has cleared paired.  CleanInv says who is still to  *)
(* delete a listed device that is neither: it holds between all of these   *)
(* steps, where RegistryClean speaks only of quiet states.                 *)
(*                                                                         *)
(* Registry, store and accessory agree once nobody is at work (StoreInv,   *)
(* further down, says what is still to do while somebody is).              *)
(***************************************************************************)
EXTENDS Controller, TLAPS

\* An object that has lost its listeners, or is about to, is not listed.
OnInv == \A d \in Devs : Registered(d) => on[d] /\ remover[d] # "off"

\* The goroutine that will delete d, or mark it discovered.
MarkPending(d) == mdns \in {"merge", "mark"} /\ found = d
LossPending(d) == (mdns = "emit" /\ found = d) \/ remover[d] \in {"got", "lock"}
DropPending(d) == deleter[d] \in {"lock", "drop"}

CleanInv ==
  \A d \in Devs : Registered(d) =>
    paired[d] \/ discovered[d] \/ MarkPending(d) \/ LossPending(d) \/ DropPending(d)

\* The goroutines of an object start with it.
FreshInv ==
  \A d \in Devs : d > created => saver[d] = "idle" /\ deleter[d] = "idle" /\ remover[d] = "idle"

IndInv == TypeOK /\ FreshInv /\ OnInv /\ CleanInv

-----------------------------------------------------------------------------
\* The inductive invariant holds when the program is first started.
THEOREM InitInv == Init => IndInv
<1> SUFFICES ASSUME Init PROVE IndInv
  OBVIOUS
<1> USE BoundsAssumption DEF Init, All
<1>1. FlagsOK
  BY Zenon DEF FlagsOK
<1>2. DevicesOK
  BY DEF DevicesOK, Pairings, Devs
<1>3. PlacesOK
  BY DEF PlacesOK
<1>4. FreshInv /\ OnInv /\ CleanInv
  BY DEF FreshInv, OnInv, CleanInv, Registered, Devs
<1> QED
  BY <1>1, <1>2, <1>3, <1>4 DEF IndInv, TypeOK

\* The flags stay Boolean.
LEMMA FlagsStep ==
  ASSUME FlagsOK, [Next]_vars
  PROVE  FlagsOK'
<1> USE DEF FlagsOK, regVars, mdnsVars, diskVars, histVars
<1>1. CASE Discovery
  BY <1>1, ZenonT(30) DEF Discovery, FoundGet, FoundPut, Create, FoundMerge, FoundMark, LostGet,
     LostUnmark, LostEmit, LostClose, Heard
<1>2. CASE App
  <2> USE DEF Operation, Begin, End, Heard
  <2>1. ASSUME NEW d \in Devs, PairSetup(d) \/ PairVerify(d) \/ Unpair(d) PROVE FlagsOK'
    BY <2>1, Zenon DEF PairSetup, PairVerify, Unpair
  <2>2. CASE PairSetupM5 \/ PairSetupFails \/ PairSetupFlag \/ PairSetupEmit
    BY <2>2, Zenon DEF PairSetupM5, PairSetupFails, PairSetupFlag, PairSetupEmit
  <2>3. CASE UnpairEmit \/ PairRemove
    BY <2>3, Zenon DEF UnpairEmit, PairRemove
  <2>4. CASE PairRemoveFails
    BY <2>4, Zenon DEF PairRemoveFails
  <2>5. CASE LoadPairings \/ LoadDone
    BY <2>5, Zenon DEF LoadPairings, LoadDone
  <2>6. ASSUME NEW p \in Pairings, LoadOne(p) PROVE FlagsOK'
    BY <2>6, Zenon DEF LoadOne, Create
  <2> QED
    BY <1>2, <2>1, <2>2, <2>3, <2>4, <2>5, <2>6, Zenon DEF App
<1>3. ASSUME NEW d \in Devs, Handler(d) \/ SessionEnds(d) PROVE FlagsOK'
  <2>1. CASE SaveRead(d) \/ SaveSet(d)
    BY <2>1, Zenon DEF SaveRead, SaveSet
  <2>2. CASE DeletePairing(d) \/ Wipe(d) \/ Unflag(d)
    BY <2>2, Zenon DEF DeletePairing, Wipe, Unflag
  <2>3. CASE DeleterClose(d) \/ DeleterDrop(d)
    BY <2>3, Zenon DEF DeleterClose, DeleterDrop
  <2>4. CASE RemoverTest(d) \/ RemoverDelete(d)
    BY <2>4, Zenon DEF RemoverTest, RemoverDelete
  <2>5. CASE RemoverOff(d) \/ SessionEnds(d)
    BY <2>5, Zenon DEF RemoverOff, SessionEnds
  <2> QED
    BY <1>3, <2>1, <2>2, <2>3, <2>4, <2>5, Zenon DEF Handler
<1>4. CASE Reset \/ Restart
  BY <1>4, Zenon DEF Reset, Restart
<1>5. CASE UNCHANGED vars
  BY <1>5, Zenon DEF vars
<1> QED
  BY <1>1, <1>2, <1>3, <1>4, <1>5, Zenon DEF Next

\* Objects and the registry keep their types.
LEMMA DevicesStep ==
  ASSUME DevicesOK, [Next]_vars
  PROVE  DevicesOK'
<1> USE BoundsAssumption DEF DevicesOK, Pairings, Devs, devVars, regVars, goVars, Put
<1>1. CASE FoundGet \/ LostGet
  BY <1>1 DEF FoundGet, LostGet
<1>2. CASE FoundPut
  BY <1>2 DEF FoundPut, Create
<1>3. CASE FoundMerge
  BY <1>3 DEF FoundMerge
<1>4. CASE FoundMark
  BY <1>4 DEF FoundMark
<1>5. CASE LostUnmark
  BY <1>5 DEF LostUnmark
<1>6. CASE LostEmit
  BY <1>6 DEF LostEmit, Emitted
<1>7. CASE LostClose
  BY <1>7 DEF LostClose
<1>8. ASSUME NEW d \in Devs, PairSetup(d) \/ Unpair(d) PROVE DevicesOK'
  BY <1>8 DEF PairSetup, Unpair, Begin, Operation
<1>9. ASSUME NEW d \in Devs, PairVerify(d) PROVE DevicesOK'
  BY <1>9 DEF PairVerify
<1>10. CASE PairSetupM5 \/ PairSetupFails
  BY <1>10 DEF PairSetupM5, PairSetupFails, End
<1>11. CASE PairSetupFlag
  BY <1>11 DEF PairSetupFlag
<1>12. CASE PairSetupEmit
  BY <1>12 DEF PairSetupEmit, Emitted, End
<1>13. CASE UnpairEmit
  BY <1>13 DEF UnpairEmit, Emitted
<1>14. CASE PairRemove \/ PairRemoveFails
  BY <1>14 DEF PairRemove, PairRemoveFails, End
<1>15. CASE LoadPairings \/ LoadDone
  BY <1>15 DEF LoadPairings, LoadDone, Operation
<1>16. ASSUME NEW p \in Pairings, LoadOne(p) PROVE DevicesOK'
  BY <1>16 DEF LoadOne, Create
<1>17. ASSUME NEW d \in Devs, Handler(d) \/ SessionEnds(d) PROVE DevicesOK'
  <2>1. CASE SaveRead(d)
    BY <1>17, <2>1 DEF SaveRead
  <2>2. CASE SaveSet(d)
    BY <1>17, <2>2 DEF SaveSet, Saved
  <2>3. CASE DeletePairing(d)
    BY <1>17, <2>3 DEF DeletePairing, Deleted
  <2>4. CASE Wipe(d)
    BY <1>17, <2>4 DEF Wipe
  <2>5. CASE Unflag(d)
    BY <1>17, <2>5 DEF Unflag
  <2>6. CASE DeleterClose(d)
    BY <1>17, <2>6 DEF DeleterClose
  <2>7. CASE DeleterDrop(d)
    <3>1. CASE Gone(d)
      <4>1. devices' \in [Pairings -> 0..created']
        BY <1>17, <2>7, <3>1 DEF DeleterDrop
      <4>2. /\ on' \in [Devs -> BOOLEAN]
            /\ deleter' \in [Devs -> {"idle", "got", "wipe", "unflag", "lock", "drop"}]
        BY <1>17, <2>7, <3>1 DEF DeleterDrop
      <4> QED
        BY <1>17, <2>7, <4>1, <4>2 DEF DeleterDrop
    <3>2. CASE ~Gone(d)
      BY <1>17, <2>7, <3>2 DEF DeleterDrop
    <3> QED
      BY <3>1, <3>2
  <2>8. CASE RemoverTest(d)
    BY <1>17, <2>8 DEF RemoverTest
  <2>9. CASE RemoverDelete(d)
    BY <1>17, <2>9 DEF RemoverDelete
  <2>10. CASE RemoverOff(d)
    BY <1>17, <2>10 DEF RemoverOff
  <2>11. CASE SessionEnds(d)
    BY <1>17, <2>11 DEF SessionEnds
  <2> QED
    BY <1>17, <2>1, <2>2, <2>3, <2>4, <2>5, <2>6, <2>7, <2>8, <2>9, <2>10, <2>11 DEF Handler
<1>18. CASE Reset
  BY <1>18 DEF Reset
<1>19. CASE Restart
  BY <1>19 DEF Restart, All
<1>20. CASE UNCHANGED vars
  BY <1>20 DEF vars
<1> QED
  BY <1>1, <1>2, <1>3, <1>4, <1>5, <1>6, <1>7, <1>8, <1>9, <1>10, <1>11, <1>12, <1>13, <1>14,
     <1>15, <1>16, <1>17, <1>18, <1>19, <1>20
  DEF Next, Discovery, App

\* The places of mDNS and the application, the store and the bounds keep theirs.
LEMMA PlacesStep ==
  ASSUME DevicesOK, PlacesOK, [Next]_vars
  PROVE  PlacesOK'
<1> USE BoundsAssumption DEF PlacesOK, devVars, mdnsVars, appVars, diskVars, histVars
<1> created \in Nat /\ devices \in [Pairings -> 0..created] /\ "acc" \in Pairings
  BY DEF DevicesOK, Pairings
<1>1. CASE FoundGet \/ LostGet
  BY <1>1 DEF FoundGet, LostGet
<1>2. CASE FoundPut
  BY <1>2 DEF FoundPut, Create
<1>3. CASE FoundMerge
  BY <1>3 DEF FoundMerge
<1>4. CASE FoundMark
  BY <1>4 DEF FoundMark
<1>5. CASE LostUnmark
  BY <1>5 DEF LostUnmark
<1>6. CASE LostEmit
  BY <1>6 DEF LostEmit, Emitted
<1>7. CASE LostClose
  BY <1>7 DEF LostClose
<1>8. ASSUME NEW d \in Devs, PairSetup(d) \/ Unpair(d) PROVE PlacesOK'
  BY <1>8 DEF Devs, PairSetup, Unpair, Begin, Operation
<1>9. ASSUME NEW d \in Devs, PairVerify(d) PROVE PlacesOK'
  BY <1>9 DEF PairVerify
<1>10. CASE PairSetupM5 \/ PairSetupFails
  <2>1. CASE PairSetupM5
    BY <2>1 DEF PairSetupM5
  <2>2. CASE PairSetupFails
    BY <2>2 DEF PairSetupFails, End
  <2> QED
    BY <1>10, <2>1, <2>2
<1>11. CASE PairSetupFlag
  BY <1>11 DEF PairSetupFlag
<1>12. CASE PairSetupEmit
  BY <1>12 DEF PairSetupEmit, Emitted, End
<1>13. CASE UnpairEmit
  BY <1>13 DEF UnpairEmit, Emitted
<1>14. CASE PairRemove \/ PairRemoveFails
  BY <1>14 DEF PairRemove, PairRemoveFails, End
<1>15. CASE LoadPairings \/ LoadDone
  BY <1>15 DEF LoadPairings, LoadDone, Operation
<1>16. ASSUME NEW p \in Pairings, LoadOne(p) PROVE PlacesOK'
  BY <1>16 DEF LoadOne, Create
<1>17. ASSUME NEW d \in Devs, Handler(d) \/ SessionEnds(d) PROVE PlacesOK'
  <2>1. CASE SaveRead(d)
    BY <1>17, <2>1 DEF SaveRead
  <2>2. CASE SaveSet(d)
    BY <1>17, <2>2 DEF SaveSet, Saved
  <2>3. CASE DeletePairing(d)
    BY <1>17, <2>3 DEF DeletePairing, Deleted
  <2>4. CASE Wipe(d)
    BY <1>17, <2>4 DEF Wipe
  <2>5. CASE Unflag(d)
    BY <1>17, <2>5 DEF Unflag
  <2>6. CASE DeleterClose(d)
    BY <1>17, <2>6 DEF DeleterClose
  <2>7. CASE DeleterDrop(d)
    BY <1>17, <2>7 DEF DeleterDrop
  <2>8. CASE RemoverTest(d)
    BY <1>17, <2>8 DEF RemoverTest
  <2>9. CASE RemoverDelete(d)
    BY <1>17, <2>9 DEF RemoverDelete
  <2>10. CASE RemoverOff(d)
    BY <1>17, <2>10 DEF RemoverOff
  <2>11. CASE SessionEnds(d)
    BY <1>17, <2>11 DEF SessionEnds
  <2> QED
    BY <1>17, <2>1, <2>2, <2>3, <2>4, <2>5, <2>6, <2>7, <2>8, <2>9, <2>10, <2>11 DEF Handler
<1>18. CASE Reset
  BY <1>18 DEF Reset
<1>19. CASE Restart
  BY <1>19 DEF Restart, All
<1>20. CASE UNCHANGED vars
  BY <1>20 DEF vars
<1> QED
  BY <1>1, <1>2, <1>3, <1>4, <1>5, <1>6, <1>7, <1>8, <1>9, <1>10, <1>11, <1>12, <1>13, <1>14,
     <1>15, <1>16, <1>17, <1>18, <1>19, <1>20
  DEF Next, Discovery, App

\* No goroutine of an object runs before the object is there: what is emitted is
\* emitted on a device that mDNS or the application has got from the registry.
LEMMA FreshStep ==
  ASSUME DevicesOK, PlacesOK, FreshInv, [Next]_vars
  PROVE  FreshInv'
<1> USE BoundsAssumption DEF DevicesOK, PlacesOK, FreshInv, Devs, devVars, goVars, Put
<1>1. CASE Discovery
  <2>1. CASE FoundPut
    BY <2>1 DEF FoundPut, Create
  <2>2. CASE FoundGet \/ FoundMerge \/ FoundMark
    BY <2>2 DEF FoundGet, FoundMerge, FoundMark
  <2>3. CASE LostGet \/ LostUnmark \/ LostClose
    BY <2>3 DEF LostGet, LostUnmark, LostClose
  <2>4. CASE LostEmit
    BY <2>4 DEF LostEmit, Emitted
  <2> QED
    BY <1>1, <2>1, <2>2, <2>3, <2>4 DEF Discovery
<1>2. CASE PairSetupEmit \/ UnpairEmit
  BY <1>2, SMTT(30) DEF PairSetupEmit, UnpairEmit, Emitted
<1>3. CASE \/ \E d \in Devs : PairSetup(d) \/ PairVerify(d) \/ Unpair(d)
           \/ PairSetupM5 \/ PairSetupFails \/ PairSetupFlag \/ PairRemove \/ PairRemoveFails
  BY <1>3 DEF PairSetup, PairVerify, Unpair, Begin, Operation, PairSetupM5, PairSetupFails,
     PairSetupFlag, PairRemove, PairRemoveFails
<1>4. CASE LoadPairings \/ LoadDone \/ \E p \in Pairings : LoadOne(p)
  <2>1. CASE LoadPairings \/ LoadDone
    BY <2>1 DEF LoadPairings, LoadDone, Operation
  <2>2. ASSUME NEW p \in Pairings, LoadOne(p) PROVE FreshInv'
    BY <2>2 DEF LoadOne, Create
  <2> QED
    BY <1>4, <2>1, <2>2
<1>5. ASSUME NEW d \in Devs, Handler(d) \/ SessionEnds(d) PROVE FreshInv'
  <2>1. CASE SaveRead(d) \/ SaveSet(d)
    BY <1>5, <2>1, SMTT(30) DEF SaveRead, SaveSet
  <2>2. CASE DeletePairing(d) \/ Wipe(d) \/ Unflag(d)
    BY <1>5, <2>2, SMTT(30) DEF DeletePairing, Wipe, Unflag
  <2>3. CASE DeleterClose(d) \/ DeleterDrop(d)
    BY <1>5, <2>3 DEF DeleterClose, DeleterDrop
  <2>4. CASE RemoverTest(d) \/ RemoverDelete(d)
    BY <1>5, <2>4 DEF RemoverTest, RemoverDelete
  <2>5. CASE RemoverOff(d) \/ SessionEnds(d)
    BY <1>5, <2>5, SMTT(30) DEF RemoverOff, SessionEnds
  <2> QED
    BY <1>5, <2>1, <2>2, <2>3, <2>4, <2>5 DEF Handler
<1>6. CASE Reset
  BY <1>6 DEF Reset
<1>7. CASE Restart
  BY <1>7 DEF Restart, All
<1>8. CASE UNCHANGED vars
  BY <1>8 DEF vars
<1> QED
  BY <1>1, <1>2, <1>3, <1>4, <1>5, <1>6, <1>7, <1>8
  DEF Next, Discovery, App

\* Listeners go only after the object has left the registry, and it never returns.
LEMMA OnStep ==
  ASSUME DevicesOK, PlacesOK, FreshInv, OnInv, [Next]_vars
  PROVE  OnInv'
<1> USE BoundsAssumption DEF DevicesOK, PlacesOK, FreshInv, OnInv, Registered, Pairings, Devs,
    devVars, regVars, goVars, mdnsVars, Put
<1>1. CASE FoundGet \/ LostGet
  BY <1>1 DEF FoundGet, LostGet
<1>2. CASE FoundPut
  BY <1>2 DEF FoundPut, Create
<1>3. CASE FoundMerge
  BY <1>3 DEF FoundMerge
<1>4. CASE FoundMark
  BY <1>4 DEF FoundMark
<1>5. CASE LostUnmark
  BY <1>5 DEF LostUnmark
<1>6. CASE LostEmit
  BY <1>6 DEF LostEmit, Emitted
<1>7. CASE LostClose
  BY <1>7 DEF LostClose
<1>8. ASSUME NEW d \in Devs, PairSetup(d) \/ Unpair(d) PROVE OnInv'
  BY <1>8 DEF PairSetup, Unpair, Begin, Operation
<1>9. ASSUME NEW d \in Devs, PairVerify(d) PROVE OnInv'
  BY <1>9 DEF PairVerify
<1>10. CASE PairSetupM5 \/ PairSetupFails
  <2>1. CASE PairSetupM5
    BY <2>1 DEF PairSetupM5
  <2>2. CASE PairSetupFails
    BY <2>2 DEF PairSetupFails
  <2> QED
    BY <1>10, <2>1, <2>2
<1>11. CASE PairSetupFlag
  BY <1>11 DEF PairSetupFlag
<1>12. CASE PairSetupEmit
  BY <1>12 DEF PairSetupEmit, Emitted
<1>13. CASE UnpairEmit
  BY <1>13 DEF UnpairEmit, Emitted
<1>14. CASE PairRemove \/ PairRemoveFails
  BY <1>14 DEF PairRemove, PairRemoveFails
<1>15. CASE LoadPairings \/ LoadDone
  BY <1>15 DEF LoadPairings, LoadDone, Operation
<1>16. ASSUME NEW p \in Pairings, LoadOne(p) PROVE OnInv'
  BY <1>16 DEF LoadOne, Create
<1>17. ASSUME NEW d \in Devs, Handler(d) \/ SessionEnds(d) PROVE OnInv'
  <2>1. CASE SaveRead(d)
    BY <1>17, <2>1 DEF SaveRead
  <2>2. CASE SaveSet(d)
    BY <1>17, <2>2 DEF SaveSet
  <2>3. CASE DeletePairing(d)
    BY <1>17, <2>3 DEF DeletePairing
  <2>4. CASE Wipe(d)
    BY <1>17, <2>4 DEF Wipe
  <2>5. CASE Unflag(d)
    BY <1>17, <2>5 DEF Unflag
  <2>6. CASE DeleterClose(d)
    BY <1>17, <2>6 DEF DeleterClose
  <2>7. CASE DeleterDrop(d)
    <3>1. CASE Gone(d)
      <4>1. /\ devices' = [devices EXCEPT ![name[d]] = 0] /\ name' = name /\ created' = created
            /\ on' = [on EXCEPT ![d] = FALSE] /\ remover' = remover
        BY <1>17, <2>7, <3>1 DEF DeleterDrop
      <4>2. ASSUME NEW e \in Devs, Registered(e)' PROVE e # d /\ Registered(e)
        BY <1>17, <4>1, <4>2
      <4> QED
        BY <1>17, <4>1, <4>2
    <3>2. CASE ~Gone(d)
      BY <1>17, <2>7, <3>2 DEF DeleterDrop, Gone
    <3> QED
      BY <3>1, <3>2
  <2>8. CASE RemoverTest(d)
    BY <1>17, <2>8 DEF RemoverTest
  <2>9. CASE RemoverDelete(d)
    BY <1>17, <2>9 DEF RemoverDelete
  <2>10. CASE RemoverOff(d)
    BY <1>17, <2>10 DEF RemoverOff
  <2>11. CASE SessionEnds(d)
    BY <1>17, <2>11 DEF SessionEnds
  <2> QED
    BY <1>17, <2>1, <2>2, <2>3, <2>4, <2>5, <2>6, <2>7, <2>8, <2>9, <2>10, <2>11 DEF Handler
<1>18. CASE Reset
  BY <1>18 DEF Reset
<1>19. CASE Restart
  BY <1>19 DEF Restart, All
<1>20. CASE UNCHANGED vars
  BY <1>20 DEF vars
<1> QED
  BY <1>1, <1>2, <1>3, <1>4, <1>5, <1>6, <1>7, <1>8, <1>9, <1>10, <1>11, <1>12, <1>13, <1>14,
     <1>15, <1>16, <1>17, <1>18, <1>19, <1>20
  DEF Next, Discovery, App

\* Each of the two goroutines looks at what the other side clears first, so one
\* of them is still to delete a listed device that is neither paired nor discovered.
LEMMA CleanStep ==
  ASSUME DevicesOK, PlacesOK, FreshInv, OnInv, CleanInv, [Next]_vars
  PROVE  CleanInv'
<1> USE BoundsAssumption DEF DevicesOK, PlacesOK, FreshInv, OnInv, CleanInv, Registered,
    MarkPending, LossPending, DropPending, Pairings, Devs, devVars, regVars, goVars, mdnsVars,
    Put
<1>1. CASE FoundGet \/ LostGet
  BY <1>1 DEF FoundGet, LostGet
<1>2. CASE FoundPut
  BY <1>2 DEF FoundPut, Create
<1>3. CASE FoundMerge
  BY <1>3 DEF FoundMerge
<1>4. CASE FoundMark
  BY <1>4 DEF FoundMark
<1>5. CASE LostUnmark
  BY <1>5 DEF LostUnmark
<1>6. CASE LostEmit
  BY <1>6 DEF LostEmit, Emitted
<1>7. CASE LostClose
  BY <1>7 DEF LostClose
<1>8. ASSUME NEW d \in Devs, PairSetup(d) \/ Unpair(d) PROVE CleanInv'
  BY <1>8 DEF PairSetup, Unpair, Begin, Operation
<1>9. ASSUME NEW d \in Devs, PairVerify(d) PROVE CleanInv'
  BY <1>9 DEF PairVerify
<1>10. CASE PairSetupM5 \/ PairSetupFails
  <2>1. CASE PairSetupM5
    BY <2>1 DEF PairSetupM5
  <2>2. CASE PairSetupFails
    BY <2>2 DEF PairSetupFails
  <2> QED
    BY <1>10, <2>1, <2>2
<1>11. CASE PairSetupFlag
  BY <1>11 DEF PairSetupFlag
<1>12. CASE PairSetupEmit
  BY <1>12 DEF PairSetupEmit, Emitted
<1>13. CASE UnpairEmit
  BY <1>13 DEF UnpairEmit, Emitted
<1>14. CASE PairRemove \/ PairRemoveFails
  BY <1>14 DEF PairRemove, PairRemoveFails
<1>15. CASE LoadPairings \/ LoadDone
  BY <1>15 DEF LoadPairings, LoadDone, Operation
<1>16. ASSUME NEW p \in Pairings, LoadOne(p) PROVE CleanInv'
  BY <1>16 DEF LoadOne, Create
<1>17. ASSUME NEW d \in Devs, Handler(d) \/ SessionEnds(d) PROVE CleanInv'
  <2>1. CASE SaveRead(d)
    BY <1>17, <2>1 DEF SaveRead
  <2>2. CASE SaveSet(d)
    BY <1>17, <2>2 DEF SaveSet
  <2>3. CASE DeletePairing(d)
    BY <1>17, <2>3 DEF DeletePairing
  <2>4. CASE Wipe(d)
    BY <1>17, <2>4 DEF Wipe
  <2>5. CASE Unflag(d)
    BY <1>17, <2>5 DEF Unflag
  <2>6. CASE DeleterClose(d)
    BY <1>17, <2>6 DEF DeleterClose
  <2>7. CASE DeleterDrop(d)
    <3>1. CASE Gone(d)
      <4>1. /\ devices' = [devices EXCEPT ![name[d]] = 0] /\ name' = name /\ created' = created
            /\ on' = [on EXCEPT ![d] = FALSE] /\ deleter' = [deleter EXCEPT ![d] = "idle"]
            /\ UNCHANGED <<remover, paired, discovered, mdns, found>>
        BY <1>17, <2>7, <3>1 DEF DeleterDrop
      <4>2. ASSUME NEW e \in Devs, Registered(e)' PROVE e # d /\ Registered(e)
        BY <1>17, <4>1, <4>2
      <4> QED
        BY <1>17, <4>1, <4>2
    <3>2. CASE ~Gone(d)
      BY <1>17, <2>7, <3>2 DEF DeleterDrop, Gone
    <3> QED
      BY <3>1, <3>2
  <2>8. CASE RemoverTest(d)
    BY <1>17, <2>8 DEF RemoverTest
  <2>9. CASE RemoverDelete(d)
    BY <1>17, <2>9 DEF RemoverDelete
  <2>10. CASE RemoverOff(d)
    BY <1>17, <2>10 DEF RemoverOff
  <2>11. CASE SessionEnds(d)
    BY <1>17, <2>11 DEF SessionEnds
  <2> QED
    BY <1>17, <2>1, <2>2, <2>3, <2>4, <2>5, <2>6, <2>7, <2>8, <2>9, <2>10, <2>11 DEF Handler
<1>18. CASE Reset
  BY <1>18 DEF Reset
<1>19. CASE Restart
  BY <1>19 DEF Restart, All
<1>20. CASE UNCHANGED vars
  BY <1>20 DEF vars
<1> QED
  BY <1>1, <1>2, <1>3, <1>4, <1>5, <1>6, <1>7, <1>8, <1>9, <1>10, <1>11, <1>12, <1>13, <1>14,
     <1>15, <1>16, <1>17, <1>18, <1>19, <1>20
  DEF Next, Discovery, App

-----------------------------------------------------------------------------
\* The invariant is inductive, and holds throughout every behaviour.
THEOREM Invariance == Spec => []IndInv
<1>1. IndInv /\ [Next]_vars => IndInv'
  BY FlagsStep, DevicesStep, PlacesStep, FreshStep, OnStep, CleanStep DEF IndInv, TypeOK
<1> QED
  BY InitInv, <1>1, PTL DEF Spec

\* Every variable keeps its type, whatever the bounds.
THEOREM TypeCorrect == Spec => []TypeOK
<1>1. IndInv => TypeOK
  BY DEF IndInv
<1> QED
  BY Invariance, <1>1, PTL

\* Once nobody is at work, a device that is neither paired nor discovered is not
\* in the registry, however its loss and its unpairing were interleaved.
THEOREM RegistryCleanAlways == Spec => []RegistryClean
<1>1. IndInv => RegistryClean
  BY DEF IndInv, TypeOK, DevicesOK, CleanInv, RegistryClean, Quiet, MarkPending, LossPending,
     DropPending
<1> QED
  BY Invariance, <1>1, PTL

-----------------------------------------------------------------------------
(* The registry and the store.  As long as operations wait for the          *)
(* goroutines of those before (CalmOK), one object at a time is worked on,  *)
(* and only pairings with the accessory are saved.  HeldOK and PairedOK say *)
(* who is still to save a pairing that the accessory holds, or that of a    *)
(* listed device.                                                           *)

NameOK ==
  /\ "blank" \notin saved /\ loading \subseteq saved
  /\ \A d \in Devs : IF d <= created THEN name[d] = "acc" ELSE pairing[d] = "blank"

\* Between an operation and the next, one goroutine is at work for it.
TaskOK ==
  /\ app \notin {"idle", "remove"} => \A d \in Devs : ~Working(d)
  /\ app = "remove" =>
       \A d \in Devs : saver[d] = "idle" /\ (deleter[d] # "idle" => d = dev)
  /\ \A d, e \in Devs : Working(d) /\ Working(e) => d = e
  /\ \A d \in Devs : saver[d] = "idle" \/ deleter[d] = "idle"

PairingOK ==
  /\ app \in {"flag", "emit"} => pairing[dev] = "acc"
  /\ app = "emit" => paired[dev]
  /\ \A d \in Devs :
       /\ pairing[d] = "acc" => paired[d] \/ (app = "flag" /\ dev = d)
       /\ saver[d] # "idle" => pairing[d] = "acc" /\ saver[d] # "blank"
       /\ deleter[d] \in {"unflag", "lock", "drop"} => pairing[d] = "blank"
       /\ deleter[d] = "wipe" /\ "acc" \in saved => pairing[d] = "blank"

SavedOK ==
  "acc" \in saved \ notLoaded =>
    "acc" \in loading \/ \E d \in Devs : paired[d] /\ pairing[d] = "acc"

CalmOK == NameOK /\ TaskOK /\ PairingOK /\ SavedOK

HeldOK ==
  /\ held => \/ "acc" \in saved \/ app \in {"flag", "emit", "remove"}
             \/ \E d \in Devs : saver[d] # "idle"
  /\ (\E d \in Devs : deleter[d] # "idle") /\ app # "remove" => ~held

SavePending(d) == (app = "emit" /\ dev = d) \/ saver[d] # "idle"

PairedOK ==
  /\ \A d \in Devs : Registered(d) /\ paired[d] =>
       "acc" \in saved \/ SavePending(d) \/ deleter[d] \in {"wipe", "unflag"}
  /\ \A d, e \in Devs :
       /\ (app = "unpair" /\ dev = e) \/ deleter[e] = "got"
       /\ pairing[e] = "acc" /\ d # e
       => ~Registered(d)

StoreInv ==
  ~hurried =>
    /\ CalmOK
    /\ ~missed /\ ~failed => HeldOK
    /\ ~missed /\ ~replaced => PairedOK

-----------------------------------------------------------------------------
storeVars ==
  <<created, name, paired, pairing, saver, deleter, app, dev, loading, saved, held, notLoaded,
    hurried, failed, replaced>>

\* mDNS works on discovered and entry, connections on verified, and what takes a
\* device out of the registry adds none.
LEMMA OtherSteps ==
  ASSUME DevicesOK,
         \/ FoundGet \/ FoundMerge \/ FoundMark \/ LostGet \/ LostUnmark \/ LostEmit \/ LostClose
         \/ UNCHANGED vars
         \/ \E d \in Devs : \/ PairVerify(d) \/ SessionEnds(d)
                            \/ RemoverTest(d) \/ RemoverDelete(d) \/ RemoverOff(d)
  PROVE  /\ UNCHANGED storeVars /\ (missed => missed')
         /\ \A d \in Devs : Registered(d)' => Registered(d)
<1> USE DEF storeVars, vars, devVars, regVars, goVars, mdnsVars, appVars, diskVars, histVars
<1>1. CASE FoundGet \/ FoundMerge \/ FoundMark \/ LostGet \/ LostUnmark \/ LostClose
  <2>1. UNCHANGED storeVars /\ missed' = missed /\ devices' = devices
    BY <1>1, Zenon DEF FoundGet, FoundMerge, FoundMark, LostGet, LostUnmark, LostClose
  <2> QED
    BY <2>1, Zenon DEF Registered
<1>2. CASE LostEmit
  BY <1>2, Zenon DEF LostEmit, Heard, Registered
<1>3. CASE UNCHANGED vars
  BY <1>3, Zenon DEF Registered
<1>4. ASSUME NEW d \in Devs,
             PairVerify(d) \/ SessionEnds(d) \/ RemoverTest(d) \/ RemoverOff(d)
      PROVE  UNCHANGED <<storeVars, missed, devices>>
  BY <1>4, Zenon DEF PairVerify, SessionEnds, RemoverTest, RemoverOff
<1>5. ASSUME NEW d \in Devs, RemoverDelete(d)
      PROVE  UNCHANGED <<storeVars, missed>> /\ \A e \in Devs : Registered(e)' => Registered(e)
  <2>1. UNCHANGED <<storeVars, missed>>
    BY <1>5, Zenon DEF RemoverDelete
  <2>2. devices' = [devices EXCEPT ![name[d]] = 0]
    BY <1>5 DEF RemoverDelete, Put
  <2>3. ASSUME NEW e \in Devs, Registered(e)' PROVE Registered(e)
    BY <2>1, <2>2, <2>3 DEF DevicesOK, Registered, Devs
  <2> QED
    BY <2>1, <2>3
<1> QED
  BY <1>1, <1>2, <1>3, <1>4, <1>5, Zenon DEF Registered

\* They disturb nothing of what is said of the store.
LEMMA OtherStore ==
  ASSUME StoreInv, UNCHANGED storeVars, missed => missed',
         \A d \in Devs : Registered(d)' => Registered(d)
  PROVE  StoreInv'
<1>1. UNCHANGED <<hurried, failed, replaced>>
  BY Zenon DEF storeVars
<1>2. CalmOK => CalmOK'
  BY Zenon DEF storeVars, CalmOK, NameOK, TaskOK, PairingOK, SavedOK, Working
<1>3. HeldOK => HeldOK'
  BY Zenon DEF storeVars, HeldOK
<1>4. PairedOK => PairedOK'
  BY Zenon DEF storeVars, PairedOK, SavePending
<1> QED
  BY <1>1, <1>2, <1>3, <1>4, Zenon DEF StoreInv

\* An operation is one on an object.
LEMMA DevIsObject ==
  ASSUME TypeOK, app \notin {"idle", "load"}
  PROVE  dev \in Devs /\ dev <= created
  BY BoundsAssumption DEF TypeOK, DevicesOK, PlacesOK, Devs

\* M1 to M6 succeed.
LEMMA SetupStore ==
  ASSUME TypeOK, StoreInv, PairSetupM5
  PROVE  StoreInv'
<1>1. /\ UNCHANGED <<hurried, missed, failed, replaced, created, name, paired>>
      /\ UNCHANGED <<devices, saver, deleter, dev, loading, saved, notLoaded>>
      /\ app = "setup" /\ app' = "flag"
  <2>1. app = "setup" /\ app' = "flag"
    BY DEF PairSetupM5
  <2>2. /\ UNCHANGED <<hurried, missed, failed, replaced, created, name, paired>>
        /\ UNCHANGED <<devices, saver, deleter, dev, loading, saved, notLoaded>>
    BY Zenon DEF PairSetupM5, histVars, regVars, goVars
  <2> QED
    BY <2>1, <2>2, Zenon
<1>2. pairing' = [pairing EXCEPT ![dev] = "acc"] /\ dev \in Devs /\ dev <= created
  BY <1>1, DevIsObject DEF PairSetupM5, Put
<1> SUFFICES ASSUME ~hurried PROVE StoreInv'
  BY <1>1, Zenon DEF StoreInv
<1>3. CalmOK
  BY DEF StoreInv
<1>4. \A d \in Devs : saver[d] = "idle" /\ deleter[d] = "idle"
  BY <1>1, <1>3 DEF CalmOK, TaskOK, Working
<1>5. NameOK'
  BY <1>1, <1>2, <1>3 DEF CalmOK, NameOK
<1>6. TaskOK'
  BY <1>1, <1>4 DEF TaskOK, Working
<1>7. PairingOK'
  BY <1>1, <1>2, <1>3, <1>4 DEF CalmOK, PairingOK, TypeOK, DevicesOK
<1>8. SavedOK'
  BY <1>1, <1>2, <1>3 DEF CalmOK, SavedOK, TypeOK, DevicesOK
<1>9. HeldOK'
  BY <1>1, <1>4 DEF HeldOK
<1>10. PairedOK => PairedOK'
  BY <1>1, <1>4 DEF PairedOK, SavePending, Registered
<1> QED
  BY <1>1, <1>5, <1>6, <1>7, <1>8, <1>9, <1>10, Zenon DEF StoreInv, CalmOK

\* A device that mDNS reports is not paired; if one with its name was, that is noted.
LEMMA FoundStore ==
  ASSUME TypeOK, StoreInv, FoundPut
  PROVE  StoreInv'
<1>1. /\ UNCHANGED <<hurried, missed, failed, pairing, held>>
      /\ UNCHANGED <<saver, deleter, app, dev, loading, saved, notLoaded>>
  BY Zenon DEF FoundPut, Create, histVars, goVars, appVars, diskVars
<1> DEFINE n == created + 1
<1>2. /\ n \in Devs /\ created' = n /\ devices' = [devices EXCEPT !["acc"] = n]
      /\ name' = [name EXCEPT ![n] = "acc"] /\ paired' = [paired EXCEPT ![n] = FALSE]
      /\ created \in Nat /\ dev <= created
  BY BoundsAssumption DEF FoundPut, Create, Put, TypeOK, DevicesOK, PlacesOK, Devs
<1>3. ~replaced' => ~replaced /\ \A e \in Devs : paired[e] => name[e] # "acc"
  BY Zenon DEF FoundPut, Create, TypeOK, FlagsOK
<1> HIDE DEF n
<1> SUFFICES ASSUME ~hurried PROVE StoreInv'
  BY <1>1, Zenon DEF StoreInv
<1>4. CalmOK
  BY DEF StoreInv
<1>5. pairing[n] = "blank" /\ \A d \in Devs : d <= created' => d <= created \/ d = n
  BY <1>2, <1>4 DEF CalmOK, NameOK, Devs, n
<1>6. NameOK'
  BY <1>1, <1>2, <1>4, <1>5 DEF CalmOK, NameOK, TypeOK, DevicesOK, Devs, n
<1>7. TaskOK'
  BY <1>1, <1>4 DEF CalmOK, TaskOK, Working
<1>8. PairingOK'
  BY <1>1, <1>2, <1>4, <1>5 DEF CalmOK, PairingOK, TypeOK, DevicesOK, Devs, n
<1>9. SavedOK'
  BY <1>1, <1>2, <1>4, <1>5 DEF CalmOK, SavedOK, TypeOK, DevicesOK
<1>10. HeldOK => HeldOK'
  BY <1>1, Zenon DEF HeldOK
<1>11. ASSUME ~replaced', PairedOK PROVE PairedOK'
  <2>1. ASSUME NEW d \in Devs, Registered(d)' PROVE d = n
    BY <1>2, <1>4, <1>5, <2>1 DEF CalmOK, NameOK, Registered, TypeOK, DevicesOK, Pairings, Devs, n
  <2>2. ~paired'[n]
    BY <1>2 DEF TypeOK, DevicesOK
  <2>3. ASSUME NEW e \in Devs, (app = "unpair" /\ dev = e) \/ deleter[e] = "got",
               pairing[e] = "acc"
        PROVE  FALSE
    <3>1. paired[e]
      BY <1>4, <2>3 DEF CalmOK, PairingOK, TaskOK, Working
    <3>2. name[e] = "acc"
      BY <1>4, <2>3 DEF CalmOK, NameOK
    <3> QED
      BY <1>3, <1>11, <3>1, <3>2
  <2> QED
    BY <1>1, <2>1, <2>2, <2>3 DEF PairedOK, SavePending
<1> QED
  BY <1>1, <1>3, <1>6, <1>7, <1>8, <1>9, <1>10, <1>11, Zenon DEF StoreInv, CalmOK

\* A pairing that is loaded is saved.
LEMMA LoadStore ==
  ASSUME TypeOK, StoreInv, NEW p \in Pairings, LoadOne(p)
  PROVE  StoreInv'
<1>1. /\ UNCHANGED <<hurried, missed, failed, held>>
      /\ UNCHANGED <<saver, deleter, app, dev, saved, notLoaded>>
      /\ app = "load" /\ p \in loading /\ loading' = loading \ {p}
  BY Zenon DEF LoadOne, goVars, diskVars
<1> DEFINE n == created + 1
<1>2. /\ n \in Devs /\ created' = n /\ devices' = [devices EXCEPT ![p] = n]
      /\ name' = [name EXCEPT ![n] = p] /\ paired' = [paired EXCEPT ![n] = TRUE]
      /\ pairing' = [pairing EXCEPT ![n] = p] /\ created \in Nat /\ dev <= created
  BY BoundsAssumption DEF LoadOne, Create, Put, TypeOK, DevicesOK, PlacesOK, Devs
<1>3. ~replaced' => ~replaced
  BY Zenon DEF LoadOne, Create, TypeOK, FlagsOK
<1> HIDE DEF n
<1> SUFFICES ASSUME ~hurried PROVE StoreInv'
  BY <1>1, Zenon DEF StoreInv
<1>4. CalmOK
  BY DEF StoreInv
<1>5. p = "acc" /\ "acc" \in saved /\ \A d \in Devs : saver[d] = "idle" /\ deleter[d] = "idle"
  BY <1>1, <1>4 DEF CalmOK, NameOK, TaskOK, Working, Pairings
<1>6. \A d \in Devs : d <= created' => d <= created \/ d = n
  BY <1>2 DEF Devs, n
<1>7. NameOK'
  BY <1>1, <1>2, <1>4, <1>5, <1>6 DEF CalmOK, NameOK, TypeOK, DevicesOK, Devs, n
<1>8. TaskOK'
  BY <1>1, <1>4 DEF CalmOK, TaskOK, Working
<1>9. PairingOK'
  BY <1>1, <1>2, <1>4, <1>5 DEF CalmOK, PairingOK, TypeOK, DevicesOK
<1>10. SavedOK'
  BY <1>2, <1>5 DEF SavedOK, TypeOK, DevicesOK
<1>11. HeldOK' /\ PairedOK'
  BY <1>1, <1>5 DEF HeldOK, PairedOK
<1> QED
  BY <1>1, <1>3, <1>7, <1>8, <1>9, <1>10, <1>11, Zenon DEF StoreInv, CalmOK

\* An operation begins, and did wait for the goroutines of those before.
LEMMA BeginStore ==
  ASSUME TypeOK, StoreInv, NEW d \in Devs, PairSetup(d) \/ Unpair(d)
  PROVE  StoreInv'
<1>1. /\ UNCHANGED <<missed, failed, held, created, name, paired, pairing, devices>>
      /\ UNCHANGED <<saver, deleter, loading, saved, notLoaded>>
      /\ app = "idle" /\ app' \in {"setup", "unpair"} /\ dev' = d /\ d <= created
  <2>1. CASE PairSetup(d)
    BY <2>1, Zenon
    DEF PairSetup, Begin, Operation, devVars, regVars, goVars, diskVars
  <2>2. CASE Unpair(d)
    BY <2>2, Zenon
    DEF Unpair, Begin, Operation, devVars, regVars, goVars, diskVars
  <2> QED
    BY <2>1, <2>2
<1>2. /\ ~hurried' => ~hurried /\ \A e \in Devs : ~Working(e)
      /\ ~replaced' => ~replaced
  <2>1. ~hurried' => ~hurried /\ \A e \in Devs : ~Working(e)
    BY Zenon DEF PairSetup, Unpair, Begin, Operation, TypeOK, FlagsOK
  <2>2. ~replaced' => ~replaced
    BY Zenon DEF PairSetup, Unpair, TypeOK, FlagsOK
  <2> QED
    BY <2>1, <2>2
<1>3. app' = "unpair" /\ ~replaced' => devices[name[d]] \in {0, d}
  <2>1. CASE PairSetup(d)
    BY <2>1 DEF PairSetup, Begin, Operation
  <2>2. CASE Unpair(d)
    <3>1. replaced' = (replaced \/ devices[name[d]] \notin {0, d})
      BY <2>2 DEF Unpair
    <3> QED
      BY <3>1, Zenon
  <2> QED
    BY <2>1, <2>2
<1> SUFFICES ASSUME ~hurried' PROVE StoreInv'
  BY Zenon DEF StoreInv
<1>4. CalmOK /\ \A e \in Devs : saver[e] = "idle" /\ deleter[e] = "idle"
  BY <1>2 DEF StoreInv, Working
<1>5. NameOK' /\ SavedOK'
  BY <1>1, <1>4, Zenon DEF CalmOK, NameOK, SavedOK
<1>6. TaskOK'
  BY <1>1, <1>4 DEF TaskOK, Working
<1>7. PairingOK'
  BY <1>1, <1>4 DEF CalmOK, PairingOK
<1>8. HeldOK => HeldOK'
  BY <1>1, <1>4 DEF HeldOK
<1>9. ASSUME ~replaced', PairedOK PROVE PairedOK'
  <2>1. ASSUME NEW e \in Devs, Registered(e), app' = "unpair" PROVE e = d
    BY <1>1, <1>3, <1>4, <1>9, <2>1 DEF CalmOK, NameOK, Registered, Devs
  <2> QED
    BY <1>1, <1>4, <1>9, <2>1 DEF PairedOK, SavePending, Registered
<1> QED
  BY <1>1, <1>2, <1>4, <1>5, <1>6, <1>7, <1>8, <1>9, Zenon DEF StoreInv, CalmOK

\* PairSetup fails, or the pairing is removed in any way.
LEMMA EndStore ==
  ASSUME TypeOK, StoreInv, PairSetupFails \/ PairRemove \/ PairRemoveFails \/ Reset
  PROVE  StoreInv'
<1>1. /\ UNCHANGED <<hurried, missed, replaced, created, name, paired, pairing, devices>>
      /\ UNCHANGED <<saver, deleter, loading, saved, notLoaded>>
  BY Zenon
  DEF PairSetupFails, PairRemove, PairRemoveFails, Reset, End, devVars, regVars, goVars, mdnsVars,
      appVars, histVars
<1>2. \/ app \in {"setup", "remove"} /\ app' = "idle" /\ dev' = 0
      \/ app' = app /\ dev' = dev
  <2>1. CASE PairSetupFails \/ PairRemove \/ PairRemoveFails
    BY <2>1, Zenon DEF PairSetupFails, PairRemove, PairRemoveFails, End
  <2>2. CASE Reset
    BY <2>2, Zenon DEF Reset, appVars
  <2> QED
    BY <2>1, <2>2
<1>3. (failed => failed') /\ (failed' \/ ~held')
  <2>1. CASE PairSetupFails
    BY <2>1, Zenon DEF PairSetupFails
  <2>2. CASE PairRemove
    BY <2>2, Zenon DEF PairRemove, histVars
  <2>3. CASE PairRemoveFails
    BY <2>3, Zenon DEF PairRemoveFails
  <2>4. CASE Reset
    BY <2>4, Zenon DEF Reset, histVars
  <2> QED
    BY <2>1, <2>2, <2>3, <2>4
<1> SUFFICES ASSUME ~hurried PROVE StoreInv'
  BY <1>1, Zenon DEF StoreInv
<1>4. CalmOK
  BY DEF StoreInv
<1>5. NameOK' /\ SavedOK'
  BY <1>1, <1>4, Zenon DEF CalmOK, NameOK, SavedOK
<1>6. TaskOK'
  BY <1>1, <1>2, <1>4 DEF CalmOK, TaskOK, Working
<1>7. PairingOK'
  BY <1>1, <1>2, <1>4 DEF CalmOK, PairingOK
<1>8. ~failed' => HeldOK'
  BY <1>3, Zenon DEF HeldOK
<1>9. PairedOK => PairedOK'
  BY <1>1, <1>2 DEF PairedOK, SavePending, Registered
<1> QED
  BY <1>1, <1>3, <1>5, <1>6, <1>7, <1>8, <1>9, Zenon DEF StoreInv, CalmOK

\* The device is marked paired, ...
LEMMA FlagStore ==
  ASSUME TypeOK, StoreInv, PairSetupFlag
  PROVE  StoreInv'
<1>1. app = "flag" /\ app' = "emit" /\ paired' = [paired EXCEPT ![dev] = TRUE] /\ dev \in Devs
  BY DevIsObject DEF PairSetupFlag, Put
<1>2. /\ UNCHANGED <<hurried, missed, failed, replaced, created, name, pairing>>
      /\ UNCHANGED <<devices, saver, deleter, dev, loading, saved, held, notLoaded>>
  BY Zenon DEF PairSetupFlag, histVars, regVars, goVars, diskVars
<1> SUFFICES ASSUME ~hurried PROVE StoreInv'
  BY <1>2, Zenon DEF StoreInv
<1>3. CalmOK
  BY DEF StoreInv
<1>4. \A d \in Devs : saver[d] = "idle" /\ deleter[d] = "idle"
  BY <1>1, <1>3 DEF CalmOK, TaskOK, Working
<1>5. NameOK'
  BY <1>2, <1>3, Zenon DEF CalmOK, NameOK
<1>6. TaskOK'
  BY <1>2, <1>4 DEF TaskOK, Working
<1>7. PairingOK'
  BY <1>1, <1>2, <1>3, <1>4 DEF CalmOK, PairingOK, TypeOK, DevicesOK
<1>8. SavedOK'
  BY <1>1, <1>2, <1>3 DEF CalmOK, SavedOK, TypeOK, DevicesOK
<1>9. HeldOK'
  BY <1>1, <1>2, <1>4 DEF HeldOK
<1>10. PairedOK => PairedOK'
  BY <1>1, <1>2, <1>4 DEF PairedOK, SavePending, Registered, TypeOK, DevicesOK
<1> QED
  BY <1>2, <1>5, <1>6, <1>7, <1>8, <1>9, <1>10, Zenon DEF StoreInv, CalmOK

\* ... and reported paired, which hands it to the saver.
LEMMA EmitStore ==
  ASSUME TypeOK, StoreInv, PairSetupEmit
  PROVE  StoreInv'
<1>1. /\ app = "emit" /\ app' = "idle" /\ dev \in Devs
      /\ saver' = IF on[dev] /\ saver[dev] = "idle" THEN [saver EXCEPT ![dev] = "got"] ELSE saver
  BY DevIsObject DEF PairSetupEmit, End, Emitted, Put
<1>2. /\ UNCHANGED <<hurried, failed, replaced, created, name, paired, pairing>>
      /\ UNCHANGED <<devices, deleter, loading, saved, held, notLoaded>>
  BY Zenon DEF PairSetupEmit, devVars, regVars, diskVars
<1>3. ~missed' => ~missed /\ on[dev] /\ saver[dev] = "idle"
  BY Zenon DEF PairSetupEmit, Heard, TypeOK, FlagsOK
<1> SUFFICES ASSUME ~hurried PROVE StoreInv'
  BY <1>2, Zenon DEF StoreInv
<1>4. CalmOK
  BY DEF StoreInv
<1>5. \A d \in Devs : saver[d] = "idle" /\ deleter[d] = "idle"
  BY <1>1, <1>4 DEF CalmOK, TaskOK, Working
<1>6. \A d \in Devs : saver'[d] = "idle" \/ (d = dev /\ saver'[d] = "got")
  BY <1>1, <1>5 DEF TypeOK, DevicesOK
<1>7. NameOK' /\ SavedOK'
  BY <1>2, <1>4, Zenon DEF CalmOK, NameOK, SavedOK
<1>8. TaskOK'
  BY <1>1, <1>2, <1>5, <1>6 DEF TaskOK, Working
<1>9. PairingOK'
  BY <1>1, <1>2, <1>4, <1>5, <1>6 DEF CalmOK, PairingOK
<1>10. ASSUME ~missed' PROVE HeldOK' /\ (PairedOK => PairedOK')
  <2>1. saver'[dev] = "got"
    BY <1>1, <1>3, <1>10 DEF TypeOK, DevicesOK
  <2>2. HeldOK'
    BY <1>1, <1>2, <1>5, <2>1 DEF HeldOK
  <2>3. PairedOK => PairedOK'
    BY <1>1, <1>2, <1>5, <2>1 DEF PairedOK, SavePending, Registered
  <2> QED
    BY <2>2, <2>3
<1> QED
  BY <1>2, <1>3, <1>7, <1>8, <1>9, <1>10, Zenon DEF StoreInv, CalmOK

\* Unpair reports the device unpaired, which hands it to the deleter.
LEMMA UnpairStore ==
  ASSUME TypeOK, StoreInv, UnpairEmit
  PROVE  StoreInv'
<1>1. /\ app = "unpair" /\ app' = "remove" /\ dev \in Devs
      /\ deleter' = IF on[dev] /\ deleter[dev] = "idle" THEN [deleter EXCEPT ![dev] = "got"]
                                                        ELSE deleter
  BY DevIsObject DEF UnpairEmit, Emitted, Put
<1>2. /\ UNCHANGED <<hurried, failed, replaced, created, name, paired, pairing>>
      /\ UNCHANGED <<devices, saver, dev, loading, saved, held, notLoaded>>
  BY Zenon DEF UnpairEmit, devVars, regVars, diskVars
<1>3. ~missed' => ~missed
  BY Zenon DEF UnpairEmit, Heard, TypeOK, FlagsOK
<1> SUFFICES ASSUME ~hurried PROVE StoreInv'
  BY <1>2, Zenon DEF StoreInv
<1>4. CalmOK
  BY DEF StoreInv
<1>5. \A d \in Devs : saver[d] = "idle" /\ deleter[d] = "idle"
  BY <1>1, <1>4 DEF CalmOK, TaskOK, Working
<1>6. \A d \in Devs : deleter'[d] = "idle" \/ (d = dev /\ deleter'[d] = "got")
  BY <1>1, <1>5 DEF TypeOK, DevicesOK
<1>7. NameOK' /\ SavedOK'
  BY <1>2, <1>4, Zenon DEF CalmOK, NameOK, SavedOK
<1>8. TaskOK'
  BY <1>1, <1>2, <1>5, <1>6 DEF TaskOK, Working
<1>9. PairingOK'
  BY <1>1, <1>2, <1>4, <1>5, <1>6 DEF CalmOK, PairingOK
<1>10. HeldOK'
  BY <1>1 DEF HeldOK
<1>11. PairedOK => PairedOK'
  BY <1>1, <1>2, <1>5, <1>6 DEF PairedOK, SavePending, Registered
<1> QED
  BY <1>2, <1>3, <1>7, <1>8, <1>9, <1>10, <1>11, Zenon DEF StoreInv, CalmOK

\* LoadPairings lists what is saved, and returns once it has put it all.
LEMMA ListStore ==
  ASSUME TypeOK, StoreInv, LoadPairings \/ LoadDone
  PROVE  StoreInv'
<1>1. /\ UNCHANGED <<missed, failed, replaced, created, name, paired, pairing>>
      /\ UNCHANGED <<devices, saver, deleter, dev, saved, held>>
  BY Zenon DEF LoadPairings, LoadDone, devVars, regVars, goVars, diskVars, histVars
<1>2. \/ app = "idle" /\ app' = "load" /\ loading' = saved /\ notLoaded' = {}
      \/ app = "load" /\ app' = "idle" /\ loading' = loading /\ notLoaded' = notLoaded
  BY DEF LoadPairings, Operation, LoadDone, histVars
<1>3. ~hurried' => ~hurried /\ (LoadPairings => \A d \in Devs : ~Working(d))
  <2>1. CASE LoadPairings
    BY <2>1, Zenon DEF LoadPairings, Operation, TypeOK, FlagsOK
  <2>2. CASE LoadDone
    <3>1. hurried' = hurried /\ ~LoadPairings
      BY <2>2 DEF LoadDone, LoadPairings, Operation, histVars
    <3> QED
      BY <3>1, Zenon
  <2> QED
    BY <2>1, <2>2
<1> SUFFICES ASSUME ~hurried' PROVE StoreInv'
  BY Zenon DEF StoreInv
<1>4. CalmOK
  BY <1>3 DEF StoreInv
<1>5. \A d \in Devs : saver[d] = "idle" /\ deleter[d] = "idle"
  <2>1. CASE LoadPairings
    BY <1>3, <2>1 DEF Working
  <2>2. CASE LoadDone
    BY <1>4, <2>2 DEF LoadDone, CalmOK, TaskOK, Working
  <2> QED
    BY <2>1, <2>2
<1>6. NameOK'
  BY <1>1, <1>2, <1>4 DEF CalmOK, NameOK
<1>7. TaskOK' /\ PairingOK'
  BY <1>1, <1>2, <1>4, <1>5 DEF CalmOK, TaskOK, PairingOK, Working
<1>8. SavedOK'
  BY <1>1, <1>2, <1>4 DEF CalmOK, SavedOK
<1>9. (HeldOK => HeldOK') /\ (PairedOK => PairedOK')
  BY <1>1, <1>2, <1>5 DEF HeldOK, PairedOK, SavePending, Registered
<1> QED
  BY <1>1, <1>3, <1>6, <1>7, <1>8, <1>9, Zenon DEF StoreInv, CalmOK

\* The saver reads the pairing, which nobody else touches meanwhile, ...
LEMMA ReadStore ==
  ASSUME TypeOK, StoreInv, NEW d \in Devs, SaveRead(d)
  PROVE  StoreInv'
<1>1. saver[d] = "got" /\ saver' = [saver EXCEPT ![d] = pairing[d]]
  BY DEF SaveRead, Put
<1>2. /\ UNCHANGED <<hurried, missed, failed, replaced, created, name, pairing, paired>>
      /\ UNCHANGED <<devices, deleter, app, dev, loading, saved, held, notLoaded>>
  BY Zenon DEF SaveRead, devVars, regVars, appVars, diskVars, histVars
<1> SUFFICES ASSUME ~hurried PROVE StoreInv'
  BY <1>2, Zenon DEF StoreInv
<1>3. CalmOK
  BY DEF StoreInv
<1>4. pairing[d] = "acc"
  BY <1>1, <1>3 DEF CalmOK, PairingOK
<1>5. \A e \in Devs : saver'[e] = saver[e] \/ (e = d /\ saver[e] = "got" /\ saver'[e] = "acc")
  BY <1>1, <1>4 DEF TypeOK, DevicesOK
<1>6. NameOK' /\ SavedOK'
  BY <1>2, <1>3, Zenon DEF CalmOK, NameOK, SavedOK
<1>7. TaskOK'
  BY <1>2, <1>3, <1>5 DEF CalmOK, TaskOK, Working
<1>8. PairingOK'
  BY <1>2, <1>3, <1>5 DEF CalmOK, PairingOK
<1>9. (HeldOK => HeldOK') /\ (PairedOK => PairedOK')
  BY <1>2, <1>5 DEF HeldOK, PairedOK, SavePending, Registered
<1> QED
  BY <1>2, <1>6, <1>7, <1>8, <1>9, Zenon DEF StoreInv, CalmOK

\* ... and saves it.
LEMMA SetStore ==
  ASSUME TypeOK, StoreInv, NEW d \in Devs, SaveSet(d)
  PROVE  StoreInv'
<1>1. /\ saver[d] # "idle" /\ saver' = [saver EXCEPT ![d] = "idle"]
      /\ saved' = saved \cup {saver[d]} /\ saver[d] \in Pairings
  BY DEF SaveSet, Saved, Put, Pairings
<1>2. /\ UNCHANGED <<hurried, missed, failed, replaced, created, name, pairing, paired>>
      /\ UNCHANGED <<devices, deleter, app, dev, loading, held, notLoaded>>
  BY Zenon DEF SaveSet, devVars, regVars, appVars, histVars
<1> SUFFICES ASSUME ~hurried PROVE StoreInv'
  BY <1>2, Zenon DEF StoreInv
<1>3. CalmOK
  BY DEF StoreInv
<1>4. saver[d] = "acc" /\ saved' = saved \cup {"acc"} /\ pairing[d] = "acc" /\ deleter[d] = "idle"
  BY <1>1, <1>3 DEF CalmOK, PairingOK, TaskOK, Pairings
<1>5. \A e \in Devs : saver'[e] = "idle" /\ deleter[e] = "idle"
  BY <1>1, <1>3, <1>4 DEF CalmOK, TaskOK, Working, TypeOK, DevicesOK
<1>6. paired[d] /\ app # "flag"
  BY <1>1, <1>3, <1>4 DEF CalmOK, PairingOK, TaskOK, Working
<1>7. NameOK'
  BY <1>2, <1>3, <1>4 DEF CalmOK, NameOK
<1>8. TaskOK'
  BY <1>2, <1>5 DEF TaskOK, Working
<1>9. PairingOK'
  BY <1>2, <1>3, <1>5 DEF CalmOK, PairingOK
<1>10. SavedOK'
  BY <1>2, <1>4, <1>6 DEF SavedOK
<1>11. HeldOK'
  BY <1>4, <1>5, <1>2 DEF HeldOK
<1>12. PairedOK => PairedOK'
  BY <1>2, <1>4 DEF PairedOK, Registered
<1> QED
  BY <1>2, <1>7, <1>8, <1>9, <1>10, <1>11, <1>12, Zenon DEF StoreInv, CalmOK

\* The deleter removes the pairing that its device has, ...
LEMMA DeleteStore ==
  ASSUME TypeOK, StoreInv, NEW d \in Devs, DeletePairing(d)
  PROVE  StoreInv'
<1>1. /\ deleter[d] = "got" /\ deleter' = [deleter EXCEPT ![d] = "wipe"]
      /\ saved' = saved \ {pairing[d]}
  BY DEF DeletePairing, Deleted, Put
<1>2. /\ UNCHANGED <<hurried, missed, failed, replaced, created, name, pairing, paired>>
      /\ UNCHANGED <<devices, saver, app, dev, loading, held, notLoaded>>
  BY Zenon DEF DeletePairing, devVars, regVars, appVars, histVars
<1> SUFFICES ASSUME ~hurried PROVE StoreInv'
  BY <1>2, Zenon DEF StoreInv
<1>3. CalmOK
  BY DEF StoreInv
<1>4. app \in {"idle", "remove"} /\ loading = {}
  BY <1>1, <1>3 DEF CalmOK, TaskOK, Working, TypeOK, PlacesOK
<1>5. \A e \in Devs : saver[e] = "idle" /\ (e # d => deleter[e] = "idle")
  BY <1>1, <1>3 DEF CalmOK, TaskOK, Working
<1>6. \A e \in Devs : deleter'[e] = IF e = d THEN "wipe" ELSE deleter[e]
  BY <1>1 DEF TypeOK, DevicesOK
<1>7. NameOK'
  BY <1>1, <1>2, <1>3, <1>4 DEF CalmOK, NameOK
<1>8. TaskOK'
  BY <1>1, <1>2, <1>3, <1>6 DEF CalmOK, TaskOK, Working
<1>9. PairingOK'
  <2>1. "acc" \in saved' => pairing[d] = "blank"
    BY <1>1 DEF TypeOK, DevicesOK, Pairings
  <2> QED
    BY <1>2, <1>3, <1>4, <1>5, <1>6, <2>1 DEF CalmOK, PairingOK
<1>10. SavedOK'
  BY <1>1, <1>2, <1>3 DEF CalmOK, SavedOK
<1>11. HeldOK => HeldOK'
  BY <1>1, <1>2, <1>4 DEF HeldOK
<1>12. PairedOK => PairedOK'
  <2> SUFFICES ASSUME PairedOK PROVE PairedOK'
    OBVIOUS
  <2>1. ASSUME NEW e \in Devs, Registered(e), paired[e], e # d PROVE "acc" \in saved'
    <3>1. pairing[d] # "acc"
      BY <1>1, <2>1 DEF PairedOK
    <3>2. "acc" \in saved
      BY <1>4, <1>5, <2>1 DEF PairedOK, SavePending
    <3> QED
      BY <1>1, <3>1, <3>2
  <2> QED
    BY <1>2, <1>4, <1>6, <2>1 DEF PairedOK, Registered
<1> QED
  BY <1>2, <1>7, <1>8, <1>9, <1>10, <1>11, <1>12, Zenon DEF StoreInv, CalmOK

\* ... wipes it there, and marks the device unpaired.
LEMMA WipeStore ==
  ASSUME TypeOK, StoreInv, NEW d \in Devs, Wipe(d) \/ Unflag(d)
  PROVE  StoreInv'
<1>1. \/ /\ deleter[d] = "wipe" /\ deleter' = [deleter EXCEPT ![d] = "unflag"]
         /\ pairing' = [pairing EXCEPT ![d] = "blank"] /\ paired' = paired
      \/ /\ deleter[d] = "unflag" /\ deleter' = [deleter EXCEPT ![d] = "lock"]
         /\ paired' = [paired EXCEPT ![d] = FALSE] /\ pairing' = pairing
  BY DEF Wipe, Unflag, Put
<1>2. /\ UNCHANGED <<hurried, missed, failed, replaced, created, name>>
      /\ UNCHANGED <<devices, saver, app, dev, loading, saved, held, notLoaded>>
  BY Zenon DEF Wipe, Unflag, regVars, appVars, diskVars, histVars
<1> SUFFICES ASSUME ~hurried PROVE StoreInv'
  BY <1>2, Zenon DEF StoreInv
<1>3. CalmOK
  BY DEF StoreInv
<1>4. app \in {"idle", "remove"} /\ loading = {}
  BY <1>1, <1>3 DEF CalmOK, TaskOK, Working, TypeOK, PlacesOK
<1>5. \A e \in Devs : saver[e] = "idle" /\ (e # d => deleter[e] = "idle")
  BY <1>1, <1>3 DEF CalmOK, TaskOK, Working
<1>6. /\ \A e \in Devs : e # d => deleter'[e] = deleter[e] /\ pairing'[e] = pairing[e]
                                  /\ paired'[e] = paired[e]
      /\ pairing'[d] = "blank" /\ deleter'[d] \in {"unflag", "lock"}
      /\ deleter'[d] = "lock" => ~paired'[d]
      /\ "acc" \in saved => pairing[d] = "blank"
  BY <1>1, <1>3 DEF CalmOK, PairingOK, TypeOK, DevicesOK
<1>7. NameOK'
  BY <1>2, <1>3, <1>6 DEF CalmOK, NameOK
<1>8. TaskOK'
  BY <1>1, <1>2, <1>3, <1>5, <1>6 DEF CalmOK, TaskOK, Working
<1>9. PairingOK'
  BY <1>2, <1>3, <1>4, <1>5, <1>6 DEF CalmOK, PairingOK
<1>10. SavedOK'
  BY <1>2, <1>3, <1>4, <1>6 DEF CalmOK, SavedOK
<1>11. HeldOK => HeldOK'
  BY <1>1, <1>2, <1>4 DEF HeldOK
<1>12. PairedOK => PairedOK'
  BY <1>2, <1>4, <1>5, <1>6 DEF PairedOK, SavePending, Registered
<1> QED
  BY <1>2, <1>7, <1>8, <1>9, <1>10, <1>11, <1>12, Zenon DEF StoreInv, CalmOK

\* What it does with the device then is no matter of the store.
LEMMA DropStore ==
  ASSUME TypeOK, StoreInv, NEW d \in Devs, DeleterClose(d) \/ DeleterDrop(d)
  PROVE  StoreInv'
<1>1. /\ deleter[d] \in {"lock", "drop"}
      /\ \E v \in {"drop", "idle"} : deleter' = [deleter EXCEPT ![d] = v]
  BY DEF DeleterClose, DeleterDrop, Put
<1>2. /\ UNCHANGED <<hurried, missed, failed, replaced, created, name, pairing, paired>>
      /\ UNCHANGED <<saver, app, dev, loading, saved, held, notLoaded>>
  BY Zenon DEF DeleterClose, DeleterDrop, appVars, diskVars, histVars
<1>3. devices' = devices \/ devices' = [devices EXCEPT ![name[d]] = 0]
  BY DEF DeleterClose, DeleterDrop, Put
<1>4. ASSUME NEW e \in Devs, Registered(e)' PROVE Registered(e)
  BY <1>2, <1>3, <1>4 DEF TypeOK, DevicesOK, Registered, Devs
<1> SUFFICES ASSUME ~hurried PROVE StoreInv'
  BY <1>2, Zenon DEF StoreInv
<1>5. CalmOK
  BY DEF StoreInv
<1>6. \A e \in Devs : IF e = d THEN deleter'[e] \in {"drop", "idle"} ELSE deleter'[e] = deleter[e]
  BY <1>1 DEF TypeOK, DevicesOK
<1>7. NameOK' /\ SavedOK'
  BY <1>2, <1>5, Zenon DEF CalmOK, NameOK, SavedOK
<1>8. TaskOK'
  BY <1>1, <1>2, <1>5, <1>6 DEF CalmOK, TaskOK, Working
<1>9. PairingOK'
  BY <1>1, <1>2, <1>5, <1>6 DEF CalmOK, PairingOK
<1>10. HeldOK => HeldOK'
  BY <1>1, <1>2, <1>6 DEF HeldOK
<1>11. PairedOK => PairedOK'
  BY <1>1, <1>2, <1>4, <1>6 DEF PairedOK, SavePending
<1> QED
  BY <1>2, <1>7, <1>8, <1>9, <1>10, <1>11, Zenon DEF StoreInv, CalmOK

\* The store outlives the program; a pairing on its way to it does not, and then
\* the program did not stop in a quiet state.
LEMMA RestartStore ==
  ASSUME TypeOK, StoreInv, Restart
  PROVE  StoreInv'
<1>1. /\ created' = 0 /\ pairing' = [d \in Devs |-> "blank"] /\ paired' = [d \in Devs |-> FALSE]
      /\ saver' = [d \in Devs |-> "idle"] /\ deleter' = [d \in Devs |-> "idle"]
      /\ app' = "idle" /\ dev' = 0 /\ loading' = {} /\ saved' = saved /\ notLoaded' = saved
  BY DEF Restart, All
<1>2. UNCHANGED <<hurried, missed, held>>
  BY Zenon DEF Restart
<1>3. ~failed' => ~failed /\ Quiet
  BY Zenon DEF Restart, TypeOK, FlagsOK
<1> SUFFICES ASSUME ~hurried PROVE StoreInv'
  BY <1>2, Zenon DEF StoreInv
<1>4. CalmOK
  BY DEF StoreInv
<1>5. NameOK'
  BY <1>1, <1>4 DEF CalmOK, NameOK, Devs
<1>6. TaskOK' /\ PairingOK' /\ SavedOK'
  BY <1>1 DEF TaskOK, PairingOK, SavedOK, Working
<1>7. ~failed' /\ HeldOK => HeldOK'
  <2> SUFFICES ASSUME ~failed', HeldOK PROVE HeldOK'
    OBVIOUS
  <2>1. held => "acc" \in saved
    BY <1>3, Zenon DEF HeldOK, Quiet
  <2> QED
    BY <1>1, <1>2, <2>1 DEF HeldOK
<1>8. PairedOK'
  BY <1>1 DEF PairedOK, Registered, Devs
<1> QED
  BY <1>2, <1>3, <1>5, <1>6, <1>7, <1>8, Zenon DEF StoreInv, CalmOK

\* Nothing is saved, held or listed when the program is first started.
LEMMA InitStore ==
  ASSUME Init
  PROVE  StoreInv
<1>1. /\ created = 0 /\ pairing = [d \in Devs |-> "blank"] /\ paired = [d \in Devs |-> FALSE]
      /\ saver = [d \in Devs |-> "idle"] /\ deleter = [d \in Devs |-> "idle"]
      /\ app = "idle" /\ loading = {} /\ saved = {}
  BY DEF Init, All
<1>2. ~held
  BY Zenon DEF Init
<1>3. NameOK /\ TaskOK /\ PairingOK /\ SavedOK
  BY <1>1 DEF NameOK, TaskOK, PairingOK, SavedOK, Working, Devs
<1>4. HeldOK
  BY <1>2, Zenon DEF HeldOK
<1>5. PairedOK
  BY <1>1 DEF PairedOK, Registered, Devs
<1> QED
  BY <1>3, <1>4, <1>5 DEF StoreInv, CalmOK

\* Every step keeps what is said of the registry and the store.
LEMMA StoreStep ==
  ASSUME TypeOK, StoreInv, [Next]_vars
  PROVE  StoreInv'
<1>1. DevicesOK
  BY DEF TypeOK
<1>2. CASE Discovery
  <2>1. CASE FoundPut
    BY <2>1, FoundStore
  <2>2. CASE FoundGet \/ FoundMerge \/ FoundMark \/ LostGet \/ LostUnmark \/ LostEmit \/ LostClose
    BY <1>1, <2>2, OtherSteps, OtherStore
  <2> QED
    BY <1>2, <2>1, <2>2, Zenon DEF Discovery
<1>3. CASE App
  <2>1. ASSUME NEW d \in Devs, PairSetup(d) \/ Unpair(d) PROVE StoreInv'
    BY <2>1, BeginStore
  <2>2. ASSUME NEW d \in Devs, PairVerify(d) PROVE StoreInv'
    BY <1>1, <2>2, OtherSteps, OtherStore
  <2>3. ASSUME NEW p \in Pairings, LoadOne(p) PROVE StoreInv'
    BY <2>3, LoadStore
  <2>4. CASE PairSetupFails \/ PairRemove \/ PairRemoveFails
    BY <2>4, EndStore
  <2>5. CASE PairSetupM5 \/ PairSetupFlag \/ PairSetupEmit \/ UnpairEmit
    BY <2>5, SetupStore, FlagStore, EmitStore, UnpairStore
  <2>6. CASE LoadPairings \/ LoadDone
    BY <2>6, ListStore
  <2> QED
    BY <1>3, <2>1, <2>2, <2>3, <2>4, <2>5, <2>6, Zenon DEF App
<1>4. ASSUME NEW d \in Devs, Handler(d) PROVE StoreInv'
  <2>1. CASE SaveRead(d) \/ SaveSet(d) \/ DeletePairing(d)
    BY <2>1, ReadStore, SetStore, DeleteStore
  <2>2. CASE Wipe(d) \/ Unflag(d) \/ DeleterClose(d) \/ DeleterDrop(d)
    BY <2>2, WipeStore, DropStore
  <2>3. CASE RemoverTest(d) \/ RemoverDelete(d) \/ RemoverOff(d)
    BY <1>1, <2>3, OtherSteps, OtherStore
  <2> QED
    BY <1>4, <2>1, <2>2, <2>3, Zenon DEF Handler
<1>5. ASSUME NEW d \in Devs, SessionEnds(d) PROVE StoreInv'
  BY <1>1, <1>5, OtherSteps, OtherStore
<1>6. CASE Reset \/ Restart
  BY <1>6, EndStore, RestartStore
<1>7. CASE UNCHANGED vars
  BY <1>1, <1>7, OtherSteps, OtherStore
<1> QED
  BY <1>2, <1>3, <1>4, <1>5, <1>6, <1>7, Zenon DEF Next

\* While operations wait for each other's goroutines, the registry, the store and
\* the accessory differ only by what one goroutine is still to do.
THEOREM StoreInvariance == Spec => []StoreInv
<1>1. Init => StoreInv
  BY InitStore
<1>2. TypeOK /\ StoreInv /\ [Next]_vars => StoreInv'
  BY StoreStep
<1> QED
  BY <1>1, <1>2, TypeCorrect, PTL DEF Spec

\* Once nobody is at work, the devices listed as paired and the pairings in the
\* store are the same, with the exceptions that StoreAgrees names.
THEOREM StoreAgreesAlways == Spec => []StoreAgrees
<1>1. ASSUME TypeOK, StoreInv PROVE PairedIsSaved
  <2> SUFFICES ASSUME Quiet, ~missed, ~hurried, ~replaced,
                      NEW d \in Devs, Registered(d), paired[d]
               PROVE  name[d] \in saved
    BY Zenon DEF PairedIsSaved
  <2>1. NameOK /\ PairedOK
    BY <1>1, Zenon DEF StoreInv, CalmOK
  <2>2. app = "idle" /\ saver[d] = "idle" /\ deleter[d] = "idle"
    BY DEF Quiet
  <2>3. "acc" \in saved
    BY <2>1, <2>2 DEF PairedOK, SavePending
  <2> QED
    BY <2>1, <2>3 DEF NameOK, Registered
<1>2. ASSUME TypeOK, StoreInv PROVE SavedIsPaired
  <2> SUFFICES ASSUME Quiet, ~hurried, NEW p \in saved \ notLoaded
               PROVE  \E d \in Devs : paired[d] /\ pairing[d] = p
    BY Zenon DEF SavedIsPaired
  <2>1. NameOK /\ SavedOK
    BY <1>2, Zenon DEF StoreInv, CalmOK
  <2>2. p = "acc" /\ loading = {}
    BY <1>2, <2>1 DEF NameOK, Quiet, TypeOK, PlacesOK, Pairings
  <2> QED
    BY <2>1, <2>2 DEF SavedOK
<1>3. TypeOK /\ StoreInv => StoreAgrees
  BY <1>1, <1>2 DEF StoreAgrees
<1> QED
  BY <1>3, TypeCorrect, StoreInvariance, PTL

\* A pairing that the accessory holds is saved, unless an operation failed or was
\* hurried, or its event was discarded.
THEOREM HeldIsSavedAlways == Spec => []HeldIsSaved
<1>1. ASSUME StoreInv PROVE HeldIsSaved
  <2> SUFFICES ASSUME Quiet, ~failed, ~hurried, ~missed, held PROVE "acc" \in saved
    BY Zenon DEF HeldIsSaved
  <2>1. HeldOK
    BY <1>1, Zenon DEF StoreInv
  <2>2. app = "idle" /\ \A d \in Devs : saver[d] = "idle"
    BY DEF Quiet
  <2> QED
    BY <2>1, <2>2 DEF HeldOK
<1> QED
  BY <1>1, StoreInvariance, PTL
=============================================================================
