----------------------------- MODULE Controller -----------------------------
(***************************************************************************)
(* The registry of devices and the saved pairings (controller.go,          *)
(* controller-pair-remove.go, the pairings of fs.go), for one accessory.   *)
(*                                                                         *)
(* putDevice starts three goroutines per Device object that take its       *)
(* "paired", "unpaired" and "lost" events: saver, deleter and remover.  The  *)
(* mDNS goroutine runs addFn and rmvFn, the application the pairing        *)
(* operations and LoadPairings.  Only c.devices is under c.mu, and only    *)
(* for each access.  The program may stop and start again: the store and   *)
(* the accessory remain.                                                   *)
(*                                                                         *)
(* An object is a number, in the order of newDevice; 0 is nil.  A pairing  *)
(* is "acc", that with the accessory, or "blank", the zero Pairing, and    *)
(* stands for its key in the store and for the name it is loaded under.    *)
(* A handshake or request over the network is one step (see Device and     *)
(* RoundTrip), verified stands for the connection it needs, and the        *)
(* application reads its own listeners within emitTimeout.                 *)
(***************************************************************************)
EXTENDS Naturals

CONSTANTS
  MaxDevices,  \* bound: Device objects between two starts of the program
  MaxFound,    \* bound: times mDNS reports the accessory
  MaxOps,      \* bound: operations of the application
  MaxCrashes,  \* bound: times the program stops
  MaxEvents    \* bound: all of these together

ASSUME BoundsAssumption ==
  /\ MaxDevices \in Nat /\ MaxFound \in Nat /\ MaxOps \in Nat /\ MaxCrashes \in Nat
  /\ MaxEvents \in Nat

VARIABLES
  \* Controller
  locked,      \* a deleter holds c.mu
  devices,     \* c.devices[name]
  \* fields of the Device objects; "blank" and FALSE before newDevice
  created,     \* objects created
  name, discovered, paired, verified, pairing,
  entry,       \* dnssdBrowseEntry # nil
  on,          \* the event listeners of putDevice are still there
  \* the goroutines of putDevice: where each is
  saver, deleter, remover,
  \* the mDNS goroutine: its place, its dd, and whether it has reported the accessory
  mdns, found, seen,
  \* the application: its place, its device, and the pairings it still has to load
  app, dev, loading,
  \* what outlives the program
  saved,       \* pairings in the store
  held,        \* the accessory holds a pairing with this controller
  \* bounds and history
  reports, ops, crashes,
  panic,       \* addFn called a method on a device that was deleted
  missed,      \* an event reached no listener
  replaced,    \* putDevice got a second object for a listed or a paired device, or an
               \* object was unpaired whose place in the registry another one has
  hurried,     \* an operation began while saver or deleter were at work
  failed,      \* PairSetup or Unpair failed, or was cut by the end of the program
  notLoaded    \* pairings saved before the program started and not loaded since

devVars  == <<created, name, discovered, paired, verified, pairing, entry, on>>
regVars  == <<locked, devices>>
goVars   == <<saver, deleter, remover>>
mdnsVars == <<mdns, found, seen, reports>>
appVars  == <<app, dev, loading, ops>>
diskVars == <<saved, held, crashes>>
histVars == <<panic, missed, replaced, hurried, failed, notLoaded>>
vars     == <<devVars, regVars, goVars, mdnsVars, appVars, diskVars, histVars>>

Devs     == 1..MaxDevices
Pairings == {"acc", "blank"}

FlagsOK ==
  /\ locked \in BOOLEAN /\ seen \in BOOLEAN /\ held \in BOOLEAN
  /\ panic \in BOOLEAN /\ missed \in BOOLEAN /\ replaced \in BOOLEAN
  /\ hurried \in BOOLEAN /\ failed \in BOOLEAN

DevicesOK ==
  /\ created \in 0..MaxDevices /\ devices \in [Pairings -> 0..created]
  /\ name \in [Devs -> Pairings] /\ pairing \in [Devs -> Pairings]
  /\ discovered \in [Devs -> BOOLEAN] /\ paired \in [Devs -> BOOLEAN]
  /\ verified \in [Devs -> BOOLEAN] /\ entry \in [Devs -> BOOLEAN] /\ on \in [Devs -> BOOLEAN]
  /\ saver \in [Devs -> {"idle", "got"} \cup Pairings]
  /\ deleter \in [Devs -> {"idle", "got", "wipe", "unflag", "lock", "drop"}]
  /\ remover \in [Devs -> {"idle", "got", "lock", "off"}]

\* mDNS and the application have a device while they work on one.
PlacesOK ==
  /\ mdns \in {"idle", "put", "merge", "mark", "unmark", "emit", "close"}
  /\ found \in 0..created /\ (found = 0 <=> mdns \in {"idle", "put"})
  /\ app \in {"idle", "setup", "flag", "emit", "unpair", "remove", "load"}
  /\ dev \in 0..created /\ (dev = 0 <=> app \in {"idle", "load"})
  /\ loading \subseteq Pairings /\ (loading # {} => app = "load")
  /\ saved \subseteq Pairings /\ notLoaded \subseteq Pairings
  /\ reports \in 0..MaxFound /\ ops \in 0..MaxOps /\ crashes \in 0..MaxCrashes

\* The type invariant.
TypeOK == FlagsOK /\ DevicesOK /\ PlacesOK

\* v for every object.
All(v) == [d \in Devs |-> v]

Init ==
  /\ locked = FALSE /\ devices = [p \in Pairings |-> 0] /\ created = 0
  /\ name = All("blank") /\ pairing = All("blank") /\ entry = All(FALSE) /\ on = All(FALSE)
  /\ discovered = All(FALSE) /\ paired = All(FALSE) /\ verified = All(FALSE)
  /\ saver = All("idle") /\ deleter = All("idle") /\ remover = All("idle")
  /\ mdns = "idle" /\ found = 0 /\ seen = FALSE
  /\ app = "idle" /\ dev = 0 /\ loading = {}
  /\ saved = {} /\ held = FALSE
  /\ reports = 0 /\ ops = 0 /\ crashes = 0
  /\ panic = FALSE /\ missed = FALSE /\ replaced = FALSE /\ hurried = FALSE
  /\ failed = FALSE /\ notLoaded = {}

-----------------------------------------------------------------------------
(* Shared steps. *)

\* The bound on all of them.
Room == reports + ops + crashes < MaxEvents

\* f[d] becomes v.
Put(f, d, v) == [f EXCEPT ![d] = v]

\* dd.emit: the listener takes the event if it waits for one; if it does not
\* within emitTimeout the event is discarded; nobody may be listening.
Emitted(go, d) == IF on[d] /\ go[d] = "idle" THEN Put(go, d, "got") ELSE go
Heard(go, d)   == missed' = (missed \/ ~on[d] \/ go[d] # "idle")

\* newDevice and putDevice: name n, what it is paired with, whether mDNS saw it.
Create(n, isPaired, hasEntry) ==
  LET d == created + 1 IN
    /\ ~locked /\ created < MaxDevices /\ created' = d
    /\ devices' = [devices EXCEPT ![n] = d]
    /\ name' = Put(name, d, n) /\ paired' = Put(paired, d, isPaired)
    /\ pairing' = IF isPaired THEN Put(pairing, d, n) ELSE pairing
    /\ entry' = Put(entry, d, hasEntry) /\ on' = Put(on, d, TRUE)
    /\ replaced' = (replaced \/ devices[n] # 0 \/ \E e \in Devs : paired[e] /\ name[e] = n)
    /\ UNCHANGED <<locked, discovered, verified>>

-----------------------------------------------------------------------------
(* mDNS: addFn. *)

FoundGet ==
  /\ mdns = "idle" /\ reports < MaxFound /\ Room /\ ~locked
  /\ found' = devices["acc"] /\ seen' = TRUE /\ reports' = reports + 1
  /\ mdns' = IF found' = 0 THEN "put" ELSE "merge"
  /\ UNCHANGED <<devVars, regVars, goVars, appVars, diskVars, histVars>>

FoundPut ==
  /\ mdns = "put" /\ Create("acc", FALSE, TRUE)
  /\ found' = created' /\ mdns' = "merge"
  /\ UNCHANGED <<goVars, seen, reports, appVars, diskVars, panic, missed, hurried, failed,
                 notLoaded>>

\* c.devices[name].mergeDnssdEntry, read again and without c.mu.
FoundMerge ==
  /\ mdns = "merge" /\ mdns' = "mark"
  /\ IF devices["acc"] = 0
       THEN panic' = TRUE /\ UNCHANGED entry
       ELSE entry' = Put(entry, devices["acc"], TRUE) /\ UNCHANGED panic
  /\ UNCHANGED <<created, name, discovered, paired, verified, pairing, on, regVars, goVars,
                 found, seen, reports, appVars, diskVars, missed, replaced, hurried, failed,
                 notLoaded>>

FoundMark ==
  /\ mdns = "mark" /\ mdns' = "idle" /\ found' = 0
  /\ discovered' = Put(discovered, found, TRUE)
  /\ UNCHANGED <<created, name, paired, verified, pairing, entry, on, regVars, goVars, seen,
                 reports, appVars, diskVars, histVars>>

(* mDNS: rmvFn. *)

LostGet ==
  /\ mdns = "idle" /\ seen /\ ~locked
  /\ found' = devices["acc"] /\ seen' = FALSE
  /\ mdns' = IF found' = 0 THEN "idle" ELSE "unmark"
  /\ UNCHANGED <<devVars, regVars, goVars, reports, appVars, diskVars, histVars>>

LostUnmark ==
  /\ mdns = "unmark" /\ mdns' = "emit"
  /\ discovered' = Put(discovered, found, FALSE) /\ entry' = Put(entry, found, FALSE)
  /\ UNCHANGED <<created, name, paired, verified, pairing, on, regVars, goVars, found, seen,
                 reports, appVars, diskVars, histVars>>

LostEmit ==
  /\ mdns = "emit" /\ mdns' = "close"
  /\ remover' = Emitted(remover, found) /\ Heard(remover, found)
  /\ UNCHANGED <<devVars, regVars, saver, deleter, found, seen, reports, appVars, diskVars,
                 panic, replaced, hurried, failed, notLoaded>>

LostClose ==
  /\ mdns = "close" /\ mdns' = "idle" /\ found' = 0
  /\ verified' = Put(verified, found, FALSE)
  /\ UNCHANGED <<created, name, discovered, paired, pairing, entry, on, regVars, goVars,
                 seen, reports, appVars, diskVars, histVars>>

-----------------------------------------------------------------------------
(* The application. *)

Working(d) == saver[d] # "idle" \/ deleter[d] # "idle"

\* The application starts an operation.
Operation(place) ==
  /\ app = "idle" /\ ops < MaxOps /\ Room /\ ops' = ops + 1 /\ app' = place
  /\ hurried' = (hurried \/ \E d \in Devs : Working(d))

\* One on d, which is in the registry, or was.
Begin(d, place) == Operation(place) /\ d <= created /\ dev' = d

\* It returns.
End == app' = "idle" /\ dev' = 0

\* The device must be discovered to connect; it may be lost before M6.
PairSetup(d) ==
  /\ Begin(d, "setup") /\ discovered[d] /\ entry[d]
  /\ UNCHANGED <<devVars, regVars, goVars, mdnsVars, loading, diskVars, panic, missed, replaced,
                 failed, notLoaded>>

\* M1 to M6 succeed.
PairSetupM5 ==
  /\ app = "setup" /\ ~held /\ app' = "flag"
  /\ held' = TRUE /\ pairing' = Put(pairing, dev, "acc")
  /\ UNCHANGED <<created, name, discovered, paired, verified, entry, on, regVars, goVars,
                 mdnsVars, dev, loading, ops, saved, crashes, histVars>>

\* One of them does not; the accessory may have served M5.
PairSetupFails ==
  /\ app = "setup" /\ End /\ held' \in {held, TRUE} /\ failed' = TRUE
  /\ UNCHANGED <<devVars, regVars, goVars, mdnsVars, loading, ops, saved, crashes, panic,
                 missed, replaced, hurried, notLoaded>>

PairSetupFlag ==
  /\ app = "flag" /\ app' = "emit"
  /\ paired' = Put(paired, dev, TRUE) /\ verified' = Put(verified, dev, FALSE)
  /\ UNCHANGED <<created, name, discovered, pairing, entry, on, regVars, goVars, mdnsVars, dev,
                 loading, ops, diskVars, histVars>>

PairSetupEmit ==
  /\ app = "emit" /\ End
  /\ saver' = Emitted(saver, dev) /\ Heard(saver, dev)
  /\ UNCHANGED <<devVars, regVars, deleter, remover, mdnsVars, loading, ops, diskVars, panic,
                 replaced, hurried, failed, notLoaded>>

PairVerify(d) ==
  /\ app = "idle" /\ discovered[d] /\ entry[d] /\ held
  /\ paired[d] /\ pairing[d] = "acc" /\ verified' = Put(verified, d, TRUE)
  /\ UNCHANGED <<created, name, discovered, paired, pairing, entry, on, regVars, goVars,
                 mdnsVars, appVars, diskVars, histVars>>

\* Its connection ends.
SessionEnds(d) ==
  /\ verified[d] /\ verified' = Put(verified, d, FALSE)
  /\ UNCHANGED <<created, name, discovered, paired, pairing, entry, on, regVars, goVars,
                 mdnsVars, appVars, diskVars, histVars>>

\* Unpair reports the device unpaired, then asks the accessory.
Unpair(d) ==
  /\ Begin(d, "unpair") /\ replaced' = (replaced \/ devices[name[d]] \notin {0, d})
  /\ UNCHANGED <<devVars, regVars, goVars, mdnsVars, loading, diskVars, panic, missed, failed,
                 notLoaded>>

UnpairEmit ==
  /\ app = "unpair" /\ app' = "remove"
  /\ deleter' = Emitted(deleter, dev) /\ Heard(deleter, dev)
  /\ UNCHANGED <<devVars, regVars, saver, remover, mdnsVars, dev, loading, ops, diskVars, panic,
                 replaced, hurried, failed, notLoaded>>

\* PairRemove(d.controllerId): it needs the connection, which the deleter closes.
PairRemove ==
  /\ app = "remove" /\ verified[dev] /\ held /\ End /\ held' = FALSE
  /\ UNCHANGED <<devVars, regVars, goVars, mdnsVars, loading, ops, saved, crashes,
                 histVars>>

\* It is refused, or its connection ends before the accessory has served it or after.
PairRemoveFails ==
  /\ app = "remove" /\ End /\ failed' = TRUE
  /\ held' \in {held, held /\ ~verified[dev]}
  /\ UNCHANGED <<devVars, regVars, goVars, mdnsVars, loading, ops, saved, crashes, panic,
                 missed, replaced, hurried, notLoaded>>

LoadPairings ==
  /\ Operation("load") /\ loading' = saved /\ notLoaded' = {}
  /\ UNCHANGED <<devVars, regVars, goVars, mdnsVars, dev, diskVars, panic, missed, replaced,
                 failed>>

LoadOne(p) ==
  /\ app = "load" /\ p \in loading /\ loading' = loading \ {p}
  /\ Create(p, TRUE, FALSE)
  /\ UNCHANGED <<goVars, mdnsVars, app, dev, ops, diskVars, panic, missed, hurried, failed,
                 notLoaded>>

LoadAbandoned ==                                        \* mutant: only the first
  /\ app = "load" /\ app' = "idle"
  /\ UNCHANGED <<devVars, regVars, goVars, mdnsVars, dev, loading, ops, diskVars, histVars>>

LoadDone ==
  /\ app = "load" /\ loading = {} /\ app' = "idle"
  /\ UNCHANGED <<devVars, regVars, goVars, mdnsVars, dev, loading, ops, diskVars, histVars>>

-----------------------------------------------------------------------------
(* The goroutine for "paired": c.st.SavePairing(dd.pairing). *)

SaveRead(d) ==
  /\ saver[d] = "got" /\ saver' = Put(saver, d, pairing[d])
  /\ UNCHANGED <<devVars, regVars, deleter, remover, mdnsVars, appVars, diskVars, histVars>>

NotSaved(d) == saved                                    \* mutant
Saved(d)    == saved \cup {saver[d]}

SaveSet(d) ==
  /\ saver[d] \in Pairings /\ saved' = Saved(d) /\ saver' = Put(saver, d, "idle")
  /\ UNCHANGED <<devVars, regVars, deleter, remover, mdnsVars, appVars, held, crashes, histVars>>

(* The goroutine for "unpaired". *)

NotDeleted(d) == saved                                  \* mutant
Deleted(d)    == saved \ {pairing[d]}

DeletePairing(d) ==
  /\ deleter[d] = "got" /\ saved' = Deleted(d) /\ deleter' = Put(deleter, d, "wipe")
  /\ UNCHANGED <<devVars, regVars, saver, remover, mdnsVars, appVars, held, crashes, histVars>>

Wipe(d) ==
  /\ deleter[d] = "wipe" /\ deleter' = Put(deleter, d, "unflag")
  /\ pairing' = Put(pairing, d, "blank")
  /\ UNCHANGED <<created, name, discovered, paired, verified, entry, on, regVars, saver, remover,
                 mdnsVars, appVars, diskVars, histVars>>

Unflag(d) ==
  /\ deleter[d] = "unflag" /\ deleter' = Put(deleter, d, "lock")
  /\ paired' = Put(paired, d, FALSE) /\ verified' = Put(verified, d, FALSE)
  /\ UNCHANGED <<created, name, discovered, pairing, entry, on, regVars, saver, remover,
                 mdnsVars, appVars, diskVars, histVars>>

\* Device.close, with c.mu held from here on.
DeleterClose(d) ==
  /\ deleter[d] = "lock" /\ ~locked /\ locked' = TRUE
  /\ deleter' = Put(deleter, d, "drop") /\ verified' = Put(verified, d, FALSE)
  /\ UNCHANGED <<created, name, discovered, paired, pairing, entry, on, devices, saver,
                 remover, mdnsVars, appVars, diskVars, histVars>>

\* "if not paired and not discovered, then it should not present anymore"
NeverGone(d) == FALSE                                   \* mutant
Gone(d)      == ~discovered[d]

DeleterDrop(d) ==
  /\ deleter[d] = "drop" /\ deleter' = Put(deleter, d, "idle") /\ locked' = FALSE
  /\ IF Gone(d)
       THEN devices' = Put(devices, name[d], 0) /\ on' = Put(on, d, FALSE)
       ELSE UNCHANGED <<devices, on>>
  /\ UNCHANGED <<created, name, discovered, paired, verified, pairing, entry, saver, remover,
                 mdnsVars, appVars, diskVars, histVars>>

(* The goroutine for "lost". *)

RemoverTest(d) ==
  /\ remover[d] = "got" /\ remover' = Put(remover, d, IF paired[d] THEN "idle" ELSE "lock")
  /\ UNCHANGED <<devVars, regVars, saver, deleter, mdnsVars, appVars, diskVars, histVars>>

RemoverDelete(d) ==
  /\ remover[d] = "lock" /\ ~locked /\ remover' = Put(remover, d, "off")
  /\ devices' = Put(devices, name[d], 0)
  /\ UNCHANGED <<devVars, locked, saver, deleter, mdnsVars, appVars, diskVars, histVars>>

RemoverOff(d) ==
  /\ remover[d] = "off" /\ remover' = Put(remover, d, "idle") /\ on' = Put(on, d, FALSE)
  /\ UNCHANGED <<created, name, discovered, paired, verified, pairing, entry, regVars, saver,
                 deleter, mdnsVars, appVars, diskVars, histVars>>

-----------------------------------------------------------------------------
\* No goroutine is in the middle of its work.
Quiet ==
  /\ ~panic /\ mdns = "idle" /\ app = "idle"
  /\ \A d \in Devs : saver[d] = "idle" /\ deleter[d] = "idle" /\ remover[d] = "idle"

\* The program stops, and starts again.
Restart ==
  /\ crashes < MaxCrashes /\ Room /\ crashes' = crashes + 1
  /\ locked' = FALSE /\ devices' = [p \in Pairings |-> 0] /\ created' = 0
  /\ name' = All("blank") /\ pairing' = All("blank") /\ entry' = All(FALSE) /\ on' = All(FALSE)
  /\ discovered' = All(FALSE) /\ paired' = All(FALSE) /\ verified' = All(FALSE)
  /\ saver' = All("idle") /\ deleter' = All("idle") /\ remover' = All("idle")
  /\ mdns' = "idle" /\ found' = 0 /\ seen' = FALSE
  /\ app' = "idle" /\ dev' = 0 /\ loading' = {}
  /\ failed' = (failed \/ ~Quiet) /\ notLoaded' = saved /\ panic' = FALSE /\ replaced' = FALSE
  /\ UNCHANGED <<reports, ops, saved, held, missed, hurried>>

\* The accessory is reset, or another controller removes the pairing.
Reset ==
  /\ held /\ held' = FALSE
  /\ UNCHANGED <<devVars, regVars, goVars, mdnsVars, appVars, saved, crashes, histVars>>

Handler(d) ==
  \/ SaveRead(d) \/ SaveSet(d)
  \/ DeletePairing(d) \/ Wipe(d) \/ Unflag(d) \/ DeleterClose(d) \/ DeleterDrop(d)
  \/ RemoverTest(d) \/ RemoverDelete(d) \/ RemoverOff(d)

Discovery ==
  \/ FoundGet \/ FoundPut \/ FoundMerge \/ FoundMark
  \/ LostGet \/ LostUnmark \/ LostEmit \/ LostClose

App ==
  \/ \E d \in Devs : PairSetup(d) \/ PairVerify(d) \/ Unpair(d)
  \/ PairSetupM5 \/ PairSetupFails \/ PairSetupFlag \/ PairSetupEmit
  \/ UnpairEmit \/ PairRemove \/ PairRemoveFails
  \/ LoadPairings \/ (\E p \in Pairings : LoadOne(p)) \/ LoadDone

Next ==
  \/ /\ ~panic
     /\ \/ Discovery \/ App \/ Reset
        \/ \E d \in Devs : Handler(d) \/ SessionEnds(d)
  \/ Restart

Spec == Init /\ [][Next]_vars

-----------------------------------------------------------------------------
(* Properties. *)

Registered(d) == d <= created /\ devices[name[d]] = d

\* The pairing of a device that is listed as paired survives the program,
\* unless an event was discarded or another object had its place in the registry.
PairedIsSaved ==
  Quiet /\ ~missed /\ ~hurried /\ ~replaced =>
    \A d \in Devs : Registered(d) /\ paired[d] => name[d] \in saved

\* A pairing in the store is that of a device that says it is paired: none is
\* saved again after its deletion, unless operations did not wait for the
\* goroutines of those before.  Those not loaded since the start are left out.
SavedIsPaired ==
  Quiet /\ ~hurried =>
    \A p \in saved \ notLoaded : \E d \in Devs : paired[d] /\ pairing[d] = p

\* What the registry says and what the store says, with these exceptions.
StoreAgrees == PairedIsSaved /\ SavedIsPaired

\* A pairing that the accessory holds is in the store, with four exceptions: the
\* application was told that an operation failed; the program was stopped in an
\* operation or a goroutine of putDevice; an operation did not wait for those
\* goroutines (hurried); or an event was discarded, or emitted when its listeners
\* were gone (missed), and then PairSetup returns no error and nothing is saved.
HeldIsSaved == Quiet /\ ~failed /\ ~hurried /\ ~missed /\ held => "acc" \in saved

\* A device that is neither paired nor discovered leaves the registry, in
\* whatever order mDNS loses it and the application unpairs it.
RegistryClean ==
  Quiet => \A d \in Devs : Registered(d) => paired[d] \/ discovered[d]

(* What the code's comment says. *)

\* controller.go:202 "GetPairedDevices returns list of devices that has been
\* paired."
ListsPaired ==
  Quiet => \A d \in Devs : paired[d] => \E e \in Devs : Registered(e) /\ paired[e]
=============================================================================
