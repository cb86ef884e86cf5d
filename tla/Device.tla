------------------------------- MODULE Device -------------------------------
(***************************************************************************)
(* The life of a Device over successive connections (device.go,            *)
(* controller-pair-setup.go, controller-pair-verify.go, and the discovery  *)
(* callbacks of controller.go).                                            *)
(*                                                                         *)
(* No lock guards the fields of Device.  Three kinds of goroutine act on   *)
(* them: one application goroutine ("app") that calls PairSetup,           *)
(* PairVerify and Close, the mDNS goroutine ("mdns") that reports the      *)
(* device found and lost, and one background goroutine per completed       *)
(* PairVerify, which reads the connection and closes the device when it    *)
(* stops.  All of them run Device.close on whatever d.cc is by then.       *)
(*                                                                         *)
(* Connections are numbered in the order they are dialled; cc = 0 is nil.  *)
(* A request is one blocking exchange with an outcome: module RoundTrip    *)
(* models its inside, and the handshakes keep their number of requests and *)
(* what the accessory remembers of them.                                   *)
(***************************************************************************)
EXTENDS Naturals

CONSTANTS
  Loops,     \* the background goroutines, as many as PairVerify may spawn
  MaxOps,    \* bound: pairing operations the application starts
  MaxFound   \* bound: times the device appears in mDNS

ASSUME LoopsAssumption  == Loops \cap {"app", "mdns"} = {}
ASSUME BoundsAssumption == MaxOps \in Nat /\ MaxFound \in Nat

VARIABLES
  \* fields of Device; verified, paired, discovered as in the code
  discovered, paired, verified,
  cc,          \* d.cc: a connection, or 0 for nil
  httpc,       \* d.httpc # nil
  reason,      \* d.closeReason # nil
  \* connections
  open,        \* those whose socket this side has not closed
  up,          \* those the accessory keeps up
  encrypted,   \* those with a session (conn.ss)
  stop,        \* stop[k]: conn.backgroundStop, "nil", "open" or "closed"
  dialled,     \* connections dialled so far
  \* goroutines
  pc,          \* pc[t]: where goroutine t is
  back,        \* back[t]: where t goes on after Device.close
  own,         \* own[t]: the connection t works on, 0 before it has one
  op, left,    \* the application's handshake, and the requests it still makes
  ops, found,  \* operations started and appearances, for the bounds
  \* the accessory
  accPaired,   \* it holds a pairing with this controller
  \* outcome and history
  panic,       \* "none", or the run-time panic that ended the program
  overran,     \* some goroutine acted on a connection that is not its own
  undone,      \* d.cc was nil when PairVerify last set verified
  established  \* PairVerify returned nil and nothing has ended the session since

devVars  == <<discovered, paired, verified, cc, httpc, reason>>
connVars == <<open, up, encrypted, stop, dialled>>
goVars   == <<pc, back, own, op, left, ops, found>>
histVars == <<panic, overran, undone, established>>
vars     == <<devVars, connVars, goVars, accPaired, histVars>>

Conns   == 1..MaxOps
Threads == {"app", "mdns"} \cup Loops

\* Inside Device.close, and the rest of each goroutine's places.
Closing  == {"shut", "await", "wait", "stuck", "drop", "clear"}
AppPlaces == {"idle", "forget", "lost", "ensure", "connect", "dial", "lookup", "dialing", "post",
              "reply", "finish", "flag", "spawn"}
LoopPlaces == {"none", "spawned", "loop", "stopped", "done"}

TypeOK ==
  /\ discovered \in BOOLEAN /\ paired \in BOOLEAN /\ verified \in BOOLEAN
  /\ cc \in 0..MaxOps /\ httpc \in BOOLEAN /\ reason \in BOOLEAN
  /\ open \subseteq Conns /\ up \subseteq Conns /\ encrypted \subseteq Conns
  /\ stop \in [Conns -> {"nil", "open", "closed"}] /\ dialled \in 0..MaxOps
  /\ pc \in [Threads -> Closing \cup AppPlaces \cup LoopPlaces]
  /\ back \in [Threads -> AppPlaces \cup LoopPlaces]
  /\ own \in [Threads -> 0..MaxOps]
  /\ op \in {"setup", "verify"} /\ left \in 0..3 /\ ops \in 0..MaxOps /\ found \in 0..MaxFound
  /\ accPaired \in BOOLEAN /\ overran \in BOOLEAN
  /\ undone \in BOOLEAN /\ established \in BOOLEAN
  /\ panic \in {"none", "nilConn", "nilEntry", "closeOfClosed"}

\* A device known from an earlier run may be paired (LoadPairings), and the
\* accessory may have forgotten it since, or be paired by another controller.
Init ==
  /\ discovered = FALSE /\ paired \in BOOLEAN /\ verified = FALSE
  /\ cc = 0 /\ httpc = FALSE /\ reason = FALSE
  /\ open = {} /\ up = {} /\ encrypted = {}
  /\ stop = [k \in Conns |-> "nil"] /\ dialled = 0
  /\ pc = [t \in Threads |-> IF t \in Loops THEN "none" ELSE "idle"]
  /\ back = [t \in Threads |-> IF t \in Loops THEN "none" ELSE "idle"]
  /\ own = [t \in Threads |-> 0]
  /\ op = "verify" /\ left = 0 /\ ops = 0 /\ found = 0
  /\ accPaired \in BOOLEAN
  /\ panic = "none" /\ overran = FALSE
  /\ undone = FALSE /\ established = FALSE

-----------------------------------------------------------------------------
(* Shared steps. *)

At(t, p)   == panic = "none" /\ pc[t] = p
Goto(t, p) == pc' = [pc EXCEPT ![t] = p]

\* A method call on, or a field access through, a nil d.cc.
NilDeref ==
  /\ panic' = "nilConn"
  /\ UNCHANGED <<devVars, connVars, goVars, accPaired, overran, undone,
                 established>>

\* d.cc == nil || d.cc.closed
NoConn == cc = 0 \/ cc \notin open

-----------------------------------------------------------------------------
(* Device.close, run by any goroutine t; it goes on at "after". *)

BeginClose(t, after) ==
  /\ reason' = TRUE
  /\ Goto(t, IF cc # 0 THEN "shut" ELSE "clear")
  /\ back' = [back EXCEPT ![t] = after]
  /\ own' = IF t \in Loops THEN own ELSE [own EXCEPT ![t] = cc]

FlagOnly(k) == open     \* mutant: closed is set, the socket is not closed
Shut(k)     == open \ {k}

\* t acts on connection k: whose is it?
Acts(t, k) == overran' = (overran \/ k # own[t])

CloseConn(t) ==
  /\ At(t, "shut")
  /\ IF cc = 0
       THEN NilDeref
       ELSE /\ open' = Shut(cc) /\ Acts(t, cc) /\ Goto(t, "await")
            /\ established' = (established /\ t \in Loops)
            /\ UNCHANGED <<devVars, up, encrypted, stop, dialled, back, own, op, left, ops,
                           found, accPaired, panic, undone>>

\* if d.verified { for range d.cc.backgroundStop }: a nil channel blocks for ever.
CloseAwait(t) ==
  /\ At(t, "await")
  /\ CASE ~verified ->
            /\ Goto(t, "drop")
            /\ UNCHANGED <<devVars, connVars, back, own, op, left, ops, found, accPaired,
                           histVars>>
       [] verified /\ cc = 0 -> NilDeref
       [] OTHER ->
            /\ Goto(t, IF stop[cc] = "nil" THEN "stuck" ELSE "wait")
            /\ own' = [own EXCEPT ![t] = cc] /\ Acts(t, cc)
            /\ UNCHANGED <<devVars, connVars, back, op, left, ops, found, accPaired, panic,
                           undone, established>>

CloseWaited(t) ==
  /\ At(t, "wait") /\ stop[own[t]] = "closed" /\ Goto(t, "drop")
  /\ UNCHANGED <<devVars, connVars, back, own, op, left, ops, found, accPaired, histVars>>

CloseDrop(t) ==
  /\ At(t, "drop")
  /\ cc' = 0 /\ Goto(t, "clear")
  /\ overran' = (overran \/ cc \notin {0, own[t]})
  /\ UNCHANGED <<discovered, paired, verified, httpc, reason, connVars, back, own, op, left,
                 ops, found, accPaired, panic, undone, established>>

StaysVerified == httpc' = FALSE /\ UNCHANGED verified     \* mutant

\* verified = false, httpc = nil.
Forget == verified' = FALSE /\ httpc' = FALSE

CloseClear(t) ==
  /\ At(t, "clear")
  /\ Forget /\ Goto(t, back[t])
  /\ overran' = (overran \/ cc # 0)
  /\ UNCHANGED <<discovered, paired, cc, reason, connVars, back, own, op, left, ops, found,
                 accPaired, panic, undone, established>>

Close(t) ==
  CloseConn(t) \/ CloseAwait(t) \/ CloseWaited(t) \/ CloseDrop(t) \/ CloseClear(t)

-----------------------------------------------------------------------------
(* The application: Close, PairSetup and PairVerify. *)

AppClose ==
  /\ At("app", "idle") /\ BeginClose("app", "idle")
  /\ established' = FALSE
  /\ UNCHANGED <<discovered, paired, verified, cc, httpc, connVars, op, left, ops, found,
                 accPaired, panic, overran, undone>>

\* PairSetup makes three requests, M1, M3 and M5.
PairSetup ==
  /\ At("app", "idle") /\ ops < MaxOps /\ Goto("app", "ensure")
  /\ ops' = ops + 1 /\ op' = "setup" /\ left' = 3
  /\ UNCHANGED <<devVars, connVars, back, own, found, accPaired, histVars>>

\* if d.verified { d.close }
NeverCloses == FALSE    \* mutant: a verified device keeps its connection
Reconnects  == verified

\* PairVerify makes two, M1 and M3, and closes a verified connection first.
PairVerify ==
  /\ At("app", "idle") /\ ops < MaxOps /\ paired
  /\ ops' = ops + 1 /\ op' = "verify" /\ left' = 2
  /\ IF Reconnects
       THEN BeginClose("app", "ensure") /\ established' = FALSE
       ELSE Goto("app", "ensure") /\ UNCHANGED <<reason, back, own, established>>
  /\ UNCHANGED <<discovered, paired, verified, cc, httpc, connVars, found, accPaired, panic,
                 overran, undone>>

Ensure ==
  /\ At("app", "ensure") /\ Goto("app", IF NoConn THEN "connect" ELSE "post")
  /\ UNCHANGED <<devVars, connVars, back, own, op, left, ops, found, accPaired, histVars>>

\* connect: a connection that is still there is closed first.
Connect ==
  /\ At("app", "connect")
  /\ IF cc # 0
       THEN BeginClose("app", "dial") /\ established' = FALSE
       ELSE Goto("app", "dial") /\ UNCHANGED <<reason, back, own, established>>
  /\ UNCHANGED <<discovered, paired, verified, cc, httpc, connVars, op, left, ops, found,
                 accPaired, panic, overran, undone>>

\* d.dnssdBrowseEntry # nil: rmvFn drops it after it has cleared discovered.
Entry == discovered \/ pc["mdns"] = "forget"

\* if d.dnssdBrowseEntry == nil || !d.discovered: connect returns an error.
Dial ==
  /\ At("app", "dial") /\ Goto("app", IF Entry /\ discovered THEN "lookup" ELSE "idle")
  /\ UNCHANGED <<devVars, connVars, back, own, op, left, ops, found, accPaired, histVars>>

\* dialServiceInstance(.., d.dnssdBrowseEntry, ..) is given the field as it is
\* by then, and reads its addresses.
Lookup ==
  /\ At("app", "lookup")
  /\ IF Entry THEN Goto("app", "dialing") /\ UNCHANGED panic
              ELSE panic' = "nilEntry" /\ UNCHANGED pc
  /\ UNCHANGED <<devVars, connVars, back, own, op, left, ops, found, accPaired, overran,
                 undone, established>>

\* Nobody answers: connect returns an error.
DialFailed ==
  /\ At("app", "dialing") /\ Goto("app", "idle")
  /\ UNCHANGED <<devVars, connVars, back, own, op, left, ops, found, accPaired, histVars>>

ClientForgotten == reason' = FALSE /\ UNCHANGED httpc    \* mutant
NewClient       == reason' = FALSE /\ httpc' = TRUE      \* of the new connection

Dialled ==
  /\ At("app", "dialing") /\ dialled < MaxOps /\ Goto("app", "post")
  /\ dialled' = dialled + 1 /\ cc' = dialled + 1
  /\ open' = open \cup {dialled + 1} /\ up' = up \cup {dialled + 1}
  /\ NewClient
  /\ UNCHANGED <<discovered, paired, verified, encrypted, stop, back, own, op, left, ops,
                 found, accPaired, histVars>>

\* doPost: refused without a client or on a closed connection.
Post ==
  /\ At("app", "post")
  /\ IF httpc /\ cc = 0
       THEN NilDeref
       ELSE /\ Goto("app", IF ~httpc \/ NoConn THEN "idle" ELSE "reply")
            /\ own' = [own EXCEPT !["app"] = cc]
            /\ UNCHANGED <<devVars, connVars, back, op, left, ops, found, accPaired, histVars>>

\* What the accessory says: it verifies a controller it is paired with, and
\* sets up a pairing when it has none; it may refuse a wrong pin.
Accepts == IF op = "verify" THEN accPaired ELSE ~accPaired
Rejects == op = "setup" \/ ~accPaired
Stored  == accPaired \/ (op = "setup" /\ left = 1)

OneTooFew == left = 0    \* mutant: the handshake goes on after its last request
LastReply == left = 1

\* A response comes.  RoundTrip's deferred function evaluates d.cc once more.
Reply ==
  /\ At("app", "reply") /\ own["app"] \in open \cap up
  /\ IF cc = 0
       THEN NilDeref
       ELSE /\ \/ /\ Accepts
                  /\ left' = left - 1 /\ accPaired' = Stored
                  /\ Goto("app", IF LastReply THEN "finish" ELSE "post")
               \/ /\ Rejects /\ Goto("app", "idle")
                  /\ UNCHANGED <<left, accPaired>>
            /\ UNCHANGED <<devVars, connVars, back, own, op, ops, found, histVars>>

\* The connection ends first, and the accessory may have served the request.
\* A caller that waits for the background goroutine instead of reading may
\* never be told: no fairness is asked of the application's steps.
Broken ==
  /\ At("app", "reply") /\ own["app"] \notin open \cap up
  /\ IF cc = 0
       THEN NilDeref
       ELSE /\ open' \in {open \ {own["app"]}, open \ ({own["app"]} \ encrypted)}
            /\ accPaired' \in {accPaired, Stored} /\ Goto("app", "idle")
            /\ UNCHANGED <<devVars, up, encrypted, stop, dialled, back, own, op, left, ops,
                           found, histVars>>

\* PairSetup's end.
SetupDone ==
  /\ At("app", "finish") /\ op = "setup" /\ Goto("app", "idle")
  /\ paired' = TRUE /\ verified' = FALSE /\ established' = FALSE
  /\ UNCHANGED <<discovered, cc, httpc, reason, connVars, back, own, op, left, ops, found,
                 accPaired, panic, overran, undone>>

\* startBackgroundRead.
NoGoroutine(g) == pc' = [pc EXCEPT !["app"] = "idle"]     \* mutant
Spawn(g)       == pc' = [pc EXCEPT !["app"] = "idle", ![g] = "spawned"]

\* PairVerify's end is three steps, and d.cc is evaluated in each: d.cc.UpgradeEnc.
Upgrade ==
  /\ At("app", "finish") /\ op = "verify"
  /\ IF cc = 0
       THEN NilDeref
       ELSE /\ encrypted' = encrypted \cup {cc} /\ Goto("app", "flag")
            /\ UNCHANGED <<devVars, open, up, stop, dialled, back, own, op, left, ops, found,
                           accPaired, histVars>>

\* d.verified = true, whatever d.cc is by now.
VerifyDone ==
  /\ At("app", "flag") /\ Goto("app", "spawn")
  /\ verified' = TRUE /\ undone' = (cc = 0)
  /\ UNCHANGED <<discovered, paired, cc, httpc, reason, connVars, back, own, op, left, ops,
                 found, accPaired, panic, overran, established>>

\* d.startBackgroundRead, and PairVerify returns nil.
StartBackgroundRead ==
  /\ At("app", "spawn")
  /\ \E g \in Loops :
       /\ pc[g] = "none" /\ Spawn(g)
       /\ own' = [own EXCEPT ![g] = cc]
  /\ established' = (cc \in open \cap up)
  /\ UNCHANGED <<devVars, connVars, back, op, left, ops, found, accPaired, panic, overran, undone>>

-----------------------------------------------------------------------------
(* The mDNS goroutine: addFn and rmvFn. *)

Found ==
  /\ At("mdns", "idle") /\ ~discovered /\ found < MaxFound
  /\ discovered' = TRUE /\ found' = found + 1
  /\ UNCHANGED <<paired, verified, cc, httpc, reason, connVars, pc, back, own, op, left, ops,
                 accPaired, histVars>>

\* dd.discovered = false; dd.setDnssdEntry(nil); emit("lost"), which may block;
\* dd.close.
Lost ==
  /\ At("mdns", "idle") /\ discovered /\ Goto("mdns", "forget")
  /\ discovered' = FALSE /\ established' = FALSE
  /\ UNCHANGED <<paired, verified, cc, httpc, reason, connVars, back, own, op, left, ops,
                 found, accPaired, panic, overran, undone>>

SetDnssdEntry ==
  /\ At("mdns", "forget") /\ Goto("mdns", "lost")
  /\ UNCHANGED <<devVars, connVars, back, own, op, left, ops, found, accPaired, histVars>>

LostClose ==
  /\ At("mdns", "lost") /\ BeginClose("mdns", "idle")
  /\ UNCHANGED <<discovered, paired, verified, cc, httpc, connVars, op, left, ops, found,
                 accPaired, histVars>>

-----------------------------------------------------------------------------
(* The background goroutines: conn.loop, then Device.close. *)

\* The goroutine evaluates d.cc when it comes to run.
LoopStart(g) ==
  /\ At(g, "spawned")
  /\ IF cc = 0
       THEN NilDeref
       ELSE /\ own' = [own EXCEPT ![g] = cc] /\ Acts(g, cc)
            /\ stop' = [stop EXCEPT ![cc] = "open"] /\ Goto(g, "loop")
            /\ UNCHANGED <<devVars, open, up, encrypted, dialled, back, op, left, ops, found,
                           accPaired, panic, undone, established>>

AnyMessage(g) == TRUE     \* mutant: the loop ends at a message it cannot read
LoopEnded(g)  == own[g] \notin open \cap up

LoopStop(g) ==
  /\ At(g, "loop") /\ LoopEnded(g)
  /\ panic' = IF stop[own[g]] = "closed" THEN "closeOfClosed" ELSE "none"
  /\ stop' = [stop EXCEPT ![own[g]] = "closed"] /\ Goto(g, "stopped")
  /\ open' \in {open, open \ {own[g]}}
  /\ UNCHANGED <<devVars, up, encrypted, dialled, back, own, op, left, ops, found, accPaired,
                 overran, undone, established>>

LoopClose(g) ==
  /\ At(g, "stopped") /\ BeginClose(g, "done")
  /\ UNCHANGED <<discovered, paired, verified, cc, httpc, connVars, op, left, ops, found,
                 accPaired, histVars>>

-----------------------------------------------------------------------------
(* The accessory. *)

Disconnect(k) ==
  /\ panic = "none" /\ k \in up
  /\ up' = up \ {k} /\ established' = (established /\ k # cc)
  /\ UNCHANGED <<devVars, open, encrypted, stop, dialled, goVars, accPaired, panic,
                 overran, undone>>

\* It forgets the pairing, and drops the controller's connections with it.
Reset ==
  /\ panic = "none" /\ accPaired
  /\ accPaired' = FALSE /\ up' = {} /\ established' = FALSE
  /\ UNCHANGED <<devVars, open, encrypted, stop, dialled, goVars, panic, overran, undone>>

-----------------------------------------------------------------------------
App ==
  \/ Ensure \/ Connect \/ Dial \/ Lookup \/ DialFailed \/ Dialled
  \/ Post \/ Reply \/ Broken \/ SetupDone \/ Upgrade \/ VerifyDone \/ StartBackgroundRead

Background(g) == LoopStart(g) \/ LoopStop(g) \/ LoopClose(g)

Next ==
  \/ AppClose \/ PairSetup \/ PairVerify \/ App
  \/ Found \/ Lost \/ SetDnssdEntry \/ LostClose
  \/ \E g \in Loops : Background(g)
  \/ \E t \in Threads : Close(t)
  \/ \E k \in Conns : Disconnect(k)
  \/ Reset

Spec == Init /\ [][Next]_vars

\* The scheduler runs the goroutines inside the library, and PairVerify to its
\* end once it has set verified.  Nothing else is asked of the application, and
\* nothing of the accessory or of mDNS.
Fairness ==
  /\ WF_vars(StartBackgroundRead)
  /\ \A g \in Loops : WF_vars(Background(g))
  /\ \A t \in Threads : WF_vars(Close(t))

FairSpec == Spec /\ Fairness

-----------------------------------------------------------------------------
(* Safety. *)

\* No goroutine is in the middle of an operation.
Quiet == panic = "none" /\ \A t \in Threads : pc[t] \in {"idle", "none", "spawned", "loop", "done"}

\* Between operations a device that says it is verified is paired and has a
\* connection with a session, and a goroutine that reads that connection:
\* unless d.cc was nil when PairVerify set the flag, because a close from mDNS or
\* from an earlier background goroutine had come after UpgradeEnc.
VerifiedIsServed ==
  Quiet /\ verified /\ ~undone =>
    /\ paired /\ cc \in encrypted
    /\ \E g \in Loops : pc[g] = "spawned" \/ (pc[g] = "loop" /\ own[g] = cc)

Reading == {g \in Loops : pc[g] = "loop"}

\* A connection never has two readers: one would take the other's bytes, and
\* the second to stop would close backgroundStop again.
OneReader ==
  ~overran => /\ \A g, h \in Reading : own[g] = own[h] => g = h
              /\ panic # "closeOfClosed"

\* No socket stays open that the device has let go of, unless some goroutine
\* ran over a connection that is not its own.
NoLeak == Quiet /\ ~overran => open \subseteq {cc}

\* A connection that is open can be used, with the same exception: PairVerify
\* dials no other while it is open, so that without a client every call fails
\* until the application calls Close.
Usable == Quiet /\ ~overran /\ ~NoConn => httpc

\* A socket that stays open is the device's, and can be used.
OpenIsUsed == NoLeak /\ Usable

\* With the same exception a session that nobody ended and no one lost is
\* still there: neither a close that runs late, nor the end of the previous
\* background goroutine, nor a failed operation takes it down.
SessionKept ==
  Quiet /\ ~overran /\ established => verified /\ cc \in open \cap encrypted

(* Liveness. *)

\* A verified device whose connection the accessory has ended is not left
\* saying so: it becomes unverified, unless the program panics.
LossNoticed == (verified /\ cc # 0 /\ cc \notin up) ~> (~verified \/ panic # "none")
=============================================================================
