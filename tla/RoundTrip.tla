----------------------------- MODULE RoundTrip -----------------------------
(***************************************************************************)
(* HTTP requests over ONE connection to an accessory (device.go, conn.go). *)
(*                                                                         *)
(* Several application goroutines call doRequest/doPost/doGet on the same  *)
(* Device.  roundTripper.RoundTrip serialises them with a mutex, writes    *)
(* the request and then takes the answer in one of two ways: it reads the  *)
(* connection itself, or, once conn.loop reads the connection in the       *)
(* background, it waits for the loop to hand the response over a channel.  *)
(* Meanwhile the accessory may send EVENT messages, the connection may     *)
(* break, and Device.close may run in an application goroutine or at the   *)
(* end of the background goroutine.                                        *)
(*                                                                         *)
(* The model starts where Device.connect returns and covers the life of    *)
(* that connection.  A request is its serial number on the connection; the *)
(* accessory answers requests in order (HTTP/1.1 on one TCP stream), so a  *)
(* response is the number of the request it answers, and three counters    *)
(* (sent, answered, taken) stand for the stream in both directions.  Time  *)
(* is abstract: a deadline may expire whenever its holder waits.           *)
(***************************************************************************)
EXTENDS Naturals

CONSTANTS
  Callers,      \* application goroutines that issue requests
  Timed,        \* those whose requests carry the reqTimeout context
  MaxRequests,  \* bound: requests issued in a behaviour
  MaxEvents,    \* bound: EVENT messages the accessory sends
  None          \* no caller

ASSUME CallersAssumption == Timed \subseteq Callers /\ None \notin Callers
ASSUME BoundsAssumption  == MaxRequests \in Nat /\ MaxEvents \in Nat

VARIABLES
  \* callers inside RoundTrip
  mu,           \* holder of roundTripper.mu, None when it is free
  pc,           \* pc[c]: where caller c is
  rq,           \* rq[c]: number of c's request on the stream, 0 before Write
  got,          \* got[c]: response c's call returned, 0 for none or an error
  started,      \* requests issued so far (for the bound)
  \* Device fields
  cc,           \* d.cc # nil
  httpc,        \* d.httpc # nil
  verified,     \* d.verified
  \* conn fields
  closed,       \* c.closed
  inBackground, \* c.inBackground
  want,         \* c.wantResponse
  stop,         \* c.backgroundStop: "nil", "open" or "closed"
  \* the background goroutine, running conn.loop
  loop,         \* where it is
  hand,         \* the response it carries, 0 when it carries an error
  handTo,       \* whose channel it is blocked on
  \* the goroutines running Device.close
  closer,       \* closer[k]: where it is, k \in {"app", "bg"}
  \* the stream and the accessory behind it
  sent, answered, taken,   \* requests written, responses that arrived, responses read
  quota,        \* EVENT messages the accessory may still send
  netUp,        \* the accessory keeps the connection up
  torn,         \* a truncated response is the last thing on the stream
  \* outcome and history
  panic,        \* "none", or the run-time panic that ended the program
  abandoned     \* some caller left without the response to its request

reqVars    == <<mu, rq, got, started>>
callerVars == <<pc, reqVars>>
devVars    == <<cc, httpc, verified>>
connVars   == <<closed, inBackground, want, stop>>
loopVars   == <<loop, hand, handTo>>
inVars     == <<taken, quota, torn>>
netVars    == <<sent, answered, netUp, inVars>>
vars == <<callerVars, devVars, connVars, loopVars, closer, netVars, panic, abandoned>>

Closers == {"app", "bg"}

\* Inside RoundTrip, with the mutex held and the two channels open.
Exchange == {"write", "branch", "select", "direct", "leave"}

FlagsOK ==
  /\ cc \in BOOLEAN /\ httpc \in BOOLEAN /\ verified \in BOOLEAN
  /\ closed \in BOOLEAN /\ inBackground \in BOOLEAN /\ want \in BOOLEAN
  /\ netUp \in BOOLEAN /\ torn \in BOOLEAN /\ abandoned \in BOOLEAN

DataOK ==
  /\ mu \in Callers \cup {None}
  /\ pc \in [Callers -> {"idle", "lock", "shut"} \cup Exchange]
  /\ rq \in [Callers -> Nat] /\ got \in [Callers -> Nat] /\ started \in Nat
  /\ stop \in {"nil", "open", "closed"}
  /\ loop \in {"none", "spawned", "peek", "event", "check", "offer", "send",
               "checkErr", "offerErr", "sendErr", "exit", "stopped"}
  /\ hand \in Nat /\ handTo \in Callers \cup {None}
  /\ closer \in [Closers -> {"off", "shut", "await", "wait", "stuck", "drop", "clear", "done"}]
  /\ sent \in Nat /\ answered \in Nat /\ taken \in Nat /\ quota \in Nat
  /\ panic \in {"none", "closedChannel", "nilConn"}

\* The type invariant.
TypeOK == FlagsOK /\ DataOK

Init ==
  /\ mu = None /\ pc = [c \in Callers |-> "idle"]
  /\ rq = [c \in Callers |-> 0] /\ got = [c \in Callers |-> 0] /\ started = 0
  /\ cc = TRUE /\ httpc = TRUE /\ verified = FALSE
  /\ closed = FALSE /\ inBackground = FALSE /\ want = FALSE /\ stop = "nil"
  /\ loop = "none" /\ hand = 0 /\ handTo = None
  /\ closer = [k \in Closers |-> "off"]
  /\ sent = 0 /\ answered = 0 /\ taken = 0 /\ quota = MaxEvents
  /\ netUp = TRUE /\ torn = FALSE
  /\ panic = "none" /\ abandoned = FALSE

-----------------------------------------------------------------------------
(* Shared steps. *)

At(c, p)   == panic = "none" /\ pc[c] = p
LoopAt(p)  == panic = "none" /\ loop = p

\* Caller c moves on, or the loop, or close k, and what none of its steps touches.
Goto(c, p) ==
  /\ pc' = [pc EXCEPT ![c] = p]
  /\ UNCHANGED <<devVars, inBackground, stop, closer, answered, netUp>>
LoopTo(p) ==
  /\ loop' = p
  /\ UNCHANGED <<callerVars, devVars, want, closer, sent, answered, netUp, abandoned>>
CloserTo(k, p) ==
  /\ closer' = [closer EXCEPT ![k] = p]
  /\ UNCHANGED <<callerVars, inBackground, want, stop, loopVars, sent, answered, taken,
                 quota, netUp, abandoned>>

\* Nothing more reaches this side of the connection.
Down == closed \/ ~netUp

\* A Read on the connection returns an error or the end of the stream.
Ended == closed \/ (~netUp /\ taken = answered)

\* Breaking the connection after n responses arrived may leave half of another.
Cut(n) == torn' \in {torn, ~Down /\ n < sent}

\* A method call on, or a field access through, a nil d.cc.
NilDeref == /\ panic' = "nilConn"
            /\ UNCHANGED <<callerVars, devVars, connVars, loopVars, closer, netVars, abandoned>>

\* The read error that conn.Read meets closes the connection, unless encryption
\* is on and the stream ended between two frames (session.Decrypt: no error).
ReadFailed == closed' \in {closed \/ loop = "none", TRUE}

-----------------------------------------------------------------------------
(* Callers: doRequest and RoundTrip. *)

\* doRequest's test, evaluated before the mutex is taken.
HasClient == httpc /\ ~closed

Request(c) ==
  /\ At(c, "idle") /\ started < MaxRequests
  /\ IF httpc /\ ~cc
       THEN NilDeref
       ELSE /\ HasClient /\ Goto(c, "lock")
            /\ rq' = [rq EXCEPT ![c] = 0] /\ got' = [got EXCEPT ![c] = 0]
            /\ started' = started + 1
            /\ UNCHANGED <<mu, closed, want, loopVars, sent, inVars, panic, abandoned>>

CanAlwaysLock(c) == TRUE    \* mutant: RoundTrip without the mutex

\* r.mu.Lock(), then fresh channels and wantResponse = true.
CanLock(c) == mu = None

Acquire(c) ==
  /\ At(c, "lock") /\ CanLock(c)
  /\ IF ~cc
       THEN NilDeref
       ELSE /\ mu' = c /\ want' = TRUE /\ Goto(c, "write")
            /\ UNCHANGED <<rq, got, started, closed, loopVars, sent, inVars, panic, abandoned>>

\* req.Write(r.d.cc).  A failed write closes an unencrypted connection.
WriteOk(c) ==
  /\ At(c, "write") /\ cc /\ ~closed
  /\ sent' = sent + 1
  /\ rq' = [rq EXCEPT ![c] = sent + 1] /\ Goto(c, "branch")
  /\ UNCHANGED <<mu, got, started, closed, want, loopVars, inVars, panic, abandoned>>

WriteFail(c) ==
  /\ At(c, "write") /\ cc /\ Down
  /\ closed' = (closed \/ loop = "none")
  /\ Goto(c, "leave")
  /\ UNCHANGED <<reqVars, want, loopVars, sent, inVars, panic, abandoned>>

\* if r.d.cc.inBackground: both outcomes go on to evaluate r.d.cc.
Branch(c) ==
  /\ At(c, "branch") /\ cc
  /\ Goto(c, IF inBackground THEN "select" ELSE "direct")
  /\ UNCHANGED <<reqVars, closed, want, loopVars, sent, inVars, panic, abandoned>>

LostConn(c) == /\ At(c, "write") \/ At(c, "branch")
               /\ ~cc
               /\ NilDeref

\* The three cases of select.  A receive is a rendezvous with the blocked loop.
AfterMessage == IF closed THEN "exit" ELSE "peek"

Receive(c) ==
  /\ At(c, "select") /\ loop = "send" /\ handTo = c
  /\ got' = [got EXCEPT ![c] = hand] /\ Goto(c, "leave")
  /\ loop' = AfterMessage /\ hand' = 0 /\ handTo' = None
  /\ UNCHANGED <<mu, rq, started, closed, want, sent, inVars, panic, abandoned>>

ReceiveErr(c) ==
  /\ At(c, "select") /\ loop = "sendErr" /\ handTo = c /\ Goto(c, "leave")
  /\ loop' = AfterMessage /\ handTo' = None
  /\ UNCHANGED <<reqVars, closed, want, hand, sent, inVars, panic, abandoned>>

Timeout(c) ==
  /\ At(c, "select") /\ c \in Timed
  /\ abandoned' = TRUE /\ Goto(c, "leave")
  /\ UNCHANGED <<reqVars, closed, want, loopVars, sent, inVars, panic>>

\* http.ReadResponse on the connection itself, which ignores the deadline.
DirectRead(c) ==
  /\ At(c, "direct") /\ ~closed /\ taken < answered
  /\ taken' = taken + 1
  /\ got' = [got EXCEPT ![c] = taken + 1] /\ Goto(c, "leave")
  /\ UNCHANGED <<mu, rq, started, closed, want, loopVars, sent, quota, torn, panic, abandoned>>

\* The read fails, or an EVENT message, which is no HTTP response, comes first.
DirectFail(c) ==
  /\ At(c, "direct") /\ Ended
  /\ ReadFailed /\ torn' \in {FALSE, torn}
  /\ abandoned' = TRUE /\ Goto(c, "leave")
  /\ UNCHANGED <<reqVars, want, loopVars, sent, taken, quota, panic>>

DirectEvent(c) ==
  /\ At(c, "direct") /\ ~Down /\ loop # "none" /\ quota > 0
  /\ quota' = quota - 1
  /\ abandoned' = TRUE /\ Goto(c, "leave")
  /\ UNCHANGED <<reqVars, closed, want, loopVars, sent, taken, torn, panic>>

\* The caller and the background loop read at once: conn.Read is not guarded
\* and each gets part of the message.
DirectScrambled(c) ==
  /\ At(c, "direct") /\ loop = "peek" /\ ~closed /\ taken < answered
  /\ taken' = taken + 1
  /\ ReadFailed /\ loop' \in {"peek", "checkErr"}
  /\ abandoned' = TRUE /\ Goto(c, "leave")
  /\ UNCHANGED <<reqVars, want, hand, handTo, sent, quota, torn, panic>>

LeaveFlagUp(c) ==   \* mutant: wantResponse is left up
  /\ At(c, "leave") /\ cc /\ Goto(c, "shut")
  /\ UNCHANGED <<reqVars, closed, want, loopVars, sent, inVars, panic, abandoned>>

\* The deferred calls: wantResponse = false, then both channels are closed,
\* which makes a goroutine blocked sending on one panic, and the mutex is freed.
Leave(c) ==
  /\ At(c, "leave")
  /\ IF ~cc
       THEN NilDeref
       ELSE /\ want' = FALSE /\ Goto(c, "shut")
            /\ UNCHANGED <<reqVars, closed, loopVars, sent, inVars, panic, abandoned>>

BlockedOn(c) == loop \in {"send", "sendErr"} /\ handTo = c

ShutLocked(c) ==    \* mutant: the mutex is not freed
  /\ At(c, "shut") /\ ~BlockedOn(c) /\ Goto(c, "idle")
  /\ UNCHANGED <<reqVars, closed, want, loopVars, sent, inVars, panic, abandoned>>

Shut(c) ==
  /\ At(c, "shut")
  /\ panic' = IF BlockedOn(c) THEN "closedChannel" ELSE "none"
  /\ mu' = None /\ Goto(c, "idle")
  /\ UNCHANGED <<rq, got, started, closed, want, loopVars, sent, inVars, abandoned>>

\* The end of PairVerify, in the goroutine that has the answer to its last
\* request: encryption on, verified, and the background goroutine is spawned.
\* No request is on its way then: GetAccessories refuses to run before.
Upgrade(c) ==
  /\ At(c, "idle") /\ got[c] # 0 /\ loop = "none" /\ mu = None
  /\ IF ~cc
       THEN NilDeref
       ELSE /\ verified' = TRUE /\ loop' = "spawned"
            /\ UNCHANGED <<callerVars, cc, httpc, connVars, hand, handTo, closer, netVars, panic, abandoned>>

-----------------------------------------------------------------------------
(* The background goroutine: conn.loop. *)

LoopStart ==
  /\ LoopAt("spawned")
  /\ IF ~cc
       THEN NilDeref
       ELSE /\ stop' = "open" /\ inBackground' = TRUE /\ LoopTo(AfterMessage)
            /\ UNCHANGED <<closed, hand, handTo, inVars, panic>>

LoopReadTwice ==    \* mutant: the message stays in the buffer
  /\ LoopAt("peek") /\ taken < answered /\ hand' = taken + 1 /\ LoopTo("check")
  /\ UNCHANGED <<closed, inBackground, stop, handTo, inVars, panic>>

LoopRead ==
  /\ LoopAt("peek") /\ taken < answered
  /\ taken' = taken + 1 /\ hand' = taken + 1 /\ LoopTo("check")
  /\ UNCHANGED <<closed, inBackground, stop, handTo, quota, torn, panic>>

LoopTorn ==
  /\ LoopAt("peek") /\ torn /\ Down /\ taken = answered
  /\ torn' = FALSE /\ LoopTo("checkErr")
  /\ UNCHANGED <<closed, inBackground, stop, hand, handTo, taken, quota, panic>>

LoopEventForwarded ==   \* mutant: an event is handed over as a response
  /\ LoopAt("peek") /\ ~Down /\ quota > 0
  /\ quota' = quota - 1 /\ hand' = taken + 1 /\ LoopTo("check")
  /\ UNCHANGED <<closed, inBackground, stop, handTo, taken, torn, panic>>

LoopEventUncounted ==   \* mutant: more events are read than were sent
  /\ LoopAt("peek") /\ quota' = quota - 1 /\ LoopTo("event")
  /\ UNCHANGED <<closed, inBackground, stop, hand, handTo, taken, torn, panic>>

\* An EVENT message: the callback runs in this goroutine and may block.
LoopEvent ==
  /\ LoopAt("peek") /\ ~Down /\ quota > 0
  /\ quota' = quota - 1 /\ LoopTo("event")
  /\ UNCHANGED <<closed, inBackground, stop, hand, handTo, taken, torn, panic>>

EventDone ==
  /\ LoopAt("event") /\ LoopTo(AfterMessage)
  /\ UNCHANGED <<closed, inBackground, stop, hand, handTo, inVars, panic>>

\* if c.wantResponse, for a response and for a read error.
Wanted == want

LoopCheck ==
  /\ LoopAt("check") \/ LoopAt("checkErr")
  /\ IF Wanted
       THEN LoopTo(IF loop = "check" THEN "offer" ELSE "offerErr") /\ UNCHANGED hand
       ELSE LoopTo(AfterMessage) /\ hand' = 0
  /\ UNCHANGED <<closed, inBackground, stop, handTo, inVars, panic>>

\* c.response <- res (or c.resError <- err): the channel is that of the caller
\* in RoundTrip now; the last one is closed when there is none.
LoopOffer ==
  /\ LoopAt("offer") \/ LoopAt("offerErr")
  /\ IF mu = None
       THEN panic' = "closedChannel" /\ LoopTo(loop) /\ UNCHANGED handTo
       ELSE /\ handTo' = mu
            /\ LoopTo(IF loop = "offer" THEN "send" ELSE "sendErr")
            /\ UNCHANGED panic
  /\ UNCHANGED <<closed, inBackground, stop, hand, inVars>>

LoopExitSilent ==   \* mutant: backgroundStop is not closed
  /\ LoopAt("exit") \/ (LoopAt("peek") /\ Ended)
  /\ ReadFailed /\ inBackground' = FALSE /\ LoopTo("stopped")
  /\ UNCHANGED <<stop, hand, handTo, inVars, panic>>

\* for !c.closed fails, or Peek does; nobody waiting in RoundTrip is told.
LoopExit ==
  /\ LoopAt("exit") \/ (LoopAt("peek") /\ Ended)
  /\ ReadFailed /\ inBackground' = FALSE /\ stop' = "closed"
  /\ LoopTo("stopped")
  /\ UNCHANGED <<hand, handTo, inVars, panic>>

-----------------------------------------------------------------------------
(* Device.close, in an application goroutine or after conn.loop. *)

CloserAt(k, p) == panic = "none" /\ closer[k] = p

CloseStart(k) ==
  /\ CloserAt(k, "off")
  /\ k = "bg" => loop = "stopped"
  /\ CloserTo(k, IF cc THEN "shut" ELSE "clear")
  /\ UNCHANGED <<devVars, closed, torn, panic>>

CloseConn(k) ==
  /\ CloserAt(k, "shut")
  /\ IF ~cc
       THEN NilDeref
       ELSE /\ closed' = TRUE /\ Cut(answered) /\ CloserTo(k, "await")
            /\ UNCHANGED <<devVars, panic>>

\* for range d.cc.backgroundStop: a nil channel, when the goroutine has not
\* come to make it, blocks for ever.
CloseAwait(k) ==
  /\ CloserAt(k, "await")
  /\ IF verified /\ ~cc
       THEN NilDeref
       ELSE /\ CloserTo(k, CASE ~verified     -> "drop"
                             [] stop = "nil"  -> "stuck"
                             [] OTHER         -> "wait")
            /\ UNCHANGED <<devVars, closed, torn, panic>>

CloseWaited(k) ==
  /\ CloserAt(k, "wait") /\ stop = "closed" /\ CloserTo(k, "drop")
  /\ UNCHANGED <<devVars, closed, torn, panic>>

CloseDrop(k) ==
  /\ CloserAt(k, "drop")
  /\ cc' = FALSE /\ CloserTo(k, "clear")
  /\ UNCHANGED <<httpc, verified, closed, torn, panic>>

CloseClear(k) ==
  /\ CloserAt(k, "clear")
  /\ verified' = FALSE /\ httpc' = FALSE /\ CloserTo(k, "done")
  /\ UNCHANGED <<cc, closed, torn, panic>>

-----------------------------------------------------------------------------
(* The accessory and the network. *)

Answer ==
  /\ panic = "none" /\ ~Down /\ answered < sent
  /\ answered' = answered + 1
  /\ UNCHANGED <<callerVars, devVars, connVars, loopVars, closer, sent, taken, quota, netUp, torn,
                 panic, abandoned>>

\* Responses that were sent but not read may be lost with the connection.
Disconnect ==
  /\ panic = "none" /\ netUp
  /\ netUp' = FALSE
  /\ \E n \in taken..answered : answered' = n /\ Cut(n)
  /\ UNCHANGED <<callerVars, devVars, connVars, loopVars, closer, sent, taken, quota,
                 panic, abandoned>>

-----------------------------------------------------------------------------
\* What caller c does once its request has begun.
Step(c) ==
  \/ WriteOk(c) \/ WriteFail(c) \/ Branch(c) \/ LostConn(c)
  \/ Receive(c) \/ ReceiveErr(c) \/ Timeout(c)
  \/ DirectRead(c) \/ DirectFail(c) \/ DirectEvent(c) \/ DirectScrambled(c)
  \/ Leave(c) \/ Shut(c)

Loop ==
  \/ LoopStart \/ LoopRead \/ LoopTorn \/ LoopEvent \/ EventDone
  \/ LoopCheck \/ LoopOffer \/ LoopExit

Close(k) ==
  \/ CloseConn(k) \/ CloseAwait(k) \/ CloseWaited(k) \/ CloseDrop(k) \/ CloseClear(k)

Next ==
  \/ \E c \in Callers : Request(c) \/ Acquire(c) \/ Step(c) \/ Upgrade(c)
  \/ Loop
  \/ \E k \in Closers : CloseStart(k) \/ Close(k)
  \/ Answer \/ Disconnect

Spec == Init /\ [][Next]_vars

\* Goroutines are scheduled, timers fire and sync.Mutex starves no waiter.
\* Nothing is asked of the accessory, the network or the application.
Fairness ==
  /\ \A c \in Callers : SF_vars(Acquire(c)) /\ WF_vars(Step(c))
  /\ WF_vars(Loop)
  /\ WF_vars(CloseStart("bg")) /\ \A k \in Closers : WF_vars(Close(k))

FairSpec == Spec /\ Fairness

-----------------------------------------------------------------------------
(* Safety. *)

\* While wantResponse is up the caller whose channels are current is inside
\* RoundTrip and has not begun to close them (conn.go:151): the flag never
\* outlives the channels it vouches for, whoever the next caller is.
FlagMeansOpen == want => mu \in Callers /\ pc[mu] \in Exchange

\* Until a caller leaves without its response, every call returns the response
\* to its own request, whichever of the two reading modes it was in and
\* however the loop, the events and a teardown interleave.
Correlated == ~abandoned => \A c \in Callers : got[c] # 0 => got[c] = rq[c]

\* Even after a timeout a call never returns a response to a later request,
\* so a stale answer can only be an OLDER one.
FromThePast == \A c \in Callers : got[c] <= rq[c]

\* No response is returned by two calls.
AtMostOnce ==
  \A c, d \in Callers : c # d /\ got[c] # 0 => got[c] # got[d]

\* What a timeout leaves of the order: answers may come late, but they are
\* neither repeated nor ahead of their requests.
InOrder == FromThePast /\ AtMostOnce

\* The background goroutine sends on a closed channel, and brings the program
\* down, only if some call gave up its request before.
PanicNeedsAbandon == panic = "closedChannel" => abandoned

(* Liveness. *)

Unbounded(d) == pc[d] = "direct" \/ (d \notin Timed /\ pc[d] = "select")

\* A call that waits for the mutex gets it and returns, unless the program
\* panics or the holder is one that no deadline bounds: a caller without one,
\* or a caller that reads the connection itself.
CallReturns ==
  \A c \in Callers :
    pc[c] = "lock" ~> \/ pc[c] = "idle" \/ panic # "none"
                      \/ \E d \in Callers : Unbounded(d)

\* A close that waits for the background goroutine gets to the end: the loop
\* notices the closed connection wherever it is, blocked on a caller included.
CloseReturns ==
  \A k \in Closers : closer[k] = "wait" ~> closer[k] = "done" \/ panic # "none"

-----------------------------------------------------------------------------
(* What the code's comments say, and a timeout refutes. *)

\* conn.go:153 "assume that one request wants one response".
OneResponse == \A c \in Callers : got[c] # 0 => got[c] = rq[c]
=============================================================================
