------------------------------- MODULE Events -------------------------------
(***************************************************************************)
(* Accessories, characteristics and events of a verified device (device.go *)
(* 169-182 and 332-743, the onEvent call of conn.loop).                    *)
(*                                                                         *)
(* Users are goroutines of the application.  Each is in one call at a time *)
(* and has at most one event channel, which it reads when it is not in a   *)
(* call.  The loop takes one message of the stream after another: a        *)
(* response goes to the caller that waits, an event into d.accs and to the *)
(* listeners, for which the loop waits.  A request and what the accessory  *)
(* does with it are one step; the response comes later.                    *)
(*                                                                         *)
(* A topic is <<aid, iid>>, 0 for "*".  The event emitter is external: Off *)
(* and Listeners take every topic that matches in either direction.        *)
(* RoundTrip has the steps of an exchange, and Device those of a close,    *)
(* which here is one.  A call that has lost its connection stays in select *)
(* until its deadline, if it has one, and then tells the connection of the *)
(* day that it wants no response (Return); without a connection that is a  *)
(* nil dereference, where the model stops following it.  Calls that have   *)
(* not asked yet when a connection ends ask on the next.                   *)
(***************************************************************************)
EXTENDS Naturals, Sequences, FiniteSets, Functions

CONSTANTS
  Users,
  Chars,       \* the characteristics, <<aid, iid>>, all with events
  Nobody,
  MaxOps,      \* bound: calls of the application
  MaxChanges,  \* bound: changes of a value
  MaxFaults    \* bound: requests refused, connections that end, calls that time out

ASSUME EventsAssumption ==
  /\ IsFiniteSet(Users) /\ Nobody \notin Users
  /\ Chars \subseteq (Nat \ {0}) \X (Nat \ {0}) /\ IsFiniteSet(Chars)
  /\ MaxOps \in Nat /\ MaxChanges \in Nat /\ MaxFaults \in Nat

VARIABLES
  \* the accessory
  value, enabled,
  up,        \* the device is verified
  broken,    \* its connection has ended
  stream,    \* messages on their way
  \* the device
  accs,      \* d.accs: the values last seen, <<>> for nil
  topic,     \* the topic of the channel of each user, <<>> if there is none
  owner,     \* who holds the mutex of the roundTripper
  want,      \* d.cc.wantResponse
  \* the goroutines
  place, job, reply,
  left,      \* the listeners that the loop still waits for
  \* bounds and history
  ops, changes, faults,
  late,      \* a call has timed out on the connection
  cut,       \* unsubscriptions and closes since a subscription was sure of its events
  deaf,      \* a channel was opened after such a cut, or for accessories not known
  told,      \* the value of each characteristic in the last event, or list of accessories that
             \* a GetAccessories has got
  overtaken  \* characteristics whose event the loop took before an older GetAccessories was stored

accVars  == <<value, enabled, up, broken, stream>>
devVars  == <<accs, topic, owner, want>>
goVars   == <<place, job, reply, left>>
histVars == <<ops, changes, faults, late, cut, deaf, told, overtaken>>
vars     == <<accVars, devVars, goVars, histVars>>

Values == 0..MaxChanges
Aids   == {c[1] : c \in Chars}
Topics == Chars \cup {<<a, 0>> : a \in Aids} \cup {<<0, 0>>}
Caches == UNION {[S -> Values] : S \in SUBSET Chars}

\* The pattern p (path.Match).
Matches(p, t) == p # <<>> /\ t # <<>> /\ p[1] \in {0, t[1]} /\ p[2] \in {0, t[2]}
Related(s, t) == Matches(s, t) \/ Matches(t, s)

Ops     == {"none", "accessories", "get", "put", "subscribe", "unsubscribe"}
Jobs    == [op : Ops, topic : Topics, chars : SUBSET Chars]
Answers == [kind : {"answer"}, to : {"none", "accessories", "get", "write", "refusal"},
            body : Caches]
Reports == [kind : {"event"}, char : Chars, value : Values]

NoJob    == [op |-> "none", topic |-> <<0, 0>>, chars |-> {}]
NoAnswer == [kind |-> "answer", to |-> "none", body |-> <<>>]

TypeOK ==
  /\ value \in [Chars -> Values] /\ enabled \subseteq Chars
  /\ up \in BOOLEAN /\ broken \in BOOLEAN /\ stream \in Seq(Answers \cup Reports)
  /\ accs \in Caches /\ topic \in [Users -> Topics \cup {<<>>}]
  /\ owner \in Users \cup {Nobody} /\ (owner # Nobody => place[owner] = "wait")
  /\ want \in BOOLEAN /\ (want => owner # Nobody)
  /\ place \in [Users -> {"idle", "ask", "wait", "got", "gone"}]
  /\ job \in [Users -> Jobs] /\ reply \in [Users -> Answers] /\ left \subseteq Users
  /\ ops \in 0..MaxOps /\ changes \in 0..MaxChanges /\ faults \in 0..MaxFaults
  /\ late \in BOOLEAN /\ cut \subseteq Users /\ deaf \in BOOLEAN
  /\ told \in [Chars -> Values] /\ overtaken \subseteq Chars

Init ==
  /\ value = [c \in Chars |-> 0] /\ enabled = {} /\ up = TRUE /\ broken = FALSE /\ stream = <<>>
  /\ accs = <<>> /\ topic = [u \in Users |-> <<>>] /\ owner = Nobody /\ want = FALSE
  /\ place = [u \in Users |-> "idle"] /\ job = [u \in Users |-> NoJob]
  /\ reply = [u \in Users |-> NoAnswer] /\ left = {}
  /\ ops = 0 /\ changes = 0 /\ faults = 0 /\ late = FALSE
  /\ cut = {} /\ deaf = FALSE /\ told = [c \in Chars |-> 0] /\ overtaken = {}

-----------------------------------------------------------------------------
(* Calls begin. *)

Go(u, p)   == place' = [place EXCEPT ![u] = p]
Back(u)    == Go(u, "idle") /\ job' = [job EXCEPT ![u] = NoJob]
                            /\ reply' = [reply EXCEPT ![u] = NoAnswer]

Begin(u, o, t, cs) ==
  /\ place[u] = "idle" /\ ops < MaxOps /\ ops' = ops + 1
  /\ job' = [job EXCEPT ![u] = [op |-> o, topic |-> t, chars |-> cs]]
  /\ UNCHANGED <<changes, faults, late, told, overtaken>>

\* A call that only sends a request and takes the response.
Request(u, o, t) ==
  /\ Begin(u, o, t, {}) /\ Go(u, "ask")
  /\ UNCHANGED <<accVars, devVars, reply, left, cut, deaf>>

GetAccessories(u) == up /\ Request(u, "accessories", <<0, 0>>)
GetCharacteristic(u) == \E c \in Chars : Request(u, "get", c)
PutCharacteristic(u) == \E c \in Chars : Request(u, "put", c)

\* What a PUT for t names: t itself, or what getEventPutPayloadForAccessory
\* finds in d.accs, of all accessories when it is asked to unsubscribe.
Payload(o, t) ==
  CASE t \in Chars                  -> {t}
    [] t \notin Chars /\ o = "subscribe"   -> {c \in DOMAIN accs : Matches(t, c)}
    [] t \notin Chars /\ o = "unsubscribe" -> DOMAIN accs

Covered(t) == \E v \in Users : Matches(topic[v], t)

\* SubscribeToEvents, SubscribeToAccessoryEvents, SubscribeToAllEvents: no
\* request if there is a channel already.
Subscribe(u) ==
  /\ topic[u] = <<>> /\ cut' = cut \ {u} /\ UNCHANGED <<accVars, devVars, reply, left, deaf>>
  /\ \E t \in Topics : /\ Begin(u, "subscribe", t, Payload("subscribe", t))
                       /\ Go(u, IF Covered(t) THEN "got" ELSE "ask")

Listeners(t) == {v \in Users : Related(topic[v], t)}

\* Off: the channels of the users S are closed, also if the loop waits for them.
Off(S) ==
  /\ topic' = [v \in Users |-> IF v \in S THEN <<>> ELSE topic[v]]
  /\ left' = left \ S

\* Unsubscribe...: with a channel, and other listeners, only the channel is
\* closed.
Unsubscribe(u) ==
  /\ UNCHANGED <<accVars, accs, owner, want, reply, cut, deaf>>
  /\ \E t \in Topics, given \in BOOLEAN :
       /\ given => topic[u] = t
       /\ Begin(u, "unsubscribe", t, Payload("unsubscribe", t))
       /\ Go(u, "ask") /\ UNCHANGED <<topic, left>>
       /\ ~(given /\ Cardinality(Listeners(t)) > 1)

UnsubscribeOne(u) ==
  /\ topic[u] # <<>> /\ Cardinality(Listeners(topic[u])) > 1
  /\ Begin(u, "none", <<0, 0>>, {}) /\ Off({u})
  /\ UNCHANGED <<accVars, accs, owner, want, place, reply, cut, deaf>>

-----------------------------------------------------------------------------
(* The request, and the accessory. *)

\* Subscriptions that have had their answer, or need none.
Sure == {v \in Users : place[v] = "got" /\ job[v].op = "subscribe"}

Answer(o, b) == stream' = Append(stream, [kind |-> "answer", to |-> o, body |-> b])

ServeRead(u) ==
  /\ UNCHANGED <<value, enabled, changes, faults, cut>>
  /\ \/ job[u].op = "accessories" /\ Answer("accessories", value)
     \/ job[u].op = "get" /\ Answer("get", Restrict(value, {job[u].topic}))

ServeWrite(u) ==
  /\ job[u].op = "put" /\ UNCHANGED <<enabled, faults, cut>> /\ Answer("write", <<>>)
  /\ changes < MaxChanges /\ changes' = changes + 1
  /\ value' = [value EXCEPT ![job[u].topic] = changes']

ServeEvents(u) ==
  /\ job[u].op \in {"subscribe", "unsubscribe"} /\ UNCHANGED <<value, changes, faults>>
  /\ enabled' = IF job[u].op = "subscribe" THEN enabled \cup job[u].chars
                                           ELSE enabled \ job[u].chars
  /\ cut' = IF job[u].op = "unsubscribe" THEN cut \cup Sure ELSE cut
  /\ Answer("write", <<>>)

\* The accessory refuses.
Refuse(u) ==
  /\ faults < MaxFaults /\ faults' = faults + 1 /\ Answer("refusal", <<>>)
  /\ UNCHANGED <<value, enabled, changes, cut>>

\* doRequest, up to the response: the mutex is free and the connection lives.
Ask(u) ==
  /\ place[u] = "ask" /\ owner = Nobody /\ up /\ ~broken
  /\ owner' = u /\ want' = TRUE /\ Go(u, "wait")
  /\ \/ ServeRead(u) \/ ServeWrite(u) \/ ServeEvents(u) \/ Refuse(u)
  /\ UNCHANGED <<up, broken, accs, topic, job, reply, left, ops, late, deaf, told,
                 overtaken>>

\* doRequest without a connection.
NoClient(u) ==
  /\ place[u] = "ask" /\ broken /\ Back(u)
  /\ UNCHANGED <<accVars, devVars, left, histVars>>

\* The deadline of GetAccessories, GetCharacteristic and PutCharacteristic.
ExpireWith(u, released) ==
  /\ place[u] = "wait" /\ job[u].op \in {"accessories", "get", "put"}
  /\ faults < MaxFaults /\ faults' = faults + 1 /\ late' = TRUE
  /\ owner' = released /\ want' = FALSE /\ Back(u)
  /\ UNCHANGED <<accVars, accs, topic, left, ops, changes, cut, deaf, told, overtaken>>

ExpireLocked(u) == ExpireWith(u, owner)  \* mutant
Expire(u)       == ExpireWith(u, Nobody)

\* The deadline of a call that has lost its connection, which takes the
\* response from whoever waits on the present one: the deferred assignment is
\* to r.d.cc as it is then (device.go:77).
Return(u) ==
  /\ place[u] = "gone" /\ job[u].op \in {"accessories", "get", "put"} /\ up
  /\ want' = FALSE /\ Back(u)
  /\ UNCHANGED <<accVars, accs, topic, owner, left, histVars>>

\* A value changes; those that are subscribed hear of it.
Change(c) ==
  /\ changes < MaxChanges /\ changes' = changes + 1 /\ value' = [value EXCEPT ![c] = changes']
  /\ stream' = IF c \in enabled /\ ~broken
               THEN Append(stream, [kind |-> "event", char |-> c, value |-> changes'])
               ELSE stream
  /\ UNCHANGED <<enabled, up, broken, devVars, goVars, ops, faults, late, cut, deaf, told,
                 overtaken>>

\* The connection ends, with what was on its way; the accessory forgets.
Break ==
  /\ up /\ ~broken /\ faults < MaxFaults /\ faults' = faults + 1
  /\ broken' = TRUE /\ stream' = <<>> /\ enabled' = {}
  /\ UNCHANGED <<value, up, devVars, goVars, ops, changes, late, cut, deaf, told, overtaken>>

-----------------------------------------------------------------------------
(* The loop. *)

\* GetAccessories that have an answer and have not stored it.
Storing ==
  {v \in Users : place[v] = "got" /\ job[v].op = "accessories" /\ reply[v].to = "accessories"}

\* A response, for the caller that waits, whoever it was meant for, if the
\* connection still wants one.
Deliver ==
  /\ left = {} /\ stream # <<>> /\ Head(stream).kind = "answer" /\ stream' = Tail(stream)
  /\ IF ~want
     THEN UNCHANGED <<owner, want, place, reply, told, overtaken>>
     ELSE LET m == Head(stream) IN
       /\ owner' = Nobody /\ want' = FALSE
       /\ Go(owner, "got") /\ reply' = [reply EXCEPT ![owner] = m]
       /\ IF job[owner].op = "accessories" /\ m.to = "accessories"
          THEN /\ told' = m.body
               /\ overtaken' = IF Storing = {} THEN {} ELSE Chars
          ELSE UNCHANGED <<told, overtaken>>
  /\ UNCHANGED <<value, enabled, up, broken, accs, topic, job, left, ops, changes, faults, late,
                 cut, deaf>>

\* onEvent: d.accs, then emit.
OnEventWith(known) ==
  /\ left = {} /\ stream # <<>> /\ Head(stream).kind = "event" /\ stream' = Tail(stream)
  /\ LET c == Head(stream).char v == Head(stream).value IN
       /\ accs' = IF c \in known THEN [accs EXCEPT ![c] = v] ELSE accs
       /\ left' = {u \in Users : Matches(topic[u], c)}
       /\ told' = [told EXCEPT ![c] = v]
       /\ overtaken' = IF Storing = {} THEN overtaken \ {c} ELSE overtaken \cup {c}
  /\ UNCHANGED <<value, enabled, up, broken, topic, owner, want, place, job, reply, ops, changes,
                 faults, late, cut, deaf>>

OnEventUncached == OnEventWith({})  \* mutant
OnEvent         == OnEventWith(DOMAIN accs)

\* A listener takes the event.
Take(u) ==
  /\ u \in left /\ place[u] = "idle" /\ left' = left \ {u}
  /\ UNCHANGED <<accVars, devVars, place, job, reply, histVars>>

Unlimited == FALSE /\ UNCHANGED vars  \* mutant

\* emitTimeout, while a listener is in a call.
Discard ==
  /\ left # {} /\ \E u \in left : place[u] # "idle"
  /\ left' = {}
  /\ UNCHANGED <<accVars, devVars, place, job, reply, histVars>>

\* The loop ends, and Device.close clears the accessories and closes the
\* channels of all events.
Close ==
  /\ up /\ broken /\ left = {}
  /\ up' = FALSE /\ accs' = <<>> /\ Off(Users) /\ owner' = Nobody /\ want' = FALSE
  /\ place' = [u \in Users |-> IF place[u] = "wait" THEN "gone" ELSE place[u]]
  /\ late' = (late /\ \E u \in Users : place[u] = "got")
  /\ cut' = cut \cup Sure /\ deaf' = FALSE
  /\ overtaken' = IF Storing = {} THEN {} ELSE Chars
  /\ UNCHANGED <<value, enabled, broken, stream, job, reply, ops, changes, faults, told>>

\* PairVerify on a new connection.
Verify ==
  /\ ~up /\ up' = TRUE /\ broken' = FALSE
  /\ UNCHANGED <<value, enabled, stream, devVars, goVars, histVars>>

-----------------------------------------------------------------------------
(* Calls end. *)

\* GetAccessories does not look at the status: any JSON object that is not a
\* list of accessories leaves none, and no JSON leaves what there was.
EndAccessories(u) ==
  /\ job[u].op = "accessories" /\ UNCHANGED <<topic, left, cut, deaf>>
  /\ \/ reply[u].to = "accessories" /\ accs' = reply[u].body
     \/ reply[u].to = "get"         /\ accs' = <<>>
     \/ reply[u].to = "write"       /\ accs' = accs
     \/ reply[u].to = "refusal"     /\ accs' \in {<<>>, accs}

\* What they return is not followed.
EndGet(u) == job[u].op = "get" /\ UNCHANGED <<accs, topic, left, cut, deaf>>
EndPut(u) == job[u].op = "put" /\ UNCHANGED <<accs, topic, left, cut, deaf>>

\* Subscribe...: On, if it was 204 or no request was needed.
EndSubscribeIf(u, granted) ==
  /\ job[u].op = "subscribe" /\ UNCHANGED <<accs, left>> /\ cut' = cut \ {u}
  /\ IF reply[u].to \in granted
     THEN /\ topic' = [topic EXCEPT ![u] = job[u].topic]
          /\ deaf' = (deaf \/ u \in cut
                           \/ {c \in Chars : Matches(job[u].topic, c)} \ job[u].chars # {})
     ELSE UNCHANGED <<topic, deaf>>

EndSubscribeAny(u) == EndSubscribeIf(u, {"none", "write", "refusal"})  \* mutant
EndSubscribe(u)    == EndSubscribeIf(u, {"none", "write"})

\* Unsubscribe...: whatever the answer, everything related to what was named.
EndUnsubscribe(u) ==
  /\ job[u].op = "unsubscribe" /\ UNCHANGED <<accs, deaf>> /\ cut' = cut \cup Sure
  /\ Off({v \in Users : \E c \in job[u].chars : Related(topic[v], c)})

End(u) ==
  /\ place[u] = "got" /\ Back(u)
  /\ \/ EndAccessories(u) \/ EndGet(u) \/ EndPut(u) \/ EndSubscribe(u) \/ EndUnsubscribe(u)
  /\ UNCHANGED <<accVars, owner, want, ops, changes, faults, late, told, overtaken>>

-----------------------------------------------------------------------------

Next ==
  \/ \E u \in Users :
       \/ GetAccessories(u) \/ GetCharacteristic(u) \/ PutCharacteristic(u)
       \/ Subscribe(u) \/ Unsubscribe(u) \/ UnsubscribeOne(u)
       \/ Ask(u) \/ NoClient(u) \/ Expire(u) \/ Return(u) \/ Take(u) \/ End(u)
  \/ \E c \in Chars : Change(c)
  \/ Deliver \/ OnEvent \/ Discard \/ Close \/ Break \/ Verify

Spec == Init /\ [][Next]_vars

\* The loop and the emitter's timer run, and an application reads its channels.
FairSpec ==
  /\ Spec /\ WF_vars(Deliver) /\ WF_vars(OnEvent) /\ WF_vars(Discard) /\ WF_vars(Close)
  /\ \A u \in Users : WF_vars(Take(u))

-----------------------------------------------------------------------------

\* Nobody is unsubscribing, but for calls that have lost their connection.
Settled == \A u \in Users : job[u].op # "unsubscribe" \/ place[u] \notin {"wait", "got"}

\* A channel that SubscribeToEvents and the like have returned hears of every
\* characteristic it is for: the accessory has events enabled for it.  The
\* exceptions are channels opened across an unsubscription or a close, those
\* for accessories not known yet, and calls after a timeout.
Served ==
  up /\ ~broken /\ Settled /\ ~deaf /\ ~late =>
    \A u \in Users, c \in Chars : Matches(topic[u], c) => c \in enabled

\* Events and the lists that GetAccessories get leave in d.accs the values of
\* the last of them on the stream, unless an event overtook a list on its way
\* from the loop to d.accs (device.go:341-364).  What else the stream says of a
\* value does not count: GET /characteristics (device.go:385-404), a list that
\* no call waits for and one that another call gets leave d.accs as it is.
CacheInOrder ==
  Storing = {} => \A c \in DOMAIN accs \ overtaken : accs[c] = told[c]

\* The loop waits for a listener and the listener for the loop: emitTimeout
\* lets a caller that waits for its response have it, or its connection end,
\* unless a call of an earlier connection has said that none is wanted.
WaitEnds == \A u \in Users : place[u] = "wait" ~> place[u] # "wait" \/ ~want
=============================================================================
