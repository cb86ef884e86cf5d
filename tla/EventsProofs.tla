---------------------------- MODULE EventsProofs ----------------------------
(***************************************************************************)
(* Events for any users, characteristics and bounds: types, that           *)
(* subscriptions are served, and the order of the cache.                   *)
(*                                                                         *)
(* Served speaks of moments when nobody unsubscribes.  In between, an      *)
(* unsubscription has disabled events and not yet closed the channels they *)
(* are for; Pending names it, HearsInv says that nothing else is missing,  *)
(* and SureInv says the same of subscriptions whose channel is not open    *)
(* yet.  Both need the answers on the stream to be those of the caller     *)
(* that waits, which holds until a call times out (StreamInv).             *)
(***************************************************************************)
EXTENDS Events, TLAPS

\* Answers to GetAccessories have all characteristics.
Bodies  == {m \in Answers : m.to = "accessories" => m.body \in [Chars -> Values]}
Lasting == Bodies \cup Reports

FlagsOK == up \in BOOLEAN /\ broken \in BOOLEAN /\ late \in BOOLEAN /\ deaf \in BOOLEAN

DataOK ==
  /\ value \in [Chars -> Values] /\ enabled \subseteq Chars /\ stream \in Seq(Lasting)
  /\ accs \in Caches /\ reply \in [Users -> Bodies]
  /\ told \in [Chars -> Values] /\ overtaken \subseteq Chars
  /\ ops \in 0..MaxOps /\ changes \in 0..MaxChanges /\ faults \in 0..MaxFaults

PlacesOK ==
  /\ topic \in [Users -> Topics \cup {<<>>}] /\ owner \in Users \cup {Nobody}
  /\ place \in [Users -> {"idle", "ask", "wait", "got", "gone"}]
  /\ job \in [Users -> Jobs] /\ left \subseteq Users /\ cut \subseteq Users
  /\ \A u \in Users : place[u] = "wait" <=> owner = u
  /\ want \in BOOLEAN /\ (want => owner # Nobody)
  /\ \A u \in Users : job[u].op \in {"get", "put"} => job[u].topic \in Chars

\* A step of a call of u.
Act(u) ==
  \/ GetAccessories(u) \/ GetCharacteristic(u) \/ PutCharacteristic(u)
  \/ Subscribe(u) \/ Unsubscribe(u) \/ UnsubscribeOne(u)
  \/ Ask(u) \/ NoClient(u) \/ Expire(u) \/ Return(u) \/ Take(u) \/ End(u)

\* A step of the loop, or of the accessory.
Loop == Deliver \/ OnEvent \/ Discard \/ Close \/ Break \/ Verify

-----------------------------------------------------------------------------
\* A step is of a call, of the accessory or the loop, or nothing.
LEMMA Steps ==
  [Next]_vars => \/ \E u \in Users : Act(u)
                 \/ \E c \in Chars : Change(c)
                 \/ Loop
                 \/ UNCHANGED vars
  BY DEF Next, Act, Loop

\* A cache is a function from some of the characteristics.
LEMMA CacheOf ==
  ASSUME NEW S \in SUBSET Chars, NEW f \in [S -> Values]
  PROVE  f \in Caches
  BY DEF Caches

LEMMA CacheIs ==
  ASSUME NEW f \in Caches
  PROVE  DOMAIN f \subseteq Chars /\ f \in [DOMAIN f -> Values]
<1>1. PICK S \in SUBSET Chars : f \in [S -> Values]
  BY DEF Caches
<1> QED
  BY <1>1

LEMMA EmptyCache == <<>> \in Caches
<1>1. <<>> \in Seq(Values) /\ Len(<<>>) = 0
  OBVIOUS
<1>2. <<>> \in [1..0 -> Values]
  BY <1>1
<1>3. 1..0 = {}
  OBVIOUS
<1>4. <<>> \in [{} -> Values]
  BY <1>2, <1>3
<1> QED
  BY <1>4, CacheOf

\* A pattern matches what a pattern matches that it matches.
LEMMA MatchesMore ==
  ASSUME NEW p, NEW t, NEW c, Matches(p, t), Matches(t, c)
  PROVE  Matches(p, c)
  BY DEF Matches

LEMMA MatchesItself ==
  ASSUME NEW c \in Chars
  PROVE  Matches(c, c)
<1>1. PICK a \in Nat, b \in Nat : c = <<a, b>>
  BY EventsAssumption
<1> QED
  BY <1>1 DEF Matches

\* The types of TypeOK are those of the parts.
LEMMA TypeParts == FlagsOK /\ DataOK /\ PlacesOK => TypeOK
<1> SUFFICES ASSUME FlagsOK, DataOK, PlacesOK PROVE TypeOK
  OBVIOUS
<1>1. up \in BOOLEAN /\ broken \in BOOLEAN /\ late \in BOOLEAN /\ deaf \in BOOLEAN
  BY Zenon DEF FlagsOK
<1>2. stream \in Seq(Answers \cup Reports)
  BY DEF DataOK, Lasting, Bodies
<1>3. reply \in [Users -> Answers]
  BY DEF DataOK, Bodies
<1>4. /\ owner # Nobody => place[owner] = "wait"
      /\ want \in BOOLEAN /\ (want => owner # Nobody)
  BY DEF PlacesOK
<1>5. /\ value \in [Chars -> Values] /\ enabled \subseteq Chars /\ accs \in Caches
      /\ told \in [Chars -> Values] /\ overtaken \subseteq Chars
      /\ ops \in 0..MaxOps /\ changes \in 0..MaxChanges /\ faults \in 0..MaxFaults
  BY Zenon DEF DataOK
<1>6. /\ topic \in [Users -> Topics \cup {<<>>}] /\ owner \in Users \cup {Nobody}
      /\ place \in [Users -> {"idle", "ask", "wait", "got", "gone"}]
      /\ job \in [Users -> Jobs] /\ left \subseteq Users /\ cut \subseteq Users
  BY Zenon DEF PlacesOK
<1> QED
  BY <1>1, <1>2, <1>3, <1>4, <1>5, <1>6, Zenon DEF TypeOK

\* Flags stay Boolean.
LEMMA FlagsStep ==
  ASSUME FlagsOK, [Next]_vars
  PROVE  FlagsOK'
<1> USE DEF FlagsOK, accVars, devVars, goVars, histVars
<1>1. ASSUME NEW u \in Users, Act(u) PROVE FlagsOK'
  <2>1. CASE GetAccessories(u) \/ GetCharacteristic(u) \/ PutCharacteristic(u)
    BY <2>1, Zenon DEF GetAccessories, GetCharacteristic, PutCharacteristic, Request, Begin
  <2>2. CASE Subscribe(u) \/ Unsubscribe(u) \/ UnsubscribeOne(u)
    BY <2>2, Zenon DEF Subscribe, Unsubscribe, UnsubscribeOne, Begin
  <2>3. CASE Ask(u) \/ NoClient(u) \/ Expire(u) \/ Return(u) \/ Take(u)
    BY <2>3, Zenon DEF Ask, NoClient, Expire, ExpireWith, Return, Take
  <2>4. CASE End(u)
    BY <2>4, Zenon DEF End, EndAccessories, EndGet, EndPut, EndSubscribe, EndSubscribeIf,
       EndUnsubscribe
  <2> QED
    BY <1>1, <2>1, <2>2, <2>3, <2>4 DEF Act
<1>2. ASSUME NEW c \in Chars, Change(c) PROVE FlagsOK'
  BY <1>2, Zenon DEF Change
<1>3. CASE Loop
  BY <1>3, Zenon DEF Loop, Deliver, OnEvent, OnEventWith, Discard, Close, Break, Verify
<1>4. CASE UNCHANGED vars
  BY <1>4, Zenon DEF vars
<1> QED
  BY <1>1, <1>2, <1>3, <1>4, Steps

\* Places, jobs and topics.
LEMMA PlacesStep ==
  ASSUME PlacesOK, DataOK, [Next]_vars
  PROVE  PlacesOK'
<1> USE EventsAssumption DEF PlacesOK, accVars, devVars, goVars, histVars
<1>0. <<0, 0>> \in Topics /\ Chars \subseteq Topics
  BY DEF Topics
<1>1. ASSUME NEW u \in Users, Act(u) PROVE PlacesOK'
  <2> USE DEF Go
  <2>1. ASSUME NEW o \in Ops, NEW t \in Topics, NEW cs \in SUBSET Chars,
               Begin(u, o, t, cs), o \in {"get", "put"} => t \in Chars
        PROVE  /\ job' \in [Users -> Jobs] /\ place[u] = "idle"
               /\ \A v \in Users : job'[v].op \in {"get", "put"} => job'[v].topic \in Chars
    BY <2>1 DEF Begin, Jobs, Ops
  <2>2. ASSUME NEW o \in {"accessories", "get", "put"}, NEW t \in Topics, Request(u, o, t),
               o \in {"get", "put"} => t \in Chars
        PROVE  PlacesOK'
    BY <2>1, <2>2 DEF Request, Ops
  <2>3. ASSUME Back(u), UNCHANGED <<topic, owner, want, left>>, owner # u, cut' \subseteq Users
        PROVE  PlacesOK'
    BY <1>0, <2>3 DEF Back, NoJob, Jobs, Ops
  <2>4. CASE GetAccessories(u) \/ GetCharacteristic(u) \/ PutCharacteristic(u)
    BY <1>0, <2>2, <2>4 DEF GetAccessories, GetCharacteristic, PutCharacteristic
  <2>5. CASE Subscribe(u)
    <3>1. PICK t \in Topics : /\ Begin(u, "subscribe", t, Payload("subscribe", t))
                              /\ Go(u, IF Covered(t) THEN "got" ELSE "ask")
      BY <2>5, Zenon DEF Subscribe
    <3>2. Payload("subscribe", t) \subseteq Chars
      BY CacheIs DEF Payload, DataOK
    <3>3. /\ job' \in [Users -> Jobs] /\ place[u] = "idle"
          /\ \A v \in Users : job'[v].op \in {"get", "put"} => job'[v].topic \in Chars
      BY <2>1, <3>1, <3>2 DEF Ops
    <3>4. UNCHANGED <<topic, owner, want, left>> /\ cut' \subseteq Users
      BY <2>5 DEF Subscribe
    <3> QED
      BY <3>1, <3>3, <3>4
  <2>6. CASE Unsubscribe(u)
    <3>1. PICK t \in Topics : /\ Begin(u, "unsubscribe", t, Payload("unsubscribe", t))
                              /\ Go(u, "ask") /\ UNCHANGED <<topic, left>>
      BY <2>6, Zenon DEF Unsubscribe
    <3>2. Payload("unsubscribe", t) \subseteq Chars
      BY CacheIs DEF Payload, DataOK
    <3>3. /\ job' \in [Users -> Jobs] /\ place[u] = "idle"
          /\ \A v \in Users : job'[v].op \in {"get", "put"} => job'[v].topic \in Chars
      BY <2>1, <3>1, <3>2 DEF Ops
    <3>4. UNCHANGED <<owner, want, cut>>
      BY <2>6 DEF Unsubscribe
    <3> QED
      BY <3>1, <3>3, <3>4
  <2>7. CASE UnsubscribeOne(u)
    BY <1>0, <2>1, <2>7 DEF UnsubscribeOne, Off, Ops
  <2>8. CASE Ask(u)
    <3>1. cut' \subseteq Users
      BY <2>8 DEF Ask, ServeRead, ServeWrite, ServeEvents, Refuse, Sure
    <3> QED
      BY <2>8, <3>1 DEF Ask
  <2>9. CASE NoClient(u)
    BY <2>3, <2>9 DEF NoClient
  <2>10. CASE Expire(u)
    BY <1>0, <2>10 DEF Expire, ExpireWith, Back, NoJob, Jobs, Ops
  <2>13. CASE Return(u)
    BY <1>0, <2>13 DEF Return, Back, NoJob, Jobs, Ops
  <2>11. CASE Take(u)
    BY <2>11 DEF Take
  <2>12. CASE End(u)
    <3>1. Back(u) /\ owner' = owner /\ want' = want /\ owner # u
      BY <2>12 DEF End
    <3>2. CASE EndAccessories(u) \/ EndGet(u) \/ EndPut(u)
      BY <2>3, <3>1, <3>2 DEF EndAccessories, EndGet, EndPut
    <3>3. CASE EndSubscribe(u)
      <4>1. /\ topic' \in [Users -> Topics \cup {<<>>}] /\ left' = left /\ cut' \subseteq Users
        BY <3>3 DEF EndSubscribe, EndSubscribeIf, Jobs
      <4> QED
        BY <1>0, <3>1, <4>1 DEF Back, NoJob, Jobs, Ops
    <3>4. CASE EndUnsubscribe(u)
      <4>1. /\ topic' \in [Users -> Topics \cup {<<>>}] /\ left' \subseteq Users
            /\ cut' \subseteq Users
        BY <3>4 DEF EndUnsubscribe, Off, Sure
      <4> QED
        BY <1>0, <3>1, <4>1 DEF Back, NoJob, Jobs, Ops
    <3> QED
      BY <2>12, <3>2, <3>3, <3>4 DEF End
  <2> QED
    BY <1>1, <2>4, <2>5, <2>6, <2>7, <2>8, <2>9, <2>10, <2>11, <2>12, <2>13 DEF Act
<1>2. ASSUME NEW c \in Chars, Change(c) PROVE PlacesOK'
  BY <1>2 DEF Change
<1>3. CASE Loop
  <2>1. CASE Deliver
    BY <2>1 DEF Deliver, Go
  <2>2. CASE OnEvent
    BY <2>2 DEF OnEvent, OnEventWith
  <2>3. CASE Discard
    BY <2>3 DEF Discard
  <2>4. CASE Close
    <3>1. /\ topic' \in [Users -> Topics \cup {<<>>}] /\ left' \subseteq Users
          /\ cut' \subseteq Users /\ owner' = Nobody /\ want' = FALSE /\ job' = job
      BY <2>4 DEF Close, Off, Sure
    <3>2. place' = [u \in Users |-> IF place[u] = "wait" THEN "gone" ELSE place[u]]
      BY <2>4 DEF Close
    <3> QED
      BY <3>1, <3>2
  <2>5. CASE Break \/ Verify
    BY <2>5 DEF Break, Verify
  <2> QED
    BY <1>3, <2>1, <2>2, <2>3, <2>4, <2>5 DEF Loop
<1>4. CASE UNCHANGED vars
  BY <1>4 DEF vars
<1> QED
  BY <1>1, <1>2, <1>3, <1>4, Steps

\* An answer that is put on the stream.
LEMMA AnswerOK ==
  ASSUME stream \in Seq(Lasting), NEW o \in {"none", "accessories", "get", "write", "refusal"},
         NEW b \in Caches, o = "accessories" => b \in [Chars -> Values], Answer(o, b)
  PROVE  stream' \in Seq(Lasting)
<1>1. [kind |-> "answer", to |-> o, body |-> b] \in Lasting
  BY DEF Lasting, Bodies, Answers
<1> QED
  BY <1>1 DEF Answer

\* The message that the loop takes.
LEMMA HeadOK ==
  ASSUME DataOK, stream # <<>>
  PROVE  /\ Head(stream) \in Lasting /\ Tail(stream) \in Seq(Lasting)
         /\ Head(stream).kind = "answer" => Head(stream) \in Bodies
         /\ Head(stream).kind = "event" => Head(stream) \in Reports
<1>1. Head(stream) \in Lasting /\ Tail(stream) \in Seq(Lasting)
  BY DEF DataOK
<1>2. \A m \in Bodies : m.kind = "answer"
  BY DEF Bodies, Answers
<1>3. \A m \in Reports : m.kind = "event"
  BY DEF Reports
<1> QED
  BY <1>1, <1>2, <1>3 DEF Lasting

LEMMA NoAnswerOK == NoAnswer \in Bodies
  BY EmptyCache DEF NoAnswer, Bodies, Answers

\* Values, messages and caches.
LEMMA DataStep ==
  ASSUME PlacesOK, DataOK, [Next]_vars
  PROVE  DataOK'
<1> USE EventsAssumption DEF DataOK, accVars, devVars, goVars, histVars
<1>1. ASSUME NEW u \in Users, Act(u) PROVE DataOK'
  <2>1. ASSUME UNCHANGED <<value, enabled, stream, accs, reply, told, overtaken>>,
               ops' \in 0..MaxOps, changes' = changes, faults' \in 0..MaxFaults
        PROVE  DataOK'
    BY <2>1
  <2>2. ASSUME Back(u) PROVE reply' \in [Users -> Bodies]
    BY <2>2, NoAnswerOK DEF Back
  <2>3. ASSUME NEW o, NEW t, NEW cs, Begin(u, o, t, cs)
        PROVE  ops' \in 0..MaxOps /\ UNCHANGED <<changes, faults, told, overtaken>>
    BY <2>3 DEF Begin
  <2>4. CASE GetAccessories(u) \/ GetCharacteristic(u) \/ PutCharacteristic(u)
    <3>1. \E o, t : Request(u, o, t)
      BY <2>4, Zenon DEF GetAccessories, GetCharacteristic, PutCharacteristic
    <3> QED
      BY <2>3, <3>1 DEF Request
  <2>5. CASE Subscribe(u)
    <3>1. PICK t \in Topics : Begin(u, "subscribe", t, Payload("subscribe", t))
      BY <2>5, Zenon DEF Subscribe
    <3>2. UNCHANGED <<value, enabled, stream, accs, reply>>
      BY <2>5, Zenon DEF Subscribe
    <3> QED
      BY <2>1, <2>3, <3>1, <3>2
  <2>6. CASE Unsubscribe(u) \/ UnsubscribeOne(u)
    <3>1. \E o, t, cs : Begin(u, o, t, cs)
      BY <2>6, Zenon DEF Unsubscribe, UnsubscribeOne
    <3>2. UNCHANGED <<value, enabled, stream, accs, reply>>
      BY <2>6, Zenon DEF Unsubscribe, UnsubscribeOne
    <3> QED
      BY <2>1, <2>3, <3>1, <3>2
  <2>7. CASE Ask(u)
    <3>1. UNCHANGED <<accs, reply, ops, told, overtaken>>
      BY <2>7, Zenon DEF Ask
    <3>2. CASE ServeRead(u)
      <4>1. CASE job[u].op = "accessories" /\ Answer("accessories", value)
        <5>1. stream' \in Seq(Lasting)
          BY <4>1, CacheOf, AnswerOK
        <5> QED
          BY <3>1, <3>2, <5>1 DEF ServeRead
      <4>2. CASE job[u].op = "get" /\ Answer("get", Restrict(value, {job[u].topic}))
        <5>1. job[u].topic \in Chars
          BY <4>2 DEF PlacesOK
        <5>2. Restrict(value, {job[u].topic}) \in [{job[u].topic} -> Values]
          BY <5>1 DEF Restrict
        <5>3. stream' \in Seq(Lasting)
          BY <4>2, <5>1, <5>2, CacheOf, AnswerOK
        <5> QED
          BY <3>1, <3>2, <5>3 DEF ServeRead
      <4> QED
        BY <3>2, <4>1, <4>2 DEF ServeRead
    <3>3. CASE ServeWrite(u)
      <4>1. stream' \in Seq(Lasting)
        BY <3>3, EmptyCache, AnswerOK DEF ServeWrite
      <4>2. enabled' = enabled /\ faults' = faults /\ changes' \in 0..MaxChanges
        BY <3>3 DEF ServeWrite
      <4>3. value' \in [Chars -> Values]
        <5>1. changes' \in Values
          BY <4>2 DEF Values
        <5> QED
          BY <3>3, <5>1 DEF ServeWrite
      <4> QED
        BY <3>1, <4>1, <4>2, <4>3
    <3>4. CASE ServeEvents(u)
      <4>1. stream' \in Seq(Lasting)
        BY <3>4, EmptyCache, AnswerOK DEF ServeEvents
      <4>2. enabled' \subseteq Chars /\ UNCHANGED <<value, changes, faults>>
        BY <3>4 DEF ServeEvents, PlacesOK, Jobs
      <4> QED
        BY <3>1, <4>1, <4>2
    <3>5. CASE Refuse(u)
      <4>1. stream' \in Seq(Lasting)
        BY <3>5, EmptyCache, AnswerOK DEF Refuse
      <4>2. faults' \in 0..MaxFaults /\ UNCHANGED <<value, enabled, changes>>
        BY <3>5 DEF Refuse
      <4> QED
        BY <3>1, <4>1, <4>2
    <3> QED
      BY <2>7, <3>2, <3>3, <3>4, <3>5 DEF Ask
  <2>8. CASE NoClient(u)
    BY <2>2, <2>8 DEF NoClient
  <2>9. CASE Expire(u)
    BY <2>2, <2>9 DEF Expire, ExpireWith
  <2>12. CASE Return(u)
    BY <2>2, <2>12 DEF Return
  <2>10. CASE Take(u)
    BY <2>10 DEF Take
  <2>11. CASE End(u)
    <3>1. /\ reply' \in [Users -> Bodies]
          /\ UNCHANGED <<value, enabled, stream, ops, changes, faults, told, overtaken>>
      BY <2>2, <2>11 DEF End
    <3>2. accs' \in Caches
      <4>1. CASE EndAccessories(u)
        <5>1. reply[u].body \in Caches
          BY DEF Bodies, Answers
        <5> QED
          BY <4>1, <5>1, EmptyCache DEF EndAccessories
      <4>2. CASE EndGet(u) \/ EndPut(u) \/ EndSubscribe(u) \/ EndUnsubscribe(u)
        BY <4>2 DEF EndGet, EndPut, EndSubscribe, EndSubscribeIf, EndUnsubscribe
      <4> QED
        BY <2>11, <4>1, <4>2 DEF End
    <3> QED
      BY <3>1, <3>2
  <2> QED
    BY <1>1, <2>4, <2>5, <2>6, <2>7, <2>8, <2>9, <2>10, <2>11, <2>12 DEF Act
<1>2. ASSUME NEW c \in Chars, Change(c) PROVE DataOK'
  <2>1. changes' \in 0..MaxChanges /\ value' \in [Chars -> Values] /\ changes' \in Values
    BY <1>2 DEF Change, Values
  <2>2. [kind |-> "event", char |-> c, value |-> changes'] \in Lasting
    BY <2>1 DEF Lasting, Reports
  <2>3. stream' \in Seq(Lasting)
    BY <1>2, <2>2 DEF Change
  <2> QED
    BY <1>2, <2>1, <2>3 DEF Change
<1>3. CASE Loop
  <2>1. CASE Deliver
    <3>1. Head(stream) \in Bodies /\ stream' \in Seq(Lasting)
      BY <2>1, HeadOK DEF Deliver
    <3>2. /\ reply' \in [Users -> Bodies] /\ told' \in [Chars -> Values]
          /\ overtaken' \subseteq Chars
      BY <2>1, <3>1 DEF Deliver, Bodies
    <3> QED
      BY <2>1, <3>1, <3>2 DEF Deliver
  <2>2. CASE OnEvent
    <3>1. Head(stream) \in Reports /\ stream' \in Seq(Lasting)
      BY <2>2, HeadOK DEF OnEvent, OnEventWith
    <3> DEFINE c == Head(stream).char  v == Head(stream).value
    <3>2. c \in Chars /\ v \in Values
      BY <3>1 DEF Reports
    <3>3. accs' \in Caches
      <4>1. DOMAIN accs \subseteq Chars /\ accs \in [DOMAIN accs -> Values]
        BY CacheIs
      <4>2. [accs EXCEPT ![c] = v] \in [DOMAIN accs -> Values]
        BY <3>2, <4>1
      <4>3. [accs EXCEPT ![c] = v] \in Caches
        BY <4>1, <4>2, CacheOf
      <4> QED
        BY <2>2, <4>3 DEF OnEvent, OnEventWith
    <3>4. told' \in [Chars -> Values] /\ overtaken' \subseteq Chars
      BY <2>2, <3>2 DEF OnEvent, OnEventWith
    <3> QED
      BY <2>2, <3>1, <3>3, <3>4 DEF OnEvent, OnEventWith
  <2>3. CASE Discard
    BY <2>3 DEF Discard
  <2>4. CASE Close
    <3>1. accs' \in Caches
      BY <2>4, EmptyCache DEF Close
    <3>2. overtaken' \subseteq Chars
      BY <2>4, Zenon DEF Close
    <3>3. UNCHANGED <<value, enabled, stream, reply, told, ops, changes, faults>>
      BY <2>4, Zenon DEF Close
    <3> QED
      BY <3>1, <3>2, <3>3
  <2>5. CASE Break
    <3>1. stream' \in Seq(Lasting)
      BY <2>5 DEF Break
    <3>2. enabled' \subseteq Chars /\ faults' \in 0..MaxFaults
      BY <2>5 DEF Break
    <3>3. UNCHANGED <<value, accs, reply, told, overtaken, ops, changes>>
      BY <2>5, Zenon DEF Break
    <3> QED
      BY <3>1, <3>2, <3>3
  <2>6. CASE Verify
    BY <2>6 DEF Verify
  <2> QED
    BY <1>3, <2>1, <2>2, <2>3, <2>4, <2>5, <2>6 DEF Loop
<1>4. CASE UNCHANGED vars
  BY <1>4 DEF vars
<1> QED
  BY <1>1, <1>2, <1>3, <1>4, Steps

-----------------------------------------------------------------------------
(* The order of the cache. *)

\* A step of one call is no step of another.
LEMMA OthersKept ==
  ASSUME PlacesOK, DataOK, NEW u \in Users, Act(u)
  PROVE  \A v \in Users \ {u} :
           place'[v] = place[v] /\ job'[v] = job[v] /\ reply'[v] = reply[v]
<1> USE DEF PlacesOK, DataOK, goVars, Go, Back, Begin
<1>1. CASE GetAccessories(u) \/ GetCharacteristic(u) \/ PutCharacteristic(u)
  BY <1>1 DEF GetAccessories, GetCharacteristic, PutCharacteristic, Request
<1>2. CASE Subscribe(u) \/ Unsubscribe(u) \/ UnsubscribeOne(u)
  BY <1>2 DEF Subscribe, Unsubscribe, UnsubscribeOne
<1>3. CASE Ask(u) \/ NoClient(u) \/ Expire(u) \/ Return(u) \/ Take(u) \/ End(u)
  BY <1>3 DEF Ask, NoClient, Expire, ExpireWith, Return, Take, End
<1> QED
  BY <1>1, <1>2, <1>3 DEF Act

\* A call that has an answer goes on only to end, and one that needs none is
\* a subscription.
LEMMA AnswersKept ==
  ASSUME PlacesOK, DataOK, NEW u \in Users, Act(u), ~End(u)
  PROVE  \/ UNCHANGED <<place, job, reply>>
         \/ place[u] # "got" /\ (place'[u] = "got" => job'[u].op = "subscribe")
<1> USE DEF PlacesOK, DataOK, Go, Back, Begin
<1>1. CASE GetAccessories(u) \/ GetCharacteristic(u) \/ PutCharacteristic(u)
  BY <1>1 DEF GetAccessories, GetCharacteristic, PutCharacteristic, Request
<1>2. CASE Subscribe(u) \/ Unsubscribe(u) \/ UnsubscribeOne(u)
  BY <1>2 DEF Subscribe, Unsubscribe, UnsubscribeOne
<1>3. CASE Ask(u) \/ NoClient(u) \/ Expire(u) \/ Return(u) \/ Take(u)
  BY <1>3 DEF Ask, NoClient, Expire, ExpireWith, Return, Take
<1> QED
  BY <1>1, <1>2, <1>3 DEF Act

\* The one list of accessories that is to be stored has the values last told.
StoringInv ==
  Storing = {} \/ overtaken = Chars \/ \E u \in Users :
    Storing = {u} /\ \A c \in Chars \ overtaken : reply[u].body[c] = told[c]

CacheInv == StoringInv /\ CacheInOrder

LEMMA CacheStep ==
  ASSUME PlacesOK, DataOK, CacheInv, [Next]_vars
  PROVE  CacheInv'
<1> USE DEF CacheInv, StoringInv, CacheInOrder
<1>1. ASSUME Storing' = Storing, UNCHANGED <<accs, told, overtaken>>,
             \A u \in Storing : reply'[u] = reply[u]
      PROVE  CacheInv'
  BY <1>1
<1>2. ASSUME NEW u \in Users, Act(u) PROVE CacheInv'
  <2>1. CASE ~End(u)
    <3>1. Storing' = Storing /\ \A v \in Storing : reply'[v] = reply[v]
      BY <1>2, <2>1, OthersKept, AnswersKept DEF Storing
    <3>2. UNCHANGED <<accs, told, overtaken>>
      <4>1. CASE GetAccessories(u) \/ GetCharacteristic(u) \/ PutCharacteristic(u)
        BY <4>1, Zenon DEF GetAccessories, GetCharacteristic, PutCharacteristic, Request, Begin,
           devVars
      <4>2. CASE Subscribe(u) \/ Unsubscribe(u) \/ UnsubscribeOne(u)
        BY <4>2, Zenon DEF Subscribe, Unsubscribe, UnsubscribeOne, Begin, devVars
      <4>3. CASE Ask(u) \/ NoClient(u) \/ Expire(u) \/ Return(u) \/ Take(u)
        BY <4>3, Zenon DEF Ask, NoClient, Expire, ExpireWith, Return, Take, devVars, histVars
      <4> QED
        BY <1>2, <2>1, <4>1, <4>2, <4>3 DEF Act
    <3> QED
      BY <1>1, <3>1, <3>2
  <2>2. CASE End(u)
    <3>1. place[u] = "got" /\ Back(u) /\ UNCHANGED <<told, overtaken>>
      BY <2>2 DEF End
    <3>2. Storing' = Storing \ {u} /\ \A v \in Storing' : reply'[v] = reply[v]
      BY <1>2, <3>1, OthersKept DEF Storing, Back, Go, PlacesOK, DataOK
    <3>3. CASE EndAccessories(u) /\ reply[u].to = "accessories"
      <4>1. accs' = reply[u].body /\ u \in Storing
        BY <3>1, <3>3 DEF EndAccessories, Storing
      <4>2. DOMAIN reply[u].body = Chars
        BY <3>3 DEF DataOK, Bodies
      <4>3. CASE overtaken = Chars
        BY <3>1, <4>1, <4>2, <4>3
      <4>4. CASE Storing = {u} /\ \A c \in Chars \ overtaken : reply[u].body[c] = told[c]
        <5>1. Storing' = {}
          BY <3>2, <4>4
        <5>2. \A c \in DOMAIN accs' \ overtaken' : accs'[c] = told'[c]
          BY <3>1, <4>1, <4>2, <4>4
        <5> QED
          BY <5>1, <5>2
      <4> QED
        BY <4>1, <4>3, <4>4
    <3>4. CASE EndAccessories(u) /\ reply[u].to # "accessories"
      <4>1. Storing' = Storing
        BY <3>2, <3>4 DEF Storing
      <4>2. accs' = accs \/ accs' = <<>>
        BY <3>4 DEF EndAccessories
      <4>3. CASE accs' = accs
        BY <1>1, <3>1, <3>2, <4>1, <4>3
      <4>4. CASE accs' = <<>>
        <5>1. DOMAIN accs' = {}
          BY <4>4
        <5> QED
          BY <3>1, <3>2, <4>1, <5>1
      <4> QED
        BY <4>2, <4>3, <4>4
    <3>5. CASE EndGet(u) \/ EndPut(u) \/ EndSubscribe(u) \/ EndUnsubscribe(u)
      <4>1. u \notin Storing /\ accs' = accs
        BY <3>5 DEF EndGet, EndPut, EndSubscribe, EndSubscribeIf, EndUnsubscribe, Storing
      <4> QED
        BY <1>1, <3>1, <3>2, <4>1
    <3> QED
      BY <2>2, <3>3, <3>4, <3>5 DEF End
  <2> QED
    BY <2>1, <2>2
<1>3. ASSUME NEW c \in Chars, Change(c) PROVE CacheInv'
  BY <1>1, <1>3 DEF Change, devVars, goVars, Storing
<1>4. CASE Deliver
  <2> DEFINE m == Head(stream)
  <2>1. CASE ~want
    BY <1>1, <1>4, <2>1 DEF Deliver, Storing
  <2>2. CASE want
    <3>1. owner \in Users /\ place[owner] = "wait" /\ m \in Bodies
      BY <1>4, <2>2, HeadOK DEF Deliver, PlacesOK
    <3>2. /\ place' = [place EXCEPT ![owner] = "got"] /\ job' = job /\ accs' = accs
          /\ reply' = [reply EXCEPT ![owner] = m]
      BY <1>4, <2>2 DEF Deliver, Go
    <3>3. \A v \in Users \ {owner} : v \in Storing' <=> v \in Storing
      BY <3>1, <3>2 DEF Storing, PlacesOK, DataOK
    <3>4. owner \notin Storing /\ \A v \in Storing : reply'[v] = reply[v]
      BY <3>1, <3>2 DEF Storing, DataOK
    <3>5. reply'[owner] = m /\ place'[owner] = "got"
      BY <3>1, <3>2 DEF DataOK, PlacesOK
    <3>6. CASE job[owner].op = "accessories" /\ m.to = "accessories"
      <4>1. told' = m.body /\ overtaken' = IF Storing = {} THEN {} ELSE Chars
        BY <1>4, <2>2, <3>6 DEF Deliver
      <4>2. owner \in Storing'
        BY <3>1, <3>2, <3>5, <3>6 DEF Storing
      <4>3. CASE Storing = {}
        <5>1. Storing' = {owner}
          BY <3>3, <4>2, <4>3 DEF Storing
        <5> QED
          BY <3>1, <3>5, <4>1, <5>1
      <4>4. CASE Storing # {}
        BY <4>1, <4>2, <4>4
      <4> QED
        BY <4>3, <4>4
    <3>7. CASE ~ (job[owner].op = "accessories" /\ m.to = "accessories")
      <4>1. UNCHANGED <<told, overtaken>>
        BY <1>4, <2>2, <3>7 DEF Deliver
      <4>2. owner \notin Storing'
        BY <3>1, <3>2, <3>5, <3>7 DEF Storing
      <4>3. Storing' = Storing
        BY <3>3, <3>4, <4>2 DEF Storing
      <4> QED
        BY <1>1, <3>2, <3>4, <4>1, <4>3
    <3> QED
      BY <3>6, <3>7
  <2> QED
    BY <2>1, <2>2
<1>5. CASE OnEvent
  <2> DEFINE c == Head(stream).char  v == Head(stream).value
  <2>1. /\ Storing' = Storing /\ reply' = reply
        /\ accs' = IF c \in DOMAIN accs THEN [accs EXCEPT ![c] = v] ELSE accs
        /\ told' = [told EXCEPT ![c] = v]
        /\ overtaken' = IF Storing = {} THEN overtaken \ {c} ELSE overtaken \cup {c}
    BY <1>5 DEF OnEvent, OnEventWith, Storing
  <2>2. c \in Chars /\ told \in [Chars -> Values] /\ overtaken \subseteq Chars
    BY <1>5, HeadOK DEF OnEvent, OnEventWith, Reports, DataOK
  <2>3. CASE Storing = {}
    <3>1. DOMAIN accs' = DOMAIN accs /\ DOMAIN accs \subseteq Chars
      BY <2>1, CacheIs DEF DataOK
    <3>2. ASSUME NEW d \in DOMAIN accs', d \notin overtaken' PROVE accs'[d] = told'[d]
      <4>1. accs \in [DOMAIN accs -> Values]
        BY CacheIs DEF DataOK
      <4>2. CASE d = c
        BY <2>1, <2>2, <3>1, <3>2, <4>1, <4>2
      <4>3. CASE d # c
        BY <2>1, <2>2, <2>3, <3>1, <3>2, <4>1, <4>3
      <4> QED
        BY <4>2, <4>3
    <3> QED
      BY <2>1, <2>3, <3>2
  <2>4. CASE Storing # {}
    BY <2>1, <2>2, <2>4
  <2> QED
    BY <2>3, <2>4
<1>6. CASE Close
  <2>1. Storing' = Storing /\ reply' = reply /\ accs' = <<>> /\ told' = told
    BY <1>6 DEF Close, Storing, PlacesOK
  <2>2. overtaken' = IF Storing = {} THEN {} ELSE Chars
    BY <1>6, Zenon DEF Close
  <2>3. DOMAIN accs' = {}
    BY <2>1
  <2> QED
    BY <2>1, <2>2, <2>3
<1>7. CASE Discard \/ Break \/ Verify
  BY <1>1, <1>7, ZenonT(30) DEF Discard, Break, Verify, Storing, devVars, goVars, histVars
<1>8. CASE UNCHANGED vars
  BY <1>1, <1>8, Zenon DEF vars, Storing, devVars, goVars, histVars
<1> QED
  BY <1>2, <1>3, <1>4, <1>5, <1>6, <1>7, <1>8, Steps DEF Loop

-----------------------------------------------------------------------------
(* Subscriptions that are served. *)

\* Events for c are disabled by a call that will close the channels for them.
Pending(c) ==
  \E v \in Users : /\ job[v].op = "unsubscribe" /\ place[v] \in {"wait", "got"}
                   /\ c \in job[v].chars
Supply(c)  == c \in enabled \/ Pending(c)
Calm       == ~deaf /\ ~late /\ (up => ~broken)

QuietInv == (up \/ broken) /\ (broken => stream = <<>>)

\* The answer on the stream is for the caller that waits.
IsAnswer(i) == stream[i].kind = "answer"
ForOwner(i) ==
  /\ owner # Nobody
  /\ job[owner].op = "subscribe" =>
       stream[i].to = "refusal" \/ (stream[i].to = "write" /\ job[owner].chars \subseteq enabled)
StreamInv ==
  ~late => \A i \in 1..Len(stream) : IsAnswer(i) =>
             ForOwner(i) /\ \A j \in 1..Len(stream) : IsAnswer(j) => j = i

HearsInv == Calm => \A u \in Users, c \in Chars : Matches(topic[u], c) => Supply(c)
SureInv ==
  Calm => \A u \in Sure \ cut :
            reply[u].to \in {"none", "write"} => \A c \in job[u].chars : Supply(c)

\* A connection that has ended has nothing on its way.
LEMMA QuietStep ==
  ASSUME FlagsOK, QuietInv, [Next]_vars
  PROVE  QuietInv'
<1> USE DEF QuietInv, FlagsOK, accVars
<1>1. ASSUME NEW u \in Users, Act(u) PROVE QuietInv'
  <2>1. CASE GetAccessories(u) \/ GetCharacteristic(u) \/ PutCharacteristic(u)
    BY <2>1 DEF GetAccessories, GetCharacteristic, PutCharacteristic, Request
  <2>2. CASE Subscribe(u) \/ Unsubscribe(u) \/ UnsubscribeOne(u)
    BY <2>2 DEF Subscribe, Unsubscribe, UnsubscribeOne
  <2>3. CASE Ask(u)
    BY <2>3 DEF Ask
  <2>4. CASE NoClient(u) \/ Expire(u) \/ Return(u) \/ Take(u) \/ End(u)
    BY <2>4 DEF NoClient, Expire, ExpireWith, Return, Take, End
  <2> QED
    BY <1>1, <2>1, <2>2, <2>3, <2>4 DEF Act
<1>2. ASSUME NEW c \in Chars, Change(c) PROVE QuietInv'
  <2>1. up' = up /\ broken' = broken /\ (broken => stream' = stream)
    BY <1>2 DEF Change
  <2> QED
    BY <2>1, Zenon
<1>3. CASE Loop
  <2>1. CASE Deliver \/ OnEvent
    BY <2>1 DEF Deliver, OnEvent, OnEventWith
  <2>2. CASE Break
    BY <2>2 DEF Break
  <2>3. CASE Verify
    BY <2>3 DEF Verify
  <2>4. CASE Discard \/ Close
    BY <2>4 DEF Discard, Close
  <2> QED
    BY <1>3, <2>1, <2>2, <2>3, <2>4 DEF Loop
<1>4. CASE UNCHANGED vars
  BY <1>4 DEF vars
<1> QED
  BY <1>1, <1>2, <1>3, <1>4, Steps

\* The mutex keeps the answers apart.
LEMMA StreamStep ==
  ASSUME FlagsOK, PlacesOK, DataOK, QuietInv, StreamInv, [Next]_vars
  PROVE  StreamInv'
<1>1. ASSUME stream' = stream, late' => late, ~late' => ~late,
             owner' = owner, enabled' = enabled, owner # Nobody => job'[owner] = job[owner]
      PROVE  StreamInv'
  BY <1>1 DEF StreamInv, IsAnswer, ForOwner
<1>2. ASSUME NEW u \in Users, Act(u) PROVE StreamInv'
  <2>1. owner # Nobody /\ owner # u => job'[owner] = job[owner]
    BY <1>2, OthersKept DEF PlacesOK
  <2>2. CASE GetAccessories(u) \/ GetCharacteristic(u) \/ PutCharacteristic(u)
    <3>1. UNCHANGED <<stream, late, owner, enabled>> /\ place[u] = "idle"
      BY <2>2 DEF GetAccessories, GetCharacteristic, PutCharacteristic, Request, Begin, accVars,
         devVars
    <3> QED
      BY <1>1, <2>1, <3>1 DEF PlacesOK
  <2>3. CASE Subscribe(u) \/ Unsubscribe(u) \/ UnsubscribeOne(u)
    <3>1. UNCHANGED <<stream, late, owner, enabled>> /\ place[u] = "idle"
      BY <2>3 DEF Subscribe, Unsubscribe, UnsubscribeOne, Begin, accVars, devVars
    <3> QED
      BY <1>1, <2>1, <3>1 DEF PlacesOK
  <2>4. CASE Ask(u)
    <3>1. owner = Nobody /\ owner' = u /\ job' = job /\ late' = late /\ u # Nobody
      BY <2>4, EventsAssumption DEF Ask
    <3> SUFFICES ASSUME ~late' PROVE StreamInv'
      BY DEF StreamInv
    <3>2. \A i \in 1..Len(stream) : ~IsAnswer(i)
      BY <3>1 DEF StreamInv, ForOwner
    <3>3. \E o, b : /\ Answer(o, b)
                    /\ job[u].op = "subscribe" =>
                         o = "refusal" \/ (o = "write" /\ job[u].chars \subseteq enabled')
      <4>1. CASE ServeRead(u)
        BY <4>1 DEF ServeRead
      <4>2. CASE ServeWrite(u)
        BY <4>2 DEF ServeWrite
      <4>3. CASE ServeEvents(u)
        <5>1. Answer("write", <<>>) /\ (job[u].op = "subscribe" => job[u].chars \subseteq enabled')
          BY <4>3 DEF ServeEvents
        <5> QED
          BY <5>1
      <4>4. CASE Refuse(u)
        BY <4>4, Zenon DEF Refuse
      <4> QED
        BY <2>4, <4>1, <4>2, <4>3, <4>4 DEF Ask
    <3>4. PICK o, b : /\ Answer(o, b)
                      /\ job[u].op = "subscribe" =>
                           o = "refusal" \/ (o = "write" /\ job[u].chars \subseteq enabled')
      BY <3>3
    <3> DEFINE m == [kind |-> "answer", to |-> o, body |-> b]
    <3>5. stream' = Append(stream, m) /\ stream \in Seq(Lasting)
      BY <3>4 DEF Answer, DataOK
    <3>6. PICK n \in Nat : n = Len(stream) + 1
      BY <3>5
    <3>7. Len(stream') = n /\ stream'[n] = m /\ \A i \in 1..Len(stream) : stream'[i] = stream[i]
      BY <3>5, <3>6
    <3>8. \A i \in 1..Len(stream') : IsAnswer(i)' => i = n
      BY <3>2, <3>5, <3>6, <3>7 DEF IsAnswer
    <3>9. ForOwner(n)'
      BY <3>1, <3>4, <3>7 DEF ForOwner
    <3> QED
      BY <3>8, <3>9 DEF StreamInv
  <2>5. CASE NoClient(u)
    <3>1. UNCHANGED <<stream, late, owner, enabled>> /\ place[u] = "ask"
      BY <2>5 DEF NoClient, accVars, devVars, histVars
    <3> QED
      BY <1>1, <2>1, <3>1 DEF PlacesOK
  <2>6. CASE Expire(u)
    <3>1. late' = TRUE
      BY <2>6 DEF Expire, ExpireWith
    <3> QED
      BY <3>1 DEF StreamInv
  <2>9. CASE Return(u)
    <3>1. UNCHANGED <<stream, late, owner, enabled>> /\ place[u] = "gone"
      BY <2>9 DEF Return, accVars, histVars
    <3> QED
      BY <1>1, <2>1, <3>1 DEF PlacesOK
  <2>7. CASE Take(u)
    BY <1>1, <2>7 DEF Take, accVars, devVars, histVars
  <2>8. CASE End(u)
    <3>1. UNCHANGED <<stream, late, owner, enabled>> /\ place[u] = "got"
      BY <2>8 DEF End, accVars
    <3> QED
      BY <1>1, <2>1, <3>1 DEF PlacesOK
  <2> QED
    BY <1>2, <2>2, <2>3, <2>4, <2>5, <2>6, <2>7, <2>8, <2>9 DEF Act
<1>3. ASSUME NEW c \in Chars, Change(c) PROVE StreamInv'
  <2>1. UNCHANGED <<late, owner, enabled, job>>
    BY <1>3 DEF Change, devVars, goVars
  <2>2. CASE stream' = stream
    BY <1>1, <2>1, <2>2
  <2>3. CASE stream' # stream
    <3> DEFINE m == [kind |-> "event", char |-> c, value |-> changes']
    <3>1. stream' = Append(stream, m) /\ stream \in Seq(Lasting)
      BY <1>3, <2>3 DEF Change, DataOK
    <3>2. Len(stream') = Len(stream) + 1 /\ stream'[Len(stream) + 1] = m
      BY <3>1
    <3>3. \A i \in 1..Len(stream) : stream'[i] = stream[i]
      BY <3>1
    <3>4. \A i \in 1..Len(stream') : IsAnswer(i)' =>
            i \in 1..Len(stream) /\ IsAnswer(i) /\ (ForOwner(i) => ForOwner(i)')
      BY <2>1, <3>1, <3>2, <3>3 DEF IsAnswer, ForOwner
    <3> QED
      BY <2>1, <3>4 DEF StreamInv
  <2> QED
    BY <2>2, <2>3
<1>4. ASSUME Deliver \/ OnEvent PROVE StreamInv'
  <2>1. /\ stream # <<>> /\ stream' = Tail(stream) /\ stream \in Seq(Lasting)
        /\ UNCHANGED <<late, job, enabled>>
    BY <1>4 DEF Deliver, OnEvent, OnEventWith, DataOK
  <2>2. Len(stream') = Len(stream) - 1 /\ Len(stream) \in Nat \ {0}
    BY <2>1
  <2>3. \A i \in 1..Len(stream') : i + 1 \in 1..Len(stream) /\ stream'[i] = stream[i + 1]
    BY <2>1, <2>2
  <2>4. Head(stream) = stream[1] /\ 1 \in 1..Len(stream)
    BY <2>1, <2>2
  <2>5. CASE Deliver
    <3>1. IsAnswer(1)
      BY <2>4, <2>5 DEF Deliver, IsAnswer
    <3>2. ~late => \A i \in 1..Len(stream') : ~IsAnswer(i)'
      BY <2>3, <2>4, <3>1 DEF StreamInv, IsAnswer
    <3> QED
      BY <2>1, <3>2 DEF StreamInv
  <2>6. CASE OnEvent
    <3>1. owner' = owner
      BY <2>6 DEF OnEvent, OnEventWith
    <3>2. \A i \in 1..Len(stream') :
            (IsAnswer(i)' <=> IsAnswer(i + 1)) /\ (ForOwner(i + 1) => ForOwner(i)')
      BY <2>1, <2>3, <3>1 DEF IsAnswer, ForOwner
    <3> QED
      BY <2>1, <2>2, <2>3, <3>2 DEF StreamInv
  <2> QED
    BY <1>4, <2>5, <2>6
<1>5. CASE Discard
  BY <1>1, <1>5 DEF Discard, accVars, devVars, histVars
<1>6. CASE Close \/ Break
  <2>1. stream' = <<>>
    BY <1>6 DEF Close, Break, QuietInv
  <2>2. 1..Len(stream') = {}
    BY <2>1
  <2> QED
    BY <2>2 DEF StreamInv
<1>7. CASE Verify
  BY <1>1, <1>7 DEF Verify, devVars, goVars, histVars
<1>8. CASE UNCHANGED vars
  BY <1>1, <1>8 DEF vars, accVars, devVars, goVars, histVars
<1> QED
  BY <1>2, <1>3, <1>4, <1>5, <1>6, <1>7, <1>8, Steps DEF Loop

\* What is enabled, or about to be closed, stays so until the call that has
\* disabled it ends.
LEMMA SupplyKept ==
  ASSUME PlacesOK, DataOK, NEW u \in Users, Act(u), End(u) => job[u].op # "unsubscribe",
         NEW c \in Chars, Supply(c)
  PROVE  Supply(c)'
<1>1. ASSUME Pending(c) PROVE Pending(c)'
  <2>1. PICK v \in Users : /\ job[v].op = "unsubscribe" /\ place[v] \in {"wait", "got"}
                           /\ c \in job[v].chars
    BY <1>1 DEF Pending
  <2>2. CASE v # u
    BY <2>1, <2>2, OthersKept DEF Pending
  <2>3. CASE v = u
    <3>1. Take(u)
      BY <2>1, <2>3 DEF Act, GetAccessories, GetCharacteristic, PutCharacteristic, Request, Begin,
         Subscribe, Unsubscribe, UnsubscribeOne, Ask, NoClient, Expire, ExpireWith, Return
    <3> QED
      BY <1>1, <3>1 DEF Take, Pending
  <2> QED
    BY <2>2, <2>3
<1>2. ASSUME c \in enabled, c \notin enabled' PROVE Pending(c)'
  <2>1. ServeEvents(u) /\ Ask(u)
    BY <1>2 DEF Act, GetAccessories, GetCharacteristic, PutCharacteristic, Request, Subscribe,
       Unsubscribe, UnsubscribeOne, Ask, ServeRead, ServeWrite, Refuse, NoClient, Expire,
       ExpireWith, Return, Take, End, accVars
  <2>2. job[u].op = "unsubscribe" /\ c \in job[u].chars /\ job' = job /\ place'[u] = "wait"
    BY <1>2, <2>1 DEF ServeEvents, Ask, Go, PlacesOK
  <2> QED
    BY <2>2 DEF Pending
<1> QED
  BY <1>1, <1>2 DEF Supply

\* Calm is not made by a step of a call, and a cut is not forgotten but by the
\* subscription itself.
LEMMA CalmKept ==
  ASSUME FlagsOK, NEW u \in Users, Act(u)
  PROVE  (Calm' => Calm) /\ cut \ {u} \subseteq cut'
<1> USE DEF Calm, FlagsOK, accVars, histVars
<1>1. CASE GetAccessories(u) \/ GetCharacteristic(u) \/ PutCharacteristic(u)
  BY <1>1 DEF GetAccessories, GetCharacteristic, PutCharacteristic, Request, Begin
<1>2. CASE Subscribe(u) \/ Unsubscribe(u) \/ UnsubscribeOne(u)
  BY <1>2 DEF Subscribe, Unsubscribe, UnsubscribeOne, Begin
<1>3. CASE Ask(u)
  <2>1. cut \subseteq cut'
    BY <1>3 DEF Ask, ServeRead, ServeWrite, ServeEvents, Refuse
  <2> QED
    BY <1>3, <2>1 DEF Ask
<1>4. CASE NoClient(u) \/ Expire(u) \/ Return(u) \/ Take(u)
  BY <1>4 DEF NoClient, Expire, ExpireWith, Return, Take
<1>5. CASE End(u)
  <2>1. (deaf => deaf') /\ cut \ {u} \subseteq cut'
    BY <1>5 DEF End, EndAccessories, EndGet, EndPut, EndSubscribe, EndSubscribeIf, EndUnsubscribe
  <2> QED
    BY <1>5, <2>1 DEF End
<1> QED
  BY <1>1, <1>2, <1>3, <1>4, <1>5 DEF Act

\* Channels keep their topics, or are closed, but for the one a subscription
\* opens.
LEMMA TopicsKept ==
  ASSUME PlacesOK, NEW u \in Users, Act(u), End(u) => ~EndSubscribe(u)
  PROVE  \A v \in Users : topic'[v] \in {topic[v], <<>>}
<1>1. CASE GetAccessories(u) \/ GetCharacteristic(u) \/ PutCharacteristic(u)
  BY <1>1 DEF GetAccessories, GetCharacteristic, PutCharacteristic, Request, devVars
<1>2. CASE Subscribe(u) \/ Unsubscribe(u) \/ UnsubscribeOne(u)
  BY <1>2 DEF Subscribe, Unsubscribe, UnsubscribeOne, Off, devVars
<1>3. CASE Ask(u) \/ NoClient(u) \/ Expire(u) \/ Return(u) \/ Take(u)
  BY <1>3 DEF Ask, NoClient, Expire, ExpireWith, Return, Take, devVars
<1>4. CASE End(u)
  BY <1>4 DEF End, EndAccessories, EndGet, EndPut, EndUnsubscribe, Off
<1> QED
  BY <1>1, <1>2, <1>3, <1>4 DEF Act

LEMMA NoTopic == \A c : ~Matches(<<>>, c)
  BY DEF Matches

\* An unsubscription closes the channels whose events it has disabled.
LEMMA HearsAct ==
  ASSUME FlagsOK, PlacesOK, DataOK, HearsInv, SureInv, NEW u \in Users, Act(u)
  PROVE  HearsInv'
<1> SUFFICES ASSUME Calm', NEW v \in Users, NEW c \in Chars, Matches(topic'[v], c)
             PROVE  Supply(c)'
  BY DEF HearsInv
<1>0. Calm
  BY CalmKept
<1>1. CASE End(u) /\ EndUnsubscribe(u)
  <2>1. /\ job[u].op = "unsubscribe" /\ enabled' = enabled
        /\ topic' = [w \in Users |->
             IF \E d \in job[u].chars : Related(topic[w], d) THEN <<>> ELSE topic[w]]
    <3>1. job[u].op = "unsubscribe" /\ enabled' = enabled
      BY <1>1 DEF EndUnsubscribe, End, accVars
    <3>2. topic' = [w \in Users |->
             IF w \in {x \in Users : \E d \in job[u].chars : Related(topic[x], d)}
             THEN <<>> ELSE topic[w]]
      BY <1>1, Zenon DEF EndUnsubscribe, Off
    <3> QED
      BY <3>1, <3>2
  <2>2. topic'[v] = topic[v] /\ ~\E d \in job[u].chars : Related(topic[v], d)
    BY <2>1, NoTopic
  <2>3. c \notin job[u].chars /\ Supply(c)
    BY <1>0, <2>2 DEF Related, HearsInv
  <2>4. ASSUME Pending(c) PROVE Pending(c)'
    BY <1>1, <2>3, <2>4, OthersKept DEF Pending
  <2> QED
    BY <2>1, <2>3, <2>4 DEF Supply
<1>2. CASE End(u) /\ EndSubscribe(u)
  <2>0. job[u].op = "subscribe" /\ place[u] = "got" /\ u \in Sure
    BY <1>2 DEF End, EndSubscribe, EndSubscribeIf, Sure
  <2>1. CASE v = u /\ reply[u].to \in {"none", "write"}
    <3>1. /\ topic'[u] = job[u].topic /\ u \notin cut
          /\ {d \in Chars : Matches(job[u].topic, d)} \ job[u].chars = {}
      BY <1>2, <2>1 DEF EndSubscribe, EndSubscribeIf, Calm, PlacesOK
    <3>2. c \in job[u].chars
      BY <2>1, <3>1
    <3>3. Supply(c)
      BY <1>0, <2>0, <2>1, <3>1, <3>2 DEF SureInv
    <3> QED
      BY <2>0, <3>3, SupplyKept
  <2>2. CASE v # u \/ reply[u].to \notin {"none", "write"}
    <3>1. topic'[v] = topic[v]
      BY <1>2, <2>2 DEF EndSubscribe, EndSubscribeIf, PlacesOK
    <3>2. Supply(c)
      BY <1>0, <3>1 DEF HearsInv
    <3> QED
      BY <2>0, <3>2, SupplyKept
  <2> QED
    BY <2>1, <2>2
<1>3. CASE End(u) => ~EndSubscribe(u) /\ ~EndUnsubscribe(u)
  <2>1. topic'[v] = topic[v]
    BY <1>3, TopicsKept, NoTopic
  <2>2. Supply(c)
    BY <1>0, <2>1 DEF HearsInv
  <2>3. End(u) => job[u].op # "unsubscribe"
    BY <1>3 DEF End, EndAccessories, EndGet, EndPut
  <2> QED
    BY <2>2, <2>3, SupplyKept
<1> QED
  BY <1>1, <1>2, <1>3

\* And cuts the subscriptions that are on their way.
LEMMA SureAct ==
  ASSUME FlagsOK, PlacesOK, DataOK, HearsInv, SureInv, NEW u \in Users, Act(u)
  PROVE  SureInv'
<1> SUFFICES ASSUME Calm', NEW v \in Sure', v \notin cut', reply'[v].to \in {"none", "write"},
                    NEW c \in Chars, c \in job'[v].chars
             PROVE  Supply(c)'
  <2>1. PlacesOK'
    BY PlacesStep DEF Act, Next
  <2> QED
    BY <2>1 DEF SureInv, PlacesOK, Jobs, Sure
<1>0. Calm /\ v \in Users
  BY CalmKept DEF Sure
<1>1. CASE v # u
  <2>1. v \in Sure /\ v \notin cut /\ reply'[v] = reply[v] /\ job'[v] = job[v]
    BY <1>0, <1>1, OthersKept, CalmKept DEF Sure
  <2>2. Supply(c)
    BY <1>0, <2>1 DEF SureInv
  <2>3. End(u) => ~EndUnsubscribe(u)
    BY <2>1 DEF EndUnsubscribe
  <2>4. End(u) => job[u].op # "unsubscribe"
    BY <2>3 DEF End, EndAccessories, EndGet, EndPut, EndSubscribe, EndSubscribeIf
  <2> QED
    BY <2>2, <2>4, SupplyKept
<1>2. CASE v = u
  <2>1. place'[u] = "got" /\ job'[u].op = "subscribe"
    BY <1>2 DEF Sure
  <2>2. ~End(u)
    BY <2>1 DEF End, Back, Go, PlacesOK
  <2>3. CASE Subscribe(u)
    <3>1. PICK t \in Topics : /\ Begin(u, "subscribe", t, Payload("subscribe", t))
                              /\ Go(u, IF Covered(t) THEN "got" ELSE "ask")
      BY <2>3, Zenon DEF Subscribe
    <3>2. Covered(t) /\ c \in Payload("subscribe", t)
      BY <1>2, <2>1, <3>1 DEF Begin, Go, PlacesOK
    <3>3. Matches(t, c)
      BY <3>2, MatchesItself DEF Payload
    <3>4. PICK w \in Users : Matches(topic[w], t)
      BY <3>2 DEF Covered
    <3>5. Supply(c)
      BY <1>0, <3>3, <3>4, MatchesMore DEF HearsInv
    <3> QED
      BY <2>2, <3>5, SupplyKept
  <2>4. CASE Take(u)
    <3>1. UNCHANGED <<place, job, reply, cut>>
      BY <2>4 DEF Take, histVars
    <3>2. Supply(c)
      BY <1>0, <1>2, <3>1 DEF SureInv, Sure
    <3> QED
      BY <2>2, <3>2, SupplyKept
  <2>5. CASE ~Subscribe(u) /\ ~Take(u)
    <3>1. place'[u] # "got" \/ job'[u].op # "subscribe"
      <4> USE DEF PlacesOK, Go, Back
      <4>1. CASE GetAccessories(u) \/ GetCharacteristic(u) \/ PutCharacteristic(u)
        BY <4>1 DEF GetAccessories, GetCharacteristic, PutCharacteristic, Request
      <4>2. CASE Unsubscribe(u) \/ UnsubscribeOne(u)
        BY <4>2 DEF Unsubscribe, UnsubscribeOne, Begin
      <4>3. CASE Ask(u) \/ NoClient(u) \/ Expire(u) \/ Return(u)
        BY <4>3 DEF Ask, NoClient, Expire, ExpireWith, Return
      <4> QED
        BY <2>2, <2>5, <4>1, <4>2, <4>3 DEF Act
    <3> QED
      BY <2>1, <3>1
  <2> QED
    BY <2>3, <2>4, <2>5
<1> QED
  BY <1>1, <1>2

\* The loop gives the subscription that waits its answer, and a close takes
\* all channels.
LEMMA HeardStep ==
  ASSUME FlagsOK, PlacesOK, DataOK, StreamInv, HearsInv, SureInv, [Next]_vars
  PROVE  HearsInv' /\ SureInv'
<1>1. ASSUME UNCHANGED <<enabled, topic, place, job, reply, cut>>, Calm' => Calm
      PROVE  HearsInv' /\ SureInv'
  <2>1. Sure' = Sure /\ \A c : Supply(c)' <=> Supply(c)
    BY <1>1 DEF Sure, Supply, Pending
  <2> QED
    BY <1>1, <2>1 DEF HearsInv, SureInv
<1>2. CASE \E u \in Users : Act(u)
  BY <1>2, HearsAct, SureAct
<1>3. ASSUME NEW c \in Chars, Change(c) PROVE HearsInv' /\ SureInv'
  BY <1>1, <1>3 DEF Change, devVars, goVars, Calm
<1>4. CASE Deliver
  <2>1. UNCHANGED <<enabled, topic, job, cut, up, broken, late, deaf>>
    BY <1>4 DEF Deliver
  <2>2. CASE ~want
    BY <1>1, <1>4, <2>1, <2>2 DEF Deliver, Calm
  <2>3. CASE want
    <3>1. /\ owner \in Users /\ place[owner] = "wait"
          /\ place' = [place EXCEPT ![owner] = "got"]
          /\ reply' = [reply EXCEPT ![owner] = Head(stream)]
      BY <1>4, <2>3 DEF Deliver, Go, PlacesOK
    <3>2. \A c : Supply(c)' <=> Supply(c)
      BY <2>1, <3>1 DEF Supply, Pending, PlacesOK
    <3>3. HearsInv'
      BY <2>1, <3>2 DEF HearsInv, Calm
    <3>4. SureInv'
      <4> SUFFICES ASSUME Calm', NEW v \in Sure' \ cut', reply'[v].to \in {"none", "write"},
                          NEW c \in job'[v].chars
                   PROVE  Supply(c)'
        BY DEF SureInv
      <4>1. Calm /\ v \in Users /\ v \notin cut /\ job'[v] = job[v]
        BY <2>1 DEF Calm, Sure
      <4>2. CASE v # owner
        <5>1. v \in Sure /\ reply'[v] = reply[v]
          BY <2>1, <3>1, <4>2 DEF Sure, PlacesOK, DataOK
        <5> QED
          BY <3>2, <4>1, <5>1 DEF SureInv
      <4>3. CASE v = owner
        <5>1. job[owner].op = "subscribe" /\ Head(stream).to \in {"none", "write"}
          BY <2>1, <3>1, <4>3 DEF Sure, DataOK
        <5>2. stream # <<>> /\ Head(stream).kind = "answer" /\ stream \in Seq(Lasting)
          BY <1>4 DEF Deliver, DataOK
        <5>3. 1 \in 1..Len(stream) /\ Head(stream) = stream[1]
          BY <5>2
        <5>4. ForOwner(1)
          BY <4>1, <5>2, <5>3 DEF StreamInv, IsAnswer, Calm
        <5>5. c \in enabled
          BY <2>1, <4>3, <5>1, <5>3, <5>4 DEF ForOwner
        <5> QED
          BY <3>2, <5>5 DEF Supply
      <4> QED
        BY <4>2, <4>3
    <3> QED
      BY <3>3, <3>4
  <2> QED
    BY <2>2, <2>3
<1>5. CASE OnEvent
  BY <1>1, <1>5 DEF OnEvent, OnEventWith, Calm
<1>6. CASE Discard
  BY <1>1, <1>6 DEF Discard, accVars, devVars, histVars, Calm
<1>7. CASE Close
  <2>1. \A u \in Users : topic'[u] = <<>>
    BY <1>7 DEF Close, Off
  <2>2. Sure' \subseteq Sure /\ Sure \subseteq cut'
    BY <1>7 DEF Close, Sure, PlacesOK
  <2> QED
    BY <2>1, <2>2, NoTopic DEF HearsInv, SureInv
<1>8. CASE Break
  <2>1. ~Calm'
    BY <1>8 DEF Break, Calm
  <2> QED
    BY <2>1 DEF HearsInv, SureInv
<1>9. CASE Verify
  BY <1>1, <1>9 DEF Verify, devVars, goVars, histVars, Calm
<1>10. CASE UNCHANGED vars
  BY <1>1, <1>10 DEF vars, accVars, devVars, goVars, histVars, Calm
<1> QED
  BY <1>2, <1>3, <1>4, <1>5, <1>6, <1>7, <1>8, <1>9, <1>10, Steps DEF Loop

-----------------------------------------------------------------------------

IndInv ==
  /\ FlagsOK /\ DataOK /\ PlacesOK
  /\ QuietInv /\ StreamInv /\ HearsInv /\ SureInv /\ CacheInv

\* The inductive invariant holds on a verified device that has no accessories
\* yet and no channels.
THEOREM InitInv == Init => IndInv
<1> SUFFICES ASSUME Init PROVE IndInv
  OBVIOUS
<1> USE EventsAssumption DEF Init
<1>1. FlagsOK
  BY DEF FlagsOK
<1>2. DataOK
  <2>1. value \in [Chars -> Values] /\ told \in [Chars -> Values]
    BY DEF Values
  <2>2. stream \in Seq(Lasting)
    OBVIOUS
  <2>3. accs \in Caches /\ reply \in [Users -> Bodies]
    BY EmptyCache, NoAnswerOK
  <2>4. /\ enabled \subseteq Chars /\ overtaken \subseteq Chars
        /\ ops \in 0..MaxOps /\ changes \in 0..MaxChanges /\ faults \in 0..MaxFaults
    OBVIOUS
  <2> QED
    BY <2>1, <2>2, <2>3, <2>4 DEF DataOK
<1>3. PlacesOK
  BY DEF PlacesOK, NoJob, Jobs, Ops, Topics
<1>4. QuietInv
  BY DEF QuietInv
<1>5. StreamInv
  <2>1. 1..Len(stream) = {}
    OBVIOUS
  <2> QED
    BY <2>1 DEF StreamInv
<1>6. HearsInv /\ SureInv
  BY NoTopic DEF HearsInv, SureInv, Sure
<1>7. CacheInv
  <2>1. DOMAIN accs = {} /\ Storing = {}
    BY DEF Storing
  <2> QED
    BY <2>1 DEF CacheInv, StoringInv, CacheInOrder
<1> QED
  BY <1>1, <1>2, <1>3, <1>4, <1>5, <1>6, <1>7 DEF IndInv

\* The inductive invariant holds in every behaviour.
THEOREM Invariance == Spec => []IndInv
<1>1. IndInv /\ [Next]_vars => IndInv'
  BY FlagsStep, DataStep, PlacesStep, QuietStep, StreamStep, HeardStep, CacheStep, Zenon DEF IndInv
<1> QED
  BY InitInv, <1>1, PTL DEF Spec

\* Every variable keeps its type.
THEOREM TypeCorrect == Spec => []TypeOK
<1>1. IndInv => TypeOK
  BY TypeParts, Zenon DEF IndInv
<1> QED
  BY Invariance, <1>1, PTL

\* A channel that a Subscribe call has returned hears of every characteristic
\* it is for, with the exceptions of Served (device.go:508).
THEOREM ServedAlways == Spec => []Served
<1>1. IndInv => Served
  <2> SUFFICES ASSUME HearsInv, up, ~broken, Settled, ~deaf, ~late,
                      NEW u \in Users, NEW c \in Chars, Matches(topic[u], c)
               PROVE  c \in enabled
    BY DEF IndInv, Served
  <2>1. Supply(c)
    BY DEF HearsInv, Calm
  <2>2. ~Pending(c)
    BY DEF Settled, Pending
  <2> QED
    BY <2>1, <2>2 DEF Supply
<1> QED
  BY Invariance, <1>1, PTL

\* Events and the lists that GetAccessories get leave in d.accs the values of
\* the last of them, but for events that overtook a list (device.go:341-364).
THEOREM CacheInOrderAlways == Spec => []CacheInOrder
<1>1. IndInv => CacheInOrder
  BY Zenon DEF IndInv, CacheInv
<1> QED
  BY Invariance, <1>1, PTL
=============================================================================
