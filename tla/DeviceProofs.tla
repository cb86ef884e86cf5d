----------------------------- MODULE DeviceProofs -----------------------------
(***************************************************************************)
(* Device for any number of operations and background goroutines: what its *)
(* fields say between operations, one reader to a connection, no socket    *)
(* that is let go of, and sessions that are kept.                          *)
(*                                                                         *)
(* Most of it holds until some goroutine acts on a connection that is not  *)
(* its own (overran).  Until then d.cc goes to nil only through the close  *)
(* of that connection, and a connection is dialled only when d.cc is nil.  *)
(***************************************************************************)
EXTENDS Device, TLAPS

\* The type invariant in parts.
FlagsOK ==
  /\ discovered \in BOOLEAN /\ paired \in BOOLEAN /\ verified \in BOOLEAN
  /\ httpc \in BOOLEAN /\ reason \in BOOLEAN
  /\ accPaired \in BOOLEAN /\ overran \in BOOLEAN /\ undone \in BOOLEAN /\ established \in BOOLEAN
  /\ panic \in {"none", "nilConn", "nilEntry", "closeOfClosed"}

ConnsOK ==
  /\ cc \in 0..MaxOps /\ open \subseteq Conns /\ up \subseteq Conns /\ encrypted \subseteq Conns
  /\ stop \in [Conns -> {"nil", "open", "closed"}] /\ dialled \in 0..MaxOps

PlacesOK ==
  /\ pc \in [Threads -> Closing \cup AppPlaces \cup LoopPlaces]
  /\ back \in [Threads -> AppPlaces \cup LoopPlaces]
  /\ own \in [Threads -> 0..MaxOps]

CountsOK ==
  op \in {"setup", "verify"} /\ left \in 0..3 /\ ops \in 0..MaxOps /\ found \in 0..MaxFound

\* The application is in the middle of a handshake.
Underway ==
  \/ pc["app"] \in {"ensure", "connect", "dial", "lookup", "dialing", "post", "reply"}
  \/ pc["app"] \in Closing /\ back["app"] \in {"ensure", "dial"}

\* Where each goroutine may be.
PlacesInv ==
  /\ pc["app"] \in Closing \cup {"idle", "ensure", "connect", "dial", "lookup", "dialing",
                                 "post", "reply", "finish", "flag", "spawn"}
  /\ back["app"] \in {"idle", "ensure", "dial"}
  /\ back["mdns"] = "idle" /\ pc["mdns"] \in Closing \cup {"idle", "forget", "lost"}
  /\ \A g \in Loops : /\ pc[g] \in Closing \cup LoopPlaces
                      /\ back[g] \in {"none", "done"}

\* Connections that have not been dialled are not known to anybody.
DialledInv ==
  /\ cc <= dialled /\ open \subseteq 1..dialled /\ encrypted \subseteq 1..dialled
  /\ \A t \in Threads : own[t] <= dialled
  /\ \A g \in Loops : pc[g] = "loop" => own[g] # 0

\* What a handshake knows.
AppInv ==
  /\ Underway => left >= 1
  /\ (Underway \/ pc["app"] \in {"finish", "flag"}) /\ op = "verify" => paired
  /\ pc["app"] \in {"flag", "spawn"} => op = "verify" /\ cc \in encrypted \cup {0}
  /\ pc["app"] \in {"dial", "lookup", "dialing", "clear"} => cc = 0
  /\ pc["app"] \in {"reply", "finish"} => cc \in {0, own["app"]}

\* The accessory holds a pairing while it keeps up a session.
AccessoryInv ==
  /\ encrypted \cap up # {} => accPaired
  /\ pc["app"] = "finish" /\ op = "verify" /\ cc \in up => accPaired
  /\ pc["app"] = "finish" /\ op = "setup" => cc \notin encrypted

\* A session that is open is verified, or about to be, and a handshake does not
\* go on over it.
SessionInv ==
  ~overran =>
    /\ cc \in open \cap encrypted => verified \/ pc["app"] = "flag"
    /\ pc["app"] = "ensure" /\ op = "verify" => cc \notin open \cap encrypted
    /\ pc["app"] \in {"post", "reply", "finish"} /\ op = "verify" => cc \notin encrypted

\* Goroutines that read, or are about to.
Readers == {g \in Loops : pc[g] \in {"spawned", "loop"}}

ReaderInv ==
  /\ panic = "closeOfClosed" => overran
  /\ ~overran =>
       /\ \A g \in Loops : pc[g] \notin {"none", "spawned"} => own[g] \in encrypted
       /\ \A g \in Loops : pc[g] = "spawned" => own[g] \in encrypted \cup {0}
       /\ \A g, h \in Readers : own[g] = own[h] /\ own[g] # 0 => g = h
       /\ pc["app"] \in {"flag", "spawn"} /\ cc # 0 =>
            \A g \in Loops : pc[g] # "none" => own[g] # cc
       /\ \A g \in Reading : stop[own[g]] = "open"

\* A socket that is open is the device's, and no goroutine that is past its
\* closing thinks it its own.
SocketInv ==
  ~overran =>
    /\ open \subseteq {cc}
    /\ cc \in open => httpc
    /\ \A t \in Threads : pc[t] \in {"await", "wait", "stuck", "drop"} => own[t] \notin open

\* A verified device has a session and a reader, or some goroutine that will
\* unverify it.
ServedInv ==
  verified =>
    /\ paired
    /\ cc \in encrypted \/ undone \/ \E t \in Threads : pc[t] = "clear"
    /\ \/ pc["app"] = "spawn"
       \/ \E g \in Loops : pc[g] = "spawned" \/ (pc[g] = "loop" /\ own[g] = cc)
       \/ \E t \in Threads : pc[t] \in Closing \cup {"stopped"}

\* No goroutine is about to end an established session.
KeptInv ==
  established /\ ~overran =>
    /\ verified /\ cc \in open \cap up \cap encrypted
    /\ \A g \in Loops : pc[g] \in Closing \cup {"stopped"} => own[g] # cc

IndInv ==
  /\ TypeOK /\ PlacesInv /\ DialledInv /\ AppInv /\ AccessoryInv
  /\ SessionInv /\ ReaderInv /\ SocketInv /\ ServedInv /\ KeptInv

-----------------------------------------------------------------------------
\* The steps.
LEMMA Steps ==
  [Next]_vars =>
    \/ AppClose
    \/ PairSetup
    \/ PairVerify
    \/ Ensure
    \/ Connect
    \/ Dial
    \/ DialFailed
    \/ Dialled
    \/ Post
    \/ Reply
    \/ Broken
    \/ SetupDone
    \/ VerifyDone
    \/ Found
    \/ Lost
    \/ LostClose
    \/ \E k \in Conns : Disconnect(k)
    \/ Reset
    \/ UNCHANGED vars
    \/ \E g \in Loops : LoopStart(g)
    \/ \E g \in Loops : LoopStop(g)
    \/ \E g \in Loops : LoopClose(g)
    \/ \E t \in Threads : CloseConn(t)
    \/ \E t \in Threads : CloseAwait(t)
    \/ \E t \in Threads : CloseWaited(t)
    \/ \E t \in Threads : CloseDrop(t)
    \/ \E t \in Threads : CloseClear(t)
    \/ Lookup
    \/ Upgrade
    \/ StartBackgroundRead
    \/ SetDnssdEntry
  BY DEF Next, App, Background, Close

\* The type invariant in parts.
LEMMA Types == TypeOK <=> FlagsOK /\ ConnsOK /\ PlacesOK /\ CountsOK
  BY DEF TypeOK, FlagsOK, ConnsOK, PlacesOK, CountsOK

\* The end of PairVerify.
LEMMA StartIs ==
  ASSUME PlacesOK, StartBackgroundRead
  PROVE  \E g \in Loops :
           /\ pc[g] = "none" /\ pc["app"] = "spawn"
           /\ pc' = [pc EXCEPT !["app"] = "idle", ![g] = "spawned"]
           /\ pc'["app"] = "idle" /\ pc'[g] = "spawned" /\ g # "app"
           /\ own' = [own EXCEPT ![g] = cc] /\ established' = (cc \in open \cap up)
           /\ UNCHANGED <<devVars, connVars, back, op, left, accPaired, panic, overran, undone>>
<1>1. PICK g \in Loops :
        /\ pc[g] = "none" /\ pc["app"] = "spawn"
        /\ pc' = [pc EXCEPT !["app"] = "idle", ![g] = "spawned"]
        /\ own' = [own EXCEPT ![g] = cc] /\ established' = (cc \in open \cap up)
        /\ UNCHANGED <<devVars, connVars, back, op, left, accPaired, panic, overran, undone>>
  BY Zenon DEF StartBackgroundRead, Spawn, At
<1>2. g # "app"
  BY LoopsAssumption
<1>3. pc'["app"] = "idle" /\ pc'[g] = "spawned"
  BY <1>1, <1>2 DEF PlacesOK, Threads
<1> QED
  BY <1>1, <1>2, <1>3, Zenon

\* UpgradeEnc, when there is a connection.
LEMMA UpgradeIs ==
  ASSUME PlacesOK, Upgrade, cc # 0
  PROVE  /\ pc["app"] = "finish" /\ op = "verify"
         /\ pc' = [pc EXCEPT !["app"] = "flag"] /\ pc'["app"] = "flag"
         /\ encrypted' = encrypted \cup {cc}
         /\ UNCHANGED <<devVars, open, up, stop, dialled, back, own, op, left, accPaired,
                        histVars>>
<1>1. /\ pc["app"] = "finish" /\ op = "verify"
      /\ pc' = [pc EXCEPT !["app"] = "flag"]
      /\ encrypted' = encrypted \cup {cc}
      /\ UNCHANGED <<devVars, open, up, stop, dialled, back, own, op, left, accPaired, histVars>>
  BY Zenon DEF Upgrade, Goto, At
<1>2. pc'["app"] = "flag"
  BY <1>1 DEF PlacesOK, Threads
<1> QED
  BY <1>1, <1>2

\* The flags stay flags.
LEMMA FlagsStep ==
  ASSUME FlagsOK, [Next]_vars
  PROVE  FlagsOK'
<1> USE DEF FlagsOK, At, devVars, connVars, goVars, histVars, NilDeref
<1>1. CASE AppClose
  BY <1>1, Zenon DEF AppClose, BeginClose
<1>2. CASE PairSetup
  BY <1>2, Zenon DEF PairSetup
<1>3. CASE PairVerify
  BY <1>3, Zenon DEF PairVerify, BeginClose, Reconnects
<1>4. CASE Ensure
  BY <1>4, Zenon DEF Ensure, NoConn
<1>5. CASE Connect
  BY <1>5, Zenon DEF Connect, BeginClose
<1>6. CASE Dial
  BY <1>6, Zenon DEF Dial
<1>7. CASE DialFailed
  BY <1>7, Zenon DEF DialFailed
<1>8. CASE Dialled
  BY <1>8, Zenon DEF Dialled, NewClient
<1>9. CASE Post
  BY <1>9, Zenon DEF Post, NoConn
<1>10. CASE Reply
  BY <1>10, Zenon DEF Reply, Accepts, Rejects, Stored, LastReply
<1>11. CASE Broken
  BY <1>11, Zenon DEF Broken, Stored
<1>12. CASE SetupDone
  BY <1>12, Zenon DEF SetupDone
<1>13. CASE VerifyDone
  BY <1>13, Zenon DEF VerifyDone
<1>14. CASE Found
  BY <1>14, Zenon DEF Found
<1>15. CASE Lost
  BY <1>15, Zenon DEF Lost
<1>16. CASE LostClose
  BY <1>16, Zenon DEF LostClose, BeginClose
<1>17. CASE \E k \in Conns : Disconnect(k)
  BY <1>17, Zenon DEF Disconnect
<1>18. CASE Reset
  BY <1>18, Zenon DEF Reset
<1>19. CASE UNCHANGED vars
  BY <1>19, Zenon DEF vars
<1>20. CASE \E g \in Loops : LoopStart(g)
  BY <1>20, ZenonT(30) DEF LoopStart, Acts
<1>21. CASE \E g \in Loops : LoopStop(g)
  BY <1>21, Zenon DEF LoopStop, LoopEnded
<1>22. CASE \E g \in Loops : LoopClose(g)
  BY <1>22, Zenon DEF LoopClose, BeginClose
<1>23. CASE \E t \in Threads : CloseConn(t)
  BY <1>23, ZenonT(30) DEF CloseConn, Shut, Acts
<1>24. CASE \E t \in Threads : CloseAwait(t)
  <2> PICK t \in Threads : CloseAwait(t)
    BY <1>24
  <2>1. CASE ~verified
    BY <2>1, Zenon DEF CloseAwait
  <2>2. CASE verified /\ cc = 0
    BY <2>2, Zenon DEF CloseAwait
  <2>3. CASE verified /\ cc # 0
    BY <2>3, Zenon DEF CloseAwait, Acts
  <2> QED
    BY <2>1, <2>2, <2>3
<1>25. CASE \E t \in Threads : CloseWaited(t)
  BY <1>25, Zenon DEF CloseWaited
<1>26. CASE \E t \in Threads : CloseDrop(t)
  BY <1>26, Zenon DEF CloseDrop
<1>27. CASE \E t \in Threads : CloseClear(t)
  BY <1>27, Zenon DEF CloseClear, Forget
<1>28. CASE Lookup
  BY <1>28, Zenon DEF Lookup
<1>29. CASE Upgrade
  BY <1>29, Zenon DEF Upgrade
<1>30. CASE StartBackgroundRead
  <2>1. established' = (cc \in open \cap up)
    BY <1>30, Zenon DEF StartBackgroundRead
  <2>2. UNCHANGED <<devVars, accPaired, panic, overran, undone>>
    BY <1>30, Zenon DEF StartBackgroundRead
  <2>3. established' \in BOOLEAN
    BY <2>1
  <2> QED
    BY <2>2, <2>3, Zenon
<1>31. CASE SetDnssdEntry
  BY <1>31, Zenon DEF SetDnssdEntry
<1> QED
  BY <1>1, <1>2, <1>3, <1>4, <1>5, <1>6, <1>7, <1>8, <1>9, <1>10, <1>11, <1>12, <1>13, <1>14,
     <1>15, <1>16, <1>17, <1>18, <1>19, <1>20, <1>21, <1>22, <1>23, <1>24, <1>25, <1>26, <1>27,
     <1>28, <1>29, <1>30, <1>31,
     Steps

\* Connections stay connections.
LEMMA ConnsStep ==
  ASSUME ConnsOK, PlacesOK, [Next]_vars
  PROVE  ConnsOK'
<1> USE BoundsAssumption DEF ConnsOK, Conns, devVars, connVars, goVars, histVars, NilDeref
<1>1. CASE AppClose
  BY <1>1 DEF AppClose, BeginClose
<1>2. CASE PairSetup
  BY <1>2 DEF PairSetup
<1>3. CASE PairVerify
  BY <1>3 DEF PairVerify, BeginClose, Reconnects
<1>4. CASE Ensure
  BY <1>4 DEF Ensure, NoConn
<1>5. CASE Connect
  BY <1>5 DEF Connect, BeginClose
<1>6. CASE Dial
  BY <1>6 DEF Dial
<1>7. CASE DialFailed
  BY <1>7 DEF DialFailed
<1>8. CASE Dialled
  BY <1>8 DEF Dialled, NewClient
<1>9. CASE Post
  BY <1>9 DEF Post, NoConn
<1>10. CASE Reply
  BY <1>10 DEF Reply, Accepts, Rejects, Stored, LastReply
<1>11. CASE Broken
  BY <1>11 DEF Broken, Stored
<1>12. CASE SetupDone
  BY <1>12 DEF SetupDone
<1>13. CASE VerifyDone
  BY <1>13 DEF VerifyDone
<1>14. CASE Found
  BY <1>14 DEF Found
<1>15. CASE Lost
  BY <1>15 DEF Lost
<1>16. CASE LostClose
  BY <1>16 DEF LostClose, BeginClose
<1>17. CASE \E k \in Conns : Disconnect(k)
  BY <1>17 DEF Disconnect
<1>18. CASE Reset
  BY <1>18 DEF Reset
<1>19. CASE UNCHANGED vars
  BY <1>19 DEF vars
<1>20. CASE \E g \in Loops : LoopStart(g)
  BY <1>20 DEF LoopStart, Acts
<1>21. CASE \E g \in Loops : LoopStop(g)
  BY <1>21 DEF LoopStop, LoopEnded
<1>22. CASE \E g \in Loops : LoopClose(g)
  BY <1>22 DEF LoopClose, BeginClose
<1>23. CASE \E t \in Threads : CloseConn(t)
  BY <1>23 DEF CloseConn, Shut, Acts
<1>24. CASE \E t \in Threads : CloseAwait(t)
  BY <1>24 DEF CloseAwait, Acts
<1>25. CASE \E t \in Threads : CloseWaited(t)
  BY <1>25 DEF CloseWaited
<1>26. CASE \E t \in Threads : CloseDrop(t)
  BY <1>26 DEF CloseDrop
<1>27. CASE \E t \in Threads : CloseClear(t)
  BY <1>27 DEF CloseClear, Forget
<1>28. CASE Lookup
  BY <1>28 DEF Lookup
<1>29. CASE Upgrade
  <2>1. CASE cc = 0
    BY <1>29, <2>1 DEF Upgrade
  <2>2. CASE cc # 0
    <3>1. /\ encrypted' = encrypted \cup {cc}
          /\ UNCHANGED <<cc, open, up, stop, dialled>>
      BY <1>29, <2>2, UpgradeIs
    <3> QED
      BY <2>2, <3>1
  <2> QED
    BY <2>1, <2>2
<1>30. CASE StartBackgroundRead
  BY <1>30, Zenon DEF StartBackgroundRead
<1>31. CASE SetDnssdEntry
  BY <1>31 DEF SetDnssdEntry
<1> QED
  BY <1>1, <1>2, <1>3, <1>4, <1>5, <1>6, <1>7, <1>8, <1>9, <1>10, <1>11, <1>12, <1>13, <1>14,
     <1>15, <1>16, <1>17, <1>18, <1>19, <1>20, <1>21, <1>22, <1>23, <1>24, <1>25, <1>26, <1>27,
     <1>28, <1>29, <1>30, <1>31,
     Steps

\* Goroutines stay in their places.
LEMMA PlacesStep ==
  ASSUME ConnsOK, PlacesOK, [Next]_vars
  PROVE  PlacesOK'
<1> USE BoundsAssumption
    DEF PlacesOK, ConnsOK, Conns, Threads, At, Goto, devVars, connVars, goVars, histVars,
        NilDeref, Closing, AppPlaces, LoopPlaces
<1>1. CASE AppClose
  BY <1>1 DEF AppClose, BeginClose
<1>2. CASE PairSetup
  BY <1>2 DEF PairSetup
<1>3. CASE PairVerify
  <2>1. CASE verified
    BY <1>3, <2>1 DEF PairVerify, BeginClose, Reconnects
  <2>2. CASE ~verified
    BY <1>3, <2>2 DEF PairVerify, Reconnects
  <2> QED
    BY <2>1, <2>2
<1>4. CASE Ensure
  BY <1>4 DEF Ensure, NoConn
<1>5. CASE Connect
  BY <1>5 DEF Connect, BeginClose
<1>6. CASE Dial
  BY <1>6 DEF Dial
<1>7. CASE DialFailed
  BY <1>7 DEF DialFailed
<1>8. CASE Dialled
  BY <1>8 DEF Dialled, NewClient
<1>9. CASE Post
  <2>1. CASE httpc /\ cc = 0
    BY <1>9, <2>1 DEF Post
  <2>2. CASE ~(httpc /\ cc = 0)
    <3>1. pc' \in [Threads -> Closing \cup AppPlaces \cup LoopPlaces]
      BY <1>9, <2>2, ZenonT(30) DEF Post
    <3>2. own' = [own EXCEPT !["app"] = cc] /\ UNCHANGED back
      BY <1>9, <2>2, Zenon DEF Post
    <3> QED
      BY <3>1, <3>2
  <2> QED
    BY <2>1, <2>2
<1>10. CASE Reply
  BY <1>10 DEF Reply, Accepts, Rejects, Stored, LastReply
<1>11. CASE Broken
  BY <1>11 DEF Broken, Stored
<1>12. CASE SetupDone
  BY <1>12 DEF SetupDone
<1>13. CASE VerifyDone
  BY <1>13 DEF VerifyDone
<1>14. CASE Found
  BY <1>14 DEF Found
<1>15. CASE Lost
  BY <1>15 DEF Lost
<1>16. CASE LostClose
  BY <1>16 DEF LostClose, BeginClose
<1>17. CASE \E k \in Conns : Disconnect(k)
  BY <1>17 DEF Disconnect
<1>18. CASE Reset
  BY <1>18 DEF Reset
<1>19. CASE UNCHANGED vars
  BY <1>19 DEF vars
<1>20. CASE \E g \in Loops : LoopStart(g)
  <2> PICK g \in Loops : LoopStart(g)
    BY <1>20
  <2>1. CASE cc = 0
    BY <2>1 DEF LoopStart
  <2>2. CASE cc # 0
    BY <2>2, ZenonT(30) DEF LoopStart
  <2> QED
    BY <2>1, <2>2
<1>21. CASE \E g \in Loops : LoopStop(g)
  BY <1>21 DEF LoopStop, LoopEnded
<1>22. CASE \E g \in Loops : LoopClose(g)
  BY <1>22 DEF LoopClose, BeginClose
<1>23. CASE \E t \in Threads : CloseConn(t)
  BY <1>23 DEF CloseConn, Shut, Acts
<1>24. CASE \E t \in Threads : CloseAwait(t)
  BY <1>24 DEF CloseAwait, Acts
<1>25. CASE \E t \in Threads : CloseWaited(t)
  BY <1>25 DEF CloseWaited
<1>26. CASE \E t \in Threads : CloseDrop(t)
  BY <1>26 DEF CloseDrop
<1>27. CASE \E t \in Threads : CloseClear(t)
  BY <1>27 DEF CloseClear, Forget
<1>28. CASE Lookup
  BY <1>28 DEF Lookup
<1>29. CASE Upgrade
  BY <1>29 DEF Upgrade
<1>30. CASE StartBackgroundRead
  BY <1>30, ZenonT(30) DEF StartBackgroundRead, Spawn
<1>31. CASE SetDnssdEntry
  BY <1>31 DEF SetDnssdEntry
<1> QED
  BY <1>1, <1>2, <1>3, <1>4, <1>5, <1>6, <1>7, <1>8, <1>9, <1>10, <1>11, <1>12, <1>13, <1>14,
     <1>15, <1>16, <1>17, <1>18, <1>19, <1>20, <1>21, <1>22, <1>23, <1>24, <1>25, <1>26, <1>27,
     <1>28, <1>29, <1>30, <1>31,
     Steps

\* Counters stay within their bounds.
LEMMA CountsStep ==
  ASSUME CountsOK, PlacesInv, AppInv, [Next]_vars
  PROVE  CountsOK'
<1> USE BoundsAssumption
    DEF CountsOK, At, devVars, connVars, goVars, histVars, NilDeref
<1>1. CASE AppClose
  BY <1>1 DEF AppClose, BeginClose
<1>2. CASE PairSetup
  BY <1>2 DEF PairSetup
<1>3. CASE PairVerify
  BY <1>3 DEF PairVerify, BeginClose, Reconnects
<1>4. CASE Ensure
  BY <1>4 DEF Ensure, NoConn
<1>5. CASE Connect
  BY <1>5 DEF Connect, BeginClose
<1>6. CASE Dial
  BY <1>6 DEF Dial
<1>7. CASE DialFailed
  BY <1>7 DEF DialFailed
<1>8. CASE Dialled
  BY <1>8 DEF Dialled, NewClient
<1>9. CASE Post
  BY <1>9 DEF Post, NoConn
<1>10. CASE Reply
  BY <1>10 DEF Reply, Accepts, Rejects, Stored, LastReply, AppInv, Underway
<1>11. CASE Broken
  BY <1>11 DEF Broken, Stored
<1>12. CASE SetupDone
  BY <1>12 DEF SetupDone
<1>13. CASE VerifyDone
  BY <1>13 DEF VerifyDone
<1>14. CASE Found
  BY <1>14 DEF Found
<1>15. CASE Lost
  BY <1>15 DEF Lost
<1>16. CASE LostClose
  BY <1>16 DEF LostClose, BeginClose
<1>17. CASE \E k \in Conns : Disconnect(k)
  BY <1>17 DEF Disconnect
<1>18. CASE Reset
  BY <1>18 DEF Reset
<1>19. CASE UNCHANGED vars
  BY <1>19 DEF vars
<1>20. CASE \E g \in Loops : LoopStart(g)
  BY <1>20 DEF LoopStart, Acts
<1>21. CASE \E g \in Loops : LoopStop(g)
  BY <1>21 DEF LoopStop, LoopEnded
<1>22. CASE \E g \in Loops : LoopClose(g)
  BY <1>22 DEF LoopClose, BeginClose
<1>23. CASE \E t \in Threads : CloseConn(t)
  BY <1>23 DEF CloseConn, Shut, Acts
<1>24. CASE \E t \in Threads : CloseAwait(t)
  BY <1>24 DEF CloseAwait, Acts
<1>25. CASE \E t \in Threads : CloseWaited(t)
  BY <1>25 DEF CloseWaited
<1>26. CASE \E t \in Threads : CloseDrop(t)
  BY <1>26 DEF CloseDrop
<1>27. CASE \E t \in Threads : CloseClear(t)
  BY <1>27 DEF CloseClear, Forget
<1>28. CASE Lookup
  BY <1>28 DEF Lookup
<1>29. CASE Upgrade
  BY <1>29 DEF Upgrade
<1>30. CASE StartBackgroundRead
  BY <1>30 DEF StartBackgroundRead
<1>31. CASE SetDnssdEntry
  BY <1>31 DEF SetDnssdEntry
<1> QED
  BY <1>1, <1>2, <1>3, <1>4, <1>5, <1>6, <1>7, <1>8, <1>9, <1>10, <1>11, <1>12, <1>13, <1>14,
     <1>15, <1>16, <1>17, <1>18, <1>19, <1>20, <1>21, <1>22, <1>23, <1>24, <1>25, <1>26, <1>27,
     <1>28, <1>29, <1>30, <1>31,
     Steps

-----------------------------------------------------------------------------
(* What the goroutines do. *)

\* Each goroutine stays in its own places.
LEMMA PlacesInvStep ==
  ASSUME PlacesOK, PlacesInv, [Next]_vars
  PROVE  PlacesInv'
<1> USE LoopsAssumption
    DEF PlacesInv, PlacesOK, Threads, Closing, LoopPlaces, At, Goto, devVars, connVars,
        goVars, histVars, NilDeref
<1>1. CASE AppClose
  BY <1>1 DEF AppClose, BeginClose
<1>2. CASE PairSetup
  BY <1>2 DEF PairSetup
<1>3. CASE PairVerify
  BY <1>3 DEF PairVerify, BeginClose, Reconnects
<1>4. CASE Ensure
  BY <1>4 DEF Ensure, NoConn
<1>5. CASE Connect
  BY <1>5 DEF Connect, BeginClose
<1>6. CASE Dial
  BY <1>6 DEF Dial
<1>7. CASE DialFailed
  BY <1>7 DEF DialFailed
<1>8. CASE Dialled
  BY <1>8 DEF Dialled, NewClient
<1>9. CASE Post
  BY <1>9 DEF Post, NoConn
<1>10. CASE Reply
  BY <1>10 DEF Reply, Accepts, Rejects, Stored, LastReply
<1>11. CASE Broken
  BY <1>11 DEF Broken, Stored
<1>12. CASE SetupDone
  BY <1>12 DEF SetupDone
<1>13. CASE VerifyDone
  BY <1>13 DEF VerifyDone
<1>14. CASE Found
  BY <1>14 DEF Found
<1>15. CASE Lost
  BY <1>15 DEF Lost
<1>16. CASE LostClose
  BY <1>16 DEF LostClose, BeginClose
<1>17. CASE \E k \in Conns : Disconnect(k)
  BY <1>17 DEF Disconnect
<1>18. CASE Reset
  BY <1>18 DEF Reset
<1>19. CASE UNCHANGED vars
  BY <1>19 DEF vars
<1>20. CASE \E g \in Loops : LoopStart(g)
  BY <1>20, ZenonT(30) DEF LoopStart, Acts
<1>21. CASE \E g \in Loops : LoopStop(g)
  BY <1>21 DEF LoopStop, LoopEnded
<1>22. CASE \E g \in Loops : LoopClose(g)
  BY <1>22 DEF LoopClose, BeginClose
<1>23. CASE \E t \in Threads : CloseConn(t)
  BY <1>23, ZenonT(30) DEF CloseConn, Shut, Acts
<1>24. CASE \E t \in Threads : CloseAwait(t)
  BY <1>24 DEF CloseAwait, Acts
<1>25. CASE \E t \in Threads : CloseWaited(t)
  BY <1>25 DEF CloseWaited
<1>26. CASE \E t \in Threads : CloseDrop(t)
  BY <1>26 DEF CloseDrop
<1>27. CASE \E t \in Threads : CloseClear(t)
  BY <1>27 DEF CloseClear, Forget
<1>28. CASE Lookup
  BY <1>28 DEF Lookup
<1>29. CASE Upgrade
  BY <1>29 DEF Upgrade
<1>30. CASE StartBackgroundRead
  BY <1>30, ZenonT(30) DEF StartBackgroundRead, Spawn
<1>31. CASE SetDnssdEntry
  BY <1>31 DEF SetDnssdEntry
<1> QED
  BY <1>1, <1>2, <1>3, <1>4, <1>5, <1>6, <1>7, <1>8, <1>9, <1>10, <1>11, <1>12, <1>13, <1>14,
     <1>15, <1>16, <1>17, <1>18, <1>19, <1>20, <1>21, <1>22, <1>23, <1>24, <1>25, <1>26, <1>27,
     <1>28, <1>29, <1>30, <1>31,
     Steps

\* Nobody knows a connection that has not been dialled.
LEMMA DialledStep ==
  ASSUME ConnsOK, PlacesOK, PlacesInv, DialledInv, [Next]_vars
  PROVE  DialledInv'
<1> USE LoopsAssumption, BoundsAssumption
    DEF DialledInv, ConnsOK, PlacesOK, Threads, Conns, At, Goto, devVars, connVars, goVars,
        histVars, NilDeref, Closing, PlacesInv
<1>1. CASE AppClose
  BY <1>1 DEF AppClose, BeginClose
<1>2. CASE PairSetup
  BY <1>2 DEF PairSetup
<1>3. CASE PairVerify
  BY <1>3 DEF PairVerify, BeginClose, Reconnects
<1>4. CASE Ensure
  BY <1>4 DEF Ensure, NoConn
<1>5. CASE Connect
  BY <1>5 DEF Connect, BeginClose
<1>6. CASE Dial
  BY <1>6 DEF Dial
<1>7. CASE DialFailed
  BY <1>7 DEF DialFailed
<1>8. CASE Dialled
  BY <1>8 DEF Dialled, NewClient
<1>9. CASE Post
  BY <1>9 DEF Post, NoConn
<1>10. CASE Reply
  BY <1>10 DEF Reply, Accepts, Rejects, Stored, LastReply
<1>11. CASE Broken
  BY <1>11 DEF Broken, Stored
<1>12. CASE SetupDone
  BY <1>12 DEF SetupDone
<1>13. CASE VerifyDone
  BY <1>13 DEF VerifyDone
<1>14. CASE Found
  BY <1>14 DEF Found
<1>15. CASE Lost
  BY <1>15 DEF Lost
<1>16. CASE LostClose
  BY <1>16 DEF LostClose, BeginClose
<1>17. CASE \E k \in Conns : Disconnect(k)
  BY <1>17 DEF Disconnect
<1>18. CASE Reset
  BY <1>18 DEF Reset
<1>19. CASE UNCHANGED vars
  BY <1>19 DEF vars
<1>20. CASE \E g \in Loops : LoopStart(g)
  <2> PICK g \in Loops : LoopStart(g)
    BY <1>20
  <2>1. CASE cc = 0
    <3>1. UNCHANGED <<pc, own, open, cc, encrypted, dialled>>
      BY <2>1 DEF LoopStart
    <3> QED
      BY <3>1
  <2>2. CASE cc # 0
    <3>1. /\ pc' = [pc EXCEPT ![g] = "loop"] /\ own' = [own EXCEPT ![g] = cc]
          /\ UNCHANGED <<cc, open, encrypted, dialled>>
      BY <2>2 DEF LoopStart, Acts
    <3> QED
      BY <2>2, <3>1
  <2> QED
    BY <2>1, <2>2
<1>21. CASE \E g \in Loops : LoopStop(g)
  BY <1>21 DEF LoopStop, LoopEnded
<1>22. CASE \E g \in Loops : LoopClose(g)
  BY <1>22 DEF LoopClose, BeginClose
<1>23. CASE \E t \in Threads : CloseConn(t)
  <2> PICK t \in Threads : CloseConn(t)
    BY <1>23
  <2>1. CASE cc = 0
    <3>1. UNCHANGED <<pc, own, open, cc, encrypted, dialled>>
      BY <2>1 DEF CloseConn
    <3> QED
      BY <3>1
  <2>2. CASE cc # 0
    <3>1. /\ pc' = [pc EXCEPT ![t] = "await"] /\ open' = open \ {cc}
          /\ UNCHANGED <<cc, own, encrypted, dialled>>
      BY <2>2 DEF CloseConn, Acts, Shut
    <3> QED
      BY <3>1
  <2> QED
    BY <2>1, <2>2
<1>24. CASE \E t \in Threads : CloseAwait(t)
  BY <1>24 DEF CloseAwait, Acts
<1>25. CASE \E t \in Threads : CloseWaited(t)
  BY <1>25 DEF CloseWaited
<1>26. CASE \E t \in Threads : CloseDrop(t)
  BY <1>26 DEF CloseDrop
<1>27. CASE \E t \in Threads : CloseClear(t)
  BY <1>27 DEF CloseClear, Forget
<1>28. CASE Lookup
  BY <1>28 DEF Lookup
<1>29. CASE Upgrade
  <2>1. CASE cc = 0
    <3>1. UNCHANGED <<pc, own, open, cc, encrypted, dialled>>
      BY <1>29, <2>1 DEF Upgrade
    <3> QED
      BY <3>1
  <2>2. CASE cc # 0
    <3>1. /\ pc' = [pc EXCEPT !["app"] = "flag"] /\ encrypted' = encrypted \cup {cc}
          /\ UNCHANGED <<own, open, cc, dialled>>
      BY <1>29, <2>2, UpgradeIs
    <3> QED
      BY <2>2, <3>1
  <2> QED
    BY <2>1, <2>2
<1>30. CASE StartBackgroundRead
  <2>1. PICK g \in Loops :
          /\ pc' = [pc EXCEPT !["app"] = "idle", ![g] = "spawned"]
          /\ own' = [own EXCEPT ![g] = cc]
          /\ UNCHANGED <<cc, open, encrypted, dialled>>
    BY <1>30, StartIs
  <2>2. \A h \in Loops : pc'[h] = "loop" => own'[h] = own[h] /\ pc[h] = "loop"
    BY <2>1
  <2>3. \A t \in Threads : own'[t] <= dialled
    BY <2>1
  <2> QED
    BY <2>1, <2>2, <2>3
<1>31. CASE SetDnssdEntry
  BY <1>31 DEF SetDnssdEntry
<1> QED
  BY <1>1, <1>2, <1>3, <1>4, <1>5, <1>6, <1>7, <1>8, <1>9, <1>10, <1>11, <1>12, <1>13, <1>14,
     <1>15, <1>16, <1>17, <1>18, <1>19, <1>20, <1>21, <1>22, <1>23, <1>24, <1>25, <1>26, <1>27,
     <1>28, <1>29, <1>30, <1>31,
     Steps

\* What the application knows in a handshake.
LEMMA AppStep ==
  ASSUME FlagsOK, ConnsOK, PlacesOK, CountsOK, PlacesInv, AppInv, [Next]_vars
  PROVE  AppInv'
<1> USE LoopsAssumption
    DEF AppInv, Underway, PlacesInv, PlacesOK, CountsOK, Threads, Closing, At, Goto, devVars,
        connVars, goVars, histVars, NilDeref
<1>1. CASE AppClose
  BY <1>1 DEF AppClose, BeginClose
<1>2. CASE PairSetup
  BY <1>2 DEF PairSetup
<1>3. CASE PairVerify
  BY <1>3 DEF PairVerify, BeginClose, Reconnects
<1>4. CASE Ensure
  BY <1>4 DEF Ensure, NoConn
<1>5. CASE Connect
  BY <1>5 DEF Connect, BeginClose
<1>6. CASE Dial
  BY <1>6 DEF Dial
<1>7. CASE DialFailed
  BY <1>7 DEF DialFailed
<1>8. CASE Dialled
  BY <1>8 DEF Dialled, NewClient
<1>9. CASE Post
  BY <1>9 DEF Post, NoConn
<1>10. CASE Reply
  BY <1>10 DEF Reply, Accepts, Rejects, Stored, LastReply
<1>11. CASE Broken
  BY <1>11 DEF Broken, Stored
<1>12. CASE SetupDone
  BY <1>12 DEF SetupDone
<1>13. CASE VerifyDone
  BY <1>13 DEF VerifyDone
<1>14. CASE Found
  BY <1>14 DEF Found
<1>15. CASE Lost
  BY <1>15 DEF Lost
<1>16. CASE LostClose
  BY <1>16 DEF LostClose, BeginClose
<1>17. CASE \E k \in Conns : Disconnect(k)
  BY <1>17 DEF Disconnect
<1>18. CASE Reset
  BY <1>18 DEF Reset
<1>19. CASE UNCHANGED vars
  BY <1>19 DEF vars
<1>20. CASE \E g \in Loops : LoopStart(g)
  BY <1>20 DEF LoopStart, Acts
<1>21. CASE \E g \in Loops : LoopStop(g)
  BY <1>21 DEF LoopStop, LoopEnded
<1>22. CASE \E g \in Loops : LoopClose(g)
  BY <1>22 DEF LoopClose, BeginClose
<1>23. CASE \E t \in Threads : CloseConn(t)
  BY <1>23 DEF CloseConn, Shut, Acts
<1>24. CASE \E t \in Threads : CloseAwait(t)
  BY <1>24 DEF CloseAwait, Acts
<1>25. CASE \E t \in Threads : CloseWaited(t)
  BY <1>25 DEF CloseWaited
<1>26. CASE \E t \in Threads : CloseDrop(t)
  BY <1>26 DEF CloseDrop
<1>27. CASE \E t \in Threads : CloseClear(t)
  BY <1>27 DEF CloseClear, Forget
<1>28. CASE Lookup
  BY <1>28 DEF Lookup
<1>29. CASE Upgrade
  <2>1. CASE cc = 0
    BY <1>29, <2>1 DEF Upgrade
  <2>2. CASE cc # 0
    BY <1>29, <2>2, UpgradeIs
  <2> QED
    BY <2>1, <2>2
<1>30. CASE StartBackgroundRead
  BY <1>30, StartIs
<1>31. CASE SetDnssdEntry
  BY <1>31 DEF SetDnssdEntry
<1> QED
  BY <1>1, <1>2, <1>3, <1>4, <1>5, <1>6, <1>7, <1>8, <1>9, <1>10, <1>11, <1>12, <1>13, <1>14,
     <1>15, <1>16, <1>17, <1>18, <1>19, <1>20, <1>21, <1>22, <1>23, <1>24, <1>25, <1>26, <1>27,
     <1>28, <1>29, <1>30, <1>31,
     Steps

\* The accessory holds a pairing while it keeps up a session.
LEMMA AccessoryStep ==
  ASSUME TypeOK, PlacesInv, DialledInv, AppInv, AccessoryInv, [Next]_vars
  PROVE  AccessoryInv'
<1> USE Types, LoopsAssumption, BoundsAssumption
    DEF AccessoryInv, AppInv, DialledInv, PlacesInv, FlagsOK, ConnsOK, PlacesOK, Threads, Conns,
        At, Goto, devVars, connVars, goVars, histVars, NilDeref
<1>1. CASE AppClose
  BY <1>1 DEF AppClose, BeginClose
<1>2. CASE PairSetup
  BY <1>2 DEF PairSetup
<1>3. CASE PairVerify
  BY <1>3 DEF PairVerify, BeginClose, Reconnects
<1>4. CASE Ensure
  BY <1>4 DEF Ensure, NoConn
<1>5. CASE Connect
  BY <1>5 DEF Connect, BeginClose
<1>6. CASE Dial
  BY <1>6 DEF Dial
<1>7. CASE DialFailed
  BY <1>7 DEF DialFailed
<1>8. CASE Dialled
  BY <1>8 DEF Dialled, NewClient
<1>9. CASE Post
  BY <1>9 DEF Post, NoConn
<1>10. CASE Reply
  BY <1>10 DEF Reply, Accepts, Rejects, Stored, LastReply
<1>11. CASE Broken
  BY <1>11 DEF Broken, Stored
<1>12. CASE SetupDone
  BY <1>12 DEF SetupDone
<1>13. CASE VerifyDone
  BY <1>13 DEF VerifyDone
<1>14. CASE Found
  BY <1>14 DEF Found
<1>15. CASE Lost
  BY <1>15 DEF Lost
<1>16. CASE LostClose
  BY <1>16 DEF LostClose, BeginClose
<1>17. CASE \E k \in Conns : Disconnect(k)
  BY <1>17 DEF Disconnect
<1>18. CASE Reset
  BY <1>18 DEF Reset
<1>19. CASE UNCHANGED vars
  BY <1>19 DEF vars
<1>20. CASE \E g \in Loops : LoopStart(g)
  BY <1>20 DEF LoopStart, Acts
<1>21. CASE \E g \in Loops : LoopStop(g)
  BY <1>21 DEF LoopStop, LoopEnded
<1>22. CASE \E g \in Loops : LoopClose(g)
  BY <1>22 DEF LoopClose, BeginClose
<1>23. CASE \E t \in Threads : CloseConn(t)
  BY <1>23 DEF CloseConn, Shut, Acts
<1>24. CASE \E t \in Threads : CloseAwait(t)
  BY <1>24 DEF CloseAwait, Acts
<1>25. CASE \E t \in Threads : CloseWaited(t)
  BY <1>25 DEF CloseWaited
<1>26. CASE \E t \in Threads : CloseDrop(t)
  BY <1>26 DEF CloseDrop
<1>27. CASE \E t \in Threads : CloseClear(t)
  BY <1>27 DEF CloseClear, Forget
<1>28. CASE Lookup
  BY <1>28 DEF Lookup
<1>29. CASE Upgrade
  <2>1. CASE cc = 0
    BY <1>29, <2>1 DEF Upgrade
  <2>2. CASE cc # 0
    BY <1>29, <2>2, UpgradeIs
  <2> QED
    BY <2>1, <2>2
<1>30. CASE StartBackgroundRead
  BY <1>30, StartIs
<1>31. CASE SetDnssdEntry
  BY <1>31 DEF SetDnssdEntry
<1> QED
  BY <1>1, <1>2, <1>3, <1>4, <1>5, <1>6, <1>7, <1>8, <1>9, <1>10, <1>11, <1>12, <1>13, <1>14,
     <1>15, <1>16, <1>17, <1>18, <1>19, <1>20, <1>21, <1>22, <1>23, <1>24, <1>25, <1>26, <1>27,
     <1>28, <1>29, <1>30, <1>31,
     Steps

\* A session that is open is verified.
LEMMA SessionStep ==
  ASSUME TypeOK, PlacesInv, DialledInv, AppInv, AccessoryInv, SessionInv, [Next]_vars
  PROVE  SessionInv'
<1> USE Types, LoopsAssumption
    DEF SessionInv, AccessoryInv, AppInv, DialledInv, PlacesInv, FlagsOK, ConnsOK, PlacesOK,
        Threads, Conns,
        At, Goto, devVars, connVars, goVars, histVars, NilDeref
<1>1. CASE AppClose
  BY <1>1 DEF AppClose, BeginClose
<1>2. CASE PairSetup
  BY <1>2 DEF PairSetup
<1>3. CASE PairVerify
  BY <1>3 DEF PairVerify, BeginClose, Reconnects
<1>4. CASE Ensure
  BY <1>4 DEF Ensure, NoConn
<1>5. CASE Connect
  BY <1>5 DEF Connect, BeginClose
<1>6. CASE Dial
  BY <1>6 DEF Dial
<1>7. CASE DialFailed
  BY <1>7 DEF DialFailed
<1>8. CASE Dialled
  BY <1>8 DEF Dialled, NewClient
<1>9. CASE Post
  BY <1>9 DEF Post, NoConn
<1>10. CASE Reply
  BY <1>10 DEF Reply, Accepts, Rejects, Stored, LastReply
<1>11. CASE Broken
  BY <1>11 DEF Broken, Stored
<1>12. CASE SetupDone
  BY <1>12 DEF SetupDone
<1>13. CASE VerifyDone
  BY <1>13 DEF VerifyDone
<1>14. CASE Found
  BY <1>14 DEF Found
<1>15. CASE Lost
  BY <1>15 DEF Lost
<1>16. CASE LostClose
  BY <1>16 DEF LostClose, BeginClose
<1>17. CASE \E k \in Conns : Disconnect(k)
  BY <1>17 DEF Disconnect
<1>18. CASE Reset
  BY <1>18 DEF Reset
<1>19. CASE UNCHANGED vars
  BY <1>19 DEF vars
<1>20. CASE \E g \in Loops : LoopStart(g)
  BY <1>20 DEF LoopStart, Acts
<1>21. CASE \E g \in Loops : LoopStop(g)
  BY <1>21 DEF LoopStop, LoopEnded
<1>22. CASE \E g \in Loops : LoopClose(g)
  BY <1>22 DEF LoopClose, BeginClose
<1>23. CASE \E t \in Threads : CloseConn(t)
  BY <1>23 DEF CloseConn, Shut, Acts
<1>24. CASE \E t \in Threads : CloseAwait(t)
  BY <1>24 DEF CloseAwait, Acts
<1>25. CASE \E t \in Threads : CloseWaited(t)
  BY <1>25 DEF CloseWaited
<1>26. CASE \E t \in Threads : CloseDrop(t)
  BY <1>26 DEF CloseDrop
<1>27. CASE \E t \in Threads : CloseClear(t)
  BY <1>27 DEF CloseClear, Forget
<1>28. CASE Lookup
  BY <1>28 DEF Lookup
<1>29. CASE Upgrade
  <2>1. CASE cc = 0
    BY <1>29, <2>1 DEF Upgrade
  <2>2. CASE cc # 0
    BY <1>29, <2>2, UpgradeIs
  <2> QED
    BY <2>1, <2>2
<1>30. CASE StartBackgroundRead
  BY <1>30, StartIs
<1>31. CASE SetDnssdEntry
  BY <1>31 DEF SetDnssdEntry
<1> QED
  BY <1>1, <1>2, <1>3, <1>4, <1>5, <1>6, <1>7, <1>8, <1>9, <1>10, <1>11, <1>12, <1>13, <1>14,
     <1>15, <1>16, <1>17, <1>18, <1>19, <1>20, <1>21, <1>22, <1>23, <1>24, <1>25, <1>26, <1>27,
     <1>28, <1>29, <1>30, <1>31,
     Steps

\* A socket that is open is the device's.
LEMMA SocketStep ==
  ASSUME TypeOK, PlacesInv, DialledInv, AppInv, SocketInv, [Next]_vars
  PROVE  SocketInv'
<1> USE Types, LoopsAssumption
    DEF SocketInv, AppInv, DialledInv, PlacesInv, FlagsOK, ConnsOK, PlacesOK, Threads, Conns,
        Closing, At, Goto, devVars, connVars, goVars, histVars, NilDeref
<1>1. CASE AppClose
  BY <1>1 DEF AppClose, BeginClose
<1>2. CASE PairSetup
  BY <1>2 DEF PairSetup
<1>3. CASE PairVerify
  BY <1>3 DEF PairVerify, BeginClose, Reconnects
<1>4. CASE Ensure
  BY <1>4 DEF Ensure, NoConn
<1>5. CASE Connect
  BY <1>5 DEF Connect, BeginClose
<1>6. CASE Dial
  BY <1>6 DEF Dial
<1>7. CASE DialFailed
  BY <1>7 DEF DialFailed
<1>8. CASE Dialled
  <2>1. /\ cc = 0 /\ cc' = dialled + 1 /\ open' = open \cup {dialled + 1} /\ httpc' = TRUE
        /\ UNCHANGED <<own, overran>> /\ pc' = [pc EXCEPT !["app"] = "post"]
    BY <1>8 DEF Dialled, NewClient
  <2>2. ~overran => open = {}
    BY <2>1
  <2>3. \A t \in Threads : own[t] # dialled + 1
    OBVIOUS
  <2> QED
    BY <2>1, <2>2, <2>3
<1>9. CASE Post
  <2>1. CASE httpc /\ cc = 0
    BY <1>9, <2>1 DEF Post
  <2>2. CASE ~(httpc /\ cc = 0)
    <3>1. pc'["app"] \in {"idle", "reply"} /\ UNCHANGED <<open, cc, httpc, overran>>
      BY <1>9, <2>2 DEF Post
    <3>2. \A t \in Threads \ {"app"} : pc'[t] = pc[t] /\ own'[t] = own[t]
      BY <1>9, <2>2 DEF Post
    <3> QED
      BY <3>1, <3>2
  <2> QED
    BY <2>1, <2>2
<1>10. CASE Reply
  BY <1>10 DEF Reply, Accepts, Rejects, Stored, LastReply
<1>11. CASE Broken
  <2>1. open' \subseteq open /\ UNCHANGED <<cc, httpc, own, overran>>
    BY <1>11 DEF Broken
  <2>2. pc' = pc \/ pc' = [pc EXCEPT !["app"] = "idle"]
    BY <1>11 DEF Broken
  <2> QED
    BY <2>1, <2>2
<1>12. CASE SetupDone
  BY <1>12 DEF SetupDone
<1>13. CASE VerifyDone
  BY <1>13 DEF VerifyDone
<1>14. CASE Found
  BY <1>14 DEF Found
<1>15. CASE Lost
  BY <1>15 DEF Lost
<1>16. CASE LostClose
  BY <1>16 DEF LostClose, BeginClose
<1>17. CASE \E k \in Conns : Disconnect(k)
  BY <1>17 DEF Disconnect
<1>18. CASE Reset
  BY <1>18 DEF Reset
<1>19. CASE UNCHANGED vars
  BY <1>19 DEF vars
<1>20. CASE \E g \in Loops : LoopStart(g)
  <2> PICK g \in Loops : LoopStart(g)
    BY <1>20
  <2>1. CASE cc = 0
    <3>1. UNCHANGED <<pc, own, open, cc, httpc, overran>>
      BY <2>1 DEF LoopStart
    <3> QED
      BY <3>1
  <2>2. CASE cc # 0
    <3>1. /\ pc' = [pc EXCEPT ![g] = "loop"] /\ own' = [own EXCEPT ![g] = cc]
          /\ UNCHANGED <<cc, open, httpc>> /\ (overran => overran')
      BY <2>2 DEF LoopStart, Acts
    <3> QED
      BY <3>1
  <2> QED
    BY <2>1, <2>2
<1>21. CASE \E g \in Loops : LoopStop(g)
  BY <1>21 DEF LoopStop, LoopEnded
<1>22. CASE \E g \in Loops : LoopClose(g)
  BY <1>22 DEF LoopClose, BeginClose
<1>23. CASE \E t \in Threads : CloseConn(t)
  <2> PICK t \in Threads : CloseConn(t)
    BY <1>23
  <2>1. CASE cc = 0
    <3>1. UNCHANGED <<pc, own, open, cc, httpc, overran>>
      BY <2>1 DEF CloseConn
    <3> QED
      BY <3>1
  <2>2. CASE cc # 0
    <3>1. /\ pc' = [pc EXCEPT ![t] = "await"] /\ open' = open \ {cc}
          /\ UNCHANGED <<cc, own, httpc>> /\ (~overran' => ~overran /\ cc = own[t])
      BY <2>2 DEF CloseConn, Acts, Shut
    <3> QED
      BY <3>1
  <2> QED
    BY <2>1, <2>2
<1>24. CASE \E t \in Threads : CloseAwait(t)
  BY <1>24 DEF CloseAwait, Acts
<1>25. CASE \E t \in Threads : CloseWaited(t)
  BY <1>25 DEF CloseWaited
<1>26. CASE \E t \in Threads : CloseDrop(t)
  BY <1>26 DEF CloseDrop
<1>27. CASE \E t \in Threads : CloseClear(t)
  BY <1>27 DEF CloseClear, Forget
<1>28. CASE Lookup
  BY <1>28 DEF Lookup
<1>29. CASE Upgrade
  <2>1. CASE cc = 0
    <3>1. UNCHANGED <<pc, own, open, cc, httpc, overran>>
      BY <1>29, <2>1 DEF Upgrade
    <3> QED
      BY <3>1
  <2>2. CASE cc # 0
    <3>1. /\ pc' = [pc EXCEPT !["app"] = "flag"]
          /\ UNCHANGED <<own, open, cc, httpc, overran>>
      BY <1>29, <2>2, UpgradeIs
    <3> QED
      BY <3>1
  <2> QED
    BY <2>1, <2>2
<1>30. CASE StartBackgroundRead
  <2>1. PICK g \in Loops :
          /\ pc' = [pc EXCEPT !["app"] = "idle", ![g] = "spawned"]
          /\ own' = [own EXCEPT ![g] = cc]
          /\ UNCHANGED <<cc, open, httpc, overran>>
    BY <1>30, StartIs
  <2> QED
    BY <2>1
<1>31. CASE SetDnssdEntry
  BY <1>31 DEF SetDnssdEntry
<1> QED
  BY <1>1, <1>2, <1>3, <1>4, <1>5, <1>6, <1>7, <1>8, <1>9, <1>10, <1>11, <1>12, <1>13, <1>14,
     <1>15, <1>16, <1>17, <1>18, <1>19, <1>20, <1>21, <1>22, <1>23, <1>24, <1>25, <1>26, <1>27,
     <1>28, <1>29, <1>30, <1>31,
     Steps

\* What the application does before the end of PairVerify.
Handshaking ==
  \/ AppClose \/ PairSetup \/ PairVerify \/ Ensure \/ Connect \/ Dial \/ Lookup \/ DialFailed
  \/ Dialled \/ Post \/ Reply \/ Broken \/ SetupDone

\* It leaves the other goroutines alone.
LEMMA AppMoves ==
  ASSUME PlacesOK, Handshaking
  PROVE  /\ \A t \in Threads \ {"app"} : pc'[t] = pc[t] /\ own'[t] = own[t]
         /\ UNCHANGED <<stop, encrypted, overran, undone>>
         /\ panic' \in {panic, "nilConn", "nilEntry"}
<1> USE LoopsAssumption
    DEF PlacesOK, Threads, At, Goto, devVars, connVars, goVars, histVars, NilDeref
<1>1. CASE AppClose
  BY <1>1 DEF AppClose, BeginClose
<1>2. CASE PairSetup \/ Ensure \/ Dial \/ Lookup \/ DialFailed \/ Dialled \/ SetupDone
  BY <1>2 DEF PairSetup, Ensure, Dial, Lookup, DialFailed, Dialled, SetupDone
<1>3. CASE PairVerify
  <2>1. UNCHANGED <<stop, encrypted, overran, undone, panic>>
    BY <1>3, Zenon DEF PairVerify
  <2>2. CASE Reconnects
    BY <1>3, <2>1, <2>2 DEF PairVerify, BeginClose
  <2>3. CASE ~Reconnects
    BY <1>3, <2>1, <2>3 DEF PairVerify
  <2> QED
    BY <2>2, <2>3
<1>4. CASE Connect
  BY <1>4 DEF Connect, BeginClose
<1>5. CASE Post
  <2>1. CASE httpc /\ cc = 0
    BY <1>5, <2>1 DEF Post
  <2>2. CASE ~(httpc /\ cc = 0)
    BY <1>5, <2>2 DEF Post
  <2> QED
    BY <2>1, <2>2
<1>6. CASE Reply
  <2>1. CASE cc = 0
    BY <1>6, <2>1 DEF Reply
  <2>2. CASE cc # 0
    <3>1. UNCHANGED <<stop, encrypted, overran, undone, panic, own>>
      BY <1>6, <2>2, Zenon DEF Reply
    <3>2. \E p \in {"finish", "post", "idle"} : pc' = [pc EXCEPT !["app"] = p]
      BY <1>6, <2>2 DEF Reply
    <3> QED
      BY <3>1, <3>2
  <2> QED
    BY <2>1, <2>2
<1>7. CASE Broken
  <2>1. CASE cc = 0
    BY <1>7, <2>1 DEF Broken
  <2>2. CASE cc # 0
    BY <1>7, <2>2 DEF Broken
  <2> QED
    BY <2>1, <2>2
<1> QED
  BY <1>1, <1>2, <1>3, <1>4, <1>5, <1>6, <1>7 DEF Handshaking

\* Device.close leaves the other goroutines alone, and goes to its end.
LEMMA CloseMoves ==
  ASSUME PlacesOK, NEW t \in Threads, Close(t)
  PROVE  /\ \A u \in Threads \ {t} : pc'[u] = pc[u] /\ own'[u] = own[u]
         /\ UNCHANGED <<stop, encrypted, back, paired, undone>> /\ panic' \in {panic, "nilConn"}
         /\ (overran => overran') /\ (~overran' => own'[t] = own[t])
         /\ pc[t] \in Closing /\ (pc'[t] \in Closing \/ (pc'[t] = back[t] /\ ~verified'))
<1> USE DEF PlacesOK, At, Goto, devVars, connVars, goVars, histVars, NilDeref, Closing
<1>1. CASE CloseConn(t)
  BY <1>1 DEF CloseConn, Acts
<1>2. CASE CloseAwait(t)
  <2>1. CASE ~verified
    BY <1>2, <2>1 DEF CloseAwait
  <2>2. CASE verified /\ cc = 0
    BY <1>2, <2>2 DEF CloseAwait
  <2>3. CASE verified /\ cc # 0
    BY <1>2, <2>3 DEF CloseAwait, Acts
  <2> QED
    BY <2>1, <2>2, <2>3
<1>3. CASE CloseWaited(t)
  BY <1>3 DEF CloseWaited
<1>4. CASE CloseDrop(t)
  BY <1>4 DEF CloseDrop
<1>5. CASE CloseClear(t)
  BY <1>5 DEF CloseClear, Forget
<1> QED
  BY <1>1, <1>2, <1>3, <1>4, <1>5 DEF Close

\* What neither the application nor the library's goroutines do.
World ==
  \/ Found \/ Lost \/ SetDnssdEntry \/ LostClose \/ Reset
  \/ (\E k \in Conns : Disconnect(k)) \/ UNCHANGED vars

LEMMA WorldMoves ==
  ASSUME PlacesOK, World
  PROVE  /\ \A t \in Threads \ {"mdns"} : pc'[t] = pc[t] /\ own'[t] = own[t]
         /\ UNCHANGED <<stop, encrypted, overran, undone, verified, paired, cc, panic>>
         /\ pc'["mdns"] = pc["mdns"] \/ pc["mdns"] \in {"idle", "forget", "lost"}
<1> USE LoopsAssumption
    DEF PlacesOK, Threads, At, Goto, devVars, connVars, goVars, histVars
<1>1. CASE Found \/ Lost \/ SetDnssdEntry \/ Reset \/ UNCHANGED vars
  BY <1>1 DEF Found, Lost, SetDnssdEntry, Reset, vars
<1>2. CASE LostClose
  BY <1>2 DEF LostClose, BeginClose
<1>3. CASE \E k \in Conns : Disconnect(k)
  BY <1>3 DEF Disconnect
<1> QED
  BY <1>1, <1>2, <1>3 DEF World

LEMMA Actors ==
  [Next]_vars =>
    \/ Handshaking \/ Upgrade \/ VerifyDone \/ StartBackgroundRead \/ World
    \/ \E g \in Loops : LoopStart(g) \/ LoopStop(g) \/ LoopClose(g)
    \/ \E t \in Threads : Close(t)
  BY Zenon DEF Next, App, Background, Handshaking, World

\* A connection has one reader.
LEMMA ReaderStep ==
  ASSUME TypeOK, PlacesInv, DialledInv, AppInv, SessionInv, ReaderInv, [Next]_vars
  PROVE  ReaderInv'
<1> USE Types, LoopsAssumption DEF ReaderInv, Readers, Reading, PlacesOK, Threads
<1>1. CASE Handshaking
  <2>1. pc'["app"] \notin {"flag", "spawn"}
    BY <1>1 DEF Handshaking, AppClose, PairSetup, PairVerify, Ensure, Connect, Dial, Lookup,
                DialFailed, Dialled, Post, Reply, Broken, SetupDone, At, Goto, BeginClose,
                NilDeref, goVars
  <2> QED
    BY <1>1, <2>1, AppMoves
<1>2. CASE World
  <2>1. pc'["app"] = pc["app"] /\ UNCHANGED cc
    BY <1>2, WorldMoves
  <2> QED
    BY <1>2, <2>1, WorldMoves
<1>3. CASE StartBackgroundRead
  <2>1. PICK g \in Loops :
          /\ pc["app"] = "spawn" /\ pc[g] = "none" /\ g # "app"
          /\ pc' = [pc EXCEPT !["app"] = "idle", ![g] = "spawned"]
          /\ pc'["app"] = "idle" /\ own' = [own EXCEPT ![g] = cc]
          /\ UNCHANGED <<stop, encrypted, panic, overran>>
    BY <1>3, StartIs DEF connVars
  <2>2. ~overran /\ cc # 0 => \A h \in Loops : pc[h] # "none" => own[h] # cc
    BY <2>1
  <2>3. cc \in encrypted \cup {0}
    BY <2>1 DEF AppInv
  <2> QED
    BY <2>1, <2>2, <2>3
<1>8. CASE Upgrade
  <2>1. CASE cc = 0
    <3>1. UNCHANGED <<stop, overran, pc, own, encrypted, cc>> /\ panic' = "nilConn"
      BY <1>8, <2>1 DEF Upgrade, NilDeref, connVars, goVars, devVars
    <3> QED
      BY <3>1
  <2>2. CASE cc # 0
    <3>1. /\ pc["app"] = "finish" /\ op = "verify"
          /\ pc' = [pc EXCEPT !["app"] = "flag"]
          /\ encrypted' = encrypted \cup {cc}
          /\ UNCHANGED <<stop, own, panic, overran, cc>>
      BY <1>8, <2>2, UpgradeIs DEF devVars, histVars
    <3>2. ~overran => cc \notin encrypted
      BY <3>1 DEF SessionInv
    <3>3. ~overran => \A h \in Loops : pc[h] # "none" => own[h] # cc
      BY <2>2, <3>2
    <3> QED
      BY <2>2, <3>1, <3>3
  <2> QED
    BY <2>1, <2>2
<1>9. CASE VerifyDone
  <2>1. /\ pc["app"] = "flag" /\ pc' = [pc EXCEPT !["app"] = "spawn"]
        /\ UNCHANGED <<stop, own, encrypted, panic, overran, cc>>
    BY <1>9 DEF VerifyDone, At, Goto, connVars
  <2> QED
    BY <2>1
<1>4. ASSUME NEW g \in Loops, LoopStart(g) PROVE ReaderInv'
  <2> USE DEF At, Goto
  <2>1. CASE cc = 0
    <3>1. UNCHANGED <<cc, stop, overran, pc, own, encrypted>> /\ panic' = "nilConn"
      BY <1>4, <2>1 DEF LoopStart, NilDeref, devVars, connVars, goVars
    <3> QED
      BY <3>1
  <2>2. CASE cc # 0
    <3>1. /\ pc[g] = "spawned" /\ pc' = [pc EXCEPT ![g] = "loop"]
          /\ own' = [own EXCEPT ![g] = cc] /\ stop' = [stop EXCEPT ![cc] = "open"]
          /\ UNCHANGED <<cc, encrypted, panic>> /\ panic = "none"
          /\ (~overran' => ~overran /\ cc = own[g])
      BY <1>4, <2>2 DEF LoopStart, Acts, devVars
    <3>2. cc \in Conns /\ stop \in [Conns -> {"nil", "open", "closed"}]
      BY <2>2 DEF ConnsOK, Conns
    <3>3. ~overran' => own' = own
      BY <3>1
    <3>4. \A h \in Loops : (pc'[h] = "none" <=> pc[h] = "none") /\ h # "app"
      BY <3>1
    <3>5. ~overran' => own[g] \in encrypted
      BY <2>2, <3>1
    <3>6. CASE overran'
      BY <3>1, <3>6
    <3>7. CASE ~overran'
      <4>1. ~overran /\ UNCHANGED <<own, encrypted, panic, cc>> /\ pc'["app"] = pc["app"]
        BY <3>1, <3>3, <3>7, <3>4
      <4>2. Readers' = Readers /\ Reading' = Reading \cup {g}
        BY <3>1
      <4>3. \A h \in Loops : pc'[h] \notin {"none", "spawned"} => own[h] \in encrypted
        BY <3>1, <3>5, <3>7, <4>1
      <4>4. \A h \in Loops : pc'[h] = "spawned" => own[h] \in encrypted \cup {0}
        BY <3>1, <4>1
      <4>5. \A h \in Reading' : stop'[own[h]] = "open"
        BY <3>1, <3>2, <4>1, <4>2
      <4>6. pc["app"] \in {"flag", "spawn"} /\ cc # 0 =>
              \A h \in Loops : pc'[h] # "none" => own[h] # cc
        BY <3>4, <4>1
      <4>7. \A h, k \in Readers' : own[h] = own[k] /\ own[h] # 0 => h = k
        BY <4>1, <4>2
      <4> QED
        BY <3>1, <4>1, <4>3, <4>4, <4>5, <4>6, <4>7
    <3> QED
      BY <3>6, <3>7
  <2> QED
    BY <2>1, <2>2
<1>5. ASSUME NEW g \in Loops, LoopStop(g) PROVE ReaderInv'
  <2>1. /\ pc[g] = "loop" /\ pc' = [pc EXCEPT ![g] = "stopped"]
        /\ panic' = IF stop[own[g]] = "closed" THEN "closeOfClosed" ELSE "none"
        /\ stop' = [stop EXCEPT ![own[g]] = "closed"]
        /\ UNCHANGED <<cc, own, encrypted, overran>>
    BY <1>5 DEF LoopStop, At, Goto, devVars
  <2>2. ~overran => \A h \in Reading \ {g} : own[h] # own[g]
    BY <2>1 DEF DialledInv
  <2>3. stop \in [Conns -> {"nil", "open", "closed"}]
    BY DEF ConnsOK
  <2> QED
    BY <2>1, <2>2, <2>3
<1>6. ASSUME NEW g \in Loops, LoopClose(g) PROVE ReaderInv'
  <2>1. /\ pc[g] = "stopped" /\ UNCHANGED <<cc, own, encrypted, overran, stop, panic>>
    BY <1>6 DEF LoopClose, BeginClose, At, connVars, histVars
  <2>2. pc' = [pc EXCEPT ![g] = "shut"] \/ pc' = [pc EXCEPT ![g] = "clear"]
    BY <1>6 DEF LoopClose, BeginClose, Goto
  <2> QED
    BY <2>1, <2>2
<1>7. ASSUME NEW t \in Threads, Close(t) PROVE ReaderInv'
  <2>1. /\ \A u \in Threads \ {t} : pc'[u] = pc[u] /\ own'[u] = own[u]
        /\ UNCHANGED <<stop, encrypted>> /\ panic' \in {panic, "nilConn"}
        /\ (overran => overran') /\ (~overran' => own'[t] = own[t])
        /\ pc[t] \in Closing /\ (pc'[t] \in Closing \/ pc'[t] = back[t])
    BY <1>7, CloseMoves
  <2>2. t \in Loops => /\ pc[t] \notin {"none", "spawned", "loop"}
                       /\ pc'[t] \notin {"spawned", "loop"}
    BY <2>1 DEF PlacesInv, Closing
  <2>3. cc' \in {cc, 0}
    BY <1>7 DEF Close, CloseConn, CloseAwait, CloseWaited, CloseDrop, CloseClear, NilDeref, devVars
  <2>4. pc'["app"] \in {"flag", "spawn"} => t # "app" /\ pc'["app"] = pc["app"]
    BY <2>1 DEF PlacesInv, Closing
  <2>5. Readers' = Readers /\ Reading' = Reading
    BY <2>1, <2>2
  <2>6. CASE overran'
    BY <2>1, <2>6
  <2>7. CASE ~overran'
    <3>1. ~overran /\ \A g \in Loops : own'[g] = own[g]
      BY <2>1, <2>7
    <3>2. \A g \in Loops : (pc'[g] # "none" => pc[g] # "none") /\ (g # t => pc'[g] = pc[g])
      BY <2>1, <2>2
    <3>3. \A g \in Loops : pc'[g] \notin {"none", "spawned"} => own[g] \in encrypted
      BY <2>2, <3>1, <3>2
    <3>4. \A g \in Loops : pc'[g] = "spawned" => own[g] \in encrypted \cup {0}
      BY <2>2, <3>1, <3>2
    <3>5. \A g, h \in Readers : own[g] = own[h] /\ own[g] # 0 => g = h
      BY <3>1
    <3>6. pc'["app"] \in {"flag", "spawn"} /\ cc' # 0 =>
            \A g \in Loops : pc'[g] # "none" => own[g] # cc'
      BY <2>3, <2>4, <3>1, <3>2
    <3>7. \A g \in Reading : stop[own[g]] = "open"
      BY <3>1
    <3> QED
      BY <2>1, <2>5, <3>1, <3>3, <3>4, <3>5, <3>6, <3>7
  <2> QED
    BY <2>6, <2>7
<1> QED
  BY <1>1, <1>2, <1>3, <1>4, <1>5, <1>6, <1>7, <1>8, <1>9, Actors

\* A verified device is served, or about to be unverified.
LEMMA ServedStep ==
  ASSUME TypeOK, PlacesInv, DialledInv, AppInv, ServedInv, [Next]_vars
  PROVE  ServedInv'
<1> USE Types, LoopsAssumption DEF ServedInv, PlacesOK, Threads, Closing
<1>1. CASE Handshaking
  <2>1. pc["app"] \notin Closing \cup {"stopped", "spawn"}
    BY <1>1 DEF Handshaking, AppClose, PairSetup, PairVerify, Ensure, Connect, Dial, Lookup,
                DialFailed, Dialled, Post, Reply, Broken, SetupDone, At
  <2>2. (verified' => verified) /\ (paired => paired')
    <3>1. CASE SetupDone
      BY <3>1, Zenon DEF SetupDone
    <3>2. CASE Post \/ Reply \/ Broken
      BY <3>2, Zenon DEF Post, Reply, Broken, NilDeref, devVars
    <3>3. CASE ~(SetupDone \/ Post \/ Reply \/ Broken)
      <4>1. UNCHANGED <<verified, paired>>
        BY <1>1, <3>3 DEF Handshaking, AppClose, PairSetup, PairVerify, Ensure, Connect, Dial,
                Lookup, DialFailed, Dialled, devVars
      <4> QED
        BY <4>1
    <3> QED
      BY <3>1, <3>2, <3>3, Zenon
  <2>3. cc' = cc \/ cc = 0
    BY <1>1 DEF Handshaking, AppClose, PairSetup, PairVerify, Ensure, Connect, Dial,
                Lookup, DialFailed, Dialled, Post, Reply, Broken, SetupDone, NilDeref, devVars,
                AppInv, At
  <2>4. 0 \notin encrypted
    BY DEF ConnsOK, Conns
  <2>5. /\ \A t \in Threads : pc[t] \in Closing \cup {"stopped"} => pc'[t] = pc[t]
        /\ \A g \in Loops : pc'[g] = pc[g] /\ own'[g] = own[g]
        /\ UNCHANGED <<encrypted, undone>>
    BY <1>1, <2>1, AppMoves
  <2>6. \A g \in Loops : pc[g] = "loop" => own[g] # 0
    BY DEF DialledInv
  <2> QED
    BY <2>1, <2>2, <2>3, <2>4, <2>5, <2>6
<1>2. CASE World
  <2>1. /\ \A t \in Threads : pc[t] \in Closing \cup {"stopped"} => pc'[t] = pc[t]
        /\ pc'["app"] = pc["app"] /\ \A g \in Loops : pc'[g] = pc[g] /\ own'[g] = own[g]
        /\ UNCHANGED <<encrypted, undone, verified, paired, cc>>
    BY <1>2, WorldMoves
  <2> QED
    BY <2>1
<1>3. CASE StartBackgroundRead
  <2>1. PICK g \in Loops :
          /\ pc[g] = "none" /\ pc' = [pc EXCEPT !["app"] = "idle", ![g] = "spawned"]
          /\ pc'[g] = "spawned" /\ pc["app"] = "spawn"
          /\ UNCHANGED <<verified, paired, cc, encrypted, undone>>
    BY <1>3, StartIs DEF devVars, connVars
  <2>2. \A t \in Threads : pc[t] = "clear" => pc'[t] = "clear"
    BY <2>1
  <2> QED
    BY <2>1, <2>2
<1>8. CASE Upgrade
  <2>1. CASE cc = 0
    <3>1. UNCHANGED <<verified, paired, cc, pc, own, encrypted, undone>>
      BY <1>8, <2>1 DEF Upgrade, NilDeref, devVars, connVars, goVars
    <3> QED
      BY <3>1
  <2>2. CASE cc # 0
    <3>1. /\ pc["app"] = "finish" /\ pc' = [pc EXCEPT !["app"] = "flag"]
          /\ encrypted' = encrypted \cup {cc}
          /\ UNCHANGED <<verified, paired, cc, own, undone>>
      BY <1>8, <2>2, UpgradeIs DEF devVars, histVars
    <3> QED
      BY <3>1
  <2> QED
    BY <2>1, <2>2
<1>9. CASE VerifyDone
  <2>1. /\ pc["app"] = "flag" /\ pc' = [pc EXCEPT !["app"] = "spawn"]
        /\ undone' = (cc = 0) /\ UNCHANGED <<paired, cc, encrypted>>
    BY <1>9 DEF VerifyDone, At, Goto, connVars
  <2>2. paired /\ (cc \in encrypted \/ undone')
    BY <2>1 DEF AppInv
  <2> QED
    BY <2>1, <2>2
<1>4. ASSUME NEW g \in Loops, LoopStart(g) PROVE ServedInv'
  <2> USE DEF At, Goto
  <2>1. CASE cc = 0
    <3>1. UNCHANGED <<verified, paired, cc, pc, own, encrypted, undone>>
      BY <1>4, <2>1 DEF LoopStart, NilDeref, devVars, connVars, goVars
    <3> QED
      BY <3>1
  <2>2. CASE cc # 0
    <3>1. /\ pc[g] = "spawned" /\ pc' = [pc EXCEPT ![g] = "loop"]
          /\ own' = [own EXCEPT ![g] = cc]
          /\ UNCHANGED <<verified, paired, cc, encrypted, undone>>
      BY <1>4, <2>2 DEF LoopStart, devVars, histVars
    <3>2. pc'[g] = "loop" /\ own'[g] = cc'
      BY <3>1
    <3>3. \A t \in Threads : pc[t] \in Closing \cup {"stopped"} => pc'[t] = pc[t]
      BY <3>1
    <3> QED
      BY <3>1, <3>2, <3>3
  <2> QED
    BY <2>1, <2>2
<1>5. ASSUME NEW g \in Loops, LoopStop(g) PROVE ServedInv'
  <2>1. /\ pc[g] = "loop" /\ pc' = [pc EXCEPT ![g] = "stopped"]
        /\ UNCHANGED <<verified, paired, cc, encrypted, undone>>
    BY <1>5 DEF LoopStop, At, Goto, devVars
  <2> QED
    BY <2>1
<1>6. ASSUME NEW g \in Loops, LoopClose(g) PROVE ServedInv'
  <2>1. /\ pc[g] = "stopped"
        /\ \E p \in {"shut", "clear"} : pc' = [pc EXCEPT ![g] = p]
        /\ UNCHANGED <<verified, paired, cc, encrypted, undone>>
    BY <1>6 DEF LoopClose, BeginClose, At, Goto, connVars, histVars
  <2> QED
    BY <2>1
<1>7. ASSUME NEW t \in Threads, Close(t) PROVE ServedInv'
  <2>1. cc' = cc \/ pc'[t] = "clear"
    BY <1>7 DEF Close, CloseConn, CloseAwait, CloseWaited, CloseDrop, CloseClear, NilDeref,
                devVars, Goto
  <2>2. (verified' => verified) /\ (pc[t] = "clear" => ~verified')
    <3>1. CASE CloseClear(t)
      BY <3>1, Zenon DEF CloseClear, Forget
    <3>2. CASE CloseAwait(t)
      <4>1. pc[t] = "await"
        BY <3>2 DEF CloseAwait, At
      <4>2. CASE ~verified
        <5>1. UNCHANGED verified
          BY <3>2, <4>2 DEF CloseAwait, devVars
        <5> QED
          BY <4>1, <5>1
      <4>3. CASE verified
        BY <4>1, <4>3
      <4> QED
        BY <4>2, <4>3
    <3>3. CASE CloseConn(t) \/ CloseWaited(t) \/ CloseDrop(t)
      <4>1. pc[t] # "clear"
        BY <3>3 DEF CloseConn, CloseWaited, CloseDrop, At
      <4>2. verified' = verified
        BY <3>3, Zenon DEF CloseConn, CloseWaited, CloseDrop, NilDeref, devVars
      <4> QED
        BY <4>1, <4>2
    <3> QED
      BY <1>7, <3>1, <3>2, <3>3 DEF Close
  <2>3. /\ pc'[t] \in Closing \/ ~verified'
        /\ \A u \in Threads \ {t} : pc'[u] = pc[u] /\ own'[u] = own[u]
        /\ UNCHANGED <<encrypted, paired, undone>>
    BY <1>7, CloseMoves
  <2> QED
    BY <2>1, <2>2, <2>3
<1> QED
  BY <1>1, <1>2, <1>3, <1>4, <1>5, <1>6, <1>7, <1>8, <1>9, Actors


\* Nobody is about to end an established session.
LEMMA KeptStep ==
  ASSUME TypeOK, PlacesInv, DialledInv, AppInv, SessionInv, ReaderInv, SocketInv, KeptInv,
      [Next]_vars
  PROVE  KeptInv'
<1> USE Types, LoopsAssumption
    DEF KeptInv, PlacesInv, FlagsOK, ConnsOK, PlacesOK, Threads, Conns,
        Closing, At, Goto, devVars, connVars, goVars, histVars, NilDeref
<1>1. CASE AppClose
  BY <1>1 DEF AppClose, BeginClose
<1>2. CASE PairSetup
  BY <1>2 DEF PairSetup
<1>3. CASE PairVerify
  BY <1>3 DEF PairVerify, BeginClose, Reconnects
<1>4. CASE Ensure
  BY <1>4 DEF Ensure, NoConn
<1>5. CASE Connect
  BY <1>5 DEF Connect, BeginClose
<1>6. CASE Dial
  BY <1>6 DEF Dial
<1>7. CASE DialFailed
  BY <1>7 DEF DialFailed
<1>8. CASE Dialled
  <2>1. cc = 0 /\ UNCHANGED <<established, overran>> /\ 0 \notin encrypted
    BY <1>8 DEF Dialled, AppInv, histVars
  <2> QED
    BY <2>1
<1>9. CASE Post
  BY <1>9 DEF Post, NoConn
<1>10. CASE Reply
  BY <1>10 DEF Reply, Accepts, Rejects, Stored, LastReply
<1>11. CASE Broken
  <2>1. CASE cc = 0
    <3>1. UNCHANGED <<established, overran, verified, cc, open, up, encrypted, pc, own>>
      BY <1>11, <2>1 DEF Broken
    <3> QED
      BY <3>1
  <2>2. CASE cc # 0
    <3>1. /\ own["app"] \notin open \cap up /\ open \ {own["app"]} \subseteq open'
          /\ pc' = [pc EXCEPT !["app"] = "idle"]
          /\ UNCHANGED <<established, overran, verified, cc, up, encrypted, own>>
      BY <1>11, <2>2 DEF Broken
    <3> QED
      BY <3>1
  <2> QED
    BY <2>1, <2>2
<1>12. CASE SetupDone
  BY <1>12 DEF SetupDone
<1>13. CASE VerifyDone
  BY <1>13 DEF VerifyDone
<1>14. CASE Found
  BY <1>14 DEF Found
<1>15. CASE Lost
  BY <1>15 DEF Lost
<1>16. CASE LostClose
  BY <1>16 DEF LostClose, BeginClose
<1>17. CASE \E k \in Conns : Disconnect(k)
  BY <1>17 DEF Disconnect
<1>18. CASE Reset
  BY <1>18 DEF Reset
<1>19. CASE UNCHANGED vars
  BY <1>19 DEF vars
<1>20. CASE \E g \in Loops : LoopStart(g)
  <2> PICK g \in Loops : LoopStart(g)
    BY <1>20
  <2>1. CASE cc = 0
    <3>1. UNCHANGED <<established, overran, verified, cc, open, up, encrypted, pc, own>>
      BY <2>1 DEF LoopStart
    <3> QED
      BY <3>1
  <2>2. CASE cc # 0
    <3>1. /\ pc' = [pc EXCEPT ![g] = "loop"] /\ own' = [own EXCEPT ![g] = cc]
          /\ UNCHANGED <<established, verified, cc, open, up, encrypted>> /\ (overran =>
              overran')
      BY <2>2 DEF LoopStart, Acts
    <3> QED
      BY <3>1
  <2> QED
    BY <2>1, <2>2
<1>21. CASE \E g \in Loops : LoopStop(g)
  BY <1>21 DEF LoopStop, LoopEnded
<1>22. CASE \E g \in Loops : LoopClose(g)
  BY <1>22 DEF LoopClose, BeginClose
<1>23. CASE \E t \in Threads : CloseConn(t)
  BY <1>23 DEF CloseConn, Shut, Acts
<1>24. CASE \E t \in Threads : CloseAwait(t)
  <2> PICK t \in Threads : CloseAwait(t)
    BY <1>24
  <2>1. pc[t] = "await" /\ (overran => overran')
    BY CloseMoves DEF CloseAwait, Close
  <2>2. CASE ~established \/ overran
    <3>1. established' => established
      BY Zenon DEF CloseAwait
    <3> QED
      BY <2>1, <2>2, <3>1
  <2>3. CASE established /\ ~overran
    <3>1. verified /\ cc \in open /\ cc # 0
      BY <2>3
    <3>2. cc # own[t]
      BY <2>1, <2>3, <3>1 DEF SocketInv
    <3>3. overran'
      BY <3>1, <3>2, Zenon DEF CloseAwait, Acts
    <3> QED
      BY <3>3
  <2> QED
    BY <2>2, <2>3
<1>25. CASE \E t \in Threads : CloseWaited(t)
  BY <1>25 DEF CloseWaited
<1>26. CASE \E t \in Threads : CloseDrop(t)
  <2> PICK t \in Threads : CloseDrop(t)
    BY <1>26
  <2>1. /\ pc[t] = "drop" /\ overran' = (overran \/ cc \notin {0, own[t]})
        /\ UNCHANGED established
    BY DEF CloseDrop
  <2>2. established /\ ~overran => cc \notin {0, own[t]}
    BY <2>1 DEF SocketInv
  <2>3. established' => overran'
    BY <2>1, <2>2, Zenon
  <2> QED
    BY <2>3
<1>27. CASE \E t \in Threads : CloseClear(t)
  BY <1>27 DEF CloseClear, Forget
<1>28. CASE Lookup
  BY <1>28 DEF Lookup
<1>29. CASE Upgrade
  <2>1. CASE cc = 0
    BY <1>29, <2>1 DEF Upgrade
  <2>2. CASE cc # 0
    BY <1>29, <2>2, UpgradeIs
  <2> QED
    BY <2>1, <2>2
<1>30. CASE StartBackgroundRead
  <2>1. PICK g \in Loops :
          /\ pc["app"] = "spawn" /\ pc[g] = "none"
          /\ pc' = [pc EXCEPT !["app"] = "idle", ![g] = "spawned"]
          /\ own' = [own EXCEPT ![g] = cc] /\ established' = (cc \in open \cap up)
          /\ UNCHANGED <<verified, cc, open, up, encrypted, overran>>
    BY <1>30, StartIs
  <2>2. cc \in open => cc # 0 /\ cc \in encrypted
    BY <2>1 DEF AppInv
  <2>3. cc \in open /\ ~overran =>
          verified /\ \A h \in Loops : pc[h] # "none" => own[h] # cc
    BY <2>1, <2>2 DEF SessionInv, ReaderInv
  <2> QED
    BY <2>1, <2>2, <2>3
<1>31. CASE SetDnssdEntry
  BY <1>31 DEF SetDnssdEntry
<1> QED
  BY <1>1, <1>2, <1>3, <1>4, <1>5, <1>6, <1>7, <1>8, <1>9, <1>10, <1>11, <1>12, <1>13, <1>14,
     <1>15, <1>16, <1>17, <1>18, <1>19, <1>20, <1>21, <1>22, <1>23, <1>24, <1>25, <1>26, <1>27,
     <1>28, <1>29, <1>30, <1>31,
     Steps

-----------------------------------------------------------------------------
(* The theorems. *)

\* The inductive invariant holds before anything is dialled.
THEOREM InitInv == Init => IndInv
<1> SUFFICES ASSUME Init PROVE IndInv
  OBVIOUS
<1> USE LoopsAssumption, BoundsAssumption DEF Init, Threads
<1>1. TypeOK
  <2>1. FlagsOK
    BY Zenon DEF FlagsOK
  <2>2. ConnsOK /\ PlacesOK /\ CountsOK
    BY DEF ConnsOK, PlacesOK, CountsOK, Conns, Closing, AppPlaces, LoopPlaces
  <2> QED
    BY <2>1, <2>2, Types
<1>2. PlacesInv
  BY DEF PlacesInv, LoopPlaces
<1>3. DialledInv /\ AppInv /\ AccessoryInv
  BY DEF DialledInv, AppInv, Underway, AccessoryInv, Closing
<1>4. SessionInv /\ ReaderInv /\ SocketInv /\ ServedInv /\ KeptInv
  BY DEF SessionInv, ReaderInv, Readers, Reading, SocketInv, ServedInv, KeptInv
<1> QED
  BY <1>1, <1>2, <1>3, <1>4 DEF IndInv

\* Every step keeps it.
LEMMA NextInv == IndInv /\ [Next]_vars => IndInv'
<1> SUFFICES ASSUME IndInv, [Next]_vars PROVE IndInv'
  OBVIOUS
<1> USE DEF IndInv
<1>1. TypeOK'
  <2>1. FlagsOK' /\ ConnsOK' /\ PlacesOK' /\ CountsOK'
    BY Types, FlagsStep, ConnsStep, PlacesStep, CountsStep
  <2> QED
    BY <2>1 DEF TypeOK, FlagsOK, ConnsOK, PlacesOK, CountsOK
<1>2. PlacesInv' /\ DialledInv' /\ AppInv'
  BY Types, PlacesInvStep, DialledStep, AppStep
<1>3. AccessoryInv' /\ SessionInv' /\ SocketInv'
  BY AccessoryStep, SessionStep, SocketStep
<1>4. ReaderInv' /\ ServedInv' /\ KeptInv'
  BY ReaderStep, ServedStep, KeptStep
<1> QED
  BY <1>1, <1>2, <1>3, <1>4

\* The inductive invariant holds in every behaviour.
THEOREM Invariance == Spec => []IndInv
  BY InitInv, NextInv, PTL DEF Spec

\* Every variable keeps its type.
THEOREM TypeCorrect == Spec => []TypeOK
<1>1. IndInv => TypeOK
  BY DEF IndInv
<1> QED
  BY Invariance, <1>1, PTL

\* Between operations a verified device is paired, and has a connection with a
\* session and a goroutine that reads it (device.go:284), unless d.cc was nil when
\* PairVerify set the flag (controller-pair-verify.go:199).
THEOREM VerifiedIsServedAlways == Spec => []VerifiedIsServed
<1>1. IndInv => VerifiedIsServed
  <2> SUFFICES ASSUME IndInv, Quiet, verified, ~undone PROVE VerifiedIsServed
    BY DEF VerifiedIsServed
  <2>1. \A t \in Threads : pc[t] \notin Closing \cup {"stopped", "spawn"}
    BY DEF Quiet, Closing
  <2> QED
    BY <2>1 DEF IndInv, ServedInv, VerifiedIsServed, Closing, Threads
<1> QED
  BY Invariance, <1>1, PTL

\* A connection has one reader, and its backgroundStop is closed once, unless a
\* goroutine acted on a connection that is not its own (conn.go:253).
THEOREM OneReaderAlways == Spec => []OneReader
<1>1. IndInv => OneReader
  <2>1. DialledInv => \A g \in Reading : own[g] # 0
    BY DEF DialledInv, Reading
  <2> QED
    BY <2>1 DEF IndInv, ReaderInv, OneReader, Readers, Reading
<1> QED
  BY Invariance, <1>1, PTL

\* A socket that stays open is the device's and can be used, with the same
\* exception (device.go:240, 271).
THEOREM OpenIsUsedAlways == Spec => []OpenIsUsed
<1>1. IndInv => OpenIsUsed
  <2>1. IndInv => NoLeak
    BY DEF IndInv, SocketInv, NoLeak
  <2>2. IndInv => Usable
    BY DEF IndInv, SocketInv, Usable, NoConn
  <2> QED
    BY <2>1, <2>2 DEF OpenIsUsed
<1> QED
  BY Invariance, <1>1, PTL

\* A session that nobody ended is still there, with the same exception
\* (device.go:286).
THEOREM SessionKeptAlways == Spec => []SessionKept
<1>1. IndInv => SessionKept
  BY DEF IndInv, KeptInv, SessionKept
<1> QED
  BY Invariance, <1>1, PTL

=============================================================================
