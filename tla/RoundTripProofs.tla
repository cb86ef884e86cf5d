-------------------------- MODULE RoundTripProofs --------------------------
(* Proofs of the safety properties of RoundTrip, for any set of callers. *)
EXTENDS RoundTrip, TLAPS

-----------------------------------------------------------------------------
(* The inductive invariant. *)

\* A request is on the stream and its caller still waits for the response.
Waiting == {"branch", "select", "direct"}
Outstanding == mu \in Callers /\ pc[mu] \in Waiting

\* The loop holds a response, or an error, it has not disposed of.
Carrying == loop \in {"check", "offer", "send"}
Failing  == loop \in {"checkErr", "offerErr", "sendErr"}

\* No further response will ever be read.
Lost == Down /\ taken = answered

\* The mutex is held exactly by the caller between Lock and Unlock.
MutexInv == \A c \in Callers : mu = c <=> pc[c] \in Exchange \cup {"shut"}

\* wantResponse says exactly that the holder has not begun to leave.
FlagInv == want <=> (mu \in Callers /\ pc[mu] \in Exchange)

\* The stream's counters, and the numbers callers and loop hold.
SerialInv ==
  /\ taken <= answered /\ answered <= sent
  /\ hand <= taken
  /\ \A c \in Callers : /\ rq[c] <= sent
                        /\ got[c] <= rq[c] /\ got[c] <= taken
                        /\ pc[c] \in Waiting => rq[c] = sent
                        /\ pc[c] \in Waiting \cup {"lock", "write"} => got[c] = 0

\* The loop holds a response number only while it has one to dispose of.
HandInv == ~Carrying => hand = 0

\* A response is in the hands of one caller or of the loop.
OwnerInv ==
  /\ hand # 0 => \A c \in Callers : got[c] # hand
  /\ AtMostOnce

\* As long as nobody has left without a response, the stream holds at most the
\* one response the waiting caller is owed.
OrderInv ==
  ~abandoned =>
    /\ panic # "closedChannel"
    /\ Carrying => Outstanding /\ hand = sent /\ taken = sent
    /\ torn \/ Failing => Outstanding /\ Lost /\ taken < sent
    /\ Failing => ~torn
    /\ Outstanding => taken + 1 = sent \/ Carrying \/ Lost
    /\ ~Outstanding => taken = sent \/ Lost
    /\ loop \in {"send", "sendErr"} => handTo = mu

IndInv ==
  /\ TypeOK /\ MutexInv /\ FlagInv /\ SerialInv
  /\ HandInv /\ OwnerInv /\ OrderInv /\ Correlated

-----------------------------------------------------------------------------
(* Types. *)

\* Every step keeps the Boolean variables Boolean.
LEMMA FlagsStep == FlagsOK /\ [Next]_vars => FlagsOK'
<1> SUFFICES ASSUME FlagsOK, [Next]_vars PROVE FlagsOK'
  OBVIOUS
<1> USE DEF FlagsOK, callerVars, reqVars, devVars, connVars, loopVars, netVars, inVars
<1>1. ASSUME NEW c \in Callers, Request(c) PROVE FlagsOK'
  BY <1>1, Zenon DEF Request, At, Goto, NilDeref, HasClient
<1>2. ASSUME NEW c \in Callers, Acquire(c) PROVE FlagsOK'
  BY <1>2, Zenon DEF Acquire, At, Goto, NilDeref, CanLock
<1>3. ASSUME NEW c \in Callers, WriteOk(c) PROVE FlagsOK'
  BY <1>3, Zenon DEF WriteOk, At, Goto
<1>4. ASSUME NEW c \in Callers, WriteFail(c) PROVE FlagsOK'
  BY <1>4, Zenon DEF WriteFail, At, Goto
<1>5. ASSUME NEW c \in Callers, Branch(c) PROVE FlagsOK'
  BY <1>5, Zenon DEF Branch, At, Goto
<1>6. ASSUME NEW c \in Callers, LostConn(c) PROVE FlagsOK'
  BY <1>6, Zenon DEF LostConn, At, NilDeref
<1>7. ASSUME NEW c \in Callers, Receive(c) PROVE FlagsOK'
  BY <1>7, Zenon DEF Receive, At, Goto, AfterMessage
<1>8. ASSUME NEW c \in Callers, ReceiveErr(c) PROVE FlagsOK'
  BY <1>8, Zenon DEF ReceiveErr, At, Goto, AfterMessage
<1>9. ASSUME NEW c \in Callers, Timeout(c) PROVE FlagsOK'
  BY <1>9, Zenon DEF Timeout, At, Goto
<1>10. ASSUME NEW c \in Callers, DirectRead(c) PROVE FlagsOK'
  BY <1>10, Zenon DEF DirectRead, At, Goto
<1>11. ASSUME NEW c \in Callers, DirectFail(c) PROVE FlagsOK'
  BY <1>11, Zenon DEF DirectFail, At, Goto, ReadFailed, Ended, Down
<1>12. ASSUME NEW c \in Callers, DirectEvent(c) PROVE FlagsOK'
  BY <1>12, Zenon DEF DirectEvent, At, Goto
<1>13. ASSUME NEW c \in Callers, DirectScrambled(c) PROVE FlagsOK'
  BY <1>13, Zenon DEF DirectScrambled, At, Goto, ReadFailed
<1>14. ASSUME NEW c \in Callers, Leave(c) PROVE FlagsOK'
  BY <1>14, Zenon DEF Leave, At, Goto, NilDeref
<1>15. ASSUME NEW c \in Callers, Shut(c) PROVE FlagsOK'
  BY <1>15, Zenon DEF Shut, At, Goto, BlockedOn
<1>16. ASSUME NEW c \in Callers, Upgrade(c) PROVE FlagsOK'
  BY <1>16, Zenon DEF Upgrade, At, NilDeref
<1>17. ASSUME LoopStart PROVE FlagsOK'
  BY <1>17, Zenon DEF LoopStart, LoopAt, LoopTo, NilDeref, AfterMessage
<1>18. ASSUME LoopRead PROVE FlagsOK'
  BY <1>18, Zenon DEF LoopRead, LoopAt, LoopTo
<1>19. ASSUME LoopTorn PROVE FlagsOK'
  BY <1>19, Zenon DEF LoopTorn, LoopAt, LoopTo
<1>20. ASSUME LoopEvent PROVE FlagsOK'
  BY <1>20, Zenon DEF LoopEvent, LoopAt, LoopTo
<1>21. ASSUME EventDone PROVE FlagsOK'
  BY <1>21, Zenon DEF EventDone, LoopAt, LoopTo, AfterMessage
<1>22. ASSUME LoopCheck PROVE FlagsOK'
  BY <1>22, Zenon DEF LoopCheck, LoopAt, LoopTo, AfterMessage, Wanted
<1>23. ASSUME LoopOffer PROVE FlagsOK'
  BY <1>23, Zenon DEF LoopOffer, LoopAt, LoopTo
<1>24. ASSUME LoopExit PROVE FlagsOK'
  BY <1>24, Zenon DEF LoopExit, LoopAt, LoopTo, ReadFailed
<1>25. ASSUME NEW k \in Closers, CloseStart(k) PROVE FlagsOK'
  BY <1>25, Zenon DEF CloseStart, CloserAt, CloserTo
<1>26. ASSUME NEW k \in Closers, CloseConn(k) PROVE FlagsOK'
  BY <1>26, Zenon DEF CloseConn, CloserAt, CloserTo, NilDeref, Cut, Down
<1>27. ASSUME NEW k \in Closers, CloseAwait(k) PROVE FlagsOK'
  BY <1>27, Zenon DEF CloseAwait, CloserAt, CloserTo, NilDeref
<1>28. ASSUME NEW k \in Closers, CloseWaited(k) PROVE FlagsOK'
  BY <1>28, Zenon DEF CloseWaited, CloserAt, CloserTo
<1>29. ASSUME NEW k \in Closers, CloseDrop(k) PROVE FlagsOK'
  BY <1>29, Zenon DEF CloseDrop, CloserAt, CloserTo
<1>30. ASSUME NEW k \in Closers, CloseClear(k) PROVE FlagsOK'
  BY <1>30, Zenon DEF CloseClear, CloserAt, CloserTo
<1>31. ASSUME Answer PROVE FlagsOK'
  BY <1>31, Zenon DEF Answer, Down
<1>32. ASSUME Disconnect PROVE FlagsOK'
  BY <1>32, Zenon DEF Disconnect, Cut, Down
<1>33. CASE UNCHANGED vars
  BY <1>33, Zenon DEF vars
<1> QED
  BY <1>1, <1>2, <1>3, <1>4, <1>5, <1>6, <1>7, <1>8, <1>9, <1>10, <1>11, <1>12,
     <1>13, <1>14, <1>15, <1>16, <1>17, <1>18, <1>19, <1>20, <1>21, <1>22, <1>23,
     <1>24, <1>25, <1>26, <1>27, <1>28, <1>29, <1>30, <1>31, <1>32,
     <1>33 DEF Next, Step, Loop, Close

\* Every step keeps the other variables in their types.
LEMMA DataStep == DataOK /\ [Next]_vars => DataOK'
<1> SUFFICES ASSUME DataOK, [Next]_vars PROVE DataOK'
  OBVIOUS
<1> USE CallersAssumption, BoundsAssumption
<1> USE
    DEF DataOK, Exchange, Closers, callerVars, reqVars, devVars, connVars,
        loopVars, netVars, inVars
<1>1. ASSUME NEW c \in Callers, Request(c) PROVE DataOK'
  BY <1>1 DEF Request, At, Goto, NilDeref, HasClient
<1>2. ASSUME NEW c \in Callers, Acquire(c) PROVE DataOK'
  BY <1>2 DEF Acquire, At, Goto, NilDeref, CanLock
<1>3. ASSUME NEW c \in Callers, WriteOk(c) PROVE DataOK'
  BY <1>3 DEF WriteOk, At, Goto
<1>4. ASSUME NEW c \in Callers, WriteFail(c) PROVE DataOK'
  BY <1>4 DEF WriteFail, At, Goto
<1>5. ASSUME NEW c \in Callers, Branch(c) PROVE DataOK'
  BY <1>5 DEF Branch, At, Goto
<1>6. ASSUME NEW c \in Callers, LostConn(c) PROVE DataOK'
  BY <1>6 DEF LostConn, At, NilDeref
<1>7. ASSUME NEW c \in Callers, Receive(c) PROVE DataOK'
  BY <1>7 DEF Receive, At, Goto, AfterMessage
<1>8. ASSUME NEW c \in Callers, ReceiveErr(c) PROVE DataOK'
  BY <1>8 DEF ReceiveErr, At, Goto, AfterMessage
<1>9. ASSUME NEW c \in Callers, Timeout(c) PROVE DataOK'
  BY <1>9 DEF Timeout, At, Goto
<1>10. ASSUME NEW c \in Callers, DirectRead(c) PROVE DataOK'
  BY <1>10 DEF DirectRead, At, Goto
<1>11. ASSUME NEW c \in Callers, DirectFail(c) PROVE DataOK'
  BY <1>11 DEF DirectFail, At, Goto, ReadFailed, Ended, Down
<1>12. ASSUME NEW c \in Callers, DirectEvent(c) PROVE DataOK'
  BY <1>12 DEF DirectEvent, At, Goto
<1>13. ASSUME NEW c \in Callers, DirectScrambled(c) PROVE DataOK'
  BY <1>13 DEF DirectScrambled, At, Goto, ReadFailed
<1>14. ASSUME NEW c \in Callers, Leave(c) PROVE DataOK'
  BY <1>14 DEF Leave, At, Goto, NilDeref
<1>15. ASSUME NEW c \in Callers, Shut(c) PROVE DataOK'
  BY <1>15 DEF Shut, At, Goto, BlockedOn
<1>16. ASSUME NEW c \in Callers, Upgrade(c) PROVE DataOK'
  BY <1>16 DEF Upgrade, At, NilDeref
<1>17. ASSUME LoopStart PROVE DataOK'
  BY <1>17 DEF LoopStart, LoopAt, LoopTo, NilDeref, AfterMessage
<1>18. ASSUME LoopRead PROVE DataOK'
  BY <1>18 DEF LoopRead, LoopAt, LoopTo
<1>19. ASSUME LoopTorn PROVE DataOK'
  BY <1>19 DEF LoopTorn, LoopAt, LoopTo
<1>20. ASSUME LoopEvent PROVE DataOK'
  BY <1>20 DEF LoopEvent, LoopAt, LoopTo
<1>21. ASSUME EventDone PROVE DataOK'
  BY <1>21 DEF EventDone, LoopAt, LoopTo, AfterMessage
<1>22. ASSUME LoopCheck PROVE DataOK'
  BY <1>22 DEF LoopCheck, LoopAt, LoopTo, AfterMessage, Wanted
<1>23. ASSUME LoopOffer PROVE DataOK'
  BY <1>23 DEF LoopOffer, LoopAt, LoopTo
<1>24. ASSUME LoopExit PROVE DataOK'
  BY <1>24 DEF LoopExit, LoopAt, LoopTo, ReadFailed
<1>25. ASSUME NEW k \in Closers, CloseStart(k) PROVE DataOK'
  BY <1>25 DEF CloseStart, CloserAt, CloserTo
<1>26. ASSUME NEW k \in Closers, CloseConn(k) PROVE DataOK'
  BY <1>26 DEF CloseConn, CloserAt, CloserTo, NilDeref, Cut, Down
<1>27. ASSUME NEW k \in Closers, CloseAwait(k) PROVE DataOK'
  BY <1>27 DEF CloseAwait, CloserAt, CloserTo, NilDeref
<1>28. ASSUME NEW k \in Closers, CloseWaited(k) PROVE DataOK'
  BY <1>28 DEF CloseWaited, CloserAt, CloserTo
<1>29. ASSUME NEW k \in Closers, CloseDrop(k) PROVE DataOK'
  BY <1>29 DEF CloseDrop, CloserAt, CloserTo
<1>30. ASSUME NEW k \in Closers, CloseClear(k) PROVE DataOK'
  BY <1>30 DEF CloseClear, CloserAt, CloserTo
<1>31. ASSUME Answer PROVE DataOK'
  BY <1>31 DEF Answer, Down
<1>32. ASSUME Disconnect PROVE DataOK'
  BY <1>32 DEF Disconnect, Cut, Down
<1>33. CASE UNCHANGED vars
  BY <1>33 DEF vars
<1> QED
  BY <1>1, <1>2, <1>3, <1>4, <1>5, <1>6, <1>7, <1>8, <1>9, <1>10, <1>11, <1>12,
     <1>13, <1>14, <1>15, <1>16, <1>17, <1>18, <1>19, <1>20, <1>21, <1>22, <1>23,
     <1>24, <1>25, <1>26, <1>27, <1>28, <1>29, <1>30, <1>31, <1>32,
     <1>33 DEF Next, Step, Loop, Close

-----------------------------------------------------------------------------
(* The mutex and the flag. *)

\* The steps that are not a caller's.
Background ==
  \/ Loop \/ Answer \/ Disconnect
  \/ \E k \in Closers : CloseStart(k) \/ Close(k)

\* The loop, the closers and the network leave the callers' state alone.
LEMMA BackgroundFrame == Background => UNCHANGED callerVars /\ UNCHANGED want
<1> USE DEF NilDeref, LoopTo, CloserTo, connVars
<1>1. ASSUME LoopStart PROVE UNCHANGED callerVars /\ UNCHANGED want
  BY <1>1 DEF LoopStart
<1>2. ASSUME LoopRead PROVE UNCHANGED callerVars /\ UNCHANGED want
  BY <1>2 DEF LoopRead
<1>3. ASSUME LoopTorn PROVE UNCHANGED callerVars /\ UNCHANGED want
  BY <1>3 DEF LoopTorn
<1>4. ASSUME LoopEvent PROVE UNCHANGED callerVars /\ UNCHANGED want
  BY <1>4 DEF LoopEvent
<1>5. ASSUME EventDone PROVE UNCHANGED callerVars /\ UNCHANGED want
  BY <1>5 DEF EventDone
<1>6. ASSUME LoopCheck PROVE UNCHANGED callerVars /\ UNCHANGED want
  BY <1>6 DEF LoopCheck
<1>7. ASSUME LoopOffer PROVE UNCHANGED callerVars /\ UNCHANGED want
  BY <1>7 DEF LoopOffer
<1>8. ASSUME LoopExit PROVE UNCHANGED callerVars /\ UNCHANGED want
  BY <1>8 DEF LoopExit
<1>9. ASSUME NEW k \in Closers, CloseStart(k) PROVE UNCHANGED callerVars /\ UNCHANGED want
  BY <1>9 DEF CloseStart
<1>10. ASSUME NEW k \in Closers, CloseConn(k) PROVE UNCHANGED callerVars /\ UNCHANGED want
  BY <1>10 DEF CloseConn
<1>11. ASSUME NEW k \in Closers, CloseAwait(k) PROVE UNCHANGED callerVars /\ UNCHANGED want
  BY <1>11 DEF CloseAwait
<1>12. ASSUME NEW k \in Closers, CloseWaited(k) PROVE UNCHANGED callerVars /\ UNCHANGED want
  BY <1>12 DEF CloseWaited
<1>13. ASSUME NEW k \in Closers, CloseDrop(k) PROVE UNCHANGED callerVars /\ UNCHANGED want
  BY <1>13 DEF CloseDrop
<1>14. ASSUME NEW k \in Closers, CloseClear(k) PROVE UNCHANGED callerVars /\ UNCHANGED want
  BY <1>14 DEF CloseClear
<1>15. ASSUME Answer PROVE UNCHANGED callerVars /\ UNCHANGED want
  BY <1>15 DEF Answer
<1>16. ASSUME Disconnect PROVE UNCHANGED callerVars /\ UNCHANGED want
  BY <1>16 DEF Disconnect
<1> QED
  BY <1>1, <1>2, <1>3, <1>4, <1>5, <1>6, <1>7, <1>8, <1>9, <1>10, <1>11, <1>12,
     <1>13, <1>14, <1>15, <1>16 DEF Background, Loop, Close

\* The mutex stays with the caller between Lock and Unlock.
LEMMA MutexStep == DataOK /\ MutexInv /\ [Next]_vars => MutexInv'
<1> SUFFICES ASSUME DataOK, MutexInv, [Next]_vars PROVE MutexInv'
  OBVIOUS
<1> USE CallersAssumption DEF DataOK, MutexInv, Exchange, callerVars, reqVars
<1>1. ASSUME NEW c \in Callers, Request(c) PROVE MutexInv'
  BY <1>1 DEF Request, At, Goto, NilDeref, HasClient
<1>2. ASSUME NEW c \in Callers, Acquire(c) PROVE MutexInv'
  BY <1>2 DEF Acquire, At, Goto, NilDeref, CanLock
<1>3. ASSUME NEW c \in Callers, WriteOk(c) PROVE MutexInv'
  BY <1>3 DEF WriteOk, At, Goto
<1>4. ASSUME NEW c \in Callers, WriteFail(c) PROVE MutexInv'
  BY <1>4 DEF WriteFail, At, Goto
<1>5. ASSUME NEW c \in Callers, Branch(c) PROVE MutexInv'
  BY <1>5 DEF Branch, At, Goto
<1>6. ASSUME NEW c \in Callers, LostConn(c) PROVE MutexInv'
  BY <1>6 DEF LostConn, At, NilDeref
<1>7. ASSUME NEW c \in Callers, Receive(c) PROVE MutexInv'
  BY <1>7 DEF Receive, At, Goto, AfterMessage
<1>8. ASSUME NEW c \in Callers, ReceiveErr(c) PROVE MutexInv'
  BY <1>8 DEF ReceiveErr, At, Goto, AfterMessage
<1>9. ASSUME NEW c \in Callers, Timeout(c) PROVE MutexInv'
  BY <1>9 DEF Timeout, At, Goto
<1>10. ASSUME NEW c \in Callers, DirectRead(c) PROVE MutexInv'
  BY <1>10 DEF DirectRead, At, Goto
<1>11. ASSUME NEW c \in Callers, DirectFail(c) PROVE MutexInv'
  BY <1>11 DEF DirectFail, At, Goto, ReadFailed, Ended, Down
<1>12. ASSUME NEW c \in Callers, DirectEvent(c) PROVE MutexInv'
  BY <1>12 DEF DirectEvent, At, Goto
<1>13. ASSUME NEW c \in Callers, DirectScrambled(c) PROVE MutexInv'
  BY <1>13 DEF DirectScrambled, At, Goto, ReadFailed
<1>14. ASSUME NEW c \in Callers, Leave(c) PROVE MutexInv'
  BY <1>14 DEF Leave, At, Goto, NilDeref
<1>15. ASSUME NEW c \in Callers, Shut(c) PROVE MutexInv'
  BY <1>15 DEF Shut, At, Goto, BlockedOn
<1>16. ASSUME NEW c \in Callers, Upgrade(c) PROVE MutexInv'
  BY <1>16 DEF Upgrade, At, NilDeref
<1>17. CASE Background
  BY <1>17, BackgroundFrame
<1>18. CASE UNCHANGED vars
  BY <1>18 DEF vars
<1> QED
  BY <1>1, <1>2, <1>3, <1>4, <1>5, <1>6, <1>7, <1>8, <1>9, <1>10, <1>11, <1>12,
     <1>13, <1>14, <1>15, <1>16, <1>17, <1>18 DEF Next, Step, Background

\* wantResponse is raised after Lock and lowered before the channels close.
LEMMA FlagStep == DataOK /\ FlagsOK /\ MutexInv /\ FlagInv /\ [Next]_vars => FlagInv'
<1> SUFFICES ASSUME DataOK, FlagsOK, MutexInv, FlagInv, [Next]_vars PROVE FlagInv'
  OBVIOUS
<1> USE CallersAssumption
    DEF DataOK, MutexInv, FlagInv, Exchange, callerVars, reqVars, connVars
<1>1. ASSUME NEW c \in Callers, Request(c) PROVE FlagInv'
  BY <1>1 DEF Request, At, Goto, NilDeref, HasClient
<1>2. ASSUME NEW c \in Callers, Acquire(c) PROVE FlagInv'
  BY <1>2 DEF Acquire, At, Goto, NilDeref, CanLock
<1>3. ASSUME NEW c \in Callers, WriteOk(c) PROVE FlagInv'
  BY <1>3 DEF WriteOk, At, Goto
<1>4. ASSUME NEW c \in Callers, WriteFail(c) PROVE FlagInv'
  BY <1>4 DEF WriteFail, At, Goto
<1>5. ASSUME NEW c \in Callers, Branch(c) PROVE FlagInv'
  BY <1>5 DEF Branch, At, Goto
<1>6. ASSUME NEW c \in Callers, LostConn(c) PROVE FlagInv'
  BY <1>6 DEF LostConn, At, NilDeref
<1>7. ASSUME NEW c \in Callers, Receive(c) PROVE FlagInv'
  BY <1>7 DEF Receive, At, Goto, AfterMessage
<1>8. ASSUME NEW c \in Callers, ReceiveErr(c) PROVE FlagInv'
  BY <1>8 DEF ReceiveErr, At, Goto, AfterMessage
<1>9. ASSUME NEW c \in Callers, Timeout(c) PROVE FlagInv'
  BY <1>9 DEF Timeout, At, Goto
<1>10. ASSUME NEW c \in Callers, DirectRead(c) PROVE FlagInv'
  BY <1>10 DEF DirectRead, At, Goto
<1>11. ASSUME NEW c \in Callers, DirectFail(c) PROVE FlagInv'
  BY <1>11 DEF DirectFail, At, Goto, ReadFailed, Ended, Down
<1>12. ASSUME NEW c \in Callers, DirectEvent(c) PROVE FlagInv'
  BY <1>12 DEF DirectEvent, At, Goto
<1>13. ASSUME NEW c \in Callers, DirectScrambled(c) PROVE FlagInv'
  BY <1>13 DEF DirectScrambled, At, Goto, ReadFailed
<1>14. ASSUME NEW c \in Callers, Leave(c) PROVE FlagInv'
  BY <1>14 DEF Leave, At, Goto, NilDeref
<1>15. ASSUME NEW c \in Callers, Shut(c) PROVE FlagInv'
  BY <1>15 DEF Shut, At, Goto, BlockedOn
<1>16. ASSUME NEW c \in Callers, Upgrade(c) PROVE FlagInv'
  BY <1>16 DEF Upgrade, At, NilDeref
<1>17. CASE Background
  BY <1>17, BackgroundFrame
<1>18. CASE UNCHANGED vars
  BY <1>18 DEF vars
<1> QED
  BY <1>1, <1>2, <1>3, <1>4, <1>5, <1>6, <1>7, <1>8, <1>9, <1>10, <1>11, <1>12,
     <1>13, <1>14, <1>15, <1>16, <1>17, <1>18 DEF Next, Step, Background

-----------------------------------------------------------------------------
(* Requests and responses. *)

\* Requests and responses are numbered in the order of the stream.
LEMMA SerialStep ==
  DataOK /\ MutexInv /\ HandInv /\ SerialInv /\ [Next]_vars
    => SerialInv'
<1> SUFFICES ASSUME DataOK, MutexInv, HandInv, SerialInv, [Next]_vars PROVE SerialInv'
  OBVIOUS
<1> USE CallersAssumption
    DEF DataOK, MutexInv, HandInv, SerialInv, Carrying, Waiting, Exchange,
        Closers, callerVars, reqVars, devVars, connVars, loopVars, netVars,
        inVars
<1>1. ASSUME NEW c \in Callers, Request(c) PROVE SerialInv'
  BY <1>1 DEF Request, At, Goto, NilDeref, HasClient
<1>2. ASSUME NEW c \in Callers, Acquire(c) PROVE SerialInv'
  BY <1>2 DEF Acquire, At, Goto, NilDeref, CanLock
<1>3. ASSUME NEW c \in Callers, WriteOk(c) PROVE SerialInv'
  BY <1>3 DEF WriteOk, At, Goto
<1>4. ASSUME NEW c \in Callers, WriteFail(c) PROVE SerialInv'
  BY <1>4 DEF WriteFail, At, Goto
<1>5. ASSUME NEW c \in Callers, Branch(c) PROVE SerialInv'
  BY <1>5 DEF Branch, At, Goto
<1>6. ASSUME NEW c \in Callers, LostConn(c) PROVE SerialInv'
  BY <1>6 DEF LostConn, At, NilDeref
<1>7. ASSUME NEW c \in Callers, Receive(c) PROVE SerialInv'
  BY <1>7 DEF Receive, At, Goto, AfterMessage
<1>8. ASSUME NEW c \in Callers, ReceiveErr(c) PROVE SerialInv'
  BY <1>8 DEF ReceiveErr, At, Goto, AfterMessage
<1>9. ASSUME NEW c \in Callers, Timeout(c) PROVE SerialInv'
  BY <1>9 DEF Timeout, At, Goto
<1>10. ASSUME NEW c \in Callers, DirectRead(c) PROVE SerialInv'
  BY <1>10 DEF DirectRead, At, Goto
<1>11. ASSUME NEW c \in Callers, DirectFail(c) PROVE SerialInv'
  BY <1>11 DEF DirectFail, At, Goto, ReadFailed, Ended, Down
<1>12. ASSUME NEW c \in Callers, DirectEvent(c) PROVE SerialInv'
  BY <1>12 DEF DirectEvent, At, Goto
<1>13. ASSUME NEW c \in Callers, DirectScrambled(c) PROVE SerialInv'
  BY <1>13 DEF DirectScrambled, At, Goto, ReadFailed
<1>14. ASSUME NEW c \in Callers, Leave(c) PROVE SerialInv'
  BY <1>14 DEF Leave, At, Goto, NilDeref
<1>15. ASSUME NEW c \in Callers, Shut(c) PROVE SerialInv'
  BY <1>15 DEF Shut, At, Goto, BlockedOn
<1>16. ASSUME NEW c \in Callers, Upgrade(c) PROVE SerialInv'
  BY <1>16 DEF Upgrade, At, NilDeref
<1>17. ASSUME LoopStart PROVE SerialInv'
  BY <1>17 DEF LoopStart, LoopAt, LoopTo, NilDeref, AfterMessage
<1>18. ASSUME LoopRead PROVE SerialInv'
  BY <1>18 DEF LoopRead, LoopAt, LoopTo
<1>19. ASSUME LoopTorn PROVE SerialInv'
  BY <1>19 DEF LoopTorn, LoopAt, LoopTo
<1>20. ASSUME LoopEvent PROVE SerialInv'
  BY <1>20 DEF LoopEvent, LoopAt, LoopTo
<1>21. ASSUME EventDone PROVE SerialInv'
  BY <1>21 DEF EventDone, LoopAt, LoopTo, AfterMessage
<1>22. ASSUME LoopCheck PROVE SerialInv'
  BY <1>22 DEF LoopCheck, LoopAt, LoopTo, AfterMessage, Wanted
<1>23. ASSUME LoopOffer PROVE SerialInv'
  BY <1>23 DEF LoopOffer, LoopAt, LoopTo
<1>24. ASSUME LoopExit PROVE SerialInv'
  BY <1>24 DEF LoopExit, LoopAt, LoopTo, ReadFailed
<1>25. ASSUME NEW k \in Closers, CloseStart(k) PROVE SerialInv'
  BY <1>25 DEF CloseStart, CloserAt, CloserTo
<1>26. ASSUME NEW k \in Closers, CloseConn(k) PROVE SerialInv'
  BY <1>26 DEF CloseConn, CloserAt, CloserTo, NilDeref, Cut, Down
<1>27. ASSUME NEW k \in Closers, CloseAwait(k) PROVE SerialInv'
  BY <1>27 DEF CloseAwait, CloserAt, CloserTo, NilDeref
<1>28. ASSUME NEW k \in Closers, CloseWaited(k) PROVE SerialInv'
  BY <1>28 DEF CloseWaited, CloserAt, CloserTo
<1>29. ASSUME NEW k \in Closers, CloseDrop(k) PROVE SerialInv'
  BY <1>29 DEF CloseDrop, CloserAt, CloserTo
<1>30. ASSUME NEW k \in Closers, CloseClear(k) PROVE SerialInv'
  BY <1>30 DEF CloseClear, CloserAt, CloserTo
<1>31. ASSUME Answer PROVE SerialInv'
  BY <1>31 DEF Answer, Down
<1>32. ASSUME Disconnect PROVE SerialInv'
  BY <1>32 DEF Disconnect, Cut, Down
<1>33. CASE UNCHANGED vars
  BY <1>33 DEF vars
<1> QED
  BY <1>1, <1>2, <1>3, <1>4, <1>5, <1>6, <1>7, <1>8, <1>9, <1>10, <1>11, <1>12,
     <1>13, <1>14, <1>15, <1>16, <1>17, <1>18, <1>19, <1>20, <1>21, <1>22, <1>23,
     <1>24, <1>25, <1>26, <1>27, <1>28, <1>29, <1>30, <1>31, <1>32,
     <1>33 DEF Next, Step, Loop, Close

\* The loop lets go of a response when it has disposed of it.
LEMMA HandStep == DataOK /\ HandInv /\ [Next]_vars => HandInv'
<1> SUFFICES ASSUME DataOK, HandInv, [Next]_vars PROVE HandInv'
  OBVIOUS
<1> USE CallersAssumption
    DEF HandInv, DataOK, Carrying, Exchange, Closers, callerVars, reqVars,
        devVars, connVars, loopVars, netVars, inVars
<1>1. ASSUME NEW c \in Callers, Request(c) PROVE HandInv'
  BY <1>1 DEF Request, At, Goto, NilDeref, HasClient
<1>2. ASSUME NEW c \in Callers, Acquire(c) PROVE HandInv'
  BY <1>2 DEF Acquire, At, Goto, NilDeref, CanLock
<1>3. ASSUME NEW c \in Callers, WriteOk(c) PROVE HandInv'
  BY <1>3 DEF WriteOk, At, Goto
<1>4. ASSUME NEW c \in Callers, WriteFail(c) PROVE HandInv'
  BY <1>4 DEF WriteFail, At, Goto
<1>5. ASSUME NEW c \in Callers, Branch(c) PROVE HandInv'
  BY <1>5 DEF Branch, At, Goto
<1>6. ASSUME NEW c \in Callers, LostConn(c) PROVE HandInv'
  BY <1>6 DEF LostConn, At, NilDeref
<1>7. ASSUME NEW c \in Callers, Receive(c) PROVE HandInv'
  BY <1>7 DEF Receive, At, Goto, AfterMessage
<1>8. ASSUME NEW c \in Callers, ReceiveErr(c) PROVE HandInv'
  BY <1>8 DEF ReceiveErr, At, Goto, AfterMessage
<1>9. ASSUME NEW c \in Callers, Timeout(c) PROVE HandInv'
  BY <1>9 DEF Timeout, At, Goto
<1>10. ASSUME NEW c \in Callers, DirectRead(c) PROVE HandInv'
  BY <1>10 DEF DirectRead, At, Goto
<1>11. ASSUME NEW c \in Callers, DirectFail(c) PROVE HandInv'
  BY <1>11 DEF DirectFail, At, Goto, ReadFailed, Ended, Down
<1>12. ASSUME NEW c \in Callers, DirectEvent(c) PROVE HandInv'
  BY <1>12 DEF DirectEvent, At, Goto
<1>13. ASSUME NEW c \in Callers, DirectScrambled(c) PROVE HandInv'
  BY <1>13 DEF DirectScrambled, At, Goto, ReadFailed
<1>14. ASSUME NEW c \in Callers, Leave(c) PROVE HandInv'
  BY <1>14 DEF Leave, At, Goto, NilDeref
<1>15. ASSUME NEW c \in Callers, Shut(c) PROVE HandInv'
  BY <1>15 DEF Shut, At, Goto, BlockedOn
<1>16. ASSUME NEW c \in Callers, Upgrade(c) PROVE HandInv'
  BY <1>16 DEF Upgrade, At, NilDeref
<1>17. ASSUME LoopStart PROVE HandInv'
  BY <1>17 DEF LoopStart, LoopAt, LoopTo, NilDeref, AfterMessage
<1>18. ASSUME LoopRead PROVE HandInv'
  BY <1>18 DEF LoopRead, LoopAt, LoopTo
<1>19. ASSUME LoopTorn PROVE HandInv'
  BY <1>19 DEF LoopTorn, LoopAt, LoopTo
<1>20. ASSUME LoopEvent PROVE HandInv'
  BY <1>20 DEF LoopEvent, LoopAt, LoopTo
<1>21. ASSUME EventDone PROVE HandInv'
  BY <1>21 DEF EventDone, LoopAt, LoopTo, AfterMessage
<1>22. ASSUME LoopCheck PROVE HandInv'
  BY <1>22 DEF LoopCheck, LoopAt, LoopTo, AfterMessage, Wanted
<1>23. ASSUME LoopOffer PROVE HandInv'
  BY <1>23 DEF LoopOffer, LoopAt, LoopTo
<1>24. ASSUME LoopExit PROVE HandInv'
  BY <1>24 DEF LoopExit, LoopAt, LoopTo, ReadFailed
<1>25. ASSUME NEW k \in Closers, CloseStart(k) PROVE HandInv'
  BY <1>25 DEF CloseStart, CloserAt, CloserTo
<1>26. ASSUME NEW k \in Closers, CloseConn(k) PROVE HandInv'
  BY <1>26 DEF CloseConn, CloserAt, CloserTo, NilDeref, Cut, Down
<1>27. ASSUME NEW k \in Closers, CloseAwait(k) PROVE HandInv'
  BY <1>27 DEF CloseAwait, CloserAt, CloserTo, NilDeref
<1>28. ASSUME NEW k \in Closers, CloseWaited(k) PROVE HandInv'
  BY <1>28 DEF CloseWaited, CloserAt, CloserTo
<1>29. ASSUME NEW k \in Closers, CloseDrop(k) PROVE HandInv'
  BY <1>29 DEF CloseDrop, CloserAt, CloserTo
<1>30. ASSUME NEW k \in Closers, CloseClear(k) PROVE HandInv'
  BY <1>30 DEF CloseClear, CloserAt, CloserTo
<1>31. ASSUME Answer PROVE HandInv'
  BY <1>31 DEF Answer, Down
<1>32. ASSUME Disconnect PROVE HandInv'
  BY <1>32 DEF Disconnect, Cut, Down
<1>33. CASE UNCHANGED vars
  BY <1>33 DEF vars
<1> QED
  BY <1>1, <1>2, <1>3, <1>4, <1>5, <1>6, <1>7, <1>8, <1>9, <1>10, <1>11, <1>12,
     <1>13, <1>14, <1>15, <1>16, <1>17, <1>18, <1>19, <1>20, <1>21, <1>22, <1>23,
     <1>24, <1>25, <1>26, <1>27, <1>28, <1>29, <1>30, <1>31, <1>32,
     <1>33 DEF Next, Step, Loop, Close

\* A response changes hands, and is never copied.
LEMMA OwnerStep ==
  DataOK /\ SerialInv /\ HandInv /\ OwnerInv /\ [Next]_vars
    => OwnerInv'
<1> SUFFICES ASSUME DataOK, SerialInv, HandInv, OwnerInv, [Next]_vars PROVE OwnerInv'
  OBVIOUS
<1> USE CallersAssumption
    DEF OwnerInv, AtMostOnce, HandInv, SerialInv, Waiting, DataOK, Carrying,
        Exchange, Closers, callerVars, reqVars, devVars, connVars, loopVars,
        netVars, inVars
<1>1. ASSUME NEW c \in Callers, Request(c) PROVE OwnerInv'
  BY <1>1 DEF Request, At, Goto, NilDeref, HasClient
<1>2. ASSUME NEW c \in Callers, Acquire(c) PROVE OwnerInv'
  BY <1>2 DEF Acquire, At, Goto, NilDeref, CanLock
<1>3. ASSUME NEW c \in Callers, WriteOk(c) PROVE OwnerInv'
  BY <1>3 DEF WriteOk, At, Goto
<1>4. ASSUME NEW c \in Callers, WriteFail(c) PROVE OwnerInv'
  BY <1>4 DEF WriteFail, At, Goto
<1>5. ASSUME NEW c \in Callers, Branch(c) PROVE OwnerInv'
  BY <1>5 DEF Branch, At, Goto
<1>6. ASSUME NEW c \in Callers, LostConn(c) PROVE OwnerInv'
  BY <1>6 DEF LostConn, At, NilDeref
<1>7. ASSUME NEW c \in Callers, Receive(c) PROVE OwnerInv'
  BY <1>7 DEF Receive, At, Goto, AfterMessage
<1>8. ASSUME NEW c \in Callers, ReceiveErr(c) PROVE OwnerInv'
  BY <1>8 DEF ReceiveErr, At, Goto, AfterMessage
<1>9. ASSUME NEW c \in Callers, Timeout(c) PROVE OwnerInv'
  BY <1>9 DEF Timeout, At, Goto
<1>10. ASSUME NEW c \in Callers, DirectRead(c) PROVE OwnerInv'
  BY <1>10 DEF DirectRead, At, Goto
<1>11. ASSUME NEW c \in Callers, DirectFail(c) PROVE OwnerInv'
  BY <1>11 DEF DirectFail, At, Goto, ReadFailed, Ended, Down
<1>12. ASSUME NEW c \in Callers, DirectEvent(c) PROVE OwnerInv'
  BY <1>12 DEF DirectEvent, At, Goto
<1>13. ASSUME NEW c \in Callers, DirectScrambled(c) PROVE OwnerInv'
  BY <1>13 DEF DirectScrambled, At, Goto, ReadFailed
<1>14. ASSUME NEW c \in Callers, Leave(c) PROVE OwnerInv'
  BY <1>14 DEF Leave, At, Goto, NilDeref
<1>15. ASSUME NEW c \in Callers, Shut(c) PROVE OwnerInv'
  BY <1>15 DEF Shut, At, Goto, BlockedOn
<1>16. ASSUME NEW c \in Callers, Upgrade(c) PROVE OwnerInv'
  BY <1>16 DEF Upgrade, At, NilDeref
<1>17. ASSUME LoopStart PROVE OwnerInv'
  BY <1>17 DEF LoopStart, LoopAt, LoopTo, NilDeref, AfterMessage
<1>18. ASSUME LoopRead PROVE OwnerInv'
  BY <1>18 DEF LoopRead, LoopAt, LoopTo
<1>19. ASSUME LoopTorn PROVE OwnerInv'
  BY <1>19 DEF LoopTorn, LoopAt, LoopTo
<1>20. ASSUME LoopEvent PROVE OwnerInv'
  BY <1>20 DEF LoopEvent, LoopAt, LoopTo
<1>21. ASSUME EventDone PROVE OwnerInv'
  BY <1>21 DEF EventDone, LoopAt, LoopTo, AfterMessage
<1>22. ASSUME LoopCheck PROVE OwnerInv'
  BY <1>22 DEF LoopCheck, LoopAt, LoopTo, AfterMessage, Wanted
<1>23. ASSUME LoopOffer PROVE OwnerInv'
  BY <1>23 DEF LoopOffer, LoopAt, LoopTo
<1>24. ASSUME LoopExit PROVE OwnerInv'
  BY <1>24 DEF LoopExit, LoopAt, LoopTo, ReadFailed
<1>25. ASSUME NEW k \in Closers, CloseStart(k) PROVE OwnerInv'
  BY <1>25 DEF CloseStart, CloserAt, CloserTo
<1>26. ASSUME NEW k \in Closers, CloseConn(k) PROVE OwnerInv'
  BY <1>26 DEF CloseConn, CloserAt, CloserTo, NilDeref, Cut, Down
<1>27. ASSUME NEW k \in Closers, CloseAwait(k) PROVE OwnerInv'
  BY <1>27 DEF CloseAwait, CloserAt, CloserTo, NilDeref
<1>28. ASSUME NEW k \in Closers, CloseWaited(k) PROVE OwnerInv'
  BY <1>28 DEF CloseWaited, CloserAt, CloserTo
<1>29. ASSUME NEW k \in Closers, CloseDrop(k) PROVE OwnerInv'
  BY <1>29 DEF CloseDrop, CloserAt, CloserTo
<1>30. ASSUME NEW k \in Closers, CloseClear(k) PROVE OwnerInv'
  BY <1>30 DEF CloseClear, CloserAt, CloserTo
<1>31. ASSUME Answer PROVE OwnerInv'
  BY <1>31 DEF Answer, Down
<1>32. ASSUME Disconnect PROVE OwnerInv'
  BY <1>32 DEF Disconnect, Cut, Down
<1>33. CASE UNCHANGED vars
  BY <1>33 DEF vars
<1> QED
  BY <1>1, <1>2, <1>3, <1>4, <1>5, <1>6, <1>7, <1>8, <1>9, <1>10, <1>11, <1>12,
     <1>13, <1>14, <1>15, <1>16, <1>17, <1>18, <1>19, <1>20, <1>21, <1>22, <1>23,
     <1>24, <1>25, <1>26, <1>27, <1>28, <1>29, <1>30, <1>31, <1>32,
     <1>33 DEF Next, Step, Loop, Close

\* While nobody has given up, only the response the waiting caller is owed is
\* on its way: in the accessory, on the stream, in the loop, or lost for good.
LEMMA OrderStep ==
  FlagsOK /\ DataOK /\ MutexInv /\ FlagInv /\ SerialInv /\ OrderInv /\ [Next]_vars
    => OrderInv'
<1> SUFFICES ASSUME FlagsOK, DataOK, MutexInv, FlagInv, SerialInv, OrderInv, [Next]_vars
             PROVE  OrderInv'
  OBVIOUS
<1> USE CallersAssumption
    DEF OrderInv, Outstanding, Failing, Lost, Down, MutexInv, FlagInv, SerialInv,
        Waiting, DataOK, Carrying, Exchange, Closers, callerVars, reqVars,
        devVars, connVars, loopVars, netVars, inVars
<1>1. ASSUME NEW c \in Callers, Request(c) PROVE OrderInv'
  BY <1>1 DEF Request, At, Goto, NilDeref, HasClient
<1>2. ASSUME NEW c \in Callers, Acquire(c) PROVE OrderInv'
  BY <1>2 DEF Acquire, At, Goto, NilDeref, CanLock
<1>3. ASSUME NEW c \in Callers, WriteOk(c) PROVE OrderInv'
  BY <1>3 DEF WriteOk, At, Goto
<1>4. ASSUME NEW c \in Callers, WriteFail(c) PROVE OrderInv'
  BY <1>4 DEF WriteFail, At, Goto
<1>5. ASSUME NEW c \in Callers, Branch(c) PROVE OrderInv'
  BY <1>5 DEF Branch, At, Goto
<1>6. ASSUME NEW c \in Callers, LostConn(c) PROVE OrderInv'
  BY <1>6 DEF LostConn, At, NilDeref
<1>7. ASSUME NEW c \in Callers, Receive(c) PROVE OrderInv'
  BY <1>7 DEF Receive, At, Goto, AfterMessage
<1>8. ASSUME NEW c \in Callers, ReceiveErr(c) PROVE OrderInv'
  BY <1>8 DEF ReceiveErr, At, Goto, AfterMessage
<1>9. ASSUME NEW c \in Callers, Timeout(c) PROVE OrderInv'
  BY <1>9 DEF Timeout, At, Goto
<1>10. ASSUME NEW c \in Callers, DirectRead(c) PROVE OrderInv'
  BY <1>10 DEF DirectRead, At, Goto
<1>11. ASSUME NEW c \in Callers, DirectFail(c) PROVE OrderInv'
  BY <1>11 DEF DirectFail, At, Goto, ReadFailed, Ended, Down
<1>12. ASSUME NEW c \in Callers, DirectEvent(c) PROVE OrderInv'
  BY <1>12 DEF DirectEvent, At, Goto
<1>13. ASSUME NEW c \in Callers, DirectScrambled(c) PROVE OrderInv'
  BY <1>13 DEF DirectScrambled, At, Goto, ReadFailed
<1>14. ASSUME NEW c \in Callers, Leave(c) PROVE OrderInv'
  BY <1>14 DEF Leave, At, Goto, NilDeref
<1>15. ASSUME NEW c \in Callers, Shut(c) PROVE OrderInv'
  BY <1>15 DEF Shut, At, Goto, BlockedOn
<1>16. ASSUME NEW c \in Callers, Upgrade(c) PROVE OrderInv'
  BY <1>16 DEF Upgrade, At, NilDeref
<1>17. ASSUME LoopStart PROVE OrderInv'
  BY <1>17 DEF LoopStart, LoopAt, LoopTo, NilDeref, AfterMessage
<1>18. ASSUME LoopRead PROVE OrderInv'
  BY <1>18 DEF LoopRead, LoopAt, LoopTo
<1>19. ASSUME LoopTorn PROVE OrderInv'
  BY <1>19 DEF LoopTorn, LoopAt, LoopTo
<1>20. ASSUME LoopEvent PROVE OrderInv'
  BY <1>20 DEF LoopEvent, LoopAt, LoopTo
<1>21. ASSUME EventDone PROVE OrderInv'
  BY <1>21 DEF EventDone, LoopAt, LoopTo, AfterMessage
<1>22. ASSUME LoopCheck PROVE OrderInv'
  BY <1>22 DEF LoopCheck, LoopAt, LoopTo, AfterMessage, Wanted
<1>23. ASSUME LoopOffer PROVE OrderInv'
  BY <1>23 DEF LoopOffer, LoopAt, LoopTo
<1>24. ASSUME LoopExit PROVE OrderInv'
  BY <1>24 DEF LoopExit, LoopAt, LoopTo, ReadFailed
<1>25. ASSUME NEW k \in Closers, CloseStart(k) PROVE OrderInv'
  BY <1>25 DEF CloseStart, CloserAt, CloserTo
<1>26. ASSUME NEW k \in Closers, CloseConn(k) PROVE OrderInv'
  <2>1. CASE ~cc
    BY <1>26, <2>1 DEF CloseConn, NilDeref
  <2>2. CASE cc
    <3>1. torn' => torn \/ (~Down /\ answered < sent)
      BY <1>26, <2>2, Zenon DEF CloseConn, Cut
    <3> QED
      BY <1>26, <2>2, <3>1 DEF CloseConn, CloserTo
  <2> QED
    BY <2>1, <2>2
<1>27. ASSUME NEW k \in Closers, CloseAwait(k) PROVE OrderInv'
  BY <1>27 DEF CloseAwait, CloserAt, CloserTo, NilDeref
<1>28. ASSUME NEW k \in Closers, CloseWaited(k) PROVE OrderInv'
  BY <1>28 DEF CloseWaited, CloserAt, CloserTo
<1>29. ASSUME NEW k \in Closers, CloseDrop(k) PROVE OrderInv'
  BY <1>29 DEF CloseDrop, CloserAt, CloserTo
<1>30. ASSUME NEW k \in Closers, CloseClear(k) PROVE OrderInv'
  BY <1>30 DEF CloseClear, CloserAt, CloserTo
<1>31. ASSUME Answer PROVE OrderInv'
  BY <1>31 DEF Answer, Down
<1>32. ASSUME Disconnect PROVE OrderInv'
  <2>1. PICK n \in taken..answered : answered' = n /\ Cut(n)
    BY <1>32 DEF Disconnect
  <2>2. torn' => torn \/ (~Down /\ n < sent)
    BY <2>1, Zenon DEF Cut
  <2> QED
    BY <1>32, <2>1, <2>2 DEF Disconnect
<1>33. CASE UNCHANGED vars
  BY <1>33 DEF vars
<1> QED
  BY <1>1, <1>2, <1>3, <1>4, <1>5, <1>6, <1>7, <1>8, <1>9, <1>10, <1>11, <1>12,
     <1>13, <1>14, <1>15, <1>16, <1>17, <1>18, <1>19, <1>20, <1>21, <1>22, <1>23,
     <1>24, <1>25, <1>26, <1>27, <1>28, <1>29, <1>30, <1>31, <1>32,
     <1>33 DEF Next, Step, Loop, Close

\* The response a caller takes is then its own.
LEMMA CorrelatedStep ==
  DataOK /\ MutexInv /\ SerialInv /\ OrderInv /\ Correlated /\ [Next]_vars
    => Correlated'
<1> SUFFICES ASSUME DataOK, MutexInv, SerialInv, OrderInv, Correlated, [Next]_vars PROVE Correlated'
  OBVIOUS
<1> USE CallersAssumption
    DEF Correlated, OrderInv, Outstanding, Failing, Lost, MutexInv, SerialInv,
        Waiting, DataOK, Carrying, Exchange, Closers, callerVars, reqVars,
        devVars, connVars, loopVars, netVars, inVars
<1>1. ASSUME NEW c \in Callers, Request(c) PROVE Correlated'
  BY <1>1 DEF Request, At, Goto, NilDeref, HasClient
<1>2. ASSUME NEW c \in Callers, Acquire(c) PROVE Correlated'
  BY <1>2 DEF Acquire, At, Goto, NilDeref, CanLock
<1>3. ASSUME NEW c \in Callers, WriteOk(c) PROVE Correlated'
  BY <1>3 DEF WriteOk, At, Goto
<1>4. ASSUME NEW c \in Callers, WriteFail(c) PROVE Correlated'
  BY <1>4 DEF WriteFail, At, Goto
<1>5. ASSUME NEW c \in Callers, Branch(c) PROVE Correlated'
  BY <1>5 DEF Branch, At, Goto
<1>6. ASSUME NEW c \in Callers, LostConn(c) PROVE Correlated'
  BY <1>6 DEF LostConn, At, NilDeref
<1>7. ASSUME NEW c \in Callers, Receive(c) PROVE Correlated'
  BY <1>7 DEF Receive, At, Goto, AfterMessage
<1>8. ASSUME NEW c \in Callers, ReceiveErr(c) PROVE Correlated'
  BY <1>8 DEF ReceiveErr, At, Goto, AfterMessage
<1>9. ASSUME NEW c \in Callers, Timeout(c) PROVE Correlated'
  BY <1>9 DEF Timeout, At, Goto
<1>10. ASSUME NEW c \in Callers, DirectRead(c) PROVE Correlated'
  BY <1>10 DEF DirectRead, At, Goto
<1>11. ASSUME NEW c \in Callers, DirectFail(c) PROVE Correlated'
  BY <1>11 DEF DirectFail, At, Goto, ReadFailed, Ended, Down
<1>12. ASSUME NEW c \in Callers, DirectEvent(c) PROVE Correlated'
  BY <1>12 DEF DirectEvent, At, Goto
<1>13. ASSUME NEW c \in Callers, DirectScrambled(c) PROVE Correlated'
  BY <1>13 DEF DirectScrambled, At, Goto, ReadFailed
<1>14. ASSUME NEW c \in Callers, Leave(c) PROVE Correlated'
  BY <1>14 DEF Leave, At, Goto, NilDeref
<1>15. ASSUME NEW c \in Callers, Shut(c) PROVE Correlated'
  BY <1>15 DEF Shut, At, Goto, BlockedOn
<1>16. ASSUME NEW c \in Callers, Upgrade(c) PROVE Correlated'
  BY <1>16 DEF Upgrade, At, NilDeref
<1>17. ASSUME LoopStart PROVE Correlated'
  BY <1>17 DEF LoopStart, LoopAt, LoopTo, NilDeref, AfterMessage
<1>18. ASSUME LoopRead PROVE Correlated'
  BY <1>18 DEF LoopRead, LoopAt, LoopTo
<1>19. ASSUME LoopTorn PROVE Correlated'
  BY <1>19 DEF LoopTorn, LoopAt, LoopTo
<1>20. ASSUME LoopEvent PROVE Correlated'
  BY <1>20 DEF LoopEvent, LoopAt, LoopTo
<1>21. ASSUME EventDone PROVE Correlated'
  BY <1>21 DEF EventDone, LoopAt, LoopTo, AfterMessage
<1>22. ASSUME LoopCheck PROVE Correlated'
  BY <1>22 DEF LoopCheck, LoopAt, LoopTo, AfterMessage, Wanted
<1>23. ASSUME LoopOffer PROVE Correlated'
  BY <1>23 DEF LoopOffer, LoopAt, LoopTo
<1>24. ASSUME LoopExit PROVE Correlated'
  BY <1>24 DEF LoopExit, LoopAt, LoopTo, ReadFailed
<1>25. ASSUME NEW k \in Closers, CloseStart(k) PROVE Correlated'
  BY <1>25 DEF CloseStart, CloserAt, CloserTo
<1>26. ASSUME NEW k \in Closers, CloseConn(k) PROVE Correlated'
  BY <1>26 DEF CloseConn, CloserAt, CloserTo, NilDeref, Cut, Down
<1>27. ASSUME NEW k \in Closers, CloseAwait(k) PROVE Correlated'
  BY <1>27 DEF CloseAwait, CloserAt, CloserTo, NilDeref
<1>28. ASSUME NEW k \in Closers, CloseWaited(k) PROVE Correlated'
  BY <1>28 DEF CloseWaited, CloserAt, CloserTo
<1>29. ASSUME NEW k \in Closers, CloseDrop(k) PROVE Correlated'
  BY <1>29 DEF CloseDrop, CloserAt, CloserTo
<1>30. ASSUME NEW k \in Closers, CloseClear(k) PROVE Correlated'
  BY <1>30 DEF CloseClear, CloserAt, CloserTo
<1>31. ASSUME Answer PROVE Correlated'
  BY <1>31 DEF Answer, Down
<1>32. ASSUME Disconnect PROVE Correlated'
  BY <1>32 DEF Disconnect, Cut, Down
<1>33. CASE UNCHANGED vars
  BY <1>33 DEF vars
<1> QED
  BY <1>1, <1>2, <1>3, <1>4, <1>5, <1>6, <1>7, <1>8, <1>9, <1>10, <1>11, <1>12,
     <1>13, <1>14, <1>15, <1>16, <1>17, <1>18, <1>19, <1>20, <1>21, <1>22, <1>23,
     <1>24, <1>25, <1>26, <1>27, <1>28, <1>29, <1>30, <1>31, <1>32,
     <1>33 DEF Next, Step, Loop, Close

-----------------------------------------------------------------------------
(* The theorems. *)

\* IndInv holds in the initial states.
LEMMA InitInv == Init => IndInv
<1> SUFFICES ASSUME Init PROVE IndInv
  OBVIOUS
<1> USE CallersAssumption, BoundsAssumption DEF Init
<1>1. FlagsOK
  BY Zenon DEF FlagsOK
<1>2. DataOK
  BY DEF DataOK, Exchange, Closers
<1>3. MutexInv /\ FlagInv /\ SerialInv /\ HandInv
  BY DEF MutexInv, FlagInv, SerialInv, HandInv, Carrying, Exchange, Waiting
<1>4. OwnerInv /\ OrderInv /\ Correlated
  BY DEF OwnerInv, OrderInv, Correlated, AtMostOnce, Outstanding, Lost, Carrying, Failing
<1> QED
  BY <1>1, <1>2, <1>3, <1>4 DEF IndInv, TypeOK

\* IndInv is an invariant of the specification.
THEOREM Invariance == Spec => []IndInv
<1>1. IndInv /\ [Next]_vars => IndInv'
  BY FlagsStep, DataStep, MutexStep, FlagStep, SerialStep, HandStep, OwnerStep,
     OrderStep, CorrelatedStep
  DEF IndInv, TypeOK
<1> QED
  BY InitInv, <1>1, PTL DEF Spec

\* Every variable keeps its type.
THEOREM TypeCorrect == Spec => []TypeOK
<1>1. IndInv => TypeOK
  BY DEF IndInv
<1> QED
  BY Invariance, <1>1, PTL

\* wantResponse never outlives the channels it vouches for.
THEOREM FlagMeansOpenAlways == Spec => []FlagMeansOpen
<1>1. IndInv => FlagMeansOpen
  BY DEF IndInv, FlagInv, FlagMeansOpen
<1> QED
  BY Invariance, <1>1, PTL

\* Until a caller leaves without its response, every call returns its own.
THEOREM CorrelatedAlways == Spec => []Correlated
<1>1. IndInv => Correlated
  BY DEF IndInv
<1> QED
  BY Invariance, <1>1, PTL

\* No call returns a response to a later request, timeouts or not.
THEOREM FromThePastAlways == Spec => []FromThePast
<1>1. IndInv => FromThePast
  BY DEF IndInv, SerialInv, FromThePast
<1> QED
  BY Invariance, <1>1, PTL

\* No response is returned by two calls, timeouts or not.
THEOREM AtMostOnceAlways == Spec => []AtMostOnce
<1>1. IndInv => AtMostOnce
  BY DEF IndInv, OwnerInv
<1> QED
  BY Invariance, <1>1, PTL

\* Responses may come late after a timeout, but neither ahead of their request
\* nor twice.
THEOREM InOrderAlways == Spec => []InOrder
<1>1. FromThePast /\ AtMostOnce => InOrder
  BY DEF InOrder
<1> QED
  BY FromThePastAlways, AtMostOnceAlways, <1>1, PTL

\* The send on a closed channel happens only after a call gave up.
THEOREM PanicNeedsAbandonAlways == Spec => []PanicNeedsAbandon
<1>1. IndInv => PanicNeedsAbandon
  BY DEF IndInv, OrderInv, PanicNeedsAbandon
<1> QED
  BY Invariance, <1>1, PTL
=============================================================================
