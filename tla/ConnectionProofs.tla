-------------------------- MODULE ConnectionProofs --------------------------
(***************************************************************************)
(* Proofs about Connection, for every number of callers, sessions and      *)
(* brokers and every configuration its assumptions allow.                  *)
(*                                                                         *)
(* IndInv is inductive relative to TypeOK.  Its parts are proved in the    *)
(* order they depend on each other: MutexInv by itself, SessionInv from    *)
(* MutexInv, RotateInv from SessionInv, BackoffInv and DestroyInv by       *)
(* themselves.  That every step is one of ConnectionFSM follows from       *)
(* SessionInv.  The lemmas of each part have one step per action.          *)
(***************************************************************************)
EXTENDS Connection, TLAPS

USE DEF At, Goto
USE DEF Threads, SessionStates, ConnectorPcs, CallerPcs, LoopPcs,
        ClosePcs, CallPcs, DestroyPcs

\* The locals of connect() before a call have their type.
LEMMA NoCallType == NoCall \in Calls
  BY ConfigAssumption DEF NoCall, Calls, States

\* Every update of one local of connect() that the actions make keeps the
\* type of the record.
LEMMA CallUpdates ==
    ASSUME NEW c \in Calls
    PROVE  /\ \A p \in States : [c EXCEPT !.prev = p] \in Calls
           /\ \A m \in {"initialized", "first", "retry"} :
                 [c EXCEPT !.mode = m] \in Calls
           /\ \A m \in Nat : [c EXCEPT !.max = m] \in Calls
           /\ \A b \in Brokers : [c EXCEPT !.tried = b] \in Calls
<1>1. Brokers \subseteq 0 .. NBrokers
  BY ConfigAssumption DEF Brokers
<1>2. \A b \in 0 .. NBrokers : [c EXCEPT !.tried = b] \in Calls
  BY DEF Calls
<1>3. \A b \in Brokers : [c EXCEPT !.tried = b] \in Calls
  BY <1>1, <1>2
<1>4. \A p \in States : [c EXCEPT !.prev = p] \in Calls
  BY DEF Calls
<1>5. \A m \in {"initialized", "first", "retry"} :
         [c EXCEPT !.mode = m] \in Calls
  BY DEF Calls
<1>6. \A m \in Nat : [c EXCEPT !.max = m] \in Calls
  BY DEF Calls
<1> QED BY <1>3, <1>4, <1>5, <1>6

\* The head of the do loop keeps the type of the locals.
LEMMA IterationType == TypeOK => NextIteration \in Calls
<1> SUFFICES ASSUME TypeOK PROVE NextIteration \in Calls
  OBVIOUS
<1> DEFINE idx == IF call.max = 0 THEN 0 ELSE call.idx + 1
<1>1. idx \in Nat
  BY DEF TypeOK, Calls
<1>2. (call.max = 0 \/ idx < call.max) \in BOOLEAN
  OBVIOUS
<1>3. (call.maxed \/ backoff_ms * BackoffFactor >= BackoffLimit) \in BOOLEAN
  OBVIOUS
<1> QED BY <1>1, <1>2, <1>3 DEF NextIteration, TypeOK, Calls

\* The capped pong timeout counter stays within its range.
LEMMA PongFacts ==
    /\ 0 \in 0 .. PongThreshold
    /\ \A n \in 0 .. PongThreshold :
          n < PongThreshold => n + 1 \in 0 .. PongThreshold
  BY ConfigAssumption

\* switchWsUri() stays within the list of brokers and, unless the list has
\* only one, leaves the broker it starts from.
LEMMA BrokerFacts ==
    /\ 0 \in Brokers /\ NBrokers \notin Brokers
    /\ \A t \in Brokers : (t + 1) % NBrokers \in Brokers
    /\ \A t \in Brokers : NBrokers > 1 => (t + 1) % NBrokers # t
<1>1. SUFFICES ASSUME NEW t \in Brokers
               PROVE  /\ (t + 1) % NBrokers \in Brokers
                      /\ NBrokers > 1 => (t + 1) % NBrokers # t
  BY ConfigAssumption DEF Brokers
<1>2. CASE t + 1 < NBrokers
  BY <1>2, ConfigAssumption DEF Brokers
<1>3. CASE t + 1 = NBrokers
  <2>1. NBrokers % NBrokers = 0
    BY ConfigAssumption
  <2> QED BY <1>3, <2>1, ConfigAssumption DEF Brokers
<1> QED BY <1>2, <1>3, ConfigAssumption DEF Brokers

\* The initial state is well typed.
LEMMA TypeInit == Init => TypeOK
<1> SUFFICES ASSUME Init PROVE TypeOK
  OBVIOUS
<1>1. peer \in [Sessions -> Brokers] /\ target_index \in Brokers
  BY BrokerFacts DEF Init
<1>2. pong_timeouts \in 0 .. PongThreshold
  BY PongFacts DEF Init
<1>3. call \in Calls
  BY NoCallType DEF Init
<1>4. pc \in [Threads -> ConnectorPcs \cup LoopPcs]
  BY DEF Init
<1>5. /\ pc[Connector] = "idle" /\ pc[Loop] = "idle"
      /\ \A t \in Callers : pc[t] = "idle"
  BY DEF Init
<1>6. /\ sess \in [Sessions -> SessionStates]
      /\ timer \in [Sessions -> BOOLEAN]
  BY DEF Init
<1>7. /\ connection_state = "initialized" /\ connection_handle = NoSession
      /\ backoff_ms = 2000 /\ state_mutex = NoThread /\ onOpen_mtx = NoThread
      /\ waiting = FALSE /\ resume = "stop" /\ current = NoSession
      /\ aborted = FALSE
  BY DEF Init, Backoff0
<1>8. /\ pc[Connector] \in ConnectorPcs /\ pc[Loop] \in LoopPcs
      /\ \A t \in Callers : pc[t] \in CallerPcs
  BY <1>5
<1>9. /\ connection_state \in States
      /\ connection_handle \in Sessions \cup {NoSession}
      /\ backoff_ms \in Nat
      /\ state_mutex \in Threads \cup {NoThread}
      /\ onOpen_mtx \in {Connector, NoThread}
      /\ resume \in {"drain", "check", "stop"}
      /\ current \in Sessions \cup {NoSession}
  BY <1>7 DEF States
<1>10. waiting \in BOOLEAN /\ aborted \in BOOLEAN
  BY <1>7
<1> HIDE DEF Threads, SessionStates, ConnectorPcs, CallerPcs, LoopPcs
<1> QED BY <1>1, <1>2, <1>3, <1>4, <1>6, <1>8, <1>9, <1>10 DEF TypeOK

\* Every step of every thread preserves the types: one case per action.
LEMMA TypeNext == TypeOK /\ [Next]_vars => TypeOK'
<1> SUFFICES ASSUME TypeOK, [Next]_vars PROVE TypeOK'
  OBVIOUS
<1> USE ThreadsAssumption
<1> USE DEF TypeOK
<1>1. CASE StartConnect
  <2>1. call' \in Calls
    <3>1. PICK m \in MaxAttempts :
            call' = [NoCall EXCEPT !.max = m, !.prev = connection_state]
      BY <1>1 DEF StartConnect
    <3>2. [NoCall EXCEPT !.max = m] \in Calls
      BY ConfigAssumption, NoCallType, CallUpdates
    <3> QED BY <3>1, <3>2, CallUpdates
  <2> QED BY <1>1, <2>1 DEF StartConnect, env, opening, config
<1>2. CASE HeadInitialized
  <2>1. call' \in Calls
    BY <1>2, IterationType, CallUpdates DEF HeadInitialized
  <2> QED BY <1>2, <2>1
     DEF HeadInitialized, HeadUnchanged, env, opening, config
<1>3. CASE HeadPending
  <2>1. call' \in Calls
    BY <1>3, IterationType, CallUpdates DEF HeadPending
  <2> QED BY <1>3, <2>1
     DEF HeadPending, HeadUnchanged, LoopTest, env, opening, config
<1>4. CASE HeadOpen
  BY <1>4, NoCallType DEF HeadOpen, HeadUnchanged, Backoff0, env, opening
<1>5. CASE HeadClosedFirst
  <2>1. call' \in Calls
    <3>1. [NextIteration EXCEPT !.prev = "connecting"] \in Calls
      BY IterationType, CallUpdates DEF States
    <3> QED BY <1>5, <3>1, CallUpdates DEF HeadClosedFirst
  <2> QED BY <1>5, <2>1
     DEF HeadClosedFirst, HeadUnchanged, env, opening, config
<1>6. CASE HeadClosedRetry
  <2>1. call' \in Calls
    BY <1>6, IterationType, CallUpdates DEF HeadClosedRetry
  <2>2. target_index' \in Brokers
    BY <1>6, BrokerFacts DEF HeadClosedRetry, SwitchWsUri
  <2> QED BY <1>6, <2>1, <2>2 DEF HeadClosedRetry, HeadUnchanged, env, opening
<1>7. CASE SetConnecting
  BY <1>7 DEF SetConnecting, States, env, locals, opening, config
<1>8. CASE GetConnection
  <2>1. call' \in Calls
    BY <1>8, CallUpdates DEF GetConnection
  <2> QED BY <1>8, <2>1 DEF GetConnection, opening, config
<1>9. CASE GetConnectionFails
  BY <1>9, NoCallType DEF GetConnectionFails, env, opening, config
<1>10. CASE WaitPredicate
  BY <1>10 DEF WaitPredicate, env, locals, config
<1>11. CASE Block
  BY <1>11 DEF Block, env, locals, config
<1>12. CASE WakeUp
  BY <1>12 DEF WakeUp, env, locals, opening, config
<1>13. CASE WaitTimeout
  BY <1>13 DEF WaitTimeout, env, locals, config
<1>14. CASE AfterInitialized
  <2>1. call' \in Calls
    BY <1>14, NoCallType DEF AfterInitialized
  <2> QED BY <1>14, <2>1
     DEF AfterInitialized, AfterUnchanged, LoopTest, env, opening
<1>15. CASE AfterFirst
  BY <1>15 DEF AfterFirst, AfterUnchanged, LoopTest, env, opening
<1>16. CASE AfterRetry
  BY <1>16
     DEF AfterRetry, AfterUnchanged, LoopTest, BackoffFactor, env, opening
<1>17. CASE Fatal
  BY <1>17, NoCallType DEF Fatal, AfterUnchanged, Backoff0, env, opening
<1>18. ASSUME NEW t \in Threads, StartClose(t) PROVE TypeOK'
  BY <1>18 DEF StartClose, CloseUnchanged, opening, config
<1>19. ASSUME NEW t \in Threads, CloseLock(t) PROVE TypeOK'
  BY <1>19
     DEF CloseLock, CloseReturns, CloseUnchanged, Returned, opening,
         config
<1>20. ASSUME NEW t \in Threads, CloseSend(t) PROVE TypeOK'
  <2>1. CASE connection_handle # NoSession /\ sess[connection_handle] = "open"
    BY <1>20, <2>1 DEF CloseSend, CloseUnchanged, opening, config
  <2>2. CASE ~(/\ connection_handle # NoSession
               /\ sess[connection_handle] = "open")
    <3>1. aborted' \in BOOLEAN
      BY <1>20, <2>2 DEF CloseSend, CloseThrows
    <3> QED BY <1>20, <2>2, <3>1
       DEF CloseSend, CloseThrows, CloseUnchanged, Returned, opening,
           config
  <2> QED BY <2>1, <2>2
<1>21. ASSUME NEW t \in Threads, CloseSet(t) PROVE TypeOK'
  BY <1>21
     DEF CloseSet, States, CloseReturns, CloseUnchanged, Returned,
         opening, config
<1>22. ASSUME NEW t \in Threads, Ping(t) PROVE TypeOK'
  BY <1>22 DEF Ping, locals, opening, config
<1>23. ASSUME NEW s \in Sessions, Establish(s) PROVE TypeOK'
  BY <1>23 DEF Establish, EventUnchanged, opening, config, locals
<1>24. ASSUME NEW s \in Sessions, HandshakeFails(s) PROVE TypeOK'
  BY <1>24 DEF HandshakeFails, EventUnchanged, opening, config, locals
<1>25. ASSUME NEW s \in Sessions, PeerCloses(s) PROVE TypeOK'
  BY <1>25 DEF PeerCloses, EventUnchanged, opening, config, locals
<1>26. ASSUME NEW s \in Sessions, Drop(s) PROVE TypeOK'
  BY <1>26 DEF Drop, EventUnchanged, opening, config, locals
<1>27. ASSUME NEW s \in Sessions, CloseHandshakeEnds(s) PROVE TypeOK'
  BY <1>27 DEF CloseHandshakeEnds, EventUnchanged, opening, config, locals
<1>28. ASSUME NEW s \in Sessions, Terminated(s) PROVE TypeOK'
  BY <1>28 DEF Terminated, EventUnchanged, opening, config, locals
<1>29. ASSUME NEW s \in Sessions, OnPong(s) PROVE TypeOK'
  <2>1. pong_timeouts' \in 0 .. PongThreshold
    BY <1>29, PongFacts DEF OnPong
  <2> QED BY <1>29, <2>1 DEF OnPong, EventUnchanged, opening, config, locals
<1>30. ASSUME NEW s \in Sessions, OnPongTimeout(s) PROVE TypeOK'
  <2>1. pong_timeouts' \in 0 .. PongThreshold
    BY <1>30, PongFacts DEF OnPongTimeout
  <2>2. \/ pc' = [pc EXCEPT ![Loop] = "close.lock"]
        \/ pc' = [pc EXCEPT ![Loop] = "idle"]
    BY <1>30 DEF OnPongTimeout
  <2>3. timer' = [timer EXCEPT ![s] = FALSE] /\ UNCHANGED <<sess, current>>
    BY <1>30 DEF OnPongTimeout
  <2>4. EventUnchanged
    BY <1>30 DEF OnPongTimeout
  <2> QED BY <2>1, <2>2, <2>3, <2>4 DEF EventUnchanged, opening, config, locals
<1>31. CASE OnOpenLock
  BY <1>31 DEF OnOpenLock, HandlerUnchanged, locals, opening, config
<1>32. CASE OnOpenSet
  BY <1>32 DEF OnOpenSet, States, HandlerUnchanged, locals, opening, config
<1>33. CASE OnOpenNotify
  <2>1. current' \in Sessions \cup {NoSession}
    BY <1>33 DEF OnOpenNotify
  <2>2. PICK l \in {"idle", "close.lock"} : pc' = [pc EXCEPT ![Loop] = l]
    BY <1>33 DEF OnOpenNotify
  <2>3. /\ waiting' = FALSE
        /\ UNCHANGED <<connection_state, state_mutex, aborted, onOpen_mtx>>
        /\ HandlerUnchanged
    BY <1>33 DEF OnOpenNotify
  <2> QED BY <2>1, <2>2, <2>3 DEF HandlerUnchanged, locals, config
<1>34. CASE OnEnd
  BY <1>34 DEF OnEnd, States, locals, opening, config
<1>35. CASE OnEndCallback
  BY <1>35 DEF OnEndCallback, HandlerUnchanged, locals, opening, config
<1>36. CASE LoopExits
  BY <1>36 DEF LoopExits, HandlerUnchanged, locals, opening, config
<1>37. CASE StartDestroy
  BY <1>37 DEF StartDestroy, DestroyUnchanged, env, opening, config
<1>38. CASE CleanUp
  BY <1>38 DEF CleanUp, DestroyUnchanged, env, opening, config
<1>39. CASE Drain
  BY <1>39 DEF Drain, DestroyUnchanged, env, opening, config
<1>40. CASE Check
  BY <1>40 DEF Check, DestroyUnchanged, env, opening, config
<1>41. CASE Linger
  BY <1>41 DEF Linger, DestroyUnchanged, env, opening, config
<1>42. CASE StopPerpetual
  BY <1>42 DEF StopPerpetual, DestroyUnchanged, env, opening, config
<1>43. CASE Join
  BY <1>43 DEF Join, DestroyUnchanged, env, opening, config
<1>44. CASE UNCHANGED vars
  BY <1>44 DEF vars, env, locals, opening, config
<1> QED BY <1>1, <1>2, <1>3, <1>4, <1>5, <1>6, <1>7, <1>8, <1>9, <1>10,
            <1>11, <1>12, <1>13, <1>14, <1>15, <1>16, <1>17, <1>18, <1>19,
            <1>20, <1>21, <1>22, <1>23, <1>24, <1>25, <1>26, <1>27, <1>28,
            <1>29, <1>30, <1>31, <1>32, <1>33, <1>34, <1>35, <1>36, <1>37,
            <1>38, <1>39, <1>40, <1>41, <1>42, <1>43, <1>44
       DEF Next, Step, ConnectStep, Head, After, DestroyStep, CloseStep,
           SessionEvent, HandlerStep, Finished

\* state_mutex_ is owned by the thread that is in one of its critical
\* sections: CloseLock and OnEnd are the only ways in and wait until it is
\* free.
LEMMA MutexNext == TypeOK /\ MutexInv /\ [Next]_vars => MutexInv'
<1> SUFFICES ASSUME TypeOK, MutexInv, [Next]_vars PROVE MutexInv'
  OBVIOUS
<1> USE ThreadsAssumption DEF MutexInv, TypeOK
<1>1. CASE StartConnect
  BY <1>1 DEF StartConnect, env, locals, opening, config
<1>2. CASE HeadInitialized
  BY <1>2 DEF HeadInitialized, HeadUnchanged, env, opening, config
<1>3. CASE HeadPending
  BY <1>3 DEF HeadPending, HeadUnchanged, LoopTest, env, opening, config
<1>4. CASE HeadOpen
  BY <1>4 DEF HeadOpen, HeadUnchanged, env, opening, config
<1>5. CASE HeadClosedFirst
  BY <1>5 DEF HeadClosedFirst, HeadUnchanged, env, opening, config
<1>6. CASE HeadClosedRetry
  BY <1>6 DEF HeadClosedRetry, HeadUnchanged, env, opening, config
<1>7. CASE SetConnecting
  BY <1>7 DEF SetConnecting, env, locals, opening, config
<1>8. CASE GetConnection
  BY <1>8 DEF GetConnection, opening, config
<1>9. CASE GetConnectionFails
  BY <1>9 DEF GetConnectionFails, env, opening, config
<1>10. CASE WaitPredicate
  BY <1>10 DEF WaitPredicate, env, locals, config
<1>11. CASE Block
  BY <1>11 DEF Block, env, locals, config
<1>12. CASE WakeUp
  BY <1>12 DEF WakeUp, env, locals, opening, config
<1>13. CASE WaitTimeout
  BY <1>13 DEF WaitTimeout, env, locals, config
<1>14. CASE AfterInitialized
  BY <1>14 DEF AfterInitialized, AfterUnchanged, LoopTest, env, opening
<1>15. CASE AfterFirst
  BY <1>15 DEF AfterFirst, AfterUnchanged, LoopTest, env, opening
<1>16. CASE AfterRetry
  BY <1>16 DEF AfterRetry, AfterUnchanged, LoopTest, env, opening
<1>17. CASE Fatal
  BY <1>17 DEF Fatal, AfterUnchanged, env, opening
<1>18. ASSUME NEW t \in Threads, StartClose(t) PROVE MutexInv'
  BY <1>18 DEF StartClose, CloseUnchanged, opening, config
<1>19. ASSUME NEW t \in Threads, CloseLock(t) PROVE MutexInv'
  BY <1>19
     DEF CloseLock, CloseReturns, CloseUnchanged, Returned, opening, config
<1>20. ASSUME NEW t \in Threads, CloseSend(t) PROVE MutexInv'
  BY <1>20
     DEF CloseSend, CloseThrows, CloseUnchanged, Returned, opening, config
<1>21. ASSUME NEW t \in Threads, CloseSet(t) PROVE MutexInv'
  BY <1>21
     DEF CloseSet, CloseReturns, CloseUnchanged, Returned, opening, config
<1>22. ASSUME NEW t \in Threads, Ping(t) PROVE MutexInv'
  BY <1>22 DEF Ping, locals, opening, config
<1>23. ASSUME NEW s \in Sessions, Establish(s) PROVE MutexInv'
  BY <1>23 DEF Establish, EventUnchanged, opening, config, locals
<1>24. ASSUME NEW s \in Sessions, HandshakeFails(s) PROVE MutexInv'
  BY <1>24 DEF HandshakeFails, EventUnchanged, opening, config, locals
<1>25. ASSUME NEW s \in Sessions, PeerCloses(s) PROVE MutexInv'
  BY <1>25 DEF PeerCloses, EventUnchanged, opening, config, locals
<1>26. ASSUME NEW s \in Sessions, Drop(s) PROVE MutexInv'
  BY <1>26 DEF Drop, EventUnchanged, opening, config, locals
<1>27. ASSUME NEW s \in Sessions, CloseHandshakeEnds(s) PROVE MutexInv'
  BY <1>27 DEF CloseHandshakeEnds, EventUnchanged, opening, config, locals
<1>28. ASSUME NEW s \in Sessions, Terminated(s) PROVE MutexInv'
  BY <1>28 DEF Terminated, EventUnchanged, opening, config, locals
<1>29. ASSUME NEW s \in Sessions, OnPong(s) PROVE MutexInv'
  BY <1>29 DEF OnPong, EventUnchanged, opening, config, locals
<1>30. ASSUME NEW s \in Sessions, OnPongTimeout(s) PROVE MutexInv'
  BY <1>30 DEF OnPongTimeout, EventUnchanged, opening, config, locals
<1>31. CASE OnOpenLock
  BY <1>31 DEF OnOpenLock, HandlerUnchanged, locals, opening, config
<1>32. CASE OnOpenSet
  BY <1>32 DEF OnOpenSet, HandlerUnchanged, locals, opening, config
<1>33. CASE OnOpenNotify
  BY <1>33 DEF OnOpenNotify, HandlerUnchanged, locals, config
<1>34. CASE OnEnd
  BY <1>34 DEF OnEnd, locals, opening, config
<1>35. CASE OnEndCallback
  BY <1>35 DEF OnEndCallback, HandlerUnchanged, locals, opening, config
<1>36. CASE LoopExits
  BY <1>36 DEF LoopExits, HandlerUnchanged, locals, opening, config
<1>37. CASE StartDestroy
  BY <1>37 DEF StartDestroy, DestroyUnchanged, env, opening, config
<1>38. CASE CleanUp
  BY <1>38 DEF CleanUp, DestroyUnchanged, env, opening, config
<1>39. CASE Drain
  BY <1>39 DEF Drain, DestroyUnchanged, env, opening, config
<1>40. CASE Check
  BY <1>40 DEF Check, DestroyUnchanged, env, opening, config
<1>41. CASE Linger
  BY <1>41 DEF Linger, DestroyUnchanged, env, opening, config
<1>42. CASE StopPerpetual
  BY <1>42 DEF StopPerpetual, DestroyUnchanged, env, opening, config
<1>43. CASE Join
  BY <1>43 DEF Join, DestroyUnchanged, env, opening, config
<1>44. CASE UNCHANGED vars
  BY <1>44 DEF vars, env, locals, opening, config
<1> QED BY <1>1, <1>2, <1>3, <1>4, <1>5, <1>6, <1>7, <1>8, <1>9, <1>10,
            <1>11, <1>12, <1>13, <1>14, <1>15, <1>16, <1>17, <1>18, <1>19,
            <1>20, <1>21, <1>22, <1>23, <1>24, <1>25, <1>26, <1>27, <1>28,
            <1>29, <1>30, <1>31, <1>32, <1>33, <1>34, <1>35, <1>36, <1>37,
            <1>38, <1>39, <1>40, <1>41, <1>42, <1>43, <1>44
       DEF Next, Step, ConnectStep, Head, After, DestroyStep, CloseStep,
           SessionEvent, HandlerStep, Finished

\* The steps keep the one session and the reported state together.  The two
\* races that matter are close() against onClose (CloseSet and OnEnd),
\* settled by MutexInv, and onOpen, which takes no state_mutex_, against
\* both: its own session cannot end before the handler returns, because the
\* loop runs one handler at a time.
LEMMA SessionNext ==
    TypeOK /\ MutexInv /\ SessionInv /\ [Next]_vars => SessionInv'
<1> SUFFICES ASSUME TypeOK, MutexInv, SessionInv, [Next]_vars PROVE SessionInv'
  OBVIOUS
<1> USE ThreadsAssumption, SessionsAssumption
    DEF MutexInv, SessionInv, OneSession, StateMatchesSession, Live, TypeOK
<1>1. CASE StartConnect
  BY <1>1 DEF StartConnect, env, locals, opening, config
<1>2. CASE HeadInitialized
  BY <1>2 DEF HeadInitialized, HeadUnchanged, env, opening, config
<1>3. CASE HeadPending
  BY <1>3 DEF HeadPending, HeadUnchanged, LoopTest, env, opening, config
<1>4. CASE HeadOpen
  BY <1>4 DEF HeadOpen, HeadUnchanged, env, opening, config
<1>5. CASE HeadClosedFirst
  BY <1>5 DEF HeadClosedFirst, HeadUnchanged, env, opening, config
<1>6. CASE HeadClosedRetry
  BY <1>6 DEF HeadClosedRetry, HeadUnchanged, env, opening, config
<1>7. CASE SetConnecting
  BY <1>7 DEF SetConnecting, env, locals, opening, config
<1>8. CASE GetConnection
  BY <1>8 DEF GetConnection, opening, config
<1>9. CASE GetConnectionFails
  BY <1>9 DEF GetConnectionFails, env, opening, config
<1>10. CASE WaitPredicate
  BY <1>10 DEF WaitPredicate, env, locals, config
<1>11. CASE Block
  BY <1>11 DEF Block, env, locals, config
<1>12. CASE WakeUp
  BY <1>12 DEF WakeUp, env, locals, opening, config
<1>13. CASE WaitTimeout
  BY <1>13 DEF WaitTimeout, env, locals, config
<1>14. CASE AfterInitialized
  BY <1>14 DEF AfterInitialized, AfterUnchanged, LoopTest, env, opening
<1>15. CASE AfterFirst
  BY <1>15 DEF AfterFirst, AfterUnchanged, LoopTest, env, opening
<1>16. CASE AfterRetry
  BY <1>16 DEF AfterRetry, AfterUnchanged, LoopTest, env, opening
<1>17. CASE Fatal
  BY <1>17 DEF Fatal, AfterUnchanged, env, opening
<1>18. ASSUME NEW t \in Threads, StartClose(t) PROVE SessionInv'
  BY <1>18 DEF StartClose, CloseUnchanged, opening, config
<1>19. ASSUME NEW t \in Threads, CloseLock(t) PROVE SessionInv'
  BY <1>19
     DEF CloseLock, CloseReturns, CloseUnchanged, Returned, opening, config
<1>20. ASSUME NEW t \in Threads, CloseSend(t) PROVE SessionInv'
  BY <1>20
     DEF CloseSend, CloseThrows, CloseUnchanged, Returned, opening, config
<1>21. ASSUME NEW t \in Threads, CloseSet(t) PROVE SessionInv'
  BY <1>21
     DEF CloseSet, CloseReturns, CloseUnchanged, Returned, opening, config
<1>22. ASSUME NEW t \in Threads, Ping(t) PROVE SessionInv'
  BY <1>22 DEF Ping, locals, opening, config
<1>23. ASSUME NEW s \in Sessions, Establish(s) PROVE SessionInv'
  BY <1>23 DEF Establish, EventUnchanged, opening, config, locals
<1>24. ASSUME NEW s \in Sessions, HandshakeFails(s) PROVE SessionInv'
  BY <1>24 DEF HandshakeFails, EventUnchanged, opening, config, locals
<1>25. ASSUME NEW s \in Sessions, PeerCloses(s) PROVE SessionInv'
  BY <1>25 DEF PeerCloses, EventUnchanged, opening, config, locals
<1>26. ASSUME NEW s \in Sessions, Drop(s) PROVE SessionInv'
  BY <1>26 DEF Drop, EventUnchanged, opening, config, locals
<1>27. ASSUME NEW s \in Sessions, CloseHandshakeEnds(s) PROVE SessionInv'
  BY <1>27 DEF CloseHandshakeEnds, EventUnchanged, opening, config, locals
<1>28. ASSUME NEW s \in Sessions, Terminated(s) PROVE SessionInv'
  BY <1>28 DEF Terminated, EventUnchanged, opening, config, locals
<1>29. ASSUME NEW s \in Sessions, OnPong(s) PROVE SessionInv'
  BY <1>29 DEF OnPong, EventUnchanged, opening, config, locals
<1>30. ASSUME NEW s \in Sessions, OnPongTimeout(s) PROVE SessionInv'
  BY <1>30 DEF OnPongTimeout, EventUnchanged, opening, config, locals
<1>31. CASE OnOpenLock
  BY <1>31 DEF OnOpenLock, HandlerUnchanged, locals, opening, config
<1>32. CASE OnOpenSet
  BY <1>32 DEF OnOpenSet, HandlerUnchanged, locals, opening, config
<1>33. CASE OnOpenNotify
  BY <1>33 DEF OnOpenNotify, HandlerUnchanged, locals, config
<1>34. CASE OnEnd
  BY <1>34 DEF OnEnd, locals, opening, config
<1>35. CASE OnEndCallback
  BY <1>35 DEF OnEndCallback, HandlerUnchanged, locals, opening, config
<1>36. CASE LoopExits
  BY <1>36 DEF LoopExits, HandlerUnchanged, locals, opening, config
<1>37. CASE StartDestroy
  BY <1>37 DEF StartDestroy, DestroyUnchanged, env, opening, config
<1>38. CASE CleanUp
  BY <1>38 DEF CleanUp, DestroyUnchanged, env, opening, config
<1>39. CASE Drain
  BY <1>39 DEF Drain, DestroyUnchanged, env, opening, config
<1>40. CASE Check
  BY <1>40 DEF Check, DestroyUnchanged, env, opening, config
<1>41. CASE Linger
  BY <1>41 DEF Linger, DestroyUnchanged, env, opening, config
<1>42. CASE StopPerpetual
  BY <1>42 DEF StopPerpetual, DestroyUnchanged, env, opening, config
<1>43. CASE Join
  BY <1>43 DEF Join, DestroyUnchanged, env, opening, config
<1>44. CASE UNCHANGED vars
  BY <1>44 DEF vars, env, locals, opening, config
<1> QED BY <1>1, <1>2, <1>3, <1>4, <1>5, <1>6, <1>7, <1>8, <1>9, <1>10,
            <1>11, <1>12, <1>13, <1>14, <1>15, <1>16, <1>17, <1>18, <1>19,
            <1>20, <1>21, <1>22, <1>23, <1>24, <1>25, <1>26, <1>27, <1>28,
            <1>29, <1>30, <1>31, <1>32, <1>33, <1>34, <1>35, <1>36, <1>37,
            <1>38, <1>39, <1>40, <1>41, <1>42, <1>43, <1>44
       DEF Next, Step, ConnectStep, Head, After, DestroyStep, CloseStep,
           SessionEvent, HandlerStep, Finished

\* What got_max_backoff is after the head of the do loop.
LEMMA ExceptMaxed ==
    ASSUME NEW c \in Calls, NEW i, NEW a, NEW m
    PROVE  [c EXCEPT !.idx = i, !.again = a, !.maxed = m].maxed = m
  BY DEF Calls

\* An iteration that has not seen the limit starts with a backoff of at most
\* 16 seconds, so that doubling it once gives at most 32.
LEMMA MaxedFact ==
    ASSUME TypeOK, BackoffBounded, ~NextIteration.maxed
    PROVE  backoff_ms <= 16000
<1>1. CASE backoff_ms * 2 >= 33000
  <2>1. backoff_ms * BackoffFactor >= BackoffLimit
    BY <1>1 DEF BackoffFactor, BackoffLimit
  <2>2. NextIteration.maxed
            = (call.maxed \/ backoff_ms * BackoffFactor >= BackoffLimit)
    BY ExceptMaxed DEF NextIteration, TypeOK
  <2>3. (call.maxed \/ backoff_ms * BackoffFactor >= BackoffLimit) = TRUE
    BY <2>1
  <2>4. NextIteration.maxed = TRUE
    BY <2>2, <2>3, Zenon
  <2> QED BY <2>4
<1>2. CASE ~(backoff_ms * 2 >= 33000)
  BY <1>2 DEF BackoffBounded
<1> QED BY <1>1, <1>2

\* The backoff stays one of the five values, over any number of calls.
LEMMA BackoffNext == TypeOK /\ BackoffInv /\ [Next]_vars => BackoffInv'
<1> SUFFICES ASSUME TypeOK, BackoffInv, [Next]_vars PROVE BackoffInv'
  OBVIOUS
<1> USE ThreadsAssumption
    DEF BackoffInv, BackoffBounded, TypeOK, Backoff0, BackoffFactor
<1>1. CASE StartConnect
  BY <1>1 DEF StartConnect, env, locals, opening, config
<1>2. CASE HeadInitialized
  <2>1. call'.maxed = NextIteration.maxed /\ backoff_ms' = backoff_ms
    BY <1>2 DEF HeadInitialized, NextIteration, HeadUnchanged, config
  <2>2. pc' = [pc EXCEPT ![Connector] = "connect"]
    BY <1>2 DEF HeadInitialized
  <2> QED BY <2>1, <2>2, MaxedFact
<1>3. CASE HeadPending
  BY <1>3 DEF HeadPending, HeadUnchanged, LoopTest, env, opening, config
<1>4. CASE HeadOpen
  BY <1>4 DEF HeadOpen, HeadUnchanged, env, opening, config
<1>5. CASE HeadClosedFirst
  <2>1. call'.maxed = NextIteration.maxed /\ backoff_ms' = backoff_ms
    BY <1>5 DEF HeadClosedFirst, NextIteration, HeadUnchanged, config
  <2>2. pc' = [pc EXCEPT ![Connector] = "connect"]
    BY <1>5 DEF HeadClosedFirst
  <2> QED BY <2>1, <2>2, MaxedFact
<1>6. CASE HeadClosedRetry
  <2>1. call'.maxed = NextIteration.maxed /\ backoff_ms' = backoff_ms
    BY <1>6 DEF HeadClosedRetry, NextIteration, HeadUnchanged, config
  <2>2. pc' = [pc EXCEPT ![Connector] = "connect"]
    BY <1>6 DEF HeadClosedRetry
  <2> QED BY <2>1, <2>2, MaxedFact
<1>7. CASE SetConnecting
  BY <1>7 DEF SetConnecting, env, locals, opening, config
<1>8. CASE GetConnection
  BY <1>8 DEF GetConnection, opening, config
<1>9. CASE GetConnectionFails
  BY <1>9 DEF GetConnectionFails, env, opening, config
<1>10. CASE WaitPredicate
  BY <1>10 DEF WaitPredicate, env, locals, config
<1>11. CASE Block
  BY <1>11 DEF Block, env, locals, config
<1>12. CASE WakeUp
  BY <1>12 DEF WakeUp, env, locals, opening, config
<1>13. CASE WaitTimeout
  BY <1>13 DEF WaitTimeout, env, locals, config
<1>14. CASE AfterInitialized
  BY <1>14 DEF AfterInitialized, AfterUnchanged, LoopTest, env, opening
<1>15. CASE AfterFirst
  BY <1>15 DEF AfterFirst, AfterUnchanged, LoopTest, env, opening
<1>16. CASE AfterRetry
  BY <1>16 DEF AfterRetry, AfterUnchanged, LoopTest, env, opening
<1>17. CASE Fatal
  BY <1>17 DEF Fatal, AfterUnchanged, env, opening
<1>18. ASSUME NEW t \in Threads, StartClose(t) PROVE BackoffInv'
  BY <1>18 DEF StartClose, CloseUnchanged, opening, config
<1>19. ASSUME NEW t \in Threads, CloseLock(t) PROVE BackoffInv'
  BY <1>19
     DEF CloseLock, CloseReturns, CloseUnchanged, Returned, opening, config
<1>20. ASSUME NEW t \in Threads, CloseSend(t) PROVE BackoffInv'
  BY <1>20
     DEF CloseSend, CloseThrows, CloseUnchanged, Returned, opening, config
<1>21. ASSUME NEW t \in Threads, CloseSet(t) PROVE BackoffInv'
  BY <1>21
     DEF CloseSet, CloseReturns, CloseUnchanged, Returned, opening, config
<1>22. ASSUME NEW t \in Threads, Ping(t) PROVE BackoffInv'
  BY <1>22 DEF Ping, locals, opening, config
<1>23. ASSUME NEW s \in Sessions, Establish(s) PROVE BackoffInv'
  BY <1>23 DEF Establish, EventUnchanged, opening, config, locals
<1>24. ASSUME NEW s \in Sessions, HandshakeFails(s) PROVE BackoffInv'
  BY <1>24 DEF HandshakeFails, EventUnchanged, opening, config, locals
<1>25. ASSUME NEW s \in Sessions, PeerCloses(s) PROVE BackoffInv'
  BY <1>25 DEF PeerCloses, EventUnchanged, opening, config, locals
<1>26. ASSUME NEW s \in Sessions, Drop(s) PROVE BackoffInv'
  BY <1>26 DEF Drop, EventUnchanged, opening, config, locals
<1>27. ASSUME NEW s \in Sessions, CloseHandshakeEnds(s) PROVE BackoffInv'
  BY <1>27 DEF CloseHandshakeEnds, EventUnchanged, opening, config, locals
<1>28. ASSUME NEW s \in Sessions, Terminated(s) PROVE BackoffInv'
  BY <1>28 DEF Terminated, EventUnchanged, opening, config, locals
<1>29. ASSUME NEW s \in Sessions, OnPong(s) PROVE BackoffInv'
  BY <1>29 DEF OnPong, EventUnchanged, opening, config, locals
<1>30. ASSUME NEW s \in Sessions, OnPongTimeout(s) PROVE BackoffInv'
  BY <1>30 DEF OnPongTimeout, EventUnchanged, opening, config, locals
<1>31. CASE OnOpenLock
  BY <1>31 DEF OnOpenLock, HandlerUnchanged, locals, opening, config
<1>32. CASE OnOpenSet
  BY <1>32 DEF OnOpenSet, HandlerUnchanged, locals, opening, config
<1>33. CASE OnOpenNotify
  BY <1>33 DEF OnOpenNotify, HandlerUnchanged, locals, config
<1>34. CASE OnEnd
  BY <1>34 DEF OnEnd, locals, opening, config
<1>35. CASE OnEndCallback
  BY <1>35 DEF OnEndCallback, HandlerUnchanged, locals, opening, config
<1>36. CASE LoopExits
  BY <1>36 DEF LoopExits, HandlerUnchanged, locals, opening, config
<1>37. CASE StartDestroy
  BY <1>37 DEF StartDestroy, DestroyUnchanged, env, opening, config
<1>38. CASE CleanUp
  BY <1>38 DEF CleanUp, DestroyUnchanged, env, opening, config
<1>39. CASE Drain
  BY <1>39 DEF Drain, DestroyUnchanged, env, opening, config
<1>40. CASE Check
  BY <1>40 DEF Check, DestroyUnchanged, env, opening, config
<1>41. CASE Linger
  BY <1>41 DEF Linger, DestroyUnchanged, env, opening, config
<1>42. CASE StopPerpetual
  BY <1>42 DEF StopPerpetual, DestroyUnchanged, env, opening, config
<1>43. CASE Join
  BY <1>43 DEF Join, DestroyUnchanged, env, opening, config
<1>44. CASE UNCHANGED vars
  BY <1>44 DEF vars, env, locals, opening, config
<1> QED BY <1>1, <1>2, <1>3, <1>4, <1>5, <1>6, <1>7, <1>8, <1>9, <1>10,
            <1>11, <1>12, <1>13, <1>14, <1>15, <1>16, <1>17, <1>18, <1>19,
            <1>20, <1>21, <1>22, <1>23, <1>24, <1>25, <1>26, <1>27, <1>28,
            <1>29, <1>30, <1>31, <1>32, <1>33, <1>34, <1>35, <1>36, <1>37,
            <1>38, <1>39, <1>40, <1>41, <1>42, <1>43, <1>44
       DEF Next, Step, ConnectStep, Head, After, DestroyStep, CloseStep,
           SessionEvent, HandlerStep, Finished

\* Every attempt of a call but the first has switchWsUri() between it and
\* the attempt before it.
LEMMA RotateNext ==
    TypeOK /\ SessionInv /\ RotateInv /\ [Next]_vars => RotateInv'
<1> SUFFICES ASSUME TypeOK, SessionInv, RotateInv, [Next]_vars PROVE RotateInv'
  OBVIOUS
<1> USE ThreadsAssumption, BrokerFacts
    DEF RotateInv, AttemptsRotate, SessionInv, TypeOK, Calls, States
<1>1. CASE StartConnect
  BY <1>1 DEF StartConnect, NoCall, env, locals, opening, config
<1>2. CASE HeadInitialized
  BY <1>2
     DEF HeadInitialized, NextIteration, HeadUnchanged, env, opening, config
<1>3. CASE HeadPending
  BY <1>3
     DEF HeadPending, NextIteration, HeadUnchanged, LoopTest, env, opening,
         config
<1>4. CASE HeadOpen
  BY <1>4 DEF HeadOpen, NoCall, HeadUnchanged, env, opening, config
<1>5. CASE HeadClosedFirst
  BY <1>5
     DEF HeadClosedFirst, NextIteration, HeadUnchanged, env, opening, config
<1>6. CASE HeadClosedRetry
  BY <1>6
     DEF HeadClosedRetry, NextIteration, SwitchWsUri, HeadUnchanged, env,
         opening, config
<1>7. CASE SetConnecting
  BY <1>7 DEF SetConnecting, env, locals, opening, config
<1>8. CASE GetConnection
  <2>1. /\ call'.tried = target_index /\ call'.prev = call.prev
        /\ UNCHANGED <<connection_state, target_index>>
    BY <1>8 DEF GetConnection, config
  <2>2. pc' = [pc EXCEPT ![Connector] = "wait"] /\ pc[Connector] = "get"
    BY <1>8 DEF GetConnection
  <2> QED BY <2>1, <2>2
<1>9. CASE GetConnectionFails
  BY <1>9 DEF GetConnectionFails, NoCall, env, opening, config
<1>10. CASE WaitPredicate
  BY <1>10 DEF WaitPredicate, env, locals, config
<1>11. CASE Block
  BY <1>11 DEF Block, env, locals, config
<1>12. CASE WakeUp
  BY <1>12 DEF WakeUp, env, locals, opening, config
<1>13. CASE WaitTimeout
  BY <1>13 DEF WaitTimeout, env, locals, config
<1>14. CASE AfterInitialized
  BY <1>14 DEF AfterInitialized, NoCall, AfterUnchanged, LoopTest, env, opening
<1>15. CASE AfterFirst
  BY <1>15 DEF AfterFirst, AfterUnchanged, LoopTest, env, opening
<1>16. CASE AfterRetry
  BY <1>16 DEF AfterRetry, AfterUnchanged, LoopTest, env, opening
<1>17. CASE Fatal
  BY <1>17 DEF Fatal, NoCall, AfterUnchanged, env, opening
<1>18. ASSUME NEW t \in Threads, StartClose(t) PROVE RotateInv'
  BY <1>18 DEF StartClose, CloseUnchanged, opening, config
<1>19. ASSUME NEW t \in Threads, CloseLock(t) PROVE RotateInv'
  BY <1>19
     DEF CloseLock, CloseReturns, CloseUnchanged, Returned, opening, config
<1>20. ASSUME NEW t \in Threads, CloseSend(t) PROVE RotateInv'
  BY <1>20
     DEF CloseSend, CloseThrows, CloseUnchanged, Returned, opening, config
<1>21. ASSUME NEW t \in Threads, CloseSet(t) PROVE RotateInv'
  BY <1>21
     DEF CloseSet, CloseReturns, CloseUnchanged, Returned, opening, config
<1>22. ASSUME NEW t \in Threads, Ping(t) PROVE RotateInv'
  BY <1>22 DEF Ping, locals, opening, config
<1>23. ASSUME NEW s \in Sessions, Establish(s) PROVE RotateInv'
  BY <1>23 DEF Establish, EventUnchanged, opening, config, locals
<1>24. ASSUME NEW s \in Sessions, HandshakeFails(s) PROVE RotateInv'
  BY <1>24 DEF HandshakeFails, EventUnchanged, opening, config, locals
<1>25. ASSUME NEW s \in Sessions, PeerCloses(s) PROVE RotateInv'
  BY <1>25 DEF PeerCloses, EventUnchanged, opening, config, locals
<1>26. ASSUME NEW s \in Sessions, Drop(s) PROVE RotateInv'
  BY <1>26 DEF Drop, EventUnchanged, opening, config, locals
<1>27. ASSUME NEW s \in Sessions, CloseHandshakeEnds(s) PROVE RotateInv'
  BY <1>27 DEF CloseHandshakeEnds, EventUnchanged, opening, config, locals
<1>28. ASSUME NEW s \in Sessions, Terminated(s) PROVE RotateInv'
  BY <1>28 DEF Terminated, EventUnchanged, opening, config, locals
<1>29. ASSUME NEW s \in Sessions, OnPong(s) PROVE RotateInv'
  BY <1>29 DEF OnPong, EventUnchanged, opening, config, locals
<1>30. ASSUME NEW s \in Sessions, OnPongTimeout(s) PROVE RotateInv'
  BY <1>30 DEF OnPongTimeout, EventUnchanged, opening, config, locals
<1>31. CASE OnOpenLock
  BY <1>31 DEF OnOpenLock, HandlerUnchanged, locals, opening, config
<1>32. CASE OnOpenSet
  BY <1>32 DEF OnOpenSet, HandlerUnchanged, locals, opening, config
<1>33. CASE OnOpenNotify
  BY <1>33 DEF OnOpenNotify, HandlerUnchanged, locals, config
<1>34. CASE OnEnd
  BY <1>34 DEF OnEnd, locals, opening, config
<1>35. CASE OnEndCallback
  BY <1>35 DEF OnEndCallback, HandlerUnchanged, locals, opening, config
<1>36. CASE LoopExits
  BY <1>36 DEF LoopExits, HandlerUnchanged, locals, opening, config
<1>37. CASE StartDestroy
  BY <1>37 DEF StartDestroy, DestroyUnchanged, env, opening, config
<1>38. CASE CleanUp
  BY <1>38 DEF CleanUp, DestroyUnchanged, env, opening, config
<1>39. CASE Drain
  BY <1>39 DEF Drain, DestroyUnchanged, env, opening, config
<1>40. CASE Check
  BY <1>40 DEF Check, DestroyUnchanged, env, opening, config
<1>41. CASE Linger
  BY <1>41 DEF Linger, DestroyUnchanged, env, opening, config
<1>42. CASE StopPerpetual
  BY <1>42 DEF StopPerpetual, DestroyUnchanged, env, opening, config
<1>43. CASE Join
  BY <1>43 DEF Join, DestroyUnchanged, env, opening, config
<1>44. CASE UNCHANGED vars
  BY <1>44 DEF vars, env, locals, opening, config
<1> QED BY <1>1, <1>2, <1>3, <1>4, <1>5, <1>6, <1>7, <1>8, <1>9, <1>10,
            <1>11, <1>12, <1>13, <1>14, <1>15, <1>16, <1>17, <1>18, <1>19,
            <1>20, <1>21, <1>22, <1>23, <1>24, <1>25, <1>26, <1>27, <1>28,
            <1>29, <1>30, <1>31, <1>32, <1>33, <1>34, <1>35, <1>36, <1>37,
            <1>38, <1>39, <1>40, <1>41, <1>42, <1>43, <1>44
       DEF Next, Step, ConnectStep, Head, After, DestroyStep, CloseStep,
           SessionEvent, HandlerStep, Finished

\* Nobody enters the object once the destructor has begun, and the event
\* loop thread only exits when nothing is left that could call a handler.
LEMMA DestroyNext == TypeOK /\ DestroyInv /\ [Next]_vars => DestroyInv'
<1> SUFFICES ASSUME TypeOK, DestroyInv, [Next]_vars PROVE DestroyInv'
  OBVIOUS
<1> USE ThreadsAssumption DEF DestroyInv, Destroying, Live, TypeOK
<1>1. CASE StartConnect
  BY <1>1 DEF StartConnect, env, locals, opening, config
<1>2. CASE HeadInitialized
  BY <1>2 DEF HeadInitialized, HeadUnchanged, env, opening, config
<1>3. CASE HeadPending
  BY <1>3 DEF HeadPending, HeadUnchanged, LoopTest, env, opening, config
<1>4. CASE HeadOpen
  BY <1>4 DEF HeadOpen, HeadUnchanged, env, opening, config
<1>5. CASE HeadClosedFirst
  BY <1>5 DEF HeadClosedFirst, HeadUnchanged, env, opening, config
<1>6. CASE HeadClosedRetry
  BY <1>6 DEF HeadClosedRetry, HeadUnchanged, env, opening, config
<1>7. CASE SetConnecting
  BY <1>7 DEF SetConnecting, env, locals, opening, config
<1>8. CASE GetConnection
  BY <1>8 DEF GetConnection, opening, config
<1>9. CASE GetConnectionFails
  BY <1>9 DEF GetConnectionFails, env, opening, config
<1>10. CASE WaitPredicate
  BY <1>10 DEF WaitPredicate, env, locals, config
<1>11. CASE Block
  BY <1>11 DEF Block, env, locals, config
<1>12. CASE WakeUp
  BY <1>12 DEF WakeUp, env, locals, opening, config
<1>13. CASE WaitTimeout
  BY <1>13 DEF WaitTimeout, env, locals, config
<1>14. CASE AfterInitialized
  BY <1>14 DEF AfterInitialized, AfterUnchanged, LoopTest, env, opening
<1>15. CASE AfterFirst
  BY <1>15 DEF AfterFirst, AfterUnchanged, LoopTest, env, opening
<1>16. CASE AfterRetry
  BY <1>16 DEF AfterRetry, AfterUnchanged, LoopTest, env, opening
<1>17. CASE Fatal
  BY <1>17 DEF Fatal, AfterUnchanged, env, opening
<1>18. ASSUME NEW t \in Threads, StartClose(t) PROVE DestroyInv'
  BY <1>18 DEF StartClose, CloseUnchanged, opening, config
<1>19. ASSUME NEW t \in Threads, CloseLock(t) PROVE DestroyInv'
  BY <1>19
     DEF CloseLock, CloseReturns, CloseUnchanged, Returned, opening, config
<1>20. ASSUME NEW t \in Threads, CloseSend(t) PROVE DestroyInv'
  BY <1>20
     DEF CloseSend, CloseThrows, CloseUnchanged, Returned, opening, config
<1>21. ASSUME NEW t \in Threads, CloseSet(t) PROVE DestroyInv'
  BY <1>21
     DEF CloseSet, CloseReturns, CloseUnchanged, Returned, opening, config
<1>22. ASSUME NEW t \in Threads, Ping(t) PROVE DestroyInv'
  BY <1>22 DEF Ping, locals, opening, config
<1>23. ASSUME NEW s \in Sessions, Establish(s) PROVE DestroyInv'
  BY <1>23 DEF Establish, EventUnchanged, opening, config, locals
<1>24. ASSUME NEW s \in Sessions, HandshakeFails(s) PROVE DestroyInv'
  BY <1>24 DEF HandshakeFails, EventUnchanged, opening, config, locals
<1>25. ASSUME NEW s \in Sessions, PeerCloses(s) PROVE DestroyInv'
  BY <1>25 DEF PeerCloses, EventUnchanged, opening, config, locals
<1>26. ASSUME NEW s \in Sessions, Drop(s) PROVE DestroyInv'
  BY <1>26 DEF Drop, EventUnchanged, opening, config, locals
<1>27. ASSUME NEW s \in Sessions, CloseHandshakeEnds(s) PROVE DestroyInv'
  BY <1>27 DEF CloseHandshakeEnds, EventUnchanged, opening, config, locals
<1>28. ASSUME NEW s \in Sessions, Terminated(s) PROVE DestroyInv'
  BY <1>28 DEF Terminated, EventUnchanged, opening, config, locals
<1>29. ASSUME NEW s \in Sessions, OnPong(s) PROVE DestroyInv'
  BY <1>29 DEF OnPong, EventUnchanged, opening, config, locals
<1>30. ASSUME NEW s \in Sessions, OnPongTimeout(s) PROVE DestroyInv'
  BY <1>30 DEF OnPongTimeout, EventUnchanged, opening, config, locals
<1>31. CASE OnOpenLock
  BY <1>31 DEF OnOpenLock, HandlerUnchanged, locals, opening, config
<1>32. CASE OnOpenSet
  BY <1>32 DEF OnOpenSet, HandlerUnchanged, locals, opening, config
<1>33. CASE OnOpenNotify
  BY <1>33 DEF OnOpenNotify, HandlerUnchanged, locals, config
<1>34. CASE OnEnd
  BY <1>34 DEF OnEnd, locals, opening, config
<1>35. CASE OnEndCallback
  BY <1>35 DEF OnEndCallback, HandlerUnchanged, locals, opening, config
<1>36. CASE LoopExits
  BY <1>36 DEF LoopExits, HandlerUnchanged, locals, opening, config
<1>37. CASE StartDestroy
  BY <1>37 DEF StartDestroy, DestroyUnchanged, env, opening, config
<1>38. CASE CleanUp
  BY <1>38 DEF CleanUp, DestroyUnchanged, env, opening, config
<1>39. CASE Drain
  BY <1>39 DEF Drain, DestroyUnchanged, env, opening, config
<1>40. CASE Check
  BY <1>40 DEF Check, DestroyUnchanged, env, opening, config
<1>41. CASE Linger
  BY <1>41 DEF Linger, DestroyUnchanged, env, opening, config
<1>42. CASE StopPerpetual
  BY <1>42 DEF StopPerpetual, DestroyUnchanged, env, opening, config
<1>43. CASE Join
  BY <1>43 DEF Join, DestroyUnchanged, env, opening, config
<1>44. CASE UNCHANGED vars
  BY <1>44 DEF vars, env, locals, opening, config
<1> QED BY <1>1, <1>2, <1>3, <1>4, <1>5, <1>6, <1>7, <1>8, <1>9, <1>10,
            <1>11, <1>12, <1>13, <1>14, <1>15, <1>16, <1>17, <1>18, <1>19,
            <1>20, <1>21, <1>22, <1>23, <1>24, <1>25, <1>26, <1>27, <1>28,
            <1>29, <1>30, <1>31, <1>32, <1>33, <1>34, <1>35, <1>36, <1>37,
            <1>38, <1>39, <1>40, <1>41, <1>42, <1>43, <1>44
       DEF Next, Step, ConnectStep, Head, After, DestroyStep, CloseStep,
           SessionEvent, HandlerStep, Finished

\* Every step of the implementation is a step of ConnectionFSM or a stutter.
\* The actions listed with a proof of their own are those that move the FSM.
LEMMA FSMStep ==
    TypeOK /\ SessionInv /\ [Next]_vars => [FSM!FSMNext]_(FSM!fsmVars)
<1> SUFFICES ASSUME TypeOK, SessionInv, [Next]_vars
             PROVE  [FSM!FSMNext]_(FSM!fsmVars)
  OBVIOUS
<1> USE ThreadsAssumption, SessionsAssumption
    DEF SessionInv, OneSession, StateMatchesSession, Live, TypeOK,
        SessionStatus, FSM!fsmVars
<1>1. CASE StartConnect
  BY <1>1 DEF StartConnect, env, locals, opening, config
<1>2. CASE HeadInitialized
  BY <1>2 DEF HeadInitialized, HeadUnchanged, env, opening, config
<1>3. CASE HeadPending
  BY <1>3 DEF HeadPending, HeadUnchanged, LoopTest, env, opening, config
<1>4. CASE HeadOpen
  BY <1>4 DEF HeadOpen, HeadUnchanged, env, opening, config
<1>5. CASE HeadClosedFirst
  BY <1>5 DEF HeadClosedFirst, HeadUnchanged, env, opening, config
<1>6. CASE HeadClosedRetry
  BY <1>6 DEF HeadClosedRetry, HeadUnchanged, env, opening, config
<1>7. CASE SetConnecting
  <2>1. SessionStatus = "none" /\ UNCHANGED SessionStatus
    BY <1>7 DEF SetConnecting, env
  <2>2. FSM!StartAttempt
    BY <1>7, <2>1 DEF SetConnecting, FSM!StartAttempt
  <2> QED BY <2>2 DEF FSM!FSMNext
<1>8. CASE GetConnection
  <2>1. SessionStatus = "none" /\ SessionStatus' = "connecting"
    BY <1>8 DEF GetConnection
  <2>2. FSM!OpenSession
    BY <1>8, <2>1 DEF GetConnection, FSM!OpenSession
  <2> QED BY <2>2 DEF FSM!FSMNext
<1>9. CASE GetConnectionFails
  BY <1>9 DEF GetConnectionFails, env, opening, config
<1>10. CASE WaitPredicate
  BY <1>10 DEF WaitPredicate, env, locals, config
<1>11. CASE Block
  BY <1>11 DEF Block, env, locals, config
<1>12. CASE WakeUp
  BY <1>12 DEF WakeUp, env, locals, opening, config
<1>13. CASE WaitTimeout
  BY <1>13 DEF WaitTimeout, env, locals, config
<1>14. CASE AfterInitialized
  BY <1>14 DEF AfterInitialized, AfterUnchanged, LoopTest, env, opening
<1>15. CASE AfterFirst
  BY <1>15 DEF AfterFirst, AfterUnchanged, LoopTest, env, opening
<1>16. CASE AfterRetry
  BY <1>16 DEF AfterRetry, AfterUnchanged, LoopTest, env, opening
<1>17. CASE Fatal
  BY <1>17 DEF Fatal, AfterUnchanged, env, opening
<1>18. ASSUME NEW t \in Threads, StartClose(t)
       PROVE  [FSM!FSMNext]_(FSM!fsmVars)
  BY <1>18 DEF StartClose, CloseUnchanged, opening, config
<1>19. ASSUME NEW t \in Threads, CloseLock(t) PROVE [FSM!FSMNext]_(FSM!fsmVars)
  BY <1>19
     DEF CloseLock, CloseReturns, CloseUnchanged, Returned, opening, config
<1>20. ASSUME NEW t \in Threads, CloseSend(t) PROVE [FSM!FSMNext]_(FSM!fsmVars)
  <2>1. CASE connection_handle # NoSession /\ sess[connection_handle] = "open"
    <3>1. SessionStatus = "open" /\ SessionStatus' = "closing"
      BY <1>20, <2>1 DEF CloseSend, CloseUnchanged
    <3>2. FSM!Progress
      BY <1>20, <3>1 DEF CloseSend, FSM!Progress
    <3> QED BY <3>2 DEF FSM!FSMNext
  <2>2. CASE ~(/\ connection_handle # NoSession
               /\ sess[connection_handle] = "open")
    BY <1>20, <2>2 DEF CloseSend, CloseThrows, CloseUnchanged
  <2> QED BY <2>1, <2>2
<1>21. ASSUME NEW t \in Threads, CloseSet(t) PROVE [FSM!FSMNext]_(FSM!fsmVars)
  <2>1. SessionStatus \in {"closing", "over"} /\ UNCHANGED SessionStatus
    BY <1>21 DEF CloseSet, CloseUnchanged
  <2>2. CASE connection_state \in {"connecting", "open"}
    <3>1. FSM!ReportClosing
      BY <1>21, <2>1, <2>2 DEF CloseSet, FSM!ReportClosing
    <3> QED BY <3>1 DEF FSM!FSMNext
  <2>3. CASE connection_state = "closing"
    BY <1>21, <2>1, <2>3 DEF CloseSet
  <2>4. connection_state \notin {"initialized", "closed"}
    BY <1>21 DEF CloseSet
  <2> QED BY <2>2, <2>3, <2>4 DEF States
<1>22. ASSUME NEW t \in Threads, Ping(t) PROVE [FSM!FSMNext]_(FSM!fsmVars)
  BY <1>22 DEF Ping, locals, opening, config
<1>23. ASSUME NEW s \in Sessions, Establish(s)
       PROVE  [FSM!FSMNext]_(FSM!fsmVars)
  <2>1. SessionStatus = "connecting" /\ SessionStatus' = "open"
    BY <1>23 DEF Establish, EventUnchanged
  <2>2. FSM!Progress
    BY <1>23, <2>1 DEF Establish, EventUnchanged, FSM!Progress
  <2> QED BY <2>2 DEF FSM!FSMNext
<1>24. ASSUME NEW s \in Sessions, HandshakeFails(s)
       PROVE  [FSM!FSMNext]_(FSM!fsmVars)
  <2>1. SessionStatus = "connecting" /\ SessionStatus' = "over"
    BY <1>24 DEF HandshakeFails, EventUnchanged
  <2>2. FSM!Progress
    BY <1>24, <2>1 DEF HandshakeFails, EventUnchanged, FSM!Progress
  <2> QED BY <2>2 DEF FSM!FSMNext
<1>25. ASSUME NEW s \in Sessions, PeerCloses(s)
       PROVE  [FSM!FSMNext]_(FSM!fsmVars)
  <2>1. SessionStatus = "open" /\ SessionStatus' = "closing"
    BY <1>25 DEF PeerCloses, EventUnchanged
  <2>2. FSM!Progress
    BY <1>25, <2>1 DEF PeerCloses, EventUnchanged, FSM!Progress
  <2> QED BY <2>2 DEF FSM!FSMNext
<1>26. ASSUME NEW s \in Sessions, Drop(s) PROVE [FSM!FSMNext]_(FSM!fsmVars)
  <2>1. SessionStatus = "open" /\ SessionStatus' = "over"
    BY <1>26 DEF Drop, EventUnchanged
  <2>2. FSM!Progress
    BY <1>26, <2>1 DEF Drop, EventUnchanged, FSM!Progress
  <2> QED BY <2>2 DEF FSM!FSMNext
<1>27. ASSUME NEW s \in Sessions, CloseHandshakeEnds(s)
       PROVE  [FSM!FSMNext]_(FSM!fsmVars)
  <2>1. SessionStatus = "closing" /\ SessionStatus' = "over"
    BY <1>27 DEF CloseHandshakeEnds, EventUnchanged
  <2>2. FSM!Progress
    BY <1>27, <2>1 DEF CloseHandshakeEnds, EventUnchanged, FSM!Progress
  <2> QED BY <2>2 DEF FSM!FSMNext
<1>28. ASSUME NEW s \in Sessions, Terminated(s)
       PROVE  [FSM!FSMNext]_(FSM!fsmVars)
  BY <1>28 DEF Terminated, EventUnchanged, opening, config, locals
<1>29. ASSUME NEW s \in Sessions, OnPong(s) PROVE [FSM!FSMNext]_(FSM!fsmVars)
  BY <1>29 DEF OnPong, EventUnchanged, opening, config, locals
<1>30. ASSUME NEW s \in Sessions, OnPongTimeout(s)
       PROVE  [FSM!FSMNext]_(FSM!fsmVars)
  BY <1>30 DEF OnPongTimeout, EventUnchanged, opening, config, locals
<1>31. CASE OnOpenLock
  BY <1>31 DEF OnOpenLock, HandlerUnchanged, locals, opening, config
<1>32. CASE OnOpenSet
  <2>1. SessionStatus \in {"open", "closing"} /\ UNCHANGED SessionStatus
    BY <1>32 DEF OnOpenSet, HandlerUnchanged
  <2>2. CASE connection_state \in {"connecting", "closing"}
    <3>1. FSM!ReportOpen
      BY <1>32, <2>1, <2>2 DEF OnOpenSet, FSM!ReportOpen
    <3> QED BY <3>1 DEF FSM!FSMNext
  <2>3. CASE connection_state = "open"
    BY <1>32, <2>1, <2>3 DEF OnOpenSet
  <2>4. connection_state \notin {"initialized", "closed"}
    BY <1>32 DEF OnOpenSet
  <2> QED BY <2>2, <2>3, <2>4 DEF States
<1>33. CASE OnOpenNotify
  BY <1>33 DEF OnOpenNotify, HandlerUnchanged, locals, config
<1>34. CASE OnEnd
  <2>1. SessionStatus = "over" /\ SessionStatus' = "none"
    BY <1>34 DEF OnEnd
  <2>2. connection_state \notin {"initialized", "closed"}
    BY <1>34 DEF OnEnd
  <2>3. FSM!ReportClosed
    BY <1>34, <2>1, <2>2 DEF OnEnd, States, FSM!ReportClosed
  <2> QED BY <2>3 DEF FSM!FSMNext
<1>35. CASE OnEndCallback
  BY <1>35 DEF OnEndCallback, HandlerUnchanged, locals, opening, config
<1>36. CASE LoopExits
  BY <1>36 DEF LoopExits, HandlerUnchanged, locals, opening, config
<1>37. CASE StartDestroy
  BY <1>37 DEF StartDestroy, DestroyUnchanged, env, opening, config
<1>38. CASE CleanUp
  BY <1>38 DEF CleanUp, DestroyUnchanged, env, opening, config
<1>39. CASE Drain
  BY <1>39 DEF Drain, DestroyUnchanged, env, opening, config
<1>40. CASE Check
  BY <1>40 DEF Check, DestroyUnchanged, env, opening, config
<1>41. CASE Linger
  BY <1>41 DEF Linger, DestroyUnchanged, env, opening, config
<1>42. CASE StopPerpetual
  BY <1>42 DEF StopPerpetual, DestroyUnchanged, env, opening, config
<1>43. CASE Join
  BY <1>43 DEF Join, DestroyUnchanged, env, opening, config
<1>44. CASE UNCHANGED vars
  BY <1>44 DEF vars, env, locals, opening, config
<1> QED BY <1>1, <1>2, <1>3, <1>4, <1>5, <1>6, <1>7, <1>8, <1>9, <1>10,
            <1>11, <1>12, <1>13, <1>14, <1>15, <1>16, <1>17, <1>18, <1>19,
            <1>20, <1>21, <1>22, <1>23, <1>24, <1>25, <1>26, <1>27, <1>28,
            <1>29, <1>30, <1>31, <1>32, <1>33, <1>34, <1>35, <1>36, <1>37,
            <1>38, <1>39, <1>40, <1>41, <1>42, <1>43, <1>44
       DEF Next, Step, ConnectStep, Head, After, DestroyStep, CloseStep,
           SessionEvent, HandlerStep, Finished

\* The initial state satisfies every part of the inductive invariant.
LEMMA InvInit == Init => IndInv
<1> SUFFICES ASSUME Init PROVE IndInv
  OBVIOUS
<1>1. /\ \A t \in Threads : pc[t] = "idle"
      /\ state_mutex = NoThread /\ onOpen_mtx = NoThread
      /\ connection_state = "initialized" /\ backoff_ms = 2000
      /\ Live = {}
  BY DEF Init, Live, Backoff0
<1>2. call.prev = "initialized" /\ call.tried = NBrokers
  BY DEF Init, NoCall
<1>3. MutexInv
  BY <1>1, ThreadsAssumption DEF MutexInv
<1>4. SessionInv
  BY <1>1 DEF SessionInv, OneSession, StateMatchesSession
<1>5. BackoffInv
  BY <1>1 DEF BackoffInv, BackoffBounded
<1>6. RotateInv
  BY <1>1, <1>2 DEF RotateInv, AttemptsRotate
<1>7. DestroyInv
  BY <1>1, ThreadsAssumption DEF DestroyInv, Destroying
<1> QED BY <1>3, <1>4, <1>5, <1>6, <1>7 DEF IndInv

\* The initial state is the initial state of ConnectionFSM.
LEMMA FSMStart == Init => FSM!FSMInit
  BY DEF Init, FSM!FSMInit, SessionStatus

-----------------------------------------------------------------------------
\* Type correctness, for every configuration.
THEOREM TypeCorrect == Spec => []TypeOK
<1> QED BY TypeInit, TypeNext, PTL DEF Spec

\* The inductive invariant: who holds state_mutex_, what the report says of
\* the session, how far the backoff can be, which broker comes next and who
\* is left when the destructor runs.
THEOREM Invariance == Spec => []IndInv
<1>1. TypeOK /\ IndInv /\ [Next]_vars => IndInv'
  BY MutexNext, SessionNext, BackoffNext, RotateNext, DestroyNext DEF IndInv
<1> QED BY <1>1, InvInit, TypeCorrect, PTL DEF Spec

\* There is one WebSocket session at a time, the one connection_handle_ is
\* about, for every interleaving of connect(), close() and the handlers.
THEOREM SingleSession == Spec => []OneSession
<1>1. IndInv => OneSession
  BY DEF IndInv, SessionInv
<1> QED BY <1>1, Invariance, PTL

\* getConnectionState() never reports closed while a session is left, and
\* never reports open or closing without a session that had been opened.
THEOREM HonestReport == Spec => []StateMatchesSession
<1>1. IndInv => StateMatchesSession
  BY DEF IndInv, SessionInv
<1> QED BY <1>1, Invariance, PTL

\* The backoff of connect() never leaves 2, 4, 8, 16 and 32 seconds.
THEOREM BackoffSafe == Spec => []BackoffBounded
<1>1. IndInv => BackoffBounded
  BY DEF IndInv, BackoffInv
<1> QED BY <1>1, Invariance, PTL

\* With more than one broker, connect() never makes two attempts in a row at
\* the same one within a call.
THEOREM Failover == Spec => []AttemptsRotate
<1>1. IndInv => AttemptsRotate
  BY DEF IndInv, RotateInv
<1> QED BY <1>1, Invariance, PTL

\* When the destructor returns, no thread, session or timer can use the
\* object.
THEOREM SafeDestruction == Spec => []DestroyedAlone
<1>1. TypeOK /\ IndInv => DestroyedAlone
  <2> SUFFICES ASSUME TypeOK, MutexInv, DestroyInv, At(Connector, "destroyed")
               PROVE  /\ Live = {} /\ \A s \in Sessions : ~timer[s]
                      /\ At(Loop, "exited")
                      /\ \A t \in Callers : At(t, "idle")
                      /\ state_mutex = NoThread /\ onOpen_mtx = NoThread
    BY DEF IndInv, DestroyedAlone
  <2>1. At(Loop, "exited") /\ \A t \in Callers : At(t, "idle")
    BY DEF DestroyInv, Destroying
  <2>2. Live = {} /\ \A s \in Sessions : ~timer[s]
    BY <2>1 DEF DestroyInv
  <2>3. onOpen_mtx = NoThread
    BY DEF DestroyInv, TypeOK
  <2>4. \A t \in Threads : state_mutex # t
    BY <2>1 DEF MutexInv
  <2>5. state_mutex = NoThread
    BY <2>4 DEF TypeOK
  <2> QED BY <2>1, <2>2, <2>3, <2>5
<1> QED BY <1>1, TypeCorrect, Invariance, PTL

\* The threads, mutexes and handlers of Connection implement ConnectionFSM.
THEOREM Implements == Spec => ImplementsFSM
<1>1. IndInv => SessionInv
  BY DEF IndInv
<1> QED
  BY <1>1, FSMStart, FSMStep, TypeCorrect, Invariance, PTL
     DEF Spec, ImplementsFSM, FSM!FSMSpec
=============================================================================
