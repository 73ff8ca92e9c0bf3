------------------------- MODULE AssociationProofs -------------------------
(***************************************************************************)
(* Proofs about Association, for every set of message ids.                 *)
(*                                                                         *)
(* TypeOK is inductive together with AnswerInv, which knows that a broker  *)
(* that was asked was asked with an id.  IndInv has four parts, proved in  *)
(* the order they depend on each other: SessionInv by itself, AnswerInv    *)
(* from it, SuccessInv and FailureInv from both.  That every step is one   *)
(* of ConnectionFSM follows from SessionInv, and what connect() returns    *)
(* from SuccessInv.                                                        *)
(***************************************************************************)
EXTENDS Association, TLAPS

USE DEF association, connection, connector, loop, broker

\* Every message that the broker can send, or the loop can hold, has its type.
LEMMA MessageTypes ==
    /\ Garbage \in Messages
    /\ \A k \in Answers \cup Causes, r \in Requests :
          [kind |-> k, id |-> r] \in Messages
    /\ [kind : Causes, id : {NoRequest}] \subseteq Messages
    /\ [kind : Answers, id : Requests \ {asked}] \subseteq Messages
  BY DEF Messages, Garbage, Answers, Causes

\* The initial state is well typed and satisfies the invariant.
LEMMA InvInit == Init => TypeOK /\ IndInv
  BY MessageTypes
     DEF Init, Conn!FSMInit, TypeOK, Pcs, Outcomes, Handlers, Verdicts, IndInv,
         SessionInv, AnswerInv, SuccessInv, FailureInv, ConnectPcs

\* The handler that a message received begins.
LEMMA Received ==
    ASSUME TypeOK, NEW m \in inbox, Receive(m)
    PROVE  /\ m \in Messages /\ handler = "idle" /\ session = "open"
           /\ handler' \in {"response", "callback", "garbage", "idle"}
           /\ handler' = "response" => m.kind \in Answers
           /\ inbox' \subseteq inbox /\ msg' = m
           /\ UNCHANGED <<association, connection, connector, aborted, asked,
                          verdict>>
<1>1. m \in Messages
  BY DEF TypeOK
<1>2. m.kind \in Answers \/ m.kind \in Causes \/ m.kind = "garbage"
  BY <1>1 DEF Messages, Garbage
<1>3. CASE m.kind \in Answers
  BY <1>1, <1>3 DEF Receive, Answers, Causes
<1>4. CASE m.kind \in Causes
  BY <1>1, <1>4 DEF Receive, Answers, Causes
<1>5. CASE m.kind = "garbage"
  BY <1>1, <1>5 DEF Receive, Answers, Causes
<1> QED BY <1>2, <1>3, <1>4, <1>5

\* Every step preserves the types.
LEMMA TypeNext == TypeOK /\ AnswerInv /\ [Next]_vars => TypeOK'
<1> SUFFICES ASSUME TypeOK, AnswerInv, [Next]_vars PROVE TypeOK'
  OBVIOUS
<1> USE DEF TypeOK, Pcs, ConnectPcs, Outcomes, Handlers, Verdicts
<1>1. CASE StartConnect
  BY <1>1 DEF StartConnect
<1>2. CASE CloseFirst
  BY <1>2 DEF CloseFirst, Goto
<1>3. CASE CloseFirstSet
  BY <1>3 DEF CloseFirstSet, Goto
<1>4. CASE Drain
  BY <1>4 DEF Drain, Goto
<1>5. CASE LockAssociation
  <2>1. /\ in_progress' \in BOOLEAN /\ success' \in BOOLEAN
        /\ failure' \in BOOLEAN
    BY <1>5 DEF LockAssociation, Goto
  <2> QED BY <1>5, <2>1 DEF LockAssociation, Goto
<1>6. CASE FindOpen
  BY <1>6 DEF FindOpen, Goto
<1>7. CASE StartAttempt
  BY <1>7 DEF StartAttempt, Goto, Conn!StartAttempt
<1>8. CASE Poll
  BY <1>8 DEF Poll, vars, connector
<1>9. CASE OpenSession
  BY <1>9 DEF OpenSession, Goto, Conn!OpenSession
<1>10. CASE AttemptFails
  BY <1>10 DEF AttemptFails, Returns
<1>11. CASE AttemptOver
  BY <1>11 DEF AttemptOver, Goto
<1>12. CASE GiveUp
  BY <1>12 DEF GiveUp, Returns
<1>13. CASE MessagingFailure
  <2>1. /\ in_progress' \in BOOLEAN /\ success' \in BOOLEAN
        /\ failure' \in BOOLEAN
    BY <1>13 DEF MessagingFailure, Reset, Returns
  <2> QED BY <1>13, <2>1 DEF MessagingFailure, Reset, Returns
<1>14. CASE TimeOut
  <2>1. /\ in_progress' \in BOOLEAN /\ success' \in BOOLEAN
        /\ failure' \in BOOLEAN
    BY <1>14 DEF TimeOut, Reset, Returns
  <2> QED BY <1>14, <2>1 DEF TimeOut, Reset, Returns
<1>15. CASE Concluded
  <2>1. /\ in_progress' \in BOOLEAN /\ success' \in BOOLEAN
        /\ failure' \in BOOLEAN
    BY <1>15 DEF Concluded, Returns, Reset
  <2> QED BY <1>15, <2>1 DEF Concluded, Returns, Reset
<1>16. CASE OnEnd
  BY <1>16 DEF OnEnd
<1>17. CASE OnOpen
  BY <1>17 DEF OnOpen
<1>18. CASE AssociateSession
  <2>1. /\ in_progress' \in BOOLEAN /\ success' \in BOOLEAN
        /\ failure' \in BOOLEAN
    BY <1>18 DEF AssociateSession
  <2> QED BY <1>18, <2>1 DEF AssociateSession
<1>19. CASE HandlerCloses
  <2>1. aborted' \in BOOLEAN
    BY <1>19 DEF HandlerCloses
  <2> QED BY <1>19, <2>1 DEF HandlerCloses
<1>20. CASE HandlerClosesSet
  BY <1>20 DEF HandlerClosesSet
<1>21. CASE ReportGarbage
  BY <1>21 DEF ReportGarbage
<1>22. CASE AssociateResponse
  <2>1. /\ in_progress' \in BOOLEAN /\ success' \in BOOLEAN
        /\ failure' \in BOOLEAN
    BY <1>22 DEF AssociateResponse
  <2> QED BY <1>22, <2>1 DEF AssociateResponse
<1>23. CASE MessageCause
  BY <1>23 DEF MessageCause
<1>24. CASE Resolve
  BY <1>24 DEF Resolve
<1>25. CASE HandshakeFails
  BY <1>25 DEF HandshakeFails
<1>26. CASE Lose
  BY <1>26 DEF Lose
<1>27. CASE PongTimeout
  BY <1>27 DEF PongTimeout
<1>28. ASSUME NEW m \in inbox, Receive(m) PROVE TypeOK'
  BY <1>28, Received
<1>29. CASE Answer
  <2>1. PICK k \in Answers \cup Causes :
          inbox' = inbox \cup {[kind |-> k, id |-> asked]}
    BY <1>29 DEF Answer
  <2>2. inbox' \subseteq Messages
    BY <1>29, <2>1, MessageTypes DEF Answer, AnswerInv
  <2>3. verdict' \in Verdicts
    BY <1>29 DEF Answer
  <2> QED BY <1>29, <2>2, <2>3 DEF Answer
<1>30. CASE Noise
  BY <1>30, MessageTypes DEF Noise
<1>31. CASE UNCHANGED vars
  BY <1>31 DEF vars, connector
<1>32. CASE UserCallback
  BY <1>32 DEF UserCallback
<1> QED BY <1>1, <1>2, <1>3, <1>4, <1>5, <1>6, <1>7, <1>8, <1>9, <1>10, <1>11,
   <1>12, <1>13, <1>14, <1>15, <1>16, <1>17, <1>18, <1>19, <1>20, <1>21,
   <1>22, <1>23, <1>24, <1>25, <1>26, <1>27, <1>28, <1>29, <1>30, <1>31, <1>32
   DEF Next, Step, ConnectStep, HandlerStep

\* What is reported of the session stays true of it.
LEMMA SessionNext == TypeOK /\ SessionInv /\ [Next]_vars => SessionInv'
<1> SUFFICES ASSUME TypeOK, SessionInv, [Next]_vars PROVE SessionInv'
  OBVIOUS
<1> USE DEF SessionInv, StateMutexFree
<1>1. CASE StartConnect
  BY <1>1 DEF StartConnect
<1>2. CASE CloseFirst
  BY <1>2 DEF CloseFirst, Goto
<1>3. CASE CloseFirstSet
  BY <1>3 DEF CloseFirstSet, Goto
<1>4. CASE Drain
  BY <1>4 DEF Drain, Goto
<1>5. CASE LockAssociation
  BY <1>5 DEF LockAssociation, Goto
<1>6. CASE FindOpen
  BY <1>6 DEF FindOpen, Goto
<1>7. CASE StartAttempt
  BY <1>7 DEF StartAttempt, Goto, Conn!StartAttempt
<1>8. CASE Poll
  BY <1>8 DEF Poll, vars, connector
<1>9. CASE OpenSession
  BY <1>9 DEF OpenSession, Goto, Conn!OpenSession
<1>10. CASE AttemptFails
  BY <1>10 DEF AttemptFails, Returns
<1>11. CASE AttemptOver
  BY <1>11 DEF AttemptOver, Goto
<1>12. CASE GiveUp
  BY <1>12 DEF GiveUp, Returns
<1>13. CASE MessagingFailure
  BY <1>13 DEF MessagingFailure, Reset, Returns
<1>14. CASE TimeOut
  BY <1>14 DEF TimeOut, Reset, Returns
<1>15. CASE Concluded
  BY <1>15 DEF Concluded, Returns, Reset
<1>16. CASE OnEnd
  BY <1>16 DEF OnEnd
<1>17. CASE OnOpen
  BY <1>17 DEF OnOpen
<1>18. CASE AssociateSession
  BY <1>18 DEF AssociateSession
<1>19. CASE HandlerCloses
  BY <1>19 DEF HandlerCloses
<1>20. CASE HandlerClosesSet
  BY <1>20 DEF HandlerClosesSet
<1>21. CASE ReportGarbage
  BY <1>21 DEF ReportGarbage
<1>22. CASE AssociateResponse
  BY <1>22 DEF AssociateResponse
<1>23. CASE MessageCause
  BY <1>23 DEF MessageCause
<1>24. CASE Resolve
  BY <1>24 DEF Resolve
<1>25. CASE HandshakeFails
  BY <1>25 DEF HandshakeFails
<1>26. CASE Lose
  BY <1>26 DEF Lose
<1>27. CASE PongTimeout
  BY <1>27 DEF PongTimeout
<1>28. ASSUME NEW m \in inbox, Receive(m) PROVE SessionInv'
  BY <1>28, Received
<1>29. CASE Answer
  BY <1>29 DEF Answer
<1>30. CASE Noise
  BY <1>30 DEF Noise
<1>31. CASE UNCHANGED vars
  BY <1>31 DEF vars, connector
<1>32. CASE UserCallback
  BY <1>32 DEF UserCallback
<1> QED BY <1>1, <1>2, <1>3, <1>4, <1>5, <1>6, <1>7, <1>8, <1>9, <1>10, <1>11,
   <1>12, <1>13, <1>14, <1>15, <1>16, <1>17, <1>18, <1>19, <1>20, <1>21,
   <1>22, <1>23, <1>24, <1>25, <1>26, <1>27, <1>28, <1>29, <1>30, <1>31, <1>32
   DEF Next, Step, ConnectStep, HandlerStep

\* Answers stay those of the request sent over the session.
LEMMA AnswerNext ==
    TypeOK /\ SessionInv /\ AnswerInv /\ [Next]_vars => AnswerInv'
<1> SUFFICES ASSUME TypeOK, SessionInv, AnswerInv, [Next]_vars
             PROVE  AnswerInv'
  OBVIOUS
<1> USE DEF AnswerInv, Decided, StateMutexFree
<1>1. CASE StartConnect
  BY <1>1 DEF StartConnect
<1>2. CASE CloseFirst
  BY <1>2 DEF CloseFirst, Goto
<1>3. CASE CloseFirstSet
  BY <1>3 DEF CloseFirstSet, Goto
<1>4. CASE Drain
  BY <1>4 DEF Drain, Goto
<1>5. CASE LockAssociation
  BY <1>5 DEF LockAssociation, Goto
<1>6. CASE FindOpen
  BY <1>6 DEF FindOpen, Goto
<1>7. CASE StartAttempt
  BY <1>7 DEF StartAttempt, Goto, Conn!StartAttempt
<1>8. CASE Poll
  BY <1>8 DEF Poll, vars, connector
<1>9. CASE OpenSession
  BY <1>9 DEF OpenSession, Goto, Conn!OpenSession
<1>10. CASE AttemptFails
  BY <1>10 DEF AttemptFails, Returns
<1>11. CASE AttemptOver
  BY <1>11 DEF AttemptOver, Goto
<1>12. CASE GiveUp
  BY <1>12 DEF GiveUp, Returns
<1>13. CASE MessagingFailure
  BY <1>13 DEF MessagingFailure, Reset, Returns
<1>14. CASE TimeOut
  BY <1>14 DEF TimeOut, Reset, Returns
<1>15. CASE Concluded
  BY <1>15 DEF Concluded, Returns, Reset
<1>16. CASE OnEnd
  BY <1>16 DEF OnEnd
<1>17. CASE OnOpen
  BY <1>17 DEF OnOpen
<1>18. CASE AssociateSession
  BY <1>18 DEF AssociateSession
<1>19. CASE HandlerCloses
  BY <1>19 DEF HandlerCloses
<1>20. CASE HandlerClosesSet
  BY <1>20 DEF HandlerClosesSet
<1>21. CASE ReportGarbage
  BY <1>21 DEF ReportGarbage
<1>22. CASE AssociateResponse
  BY <1>22 DEF AssociateResponse
<1>23. CASE MessageCause
  BY <1>23 DEF MessageCause
<1>24. CASE Resolve
  BY <1>24 DEF Resolve
<1>25. CASE HandshakeFails
  BY <1>25 DEF HandshakeFails
<1>26. CASE Lose
  BY <1>26 DEF Lose
<1>27. CASE PongTimeout
  BY <1>27 DEF PongTimeout
<1>28. ASSUME NEW m \in inbox, Receive(m) PROVE AnswerInv'
  BY <1>28, Received
<1>29. CASE Answer
  <2>1. PICK k \in Answers \cup Causes :
          /\ inbox' = inbox \cup {[kind |-> k, id |-> asked]}
          /\ verdict' = CASE k = "accept" -> "associated"
                          [] k = "refuse" -> "refused"
                          [] OTHER        -> "failed"
    BY <1>29 DEF Answer
  <2>2. /\ verdict = "asked" /\ asked \in Requests /\ UNCHANGED <<asked, handler>>
        /\ verdict' \in {"associated", "refused", "failed"}
    BY <1>29, <2>1 DEF Answer
  <2>3. ASSUME NEW m, m.kind \in Answers, Decided(m) PROVE Decided(m)'
    BY <2>2, <2>3
  <2>4. k \in Answers =>
          /\ verdict' # "none"
          /\ verdict' = IF k = "accept" THEN "associated" ELSE "refused"
    BY <2>1, <2>2 DEF Answers
  <2>5. ASSUME NEW m \in inbox', m.kind \in Answers PROVE Decided(m)'
    <3>1. CASE m \in inbox
      BY <2>3, <2>5, <3>1
    <3>2. CASE m = [kind |-> k, id |-> asked]
      <4>1. m.kind = k /\ m.id = asked
        BY <3>2
      <4> QED BY <2>2, <2>4, <2>5, <4>1
    <3> QED BY <2>1, <3>1, <3>2
  <2>6. handler' = "response" => msg'.kind \in Answers /\ Decided(msg)'
    BY <1>29, <2>2, <2>3 DEF Answer
  <2> QED BY <1>29, <2>2, <2>5, <2>6 DEF Answer
<1>30. CASE Noise
  <2>1. PICK m \in {Garbage} \cup [kind : Causes, id : {NoRequest}]
                  \cup (IF verdict = "none" THEN {}
                        ELSE [kind : Answers, id : Requests \ {asked}]) :
          inbox' = inbox \cup {m}
    BY <1>30 DEF Noise
  <2>2. /\ session = "open" /\ UNCHANGED <<session, handler, msg>>
        /\ UNCHANGED <<asked, verdict, request_id>>
    BY <1>30 DEF Noise
  <2>3. m.kind \in Answers => Decided(m)
    BY <2>1 DEF Garbage, Answers, Causes
  <2>4. \A n \in inbox' : n.kind \in Answers => Decided(n)'
    BY <2>1, <2>2, <2>3
  <2> QED BY <2>2, <2>4
<1>31. CASE UNCHANGED vars
  BY <1>31 DEF vars, connector
<1>32. CASE UserCallback
  BY <1>32 DEF UserCallback
<1> QED BY <1>1, <1>2, <1>3, <1>4, <1>5, <1>6, <1>7, <1>8, <1>9, <1>10, <1>11,
   <1>12, <1>13, <1>14, <1>15, <1>16, <1>17, <1>18, <1>19, <1>20, <1>21,
   <1>22, <1>23, <1>24, <1>25, <1>26, <1>27, <1>28, <1>29, <1>30, <1>31, <1>32
   DEF Next, Step, ConnectStep, HandlerStep

\* A success stays that of this session.
LEMMA SuccessNext ==
    TypeOK /\ SessionInv /\ AnswerInv /\ SuccessInv /\ [Next]_vars => SuccessInv'
<1> SUFFICES ASSUME TypeOK, SessionInv, AnswerInv, SuccessInv, [Next]_vars
             PROVE  SuccessInv'
  OBVIOUS
<1> USE DEF SuccessInv, ConnectPcs, MtxFree
<1>1. CASE StartConnect
  BY <1>1 DEF StartConnect
<1>2. CASE CloseFirst
  BY <1>2 DEF CloseFirst, Goto
<1>3. CASE CloseFirstSet
  BY <1>3 DEF CloseFirstSet, Goto
<1>4. CASE Drain
  BY <1>4 DEF Drain, Goto
<1>5. CASE LockAssociation
  BY <1>5 DEF LockAssociation, Goto
<1>6. CASE FindOpen
  <2>1. session # "connecting" /\ handler # "onOpen"
    BY <1>6 DEF FindOpen, SessionInv
  <2> QED BY <1>6, <2>1 DEF FindOpen, Goto
<1>7. CASE StartAttempt
  BY <1>7 DEF StartAttempt, Goto, Conn!StartAttempt
<1>8. CASE Poll
  BY <1>8 DEF Poll, vars, connector
<1>9. CASE OpenSession
  BY <1>9 DEF OpenSession, Goto, Conn!OpenSession
<1>10. CASE AttemptFails
  BY <1>10 DEF AttemptFails, Returns
<1>11. CASE AttemptOver
  BY <1>11 DEF AttemptOver, Goto
<1>12. CASE GiveUp
  BY <1>12 DEF GiveUp, Returns
<1>13. CASE MessagingFailure
  BY <1>13 DEF MessagingFailure, Reset, Returns
<1>14. CASE TimeOut
  BY <1>14 DEF TimeOut, Reset, Returns
<1>15. CASE Concluded
  BY <1>15 DEF Concluded, Returns, Reset
<1>16. CASE OnEnd
  BY <1>16 DEF OnEnd
<1>17. CASE OnOpen
  BY <1>17 DEF OnOpen
<1>18. CASE AssociateSession
  BY <1>18 DEF AssociateSession
<1>19. CASE HandlerCloses
  BY <1>19 DEF HandlerCloses
<1>20. CASE HandlerClosesSet
  BY <1>20 DEF HandlerClosesSet
<1>21. CASE ReportGarbage
  BY <1>21 DEF ReportGarbage
<1>22. CASE AssociateResponse
  <2>1. session # "connecting" /\ handler' = "idle"
    BY <1>22 DEF AssociateResponse, SessionInv
  <2>2. msg.kind \in Answers /\ Decided(msg) /\ request_id \in {NoRequest, asked}
    BY <1>22 DEF AssociateResponse, AnswerInv, Decided
  <2>3. CASE in_progress /\ msg.id = request_id
    <3>1. msg.id = asked
      BY <2>2, <2>3, RequestsAssumption DEF Decided
    <3>2. verdict = IF msg.kind = "accept" THEN "associated" ELSE "refused"
      BY <2>2, <3>1 DEF Decided
    <3> QED BY <1>22, <2>1, <2>3, <3>2 DEF AssociateResponse
  <2>4. CASE ~(in_progress /\ msg.id = request_id)
    BY <1>22, <2>1, <2>4 DEF AssociateResponse
  <2> QED BY <2>3, <2>4
<1>23. CASE MessageCause
  BY <1>23 DEF MessageCause
<1>24. CASE Resolve
  BY <1>24 DEF Resolve
<1>25. CASE HandshakeFails
  BY <1>25 DEF HandshakeFails
<1>26. CASE Lose
  BY <1>26 DEF Lose
<1>27. CASE PongTimeout
  BY <1>27 DEF PongTimeout
<1>28. ASSUME NEW m \in inbox, Receive(m) PROVE SuccessInv'
  BY <1>28, Received
<1>29. CASE Answer
  BY <1>29 DEF Answer
<1>30. CASE Noise
  BY <1>30 DEF Noise
<1>31. CASE UNCHANGED vars
  BY <1>31 DEF vars, connector
<1>32. CASE UserCallback
  BY <1>32 DEF UserCallback
<1> QED BY <1>1, <1>2, <1>3, <1>4, <1>5, <1>6, <1>7, <1>8, <1>9, <1>10, <1>11,
   <1>12, <1>13, <1>14, <1>15, <1>16, <1>17, <1>18, <1>19, <1>20, <1>21,
   <1>22, <1>23, <1>24, <1>25, <1>26, <1>27, <1>28, <1>29, <1>30, <1>31, <1>32
   DEF Next, Step, ConnectStep, HandlerStep

\* connect() meets no failure from before its request.
LEMMA FailureNext ==
    TypeOK /\ SessionInv /\ AnswerInv /\ SuccessInv /\ FailureInv /\ [Next]_vars
      => FailureInv'
<1> SUFFICES ASSUME TypeOK, SessionInv, AnswerInv, SuccessInv, FailureInv,
                    [Next]_vars
             PROVE  FailureInv'
  OBVIOUS
<1> USE DEF FailureInv, ConnectPcs, MtxFree
<1>1. CASE StartConnect
  BY <1>1 DEF StartConnect
<1>2. CASE CloseFirst
  BY <1>2 DEF CloseFirst, Goto
<1>3. CASE CloseFirstSet
  BY <1>3 DEF CloseFirstSet, Goto
<1>4. CASE Drain
  BY <1>4 DEF Drain, Goto
<1>5. CASE LockAssociation
  BY <1>5 DEF LockAssociation, Goto
<1>6. CASE FindOpen
  <2>1. session # "connecting" /\ handler # "onOpen"
    BY <1>6 DEF FindOpen, SessionInv
  <2> QED BY <1>6, <2>1 DEF FindOpen, Goto
<1>7. CASE StartAttempt
  BY <1>7 DEF StartAttempt, Goto, Conn!StartAttempt
<1>8. CASE Poll
  BY <1>8 DEF Poll, vars, connector
<1>9. CASE OpenSession
  BY <1>9 DEF OpenSession, Goto, Conn!OpenSession
<1>10. CASE AttemptFails
  BY <1>10 DEF AttemptFails, Returns
<1>11. CASE AttemptOver
  BY <1>11 DEF AttemptOver, Goto
<1>12. CASE GiveUp
  BY <1>12 DEF GiveUp, Returns
<1>13. CASE MessagingFailure
  BY <1>13 DEF MessagingFailure, Reset, Returns
<1>14. CASE TimeOut
  BY <1>14 DEF TimeOut, Reset, Returns
<1>15. CASE Concluded
  BY <1>15 DEF Concluded, Returns, Reset
<1>16. CASE OnEnd
  BY <1>16 DEF OnEnd
<1>17. CASE OnOpen
  BY <1>17 DEF OnOpen
<1>18. CASE AssociateSession
  BY <1>18 DEF AssociateSession
<1>19. CASE HandlerCloses
  BY <1>19 DEF HandlerCloses
<1>20. CASE HandlerClosesSet
  BY <1>20 DEF HandlerClosesSet
<1>21. CASE ReportGarbage
  BY <1>21 DEF ReportGarbage, AnswerInv
<1>22. CASE AssociateResponse
  BY <1>22 DEF AssociateResponse
<1>23. CASE MessageCause
  BY <1>23 DEF MessageCause, AnswerInv
<1>24. CASE Resolve
  BY <1>24 DEF Resolve, SuccessInv
<1>25. CASE HandshakeFails
  BY <1>25 DEF HandshakeFails
<1>26. CASE Lose
  BY <1>26 DEF Lose
<1>27. CASE PongTimeout
  BY <1>27 DEF PongTimeout
<1>28. ASSUME NEW m \in inbox, Receive(m) PROVE FailureInv'
  BY <1>28, Received
<1>29. CASE Answer
  BY <1>29 DEF Answer
<1>30. CASE Noise
  BY <1>30 DEF Noise
<1>31. CASE UNCHANGED vars
  BY <1>31 DEF vars, connector
<1>32. CASE UserCallback
  BY <1>32 DEF UserCallback
<1> QED BY <1>1, <1>2, <1>3, <1>4, <1>5, <1>6, <1>7, <1>8, <1>9, <1>10, <1>11,
   <1>12, <1>13, <1>14, <1>15, <1>16, <1>17, <1>18, <1>19, <1>20, <1>21,
   <1>22, <1>23, <1>24, <1>25, <1>26, <1>27, <1>28, <1>29, <1>30, <1>31, <1>32
   DEF Next, Step, ConnectStep, HandlerStep

\* Every step is one of ConnectionFSM, or leaves the connection alone.
LEMMA FSMStep ==
    TypeOK /\ SessionInv /\ [Next]_vars => [Conn!FSMNext]_(Conn!fsmVars)
<1> SUFFICES ASSUME TypeOK, SessionInv, [Next]_vars
             PROVE  [Conn!FSMNext]_(Conn!fsmVars)
  OBVIOUS
<1> USE DEF Conn!fsmVars
<1>1. CASE StartConnect
  BY <1>1 DEF StartConnect
<1>2. CASE CloseFirst
  <2>1. CASE UNCHANGED session
    BY <1>2, <2>1 DEF CloseFirst
  <2>2. CASE session = "open" /\ session' = "closing"
    <3>1. Conn!Progress
      BY <1>2, <2>2 DEF CloseFirst, Conn!Progress
    <3> QED BY <3>1 DEF Conn!FSMNext
  <2> QED BY <1>2, <2>1, <2>2 DEF CloseFirst
<1>3. CASE CloseFirstSet
  <2>1. session \in {"closing", "over"} /\ UNCHANGED session
    BY <1>3 DEF CloseFirstSet, SessionInv
  <2>2. CASE connection_state = "closing"
    BY <1>3, <2>1, <2>2 DEF CloseFirstSet
  <2>3. CASE connection_state # "closing"
    <3>1. Conn!ReportClosing
      BY <1>3, <2>1, <2>3
         DEF CloseFirstSet, TypeOK, SessionInv, Conn!ReportClosing
    <3> QED BY <3>1 DEF Conn!FSMNext
  <2> QED BY <2>2, <2>3
<1>4. CASE Drain
  BY <1>4 DEF Drain, Goto
<1>5. CASE LockAssociation
  BY <1>5 DEF LockAssociation, Goto
<1>6. CASE FindOpen
  BY <1>6 DEF FindOpen, Goto
<1>7. CASE StartAttempt
  BY <1>7 DEF StartAttempt, Conn!FSMNext
<1>8. CASE Poll
  BY <1>8 DEF Poll, vars, connector
<1>9. CASE OpenSession
  BY <1>9 DEF OpenSession, Conn!FSMNext
<1>10. CASE AttemptFails
  BY <1>10 DEF AttemptFails, Returns
<1>11. CASE AttemptOver
  BY <1>11 DEF AttemptOver, Goto
<1>12. CASE GiveUp
  BY <1>12 DEF GiveUp, Returns
<1>13. CASE MessagingFailure
  BY <1>13 DEF MessagingFailure, Reset, Returns
<1>14. CASE TimeOut
  BY <1>14 DEF TimeOut, Reset, Returns
<1>15. CASE Concluded
  BY <1>15 DEF Concluded, Returns, Reset
<1>16. CASE OnEnd
  <2>1. Conn!ReportClosed
    BY <1>16 DEF OnEnd, TypeOK, SessionInv, Conn!ReportClosed
  <2> QED BY <2>1 DEF Conn!FSMNext
<1>17. CASE OnOpen
  <2>1. Conn!ReportOpen
    BY <1>17 DEF OnOpen, TypeOK, SessionInv, Conn!ReportOpen
  <2> QED BY <2>1 DEF Conn!FSMNext
<1>18. CASE AssociateSession
  BY <1>18 DEF AssociateSession
<1>19. CASE HandlerCloses
  <2>1. CASE UNCHANGED session
    BY <1>19, <2>1 DEF HandlerCloses
  <2>2. CASE session = "open" /\ session' = "closing"
    <3>1. Conn!Progress
      BY <1>19, <2>2 DEF HandlerCloses, Conn!Progress
    <3> QED BY <3>1 DEF Conn!FSMNext
  <2> QED BY <1>19, <2>1, <2>2 DEF HandlerCloses
<1>20. CASE HandlerClosesSet
  <2>1. session \in {"closing", "over"} /\ UNCHANGED session
    BY <1>20 DEF HandlerClosesSet, SessionInv
  <2>2. CASE connection_state = "closing"
    BY <1>20, <2>1, <2>2 DEF HandlerClosesSet
  <2>3. CASE connection_state # "closing"
    <3>1. Conn!ReportClosing
      BY <1>20, <2>1, <2>3
         DEF HandlerClosesSet, TypeOK, SessionInv, Conn!ReportClosing
    <3> QED BY <3>1 DEF Conn!FSMNext
  <2> QED BY <2>2, <2>3
<1>21. CASE ReportGarbage
  BY <1>21 DEF ReportGarbage
<1>22. CASE AssociateResponse
  BY <1>22 DEF AssociateResponse
<1>23. CASE MessageCause
  BY <1>23 DEF MessageCause
<1>24. CASE Resolve
  <2>1. Conn!Progress
    BY <1>24 DEF Resolve, Conn!Progress
  <2> QED BY <2>1 DEF Conn!FSMNext
<1>25. CASE HandshakeFails
  <2>1. Conn!Progress
    BY <1>25 DEF HandshakeFails, Conn!Progress
  <2> QED BY <2>1 DEF Conn!FSMNext
<1>26. CASE Lose
  <2>1. Conn!Progress
    BY <1>26 DEF Lose, Conn!Progress
  <2> QED BY <2>1 DEF Conn!FSMNext
<1>27. CASE PongTimeout
  BY <1>27 DEF PongTimeout
<1>28. ASSUME NEW m \in inbox, Receive(m) PROVE [Conn!FSMNext]_(Conn!fsmVars)
  BY <1>28 DEF Receive
<1>29. CASE Answer
  BY <1>29 DEF Answer
<1>30. CASE Noise
  BY <1>30 DEF Noise
<1>31. CASE UNCHANGED vars
  BY <1>31 DEF vars, connector
<1>32. CASE UserCallback
  BY <1>32 DEF UserCallback
<1> QED BY <1>1, <1>2, <1>3, <1>4, <1>5, <1>6, <1>7, <1>8, <1>9, <1>10, <1>11,
   <1>12, <1>13, <1>14, <1>15, <1>16, <1>17, <1>18, <1>19, <1>20, <1>21,
   <1>22, <1>23, <1>24, <1>25, <1>26, <1>27, <1>28, <1>29, <1>30, <1>31, <1>32
   DEF Next, Step, ConnectStep, HandlerStep

\* What a step of connect() returns is what the broker decided: of the steps
\* that leave "await" only Concluded tells of an answer.
LEMMA OutcomeStep ==
    ASSUME SuccessInv, [Next]_vars, pc = "await", pc' = "idle"
    PROVE  /\ outcome' = "associated" => verdict = "associated"
           /\ outcome' = "response_failure" => verdict = "refused"
<1>1. CASE MessagingFailure
  BY <1>1 DEF MessagingFailure, Returns
<1>2. CASE TimeOut
  BY <1>2 DEF TimeOut, Returns
<1>3. CASE Concluded
  BY <1>3 DEF Concluded, Returns, SuccessInv
<1>4. Next
  BY DEF vars
<1>5. ~aborted /\ Step
  BY <1>4 DEF Next, vars
<1>6. CASE StartConnect \/ HandlerStep \/ Resolve \/ HandshakeFails \/ Lose
             \/ PongTimeout \/ (\E m \in inbox : Receive(m)) \/ Answer \/ Noise
  <2>1. UNCHANGED pc \/ pc = "idle"
    BY <1>6
       DEF StartConnect, HandlerStep, OnEnd, OnOpen, AssociateSession,
           HandlerCloses, HandlerClosesSet, ReportGarbage, AssociateResponse,
           UserCallback, MessageCause, Resolve, HandshakeFails, Lose,
           PongTimeout, Receive, Answer, Noise
  <2> QED BY <2>1
<1>7. CASE ConnectStep
  <2>1. MessagingFailure \/ TimeOut \/ Concluded
    BY <1>7
       DEF ConnectStep, CloseFirst, CloseFirstSet, Drain, LockAssociation,
           FindOpen, StartAttempt, Poll, OpenSession, AttemptFails,
           AttemptOver, GiveUp
  <2> QED BY <2>1, <1>1, <1>2, <1>3
<1> QED BY <1>5, <1>6, <1>7 DEF Step

-----------------------------------------------------------------------------
\* The inductive invariant with the types: what is reported of the session,
\* whose answers are on their way, and what a success means.
THEOREM Invariance == Spec => [](TypeOK /\ IndInv)
<1>1. TypeOK /\ IndInv /\ [Next]_vars => TypeOK' /\ IndInv'
  BY TypeNext, SessionNext, AnswerNext, SuccessNext, FailureNext DEF IndInv
<1> QED BY <1>1, InvInit, PTL DEF Spec

\* Type correctness, for every set of message ids.
THEOREM TypeCorrect == Spec => []TypeOK
<1> QED BY Invariance, PTL

\* isAssociated() is never true unless the broker accepted the request sent
\* over the session there is, however connect(), the handlers and the broker
\* interleave.
THEOREM Honest == Spec => []AssociatedHonest
<1>1. IndInv => AssociatedHonest
  BY DEF IndInv, SuccessInv, AssociatedHonest, isAssociated
<1> QED BY <1>1, Invariance, PTL

\* A messaging failure that connect() finds is never one from before the request
\* of this association.
THEOREM HonestFailure == Spec => []FailureHonest
<1>1. IndInv => FailureHonest
  BY DEF IndInv, FailureInv, FailureHonest
<1> QED BY <1>1, Invariance, PTL

\* connect() returns normally only when the broker accepted the request, and
\* throws connection_association_response_failure only when it refused it.
THEOREM TrueOutcome == Spec => OutcomeTrue
<1>1. IndInv /\ [Next]_vars =>
        [pc = "await" /\ pc' = "idle" =>
           /\ outcome' = "associated" => verdict = "associated"
           /\ outcome' = "response_failure" => verdict = "refused"]_vars
  BY OutcomeStep DEF IndInv
<1> QED BY <1>1, Invariance, PTL DEF Spec, OutcomeTrue

\* The connection that connect() and the handlers drive stays within
\* ConnectionFSM, which Connection is proved to implement.
THEOREM StaysWithinFSM == Spec => UsesFSM
<1>1. Init => Conn!FSMInit
  BY DEF Init
<1>2. IndInv => SessionInv
  BY DEF IndInv
<1> QED
  BY <1>1, <1>2, FSMStep, Invariance, PTL DEF Spec, UsesFSM, Conn!FSMSpec
=============================================================================
