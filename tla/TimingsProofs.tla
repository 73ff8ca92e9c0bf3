--------------------------- MODULE TimingsProofs ---------------------------
(***************************************************************************)
(* Proofs about Timings, for a clock and an int of any size.               *)
(*                                                                         *)
(* TypeOK is inductive together with PhaseInv, which knows where the       *)
(* session is when a time is taken.  OrderInv follows from both, and       *)
(* AssociationInv from the three.  DurationKept is the only place where    *)
(* the width of an int matters: the intervals are the differences of the   *)
(* times, hence nested as these are ordered, while the session is short.   *)
(***************************************************************************)
EXTENDS Timings, TLAPS

\* Every step preserves the types.
LEMMA TypeNext == TypeOK /\ PhaseInv /\ [Next]_vars => TypeOK'
<1> SUFFICES ASSUME TypeOK, PhaseInv, [Next]_vars PROVE TypeOK'
  OBVIOUS
<1> USE ClockAssumption DEF TypeOK, Times, Epoch, PhaseInv
<1>1. CASE Tick
  BY <1>1 DEF Tick
<1>2. CASE PongTimeout
  BY <1>2 DEF PongTimeout, Close, setClosing
<1>3. CASE StartConnect
  BY <1>3 DEF StartConnect
<1>4. CASE CloseFirst
  BY <1>4 DEF CloseFirst, Close, setClosing
<1>5. CASE Lock
  BY <1>5 DEF Lock
<1>6. CASE FindOpen
  BY <1>6 DEF FindOpen
<1>7. CASE StartAttempt
  BY <1>7 DEF StartAttempt, Conn!StartAttempt, NewTimings
<1>8. CASE OpenSession
  BY <1>8 DEF OpenSession, Conn!OpenSession
<1>9. CASE AttemptFails
  BY <1>9 DEF AttemptFails, setCompleted
<1>10. CASE GiveUp
  BY <1>10 DEF GiveUp
<1>11. CASE Conclude
  BY <1>11 DEF Conclude, setCompleted
<1>12. CASE TCPInit
  BY <1>12 DEF TCPInit
<1>13. CASE Resolve
  BY <1>13 DEF Resolve
<1>14. CASE Lose
  BY <1>14 DEF Lose
<1>15. CASE OnOpen
  BY <1>15 DEF OnOpen, setOpen
<1>16. CASE AssociateSession
  <2>1. CASE session = "open"
    BY <1>16, <2>1 DEF AssociateSession, NewAssociation
  <2>2. CASE session # "open"
    <3>1. /\ association' = NewAssociation(now) /\ handler' = "aborted"
          /\ timings' = setClosing(timings)
          /\ UNCHANGED <<now, state, session, pc, answer>>
      BY <1>16, <2>2 DEF AssociateSession
    <3>2. session \in {"open", "closing"}
      BY <1>16 DEF AssociateSession
    <3>3. /\ timings' = [timings EXCEPT !.closing_handshake = now,
                                   !.closing_started = TRUE]
          /\ ~association'.closed /\ ~association'.success
      BY <3>1 DEF NewAssociation, setClosing
    <3>4. association' \in
            [start : Times, association : Times, close : Times,
             completed : BOOLEAN, success : BOOLEAN, closed : BOOLEAN]
      BY <3>1 DEF NewAssociation
    <3> HIDE <1>16
    <3> QED BY <3>1, <3>3, <3>4
  <2> QED BY <2>1, <2>2
<1>17. CASE Answer
  BY <1>17 DEF Answer
<1>18. CASE OnEnd
  BY <1>18 DEF OnEnd, setClosed
<1>19. CASE CloseCallback
  <2>1. CASE association.completed /\ ~association.closed
    BY <1>19, <2>1 DEF CloseCallback, closeAssociationTimings,
       setAssociationClosed
  <2>2. CASE ~(association.completed /\ ~association.closed)
    BY <1>19, <2>2 DEF CloseCallback, closeAssociationTimings
  <2> QED BY <2>1, <2>2
<1>20. CASE UNCHANGED vars
  BY <1>20 DEF vars
<1> QED BY <1>1, <1>2, <1>3, <1>4, <1>5, <1>6, <1>7, <1>8, <1>9, <1>10, <1>11,
   <1>12, <1>13, <1>14, <1>15, <1>16, <1>17, <1>18, <1>19, <1>20 DEF Next

\* Every step preserves the phases.
LEMMA PhaseNext == TypeOK /\ PhaseInv /\ OrderInv /\ [Next]_vars => PhaseInv'
<1> SUFFICES ASSUME TypeOK, PhaseInv, OrderInv, [Next]_vars PROVE PhaseInv'
  OBVIOUS
<1> USE ClockAssumption DEF TypeOK, Times, Epoch, PhaseInv, OrderInv
<1>1. CASE Tick
  BY <1>1 DEF Tick
<1>2. CASE PongTimeout
  BY <1>2 DEF PongTimeout, Close, setClosing
<1>3. CASE StartConnect
  BY <1>3 DEF StartConnect
<1>4. CASE CloseFirst
  BY <1>4 DEF CloseFirst, Close, setClosing
<1>5. CASE Lock
  BY <1>5 DEF Lock
<1>6. CASE FindOpen
  BY <1>6 DEF FindOpen
<1>7. CASE StartAttempt
  BY <1>7 DEF StartAttempt, Conn!StartAttempt, NewTimings
<1>8. CASE OpenSession
  BY <1>8 DEF OpenSession, Conn!OpenSession
<1>9. CASE AttemptFails
  BY <1>9 DEF AttemptFails, setCompleted
<1>10. CASE GiveUp
  BY <1>10 DEF GiveUp
<1>11. CASE Conclude
  BY <1>11 DEF Conclude, setCompleted
<1>12. CASE TCPInit
  BY <1>12 DEF TCPInit
<1>13. CASE Resolve
  BY <1>13 DEF Resolve
<1>14. CASE Lose
  BY <1>14 DEF Lose
<1>15. CASE OnOpen
  BY <1>15 DEF OnOpen, setOpen
<1>16. CASE AssociateSession
  BY <1>16 DEF AssociateSession, NewAssociation, setClosing
<1>17. CASE Answer
  BY <1>17 DEF Answer
<1>18. CASE OnEnd
  BY <1>18 DEF OnEnd, setClosed
<1>19. CASE CloseCallback
  BY <1>19 DEF CloseCallback, closeAssociationTimings, setAssociationClosed
<1>20. CASE UNCHANGED vars
  BY <1>20 DEF vars
<1> QED BY <1>1, <1>2, <1>3, <1>4, <1>5, <1>6, <1>7, <1>8, <1>9, <1>10, <1>11,
   <1>12, <1>13, <1>14, <1>15, <1>16, <1>17, <1>18, <1>19, <1>20 DEF Next

\* Every step keeps the times of the connection in order.
LEMMA OrderNext == TypeOK /\ PhaseInv /\ OrderInv /\ [Next]_vars => OrderInv'
<1> SUFFICES ASSUME TypeOK, PhaseInv, OrderInv, [Next]_vars PROVE OrderInv'
  OBVIOUS
<1> USE ClockAssumption DEF TypeOK, Times, Epoch, PhaseInv, OrderInv
<1>1. CASE Tick
  BY <1>1 DEF Tick
<1>2. CASE PongTimeout
  BY <1>2 DEF PongTimeout, Close, setClosing
<1>3. CASE StartConnect
  BY <1>3 DEF StartConnect
<1>4. CASE CloseFirst
  BY <1>4 DEF CloseFirst, Close, setClosing
<1>5. CASE Lock
  BY <1>5 DEF Lock
<1>6. CASE FindOpen
  BY <1>6 DEF FindOpen
<1>7. CASE StartAttempt
  BY <1>7 DEF StartAttempt, Conn!StartAttempt, NewTimings
<1>8. CASE OpenSession
  BY <1>8 DEF OpenSession, Conn!OpenSession
<1>9. CASE AttemptFails
  BY <1>9 DEF AttemptFails, setCompleted
<1>10. CASE GiveUp
  BY <1>10 DEF GiveUp
<1>11. CASE Conclude
  BY <1>11 DEF Conclude, setCompleted
<1>12. CASE TCPInit
  BY <1>12 DEF TCPInit
<1>13. CASE Resolve
  BY <1>13 DEF Resolve
<1>14. CASE Lose
  BY <1>14 DEF Lose
<1>15. CASE OnOpen
  BY <1>15 DEF OnOpen, setOpen
<1>16. CASE AssociateSession
  <2>1. CASE session = "open"
    BY <1>16, <2>1 DEF AssociateSession, NewAssociation
  <2>2. CASE session # "open"
    <3>1. /\ association' = NewAssociation(now) /\ handler' = "aborted"
          /\ timings' = setClosing(timings)
          /\ UNCHANGED <<now, state, session, pc, answer>>
      BY <1>16, <2>2 DEF AssociateSession
    <3>2. session \in {"open", "closing"}
      BY <1>16 DEF AssociateSession
    <3> HIDE <1>16
    <3> QED BY <3>1, <3>2 DEF NewAssociation, setClosing
  <2> QED BY <2>1, <2>2
<1>17. CASE Answer
  BY <1>17 DEF Answer
<1>18. CASE OnEnd
  BY <1>18 DEF OnEnd, setClosed
<1>19. CASE CloseCallback
  BY <1>19 DEF CloseCallback, closeAssociationTimings, setAssociationClosed
<1>20. CASE UNCHANGED vars
  BY <1>20 DEF vars
<1> QED BY <1>1, <1>2, <1>3, <1>4, <1>5, <1>6, <1>7, <1>8, <1>9, <1>10, <1>11,
   <1>12, <1>13, <1>14, <1>15, <1>16, <1>17, <1>18, <1>19, <1>20 DEF Next

\* Every step keeps the times of the association in order.
LEMMA AssociationNext ==
    TypeOK /\ PhaseInv /\ OrderInv /\ AssociationInv /\ [Next]_vars
      => AssociationInv'
<1> SUFFICES ASSUME TypeOK, PhaseInv, OrderInv, AssociationInv, [Next]_vars
   PROVE AssociationInv'
  OBVIOUS
<1> USE ClockAssumption DEF TypeOK, Times, Epoch, PhaseInv, OrderInv,
   AssociationInv
<1>1. CASE Tick
  BY <1>1 DEF Tick
<1>2. CASE PongTimeout
  BY <1>2 DEF PongTimeout, Close, setClosing
<1>3. CASE StartConnect
  BY <1>3 DEF StartConnect
<1>4. CASE CloseFirst
  BY <1>4 DEF CloseFirst, Close, setClosing
<1>5. CASE Lock
  BY <1>5 DEF Lock
<1>6. CASE FindOpen
  BY <1>6 DEF FindOpen
<1>7. CASE StartAttempt
  BY <1>7 DEF StartAttempt, Conn!StartAttempt, NewTimings
<1>8. CASE OpenSession
  BY <1>8 DEF OpenSession, Conn!OpenSession
<1>9. CASE AttemptFails
  BY <1>9 DEF AttemptFails, setCompleted
<1>10. CASE GiveUp
  BY <1>10 DEF GiveUp
<1>11. CASE Conclude
  BY <1>11 DEF Conclude, setCompleted
<1>12. CASE TCPInit
  BY <1>12 DEF TCPInit
<1>13. CASE Resolve
  BY <1>13 DEF Resolve
<1>14. CASE Lose
  BY <1>14 DEF Lose
<1>15. CASE OnOpen
  BY <1>15 DEF OnOpen, setOpen
<1>16. CASE AssociateSession
  <2>1. CASE session = "open"
    BY <1>16, <2>1 DEF AssociateSession, NewAssociation
  <2>2. CASE session # "open"
    <3>1. /\ association' = NewAssociation(now) /\ handler' = "aborted"
          /\ timings' = setClosing(timings)
          /\ UNCHANGED <<now, state, session, pc, answer>>
      BY <1>16, <2>2 DEF AssociateSession
    <3>2. session \in {"open", "closing"}
      BY <1>16 DEF AssociateSession
    <3> HIDE <1>16
    <3> QED BY <3>1, <3>2 DEF NewAssociation, setClosing
  <2> QED BY <2>1, <2>2
<1>17. CASE Answer
  BY <1>17 DEF Answer
<1>18. CASE OnEnd
  BY <1>18 DEF OnEnd, setClosed
<1>19. CASE CloseCallback
  BY <1>19 DEF CloseCallback, closeAssociationTimings, setAssociationClosed
<1>20. CASE UNCHANGED vars
  BY <1>20 DEF vars
<1> QED BY <1>1, <1>2, <1>3, <1>4, <1>5, <1>6, <1>7, <1>8, <1>9, <1>10, <1>11,
   <1>12, <1>13, <1>14, <1>15, <1>16, <1>17, <1>18, <1>19, <1>20 DEF Next

\* The initial state is well typed and satisfies every part of the invariant.
LEMMA InvInit == Init => TypeOK /\ IndInv
<1> SUFFICES ASSUME Init PROVE TypeOK /\ IndInv
  OBVIOUS
<1> USE ClockAssumption DEF Init, Epoch, NewTimings, NewAssociation,
   Conn!FSMInit
<1>1. 1 \in Times /\ 0 \in Times
  BY DEF Times
<1>2. TypeOK
  BY <1>1 DEF TypeOK
<1>3. PhaseInv /\ OrderInv /\ AssociationInv
  BY DEF PhaseInv, OrderInv, AssociationInv
<1> QED BY <1>2, <1>3 DEF IndInv

\* An int keeps the durations it can.
LEMMA DurationKept ==
    ASSUME NEW d \in Int, -IntLimit <= d, d < IntLimit
    PROVE  Duration(d) = d
<1>1. (d + IntLimit) % (2 * IntLimit) = d + IntLimit
  BY ClockAssumption
<1> QED BY <1>1, ClockAssumption DEF Duration

\* So it keeps the times of a session that is short enough.
LEMMA IntervalsKept ==
    ASSUME TypeOK, OrderInv, Short, timings.is_open
    PROVE  /\ getTCPInterval(timings) = timings.tcp_pre_init - timings.start
           /\ getOpeningHandshakeInterval(timings)
                = timings.tcp_post_init - timings.tcp_pre_init
           /\ getWebSocketInterval(timings) = timings.open - timings.start
           /\ getOverallConnectionInterval(timings)
                = (IF timings.closed THEN timings.close ELSE now)
                    - timings.start
           /\ getClosingHandshakeInterval(timings)
                = IF timings.closing_started /\ timings.closed
                  THEN timings.close - timings.closing_handshake ELSE 0
<1> USE ClockAssumption DEF TypeOK, OrderInv, Times, Epoch, Short
<1> DEFINE end == IF timings.closed THEN timings.close ELSE now
<1>1. Duration(timings.tcp_pre_init - timings.start)
        = timings.tcp_pre_init - timings.start
  BY DurationKept
<1>2. Duration(timings.tcp_post_init - timings.tcp_pre_init)
        = timings.tcp_post_init - timings.tcp_pre_init
  BY DurationKept
<1>3. Duration(timings.open - timings.start) = timings.open - timings.start
  BY DurationKept
<1>4. Duration(end - timings.start) = end - timings.start
  BY DurationKept
<1>5. timings.closing_started /\ timings.closed =>
        Duration(timings.close - timings.closing_handshake)
          = timings.close - timings.closing_handshake
  BY DurationKept
<1> QED BY <1>1, <1>2, <1>3, <1>4, <1>5 DEF If, getTCPInterval,
   getOpeningHandshakeInterval, getWebSocketInterval,
   getOverallConnectionInterval, getClosingHandshakeInterval

\* While the session is the one reported open, the times of the association
\* lie between its start and now.
LEMMA AssociationKept ==
    ASSUME TypeOK, IndInv, Short, state = "open", handler = "idle",
           association.completed
    PROVE  /\ getAssociationInterval(association)
                = association.association - association.start
           /\ getOverallSessionInterval(association)
                = (IF association.closed THEN association.close ELSE now)
                    - association.association
<1> USE ClockAssumption DEF TypeOK, IndInv, OrderInv, AssociationInv, Times,
   Short
<1> DEFINE end == IF association.closed THEN association.close ELSE now
<1>1. Duration(association.association - association.start)
        = association.association - association.start
  BY DurationKept
<1>2. Duration(end - association.association) = end - association.association
  BY DurationKept
<1> QED BY <1>1, <1>2 DEF If, getAssociationInterval, getOverallSessionInterval

-----------------------------------------------------------------------------
\* The inductive invariant with the types: where the session is when a time is
\* taken, and the order of the times.
THEOREM Invariance == Spec => [](TypeOK /\ IndInv)
<1>1. TypeOK /\ IndInv /\ [Next]_vars => TypeOK' /\ IndInv'
  BY TypeNext, PhaseNext, OrderNext, AssociationNext DEF IndInv
<1> QED BY <1>1, InvInit, PTL DEF Spec

\* Type correctness, for a clock and an int of any size.
THEOREM TypeCorrect == Spec => []TypeOK
<1> QED BY Invariance, PTL

\* The intervals of one connection are parts of each other at every moment, if
\* it has lasted no longer than an int can tell.
THEOREM Nested == Spec => []IntervalsNested
<1>1. TypeOK /\ IndInv => IntervalsNested
  <2> SUFFICES ASSUME TypeOK, IndInv, Short PROVE IntervalsNested
    BY DEF IntervalsNested
  <2>1. CASE timings.is_open
    BY <2>1, IntervalsKept, ClockAssumption DEF IntervalsNested, TypeOK, Times,
       IndInv, OrderInv
  <2>2. CASE ~timings.is_open
    BY <2>2 DEF IntervalsNested, If, getOpeningHandshakeInterval,
       getWebSocketInterval, getOverallConnectionInterval,
       getClosingHandshakeInterval
  <2> QED BY <2>1, <2>2 DEF TypeOK
<1> QED BY <1>1, Invariance, PTL

\* An association is made before its session ends, in whatever order connect()
\* and the handlers record it.
THEOREM Ordered == Spec => []AssociationOrdered
<1>1. IndInv => AssociationOrdered
  BY DEF IndInv, AssociationInv, AssociationOrdered
<1> QED BY <1>1, Invariance, PTL

\* The association timings of a session that is reported open are of no session
\* before it.
THEOREM OneSessionTimed == Spec => []SameSession
<1>1. TypeOK /\ IndInv => SameSession
  <2> SUFFICES ASSUME TypeOK, IndInv, handler = "idle", state = "open", Short,
                      association.completed
               PROVE  getAssociationInterval(association)
                        + getOverallSessionInterval(association)
                          <= getOverallConnectionInterval(timings)
    BY DEF SameSession
  <2>1. timings.is_open /\ ~timings.closed
    BY DEF IndInv, PhaseInv
  <2>2. getOverallConnectionInterval(timings) = now - timings.start
    BY <2>1, IntervalsKept DEF IndInv
  <2> QED BY <2>2, AssociationKept, ClockAssumption DEF TypeOK, Times, IndInv,
     AssociationInv
<1> QED BY <1>1, Invariance, PTL

\* The end of an associated session is recorded, if it came after connect() had
\* concluded, whatever connect(), close() and the handlers do in between.
THEOREM EndNoted == Spec => []EndRecorded
<1>1. Init => EndRecorded
  BY DEF Init, EndRecorded, NewAssociation
<1>2. TypeOK /\ IndInv /\ EndRecorded /\ [Next]_vars => EndRecorded'
  <2> SUFFICES ASSUME TypeOK, IndInv, EndRecorded, [Next]_vars PROVE EndRecorded'
    OBVIOUS
  <2> USE DEF EndRecorded, TypeOK
  <2>1. CASE UNCHANGED <<handler, timings, association>>
    BY <2>1
  <2>2. CASE PongTimeout \/ CloseFirst
    BY <2>2 DEF PongTimeout, CloseFirst, Close, setClosing
  <2>3. CASE StartAttempt
    BY <2>3 DEF StartAttempt, NewTimings
  <2>4. CASE AttemptFails
    BY <2>4 DEF AttemptFails, setCompleted
  <2>5. CASE Conclude
    <3>1. association.closed => association'.closed
      BY <2>5 DEF Conclude, setCompleted
    <3>2. ~association.closed => association'.association = now
      BY <2>5 DEF Conclude, setCompleted
    <3>3. timings' = timings /\ timings.close <= now
      BY <2>5 DEF Conclude, IndInv, OrderInv
    <3> QED BY <3>1, <3>2, <3>3
  <2>6. CASE TCPInit \/ OnOpen
    BY <2>6 DEF TCPInit, OnOpen, setOpen
  <2>7. CASE Resolve
    BY <2>7 DEF Resolve
  <2>8. CASE AssociateSession
    BY <2>8 DEF AssociateSession, NewAssociation
  <2>9. CASE OnEnd
    BY <2>9 DEF OnEnd
  <2>10. CASE CloseCallback
    BY <2>10 DEF CloseCallback, closeAssociationTimings, setAssociationClosed
  <2> QED BY <2>1, <2>2, <2>3, <2>4, <2>5, <2>6, <2>7, <2>8, <2>9, <2>10
     DEF Next, Tick, StartConnect, Lock, FindOpen, OpenSession, GiveUp, Lose,
     Answer, vars
<1> QED BY <1>1, <1>2, Invariance, PTL DEF Spec

\* No step moves the end of a session that has been recorded.
THEOREM EndKept == Spec => CloseKept
<1> DEFINE Kept == association.closed /\ association'.closed =>
                     association'.close = association.close
<1>1. TypeOK /\ [Next]_vars => [Kept]_vars
  <2> SUFFICES ASSUME TypeOK, Next PROVE Kept
    BY DEF vars
  <2>1. CASE association' = association
    BY <2>1
  <2>2. CASE AttemptFails \/ Conclude
    BY <2>2 DEF AttemptFails, Conclude, setCompleted, TypeOK
  <2>3. CASE AssociateSession
    BY <2>3 DEF AssociateSession, NewAssociation
  <2>4. CASE CloseCallback
    BY <2>4 DEF CloseCallback, closeAssociationTimings
  <2> QED BY <2>1, <2>2, <2>3, <2>4 DEF Next, Tick, PongTimeout, Close,
     StartConnect, CloseFirst, Lock, FindOpen, StartAttempt, OpenSession,
     GiveUp, TCPInit, Resolve, Lose, OnOpen, Answer, OnEnd
<1> QED BY <1>1, TypeCorrect, PTL DEF Spec, CloseKept

=============================================================================
