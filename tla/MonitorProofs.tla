--------------------------- MODULE MonitorProofs ---------------------------
(***************************************************************************)
(* Proofs about Monitor, for every set of users and tasks, every limit and *)
(* both versions of the protocol (Associating).                            *)
(*                                                                         *)
(* TypeOK is inductive together with PcInv, which ties the place of every  *)
(* thread to the call it is in.  The parts of IndInv are proved one after  *)
(* the other: PcInv, CallInv, LockInv, TaskInv and ExceptionInv, each step *)
(* from the parts before it and LockInv.  TaskInv and ExceptionInv hold as *)
(* long as no two calls have raced to start a task; a step after which     *)
(* none have is one before which none had (RacedStays).                    *)
(* connect() can be run by a user or by the task, and which of them ends   *)
(* it decides what follows: MutexTells and ConnectConcludes say so once,   *)
(* for all the steps that end it, and every part cites them.               *)
(***************************************************************************)
EXTENDS Monitor, TLAPS

USE DEF lower, flags, sync, threads, history, Threads

\* Every call begins where its own steps begin.
LEMMA FirstPcs ==
    /\ \A c \in Calls : FirstPc[c] \in Pcs
    /\ FirstPc["connect"] = "head" /\ FirstPc["start"] = "check"
    /\ FirstPc["monitor"] = "check" /\ FirstPc["stop"] = "stop"
    /\ FirstPc["destroy"] = "stop"
  BY DEF FirstPc, Calls, Pcs, ConnectPcs

\* What connect() ends with is known to the callers.
LEMMA OutcomeTypes ==
    /\ {"ok", "config_error", "fatal_error"} \subseteq Outcomes
    /\ Exceptions \subseteq Outcomes
    /\ Associating =>
          {"association_error", "response_failure"} \subseteq Outcomes
  BY DEF Outcomes, Exceptions, Retried

\* Where connect() leads the thread that ran it: the task ends, with what
\* cannot be retried, or goes on; a user's call returns; a session was opened.
TaskEnds(p) ==
    /\ Looping(p) /\ pc' = [pc EXCEPT ![p] = "end"] /\ UNCHANGED call
    /\ \E o \in Exceptions : exception' = o /\ life' = o

TaskGoesOn(p) ==
    /\ Looping(p) /\ pc' = [pc EXCEPT ![p] = "test"]
    /\ UNCHANGED <<call, exception, life>>

CallerReturns(p) ==
    /\ p \in Users /\ call[p] = "connect"
    /\ pc' = [pc EXCEPT ![p] = "idle"] /\ call' = [call EXCEPT ![p] = "none"]
    /\ UNCHANGED <<exception, life>>

SessionOpened(p) ==
    /\ pc[p] = "get" /\ pc' = [pc EXCEPT ![p] = "attempted"]
    /\ UNCHANGED <<call, exception, life>>

\* The steps that can end connect().
Ends(p) == FindOpen(p) \/ GetConnection(p) \/ GiveUp(p)

\* The mutex tells the task from a caller of connect(), as ConnectEnds says.
LEMMA MutexTells ==
    ASSUME TypeOK, PcInv, LockInv, NEW p \in Threads, pc[p] \in ConnectPcs,
           NEW o \in Outcomes, ConnectEnds(p, o)
    PROVE  TaskEnds(p) \/ TaskGoesOn(p) \/ CallerReturns(p)
<1>1. mutex = p <=> Looping(p)
  BY DEF LockInv, Looping, ConnectPcs
<1>2. CASE mutex = p
  <2>1. CASE o \in Exceptions
    BY <1>1, <1>2, <2>1 DEF ConnectEnds, TaskCatches, Goto, TaskEnds
  <2>2. CASE o \notin Exceptions
    BY <1>1, <1>2, <2>2 DEF ConnectEnds, TaskCatches, Goto, TaskGoesOn
  <2> QED BY <2>1, <2>2
<1>3. CASE mutex # p
  <2>1. p \in Users /\ call[p] # "monitor"
    BY <1>1, <1>3 DEF Looping
  <2>2. call[p] = "connect"
    BY <2>1 DEF TypeOK, PcInv, Calls, ConnectPcs
  <2> QED BY <1>3, <2>1, <2>2 DEF ConnectEnds, Returns, CallerReturns
<1> QED BY <1>2, <1>3

\* What any of those steps does to its thread is one of the four.
LEMMA ConnectConcludes ==
    ASSUME TypeOK, PcInv, LockInv, NEW p \in Threads, Ends(p)
    PROVE  /\ pc[p] \in ConnectPcs
           /\ \/ TaskEnds(p) \/ TaskGoesOn(p)
              \/ CallerReturns(p) \/ SessionOpened(p)
           /\ UNCHANGED <<mutex, is_monitoring, monitor_thread>>
<1>1. CASE FindOpen(p)
  <2>1. pc[p] \in ConnectPcs /\ \E o \in Outcomes : ConnectEnds(p, o)
    BY <1>1, OutcomeTypes DEF FindOpen, ConnectPcs
  <2> QED BY <1>1, <2>1, MutexTells DEF FindOpen
<1>2. CASE GetConnection(p)
  <2>1. pc[p] = "get" /\ pc[p] \in ConnectPcs
    BY <1>2 DEF GetConnection, ConnectPcs
  <2>2. CASE Goto(p, "attempted") /\ UNCHANGED <<exception, life>>
    BY <1>2, <2>1, <2>2 DEF GetConnection, Goto, SessionOpened
  <2>3. CASE ConnectEnds(p, "config_error")
    BY <1>2, <2>1, <2>3, MutexTells, OutcomeTypes DEF GetConnection
  <2> QED BY <1>2, <2>2, <2>3 DEF GetConnection
<1>3. CASE GiveUp(p)
  <2>1. pc[p] \in ConnectPcs /\ ConnectEnds(p, "fatal_error")
    BY <1>3 DEF GiveUp, ConnectPcs
  <2> QED BY <1>3, <2>1, MutexTells, OutcomeTypes DEF GiveUp
<1> QED BY <1>1, <1>2, <1>3 DEF Ends

\* Every step preserves the types.
LEMMA TypeNext == TypeOK /\ [Next]_vars => TypeOK'
<1> SUFFICES ASSUME TypeOK, [Next]_vars PROVE TypeOK'
  OBVIOUS
<1> USE ThreadsAssumption DEF TypeOK, Pcs, ConnectPcs, LoopPcs
<1>1. ASSUME NEW u \in Users, Check(u) PROVE TypeOK'
  <2>1. is_monitoring' \in BOOLEAN /\ must_stop' \in BOOLEAN
    BY <1>1, OutcomeTypes DEF Check, Goto, Returns
  <2>2. pc' \in [Threads -> Pcs] /\ call' \in [Users -> Calls \cup {"none"}]
    BY <1>1, OutcomeTypes DEF Check, Goto, Returns
  <2>3. limited' \in [Threads -> BOOLEAN]
    BY <1>1, OutcomeTypes DEF Check, Goto, Returns
  <2>4. outcome' \in Outcomes /\ raced' \in BOOLEAN
    BY <1>1, OutcomeTypes DEF Check, Goto, Returns
  <2> QED BY <1>1, <2>1, <2>2, <2>3, <2>4 DEF Check, Goto, Returns
<1>2. ASSUME NEW u \in Users, Spawn(u) PROVE TypeOK'
  <2>1. pc' \in [Threads -> Pcs] /\ call' \in [Users -> Calls \cup {"none"}]
    BY <1>2, OutcomeTypes DEF Spawn
  <2>2. limited' \in [Threads -> BOOLEAN]
    BY <1>2, OutcomeTypes DEF Spawn
  <2>3. outcome' \in Outcomes /\ monitor_thread' \in Tasks
    BY <1>2, OutcomeTypes DEF Spawn
  <2> QED BY <1>2, <2>1, <2>2, <2>3 DEF Spawn
<1>3. ASSUME NEW u \in Users, Stop(u) PROVE TypeOK'
  <2>1. is_monitoring' \in BOOLEAN /\ must_stop' \in BOOLEAN
    BY <1>3 DEF Stop, Goto
  <2>2. pc' \in [Threads -> Pcs] /\ call' \in [Users -> Calls \cup {"none"}]
    BY <1>3 DEF Stop, Goto
  <2> QED BY <1>3, <2>1, <2>2 DEF Stop, Goto
<1>4. ASSUME NEW u \in Users, StopNotify(u) PROVE TypeOK'
  BY <1>4 DEF StopNotify, Goto, NotifyOne
<1>5. ASSUME NEW u \in Users, Join(u) PROVE TypeOK'
  BY <1>5 DEF Join, Goto
<1>6. ASSUME NEW u \in Users, Rethrow(u) PROVE TypeOK'
  <2>1. pc' \in [Threads -> Pcs] /\ call' \in [Users -> Calls \cup {"none"}]
    BY <1>6, OutcomeTypes DEF Rethrow, Returns
  <2>2. limited' \in [Threads -> BOOLEAN]
    BY <1>6, OutcomeTypes DEF Rethrow, Returns
  <2>3. outcome' \in Outcomes
    BY <1>6, OutcomeTypes DEF Rethrow, Returns
  <2> QED BY <1>6, <2>1, <2>2, <2>3 DEF Rethrow, Returns
<1>7. ASSUME NEW u \in Users, Refuse(u) PROVE TypeOK'
  <2>1. outcome' \in Outcomes
    BY <1>7 DEF Refuse, Outcomes, Retried
  <2> QED BY <1>7, <2>1 DEF Refuse
<1>8. ASSUME NEW u \in Users, NEW c \in Calls, Call(u, c) PROVE TypeOK'
  <2>1. PICK b \in BOOLEAN : limited' = [limited EXCEPT ![u] = b]
    BY <1>8 DEF Call
  <2>2. connection' \in BOOLEAN
    BY <1>8 DEF Call
  <2>3. pc' \in [Threads -> Pcs]
    BY <1>8, FirstPcs DEF Call
  <2>4. outcome' \in Outcomes
    BY <1>8 DEF Call, Outcomes
  <2> QED BY <1>8, <2>1, <2>2, <2>3, <2>4 DEF Call
<1>9. ASSUME NEW p \in Threads, Begin(p) PROVE TypeOK'
  BY <1>9 DEF Begin, Goto
<1>10. ASSUME NEW p \in Threads, Lock(p) PROVE TypeOK'
  BY <1>10 DEF Lock, Goto
<1>11. ASSUME NEW p \in Threads, Test(p) PROVE TypeOK'
  BY <1>11 DEF Test, Goto
<1>12. ASSUME NEW p \in Threads, Sleep(p) PROVE TypeOK'
  BY <1>12 DEF Sleep, Goto
<1>13. ASSUME NEW p \in Threads, Woken(p) PROVE TypeOK'
  BY <1>13 DEF Woken, Goto
<1>14. ASSUME NEW p \in Threads, End(p) PROVE TypeOK'
  <2>1. is_monitoring' \in BOOLEAN /\ must_stop' \in BOOLEAN
    BY <1>14 DEF End, Goto
  <2> QED BY <1>14, <2>1 DEF End, Goto
<1>15. ASSUME NEW p \in Threads, Unlock(p) PROVE TypeOK'
  <2>1. pc' \in [Threads -> Pcs] /\ call' \in [Users -> Calls \cup {"none"}]
    BY <1>15, OutcomeTypes DEF Unlock, Goto, Returns
  <2>2. limited' \in [Threads -> BOOLEAN]
    BY <1>15, OutcomeTypes DEF Unlock, Goto, Returns
  <2>3. outcome' \in Outcomes
    BY <1>15, OutcomeTypes DEF Unlock, Goto, Returns
  <2> QED BY <1>15, <2>1, <2>2, <2>3 DEF Unlock, Goto, Returns
<1>16. ASSUME NEW p \in Threads, WakeUp(p) PROVE TypeOK'
  BY <1>16 DEF WakeUp, Goto
<1>17. ASSUME NEW p \in Threads, FindOpen(p) PROVE TypeOK'
  <2>1. PICK o \in Outcomes : ConnectEnds(p, o)
    BY <1>17, OutcomeTypes DEF FindOpen
  <2>2. CASE mutex = p
    BY <1>17, <2>1, <2>2 DEF ConnectEnds, TaskCatches, Goto, FindOpen
  <2>3. CASE mutex # p
    <3>1. Returns(p, o) /\ UNCHANGED <<exception, life>>
      BY <2>1, <2>3 DEF ConnectEnds
    <3>2. pc' \in [Threads -> Pcs] /\ call' \in [Users -> Calls \cup {"none"}]
      BY <3>1 DEF Returns
    <3>3. limited' \in [Threads -> BOOLEAN]
      BY <3>1 DEF Returns
    <3> QED BY <1>17, <3>1, <3>2, <3>3 DEF Returns, FindOpen
  <2> QED BY <2>2, <2>3
<1>18. ASSUME NEW p \in Threads, StartAttempt(p) PROVE TypeOK'
  BY <1>18 DEF StartAttempt, Goto, Conn!StartAttempt
<1>19. ASSUME NEW p \in Threads, Poll(p) PROVE TypeOK'
  BY <1>19 DEF Poll, vars, threads
<1>20. ASSUME NEW p \in Threads, GetConnection(p) PROVE TypeOK'
  <2>0. CASE Conn!OpenSession /\ Goto(p, "attempted")
                /\ UNCHANGED <<exception, life>>
    BY <1>20, <2>0 DEF GetConnection, Conn!OpenSession, Goto
  <2>1. CASE ConnectEnds(p, "config_error") /\ UNCHANGED <<state, session>>
    <3>1. CASE mutex = p
      BY <1>20, <2>1, <3>1 DEF ConnectEnds, TaskCatches, Goto, GetConnection
    <3>2. CASE mutex # p
      <4>1. Returns(p, "config_error") /\ UNCHANGED <<exception, life>>
        BY <2>1, <3>2 DEF ConnectEnds
      <4>2. /\ pc' \in [Threads -> Pcs]
            /\ call' \in [Users -> Calls \cup {"none"}]
        BY <4>1 DEF Returns
      <4>3. limited' \in [Threads -> BOOLEAN]
        BY <4>1 DEF Returns
      <4> QED BY <1>20, <2>1, <4>1, <4>2, <4>3, OutcomeTypes
            DEF Returns, GetConnection
    <3> QED BY <3>1, <3>2
  <2> QED BY <1>20, <2>0, <2>1 DEF GetConnection
<1>21. ASSUME NEW p \in Threads, AttemptOver(p) PROVE TypeOK'
  BY <1>21 DEF AttemptOver, Goto
<1>22. ASSUME NEW p \in Threads, GiveUp(p) PROVE TypeOK'
  <2>1. PICK o \in Outcomes : ConnectEnds(p, o)
    BY <1>22, OutcomeTypes DEF GiveUp
  <2>2. CASE mutex = p
    BY <1>22, <2>1, <2>2 DEF ConnectEnds, TaskCatches, Goto, GiveUp
  <2>3. CASE mutex # p
    <3>1. Returns(p, o) /\ UNCHANGED <<exception, life>>
      BY <2>1, <2>3 DEF ConnectEnds
    <3>2. pc' \in [Threads -> Pcs] /\ call' \in [Users -> Calls \cup {"none"}]
      BY <3>1 DEF Returns
    <3>3. limited' \in [Threads -> BOOLEAN]
      BY <3>1 DEF Returns
    <3> QED BY <1>22, <3>1, <3>2, <3>3 DEF Returns, GiveUp
  <2> QED BY <2>2, <2>3
<1>23. CASE Resolve
  BY <1>23 DEF Resolve
<1>24. CASE HandshakeFails
  BY <1>24 DEF HandshakeFails
<1>25. CASE Lose
  BY <1>25 DEF Lose, Conn!Progress, Conn!ReportClosing
<1>26. CASE OnOpen
  BY <1>26 DEF OnOpen, Conn!ReportOpen
<1>27. CASE OnEnd
  BY <1>27 DEF OnEnd, Conn!ReportClosed
<1>28. CASE NotifyClose
  BY <1>28 DEF NotifyClose, NotifyOne
<1>29. CASE UNCHANGED vars
  BY <1>29 DEF vars, threads
<1>30. ASSUME NEW u \in Users, SetMonitoring(u) PROVE TypeOK'
  <2>1. is_monitoring' \in BOOLEAN /\ must_stop' \in BOOLEAN
    BY <1>30 DEF SetMonitoring, Goto
  <2>2. pc' \in [Threads -> Pcs] /\ call' \in [Users -> Calls \cup {"none"}]
    BY <1>30 DEF SetMonitoring, Goto
  <2> QED BY <1>30, <2>1, <2>2 DEF SetMonitoring, Goto
<1> QED BY <1>1, <1>2, <1>3, <1>4, <1>5, <1>6, <1>7, <1>8, <1>9, <1>10, <1>11,
   <1>12, <1>13, <1>14, <1>15, <1>16, <1>17, <1>18, <1>19, <1>20, <1>21,
   <1>22, <1>23, <1>24, <1>25, <1>26, <1>27, <1>28, <1>29, <1>30 DEF Next,
   UserStep, LoopStep, ConnectStep, LoopThreadStep

\* Every thread stays where its call can be.
LEMMA PcNext == TypeOK /\ PcInv /\ LockInv /\ [Next]_vars => PcInv'
<1> SUFFICES ASSUME TypeOK, PcInv, LockInv, [Next]_vars PROVE PcInv'
  OBVIOUS
<1> USE ThreadsAssumption DEF TypeOK, PcInv, Looping, ConnectPcs, LoopPcs
<1>1. ASSUME NEW u \in Users, Check(u) PROVE PcInv'
  BY <1>1 DEF Check, Goto, Returns
<1>2. ASSUME NEW u \in Users, Spawn(u) PROVE PcInv'
  BY <1>2 DEF Spawn
<1>3. ASSUME NEW u \in Users, Stop(u) PROVE PcInv'
  BY <1>3 DEF Stop, Goto
<1>4. ASSUME NEW u \in Users, StopNotify(u) PROVE PcInv'
  BY <1>4 DEF StopNotify, Goto, NotifyOne
<1>5. ASSUME NEW u \in Users, Join(u) PROVE PcInv'
  BY <1>5 DEF Join, Goto
<1>6. ASSUME NEW u \in Users, Rethrow(u) PROVE PcInv'
  BY <1>6 DEF Rethrow, Returns
<1>7. ASSUME NEW u \in Users, Refuse(u) PROVE PcInv'
  BY <1>7 DEF Refuse
<1>8. ASSUME NEW u \in Users, NEW c \in Calls, Call(u, c) PROVE PcInv'
  BY <1>8, FirstPcs DEF Call, Calls
<1>9. ASSUME NEW p \in Threads, Begin(p) PROVE PcInv'
  BY <1>9 DEF Begin, Goto
<1>10. ASSUME NEW p \in Threads, Lock(p) PROVE PcInv'
  BY <1>10 DEF Lock, Goto
<1>11. ASSUME NEW p \in Threads, Test(p) PROVE PcInv'
  BY <1>11 DEF Test, Goto
<1>12. ASSUME NEW p \in Threads, Sleep(p) PROVE PcInv'
  BY <1>12 DEF Sleep, Goto
<1>13. ASSUME NEW p \in Threads, Woken(p) PROVE PcInv'
  BY <1>13 DEF Woken, Goto
<1>14. ASSUME NEW p \in Threads, End(p) PROVE PcInv'
  BY <1>14 DEF End, Goto
<1>15. ASSUME NEW p \in Threads, Unlock(p) PROVE PcInv'
  BY <1>15 DEF Unlock, Goto, Returns
<1>16. ASSUME NEW p \in Threads, WakeUp(p) PROVE PcInv'
  BY <1>16 DEF WakeUp, Goto
<1>17. ASSUME NEW p \in Threads, Ends(p) PROVE PcInv'
  <2>1. /\ pc[p] \in ConnectPcs
        /\ TaskEnds(p) \/ TaskGoesOn(p) \/ CallerReturns(p) \/ SessionOpened(p)
        /\ UNCHANGED <<mutex, is_monitoring, monitor_thread>>
    BY <1>17, ConnectConcludes
  <2>2. CASE TaskEnds(p)
    BY <2>1, <2>2 DEF TaskEnds
  <2>3. CASE TaskGoesOn(p)
    BY <2>1, <2>3 DEF TaskGoesOn
  <2>4. CASE CallerReturns(p)
    BY <2>1, <2>4 DEF CallerReturns
  <2>5. CASE SessionOpened(p)
    BY <2>1, <2>5 DEF SessionOpened
  <2> QED BY <2>1, <2>2, <2>3, <2>4, <2>5
<1>18. ASSUME NEW p \in Threads, StartAttempt(p) PROVE PcInv'
  BY <1>18 DEF StartAttempt, Goto, Conn!StartAttempt
<1>19. ASSUME NEW p \in Threads, Poll(p) PROVE PcInv'
  BY <1>19 DEF Poll, vars, threads
<1>20. ASSUME NEW p \in Threads, AttemptOver(p) PROVE PcInv'
  BY <1>20 DEF AttemptOver, Goto
<1>21. CASE Resolve
  BY <1>21 DEF Resolve
<1>22. CASE HandshakeFails
  BY <1>22 DEF HandshakeFails
<1>23. CASE Lose
  BY <1>23 DEF Lose, Conn!Progress, Conn!ReportClosing
<1>24. CASE OnOpen
  BY <1>24 DEF OnOpen, Conn!ReportOpen
<1>25. CASE OnEnd
  BY <1>25 DEF OnEnd, Conn!ReportClosed
<1>26. CASE NotifyClose
  BY <1>26 DEF NotifyClose, NotifyOne
<1>27. CASE UNCHANGED vars
  BY <1>27 DEF vars, threads
<1>28. ASSUME NEW u \in Users, SetMonitoring(u) PROVE PcInv'
  BY <1>28 DEF SetMonitoring, Goto, Calls
<1> QED BY <1>1, <1>2, <1>3, <1>4, <1>5, <1>6, <1>7, <1>8, <1>9, <1>10, <1>11,
   <1>12, <1>13, <1>14, <1>15, <1>16, <1>17, <1>18, <1>19, <1>20, <1>21,
   <1>22, <1>23, <1>24, <1>25, <1>26, <1>27, <1>28 DEF Next, UserStep, LoopStep,
   ConnectStep, LoopThreadStep, Ends

\* Calls meet only as they may.
LEMMA CallNext ==
    TypeOK /\ PcInv /\ CallInv /\ LockInv /\ [Next]_vars
      => CallInv'
<1> SUFFICES ASSUME TypeOK, PcInv, CallInv, LockInv, [Next]_vars
             PROVE  CallInv'
  OBVIOUS
<1> USE ThreadsAssumption DEF TypeOK, CallInv, Destroyed, Together, Starts
<1>1. ASSUME NEW u \in Users, Check(u) PROVE CallInv'
  BY <1>1 DEF Check, Goto, Returns
<1>2. ASSUME NEW u \in Users, Spawn(u) PROVE CallInv'
  BY <1>2 DEF Spawn
<1>3. ASSUME NEW u \in Users, Stop(u) PROVE CallInv'
  BY <1>3 DEF Stop, Goto
<1>4. ASSUME NEW u \in Users, StopNotify(u) PROVE CallInv'
  BY <1>4 DEF StopNotify, Goto, NotifyOne
<1>5. ASSUME NEW u \in Users, Join(u) PROVE CallInv'
  BY <1>5 DEF Join, Goto
<1>6. ASSUME NEW u \in Users, Rethrow(u) PROVE CallInv'
  BY <1>6 DEF Rethrow, Returns
<1>7. ASSUME NEW u \in Users, Refuse(u) PROVE CallInv'
  BY <1>7 DEF Refuse
<1>8. ASSUME NEW u \in Users, NEW c \in Calls, Call(u, c) PROVE CallInv'
  <2>1. call[u] = "none" /\ call' = [call EXCEPT ![u] = c]
    BY <1>8 DEF Call, PcInv, Calls, ConnectPcs, LoopPcs
  <2>2. pc' = [pc EXCEPT ![u] = FirstPc[c]] /\ FirstPc[c] # "gone"
    BY <1>8, FirstPcs DEF Call, Calls
  <2>3. ~Destroyed'
    BY <1>8, <2>2 DEF Call, Legal
  <2>4. \A w \in Users \ {u} : call[w] # "none" => Together(u, w)' /\ Together(w, u)'
    BY <1>8, <2>1 DEF Call, Legal
  <2>5. \A v, w \in Users \ {u} : Together(v, w)' <=> Together(v, w)
    BY <2>1
  <2> QED BY <2>1, <2>3, <2>4, <2>5
<1>9. ASSUME NEW p \in Threads, Begin(p) PROVE CallInv'
  BY <1>9 DEF Begin, Goto
<1>10. ASSUME NEW p \in Threads, Lock(p) PROVE CallInv'
  BY <1>10 DEF Lock, Goto
<1>11. ASSUME NEW p \in Threads, Test(p) PROVE CallInv'
  BY <1>11 DEF Test, Goto
<1>12. ASSUME NEW p \in Threads, Sleep(p) PROVE CallInv'
  BY <1>12 DEF Sleep, Goto
<1>13. ASSUME NEW p \in Threads, Woken(p) PROVE CallInv'
  BY <1>13 DEF Woken, Goto
<1>14. ASSUME NEW p \in Threads, End(p) PROVE CallInv'
  BY <1>14 DEF End, Goto
<1>15. ASSUME NEW p \in Threads, Unlock(p) PROVE CallInv'
  BY <1>15 DEF Unlock, Goto, Returns
<1>16. ASSUME NEW p \in Threads, WakeUp(p) PROVE CallInv'
  BY <1>16 DEF WakeUp, Goto
<1>17. ASSUME NEW p \in Threads, Ends(p) PROVE CallInv'
  <2>1. /\ pc[p] \in ConnectPcs
        /\ TaskEnds(p) \/ TaskGoesOn(p) \/ CallerReturns(p) \/ SessionOpened(p)
        /\ UNCHANGED <<mutex, is_monitoring, monitor_thread>>
    BY <1>17, ConnectConcludes
  <2>2. CASE TaskEnds(p)
    BY <2>1, <2>2 DEF TaskEnds
  <2>3. CASE TaskGoesOn(p)
    BY <2>1, <2>3 DEF TaskGoesOn
  <2>4. CASE CallerReturns(p)
    BY <2>1, <2>4 DEF CallerReturns
  <2>5. CASE SessionOpened(p)
    BY <2>1, <2>5 DEF SessionOpened
  <2> QED BY <2>1, <2>2, <2>3, <2>4, <2>5
<1>18. ASSUME NEW p \in Threads, StartAttempt(p) PROVE CallInv'
  BY <1>18 DEF StartAttempt, Goto, Conn!StartAttempt
<1>19. ASSUME NEW p \in Threads, Poll(p) PROVE CallInv'
  BY <1>19 DEF Poll, vars, threads
<1>20. ASSUME NEW p \in Threads, AttemptOver(p) PROVE CallInv'
  BY <1>20 DEF AttemptOver, Goto
<1>21. CASE Resolve
  BY <1>21 DEF Resolve
<1>22. CASE HandshakeFails
  BY <1>22 DEF HandshakeFails
<1>23. CASE Lose
  BY <1>23 DEF Lose, Conn!Progress, Conn!ReportClosing
<1>24. CASE OnOpen
  BY <1>24 DEF OnOpen, Conn!ReportOpen
<1>25. CASE OnEnd
  BY <1>25 DEF OnEnd, Conn!ReportClosed
<1>26. CASE NotifyClose
  BY <1>26 DEF NotifyClose, NotifyOne
<1>27. CASE UNCHANGED vars
  BY <1>27 DEF vars, threads
<1>28. ASSUME NEW u \in Users, SetMonitoring(u) PROVE CallInv'
  BY <1>28 DEF SetMonitoring, Goto
<1> QED BY <1>1, <1>2, <1>3, <1>4, <1>5, <1>6, <1>7, <1>8, <1>9, <1>10, <1>11,
   <1>12, <1>13, <1>14, <1>15, <1>16, <1>17, <1>18, <1>19, <1>20, <1>21,
   <1>22, <1>23, <1>24, <1>25, <1>26, <1>27, <1>28 DEF Next, UserStep, LoopStep,
   ConnectStep, LoopThreadStep, Ends

\* The mutex belongs to the task.
LEMMA LockNext ==
    TypeOK /\ PcInv /\ CallInv /\ LockInv /\ [Next]_vars
      => LockInv'
<1> SUFFICES ASSUME TypeOK, PcInv, CallInv, LockInv, [Next]_vars
             PROVE  LockInv'
  OBVIOUS
<1> USE ThreadsAssumption DEF TypeOK, PcInv, LockInv, Looping, ConnectPcs,
   LoopPcs
<1>1. ASSUME NEW u \in Users, Check(u) PROVE LockInv'
  BY <1>1 DEF Check, Goto, Returns
<1>2. ASSUME NEW u \in Users, Spawn(u) PROVE LockInv'
  BY <1>2 DEF Spawn
<1>3. ASSUME NEW u \in Users, Stop(u) PROVE LockInv'
  BY <1>3 DEF Stop, Goto
<1>4. ASSUME NEW u \in Users, StopNotify(u) PROVE LockInv'
  BY <1>4 DEF StopNotify, Goto, NotifyOne
<1>5. ASSUME NEW u \in Users, Join(u) PROVE LockInv'
  BY <1>5 DEF Join, Goto
<1>6. ASSUME NEW u \in Users, Rethrow(u) PROVE LockInv'
  BY <1>6 DEF Rethrow, Returns
<1>7. ASSUME NEW u \in Users, Refuse(u) PROVE LockInv'
  BY <1>7 DEF Refuse
<1>8. ASSUME NEW u \in Users, NEW c \in Calls, Call(u, c) PROVE LockInv'
  BY <1>8, FirstPcs DEF Call, Calls
<1>9. ASSUME NEW p \in Threads, Begin(p) PROVE LockInv'
  BY <1>9 DEF Begin, Goto
<1>10. ASSUME NEW p \in Threads, Lock(p) PROVE LockInv'
  BY <1>10 DEF Lock, Goto
<1>11. ASSUME NEW p \in Threads, Test(p) PROVE LockInv'
  BY <1>11 DEF Test, Goto
<1>12. ASSUME NEW p \in Threads, Sleep(p) PROVE LockInv'
  BY <1>12 DEF Sleep, Goto
<1>13. ASSUME NEW p \in Threads, Woken(p) PROVE LockInv'
  <2>1. mutex = p /\ UNCHANGED <<mutex, call>>
    BY <1>13 DEF Woken, Goto
  <2>2. PICK l \in {"end", "head", "test"} :
          pc' = [pc EXCEPT ![p] = l] /\ (l = "head" => ~must_stop)
    BY <1>13 DEF Woken, Goto
  <2>3. p \in Tasks \/ call[p] = "monitor"
    BY <1>13 DEF Woken, Calls
  <2>4. Looping(p)' /\ pc'[p] \notin {"begin", "lock", "asleep"}
    BY <2>1, <2>2, <2>3
  <2>5. \A q \in Threads \ {p} : pc'[q] = pc[q] /\ Looping(q)' = Looping(q)
    BY <2>1, <2>2
  <2> QED BY <2>1, <2>4, <2>5
<1>14. ASSUME NEW p \in Threads, End(p) PROVE LockInv'
  BY <1>14 DEF End, Goto
<1>15. ASSUME NEW p \in Threads, Unlock(p) PROVE LockInv'
  BY <1>15 DEF Unlock, Goto, Returns
<1>16. ASSUME NEW p \in Threads, WakeUp(p) PROVE LockInv'
  BY <1>16 DEF WakeUp, Goto
<1>17. ASSUME NEW p \in Threads, Ends(p) PROVE LockInv'
  <2>1. /\ pc[p] \in ConnectPcs
        /\ TaskEnds(p) \/ TaskGoesOn(p) \/ CallerReturns(p) \/ SessionOpened(p)
        /\ UNCHANGED <<mutex, is_monitoring, monitor_thread>>
    BY <1>17, ConnectConcludes
  <2>2. CASE TaskEnds(p)
    BY <2>1, <2>2 DEF TaskEnds
  <2>3. CASE TaskGoesOn(p)
    BY <2>1, <2>3 DEF TaskGoesOn
  <2>4. CASE CallerReturns(p)
    BY <2>1, <2>4 DEF CallerReturns
  <2>5. CASE SessionOpened(p)
    BY <2>1, <2>5 DEF SessionOpened
  <2> QED BY <2>1, <2>2, <2>3, <2>4, <2>5
<1>18. ASSUME NEW p \in Threads, StartAttempt(p) PROVE LockInv'
  BY <1>18 DEF StartAttempt, Goto, Conn!StartAttempt
<1>19. ASSUME NEW p \in Threads, Poll(p) PROVE LockInv'
  BY <1>19 DEF Poll, vars, threads
<1>20. ASSUME NEW p \in Threads, AttemptOver(p) PROVE LockInv'
  BY <1>20 DEF AttemptOver, Goto
<1>21. CASE Resolve
  BY <1>21 DEF Resolve
<1>22. CASE HandshakeFails
  BY <1>22 DEF HandshakeFails
<1>23. CASE Lose
  BY <1>23 DEF Lose, Conn!Progress, Conn!ReportClosing
<1>24. CASE OnOpen
  BY <1>24 DEF OnOpen, Conn!ReportOpen
<1>25. CASE OnEnd
  BY <1>25 DEF OnEnd, Conn!ReportClosed
<1>26. CASE NotifyClose
  BY <1>26 DEF NotifyClose, NotifyOne
<1>27. CASE UNCHANGED vars
  BY <1>27 DEF vars, threads
<1>28. ASSUME NEW u \in Users, SetMonitoring(u) PROVE LockInv'
  BY <1>28 DEF SetMonitoring, Goto, Calls
<1> QED BY <1>1, <1>2, <1>3, <1>4, <1>5, <1>6, <1>7, <1>8, <1>9, <1>10, <1>11,
   <1>12, <1>13, <1>14, <1>15, <1>16, <1>17, <1>18, <1>19, <1>20, <1>21,
   <1>22, <1>23, <1>24, <1>25, <1>26, <1>27, <1>28 DEF Next, UserStep, LoopStep,
   ConnectStep, LoopThreadStep, Ends

\* There stays one task, unless two calls race to start one.
LEMMA TaskNext ==
    TypeOK /\ PcInv /\ CallInv /\ LockInv /\ TaskInv /\ ~raced' /\ [Next]_vars
      => TaskInv'
<1> SUFFICES ASSUME TypeOK, PcInv, CallInv, LockInv, TaskInv, ~raced', [Next]_vars
             PROVE  TaskInv'
  OBVIOUS
<1> USE ThreadsAssumption DEF TypeOK, PcInv, TaskInv, Looping, ConnectPcs,
   LoopPcs
<1>1. ASSUME NEW u \in Users, Check(u) PROVE TaskInv'
  <2>1. CASE is_monitoring
    BY <1>1, <2>1 DEF Check, Returns
  <2>2. CASE ~is_monitoring
    <3>1. /\ pc' = [pc EXCEPT ![u] = "set"] /\ ~Race(u)
          /\ UNCHANGED <<call, is_monitoring, monitor_thread, life>>
      BY <1>1, <2>2 DEF Check, Goto
    <3>2. \A p \in Threads : ~Looping(p) /\ pc[p] # "spawn"
      BY <2>2
    <3>3. \A w \in Users \ {u} : pc'[w] \notin {"set", "spawn", "unlock"}
      BY <3>1, <3>2 DEF Race
    <3>4. pc[u] = "check" /\ \A p \in Threads : ~Looping(p)'
      BY <1>1, <3>1, <3>2 DEF Check
    <3> QED BY <2>2, <3>1, <3>3, <3>4
  <2> QED BY <2>1, <2>2
<1>2. ASSUME NEW u \in Users, Spawn(u) PROVE TaskInv'
  <2>1. /\ call[u] = "start" /\ pc[u] = "spawn"
        /\ \A w \in Users \ {u} : call[w] \in {"none"} \cup Starts
    BY <1>2 DEF Spawn, CallInv, Together, Starts, Calls
  <2>2. \A p \in Threads : ~Looping(p)
    BY <2>1
  <2>3. PICK t \in Tasks :
          /\ pc[t] = "exited" /\ monitor_thread' = t
          /\ pc' = [pc EXCEPT ![t] = "begin", ![u] = "idle"]
    BY <1>2 DEF Spawn
  <2>4. /\ call' = [call EXCEPT ![u] = "none"]
        /\ UNCHANGED <<is_monitoring, life>>
    BY <1>2 DEF Spawn
  <2>5. Looping(t)' /\ \A p \in Threads \ {t} : ~Looping(p)'
    BY <2>1, <2>2, <2>3, <2>4
  <2>6. \A w \in Users : pc[w] # "gone"
    BY <2>1 DEF CallInv, Destroyed
  <2>7. is_monitoring /\ life # "none"
    BY <2>1
  <2>8. \A w \in Users \ {u} : pc[w] \notin {"set", "spawn", "unlock", "rethrow"}
    BY <2>1, <2>6 DEF Starts
  <2>9. \A w \in Users \ {u} : pc'[w] = pc[w] /\ call'[w] = call[w]
    BY <2>3, <2>4
  <2>10. \A w \in Users : call'[w] # "connect"
    BY <2>1, <2>4, <2>9 DEF Starts
  <2>11. \A w \in Users :
            pc'[w] \notin {"set", "spawn", "unlock", "rethrow", "gone"}
    BY <2>3, <2>6, <2>8, <2>9
  <2> QED BY <2>3, <2>4, <2>5, <2>7, <2>10, <2>11
<1>3. ASSUME NEW u \in Users, Stop(u) PROVE TaskInv'
  BY <1>3 DEF Stop, Goto
<1>4. ASSUME NEW u \in Users, StopNotify(u) PROVE TaskInv'
  BY <1>4 DEF StopNotify, Goto, NotifyOne
<1>5. ASSUME NEW u \in Users, Join(u) PROVE TaskInv'
  BY <1>5 DEF Join, Goto
<1>6. ASSUME NEW u \in Users, Rethrow(u) PROVE TaskInv'
  <2>1. \A t \in Tasks : ~Looping(t)
    BY <1>6 DEF Rethrow
  <2>2. call[u] \in {"stop", "destroy"}
    BY <1>6 DEF Rethrow, Calls
  <2>3. \A w \in Users : pc[w] # "spawn"
    BY <2>2 DEF CallInv, Together, Starts, Calls
  <2>4. /\ \A p \in Threads : Looping(p)' => Looping(p) /\ p \in Users
        /\ \A w \in Users \ {u} : pc'[w] = pc[w] /\ call'[w] = call[w]
        /\ pc'[u] \in {"idle", "gone"} /\ call'[u] = "none"
    BY <1>6, <2>1 DEF Rethrow, Returns
  <2>5. (\E p \in Users : Looping(p)) => \E w \in Users : call[w] = "monitor"
    BY DEF Calls
  <2>6. CASE life' = life
    BY <1>6, <2>1, <2>3, <2>4, <2>6 DEF Rethrow
  <2>7. CASE life' = "none" /\ \A w \in Users : call[w] # "monitor"
    BY <1>6, <2>1, <2>3, <2>4, <2>5, <2>7 DEF Rethrow
  <2> QED BY <1>6, <2>6, <2>7 DEF Rethrow
<1>7. ASSUME NEW u \in Users, Refuse(u) PROVE TaskInv'
  BY <1>7 DEF Refuse
<1>8. ASSUME NEW u \in Users, NEW c \in Calls, Call(u, c) PROVE TaskInv'
  <2>1. /\ pc' = [pc EXCEPT ![u] = FirstPc[c]]
        /\ FirstPc[c] \in {"head", "check", "stop"}
        /\ FirstPc[c] = "head" => c = "connect"
    BY <1>8, FirstPcs DEF Call, Calls
  <2>2. call' = [call EXCEPT ![u] = c] /\ (c = "connect" => life = "none")
    BY <1>8 DEF Call, Legal
  <2>3. \A p \in Threads : Looping(p)' => Looping(p)
    BY <2>1, <2>2
  <2> QED BY <1>8, <2>1, <2>2, <2>3 DEF Call
<1>9. ASSUME NEW p \in Threads, Begin(p) PROVE TaskInv'
  BY <1>9 DEF Begin, Goto
<1>10. ASSUME NEW p \in Threads, Lock(p) PROVE TaskInv'
  BY <1>10 DEF Lock, Goto
<1>11. ASSUME NEW p \in Threads, Test(p) PROVE TaskInv'
  BY <1>11 DEF Test, Goto
<1>12. ASSUME NEW p \in Threads, Sleep(p) PROVE TaskInv'
  BY <1>12 DEF Sleep, Goto
<1>13. ASSUME NEW p \in Threads, Woken(p) PROVE TaskInv'
  BY <1>13 DEF Woken, Goto
<1>14. ASSUME NEW p \in Threads, End(p) PROVE TaskInv'
  BY <1>14 DEF End, Goto
<1>15. ASSUME NEW p \in Threads, Unlock(p) PROVE TaskInv'
  BY <1>15 DEF Unlock, Goto, Returns
<1>16. ASSUME NEW p \in Threads, WakeUp(p) PROVE TaskInv'
  BY <1>16 DEF WakeUp, Goto
<1>17. ASSUME NEW p \in Threads, Ends(p) PROVE TaskInv'
  <2>1. /\ pc[p] \in ConnectPcs
        /\ TaskEnds(p) \/ TaskGoesOn(p) \/ CallerReturns(p) \/ SessionOpened(p)
        /\ UNCHANGED <<mutex, is_monitoring, monitor_thread>>
    BY <1>17, ConnectConcludes
  <2>2. CASE TaskEnds(p)
    BY <2>1, <2>2 DEF TaskEnds, Exceptions
  <2>3. CASE TaskGoesOn(p)
    BY <2>1, <2>3 DEF TaskGoesOn
  <2>4. CASE CallerReturns(p)
    BY <2>1, <2>4 DEF CallerReturns
  <2>5. CASE SessionOpened(p)
    BY <2>1, <2>5 DEF SessionOpened
  <2> QED BY <2>1, <2>2, <2>3, <2>4, <2>5
<1>18. ASSUME NEW p \in Threads, StartAttempt(p) PROVE TaskInv'
  BY <1>18 DEF StartAttempt, Goto, Conn!StartAttempt
<1>19. ASSUME NEW p \in Threads, Poll(p) PROVE TaskInv'
  BY <1>19 DEF Poll, vars, threads
<1>20. ASSUME NEW p \in Threads, AttemptOver(p) PROVE TaskInv'
  BY <1>20 DEF AttemptOver, Goto
<1>21. CASE Resolve
  BY <1>21 DEF Resolve
<1>22. CASE HandshakeFails
  BY <1>22 DEF HandshakeFails
<1>23. CASE Lose
  BY <1>23 DEF Lose, Conn!Progress, Conn!ReportClosing
<1>24. CASE OnOpen
  BY <1>24 DEF OnOpen, Conn!ReportOpen
<1>25. CASE OnEnd
  BY <1>25 DEF OnEnd, Conn!ReportClosed
<1>26. CASE NotifyClose
  BY <1>26 DEF NotifyClose, NotifyOne
<1>27. CASE UNCHANGED vars
  BY <1>27 DEF vars, threads
<1>28. ASSUME NEW u \in Users, SetMonitoring(u) PROVE TaskInv'
  <2>1. /\ is_monitoring' = TRUE /\ life' = "started"
        /\ UNCHANGED <<call, monitor_thread>>
        /\ pc' = [pc EXCEPT ![u] = IF call[u] = "start" THEN "spawn" ELSE "begin"]
    BY <1>28 DEF SetMonitoring, Goto
  <2>2. /\ call[u] \in {"start", "monitor"} /\ pc[u] = "set"
        /\ \A p \in Threads : ~Looping(p)
        /\ \A w \in Users \ {u} : pc[w] \notin {"set", "spawn"}
    BY <1>28 DEF SetMonitoring, Calls
  <2>3. \A w \in Users : call[w] # "connect"
    BY <2>2 DEF CallInv, Together, Starts
  <2>4. \A w \in Users : pc[w] # "unlock"
    BY <2>2
  <2>5. \A p \in Threads \ {u} : pc'[p] = pc[p] /\ ~Looping(p)'
    BY <2>1, <2>2
  <2> QED BY <2>1, <2>2, <2>3, <2>4, <2>5
<1> QED BY <1>1, <1>2, <1>3, <1>4, <1>5, <1>6, <1>7, <1>8, <1>9, <1>10, <1>11,
   <1>12, <1>13, <1>14, <1>15, <1>16, <1>17, <1>18, <1>19, <1>20, <1>21,
   <1>22, <1>23, <1>24, <1>25, <1>26, <1>27, <1>28 DEF Next, UserStep, LoopStep,
   ConnectStep, LoopThreadStep, Ends

\* What is stored stays what ended the monitor.
LEMMA ExceptionNext ==
    TypeOK /\ PcInv /\ CallInv /\ LockInv /\ TaskInv /\ ExceptionInv
      /\ [Next]_vars
      => ExceptionInv'
<1> SUFFICES ASSUME TypeOK, PcInv, CallInv, LockInv, TaskInv, ExceptionInv,
                    [Next]_vars
             PROVE  ExceptionInv'
  OBVIOUS
<1> USE ThreadsAssumption DEF TypeOK, ExceptionInv
<1>1. ASSUME NEW u \in Users, Check(u) PROVE ExceptionInv'
  BY <1>1 DEF Check, Goto, Returns
<1>2. ASSUME NEW u \in Users, Spawn(u) PROVE ExceptionInv'
  BY <1>2 DEF Spawn
<1>3. ASSUME NEW u \in Users, Stop(u) PROVE ExceptionInv'
  BY <1>3 DEF Stop, Goto, Exceptions
<1>4. ASSUME NEW u \in Users, StopNotify(u) PROVE ExceptionInv'
  BY <1>4 DEF StopNotify, Goto, NotifyOne
<1>5. ASSUME NEW u \in Users, Join(u) PROVE ExceptionInv'
  BY <1>5 DEF Join, Goto
<1>6. ASSUME NEW u \in Users, Rethrow(u) PROVE ExceptionInv'
  <2>1. call[u] \in {"stop", "destroy"}
    BY <1>6 DEF Rethrow, PcInv, Calls, ConnectPcs, LoopPcs
  <2>2. \/ life' = life
        \/ /\ life' = "none"
           /\ \A w \in Users : call[w] # "monitor"
    BY <1>6 DEF Rethrow
  <2>3. \A w \in Users :
           pc[w] # "spawn" /\ (pc[w] = "begin" => call[w] = "monitor")
    BY <2>1 DEF PcInv, CallInv, Together, Starts, Calls, ConnectPcs, LoopPcs
  <2>4. \A t \in Tasks : pc[t] \notin {"spawn", "begin"}
    BY <1>6 DEF Rethrow, TaskInv, PcInv, Looping, LoopPcs, ConnectPcs
  <2>5. \E l \in {"idle", "gone"} : pc' = [pc EXCEPT ![u] = l]
    BY <1>6 DEF Rethrow, Returns
  <2>6. exception' = exception
    BY <1>6 DEF Rethrow
  <2> QED BY <1>6, <2>2, <2>3, <2>4, <2>5, <2>6 DEF Rethrow, Exceptions
<1>7. ASSUME NEW u \in Users, Refuse(u) PROVE ExceptionInv'
  BY <1>7 DEF Refuse
<1>8. ASSUME NEW u \in Users, NEW c \in Calls, Call(u, c) PROVE ExceptionInv'
  <2>1. pc' = [pc EXCEPT ![u] = FirstPc[c]] /\ pc[u] = "idle"
    BY <1>8 DEF Call
  <2>2. FirstPc[c] \notin {"spawn", "begin"}
    BY FirstPcs DEF Calls
  <2> QED BY <1>8, <2>1, <2>2 DEF Call
<1>9. ASSUME NEW p \in Threads, Begin(p) PROVE ExceptionInv'
  BY <1>9 DEF Begin, Goto, Exceptions
<1>10. ASSUME NEW p \in Threads, Lock(p) PROVE ExceptionInv'
  BY <1>10 DEF Lock, Goto
<1>11. ASSUME NEW p \in Threads, Test(p) PROVE ExceptionInv'
  BY <1>11 DEF Test, Goto
<1>12. ASSUME NEW p \in Threads, Sleep(p) PROVE ExceptionInv'
  BY <1>12 DEF Sleep, Goto
<1>13. ASSUME NEW p \in Threads, Woken(p) PROVE ExceptionInv'
  BY <1>13 DEF Woken, Goto
<1>14. ASSUME NEW p \in Threads, End(p) PROVE ExceptionInv'
  BY <1>14 DEF End, Goto
<1>15. ASSUME NEW p \in Threads, Unlock(p) PROVE ExceptionInv'
  <2>1. \E l \in {"exited", "idle", "gone"} : pc' = [pc EXCEPT ![p] = l]
    BY <1>15 DEF Unlock, Goto, Returns
  <2>2. exception' = exception /\ pc[p] = "unlock"
    BY <1>15 DEF Unlock
  <2>3. CASE UNCHANGED life
    BY <2>1, <2>2, <2>3
  <2>4. CASE p \in Users /\ life' = "none"
    <3>1. \A q \in Threads : pc[q] \notin {"spawn", "begin"}
      BY <2>2, <2>4 DEF TaskInv, PcInv, Looping, LoopPcs, ConnectPcs
    <3> QED BY <2>1, <2>2, <2>4, <3>1 DEF Exceptions
  <2> QED BY <1>15, <2>3, <2>4 DEF Unlock
<1>16. ASSUME NEW p \in Threads, WakeUp(p) PROVE ExceptionInv'
  BY <1>16 DEF WakeUp, Goto
<1>17. ASSUME NEW p \in Threads, Ends(p) PROVE ExceptionInv'
  <2>1. pc[p] \in ConnectPcs
    BY <1>17, ConnectConcludes
  <2>2. CASE TaskEnds(p)
    <3>1. \A q \in Threads : pc[q] \notin {"spawn", "begin"}
      BY <2>1, <2>2 DEF TaskEnds, TaskInv, PcInv, Looping, LoopPcs, ConnectPcs
    <3> QED BY <2>1, <2>2, <3>1 DEF TaskEnds, Exceptions
  <2>3. CASE TaskGoesOn(p)
    BY <2>1, <2>3 DEF TaskGoesOn, ConnectPcs
  <2>4. CASE CallerReturns(p)
    BY <2>1, <2>4 DEF CallerReturns, ConnectPcs
  <2>5. CASE SessionOpened(p)
    BY <2>1, <2>5 DEF SessionOpened
  <2> QED BY <1>17, <2>2, <2>3, <2>4, <2>5, ConnectConcludes
<1>18. ASSUME NEW p \in Threads, StartAttempt(p) PROVE ExceptionInv'
  BY <1>18 DEF StartAttempt, Goto, Conn!StartAttempt
<1>19. ASSUME NEW p \in Threads, Poll(p) PROVE ExceptionInv'
  BY <1>19 DEF Poll, vars, threads
<1>20. ASSUME NEW p \in Threads, AttemptOver(p) PROVE ExceptionInv'
  BY <1>20 DEF AttemptOver, Goto
<1>21. CASE Resolve
  BY <1>21 DEF Resolve
<1>22. CASE HandshakeFails
  BY <1>22 DEF HandshakeFails
<1>23. CASE Lose
  BY <1>23 DEF Lose, Conn!Progress, Conn!ReportClosing
<1>24. CASE OnOpen
  BY <1>24 DEF OnOpen, Conn!ReportOpen
<1>25. CASE OnEnd
  BY <1>25 DEF OnEnd, Conn!ReportClosed
<1>26. CASE NotifyClose
  BY <1>26 DEF NotifyClose, NotifyOne
<1>27. CASE UNCHANGED vars
  BY <1>27 DEF vars, threads
<1>28. ASSUME NEW u \in Users, SetMonitoring(u) PROVE ExceptionInv'
  BY <1>28 DEF SetMonitoring, Goto, Exceptions
<1> QED BY <1>1, <1>2, <1>3, <1>4, <1>5, <1>6, <1>7, <1>8, <1>9, <1>10, <1>11,
   <1>12, <1>13, <1>14, <1>15, <1>16, <1>17, <1>18, <1>19, <1>20, <1>21,
   <1>22, <1>23, <1>24, <1>25, <1>26, <1>27, <1>28 DEF Next, UserStep, LoopStep,
   ConnectStep, LoopThreadStep, Ends

\* A race is not forgotten: where there has been none, there was none before.
LEMMA RacedStays == TypeOK /\ ~raced' /\ [Next]_vars => ~raced
<1> SUFFICES ASSUME TypeOK, ~raced', [Next]_vars PROVE ~raced
  OBVIOUS
<1>1. ASSUME NEW u \in Users, UserStep(u) PROVE ~raced
  <2>1. CASE Check(u)
    BY <2>1 DEF Check
  <2>2. CASE ~Check(u)
    BY <1>1, <2>2
       DEF UserStep, SetMonitoring, Spawn, Stop, StopNotify, Join, Rethrow
  <2> QED BY <2>1, <2>2
<1>2. ASSUME NEW u \in Users, Refuse(u) \/ \E c \in Calls : Call(u, c)
      PROVE  ~raced
  BY <1>2 DEF Refuse, Call
<1>3. ASSUME NEW p \in Threads, LoopStep(p) \/ WakeUp(p) PROVE ~raced
  BY <1>3 DEF LoopStep, Begin, Lock, Test, Sleep, Woken, End, Unlock, WakeUp
<1>4. ASSUME NEW p \in Threads, ConnectStep(p) PROVE ~raced
  BY <1>4 DEF ConnectStep, FindOpen, StartAttempt, Poll, GetConnection,
              AttemptOver, GiveUp, vars
<1>5. CASE Resolve \/ HandshakeFails \/ Lose \/ LoopThreadStep
  BY <1>5 DEF Resolve, HandshakeFails, Lose, LoopThreadStep, OnOpen, OnEnd,
              NotifyClose
<1>6. CASE UNCHANGED vars
  BY <1>6 DEF vars
<1> QED BY <1>1, <1>2, <1>3, <1>4, <1>5, <1>6 DEF Next

\* The initial state is well typed and satisfies every part of the invariant.
LEMMA InvInit == Init => TypeOK /\ IndInv
<1> SUFFICES ASSUME Init PROVE TypeOK /\ IndInv
  OBVIOUS
<1>1. /\ \A u \in Users : pc[u] = "idle" /\ call[u] = "none"
      /\ \A t \in Tasks : pc[t] = "exited"
      /\ mutex = NoThread /\ life = "none" /\ exception = "none"
  BY ThreadsAssumption DEF Init
<1>2. TypeOK
  BY ThreadsAssumption, OutcomeTypes
     DEF Init, Conn!FSMInit, TypeOK, Pcs, Outcomes
<1>3. \A p \in Threads : ~Looping(p)
  BY <1>1 DEF Looping, LoopPcs, ConnectPcs
<1>4. PcInv /\ CallInv
  BY <1>1 DEF PcInv, CallInv, Destroyed
<1>5. LockInv
  BY <1>1, <1>3, ThreadsAssumption DEF LockInv
<1>6. TaskInv
  BY <1>1, <1>3 DEF TaskInv
<1>7. ExceptionInv
  BY <1>1 DEF ExceptionInv, Exceptions
<1> QED BY <1>2, <1>4, <1>5, <1>6, <1>7 DEF IndInv

\* Of two threads inside connect() one would be the task and the other a
\* caller, who has stopped the monitor before.
LEMMA OneInConnect == TypeOK /\ IndInv => OneConnector
<1> SUFFICES ASSUME TypeOK, IndInv, ~raced, NEW p \in Threads, NEW q \in Threads,
                    pc[p] \in ConnectPcs, pc[q] \in ConnectPcs
             PROVE  p = q
  BY DEF OneConnector
<1>1. \A r \in {p, q} : Looping(r) \/ (r \in Users /\ call[r] = "connect")
  BY DEF TypeOK, IndInv, PcInv, Looping, ConnectPcs, Calls
<1>2. CASE Looping(p) /\ Looping(q)
  BY <1>2 DEF IndInv, TaskInv
<1>3. CASE Looping(p) /\ ~Looping(q)
  BY <1>1, <1>3 DEF IndInv, TaskInv
<1>4. CASE ~Looping(p) /\ Looping(q)
  BY <1>1, <1>4 DEF IndInv, TaskInv
<1>5. CASE ~Looping(p) /\ ~Looping(q)
  BY <1>1, <1>5 DEF IndInv, CallInv, Together, Starts
<1> QED BY <1>2, <1>3, <1>4, <1>5

\* Only the last step of a call, Rethrow or Unlock, ends a stopMonitoring() or
\* a monitorConnection() that has come so far.
LEMMA LastStep ==
    ASSUME TypeOK, PcInv, [Next]_vars, NEW u \in Users,
           pc[u] \in {"rethrow", "unlock"}, pc'[u] = "idle"
    PROVE  Rethrow(u) \/ Unlock(u)
<1> SUFFICES ASSUME ~Rethrow(u), ~Unlock(u) PROVE FALSE
  OBVIOUS
<1> USE ThreadsAssumption DEF TypeOK
<1>1. ASSUME NEW w \in Users, UserStep(w) PROVE FALSE
  <2>1. CASE Spawn(w)
    BY <2>1 DEF Spawn, PcInv
  <2>2. CASE Check(w) \/ SetMonitoring(w) \/ Stop(w) \/ StopNotify(w) \/ Join(w)
    BY <2>2 DEF Check, SetMonitoring, Stop, StopNotify, Join, Goto, Returns
  <2>3. CASE Rethrow(w)
    BY <2>3 DEF Rethrow, Returns
  <2> QED BY <1>1, <2>1, <2>2, <2>3 DEF UserStep
<1>2. ASSUME NEW w \in Users, Refuse(w) PROVE FALSE
  BY <1>2 DEF Refuse
<1>3. ASSUME NEW w \in Users, NEW c \in Calls, Call(w, c) PROVE FALSE
  BY <1>3 DEF Call
<1>4. ASSUME NEW p \in Threads, LoopStep(p) \/ WakeUp(p) PROVE FALSE
  <2>1. CASE Unlock(p)
    BY <2>1 DEF Unlock, Goto, Returns
  <2>2. CASE ~Unlock(p)
    BY <1>4, <2>2
       DEF LoopStep, WakeUp, Begin, Lock, Test, Sleep, Woken, End, Goto
  <2> QED BY <2>1, <2>2
<1>5. ASSUME NEW p \in Threads, ConnectStep(p) PROVE FALSE
  <2>1. pc[p] \in ConnectPcs
    BY <1>5
       DEF ConnectStep, FindOpen, StartAttempt, Poll, GetConnection,
           AttemptOver, GiveUp, ConnectPcs
  <2>2. p # u
    BY <2>1 DEF ConnectPcs
  <2>3. pc'[u] = pc[u]
    BY <1>5, <2>2
       DEF ConnectStep, FindOpen, StartAttempt, Poll, GetConnection,
           AttemptOver, GiveUp, ConnectEnds, TaskCatches, Goto, Returns, vars
  <2> QED BY <2>3
<1>6. CASE Resolve \/ HandshakeFails \/ Lose \/ LoopThreadStep
  BY <1>6
     DEF Resolve, HandshakeFails, Lose, LoopThreadStep, OnOpen, OnEnd,
         NotifyClose
<1>7. CASE UNCHANGED vars
  BY <1>7 DEF vars
<1> QED BY <1>1, <1>2, <1>3, <1>4, <1>5, <1>6, <1>7 DEF Next

\* The exception that is stored then is the one that ended the monitor: no task
\* is about to begin, hence to forget it.
LEMMA Delivers ==
    ASSUME TypeOK, IndInv, ~raced, [Next]_vars, NEW u \in Users,
           call[u] \in {"stop", "monitor"}, pc[u] \in {"rethrow", "unlock"},
           \A w \in Users \ {u} : call[w] # "monitor",
           call[u] = "monitor" => ~must_stop,
           pc'[u] = "idle"
    PROVE  /\ life \in Exceptions => outcome' = life
           /\ life \in {"started", "asked"} => outcome' = "ok"
<1>1. \A p \in Threads : pc[p] \notin {"spawn", "begin"}
  <2>1. \A t \in Tasks : ~Looping(t) /\ pc[t] # "spawn"
    BY DEF IndInv, TaskInv, PcInv, LoopPcs, ConnectPcs
  <2>2. \A w \in Users \ {u} : call[w] \in {"none", "start", "stop"}
    BY DEF IndInv, CallInv, Together, Starts, TypeOK, Calls
  <2>3. pc[u] = "rethrow" => call[u] = "stop"
    BY DEF IndInv, PcInv, LoopPcs, ConnectPcs
  <2>4. ASSUME NEW w \in Users \ {u} PROVE pc[w] # "begin"
    BY <2>2 DEF IndInv, PcInv
  <2>5. ASSUME NEW w \in Users \ {u}, pc[w] = "spawn" PROVE FALSE
    <3>1. call[w] = "start"
      BY <2>2, <2>5 DEF IndInv, PcInv
    <3>2. pc[u] # "rethrow"
      BY <2>3, <3>1 DEF IndInv, CallInv, Together, Starts
    <3>3. pc[u] # "unlock"
      BY <2>5 DEF IndInv, TaskInv
    <3> QED BY <3>2, <3>3
  <2> QED BY <2>1, <2>4, <2>5 DEF Looping, LoopPcs
<1>2. /\ life \in Exceptions => exception = life
      /\ life \in {"started", "asked"} => exception = "none"
  BY <1>1 DEF IndInv, ExceptionInv
<1>3. "none" \notin Exceptions
  BY DEF Exceptions
<1>4. outcome' = IF exception = "none" THEN "ok" ELSE exception
  <2>1. CASE Rethrow(u)
    BY <2>1 DEF Rethrow, Returns
  <2>2. CASE Unlock(u)
    <3>1. call[u] = "monitor"
      BY <2>2 DEF Unlock, IndInv, PcInv
    <3> QED BY <2>2, <3>1, ThreadsAssumption DEF Unlock, Returns
  <2> QED BY <2>1, <2>2, LastStep DEF IndInv
<1> QED BY <1>2, <1>3, <1>4

-----------------------------------------------------------------------------
\* The inductive invariant with the types: where threads are, which calls run
\* next to each other, who holds the mutex, which task runs and what it stored.
THEOREM Invariance == Spec => [](TypeOK /\ IndInv)
<1>1. TypeOK /\ IndInv /\ [Next]_vars => TypeOK' /\ IndInv'
  <2> SUFFICES ASSUME TypeOK, IndInv, [Next]_vars PROVE TypeOK' /\ IndInv'
    OBVIOUS
  <2>1. TypeOK' /\ PcInv' /\ CallInv' /\ LockInv'
    BY TypeNext, PcNext, CallNext, LockNext DEF IndInv
  <2>2. ~raced' => TaskInv' /\ ExceptionInv'
    BY RacedStays, TaskNext, ExceptionNext DEF IndInv
  <2> QED BY <2>1, <2>2 DEF IndInv
<1> QED BY <1>1, InvInit, PTL DEF Spec

\* Type correctness, for any users and tasks, with and without association.
THEOREM TypeCorrect == Spec => []TypeOK
<1> QED BY Invariance, PTL

\* connect() is never run by two threads, unless two calls raced to start a task:
\* who calls it between stopMonitoring() and startMonitoring() does not meet the
\* task there.
THEOREM ConnectsAlone == Spec => []OneConnector
<1> QED BY OneInConnect, Invariance, PTL

\* After the destructor no task is left in its loop, unless two calls raced to
\* start one, and the thread of the first was detached.
THEOREM QuietAfterDestructor == Spec => []DestroyedQuiet
<1>1. TypeOK /\ IndInv => DestroyedQuiet
  BY DEF IndInv, PcInv, TaskInv, Looping, DestroyedQuiet, Destroyed
<1> QED BY <1>1, Invariance, PTL

\* stopMonitoring() and monitorConnection() end with the exception that ended
\* the monitor started last, and without one if none did, without such a race.
THEOREM Delivered == Spec => ExceptionDelivered
<1>1. TypeOK /\ IndInv /\ [Next]_vars =>
        [\A u \in Users :
           ~raced /\ call[u] \in {"stop", "monitor"}
              /\ pc[u] \in {"rethrow", "unlock"}
              /\ (\A w \in Users \ {u} : call[w] # "monitor")
              /\ (call[u] = "monitor" => ~must_stop) /\ pc'[u] = "idle"
           => /\ life \in Exceptions => outcome' = life
              /\ life \in {"started", "asked"} => outcome' = "ok"]_vars
  BY Delivers
<1> QED BY <1>1, Invariance, PTL DEF Spec, ExceptionDelivered

=============================================================================
