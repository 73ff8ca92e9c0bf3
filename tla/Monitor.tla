------------------------------ MODULE Monitor ------------------------------
(***************************************************************************)
(* PCPClient::ConnectorBase (lib/src/connector/connector_base.cc): the     *)
(* Monitoring Task, which reconnects a lost WebSocket connection, run in a *)
(* thread of its own (startMonitoring) or in the caller's                  *)
(* (monitorConnection), and stopped by stopMonitoring or the destructor.   *)
(*                                                                         *)
(* The threads share plain members: is_monitoring_, must_stop_monitoring_, *)
(* monitor_exception_ and monitor_thread_; the task alone locks            *)
(* monitor_mutex_, so a notification can precede the wait it is meant for. *)
(* The Connection below is represented by the variables of ConnectionFSM.  *)
(***************************************************************************)
EXTENDS Naturals, FiniteSets

CONSTANTS
    Users,          \* threads of the program that uses the connector
    Tasks,          \* threads that startMonitoring() can create
    NoThread,       \* an empty thread object, or nobody
    Associating     \* does connect() associate a session (v1), or not (v2)?

ASSUME ThreadsAssumption ==
    /\ IsFiniteSet(Users) /\ Users # {} /\ IsFiniteSet(Tasks) /\ Tasks # {}
    /\ Users \cap Tasks = {} /\ NoThread \notin Users \cup Tasks
    /\ Associating \in BOOLEAN

Threads == Users \cup Tasks

VARIABLES
    state, session,     \* the Connection, as in ConnectionFSM
    handler,            \* the callback the event loop is in
    connection,         \* is connection_ptr_ set?
    is_monitoring, must_stop, exception, monitor_thread,
    mutex,              \* who holds monitor_mutex_
    waiting,            \* who waits for monitor_cond_var_, not notified yet
    pc,                 \* where each thread is
    call,               \* the call each user is in
    limited,            \* is its max_connect_attempts positive?
    outcome,            \* how the last call ended
    life,               \* what became of the monitor started last
    raced               \* have two calls ever found no monitor at a time?

lower   == <<state, session, handler>>
flags   == <<is_monitoring, must_stop, exception, monitor_thread>>
sync    == <<mutex, waiting>>
threads == <<pc, call, limited, outcome>>
history == <<life, raced>>
vars    == <<lower, connection, flags, sync, threads, history>>

Conn == INSTANCE ConnectionFSM

Exceptions == {"fatal_error"} \cup
                  (IF Associating THEN {"response_failure"} ELSE {})
Retried    == {"config_error"} \cup
                  (IF Associating THEN {"association_error"} ELSE {})
Calls      == {"connect", "start", "monitor", "stop", "destroy"}
ConnectPcs == {"head", "get", "attempted"}
LoopPcs    == {"begin", "lock", "test", "sleep", "asleep", "woken", "end"}
Pcs        == {"idle", "exited", "gone", "check", "set", "spawn", "stop",
               "notify", "join", "rethrow", "unlock"} \cup ConnectPcs \cup LoopPcs
Outcomes   == {"none", "ok", "not_init_error"} \cup Exceptions \cup Retried

Init ==
    /\ Conn!FSMInit /\ handler = "idle"
    /\ connection = FALSE
    /\ is_monitoring = FALSE /\ must_stop = FALSE /\ exception = "none"
    /\ monitor_thread = NoThread
    /\ mutex = NoThread /\ waiting = {}
    /\ pc = [p \in Threads |-> IF p \in Users THEN "idle" ELSE "exited"]
    /\ call = [u \in Users |-> "none"] /\ limited = [p \in Threads |-> FALSE]
    /\ outcome = "none"
    /\ life = "none" /\ raced = FALSE

Goto(p, l) == pc' = [pc EXCEPT ![p] = l] /\ UNCHANGED <<call, limited, outcome>>

Returns(u, o) ==
    /\ pc' = [pc EXCEPT ![u] = IF call[u] = "destroy" THEN "gone" ELSE "idle"]
    /\ call' = [call EXCEPT ![u] = "none"]
    /\ outcome' = o
    /\ limited' = [limited EXCEPT ![u] = FALSE]

Destroyed == \E u \in Users : pc[u] = "gone"

\* The documented use: "it is safe to call startMonitoring in a multithreading
\* context", of which monitorConnection() is a blocking version (connector_base.hpp:
\* 133-137, 171), and stopMonitoring() is for a monitorConnection() of another
\* thread too; the other calls are made one at a time, and no connect() while a
\* monitor was started and not stopped.
Starts == {"start", "monitor"}

Legal(u, c) ==
    /\ ~Destroyed
    /\ \A w \in Users \ {u} :
          \/ call[w] = "none"
          \/ c \in Starts /\ call[w] \in Starts
          \/ c = "stop" /\ call[w] = "monitor"
    /\ c = "connect" => life = "none"

-----------------------------------------------------------------------------
(* Calls.                                                                  *)

FirstPc == [connect |-> "head", start |-> "check", monitor |-> "check",
            stop |-> "stop", destroy |-> "stop"]

\* connect() creates the Connection when there is none yet.
Call(u, c) ==
    /\ pc[u] = "idle" /\ Legal(u, c)
    /\ c \notin {"connect", "destroy"} => connection
    /\ pc' = [pc EXCEPT ![u] = FirstPc[c]]
    /\ call' = [call EXCEPT ![u] = c]
    /\ limited' \in {[limited EXCEPT ![u] = b] :
                        b \in IF c \in {"stop", "destroy"} THEN {FALSE}
                              ELSE BOOLEAN}
    /\ outcome' = "none"
    /\ connection' = (connection \/ c = "connect")
    /\ UNCHANGED <<lower, flags, sync, history>>

\* checkConnectionInitialization() and checkPingTimings()
Refuse(u) ==
    /\ pc[u] = "idle" /\ ~Destroyed
    /\ outcome' = IF connection THEN "config_error" ELSE "not_init_error"
    /\ UNCHANGED <<lower, connection, flags, sync, pc, call, limited, history>>

\* Is another call between its own test of is_monitoring_ and the assignment, or
\* in a monitorConnection() whose task has ended?
Race(u) == \E w \in Users \ {u} : pc[w] \in {"set", "unlock"}

\* Mutant of Check: the flag is not tested.
CheckNothing(u) ==
    /\ pc[u] = "check"
    /\ Goto(u, "set") /\ raced' = (raced \/ Race(u))
    /\ UNCHANGED <<lower, connection, flags, sync, life>>

\* Is a monitor running?  is_monitoring_ is tested, without a lock,
Check(u) ==
    /\ pc[u] = "check"
    /\ \/ is_monitoring /\ Returns(u, "ok") /\ UNCHANGED raced
       \/ ~is_monitoring /\ Goto(u, "set") /\ raced' = (raced \/ Race(u))
    /\ UNCHANGED <<lower, connection, flags, sync, life>>

\* and then set.  monitorConnection() begins the task itself.
SetMonitoring(u) ==
    /\ pc[u] = "set"
    /\ is_monitoring' = TRUE /\ life' = "started"
    /\ Goto(u, IF call[u] = "start" THEN "spawn" ELSE "begin")
    /\ UNCHANGED <<lower, connection, must_stop, exception, monitor_thread, sync,
                   raced>>

\* monitor_thread_ is assigned; a thread it still owned is detached.
Spawn(u) ==
    /\ pc[u] = "spawn"
    /\ \E t \in Tasks :
          /\ pc[t] = "exited"
          /\ pc' = [pc EXCEPT ![t] = "begin", ![u] = "idle"]
          /\ limited' = [limited EXCEPT ![t] = limited[u], ![u] = FALSE]
          /\ monitor_thread' = t
    /\ call' = [call EXCEPT ![u] = "none"]
    /\ outcome' = "ok"
    /\ UNCHANGED <<lower, connection, is_monitoring, must_stop, exception, sync,
                   history>>

\* stopMonitoring() and the destructor, which resets the callbacks of the
\* Connection first and only logs an exception.
Stop(u) ==
    /\ pc[u] = "stop"
    /\ \/ /\ is_monitoring /\ must_stop' = TRUE /\ Goto(u, "notify")
          /\ life' = IF life = "started" THEN "asked" ELSE life
       \/ /\ ~is_monitoring /\ Goto(u, "rethrow") /\ UNCHANGED <<must_stop, life>>
    /\ UNCHANGED <<lower, connection, is_monitoring, exception, monitor_thread,
                   sync, raced>>

\* notify_one()
NotifyOne ==
    \/ waiting = {} /\ UNCHANGED waiting
    \/ \E p \in waiting : waiting' = waiting \ {p}

StopNotify(u) ==
    /\ pc[u] = "notify"
    /\ NotifyOne
    /\ Goto(u, "join")
    /\ UNCHANGED <<lower, connection, flags, mutex, history>>

\* Mutant of Join: the thread is not joined.
JoinNothing(u) ==
    /\ pc[u] = "join"
    /\ monitor_thread' = NoThread
    /\ Goto(u, "rethrow")
    /\ UNCHANGED <<lower, connection, is_monitoring, must_stop, exception, sync,
                   history>>

Join(u) ==
    /\ pc[u] = "join"
    /\ monitor_thread # NoThread => pc[monitor_thread] = "exited"
    /\ monitor_thread' = NoThread
    /\ Goto(u, "rethrow")
    /\ UNCHANGED <<lower, connection, is_monitoring, must_stop, exception, sync,
                   history>>

Rethrow(u) ==
    /\ pc[u] = "rethrow"
    /\ Returns(u, IF exception = "none" THEN "ok" ELSE exception)
    /\ life' = IF \E w \in Users : call[w] = "monitor" THEN life ELSE "none"
    /\ UNCHANGED <<lower, connection, flags, sync, raced>>

UserStep(u) == \/ Check(u) \/ SetMonitoring(u) \/ Spawn(u)
               \/ Stop(u) \/ StopNotify(u) \/ Join(u) \/ Rethrow(u)

-----------------------------------------------------------------------------
(* startMonitorTask(), in the thread p: it holds the mutex except while it *)
(* waits.                                                                  *)

Begin(p) ==
    /\ pc[p] = "begin"
    /\ exception' = "none"
    /\ Goto(p, "lock")
    /\ UNCHANGED <<lower, connection, is_monitoring, must_stop, monitor_thread,
                   sync, history>>

Lock(p) ==
    /\ pc[p] = "lock" /\ mutex = NoThread
    /\ mutex' = p
    /\ Goto(p, "test")
    /\ UNCHANGED <<lower, connection, flags, waiting, history>>

Test(p) ==
    /\ pc[p] = "test"
    /\ Goto(p, IF must_stop THEN "end" ELSE "sleep")
    /\ UNCHANGED <<lower, connection, flags, sync, history>>

Sleep(p) ==
    /\ pc[p] = "sleep"
    /\ mutex' = NoThread /\ waiting' = waiting \cup {p}
    /\ Goto(p, "asleep")
    /\ UNCHANGED <<lower, connection, flags, history>>

\* Mutant of WakeUp: wait() instead of wait_until().
WakeNotified(p) ==
    /\ pc[p] = "asleep" /\ mutex = NoThread /\ p \notin waiting
    /\ mutex' = p /\ UNCHANGED waiting
    /\ Goto(p, "woken")
    /\ UNCHANGED <<lower, connection, flags, history>>

\* Notified, or the check interval is over.
WakeUp(p) ==
    /\ pc[p] = "asleep" /\ mutex = NoThread
    /\ mutex' = p /\ waiting' = waiting \ {p}
    /\ Goto(p, "woken")
    /\ UNCHANGED <<lower, connection, flags, history>>

\* Mutant of Woken: a request to stop is not looked at.
WokenWorks(p) ==
    /\ pc[p] = "woken"
    /\ Goto(p, IF state # "open" THEN "head" ELSE "sleep")
    /\ UNCHANGED <<lower, connection, flags, sync, history>>

\* Stop, reconnect, or send a ping; when ping() throws, the task continues.
Woken(p) ==
    /\ pc[p] = "woken"
    /\ Goto(p, IF must_stop THEN "end"
               ELSE IF state # "open" THEN "head" ELSE "test")
    /\ UNCHANGED <<lower, connection, flags, sync, history>>

\* Mutant of TaskCatches: what cannot be retried is logged only.
TaskLogs(p, o) ==
    /\ Goto(p, IF o \in Exceptions THEN "end" ELSE "test")
    /\ life' = IF o \in Exceptions THEN o ELSE life
    /\ UNCHANGED exception

\* Mutant of TaskCatches: every exception is stored.
TaskStoresAll(p, o) ==
    IF o # "ok" THEN exception' = o /\ life' = o /\ Goto(p, "end")
    ELSE Goto(p, "test") /\ UNCHANGED <<exception, life>>

\* The catch clauses: retry, or store the exception and leave the loop.
TaskCatches(p, o) ==
    IF o \in Exceptions
    THEN exception' = o /\ life' = o /\ Goto(p, "end")
    ELSE Goto(p, "test") /\ UNCHANGED <<exception, life>>

End(p) ==
    /\ pc[p] = "end"
    /\ is_monitoring' = FALSE
    /\ Goto(p, "unlock")
    /\ UNCHANGED <<lower, connection, must_stop, exception, monitor_thread, sync,
                   history>>

\* The thread exits, or monitorConnection() rethrows.
Unlock(p) ==
    /\ pc[p] = "unlock"
    /\ mutex' = NoThread
    /\ \/ p \in Tasks /\ Goto(p, "exited") /\ UNCHANGED life
       \/ /\ p \in Users
          /\ Returns(p, IF ~must_stop /\ exception # "none" THEN exception
                        ELSE "ok")
          /\ life' = IF is_monitoring THEN life ELSE "none"
    /\ UNCHANGED <<lower, connection, flags, waiting, raced>>

LoopStep(p) == \/ Begin(p) \/ Lock(p) \/ Test(p) \/ Sleep(p) \/ Woken(p)
               \/ End(p) \/ Unlock(p)

-----------------------------------------------------------------------------
(* connect(), run by a user or by the task, and Connection::connect().     *)

\* What connect() makes of the thread p: the task holds the mutex.
ConnectEnds(p, o) ==
    IF mutex = p THEN TaskCatches(p, o)
    ELSE Returns(p, o) /\ UNCHANGED <<exception, life>>

\* The connection is open; with v1 the association can still fail.
FindOpen(p) ==
    /\ pc[p] = "head" /\ state = "open"
    /\ \E o \in {"ok"} \cup (IF Associating
                             THEN {"association_error", "response_failure"}
                             ELSE {}) : ConnectEnds(p, o)
    /\ UNCHANGED <<lower, connection, is_monitoring, must_stop, monitor_thread,
                   sync, raced>>

StartAttempt(p) ==
    /\ pc[p] = "head" /\ Conn!StartAttempt
    /\ Goto(p, "get")
    /\ UNCHANGED <<handler, connection, flags, sync, history>>

Poll(p) ==
    /\ pc[p] = "head" /\ state \in {"connecting", "closing"}
    /\ UNCHANGED vars

\* onTlsInit() reads the TLS files again, which may have been replaced since
\* ClientMetadata checked them; connect_() has set 'connecting' already.
GetConnection(p) ==
    /\ pc[p] = "get"
    /\ \/ /\ Conn!OpenSession /\ Goto(p, "attempted")
          /\ UNCHANGED <<exception, life>>
       \/ /\ ConnectEnds(p, "config_error")
          /\ UNCHANGED <<state, session>>
    /\ UNCHANGED <<handler, connection, is_monitoring, must_stop,
                   monitor_thread, sync, raced>>

\* The wait for onOpen is over.
AttemptOver(p) ==
    /\ pc[p] = "attempted"
    /\ Goto(p, "head")
    /\ UNCHANGED <<lower, connection, flags, sync, history>>

\* The attempts are used up, by attempts or by polls.
GiveUp(p) ==
    /\ limited[p]
    /\ pc[p] = "attempted" \/ (pc[p] = "head" /\ state \in {"connecting", "closing"})
    /\ ConnectEnds(p, "fatal_error")
    /\ UNCHANGED <<lower, connection, is_monitoring, must_stop, monitor_thread,
                   sync, raced>>

ConnectStep(p) == \/ FindOpen(p) \/ StartAttempt(p) \/ Poll(p)
                  \/ GetConnection(p) \/ AttemptOver(p) \/ GiveUp(p)

-----------------------------------------------------------------------------
(* The event loop and the network.                                         *)

Resolve ==
    /\ handler = "idle" /\ session = "connecting"
    /\ session' = "open" /\ handler' = "onOpen"
    /\ UNCHANGED <<state, connection, flags, sync, threads, history>>

HandshakeFails ==
    /\ handler = "idle" /\ session = "connecting" /\ session' = "over"
    /\ UNCHANGED <<state, handler, connection, flags, sync, threads,
                   history>>

OnOpen ==
    /\ handler = "onOpen" /\ Conn!ReportOpen
    /\ handler' = "idle"
    /\ UNCHANGED <<connection, flags, sync, threads, history>>

\* The peer closes, a pong is missing, or the TCP connection is lost.
Lose ==
    /\ handler = "idle"
    /\ \/ session \in {"open", "closing"} /\ Conn!Progress
       \/ session = "closing" /\ Conn!ReportClosing
    /\ UNCHANGED <<handler, connection, flags, sync, threads, history>>

\* resetCallbacks() is the first thing the destructor does.
callbacksReset == \E u \in Users : call[u] = "destroy"

\* onClose has the callback notifyClose(), until the destructor resets it;
\* onFail, for a session that was never open, has none.
OnEnd ==
    /\ handler = "idle" /\ Conn!ReportClosed
    /\ handler' = IF state = "connecting" \/ callbacksReset
                  THEN "idle" ELSE "notifyClose"
    /\ UNCHANGED <<connection, flags, sync, threads, history>>

NotifyClose ==
    /\ handler = "notifyClose"
    /\ NotifyOne
    /\ handler' = "idle"
    /\ UNCHANGED <<state, session, connection, flags, mutex, threads,
                   history>>

LoopThreadStep == OnOpen \/ OnEnd \/ NotifyClose

Next ==
    \/ \E u \in Users : UserStep(u) \/ Refuse(u) \/ \E c \in Calls : Call(u, c)
    \/ \E p \in Threads : LoopStep(p) \/ WakeUp(p) \/ ConnectStep(p)
    \/ ~Destroyed /\ (Resolve \/ HandshakeFails \/ Lose \/ LoopThreadStep)
    \/ Destroyed /\ UNCHANGED vars

Spec == Init /\ [][Next]_vars

\* The threads run, waits end, and handshakes have timeouts.  Nobody has to call,
\* no broker has to accept, and no session has to be lost.
Fairness ==
    /\ \A u \in Users : WF_vars(UserStep(u))
    /\ \A p \in Threads : WF_vars(LoopStep(p)) /\ WF_vars(WakeUp(p))
                             /\ WF_vars(ConnectStep(p))
    /\ WF_vars(~Destroyed /\ (Resolve \/ HandshakeFails))
    /\ WF_vars(~Destroyed /\ LoopThreadStep)
    /\ WF_vars(~Destroyed /\ Lose /\ session # "open" /\ session' = "over")

FairSpec == Spec /\ Fairness

-----------------------------------------------------------------------------
\* The type invariant.
TypeOK ==
    /\ state \in {"initialized", "connecting", "open", "closing", "closed"}
    /\ session \in {"none", "connecting", "open", "closing", "over"}
    /\ handler \in {"idle", "onOpen", "notifyClose"}
    /\ connection \in BOOLEAN /\ is_monitoring \in BOOLEAN /\ must_stop \in BOOLEAN
    /\ exception \in {"none"} \cup Exceptions
    /\ monitor_thread \in Tasks \cup {NoThread}
    /\ mutex \in Threads \cup {NoThread} /\ waiting \subseteq Threads
    /\ pc \in [Threads -> Pcs] /\ call \in [Users -> Calls \cup {"none"}]
    /\ limited \in [Threads -> BOOLEAN] /\ outcome \in Outcomes
    /\ life \in {"none", "started", "asked"} \cup Exceptions
    /\ raced \in BOOLEAN

\* Is the thread p in the loop of startMonitorTask()?
Looping(p) ==
    \/ pc[p] \in LoopPcs
    \/ pc[p] \in ConnectPcs /\ (p \in Tasks \/ call[p] = "monitor")

\* Where a thread can be in the call that it is in.
PcInv ==
    /\ \A t \in Tasks : pc[t] \in {"exited", "unlock"} \cup LoopPcs \cup ConnectPcs
    /\ \A u \in Users :
          /\ call[u] = "none" => pc[u] \in {"idle", "gone"}
          /\ call[u] = "connect" => pc[u] \in ConnectPcs
          /\ call[u] = "start" => pc[u] \in {"check", "set", "spawn"}
          /\ call[u] = "monitor" =>
                pc[u] \in {"check", "set", "unlock"} \cup LoopPcs \cup ConnectPcs
          /\ call[u] \in {"stop", "destroy"} =>
                pc[u] \in {"stop", "notify", "join", "rethrow"}

\* Calls of two users meet only as Legal says.
Together(u, w) ==
    \/ call[u] \in Starts /\ call[w] \in Starts
    \/ call[u] = "stop" /\ call[w] = "monitor"
    \/ call[u] = "monitor" /\ call[w] = "stop"

CallInv ==
    /\ \A u, w \in Users :
          u # w /\ call[u] # "none" /\ call[w] # "none" => Together(u, w)
    /\ Destroyed => \A u \in Users : call[u] = "none"

\* The mutex belongs to the task, except while it starts or waits.
LockInv ==
    \A p \in Threads :
       mutex = p <=> \/ pc[p] = "unlock"
                     \/ Looping(p) /\ pc[p] \notin {"begin", "lock", "asleep"}

\* Without a race, there is one task, known to is_monitoring_ and monitor_thread_
\* until its end, or one call about to begin it.
TaskInv ==
    /\ \A p \in Threads : Looping(p) =>
          is_monitoring /\ life # "none" /\ (p \in Tasks => monitor_thread = p)
    /\ \A p, q \in Threads : Looping(p) /\ Looping(q) => p = q
    /\ \A u, w \in Users :
          pc[u] \in {"set", "spawn"} /\ pc[w] \in {"set", "spawn", "unlock"} => u = w
    /\ \A u \in Users :
          /\ pc[u] \in {"set", "unlock"} => ~is_monitoring
          /\ pc[u] = "spawn" =>
                is_monitoring /\ life # "none" /\ \A p \in Threads : ~Looping(p)
          /\ pc[u] \in {"rethrow", "gone"} => \A t \in Tasks : ~Looping(t)
          /\ call[u] = "connect" => life = "none"

\* What is stored is what ended the monitor, once the task has begun.
ExceptionInv ==
    /\ life \in Exceptions => exception = life
    /\ \A p \in Threads :
          pc[p] \in {"spawn", "begin"} => life \in {"started", "asked"}
    /\ (\A p \in Threads : pc[p] \notin {"spawn", "begin"}) =>
          (life \in {"started", "asked"} => exception = "none")

\* The inductive invariant, with TypeOK.
IndInv == PcInv /\ CallInv /\ LockInv /\ (~raced => TaskInv /\ ExceptionInv)

\* What TLC explores where every property is premised on it.
NoRace == ~raced

\* "Note that startMonitoring simply returns in case of multiple calls.  It is safe
\* to call startMonitoring in a multithreading context" (connector_base.hpp:133-137):
\* so there is never a second task.  But is_monitoring_ is tested and set in two
\* steps (connector_base.cc:241-242); the first of two tasks is then detached by
\* the assignment of monitor_thread_, and nobody joins it.
OneTask == \A p, q \in Threads : Looping(p) /\ Looping(q) => p = q

\* "this function is not thread safe; it should not be called when the monitor
\* thread is executing" (connector_base.hpp:110-111): who calls connect() only
\* after stopMonitoring() has returned or thrown never meets the task inside
\* connect(), also when the task ended by itself, or was started twice, by
\* several users at a time, unless two of them raced (see OneTask).
OneConnector ==
    ~raced => \A p, q \in Threads :
                 pc[p] \in ConnectPcs /\ pc[q] \in ConnectPcs => p = q

\* When the destructor returns no task is left that could use the connector, unless
\* two calls raced to start one (see OneTask).  (A task that ended by itself is not
\* joined, and may still have to unlock the mutex.)
DestroyedQuiet ==
    Destroyed /\ ~raced => \A t \in Tasks : pc[t] \in {"exited", "unlock"}

\* "Rethrows a possible exception stored by the Monitoring Task"
\* (connector_base.hpp:168-169): what stopMonitoring() or monitorConnection()
\* ends with is what ended the monitor started last, no older exception, and none
\* lost however the end of the task and the call interleave, unless two calls
\* raced to start one.  (With monitorConnection() stopped by another thread neither
\* may throw, as the comment at connector_base.cc:277-279 accepts.)
ExceptionDelivered ==
    [][\A u \in Users :
          ~raced /\ call[u] \in {"stop", "monitor"} /\ pc[u] \in {"rethrow", "unlock"}
             /\ (\A w \in Users \ {u} : call[w] # "monitor")
             /\ (call[u] = "monitor" => ~must_stop) /\ pc'[u] = "idle"
          => /\ life \in Exceptions => outcome' = life
             /\ life \in {"started", "asked"} => outcome' = "ok"]_vars

\* connect_() has thrown (finding of Connection): no reconnection is possible.
Stuck ==
    state = "connecting" /\ session = "none" /\ \A p \in Threads : pc[p] # "get"

\* From some time on handshakes succeed, and a session is not lost while somebody
\* waits for it to open; no two calls ever raced to start a task.
Undisturbed ==
    /\ []~Stuck /\ []~raced
    /\ <>[][~HandshakeFails /\ (\A p \in Threads : pc[p] \in ConnectPcs
                                   => ~(Lose /\ session = "open"))]_vars

\* stopMonitoring() and the destructor return, though the notification may come
\* before the wait and the task may be in connect(0): the check interval and an
\* open connection end both.
StopReturns ==
    Undisturbed => \A u \in Users :
        call[u] \in {"stop", "destroy"} ~> call[u] = "none"

\* "periodically check the state of the underlying connection and re-establish it
\* in case it has dropped" (connector_base.hpp:124-126): while a monitor runs, a
\* closed connection is opened again, unless the monitor ends, even if the
\* notification of the close is lost.
Reestablished ==
    Undisturbed => \A p \in Threads :
        (state = "closed" /\ pc[p] \in {"sleep", "asleep"})
            ~> (state = "open" \/ pc[p] = "end" \/ Destroyed)

\* A task that nobody has asked to stop "will periodically check the state of the
\* underlying connection" (connector_base.hpp:124-125): it ends only by an
\* exception or because it was asked to since it was started.
EndsForAReason ==
    \A p \in Threads : pc[p] = "end" => life \in {"asked"} \cup Exceptions
=============================================================================
