----------------------------- MODULE Connection -----------------------------
(***************************************************************************)
(* PCPClient::Connection (lib/src/connector/connection.cc): the object     *)
(* that owns the WebSocket of a PCP client.  Three kinds of thread meet    *)
(* in it:                                                                  *)
(*   - the Connector thread calls connect() and, in the end, runs the      *)
(*     destructor;                                                         *)
(*   - the Callers call close() and ping();                                *)
(*   - the event Loop runs the websocketpp endpoint and the handlers       *)
(*     (onOpen, onClose, onFail, onPong, onPongTimeout).                   *)
(* They share the atomic connection_state, the handle of the WebSocket     *)
(* session, the pong timeout counter, state_mutex and the mutex and        *)
(* condition variable of onOpen.  One step of the model is the code        *)
(* between two accesses to that shared state.                              *)
(*                                                                         *)
(* websocketpp 0.8.2 is external.  A session is a websocketpp connection   *)
(* object; sess[s] is its m_state, except that the terminated object is    *)
(* "failed" or "ended" until its fail or close handler has started, and    *)
(* "none" afterwards.                                                      *)
(***************************************************************************)
EXTENDS Naturals

CONSTANTS
    Connector,      \* the thread that calls connect() and the destructor
    Callers,        \* the threads that call close() and ping()
    Loop,           \* the event loop thread
    NoThread,       \* the owner of a free mutex
    Sessions,       \* the connection objects that may exist at the same time
    NoSession,      \* an empty connection handle
    NBrokers,       \* the size of broker_ws_uris_
    Reachable,      \* the brokers that complete every opening handshake
    Misconfigured,  \* the brokers get_connection may fail for (URI, TLS files)
    SlowHandshakes, \* may a handshake outlast the wait of cleanUp()?
    PongThreshold,  \* pong_timeouts_before_retry
    MaxAttempts     \* the arguments connect() is called with; 0 is "no limit"

Threads == Callers \cup {Connector, Loop}
Brokers == 0 .. NBrokers - 1

ASSUME ThreadsAssumption ==
    /\ Connector # Loop
    /\ Connector \notin Callers /\ Loop \notin Callers
    /\ NoThread \notin Threads

ASSUME SessionsAssumption == NoSession \notin Sessions

ASSUME ConfigAssumption ==
    /\ NBrokers \in Nat \ {0}
    /\ Reachable \subseteq Brokers
    /\ Misconfigured \subseteq Brokers
    /\ SlowHandshakes \in BOOLEAN
    /\ PongThreshold \in Nat
    /\ MaxAttempts \subseteq Nat

VARIABLES
    connection_state,   \* the atomic connection_state_
    connection_handle,  \* connection_handle_: a session or NoSession
    target_index,       \* connection_target_index_ modulo NBrokers
    backoff_ms,         \* connection_backoff_ms_
    pong_timeouts,      \* consecutive_pong_timeouts_, capped at PongThreshold
    state_mutex,        \* the owner of state_mutex_
    onOpen_mtx,         \* the owner of onOpen_mtx
    waiting,            \* is the connector in the wait set of onOpen_cv?
    pc,                 \* where each thread is
    call,               \* the locals of the connector's connect() call
    resume,             \* where the connector goes on after tryClose()
    sess,               \* the websocketpp state of each session
    peer,               \* the broker each session was created for
    timer,              \* is the session's pong timer armed?
    current,            \* the session whose onOpen, onClose or onFail runs
    aborted             \* did an exception leave the event loop thread?

env     == <<sess, peer, timer, current>>
locals  == <<call, resume>>
opening == <<onOpen_mtx, waiting>>
config  == <<target_index, backoff_ms>>
vars == <<connection_state, connection_handle, pong_timeouts, state_mutex, pc,
          aborted, env, locals, opening, config>>

States == {"initialized", "connecting", "open", "closing", "closed"}

SessionStates == {"none", "connecting", "open", "closing", "failed", "ended"}

ClosePcs     == {"close.lock", "close.send", "close.set"}
CallPcs      == {"head", "connect", "get", "wait", "block", "blocked",
                 "after", "fatal"}
DestroyPcs   == {"cleanUp", "drain", "check", "linger", "stop", "join",
                 "destroyed"}
ConnectorPcs == {"idle"} \cup CallPcs \cup ClosePcs \cup DestroyPcs
CallerPcs    == {"idle"} \cup ClosePcs
LoopPcs      == {"idle", "onOpen", "onOpen.set", "onOpen.notify", "onEnd",
                 "onEnd.callback", "exited"} \cup ClosePcs

Backoff0      == 2000     \* CONNECTION_BACKOFF_MS
BackoffLimit  == 33000    \* CONNECTION_BACKOFF_LIMIT_MS
BackoffFactor == 2        \* CONNECTION_BACKOFF_MULTIPLIER

\* The sessions whose end the handlers have not reported yet.
Live == {s \in Sessions : sess[s] # "none"}

Destroying == pc[Connector] \in DestroyPcs
                \/ pc[Connector] \in ClosePcs

Calls == [max : Nat, idx : Nat, prev : States, again : BOOLEAN,
          maxed : BOOLEAN, mode : {"initialized", "first", "retry"},
          tried : 0 .. NBrokers]

NoCall == [max |-> 0, idx |-> 0, prev |-> "initialized", again |-> TRUE,
           maxed |-> FALSE, mode |-> "first", tried |-> NBrokers]

Goto(t, l) == pc' = [pc EXCEPT ![t] = l]
At(t, l)   == pc[t] = l

Init ==
    /\ connection_state = "initialized"
    /\ connection_handle = NoSession
    /\ target_index = 0
    /\ backoff_ms = Backoff0
    /\ pong_timeouts = 0
    /\ state_mutex = NoThread
    /\ onOpen_mtx = NoThread
    /\ waiting = FALSE
    /\ pc = [t \in Threads |-> "idle"]
    /\ call = NoCall
    /\ resume = "stop"
    /\ sess = [s \in Sessions |-> "none"]
    /\ peer = [s \in Sessions |-> 0]
    /\ timer = [s \in Sessions |-> FALSE]
    /\ current = NoSession
    /\ aborted = FALSE

-----------------------------------------------------------------------------
(* connect(), run by the connector.                                        *)

StartConnect ==
    /\ At(Connector, "idle")
    /\ \E max \in MaxAttempts :
          call' = [NoCall EXCEPT !.max = max, !.prev = connection_state]
    /\ Goto(Connector, "head")
    /\ UNCHANGED <<connection_state, connection_handle, pong_timeouts,
                   state_mutex, aborted, env, resume, opening, config>>

\* The head of the do loop: count the attempt and note a backoff at its limit.
\* idx is counted only when it is compared with a limit.
NextIteration ==
    LET idx == IF call.max = 0 THEN 0 ELSE call.idx + 1
    IN  [call EXCEPT !.idx   = idx,
                     !.again = call.max = 0 \/ idx < call.max,
                     !.maxed = call.maxed
                                 \/ backoff_ms * BackoffFactor >= BackoffLimit]

\* The test of the do loop: another iteration, or connection_fatal_error.
LoopTest(again) == IF again THEN "head" ELSE "fatal"

HeadUnchanged == UNCHANGED <<connection_state, connection_handle, pong_timeouts,
                             state_mutex, aborted, env, resume, opening>>

HeadInitialized ==
    /\ At(Connector, "head") /\ connection_state = "initialized"
    /\ call' = [NextIteration EXCEPT !.mode = "initialized"]
    /\ Goto(Connector, "connect")
    /\ UNCHANGED config /\ HeadUnchanged

\* Poll: an iteration, hence an attempt, is spent on every sleep of 200 ms.
HeadPending ==
    /\ At(Connector, "head") /\ connection_state \in {"connecting", "closing"}
    /\ call' = [NextIteration EXCEPT !.prev = connection_state]
    /\ Goto(Connector, LoopTest(NextIteration.again))
    /\ UNCHANGED config /\ HeadUnchanged

HeadOpen ==
    /\ At(Connector, "head") /\ connection_state = "open"
    /\ backoff_ms' = IF call.prev # "open" THEN Backoff0 ELSE backoff_ms
    /\ call' = NoCall
    /\ Goto(Connector, "idle")
    /\ UNCHANGED target_index /\ HeadUnchanged

\* Mutant of HeadClosedFirst: previous_c_s stays 'closed'.
HeadClosedForgets ==
    /\ At(Connector, "head") /\ connection_state = "closed"
    /\ call.prev = "closed"
    /\ call' = [NextIteration EXCEPT !.mode = "first"]
    /\ Goto(Connector, "connect")
    /\ UNCHANGED config /\ HeadUnchanged

HeadClosedFirst ==
    /\ At(Connector, "head") /\ connection_state = "closed"
    /\ call.prev = "closed"
    /\ call' = [NextIteration EXCEPT !.prev = "connecting", !.mode = "first"]
    /\ Goto(Connector, "connect")
    /\ UNCHANGED config /\ HeadUnchanged

\* Mutant of SwitchWsUri: the index is not taken modulo the number of brokers.
SwitchPastEnd == target_index' = target_index + 1

\* switchWsUri(), then the backoff sleep; the attempt itself is a later step.
SwitchWsUri == target_index' = (target_index + 1) % NBrokers

HeadClosedRetry ==
    /\ At(Connector, "head") /\ connection_state = "closed"
    /\ call.prev # "closed"
    /\ SwitchWsUri
    /\ call' = [NextIteration EXCEPT !.mode = "retry"]
    /\ Goto(Connector, "connect")
    /\ UNCHANGED backoff_ms /\ HeadUnchanged

Head == \/ HeadInitialized \/ HeadPending \/ HeadOpen
        \/ HeadClosedFirst \/ HeadClosedRetry

\* connect_(): the state is set before anything that may fail.
SetConnecting ==
    /\ At(Connector, "connect")
    /\ connection_state' = "connecting"
    /\ Goto(Connector, "get")
    /\ UNCHANGED <<connection_handle, pong_timeouts, state_mutex, aborted,
                   env, locals, opening, config>>

\* connect_(): a connection object is created, its handle stored and its
\* opening handshake started.  No other thread can tell these apart: until the
\* loop has finished the handshake the session refuses close() and ping().
GetConnection ==
    /\ At(Connector, "get")
    /\ \E s \in Sessions :
          /\ sess[s] = "none" /\ ~timer[s]
          /\ sess' = [sess EXCEPT ![s] = "connecting"]
          /\ peer' = [peer EXCEPT ![s] = target_index]
          /\ connection_handle' = s
    /\ call' = [call EXCEPT !.tried = target_index]
    /\ Goto(Connector, "wait")
    /\ UNCHANGED <<connection_state, pong_timeouts, state_mutex, aborted,
                   timer, current, resume, opening, config>>

\* connect_() throws connection_processing_error (URI) or, from onTlsInit, which
\* loads the TLS files for every attempt, connection_config_error; connect() does
\* not catch either.
GetConnectionFails ==
    /\ At(Connector, "get")
    /\ target_index \in Misconfigured
    /\ call' = NoCall
    /\ Goto(Connector, "idle")
    /\ UNCHANGED <<connection_state, connection_handle, pong_timeouts,
                   state_mutex, aborted, env, resume, opening, config>>

\* connectAndWait(): onOpen_mtx is taken and the predicate evaluated; unless
\* it holds the mutex is kept until the wait begins.
WaitPredicate ==
    /\ At(Connector, "wait")
    /\ onOpen_mtx = NoThread
    /\ IF connection_state = "open"
       THEN /\ Goto(Connector, "after")
            /\ UNCHANGED onOpen_mtx
       ELSE /\ Goto(Connector, "block")
            /\ onOpen_mtx' = Connector
    /\ UNCHANGED <<connection_state, connection_handle, pong_timeouts,
                   state_mutex, aborted, env, locals, waiting, config>>

Block ==
    /\ At(Connector, "block")
    /\ onOpen_mtx' = NoThread
    /\ waiting' = TRUE
    /\ Goto(Connector, "blocked")
    /\ UNCHANGED <<connection_state, connection_handle, pong_timeouts,
                   state_mutex, aborted, env, locals, config>>

WakeUp ==
    /\ At(Connector, "blocked") /\ ~waiting
    /\ Goto(Connector, "wait")
    /\ UNCHANGED <<connection_state, connection_handle, pong_timeouts,
                   state_mutex, aborted, env, locals, opening, config>>

\* Mutant of WaitTimeout: wait() instead of wait_for().
WaitUntilOpen ==
    /\ At(Connector, "blocked") /\ waiting
    /\ onOpen_mtx = NoThread /\ connection_state = "open"
    /\ waiting' = FALSE
    /\ Goto(Connector, "after")
    /\ UNCHANGED <<connection_state, connection_handle, pong_timeouts,
                   state_mutex, aborted, env, locals, onOpen_mtx, config>>

\* Mutant of WaitTimeout: an attempt that timed out is taken for closed.
WaitGivesUp ==
    /\ At(Connector, "blocked") /\ waiting
    /\ onOpen_mtx = NoThread
    /\ waiting' = FALSE
    /\ connection_state' = "closed"
    /\ Goto(Connector, "after")
    /\ UNCHANGED <<connection_handle, pong_timeouts, state_mutex, aborted, env,
                   locals, onOpen_mtx, config>>

\* ws_connection_timeout_ms elapsed: wait_for returns whatever the state is.
WaitTimeout ==
    /\ At(Connector, "blocked") /\ waiting
    /\ onOpen_mtx = NoThread
    /\ waiting' = FALSE
    /\ Goto(Connector, "after")
    /\ UNCHANGED <<connection_state, connection_handle, pong_timeouts,
                   state_mutex, aborted, env, locals, onOpen_mtx, config>>

AfterUnchanged == UNCHANGED <<connection_state, connection_handle,
                              pong_timeouts, state_mutex, aborted, env, resume,
                              opening, target_index>>

\* After connectAndWait(): only the branch of the state 'initialized' looks
\* whether the attempt succeeded before the loop is tested.
AfterInitialized ==
    /\ At(Connector, "after") /\ call.mode = "initialized"
    /\ IF connection_state = "open"
       THEN Goto(Connector, "idle") /\ call' = NoCall
       ELSE Goto(Connector, LoopTest(call.again)) /\ UNCHANGED call
    /\ UNCHANGED backoff_ms /\ AfterUnchanged

AfterFirst ==
    /\ At(Connector, "after") /\ call.mode = "first"
    /\ Goto(Connector, LoopTest(call.again))
    /\ UNCHANGED <<call, backoff_ms>> /\ AfterUnchanged

\* Mutant of AfterRetry: got_max_backoff is not looked at.
AfterRetryUnbounded ==
    /\ At(Connector, "after") /\ call.mode = "retry"
    /\ backoff_ms' = IF call.again THEN backoff_ms * BackoffFactor
                                   ELSE backoff_ms
    /\ Goto(Connector, LoopTest(call.again))
    /\ UNCHANGED call /\ AfterUnchanged

\* dist(engine) / 1000 is an integer division of a number in -500 .. 500,
\* hence 0: the backoff exactly doubles.
AfterRetry ==
    /\ At(Connector, "after") /\ call.mode = "retry"
    /\ backoff_ms' = IF call.again /\ ~call.maxed
                     THEN backoff_ms * BackoffFactor ELSE backoff_ms
    /\ Goto(Connector, LoopTest(call.again))
    /\ UNCHANGED call /\ AfterUnchanged

After == AfterInitialized \/ AfterFirst \/ AfterRetry

\* The loop is over: reset the backoff and throw connection_fatal_error.
Fatal ==
    /\ At(Connector, "fatal")
    /\ backoff_ms' = Backoff0
    /\ call' = NoCall
    /\ Goto(Connector, "idle")
    /\ AfterUnchanged

ConnectStep ==
    \/ Head \/ SetConnecting \/ GetConnection \/ GetConnectionFails
    \/ WaitPredicate \/ Block \/ WakeUp \/ WaitTimeout \/ After \/ Fatal

-----------------------------------------------------------------------------
(* close(), called by a Caller, by a handler of the Loop, and through      *)
(* tryClose() by the destructor.                                           *)

CloseUnchanged == UNCHANGED <<connection_handle, pong_timeouts, peer, timer,
                              call, resume, opening, config>>

\* Where close() returns to, or throws to: tryClose() swallows the error, a
\* caller handles it, but no handler of the event loop catches it.
Returned(t) == IF t = Connector THEN resume ELSE "idle"

CloseReturns(t) ==
    /\ Goto(t, Returned(t))
    /\ current' = IF t = Loop THEN NoSession ELSE current
    /\ UNCHANGED aborted

CloseThrows(t) ==
    /\ Goto(t, Returned(t))
    /\ aborted' = (t = Loop)
    /\ UNCHANGED current

StartClose(t) ==
    /\ t \in Callers /\ At(t, "idle") /\ ~Destroying
    /\ Goto(t, "close.lock")
    /\ UNCHANGED <<connection_state, state_mutex, aborted, sess, current>>
    /\ CloseUnchanged

\* Take state_mutex and load the state.
CloseLock(t) ==
    /\ At(t, "close.lock") /\ state_mutex = NoThread
    /\ IF connection_state = "closed"
       THEN CloseReturns(t) /\ UNCHANGED state_mutex
       ELSE /\ Goto(t, "close.send")
            /\ state_mutex' = t
            /\ UNCHANGED <<aborted, current>>
    /\ UNCHANGED <<connection_state, sess>> /\ CloseUnchanged

\* Mutant of CloseSend: the error code is ignored.
CloseSendUnchecked(t) ==
    /\ At(t, "close.send")
    /\ sess' = IF /\ connection_handle # NoSession
                  /\ sess[connection_handle] = "open"
               THEN [sess EXCEPT ![connection_handle] = "closing"] ELSE sess
    /\ Goto(t, "close.set")
    /\ UNCHANGED <<connection_state, state_mutex, aborted, current>>
    /\ CloseUnchanged

\* Mutant of CloseSend: the error is thrown without releasing state_mutex.
CloseSendKeepsLock(t) ==
    /\ At(t, "close.send")
    /\ IF connection_handle # NoSession /\ sess[connection_handle] = "open"
       THEN /\ sess' = [sess EXCEPT ![connection_handle] = "closing"]
            /\ Goto(t, "close.set")
            /\ UNCHANGED <<aborted, current>>
       ELSE CloseThrows(t) /\ UNCHANGED sess
    /\ UNCHANGED <<connection_state, state_mutex>> /\ CloseUnchanged

\* endpoint_->close(): websocketpp refuses unless the session is open.
CloseSend(t) ==
    /\ At(t, "close.send")
    /\ IF connection_handle # NoSession /\ sess[connection_handle] = "open"
       THEN /\ sess' = [sess EXCEPT ![connection_handle] = "closing"]
            /\ Goto(t, "close.set")
            /\ UNCHANGED <<state_mutex, aborted, current>>
       ELSE /\ CloseThrows(t)
            /\ state_mutex' = NoThread
            /\ UNCHANGED sess
    /\ UNCHANGED connection_state /\ CloseUnchanged

CloseSet(t) ==
    /\ At(t, "close.set")
    /\ connection_state' = "closing"
    /\ state_mutex' = NoThread
    /\ CloseReturns(t)
    /\ UNCHANGED sess /\ CloseUnchanged

CloseStep(t) == CloseLock(t) \/ CloseSend(t) \/ CloseSet(t)

\* ping(): a session that is open arms, or arms again, its pong timer.
Ping(t) ==
    /\ t \in Callers /\ At(t, "idle") /\ ~Destroying
    /\ connection_handle # NoSession /\ sess[connection_handle] = "open"
    /\ timer' = [timer EXCEPT ![connection_handle] = TRUE]
    /\ UNCHANGED <<connection_state, connection_handle, pong_timeouts,
                   state_mutex, pc, aborted, sess, peer, current, locals,
                   opening, config>>

-----------------------------------------------------------------------------
(* The event loop.  It takes the next event only when no handler runs.     *)

EventUnchanged == UNCHANGED <<connection_state, connection_handle, state_mutex,
                              aborted, peer, locals, opening, config>>

\* The opening handshake succeeds and the open handler is called.
Establish(s) ==
    /\ At(Loop, "idle") /\ sess[s] = "connecting"
    /\ sess' = [sess EXCEPT ![s] = "open"]
    /\ current' = s
    /\ Goto(Loop, "onOpen")
    /\ UNCHANGED <<pong_timeouts, timer>> /\ EventUnchanged

\* The opening handshake is refused, breaks or times out.
HandshakeFails(s) ==
    /\ At(Loop, "idle") /\ sess[s] = "connecting" /\ peer[s] \notin Reachable
    /\ sess' = [sess EXCEPT ![s] = "failed"]
    /\ UNCHANGED <<pong_timeouts, timer, current, pc>> /\ EventUnchanged

\* A close frame of the broker is acknowledged; no handler is told.
PeerCloses(s) ==
    /\ At(Loop, "idle") /\ sess[s] = "open"
    /\ sess' = [sess EXCEPT ![s] = "closing"]
    /\ UNCHANGED <<pong_timeouts, timer, current, pc>> /\ EventUnchanged

\* The TCP connection of an open session is lost.
Drop(s) ==
    /\ At(Loop, "idle") /\ sess[s] = "open"
    /\ sess' = [sess EXCEPT ![s] = "ended"]
    /\ UNCHANGED <<pong_timeouts, timer, current, pc>> /\ EventUnchanged

\* The closing handshake ends: end of file, error or its own timeout.
CloseHandshakeEnds(s) ==
    /\ At(Loop, "idle") /\ sess[s] = "closing"
    /\ sess' = [sess EXCEPT ![s] = "ended"]
    /\ UNCHANGED <<pong_timeouts, timer, current, pc>> /\ EventUnchanged

\* The socket is shut down and the close or fail handler is called.
Terminated(s) ==
    /\ At(Loop, "idle") /\ sess[s] \in {"failed", "ended"}
    /\ current' = s
    /\ Goto(Loop, "onEnd")
    /\ UNCHANGED <<pong_timeouts, sess, timer>> /\ EventUnchanged

\* onPong: the library cancels the pong timer after the handler.
OnPong(s) ==
    /\ At(Loop, "idle") /\ sess[s] = "open"
    /\ pong_timeouts' = 0
    /\ timer' = [timer EXCEPT ![s] = FALSE]
    /\ UNCHANGED <<sess, current, pc>> /\ EventUnchanged

\* onPongTimeout.  The timer outlives its session: termination does not
\* cancel it.  close() is about connection_handle, whatever session that is.
OnPongTimeout(s) ==
    /\ At(Loop, "idle") /\ timer[s]
    /\ timer' = [timer EXCEPT ![s] = FALSE]
    /\ pong_timeouts' = IF pong_timeouts < PongThreshold
                        THEN pong_timeouts + 1 ELSE pong_timeouts
    /\ Goto(Loop, IF pong_timeouts' >= PongThreshold THEN "close.lock"
                                                     ELSE "idle")
    /\ UNCHANGED <<sess, current>> /\ EventUnchanged

HandlerUnchanged == UNCHANGED <<connection_handle, pong_timeouts, sess, peer,
                                timer, locals, config>>

\* onOpen: the lock_guard is a temporary, onOpen_mtx is taken and released
\* before the state is set.
OnOpenLock ==
    /\ At(Loop, "onOpen") /\ onOpen_mtx = NoThread
    /\ Goto(Loop, "onOpen.set")
    /\ UNCHANGED <<connection_state, state_mutex, aborted, current, opening>>
    /\ HandlerUnchanged

OnOpenSet ==
    /\ At(Loop, "onOpen.set")
    /\ connection_state' = "open"
    /\ Goto(Loop, "onOpen.notify")
    /\ UNCHANGED <<state_mutex, aborted, current, opening>>
    /\ HandlerUnchanged

\* notify_one, then the open callback; when that throws the connection is
\* closed, outside of the try block.
OnOpenNotify ==
    /\ At(Loop, "onOpen.notify")
    /\ waiting' = FALSE
    /\ \/ Goto(Loop, "idle") /\ current' = NoSession
       \/ Goto(Loop, "close.lock") /\ UNCHANGED current
    /\ UNCHANGED <<connection_state, state_mutex, aborted, onOpen_mtx>>
    /\ HandlerUnchanged

\* Mutant of OnEnd: without state_mutex (the callback returns at once).
OnEndUnlocked ==
    /\ At(Loop, "onEnd")
    /\ connection_state' = "closed"
    /\ sess' = [sess EXCEPT ![current] = "none"]
    /\ current' = NoSession
    /\ Goto(Loop, "idle")
    /\ UNCHANGED <<connection_handle, pong_timeouts, state_mutex, aborted, peer,
                   timer, locals, opening, config>>

\* Mutant of OnEnd: a connection that is 'closing' is left to close().
OnEndLeavesClosing ==
    /\ At(Loop, "onEnd") /\ state_mutex = NoThread
    /\ state_mutex' = Loop
    /\ connection_state' = IF connection_state = "closing" THEN "closing"
                                                          ELSE "closed"
    /\ sess' = [sess EXCEPT ![current] = "none"]
    /\ Goto(Loop, "onEnd.callback")
    /\ UNCHANGED <<connection_handle, pong_timeouts, aborted, peer, timer,
                   current, locals, opening, config>>

\* onClose and onFail: the state is set and the callback runs under state_mutex.
OnEnd ==
    /\ At(Loop, "onEnd") /\ state_mutex = NoThread
    /\ state_mutex' = Loop
    /\ connection_state' = "closed"
    /\ sess' = [sess EXCEPT ![current] = "none"]
    /\ Goto(Loop, "onEnd.callback")
    /\ UNCHANGED <<connection_handle, pong_timeouts, aborted, peer, timer,
                   current, locals, opening, config>>

OnEndCallback ==
    /\ At(Loop, "onEnd.callback")
    /\ state_mutex' = NoThread
    /\ current' = NoSession
    /\ Goto(Loop, "idle")
    /\ UNCHANGED <<connection_state, aborted, opening>> /\ HandlerUnchanged

HandlerStep == OnOpenLock \/ OnOpenSet \/ OnOpenNotify \/ OnEnd \/ OnEndCallback

\* run() returns once the endpoint is not perpetual and nothing is pending.
LoopExits ==
    /\ At(Loop, "idle") /\ At(Connector, "join")
    /\ Live = {} /\ \A s \in Sessions : ~timer[s]
    /\ Goto(Loop, "exited")
    /\ UNCHANGED <<connection_state, state_mutex, aborted, current, opening>>
    /\ HandlerUnchanged

SessionEvent(s) ==
    \/ Establish(s) \/ HandshakeFails(s) \/ PeerCloses(s) \/ Drop(s)
    \/ CloseHandshakeEnds(s) \/ Terminated(s) \/ OnPong(s) \/ OnPongTimeout(s)

-----------------------------------------------------------------------------
(* The destructor: cleanUp(), run by the connector when no call is active. *)

DestroyUnchanged == UNCHANGED <<connection_state, connection_handle,
                                pong_timeouts, state_mutex, aborted, env, call,
                                opening, config>>

StartDestroy ==
    /\ At(Connector, "idle") /\ \A t \in Callers : At(t, "idle")
    /\ Goto(Connector, "cleanUp")
    /\ UNCHANGED resume /\ DestroyUnchanged

\* Mutant of CleanUp: an open connection is not closed.
CleanUpKeepsOpen ==
    /\ At(Connector, "cleanUp")
    /\ \/ /\ connection_state # "connecting"
          /\ Goto(Connector, "drain") /\ UNCHANGED resume
       \/ /\ connection_state = "connecting"
          /\ Goto(Connector, "close.lock") /\ resume' = "check"
    /\ DestroyUnchanged

\* What cleanUp() does first, and where it goes on after its tryClose().
CleanUp ==
    /\ At(Connector, "cleanUp")
    /\ \/ /\ connection_state \in {"closed", "initialized"}
          /\ Goto(Connector, "stop") /\ UNCHANGED resume
       \/ /\ connection_state = "open"
          /\ Goto(Connector, "close.lock") /\ resume' = "drain"
       \/ /\ connection_state = "closing"
          /\ Goto(Connector, "drain") /\ UNCHANGED resume
       \/ /\ connection_state = "connecting"
          /\ Goto(Connector, "close.lock") /\ resume' = "check"
    /\ DestroyUnchanged

\* Sleep while the state is 'closing', for two seconds at most.
Drain ==
    /\ At(Connector, "drain")
    /\ Goto(Connector, "stop")
    /\ UNCHANGED resume /\ DestroyUnchanged

Check ==
    /\ At(Connector, "check")
    /\ Goto(Connector, IF connection_state = "closed" THEN "stop" ELSE "linger")
    /\ UNCHANGED resume /\ DestroyUnchanged

\* Sleep while the state is 'connecting', for max(5000, ws_connection_timeout)
\* ms at most, and try again.  A session that is still connecting outlasts the
\* wait only if handshakes may be slow: name resolution, TCP connect and the
\* TLS handshake have timeouts of their own, added to that of the WebSocket.
Linger ==
    /\ At(Connector, "linger")
    /\ connection_state # "connecting" \/ Live = {} \/ SlowHandshakes
    /\ Goto(Connector, "close.lock") /\ resume' = "stop"
    /\ DestroyUnchanged

StopPerpetual ==
    /\ At(Connector, "stop")
    /\ Goto(Connector, "join")
    /\ UNCHANGED resume /\ DestroyUnchanged

\* Mutant of Join: the event loop thread is detached.
JoinDetached ==
    /\ At(Connector, "join")
    /\ Goto(Connector, "destroyed")
    /\ UNCHANGED resume /\ DestroyUnchanged

Join ==
    /\ At(Connector, "join") /\ At(Loop, "exited")
    /\ Goto(Connector, "destroyed")
    /\ UNCHANGED resume /\ DestroyUnchanged

DestroyStep == CleanUp \/ Drain \/ Check \/ Linger \/ StopPerpetual \/ Join

-----------------------------------------------------------------------------
\* The object is gone, or std::terminate has ended the process.
Over == aborted \/ At(Connector, "destroyed")

Finished == Over /\ UNCHANGED vars

Step ==
    \/ StartConnect \/ ConnectStep \/ StartDestroy \/ DestroyStep
    \/ \E t \in Callers : StartClose(t) \/ Ping(t)
    \/ \E t \in Threads : CloseStep(t)
    \/ \E s \in Sessions : SessionEvent(s)
    \/ HandlerStep \/ LoopExits

Next == (~aborted /\ Step) \/ Finished

Spec == Init /\ [][Next]_vars
-----------------------------------------------------------------------------
(* Fairness: the threads run, the socket layer answers or its timers do.   *)
(* Nothing is assumed of the network (PeerCloses, Drop, pongs), and nobody *)
(* has to start a call.  A thread that waits for state_mutex gets it if it *)
(* is released again and again: callers do not close() in a tight loop.    *)

Fairness ==
    /\ WF_vars(~aborted /\ ConnectStep)
    /\ WF_vars(~aborted /\ DestroyStep)
    /\ \A t \in Threads : /\ WF_vars(~aborted /\ CloseStep(t))
                          /\ SF_vars(~aborted /\ CloseLock(t))
    /\ WF_vars(~aborted /\ HandlerStep) /\ SF_vars(~aborted /\ OnEnd)
    /\ WF_vars(~aborted /\ LoopExits)
    /\ \A s \in Sessions :
          /\ WF_vars(~aborted /\ (Establish(s) \/ HandshakeFails(s)))
          /\ WF_vars(~aborted /\ CloseHandshakeEnds(s))
          /\ WF_vars(~aborted /\ Terminated(s))
          /\ WF_vars(~aborted /\ OnPongTimeout(s))

FairSpec == Spec /\ Fairness

-----------------------------------------------------------------------------
\* The type invariant.
TypeOK ==
    /\ connection_state \in States
    /\ connection_handle \in Sessions \cup {NoSession}
    /\ target_index \in Brokers
    /\ backoff_ms \in Nat
    /\ pong_timeouts \in 0 .. PongThreshold
    /\ state_mutex \in Threads \cup {NoThread}
    /\ onOpen_mtx \in {Connector, NoThread}
    /\ waiting \in BOOLEAN
    /\ pc \in [Threads -> ConnectorPcs \cup LoopPcs]
    /\ pc[Connector] \in ConnectorPcs /\ pc[Loop] \in LoopPcs
    /\ \A t \in Callers : pc[t] \in CallerPcs
    /\ call \in Calls
    /\ resume \in {"drain", "check", "stop"}
    /\ sess \in [Sessions -> SessionStates]
    /\ peer \in [Sessions -> Brokers]
    /\ timer \in [Sessions -> BOOLEAN]
    /\ current \in Sessions \cup {NoSession}
    /\ aborted \in BOOLEAN

\* There is never more than one WebSocket session, and close(), ping() and
\* send(), which go through connection_handle_, address that one.
OneSession == \A s \in Live : connection_handle = s

\* What getConnectionState() reports and the session agree: nothing is left
\* of a session reported closed, and a connection reported open or closing has
\* a session whose handshake succeeded and whose end was not handled yet.
StateMatchesSession ==
    /\ connection_state \in {"initialized", "closed"} => Live = {}
    /\ connection_state \in {"open", "closing"} =>
          \E s \in Live : sess[s] \in {"open", "closing", "ended"}

\* The backoff is 2000 ms doubled at most four times, "up to a max of 32
\* seconds" (connection.cc:311), across any number of calls.
BackoffBounded == backoff_ms \in {2000, 4000, 8000, 16000, 32000}

\* Failover: within one call of connect() an attempt never goes to the broker
\* of the attempt before it, if there is another broker.
AttemptsRotate ==
    At(Connector, "get") /\ NBrokers > 1 => call.tried # target_index

\* The destructor returns only when nothing can call a handler any more: no
\* session, no pong timer, no event loop thread and no owner of a mutex.
DestroyedAlone ==
    At(Connector, "destroyed") =>
        /\ Live = {} /\ \A s \in Sessions : ~timer[s]
        /\ At(Loop, "exited")
        /\ \A t \in Callers : At(t, "idle")
        /\ state_mutex = NoThread /\ onOpen_mtx = NoThread

-----------------------------------------------------------------------------
(* The inductive invariant: why the properties above hold.                 *)

\* state_mutex is held exactly in close() and in onClose and onFail.
MutexInv ==
    \A t \in Threads :
        pc[t] \in {"close.send", "close.set", "onEnd.callback"}
            <=> state_mutex = t

\* A new session is only created when the one before it was handled; a handler
\* runs for the session it was called for, which nothing else ends; and close()
\* reports 'closing' before the end of the session can be reported, because both
\* happen under state_mutex.
SessionInv ==
    /\ OneSession
    /\ StateMatchesSession
    /\ At(Connector, "connect") =>
          connection_state \in {"initialized", "closed"}
    /\ At(Connector, "get") => connection_state = "connecting" /\ Live = {}
    /\ \A t \in Threads : At(t, "close.set") =>
          \E s \in Live : sess[s] \in {"closing", "ended"}
    /\ pc[Loop] \in {"onOpen", "onOpen.set"} =>
          current \in Sessions /\ sess[current] \in {"open", "closing"}
    /\ At(Loop, "onEnd") =>
          current \in Sessions /\ sess[current] \in {"failed", "ended"}

\* The backoff is only doubled in an iteration that has not seen its limit.
BackoffInv ==
    /\ BackoffBounded
    /\ pc[Connector] \in CallPcs \ {"head", "fatal"} /\ ~call.maxed =>
          backoff_ms <= 16000

\* Between two attempts of a call the target is the broker of the last one;
\* the first iteration that finds 'closed' again switches.  The assert in the
\* branch of 'initialized' (connection.cc:275) holds.
RotateInv ==
    /\ AttemptsRotate
    /\ call.prev = "closed" => call.tried = NBrokers
    /\ connection_state = "initialized" =>
          call.prev = "initialized" /\ call.tried = NBrokers
    /\ pc[Connector] \in {"connect", "get"} => call.prev # "closed"
    /\ At(Connector, "connect") /\ NBrokers > 1 => call.tried # target_index
    /\ pc[Connector] \notin {"connect", "get"} =>
          call.tried \in {NBrokers, target_index}

\* The destructor is alone once it has begun, and the event loop outlives
\* everything it serves.
DestroyInv ==
    /\ Destroying => \A t \in Callers : At(t, "idle")
    /\ At(Loop, "exited") =>
          /\ pc[Connector] \in {"join", "destroyed"}
          /\ Live = {} /\ \A s \in Sessions : ~timer[s]
    /\ At(Connector, "destroyed") => At(Loop, "exited")
    /\ onOpen_mtx = Connector => At(Connector, "block")

\* The inductive invariant that ConnectionProofs proves of every instance: it
\* implies each of the safety properties above.
IndInv == MutexInv /\ SessionInv /\ BackoffInv /\ RotateInv /\ DestroyInv

-----------------------------------------------------------------------------
\* The session connection_handle_ refers to, as ConnectionFSM sees it.
SessionStatus ==
    IF connection_handle = NoSession THEN "none"
    ELSE IF sess[connection_handle] \in {"failed", "ended"} THEN "over"
    ELSE sess[connection_handle]

FSM == INSTANCE ConnectionFSM
           WITH state <- connection_state, session <- SessionStatus

\* Connection implements ConnectionFSM: the reported state follows the session
\* and no attempt starts while there is one, whatever the threads do.
ImplementsFSM == FSM!FSMSpec

-----------------------------------------------------------------------------
\* The events that can undo or delay a connection attempt that succeeds.
Disturbance ==
    \/ \E t \in Callers : StartClose(t) \/ Ping(t)
    \/ \E s \in Sessions : PeerCloses(s) \/ Drop(s) \/ OnPongTimeout(s)
    \/ OnOpenNotify /\ pc'[Loop] = "close.lock"

\* connect(0) returns once the connection is left alone, provided that some
\* broker is reachable: polling, failover and backoff make progress.
ConnectReturns ==
    <>[][~Disturbance]_vars =>
        (pc[Connector] \in CallPcs ~> At(Connector, "idle") \/ aborted)

\* A connection that reports 'closing' eventually reports 'closed'; also when
\* the report of onOpen comes after that of close().
CloseCompletes ==
    connection_state = "closing" ~> connection_state = "closed" \/ aborted

\* The destructor returns.
DestructorReturns == At(Connector, "cleanUp") ~> Over

\* "after a connect_() call, it will become, eventually, open or closed"
\* (connection.cc:253-254).
ConnectingSettles ==
    connection_state = "connecting"
        ~> connection_state \in {"open", "closed"} \/ Over

\* connect() throws connection_fatal_error "in case it doesn't succeed after
\* max_connect_attempts attempts" (connection.hpp:140-141): a call whose attempt
\* has just opened the connection does not go on to throw.
NoFatalOnceOpen ==
    [][At(Connector, "after") /\ connection_state = "open"
          => pc'[Connector] # "fatal"]_vars

\* onOpen: "in case it fails, the exception is filtered and the connection is
\* closed" (connection.hpp:237-239): no exception of onOpen leaves the event
\* loop thread.
OnOpenFilters == aborted => current = NoSession
=============================================================================
