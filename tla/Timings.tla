------------------------------ MODULE Timings ------------------------------
(***************************************************************************)
(* ConnectionTimings and AssociationTimings (lib/src/connector/timings.cc) *)
(* as a v1 connector keeps them: plain members that connect(), close() and *)
(* the handlers of the event loop write, and that anybody may read.        *)
(*                                                                         *)
(* The Connection is represented by the variables of ConnectionFSM, and of *)
(* the association only what decides when a time is taken is kept (see     *)
(* Association for the rest).  Time passes between any two steps.          *)
(***************************************************************************)
EXTENDS Integers

CONSTANTS
    MaxTime,        \* the bound on the clock
    IntLimit        \* the first duration that does not fit in an int

ASSUME ClockAssumption == {MaxTime, IntLimit} \subseteq Nat \ {0}

VARIABLES
    now,
    state, session,     \* the Connection, as in ConnectionFSM
    handler,            \* where the event loop is
    pc,                 \* where connect() is
    answer,             \* what came of the associate request
    timings,            \* Connection::timings
    association         \* Connector::association_timings_

vars == <<now, state, session, handler, pc, answer, timings, association>>

Conn == INSTANCE ConnectionFSM

Epoch == 0      \* time_point()

-----------------------------------------------------------------------------
(* ConnectionTimings.                                                      *)

NewTimings(t) ==        \* reset(), and the constructor at the epoch
    [start |-> t, tcp_pre_init |-> Epoch, tcp_post_init |-> Epoch, open |-> Epoch,
     closing_handshake |-> Epoch, close |-> Epoch,
     is_open |-> FALSE, closing_started |-> FALSE, failed |-> FALSE,
     closed |-> FALSE]

setOpen(c)   == [c EXCEPT !.open = now, !.is_open = TRUE]
setClosing(c) == [c EXCEPT !.closing_handshake = now, !.closing_started = TRUE]
\* Mutant of setClosed: the parameter is ignored.
ClosedByFailure(c, on_fail) ==
    [c EXCEPT !.close = now, !.closed = TRUE, !.failed = TRUE]

setClosed(c, on_fail) == [c EXCEPT !.close = now, !.closed = TRUE, !.failed = on_fail]

\* What an int keeps of a number of us or ms.
Duration(d) == ((d + IntLimit) % (2 * IntLimit)) - IntLimit

If(flag, d) == IF flag THEN Duration(d) ELSE 0

getTCPInterval(c)              == Duration(c.tcp_pre_init - c.start)
getOpeningHandshakeInterval(c) == If(c.is_open, c.tcp_post_init - c.tcp_pre_init)
getWebSocketInterval(c)        == If(c.is_open, c.open - c.start)
getClosingHandshakeInterval(c) ==
    If(c.is_open /\ c.closing_started /\ c.closed, c.close - c.closing_handshake)
getOverallConnectionInterval(c) ==
    If(c.is_open, (IF c.closed THEN c.close ELSE now) - c.start)

-----------------------------------------------------------------------------
(* AssociationTimings.                                                     *)

NewAssociation(t) ==
    [start |-> t, association |-> Epoch, close |-> Epoch,
     completed |-> FALSE, success |-> FALSE, closed |-> FALSE]

\* Mutant of setCompleted: the time is always taken anew.
CompletedNow(a, ok) ==
    [a EXCEPT !.association = now, !.completed = TRUE, !.success = ok]

setCompleted(a, ok) ==
    [a EXCEPT !.association = IF a.closed THEN a.close ELSE now,
              !.completed = TRUE, !.success = ok]

setAssociationClosed(a) == [a EXCEPT !.close = now, !.closed = TRUE]

\* Mutant of closeAssociationTimings: the first end is not told from the others.
CloseAnyTime(a) ==
    IF a.completed THEN setAssociationClosed(a) ELSE a

\* The Connector calls setClosed() once, and not before setCompleted().
closeAssociationTimings(a) ==
    IF a.completed /\ ~a.closed THEN setAssociationClosed(a) ELSE a

getAssociationInterval(a) == If(a.completed, a.association - a.start)
getOverallSessionInterval(a) ==
    If(a.completed, (IF a.closed THEN a.close ELSE now) - a.association)

-----------------------------------------------------------------------------
Init ==
    /\ now = Epoch + 1
    /\ Conn!FSMInit
    /\ handler = "idle" /\ pc = "idle" /\ answer = "none"
    /\ timings = NewTimings(Epoch) /\ association = NewAssociation(Epoch)

Tick == /\ now < MaxTime /\ now' = now + 1
        /\ UNCHANGED <<state, session, handler, pc, answer, timings, association>>

\* Connection::close(): the time is taken first, then the close is accepted,
\* needless or refused.
Close ==
    /\ timings' = setClosing(timings)
    /\ IF state # "closed" /\ session = "open"
       THEN session' = "closing" /\ state' = "closing"
       ELSE UNCHANGED <<session, state>>
    /\ UNCHANGED <<now, handler, association>>

\* close() from onPongTimeout.
PongTimeout ==
    handler = "idle" /\ session = "open" /\ Close /\ UNCHANGED <<pc, answer>>

-----------------------------------------------------------------------------
(* connect() of the v1 Connector; from "connect" on it has the mutex.      *)

StartConnect ==
    /\ pc = "idle"
    /\ pc' = IF state \in {"connecting", "open"} THEN "close" ELSE "drain"
    /\ UNCHANGED <<now, state, session, handler, answer, timings, association>>

\* The session may have ended since.
CloseFirst == pc = "close" /\ Close /\ pc' = "drain" /\ UNCHANGED answer

Lock ==
    /\ pc = "drain" /\ pc' = "connect" /\ answer' = "none"
    /\ UNCHANGED <<now, state, session, handler, timings, association>>

FindOpen ==
    /\ pc = "connect" /\ state = "open" /\ pc' = "await"
    /\ UNCHANGED <<now, state, session, handler, answer, timings, association>>

\* Mutant of StartAttempt: the timings of the session before are kept.
StartWithoutReset ==
    /\ pc = "connect" /\ Conn!StartAttempt /\ pc' = "get"
    /\ timings' = [timings EXCEPT !.start = now]
    /\ UNCHANGED <<now, handler, answer, association>>

\* connect_(), up to the connection object.
StartAttempt ==
    /\ pc = "connect" /\ Conn!StartAttempt /\ pc' = "get"
    /\ timings' = NewTimings(now)
    /\ UNCHANGED <<now, handler, answer, association>>

OpenSession ==
    /\ pc = "get" /\ Conn!OpenSession /\ pc' = "connect"
    /\ UNCHANGED <<now, handler, answer, timings, association>>

\* A connection_processing_error: the association is said to have failed, though
\* none was asked for.
AttemptFails ==
    /\ pc = "get" /\ pc' = "idle"
    /\ association' = setCompleted(association, FALSE)
    /\ UNCHANGED <<now, state, session, handler, answer, timings>>

\* A connection_fatal_error, or a response that did not come in time.
GiveUp ==
    /\ pc = "connect" \/ (pc = "await" /\ answer = "none")
    /\ pc' = "idle"
    /\ UNCHANGED <<now, state, session, handler, answer, timings, association>>

Conclude ==
    /\ pc = "await" /\ answer # "none"
    /\ pc' = "idle"
    /\ association' = setCompleted(association, answer = "accept")
    /\ UNCHANGED <<now, state, session, handler, answer, timings>>

-----------------------------------------------------------------------------
(* The event loop.                                                         *)

\* onPreTCPInit and onPostTCPInit.
TCPInit ==
    /\ session = "connecting" /\ handler = "idle"
    /\ \/ /\ timings.tcp_pre_init = Epoch
          /\ timings' = [timings EXCEPT !.tcp_pre_init = now]
       \/ /\ timings.tcp_pre_init # Epoch /\ timings.tcp_post_init = Epoch
          /\ timings' = [timings EXCEPT !.tcp_post_init = now]
    /\ UNCHANGED <<now, state, session, handler, pc, answer, association>>

Resolve ==
    /\ session = "connecting" /\ handler = "idle"
    /\ timings.tcp_post_init # Epoch
    /\ session' = "open" /\ handler' = "onOpen"
    /\ UNCHANGED <<now, state, pc, answer, timings, association>>

\* The handshake fails, or the session ends.
Lose ==
    /\ handler = "idle" /\ session \in {"connecting", "open", "closing"}
    /\ session' = "over"
    /\ UNCHANGED <<now, state, handler, pc, answer, timings, association>>

OnOpen ==
    /\ handler = "onOpen" /\ handler' = "associate"
    /\ timings' = setOpen(timings)
    /\ state' = "open"
    /\ UNCHANGED <<now, session, pc, answer, association>>

\* Mutant of AssociateSession: the times of the session before are kept.
AssociateWithoutReset ==
    /\ handler = "associate" /\ pc \notin {"connect", "get"} /\ handler' = "idle"
    /\ UNCHANGED <<now, state, session, pc, answer, timings, association>>

\* If the request cannot be sent, close() cannot be called either, and ends the
\* event loop.
AssociateSession ==
    /\ handler = "associate" /\ pc \notin {"connect", "get"}
    /\ association' = NewAssociation(now)
    /\ \/ session = "open" /\ handler' = "idle" /\ UNCHANGED timings
       \/ /\ session # "open" /\ handler' = "aborted"
          /\ timings' = setClosing(timings)
    /\ UNCHANGED <<now, state, session, pc, answer>>

\* The response, an error about the request, or garbage.
Answer ==
    /\ handler = "idle" /\ session = "open" /\ pc = "await" /\ answer = "none"
    /\ answer' \in {"accept", "refuse"}
    /\ UNCHANGED <<now, state, session, handler, pc, timings, association>>

\* onClose, or onFail of a session that never opened; then their callback.
OnEnd ==
    /\ handler = "idle" /\ session = "over" /\ handler' = "ended"
    /\ timings' = setClosed(timings, ~timings.is_open)
    /\ state' = "closed" /\ session' = "none"
    /\ UNCHANGED <<now, pc, answer, association>>

\* Mutant of CloseCallback: only the end of a session that this client closed counts.
CloseCallbackOfClosed ==
    /\ handler = "ended" /\ handler' = "idle"
    /\ association' = IF timings.closing_started
                      THEN closeAssociationTimings(association) ELSE association
    /\ UNCHANGED <<now, state, session, pc, answer, timings>>

CloseCallback ==
    /\ handler = "ended" /\ handler' = "idle"
    /\ association' = closeAssociationTimings(association)
    /\ UNCHANGED <<now, state, session, pc, answer, timings>>

-----------------------------------------------------------------------------
Next ==
    \/ Tick \/ PongTimeout
    \/ StartConnect \/ CloseFirst \/ Lock \/ FindOpen \/ StartAttempt \/ OpenSession
    \/ AttemptFails \/ GiveUp \/ Conclude
    \/ TCPInit \/ Resolve \/ Lose \/ OnOpen \/ AssociateSession \/ Answer
    \/ OnEnd \/ CloseCallback

Spec == Init /\ [][Next]_vars

Times == 0 .. MaxTime

TypeOK ==
    /\ now \in Times
    /\ state \in {"initialized", "connecting", "open", "closing", "closed"}
    /\ session \in {"none", "connecting", "open", "closing", "over"}
    /\ handler \in {"idle", "onOpen", "associate", "ended", "aborted"}
    /\ pc \in {"idle", "close", "drain", "connect", "get", "await"}
    /\ answer \in {"none", "accept", "refuse"}
    /\ timings \in [start : Times, tcp_pre_init : Times, tcp_post_init : Times,
                    open : Times, closing_handshake : Times, close : Times,
                    is_open : BOOLEAN, closing_started : BOOLEAN,
                    failed : BOOLEAN, closed : BOOLEAN]
    /\ association \in [start : Times, association : Times, close : Times,
                        completed : BOOLEAN, success : BOOLEAN, closed : BOOLEAN]
    /\ timings.failed => timings.closed /\ ~timings.is_open
    /\ association.closed \/ association.success => association.completed

-----------------------------------------------------------------------------
(* The inductive invariant, with TypeOK.                                   *)

\* Where the session is while a handler or connect() is about to take a time.
\* Once its end is recorded there is none, until the timings are reset.
PhaseInv ==
    /\ handler \in {"onOpen", "associate"} => session \in {"open", "closing"}
    /\ handler = "onOpen" => state # "open"
    /\ session = "connecting" => state = "connecting"
    /\ session \in {"open", "closing"} => timings.tcp_post_init # Epoch
    /\ pc = "get" => state = "connecting" /\ session = "none" /\ ~timings.closed
    /\ timings.closed => session = "none"
    /\ state = "open" => timings.is_open /\ ~timings.closed

\* The times of a connection are taken in order, after its start.
OrderInv ==
    /\ Epoch < now
    /\ \A f \in {"start", "tcp_pre_init", "tcp_post_init", "open",
               "closing_handshake", "close"} : timings[f] <= now
    /\ timings.tcp_pre_init # Epoch => timings.start <= timings.tcp_pre_init
    /\ timings.tcp_post_init # Epoch =>
          /\ timings.tcp_pre_init # Epoch
          /\ timings.tcp_pre_init <= timings.tcp_post_init
    /\ timings.is_open =>
          /\ timings.tcp_post_init # Epoch
          /\ timings.tcp_post_init <= timings.open
          /\ timings.closed => timings.open <= timings.close
    /\ timings.closing_started => timings.start <= timings.closing_handshake
    /\ timings.closed => timings.start <= timings.close

\* Those of the association too; it starts in the session reported open.
AssociationInv ==
    /\ \A f \in {"start", "association", "close"} : association[f] <= now
    /\ association.completed => association.start <= association.association
    /\ association.closed => association.association <= association.close
    /\ state = "open" /\ handler # "associate" => timings.start <= association.start

IndInv == PhaseInv /\ OrderInv /\ AssociationInv

-----------------------------------------------------------------------------
\* Does the session that the timings are of last less than an int can tell?
Short == now - timings.start < IntLimit

\* Whoever reads the timings of a session that has been open, at whatever moment,
\* finds times of one session: the TCP connection and the handshake are parts of
\* the time it took to open it, and that a part of the time it lasted, as is the
\* closing handshake.  (close() on a session that has been lost takes its time
\* nevertheless, and makes the closing handshake negative.)
IntervalsNested ==
    Short =>
        /\ 0 <= getOpeningHandshakeInterval(timings)
        /\ timings.is_open => /\ 0 <= getTCPInterval(timings)
                              /\ getTCPInterval(timings)
                                   + getOpeningHandshakeInterval(timings)
                                     <= getWebSocketInterval(timings)
        /\ getWebSocketInterval(timings) <= getOverallConnectionInterval(timings)
        /\ getClosingHandshakeInterval(timings)
              <= getOverallConnectionInterval(timings)

\* An association precedes the end of its session, also when connect() fails
\* before there is another and records a failure over the times of the last one.
AssociationOrdered ==
    association.completed =>
        /\ association.start <= association.association
        /\ association.closed => association.association <= association.close

\* While connect() is not running and the connection is open, the association
\* timings are of this session: it took no longer to associate and to stay
\* associated than the connection has lasted.
SameSession ==
    (pc = "idle" /\ handler = "idle" /\ state = "open" /\ Short
       /\ association.completed)
        => getAssociationInterval(association) + getOverallSessionInterval(association)
              <= getOverallConnectionInterval(timings)

\* The end of a session that was associated is recorded, unless the session was
\* over before connect() concluded that it was associated: closeAssociationTimings()
\* has nothing to close then, and that end is never recorded.
EndRecorded ==
    handler # "ended" /\ association.success /\ timings.closed =>
        association.closed \/ timings.close <= association.association

\* The end of a session stays the time it is, whatever attempts fail later, until
\* another session asks for an association.
CloseKept ==
    [][association.closed /\ association'.closed =>
          association'.close = association.close]_vars
=============================================================================
