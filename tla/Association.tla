---------------------------- MODULE Association ----------------------------
(***************************************************************************)
(* PCPClient::v1::Connector::connect() (lib/src/connector/v1/connector.cc):*)
(* open the WebSocket connection and associate a PCP session over it.  One *)
(* thread, the connector, calls connect(); the handlers run on the event   *)
(* loop thread; the broker answers, refuses or says nothing.  They meet in *)
(* session_association_, whose mutex connect() holds while it connects.    *)
(*                                                                         *)
(* The Connection below is represented by the variables of ConnectionFSM,  *)
(* which Connection implements: Conn names its actions, and                *)
(* Connection::connect() is a loop over them.  Waits may time out at any   *)
(* moment, whatever the event loop does meanwhile: the callbacks of the    *)
(* program, which it runs, take as long as they like.                      *)
(***************************************************************************)
EXTENDS Naturals, FiniteSets

CONSTANTS
    Requests,       \* the message ids of associate requests
    NoRequest       \* an empty message id

ASSUME RequestsAssumption ==
    /\ IsFiniteSet(Requests) /\ Cardinality(Requests) > 1
    /\ NoRequest \notin Requests

VARIABLES
    connection_state,   \* what Connection reports
    session,            \* the WebSocket session, as in ConnectionFSM
    in_progress,        \* session_association_.in_progress
    success,            \* session_association_.success
    failure,            \* session_association_.got_messaging_failure
    request_id,         \* session_association_.request_id
    pc,                 \* where the connector is
    limited,            \* is max_connect_attempts of the call positive?
    outcome,            \* how the last call of connect() ended
    handler,            \* the handler the event loop runs, and where it is
    msg,                \* the message it handles
    aborted,            \* did an exception leave the event loop thread?
    asked,              \* the request sent over the session
    verdict,            \* what the broker made of it
    inbox               \* the messages of the broker on their way

association == <<in_progress, success, failure, request_id>>
connection  == <<connection_state, session>>
connector   == <<pc, limited, outcome>>
loop        == <<handler, msg, aborted>>
broker      == <<asked, verdict, inbox>>
vars == <<association, connection, connector, loop, broker>>

Conn == INSTANCE ConnectionFSM
            WITH state <- connection_state, session <- session

ConnectPcs == {"connect", "get", "attempted"}
Pcs        == {"idle", "close", "close.set", "drain", "lock", "await"}
                  \cup ConnectPcs
Handlers   == {"idle", "onOpen", "associate", "close", "close.set", "garbage",
               "response", "callback", "cause"}
Outcomes   == {"none", "associated", "association_error", "response_failure",
               "fatal_error", "config_error"}
Causes     == {"error", "expired"}     \* PCP Error and TTL Expired messages
Answers    == {"accept", "refuse"}     \* Associate responses
Garbage    == [kind |-> "garbage", id |-> NoRequest]
Messages   == [kind : Answers, id : Requests] \cup {Garbage}
                  \cup [kind : Causes, id : Requests \cup {NoRequest}]
Verdicts   == {"none", "asked", "associated", "refused", "failed"}

Init ==
    /\ Conn!FSMInit
    /\ in_progress = FALSE /\ success = FALSE /\ failure = FALSE
    /\ request_id = NoRequest
    /\ pc = "idle" /\ limited = FALSE /\ outcome = "none"
    /\ handler = "idle" /\ msg = Garbage /\ aborted = FALSE
    /\ asked = NoRequest /\ verdict = "none" /\ inbox = {}

\* Mutant of MtxFree: connect() does not hold the mutex while it connects.
MtxNotHeld == TRUE

\* session_association_.mtx is held for long only by connect().
MtxFree == pc \notin ConnectPcs

\* state_mutex_ of Connection is held between the close frame and 'closing'.
StateMutexFree == pc # "close.set" /\ handler # "close.set"

Goto(l) == pc' = l /\ UNCHANGED <<limited, outcome>>

Returns(o) == pc' = "idle" /\ outcome' = o /\ UNCHANGED limited

\* SessionAssociation::reset()
Reset ==
    /\ in_progress' = FALSE /\ success' = FALSE /\ failure' = FALSE
    /\ request_id' = NoRequest

-----------------------------------------------------------------------------
(* connect(), run by the connector.                                        *)

StartConnect ==
    /\ pc = "idle"
    /\ pc' = IF connection_state \in {"connecting", "open"}
             THEN "close" ELSE "lock"
    /\ limited' \in BOOLEAN
    /\ outcome' = "none"
    /\ UNCHANGED <<association, connection, loop, broker>>

\* Mutant of CloseFirst: the refusal of websocketpp is ignored.
CloseFirstUnchecked ==
    /\ pc = "close" /\ StateMutexFree
    /\ \/ connection_state = "closed" /\ Goto("drain") /\ UNCHANGED session
       \/ /\ connection_state # "closed" /\ Goto("close.set")
          /\ session' = IF session = "open" THEN "closing" ELSE session
    /\ UNCHANGED <<connection_state, association, loop, broker>>

\* Connection::close(): refused, hence an exception that is caught, unless the
\* session is open.
CloseFirst ==
    /\ pc = "close" /\ StateMutexFree
    /\ \/ connection_state = "closed" /\ Goto("drain") /\ UNCHANGED session
       \/ /\ connection_state # "closed" /\ session = "open"
          /\ session' = "closing" /\ Goto("close.set")
       \/ /\ connection_state # "closed" /\ session # "open"
          /\ Goto("lock") /\ UNCHANGED session
    /\ UNCHANGED <<connection_state, association, loop, broker>>

CloseFirstSet ==
    /\ pc = "close.set"
    /\ connection_state' = "closing"
    /\ Goto("drain")
    /\ UNCHANGED <<session, association, loop, broker>>

\* Poll until the state is 'closed', or WS_CONNECTION_CLOSE_TIMEOUT_S are over.
Drain ==
    /\ pc = "drain"
    /\ Goto("lock")
    /\ UNCHANGED <<association, connection, loop, broker>>

\* Mutant of LockAssociation: the old association is not reset.
LockWithoutReset ==
    /\ pc = "lock"
    /\ in_progress' = TRUE
    /\ Goto("connect")
    /\ UNCHANGED <<success, failure, request_id, connection, loop, broker>>

LockAssociation ==
    /\ pc = "lock"
    /\ in_progress' = TRUE /\ success' = FALSE /\ failure' = FALSE
    /\ request_id' = NoRequest
    /\ Goto("connect")
    /\ UNCHANGED <<connection, loop, broker>>

\* Connection::connect(): the head of its loop.
FindOpen ==
    /\ pc = "connect" /\ connection_state = "open"
    /\ Goto("await")
    /\ UNCHANGED <<association, connection, loop, broker>>

StartAttempt ==
    /\ pc = "connect" /\ Conn!StartAttempt
    /\ Goto("get")
    /\ UNCHANGED <<association, loop, broker>>

Poll ==
    /\ pc = "connect" /\ connection_state \in {"connecting", "closing"}
    /\ UNCHANGED vars

OpenSession ==
    /\ pc = "get" /\ Conn!OpenSession
    /\ Goto("attempted")
    /\ UNCHANGED <<association, loop, broker>>

\* No connection object: connect() leaves the association as it is.
AttemptFails ==
    /\ pc = "get"
    /\ Returns("config_error")
    /\ UNCHANGED <<association, connection, loop, broker>>

\* The wait for onOpen is over, whatever came of it.
AttemptOver ==
    /\ pc = "attempted"
    /\ Goto("connect")
    /\ UNCHANGED <<association, connection, loop, broker>>

\* The limit of attempts is reached, after an attempt or a poll; the association
\* stays as it is.
GiveUp ==
    /\ limited
    /\ \/ pc = "attempted"
       \/ pc = "connect" /\ connection_state \in {"connecting", "closing"}
    /\ Returns("fatal_error")
    /\ UNCHANGED <<association, connection, loop, broker>>

\* The wait for the response ends; every handler notifies under the mutex.
MessagingFailure ==
    /\ pc = "await" /\ failure
    /\ Reset /\ Returns("association_error")
    /\ UNCHANGED <<connection, loop, broker>>

TimeOut ==
    /\ pc = "await" /\ ~failure /\ in_progress
    /\ Reset /\ Returns("association_error")
    /\ UNCHANGED <<connection, loop, broker>>

\* Mutant of Concluded: the success flag is not looked at.
ConcludedBlindly ==
    /\ pc = "await" /\ ~failure /\ ~in_progress
    /\ Returns("associated") /\ UNCHANGED association
    /\ UNCHANGED <<connection, loop, broker>>

Concluded ==
    /\ pc = "await" /\ ~failure /\ ~in_progress
    /\ \/ success /\ Returns("associated") /\ UNCHANGED association
       \/ ~success /\ Returns("response_failure") /\ Reset
    /\ UNCHANGED <<connection, loop, broker>>

ConnectStep ==
    \/ CloseFirst \/ CloseFirstSet \/ Drain \/ LockAssociation
    \/ FindOpen \/ StartAttempt \/ Poll \/ OpenSession \/ AttemptFails
    \/ AttemptOver \/ GiveUp \/ MessagingFailure \/ TimeOut \/ Concluded

-----------------------------------------------------------------------------
(* The event loop and the network.                                         *)

Resolve ==
    /\ handler = "idle" /\ session = "connecting"
    /\ session' = "open" /\ handler' = "onOpen"
    /\ asked' = NoRequest /\ verdict' = "none"
    /\ UNCHANGED <<connection_state, association, connector, msg, aborted, inbox>>

HandshakeFails ==
    /\ handler = "idle" /\ session = "connecting"
    /\ session' = "over"
    /\ UNCHANGED <<connection_state, association, connector, loop, broker>>

\* The peer closes, the closing handshake ends, or the TCP connection is lost.
Lose ==
    /\ handler = "idle"
    /\ \/ session = "open" /\ session' \in {"closing", "over"}
       \/ session = "closing" /\ session' = "over"
    /\ UNCHANGED <<connection_state, association, connector, loop, broker>>

\* onClose and onFail; their callbacks only touch the timings and the monitor.
OnEnd ==
    /\ handler = "idle" /\ session = "over" /\ StateMutexFree
    /\ connection_state' = "closed" /\ session' = "none"
    /\ inbox' = {}
    /\ UNCHANGED <<association, connector, loop, asked, verdict>>

OnOpen ==
    /\ handler = "onOpen"
    /\ connection_state' = "open"
    /\ handler' = "associate"
    /\ UNCHANGED <<session, association, connector, msg, aborted, broker>>

\* Mutant of AssociateSession: the request has the id there was before.
AssociateWithOldId ==
    /\ handler = "associate" /\ MtxFree
    /\ failure' = FALSE /\ request_id' \in Requests \ {request_id}
    /\ session = "open" /\ handler' = "idle"
    /\ asked' = request_id /\ verdict' = "asked"
    /\ UNCHANGED <<in_progress, success, connection, connector, msg, aborted,
                   inbox>>

\* associateSession(), the callback of onOpen: a new request id, then send(),
\* which throws unless the session is open; onOpen then calls close().
AssociateSession ==
    /\ handler = "associate" /\ MtxFree
    /\ failure' = FALSE
    /\ \E r \in Requests \ {request_id} :
          /\ request_id' = r
          /\ \/ /\ session = "open" /\ handler' = "idle"
                /\ asked' = r /\ verdict' = "asked"
             \/ /\ session # "open" /\ handler' = "close"
                /\ UNCHANGED <<asked, verdict>>
    /\ UNCHANGED <<in_progress, success, connection, connector, msg, aborted,
                   inbox>>

\* Too many pongs are missing: close() from onPongTimeout.
PongTimeout ==
    /\ handler = "idle" /\ session = "open"
    /\ handler' = "close"
    /\ UNCHANGED <<association, connection, connector, msg, aborted, broker>>

\* close() in a handler: nobody catches its exception.
HandlerCloses ==
    /\ handler = "close" /\ StateMutexFree
    /\ \/ session = "open" /\ session' = "closing"
          /\ handler' = "close.set" /\ UNCHANGED aborted
       \/ session # "open" /\ aborted' = TRUE
          /\ UNCHANGED <<session, handler>>
    /\ UNCHANGED <<connection_state, association, connector, msg, broker>>

HandlerClosesSet ==
    /\ handler = "close.set"
    /\ connection_state' = "closing"
    /\ handler' = "idle"
    /\ UNCHANGED <<session, association, connector, msg, aborted, broker>>

\* processMessage(): websocketpp delivers only while the session is open.
\* For what cannot be parsed in_progress is read at once, without the mutex.
Receive(m) ==
    /\ handler = "idle" /\ session = "open" /\ m \in inbox
    /\ inbox' = inbox \ {m} /\ msg' = m
    /\ handler' = CASE m.kind \in Answers  -> "response"
                    [] m.kind \in Causes   -> "callback"
                    [] m.kind = "garbage"  -> IF in_progress THEN "garbage"
                                              ELSE "idle"
    /\ UNCHANGED <<association, connection, connector, aborted, asked, verdict>>

\* error_callback_ or TTL_expired_callback_ of the program returns, and
\* in_progress is read, without the mutex.
UserCallback ==
    /\ handler = "callback"
    /\ handler' = IF in_progress THEN "cause" ELSE "idle"
    /\ UNCHANGED <<association, connection, connector, msg, aborted, broker>>

\* A message that cannot be parsed, or of an unknown type.
ReportGarbage ==
    /\ handler = "garbage" /\ MtxFree
    /\ failure' = TRUE
    /\ handler' = "idle"
    /\ UNCHANGED <<in_progress, success, request_id, connection, connector, msg,
                   aborted, broker>>

\* Mutant of AssociateResponse: the id of the request is not compared.
AnyResponse ==
    /\ handler = "response" /\ MtxFree
    /\ IF in_progress
       THEN success' = (msg.kind = "accept") /\ in_progress' = FALSE
       ELSE UNCHANGED <<success, in_progress>>
    /\ handler' = "idle"
    /\ UNCHANGED <<failure, request_id, connection, connector, msg, aborted,
                   broker>>

AssociateResponse ==
    /\ handler = "response" /\ MtxFree
    /\ IF in_progress /\ msg.id = request_id
       THEN success' = (msg.kind = "accept") /\ in_progress' = FALSE
       ELSE UNCHANGED <<success, in_progress>>
    /\ handler' = "idle"
    /\ UNCHANGED <<failure, request_id, connection, connector, msg, aborted,
                   broker>>

\* The rest of errorMessageCallback() and TTLMessageCallback().
MessageCause ==
    /\ handler = "cause" /\ MtxFree
    /\ failure' = (failure \/ (msg.id # NoRequest /\ msg.id = request_id))
    /\ handler' = "idle"
    /\ UNCHANGED <<in_progress, success, request_id, connection, connector, msg,
                   aborted, broker>>

HandlerStep ==
    \/ OnEnd \/ OnOpen \/ AssociateSession \/ HandlerCloses \/ HandlerClosesSet
    \/ ReportGarbage \/ AssociateResponse \/ UserCallback \/ MessageCause

\* The broker answers a request once.
Answer ==
    /\ session = "open" /\ verdict = "asked"
    /\ \E k \in Answers \cup Causes :
          /\ inbox' = inbox \cup {[kind |-> k, id |-> asked]}
          /\ verdict' = CASE k = "accept" -> "associated"
                          [] k = "refuse" -> "refused"
                          [] OTHER        -> "failed"
    /\ UNCHANGED <<association, connection, connector, loop, asked>>

\* It may send what is no answer at all, and, as messages are addressed to the
\* client, late answers to requests of older sessions.
Noise ==
    /\ session = "open"
    /\ \E m \in {Garbage} \cup [kind : Causes, id : {NoRequest}]
                 \cup (IF verdict = "none" THEN {}
                       ELSE [kind : Answers, id : Requests \ {asked}]) :
          inbox' = inbox \cup {m}
    /\ UNCHANGED <<association, connection, connector, loop, asked, verdict>>

-----------------------------------------------------------------------------
Step ==
    \/ StartConnect \/ ConnectStep
    \/ HandlerStep \/ Resolve \/ HandshakeFails \/ Lose \/ PongTimeout
    \/ \E m \in inbox : Receive(m)
    \/ Answer \/ Noise

Next == (~aborted /\ Step) \/ (aborted /\ UNCHANGED vars)

Spec == Init /\ [][Next]_vars

\* The threads run, and the handshakes of websocketpp have timeouts.  Nothing is
\* assumed of the broker.
Fairness ==
    /\ WF_vars(~aborted /\ ConnectStep)
    /\ WF_vars(~aborted /\ HandlerStep)
    /\ WF_vars(~aborted /\ (Resolve \/ HandshakeFails))
    /\ WF_vars(~aborted /\ Lose /\ session = "closing")

FairSpec == Spec /\ Fairness

-----------------------------------------------------------------------------
\* The type invariant.
TypeOK ==
    /\ connection_state \in
          {"initialized", "connecting", "open", "closing", "closed"}
    /\ session \in {"none", "connecting", "open", "closing", "over"}
    /\ in_progress \in BOOLEAN /\ success \in BOOLEAN /\ failure \in BOOLEAN
    /\ request_id \in Requests \cup {NoRequest}
    /\ pc \in Pcs /\ limited \in BOOLEAN /\ outcome \in Outcomes
    /\ handler \in Handlers /\ msg \in Messages /\ aborted \in BOOLEAN
    /\ asked \in Requests \cup {NoRequest} /\ verdict \in Verdicts
    /\ inbox \subseteq Messages

\* What the report says of the session, and where handlers can be.
SessionInv ==
    /\ session = "connecting" => connection_state = "connecting"
    /\ session \in {"open", "closing", "over"} =>
          connection_state \notin {"initialized", "closed"}
    /\ connection_state \in {"open", "closing"} =>
          session \notin {"none", "connecting"}
    /\ handler # "idle" => session \in {"open", "closing"}
    /\ handler = "onOpen" => connection_state # "open"
    /\ pc = "close.set" => session \in {"closing", "over"}
    /\ handler = "close.set" => session = "closing"

\* An Associate response comes after the request of its session, and one about
\* that request says what the broker decided.
Decided(m) ==
    /\ verdict # "none" /\ m.id \in Requests
    /\ m.id = asked =>
          verdict = IF m.kind = "accept" THEN "associated" ELSE "refused"

AnswerInv ==
    /\ session \in {"none", "connecting"} => inbox = {}
    /\ handler \in {"onOpen", "associate"} => verdict = "none"
    /\ session = "open" => handler \in {"onOpen", "associate"} \/ verdict # "none"
    /\ handler \in {"garbage", "callback", "cause"} => verdict # "none"
    /\ verdict # "none" => asked \in Requests /\ request_id \in {NoRequest, asked}
    /\ \A m \in inbox : m.kind \in Answers => Decided(m)
    /\ handler = "response" => msg.kind \in Answers /\ Decided(msg)

\* A success is that of this session, and connect() waits in vain for none.
SuccessInv ==
    /\ pc \in ConnectPcs => in_progress /\ ~success
    /\ session = "connecting" \/ handler \in {"onOpen", "associate"} => ~success
    /\ success => verdict = "associated"
    /\ pc = "await" => session # "connecting" /\ handler # "onOpen"
    /\ pc = "await" /\ ~in_progress =>
          handler # "associate" /\ (success \/ verdict = "refused")

\* connect() begins without a failure, and meets none before a request was sent.
FailureInv ==
    /\ pc \in ConnectPcs => ~failure
    /\ pc = "await" /\ failure => verdict # "none"

\* The inductive invariant, with TypeOK.
IndInv == SessionInv /\ AnswerInv /\ SuccessInv /\ FailureInv

isAssociated == connection_state = "open" /\ success

\* isAssociated() is true only "if a successful Associate response has been
\* received and the underlying connection did not drop since then"
\* (v1/connector.hpp:172-174): the broker did accept the request sent over the
\* session there is now, whatever the connector and the handlers did since.
AssociatedHonest == isAssociated => verdict = "associated"

\* What connect() returns or throws is what the broker decided: success only for
\* an accepted request, connection_association_response_failure only for a
\* refused one.
OutcomeTrue ==
    [][pc = "await" /\ pc' = "idle" =>
          /\ outcome' = "associated" => verdict = "associated"
          /\ outcome' = "response_failure" => verdict = "refused"]_vars

\* The Connection used here stays within ConnectionFSM, which Connection
\* implements.
UsesFSM == Conn!FSMSpec

\* A messaging failure that connect() finds is one of this association: the handler
\* that reports it read in_progress before it had the mutex, maybe as another
\* call's, but what it reports then is gone, or came over the session that the
\* request was sent over (connector.cc:713-719, 832-844, 864-875).
FailureHonest == pc = "await" /\ failure => verdict # "none"

\* What an attempt without a connection object leaves behind: see
\* ConnectingSettles of Connection.
Stuck == pc = "idle" /\ connection_state = "connecting" /\ session = "none"

\* connect() has stopped waiting for the session that it closed to end, while the
\* event loop is still in a handler that began before.
Overtaken == pc = "lock" /\ connection_state = "closing" /\ handler # "idle"

\* From some time on handshakes succeed.
Reachable == []~Stuck /\ <>[][~HandshakeFails]_vars

\* connect(0) returns, even when the broker drops or refuses every session at
\* once: the mutex keeps onOpen, hence the report of the loss, back until
\* Connection::connect() has seen the connection open (connector.cc:407-416).
\* That needs handlers that are over within the 5 s that connect() waits for a
\* session to close, see ConnectEnds.
ConnectReturns ==
    Reachable /\ []~Overtaken => (pc # "idle" ~> pc = "idle" \/ aborted)

\* The association is locked so that nothing "could leave pxp-agent retrying to
\* connect indefinitely (in case max_connect_attempts == 0) instead of throwing"
\* (connector.cc:413-416), however long a callback of the program takes: connect()
\* leaves the wait for the close after 5 s (connector.cc:384-387), holds the mutex
\* while it polls 'closing', and the handler then wants it.  The library's own
\* steps are taken to be faster.
ConnectEnds ==
    Reachable /\ [](Overtaken => handler = "callback") =>
        (pc # "idle" ~> pc = "idle" \/ aborted)

\* connect() makes sure it does not wait "for an Associate Session response in
\* vain if a concurrent attempt to open a WebSocket connection is in progress"
\* (connector.cc:362-366): when it waits and the connection is open, a request was
\* sent for this association, or onOpen is about to send it.
\* No run checks it, as it fails: see README, "Disagreements".
WaitsForRequest ==
    pc = "await" /\ in_progress /\ connection_state = "open" /\ handler = "idle"
        => request_id # NoRequest
=============================================================================
