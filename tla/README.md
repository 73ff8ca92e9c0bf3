# Formal models of cpp-pcp-client

TLA+ specifications of cpp-pcp-client, the C++ client library for the Puppet
Communications Protocol: a PCP agent or controller uses it to hold a WebSocket
connection to a PCP broker, to associate a PCP session over it and to exchange
messages. The specifications are translated from the source; paths below are
relative to `src/lib/src/` unless they say otherwise. TLC checks small
instances; TLAPS proves the safety properties that TLC checks, of every module with
steps, for every instance.

## 1. The system

| Component | Source | State | Operations |
|---|---|---|---|
| Connection | `connector/connection.cc` | `connection_state_` (atomic), `connection_handle_`, `connection_target_index_`, `connection_backoff_ms_`, `consecutive_pong_timeouts_`; `state_mutex_`, `onOpen_mtx`, `onOpen_cv`; the event loop thread | `connect`, `send`, `ping`, `close`, the destructor (`cleanUp`); handlers `onOpen`, `onClose`, `onFail`, `onMessage`, `onPong`, `onPongTimeout`, `onTlsInit` |
| WebSocket sessions | websocketpp 0.8.2 (external) | one connection object per attempt: connecting, open, closing, ended; its pong timer | opening and closing handshakes, loss, timers; calls the handlers on the event loop thread |
| Connector base | `connector/connector_base.cc` | `must_stop_monitoring_`, `is_monitoring_`, `monitor_exception_`, `monitor_thread_`, its mutex and condition variable; schemas and callbacks | `connect`, `startMonitoring`, `stopMonitoring`, `monitorConnection`, `registerMessageCallback`, destructor |
| v1 connector | `connector/v1/connector.cc`, `session_association.cc` | `session_association_` (`in_progress`, `success`, `got_messaging_failure`, `request_id`, `error`, mutex, condition variable), association timings | `connect` (connect and associate), `send`, `processMessage`; callbacks for associate response, error, TTL expired |
| v2 connector | `connector/v2/connector.cc` | none of its own | `send`, `processMessage`, error callback |
| v1 messages | `protocol/v1/message.cc`, `chunks.cc` | a list of chunks | serialize, parse, `getParsedChunks` |
| Validator | `validator/validator.cc`, `schema.cc` | map of schemas, a mutex | `registerSchema`, `validate`, `getSchemaContentType` |
| Timings | `connector/timings.cc` | time stamps and flags | setters called by handlers, intervals read by anyone |
| Client metadata, errors, logging | `connector/client_metadata.cc`, headers | none after construction | |

Interactions. A user thread and, if monitoring runs, the monitor thread call
`Connector::connect`, which calls `Connection::connect`; the latter starts an
attempt and waits for `onOpen` on a condition variable, or polls the state.
The event loop thread runs every handler and, through callbacks, the connector:
`onOpen` sends the associate request (v1), `onMessage` dispatches a message,
`onClose` wakes the monitor. Any thread may call `close()`, `ping()` and
`send()`. `connection_state_` and `state_mutex_` are where they meet.

What is hard: `close()` racing `onOpen` and `onClose`; handlers that throw out
of the event loop; attempts that time out for the caller and still succeed in
the event loop; failover and backoff kept across iterations and calls; timers
that outlive their session; joins of threads that are busy; a mutex held across
a blocking connect (v1), while callbacks of the program keep the event loop busy;
starts of the monitor that overlap. Each is a hazard in `PROJECT.json`, at its line.

What makes each component correct:

- Connection: one session at a time; the reported state never lies about it;
  `connect()` ends as documented; failover visits another broker; the backoff is
  bounded; the destructor ends and leaves nobody in the object.
- Connector base: there is one monitoring task (two starts can race:
  `monitor_starts`); nobody else is in `connect()` while it is; stopping ends it; a
  lost connection is opened again; the exception that ended it reaches the caller.
- v1 association: `connect()` reports success only for the response to its own
  request; every failure it reports is of its own request; `connect(0)` and the event
  loop do not wait for each other (they can: `association_slow`).
- Messages: parsing inverts serialization, stays in its buffer and ends, whatever
  the bytes are.
- Dispatch: a well-formed message of a registered type reaches its callback, with
  flags that are true, and another misses it for a known reason; registrations of one
  name do not mix.
- Timings: the intervals nest and belong to one session, whenever they are read; the
  end of an associated session is recorded, once.

## 2. Modules

| Module | What it is |
|---|---|
| `Connection` | `PCPClient::Connection`, with the threads that use it and the websocketpp sessions it talks to |
| `ConnectionFSM` | the abstract state machine: the reported state next to the session, without threads |
| `MCConnection` | instances of `Connection` for TLC (symmetry) |
| `Association` | v1 `Connector::connect()`, the handlers of the event loop and the broker, over the state machine of `ConnectionFSM` |
| `MCAssociation` | instances of `Association` for TLC |
| `Monitor` | `ConnectorBase`: the monitoring task, who starts, stops and destroys it, over the state machine of `ConnectionFSM` |
| `Schemas` | JSON documents, schemas and validation; the schemas of both protocols (no state) |
| `Dispatch` | both connectors from a received message to its callback, and `registerMessageCallback()` |
| `MessageV1` | the v1 format: a sender, bytes that may be damaged, `parseMessage()` |
| `Exchange` | `MessageV1` and `Dispatch` composed: clients and a broker exchange messages |
| `MCExchange` | an instance of `Exchange` for TLC: the texts and what they hold |
| `Timings` | `ConnectionTimings` and `AssociationTimings`, over the state machine of `ConnectionFSM` |
| `ConnectionProofs`, `AssociationProofs`, `MonitorProofs`, `TimingsProofs`, `ExchangeProofs` | the theorems about these modules |
| `DispatchProofs`, `MessageV1Proofs` | lemmas about these modules, for `ExchangeProofs` |
| `RoundTripProofs` | lemmas about `MessageV1`: the parser reads back what the sender wrote |

`ConnectionFSM` is what holds the project together: `Connection` is shown to
implement it, and `Association`, `Monitor` and `Timings` take its actions for their
steps of the Connection instead of repeating it.

### Plan

All modules of the plan exist, and every safety property of the passing runs has its
theorem. Liveness is out of the prover's reach and stays with TLC.

## 3. How Connection corresponds to the code

Every thread has a program counter, and a step is the code between two accesses
to shared state.

- Connector thread: `head` is the top of the `do` loop of `connect()`; the
  `Head...` actions are the branches of its `switch`, `connect`/`get` are
  `connect_()`, `wait`/`block`/`blocked` are `connectAndWait()` (predicate, wait,
  wake-up or timeout), the `After...` actions what follows in each branch,
  `fatal` the throw. Then the destructor: `cleanUp`, `drain` and `linger` (the two
  polling loops), `check`, `stop`, `join`.
- `close()`: `close.lock` takes `state_mutex_` and loads the state, `close.send`
  is `endpoint_->close()`, `close.set` stores `closing`. Callers, the destructor
  (through `tryClose()`) and the handlers of the loop run the same actions.
- Event loop: one handler at a time. `onOpen` in three steps (the mutex that is
  released at once, the store, the notification and callback), `onClose` and
  `onFail` in two (store under `state_mutex_`, callback).
- The `call` record holds the locals of `connect()`. `call.tried` is a history
  variable: the broker of the last attempt of this call.

External, from websocketpp: `sess[s]` and the actions `Establish`,
`HandshakeFails`, `PeerCloses`, `Drop`, `CloseHandshakeEnds`, `Terminated`,
`LoopExits`. They encode what the code relies on: `close()` is refused unless the
session is open; `ping()` arms a timer only on an open session and `terminate`
does not cancel it; a session that ended while connecting calls the fail handler,
otherwise the close handler; an exception that leaves a handler leaves `run()`
and ends the process (`aborted`).

Abstractions:

- Time is nondeterminism: a wait with a timeout may end at any moment, a polling
  loop with a limit may be left at any moment. The one place where a duration
  matters is `Linger`: `SlowHandshakes` says whether a handshake may outlast that
  wait.
- A broker is `Reachable` (its handshakes never fail), `Misconfigured`
  (`get_connection` may fail, because of its URI or of the TLS files `onTlsInit`
  loads for each attempt); a handshake with a broker that is not `Reachable`
  succeeds or fails.
- One thread is in `connect()`, and it also runs the destructor. The destructor
  starts only when no other thread is inside the object, which is the caller's
  duty in C++.
- The callbacks set by the connector return at once, and those of `onOpen` may
  throw. A callback that blocks is the subject of `Association`.
- `connection_handle_` is written atomically with the creation of the session.
- `send()`, `onMessage`, `onPing`, the setters and `ConnectionTimings` do not
  change the state modelled here and are left out (see `Exchange` and `Timings`).
- `idx` is kept only when it is compared with a limit. `connection_target_index_`
  is kept modulo the number of brokers, as `getWsUri()` uses it.
  `consecutive_pong_timeouts_` is capped at its threshold.

### How Association corresponds to the code

`Association` does not repeat `Connection`: it has the two variables of
`ConnectionFSM`, which `Connection` implements, and `UsesFSM` checks that it moves
them as `ConnectionFSM` allows. Its `StartAttempt` and `OpenSession` are the
actions of that module.

- The connector: `close`, `close.set` and `drain` are the `switch` at the head of
  `connect()` (close the old session, poll for 5 s); `lock` takes
  `session_association_.mtx` and resets the association; `connect`, `get` and
  `attempted` are `Connection::connect()`, a loop over `FindOpen`, `StartAttempt`,
  `Poll` and `GiveUp`, run with the mutex held (`MtxFree`); `await` is the wait on
  `cond_var`, which releases it, and ends in one of the four outcomes of the code.
- The event loop: `OnOpen`, then `AssociateSession`, its callback, which waits for
  the mutex, makes a request id and sends; `OnEnd` is `onClose` or `onFail`;
  `Receive` is `processMessage()` up to the callback of the message, or, for one that
  cannot be parsed, to the unlocked test of `in_progress`; `callback` is where the
  error or TTL callback of the program runs, which may outlast any wait, and
  `UserCallback` its end and the same test. `ReportGarbage`, `AssociateResponse` and
  `MessageCause` are the part under the mutex. A close from `onPongTimeout`, or after
  a failed send, may throw out of the handler (`aborted`).
- The broker (external): it accepts, refuses, fails (PCP Error or TTL Expired) or
  ignores a request, sends messages nobody asked for, and late answers to requests of
  older sessions. `asked` and `verdict` are what it knows of the session. Messages
  reach the handler in any order, and only while the session is open.

Abstractions: the reason of a failure (`error`) and the timings are left out;
`connect()` is called by one thread, as `v1/connector.hpp:168-169` demands;
`Connection::connect()` is not followed through its backoff and failover, and its
limit may be reached after any attempt or poll (`limited` says whether the call
has one). The poll for the close of the old session (`drain`) is left at any moment,
as its 5 s run whatever the event loop does. A request id is only different from the
one before it; the model lets an older one come back.

### How Monitor corresponds to the code

- Users: `Call` begins a call, `Check`, `SetMonitoring` and `Spawn` are
  `startMonitoring()` (and the head of `monitorConnection()`): `is_monitoring_` is
  tested, set, and a thread assigned to `monitor_thread_`, in three steps; `Stop`,
  `StopNotify`, `Join` and `Rethrow` are `stopMonitoring()` and the destructor around
  `stopMonitorTaskAndWait()`. `Refuse` are the checks before them.
- The task, in a thread of its own or in the caller's: `begin` to `end` are
  `startMonitorTask()`, which holds `monitor_mutex_` except in `asleep`;
  `ConnectStep` is `connect()`, through `ConnectionFSM`; `TaskCatches` are the catch
  clauses, `Unlock` the end of the lock's scope and of the thread.
- `waiting` is who waits for `monitor_cond_var_` and was not notified; `WakeUp` ends
  the wait, by a notification or by the check interval.
- `life` and `raced` are history variables: what became of the monitor that was started
  last, and whether a call has found no monitor while another one was between its own
  test and its assignment, or at the end of a `monitorConnection()`.

The calls are those the header allows (`Legal`): "it is safe to call startMonitoring in
a multithreading context" (`connector_base.hpp:136-137`), so calls of
`startMonitoring()` and of its blocking version overlap at will; `stopMonitoring()` may
end a `monitorConnection()` of another thread, which the comment at
`connector_base.cc:277-279` provides for; the others, of which the header says nothing
of the kind, come one at a time, and no `connect()` between a start and a stop. (Of
`startMonitoring()` it also says that "it will return as soon as the dtor has been
invoked"; a call on an object that is being destroyed is undefined in C++, and left
out.) What overlapping starts can do to each other is the finding `monitor_starts`.
The other properties say what holds until such a race, as `raced` records it, and so
the starts that do not race (one comes after the other's assignment, and returns) are
still part of them. `Associating` adds the outcomes of a v1 `connect()`. A task that
is assigned to while it still runs is detached.

### How MessageV1, Dispatch and Exchange correspond to the code

- `MessageV1`: `Construct`, `setDataChunk` and `addDebugChunk` build a message, `Send`
  serializes it; `ParseHeader` is `parseMessage()` up to its loop, `ParseChunk` one
  iteration, `ParseEnds` what follows. `next` is the iterator and `left` is
  `still_to_parse`; sums of sizes wrap as `size_t` does on a 32-bit system
  (`Wrap`), where it matters most. The powers of `Base`, the value of a size and the
  serialization of a list of chunks are recursive functions.
- `Damage` changes, cuts or adds bytes: it stands for any peer that does not
  serialize as this library does.
- `Schemas`: a document is its JSON type and the types of its fields. A schema of the
  library is described by the set of its fields, each with its type and whether it is
  required. A schema has a type, constraints on fields, required fields and sub-schemas
  for the items of a field (`addSubschema`, one level deep: no schema within a
  sub-schema); those of the library are built field by field with `addConstraint`, as
  in the code. That an integer passes as a number, and that the properties of something
  that is not an object are not looked at, is what valijson does.
- `Dispatch`: `stage` follows `processMessage()` through `getParsedChunks()`: the
  envelope, the content type (v1), the data, the callback. Each reads the maps
  anew, so a registration can come in between (`registerSchema`, `insertCallback`:
  the two steps of `registerMessageCallback()`). Its end is `outcome`: a failed
  deserialization, an exception that `onMessage()` catches, no callback, or whose
  callback returned.
- `Exchange` delivers what `MessageV1` has parsed to `Dispatch`, and v2 messages,
  which are text frames, directly.

Abstractions: which texts are JSON, and what they hold, is a constant
(`Documents`); the model inserts into a map atomically; the callbacks of the
program return; the build is a release one, which is the default of
`CMakeLists.txt`, so that `assert` does nothing.

### How Timings corresponds to the code

The two records are `timings` and `association`, each setter and each interval is an
operator with its name; the actions are the places that call them: `Close` (time first,
then the refusal), the `connect()` of v1 (`StartConnect` reads the state, and the
session may end before `CloseFirst`), `connect_()`, the handlers, `associateSession()`,
the close callback and the ends of the v1 `connect()`. `Tick` may come between any two.
`Duration` keeps of a duration what an `int` does.

## 4. What TLC checks

`connection` (`MCConnection.cfg`): two callers next to the connector and the loop;
two connection objects, so that the pong timer of an ended session meets a new
session; two brokers, of which one is good and one may fail in every way, so that
failover goes back and forth between them; `connect()` with no limit and with two
attempts, so that the backoff reaches its limit and the limit of attempts is
exceeded; a pong threshold of two. About 2.5 million states, a minute.

- `OneSession`: there is at most one live session, the one `connection_handle_`
  refers to. It would fail if an attempt could start while an attempt that timed
  out may still open.
- `StateMatchesSession`: `closed` means no session is left; `open` and `closing`
  mean there is one that had been opened. It depends on `close()` and `onClose`
  excluding each other from the close frame to the store.
- `BackoffBounded`: 2, 4, 8, 16 or 32 s, over any number of calls. The comment at
  `connection.cc:311` speaks of a 1.5-2.5x multiplier; the integer division makes
  it exactly 2, and the documented maximum of 32 s holds.
- `AttemptsRotate`: two attempts in a row of one call never go to one broker.
- `DestroyedAlone`: what the destructor guarantees when it returns.
- `IndInv`: the inductive invariant of the proofs, including the `assert` at
  `connection.cc:275`.
- `ImplementsFSM`: the refinement of `ConnectionFSM`, with `state` the reported
  state and `session` the status of the session of `connection_handle_`. A
  `close()` that overtakes the report of `onOpen` makes `closing` precede `open`;
  the abstract specification allows this and says why it is harmless.

`connection_live` (`ConnectionLive.cfg`): one caller, one connection object, an
unreachable and a reachable broker, `connect()` with no limit and with one attempt, so
that the destructor meets an attempt that is still pending; handshakes that do not
outlast its wait. About 200 000 states, two minutes.

- `ConnectReturns`: `connect(0)` returns once nobody closes, pings or drops the
  connection any more. The notification of `onOpen` can be lost; the timeout of
  the wait is what makes this true.
- `CloseCompletes`: a connection that reports `closing` becomes `closed`.
- `DestructorReturns`: the two polling loops, the second close and the join end, from
  whatever state the session and the event loop are in.

`association` (`MCAssociation.cfg`): two message ids, calls of `connect()` with and
without a limit, any number of them. About 1.6 million states, a minute and a half.

- `AssociatedHonest`: `isAssociated()` is true only when the broker accepted the
  request of the present session. It depends on the reset under the mutex: the
  session of an earlier call can end, or open late, at any moment.
  The mutant does not compare the id of the response with that of the request, so that
  a late answer counts.
- `FailureHonest`: a messaging failure that `connect()` finds was reported after its own
  request was sent. Handlers read `in_progress` without the mutex, and the call for
  which they report may have timed out; the reset under the mutex, and the new one in
  `associateSession()`, are what makes this harmless.
- `OutcomeTrue`: success is reported only if the broker accepted, and
  `connection_association_response_failure` only if it refused.
- `UsesFSM`: the refinement of `ConnectionFSM`.
- `ConnectReturns`: `connect(0)` returns if handshakes succeed in the end, even when
  the broker drops each session as soon as it is open. This is what the mutex is
  held for (`v1/connector.cc:407-416`), and the mutant without it loops for ever. The
  premise `Reachable` excludes the known state of `connection_stuck`, the premise
  `[]~Overtaken` a handler that is still running when `connect()` stops waiting for the
  close of its session. That premise is needed: `association_slow` shows what happens
  without it.

Its fairness is that of `Connection`: the connector and the handlers run,
handshakes end, and callbacks of the program return, sooner or later. The peer need
not answer, so `connect()` may have to time out.

`monitor` (`Monitor.cfg`): two users and one task; every call with and without a limit.
Either user can run the loop itself, by `monitorConnection()`, so that one can be ending
while another begins; several tasks are in the theorems and in `monitor_starts`. The
constraint `NoRace` cuts the behaviours at their first race: every property here is
premised on there having been none, and `raced` stays true, so nothing is lost. About
170 000 states, a minute and a half.

- `OneConnector`: the documented use never brings two threads into `connect()`
  (`connector_base.hpp:110-111`), also when the task ended by itself or a start was
  repeated, by another user at the same time too, unless two starts raced. The mutant
  that does not test `is_monitoring_` breaks it without a race.
- `DestroyedQuiet`: the destructor leaves no task that could use the object, unless two
  starts raced. A task that ended by itself is not joined and may still unlock the
  mutex; that the mutex may then be gone is a hazard, not a property.
- `ExceptionDelivered`: what `stopMonitoring()` or `monitorConnection()` ends with is
  what ended the monitor that was started last.
- `StopReturns`: a call of `stopMonitoring()` or of the destructor returns although its
  notification can precede the wait, and although the task may be in `connect(0)`.
- `Reestablished`: a closed connection is opened again although the notification of
  its close can be lost.

The liveness properties have three hypotheses (`Undisturbed`): the known state of
`connection_stuck` does not occur, no starts raced, and from some time on handshakes
succeed. Without the last, `stopMonitoring()` waits for `connect(0)` for as long as no
broker answers. With `wait()` instead of `wait_until()` (a mutant) `Reestablished`
fails: the check interval is what makes it true.

`exchange` (`MCExchange.cfg`): both protocols; texts of one byte, which stand for the
12 documents of v1 and 12 of v2 that `MCExchange` lists (each library type, a
registered, an unregistered and an unknown one, envelopes with a field missing,
data that fits, does not fit or is no JSON, valid and invalid debug data); at most
one debug chunk and one change of the bytes; two threads that register one name,
one for JSON and one for binary data. A byte is less than 16, so that a size (one
byte) and the sums made of it wrap in messages of this length; damage writes
bytes that are a wrong descriptor, no version, a size that is too large and one
that makes the sum wrap. About 240 000 states, less than a minute.

- `InBounds`: iterator and remaining size always make up the buffer, whatever sizes
  are in it. Without the test at `message.cc:283` (a mutant) the sum wraps.
- `ParsedWellFormed`: what is parsed could have been constructed, and its chunks are
  the buffer.
- `RoundTrip`: what is sent is what arrives, except that a last chunk that is empty is
  dropped, because the loop wants more than a chunk's metadata.
- `Processed`: every message is disposed of.
- `SchemaFitsCallback`: of two threads that register one name, one gets both the
  schema and the callback, and the other is refused.
- `FlagsTruthful`: `has_data` and `invalid_data` are true; in v2 for types that were
  registered before the message arrived.
- `WellFormedHandled`: a well-formed message of a registered type reaches its callback,
  and the library's own callbacks find every field they read.
- `ErrorsUnderstood`: what `sendError()` of one client sends, the error callback of
  another one understands.
- `FailuresExplained`: the other side of `WellFormedHandled`, for messages that are not:
  an envelope is dropped only in v1 and with data that no schema described, is not
  handled only if its type had no callback when it arrived, and makes a callback throw
  only in v1, of the connector, without the data that it asserts it is given.

`timings` (`Timings.cfg`): a clock up to 6, an `int` that ends at 4, any number of
sessions. About 1.4 million states, half a minute.

- `IntervalsNested`: at any moment the TCP connection and the handshake are parts of the
  time to open, and that of the whole; for sessions short enough for an `int` of
  microseconds (35 minutes).
- `AssociationOrdered`: an association ends after it was made, also when a later
  `connect()` fails and records that failure over the times of the last session.
- `SameSession`: while the connection is open and `connect()` is not running, the times
  of the association are within those of the connection.
- `EndRecorded`: the end of a session that was associated is recorded, unless it came
  before `connect()` concluded that it was.
- `CloseKept`: an end, once recorded, stays until the next association.

Fairness. Threads run (weak fairness of every program step); websocketpp's
handshake and closing timers and the pong timer fire, so a session does not
connect or close for ever; terminated sessions get their handler. Strong
fairness is assumed only of the two acquisitions of `state_mutex_`: callers do
not call `close()` in an endless tight loop. Nothing is assumed of the network:
the peer need not close, drop or answer. `aborted` appears in the conclusions
because an exception that leaves the event loop ends the process.

Bounds. Two connection objects are enough because `OneSession` holds (and is
proved): a third could only be another ended session with an armed pong timer.
A new attempt waits for an object that is free, which in the liveness run (one
object) only shortens behaviours in which old pong timers are pending, and these
fire by fairness.

### Disagreements between code and documentation

Each is a run that expects a violation.

- `connection_stuck`: `connection.cc:253-254` says that after `connect_()` the state
  will become open or closed. When `get_connection` fails, `connect_()` has
  already stored `connecting` and throws; the state stays `connecting` and later
  calls of `connect()` only poll.
- `connection_fatal`: `connection.hpp:140-141` documents `connection_fatal_error` for
  attempts that do not succeed. In the branch of `closed` the result of the last
  attempt is not looked at; reconnecting with `connect(1)` always throws, also
  when the connection is open.
- `connection_onopen`: `connection.hpp:237-239` says that an exception of the open
  callback is filtered and the connection closed. The `close()` is outside of the
  `try` block and throws when another `close()`, or the peer, was first.
- `association_slow`: `v1/connector.cc:407-416` locks `session_association_` because a race
  with `onClose` "could leave pxp-agent retrying to connect indefinitely". The lock has
  the same effect when a handler is slow: `connect(0)` closes the open session and waits
  for its end for 5 s (`:384-387`), less than an error or TTL callback of the program
  takes; it locks the mutex and polls `closing`; the handler wants the mutex to report
  what it received (`:833`, `:865`), and `onClose` comes after it. With a limit of
  attempts `connect()` ends with `connection_fatal_error`. One thread in `connect()` is
  enough.
- `monitor_starts`: `connector_base.hpp:133-137` says that `startMonitoring()` simply
  returns in case of multiple calls, and is safe in a multithreading context. It tests
  the plain `is_monitoring_` and sets it without a lock (`connector_base.cc:241-242`):
  both of two calls can start a task. The second assignment of `monitor_thread_`
  detaches the first thread (which nobody joins: the destructor returns while its task
  is in the loop), and the task that ends first clears the flag for both, so that a
  `connect()` after it meets the other.
- `monitor_restart`: `connector_base.hpp:124-126` says that the task will periodically
  check the connection. `must_stop_monitoring_` is never reset, so the task of a
  monitor started after a `stopMonitoring()` returns at its first test, without
  an exception or a word.

Others were met on the way and have no run of their own:

- The destructor: with a handshake that outlasts the wait of `cleanUp()` (name
  resolution, TCP connect and TLS have timeouts of their own in websocketpp), `onOpen`
  comes after the second `tryClose()`. The open session is never closed and `join()`
  does not return while the broker keeps it. TLC finds this when `SlowHandshakes` is
  `TRUE` in `ConnectionLive.cfg`.
- `v1/connector.cc:362-366` closes a pending connection "to avoid waiting for an
  Associate Session response in vain". A session that is still connecting cannot be
  closed; `connect()` continues, and if that session opens and sends its request just
  before `reset()`, the request id is lost, the response is discarded, and `connect()`
  waits for its whole timeout. `Association!WaitsForRequest` is what the comment says;
  TLC refutes it as an invariant of `MCAssociation.cfg`.
- `v1/connector.cc:701-702` calls a `schema_not_found_error` "unexpected". Any v1 message
  with data whose type was not registered causes one: it counts as a failed
  deserialization and fails an association in progress, while the same message without
  data is only reported as not handled (`FailuresExplained` tells them apart). The
  `README.md:472-475`, too, says that a message of an unregistered type is ignored.
- The callbacks of the v1 connector assert that they are given JSON data
  (`v1/connector.cc:755-756` and alike). An envelope of their type without data is valid
  and reaches them; in a release build they throw (`FailuresExplained` allows it).
- `timings.hpp:72-79` says that the overall interval in microseconds is the time since
  the start. It is an `int`, which ends after 35 minutes; hence the premise `Short`.
- `timings.hpp:63-69` says that the closing handshake's interval is null unless this
  client started it. `close()` takes its time before it looks at the state, so that on a
  session that has ended the interval is negative.
- `timings.hpp:129-131` says that the duration of a session that was closed is that until
  its close. When the session is lost between the response and the moment `connect()`
  wakes up, its association is completed after its end, which is never recorded, and
  the duration grows (the exception `EndRecorded` makes).
- `README.md:472-475` says that a callback is called if the data validates. The callback
  is called with `invalid_data` for data that does not (`Dispatch`, `ValidateData`).
- `timings.hpp:129-132` documents the overall session interval as (close - start)
  and (now - start); `getOverallSessionInterval` subtracts `association`.
- "Time to failure" in `ConnectionTimings::toString()` is always 0, because the interval
  is null unless the connection is open.

Every property of a passing run has a mutant (the operators introduced by
"Mutant of"): with the mutated definition in place TLC finds it violated.

## 5. What is proved

The safety properties of the passing runs, for every value of the constants that
satisfies the assumptions of the modules. The properties are not
inductive by themselves; each module defines, as `IndInv`, the invariant that is,
and TLC has evaluated it on the instances of section 4.

| Theorems | Statement |
|---|---|
| `ConnectionProofs`: `TypeCorrect`, `Invariance`, `SingleSession`, `HonestReport`, `BackoffSafe`, `Failover`, `SafeDestruction`, `Implements` | `TypeOK`, `IndInv`, `OneSession`, `StateMatchesSession`, `BackoffBounded`, `AttemptsRotate`, `DestroyedAlone`; the refinement `ImplementsFSM` |
| `AssociationProofs`: `TypeCorrect`, `Invariance`, `Honest`, `HonestFailure`, `TrueOutcome`, `StaysWithinFSM` | `TypeOK`, `IndInv`, `AssociatedHonest`, `FailureHonest`, the action property `OutcomeTrue`; the refinement `UsesFSM` |
| `MonitorProofs`: `TypeCorrect`, `Invariance`, `ConnectsAlone`, `QuietAfterDestructor`, `Delivered` | `TypeOK`, `IndInv`, `OneConnector`, `DestroyedQuiet`, the action property `ExceptionDelivered` |
| `ExchangeProofs`: `TypeCorrect`, `Invariance`, `Fits`, `Truth`, `Handled`, `Errors`, `Explained`, `Bounded`, `Parsed`, `RoundTrips` | `TypeOK`, `IndInv`, `SchemaFitsCallback`, `FlagsTruthful`, `WellFormedHandled`, `ErrorsUnderstood`, `FailuresExplained`, `InBounds`, `ParsedWellFormed`, `RoundTrip` |
| `TimingsProofs`: `TypeCorrect`, `Invariance`, `Nested`, `Ordered`, `OneSessionTimed`, `EndNoted`, `EndKept` | `TypeOK`, `IndInv`, `IntervalsNested`, `AssociationOrdered`, `SameSession`, `EndRecorded`, the action property `CloseKept` |

### Connection

For any callers, sessions, brokers, thresholds and attempt limits that satisfy the
three assumptions of `Connection`: the threads are distinct, `NoSession` is no
session, the configuration is typed and there is at least one broker. `IndInv` has

- `MutexInv`: which program counters own `state_mutex_`;
- `SessionInv`: no session is left when an attempt is about to start (the state
  was read as `closed` or `initialized`, and only the connector can change it from
  there); between `close.send` and `close.set` the session is closing or ended but
  not reported, because the report needs `state_mutex_`; while `onOpen` runs its
  session may be closed by another thread but cannot end, because the loop is
  busy; `onEnd` runs for an ended session;
- `BackoffInv`: an iteration that has not set `got_max_backoff` started with at
  most 16 s;
- `RotateInv`: the broker of the last attempt is the current target until
  `switchWsUri()`, and only the first attempt of a call goes without it;
- `DestroyInv`: nobody enters during destruction, and the loop exits last.

Each part has a lemma with one step per action, in the order in which they
depend on each other. The refinement follows from `SessionInv`, step by step.

### Association

For any finite set of two or more message ids (`RequestsAssumption`). `SessionInv` says
what is reported of the session at each point of a handler and of a close; `AnswerInv`
that every answer on its way that is about the request of this session says what the
broker decided; `SuccessInv` that a success is that of this session, and that
`connect()`, once it waits without `in_progress`, waits for an answer that has come.
`AssociatedHonest` and `OutcomeTrue` follow from it, `UsesFSM` from `SessionInv`.
`FailureInv` says that no failure is there while `connect()` connects, and that one it
finds later came after its request, which is `FailureHonest`; the lemma `Received` is
why a handler that reports one runs over a session that was asked. Together with
`Implements`, what is proved of the v1 `connect()` rests on a state machine that
`Connection` is proved to implement.

### Monitor

For any finite sets of users and tasks, every limit, and both versions of the protocol,
and for starts that overlap. `PcInv` ties the place of each thread to the call it is in;
`CallInv` says which calls run next to each other; `LockInv` who holds `monitor_mutex_`;
`TaskInv` that there is one task in the loop, known to `is_monitoring_` and
`monitor_thread_` from the start to its end, and none once `stopMonitoring()` is about
to return; `ExceptionInv` that what is stored is what ended the monitor. The last two
hold as long as no two starts raced (`~raced => TaskInv /\ ExceptionInv`), the others
always: that `raced` is never withdrawn (`RacedStays`) lets a step assume the former of
the state it starts in. `OneConnector` and `DestroyedQuiet` follow from `TaskInv`,
`ExceptionDelivered` from `ExceptionInv`; each names the premise. `OneTask` is the part
of `TaskInv` that the header promises without one, and that the run `monitor_starts`
refutes.

### Exchange

For any texts, documents, registrations, number of threads that register, base and width
of a size and damage to the bytes. The assumptions are that the library is not one of
the threads and none of them is called like an outcome (`OutcomeAssumption`), that a
text is a sequence of bytes and the empty one no JSON (`EmptyAssumption`), that `Base`
and `SizeWidth` make a format with the chunk types of the code (`FormatAssumption`),
that the documents of an error message, serialized and parsed, are what they were
(`SentAssumption`, for `ErrorsUnderstood` only), and that no text of a sender is longer
than a size can tell (`SizesAssumption`, for `RoundTrip` only). The last is what a
32-bit `size_t`, which the module models, gives: a message whose size wraps does not fit
in memory. What arrives is not constrained: damaged bytes can declare any size.

`ExchangeProofs` shows that each of its steps is one of `Dispatch` and one of
`MessageV1`, whose invariants are proved apart:

- `RegistryInv`: what the connector registers stays, and a name is one thread's from
  the schema on. With `SchemaFitsCallback` it is inductive; the maps only grow
  (`Grows`), which all that follows uses.
- `MessageInv` and `ChunksInv`: what is known of the message at each stage, in terms
  that no registration changes: its envelope is valid, the types with a callback when
  it arrived have one still, and the flags are those of its data. `FlagsTruthful` is
  their consequence.
- `WellFormedHandled` is itself inductive with them. That the connectors' callbacks
  find each field they read is proved from the schemas of the library as they are
  (`FieldsOfValid`, `LibraryFields`), that an error message is well-formed from
  `createEnvelope()`, `sendV2` and the same schemas (`ErrorDocumentsV1`,
  `ErrorDocumentsV2`).
- `FailuresExplained` is inductive with them too: the types known when the message
  arrived have a schema still, and a callback of the connector that is given valid data
  does not throw, by the same lemma (`LibraryRead`).
- `ParseInv`: the parser is between two chunks; those read are valid and make up the
  buffer with what is left. No sum of sizes wraps: a size is below `SizeLimit`
  whatever its bytes are (`ValueBound`), the header is compared with it, and a chunk
  with what is left.
- `SentInv` and `ReadInv`: the chunks of the sender declare their sizes, and while
  nothing damages the bytes, what was read is a first part of what was sent. The next
  chunk then starts where the parser is (`NextChunk`), because `getSerialized()` of
  what was read is a first part of the buffer (`SerializedRest`), and it is read as it
  was written (`ChunkReadBack`), its size too (`ValueNumber`: deserializing a size in
  network order undoes its serialization). Only a last chunk without content can be
  left over, as the loop ends with `MetaSize` bytes to go; `RoundTrip` says that no
  more than this is lost.

Sizes and serializations are recursive functions. The induction theorems of the
library have an operator for a parameter, which the provers cannot instantiate, so
`MessageV1Proofs` states induction for sets of numbers (`Induction`, from the
well-foundedness of `<`) and proves from it that a function defined by primitive
recursion exists (`PrimitiveRecursion`) and what these functions return.

### Timings

For a clock and an `int` of any size (`ClockAssumption`). `PhaseInv` says where the
session is when a handler or `connect()` is about to take a time, `OrderInv` in which
order the times of a connection are, `AssociationInv` those of an association. The
width of an `int` matters only in `DurationKept`: the intervals are differences of
ordered times while the session is short, as `IntervalsNested` demands. `EndRecorded` is
inductive with `OrderInv`, which knows that no end is later than now.

### Only model-checked

- What a documented promise lacks: the violations of section 4 are counterexamples of
  TLC.
- Liveness: `ConnectReturns`, `CloseCompletes` and `DestructorReturns` of `Connection`,
  `ConnectReturns` of `Association`, `StopReturns` and `Reestablished` of `Monitor`,
  `Processed` of `Exchange`. Fairness is defined with `ENABLED`, which is outside of
  what the prover handles.

## 6. Not modelled

`PROJECT.json` lists every component with its status. Left out:

- TLS, certificates and the client metadata read from them, which is pure I/O in
  a constructor; that the files can be replaced later is a choice in
  `GetConnectionFails`.
- Sockets and frames (websocketpp); parsing of JSON (leatherman, RapidJSON); valijson and
  its vendored RapidJSON adapter, of which `Schemas` keeps what the schemas of the library
  rely on; sub-schemas within sub-schemas.
- Data races on plain members and on `std::map`, which are undefined behaviour: the
  models access them atomically and the hazards name them. The test of `is_monitoring_` and
  the assignment after it are two accesses (`Check`, `SetMonitoring`).
- Uses the headers forbid or do not allow: two threads in `connect()`, `connect()` next to
  a monitor, `stopMonitoring()` or the destructor next to a `startMonitoring()`.
- The program's own callback for associate responses, which runs under the mutex and can
  only delay; those for errors and TTL expiry are in `Association`.
- `toString()` of messages, chunks and timings; logging, locale.
- The tutorial programs: ten versions of an agent and a controller that use the
  library, examples rather than a part of it. They are about a quarter of the
  lines of the repository.
