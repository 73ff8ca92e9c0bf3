------------------------------ MODULE Dispatch ------------------------------
(***************************************************************************)
(* From a message to its callback, in both connectors: processMessage()    *)
(* and getParsedChunks() on the event loop thread, the Validator, and      *)
(* registerMessageCallback(), which the program's threads may call at any  *)
(* time (lib/src/connector/{v1,v2}/connector.cc, connector_base.cc,        *)
(* lib/src/protocol/{v1,v2}/message.cc, lib/src/validator/validator.cc).   *)
(*                                                                         *)
(* A text is a member of an arbitrary set; Documents says which texts are  *)
(* JSON and what they hold.  The build is a release one, without asserts.  *)
(***************************************************************************)
EXTENDS Schemas

CONSTANTS
    Registrars,         \* threads that register a schema and a callback
    Library,            \* the owner of the connector's own callbacks
    Registration,       \* by protocol, the [name, schema] each registers
    Documents           \* by protocol, the JSON texts, with what they hold

ASSUME LibraryAssumption == Library \notin Registrars

\* No owner of a callback is called like an outcome.
ASSUME OutcomeAssumption ==
    /\ Registrars \cap {"none", "undeserialized", "thrown", "unhandled"} = {}
    /\ Library \notin {"none", "undeserialized", "thrown", "unhandled"}

ASSUME EmptyAssumption == \A p \in {"v1", "v2"} : NoText \notin DOMAIN Documents[p]

VARIABLES
    protocol,       \* the connector: "v1" or "v2"
    schemas,        \* Validator::schema_map_
    callbacks,      \* schema_callback_pairs_, to the owner of the callback
    registering,    \* where each registrar is
    incoming,       \* the message being processed
    stage,          \* where processMessage() is
    chunks,         \* the ParsedChunks
    outcome,        \* how it ended, or whose callback returned
    known           \* the types with a callback when the message arrived

registry     == <<schemas, callbacks, registering>>
dispatchVars == <<protocol, registry, incoming, stage, chunks, outcome, known>>

NoMessage == [envelope |-> NoText, has_data |-> FALSE, data |-> NoText, debug |-> <<>>]
NoChunks  == [has_data |-> FALSE, invalid_data |-> FALSE, data_type |-> "Json",
              num_debug |-> 0, num_invalid_debug |-> 0]

Stages == {"idle", "envelope", "content_type", "data", "callback", "done"}

\* The constructors of the connectors: their schemas, their callbacks.
ConnectorV1 ==
    /\ schemas = LibrarySchemasV1
    /\ callbacks = [n \in {"associate_response", "error_message", "ttl_expired"}
                      |-> Library]

ConnectorV2 ==
    /\ schemas = LibrarySchemasV2
    /\ callbacks = [n \in {"error_message"} |-> Library]

DispatchInit ==
    /\ \/ protocol = "v1" /\ ConnectorV1
       \/ protocol = "v2" /\ ConnectorV2
    /\ registering = [r \in Registrars |-> "not"]
    /\ incoming = NoMessage /\ stage = "idle" /\ chunks = NoChunks
    /\ outcome = "none" /\ known = {}

includesSchema(name)       == name \in DOMAIN schemas
getSchemaContentType(name) == schemas[name].content_type

Insert(map, name, value) ==     \* std::map::insert: an entry stays what it is
    [n \in DOMAIN map \cup {name} |-> IF n \in DOMAIN map THEN map[n] ELSE value]

-----------------------------------------------------------------------------
(* registerMessageCallback().                                              *)

Name(r) == Registration[protocol][r].name

\* Mutant of registerSchema: a name that is taken is not refused.
RegisterUnchecked(r) ==
    /\ registering[r] = "not"
    /\ registering' = [registering EXCEPT ![r] = "schema"]
    /\ schemas' = Insert(schemas, Name(r), Registration[protocol][r].schema)
    /\ UNCHANGED <<protocol, callbacks, incoming, stage, chunks, outcome, known>>

\* A name that is taken is refused with schema_redefinition_error.
registerSchema(r) ==
    /\ registering[r] = "not"
    /\ \/ /\ includesSchema(Name(r))
          /\ registering' = [registering EXCEPT ![r] = "refused"]
          /\ UNCHANGED schemas
       \/ /\ ~includesSchema(Name(r))
          /\ registering' = [registering EXCEPT ![r] = "schema"]
          /\ schemas' = Insert(schemas, Name(r), Registration[protocol][r].schema)
    /\ UNCHANGED <<protocol, callbacks, incoming, stage, chunks, outcome, known>>

insertCallback(r) ==
    /\ registering[r] = "schema"
    /\ callbacks' = Insert(callbacks, Name(r), r)
    /\ registering' = [registering EXCEPT ![r] = "done"]
    /\ UNCHANGED <<protocol, schemas, incoming, stage, chunks, outcome, known>>

Register == \E r \in Registrars : registerSchema(r) \/ insertCallback(r)

-----------------------------------------------------------------------------
(* getParsedChunks().                                                      *)

Text == Documents[protocol]
Parses(text) == text \in DOMAIN Text

Validates(text, name) ==
    Parses(text) /\ validateJsonContainer(Text[text], schemas[name])

Envelope    == Text[incoming.envelope]
MessageType == Envelope.message_type

\* v1: a chunk of its own; v2: a field of the envelope.
HasData  == IF protocol = "v1" THEN incoming.has_data ELSE Includes(Envelope, "data")
DataText == IF protocol = "v1" THEN incoming.data ELSE Envelope.data

DebugValid(text) ==
    /\ Validates(text, "debug_schema")
    /\ \A hop \in Items(Text[text], "hops") :
          validateJsonContainer(hop, schemas["debug_item_schema"])

ValidDebug == {i \in DOMAIN incoming.debug : DebugValid(incoming.debug[i])}

\* Mutant of DebugParsed: every debug chunk is counted as an invalid one.
DebugAllCounted ==
    [chunks EXCEPT !.num_debug = Cardinality(ValidDebug),
                   !.num_invalid_debug = Len(incoming.debug)]

DebugParsed ==
    [chunks EXCEPT !.num_debug = Cardinality(ValidDebug),
                   !.num_invalid_debug =
                       Len(incoming.debug) - Cardinality(ValidDebug)]

Receive(m) ==
    /\ stage = "idle"
    /\ incoming' = m /\ stage' = "envelope" /\ known' = DOMAIN callbacks
    /\ UNCHANGED <<protocol, registry, chunks, outcome>>

Ends(o) ==
    /\ stage' = "done" /\ outcome' = o
    /\ UNCHANGED <<protocol, registry, incoming, chunks, known>>

Continues(s) ==
    /\ stage' = s
    /\ UNCHANGED <<protocol, registry, incoming, outcome, known>>

\* What is caught is logged, and reported to a v1 association in progress; v2
\* calls getParsedChunks() after its try block, and onMessage() catches the error.
ParseEnvelope ==
    /\ stage = "envelope"
    /\ \/ ~Parses(incoming.envelope) /\ Ends("undeserialized")
       \/ /\ Parses(incoming.envelope)
          /\ ~Validates(incoming.envelope, "envelope_schema")
          /\ Ends(IF protocol = "v1" THEN "undeserialized" ELSE "thrown")
       \/ /\ Validates(incoming.envelope, "envelope_schema")
          /\ chunks' = DebugParsed
          /\ Continues(IF ~HasData THEN "callback"
                       ELSE IF protocol = "v1" THEN "content_type" ELSE "data")

\* Validator::getSchemaContentType(), of v1: binary data is taken as it is.
ContentType ==
    /\ stage = "content_type"
    /\ \/ ~includesSchema(MessageType) /\ Ends("undeserialized")
       \/ /\ includesSchema(MessageType) /\ getSchemaContentType(MessageType) = "Json"
          /\ Continues("data") /\ UNCHANGED chunks
       \/ /\ includesSchema(MessageType) /\ getSchemaContentType(MessageType) = "Binary"
          /\ chunks' = [chunks EXCEPT !.has_data = TRUE, !.data_type = "Binary"]
          /\ Continues("callback")

DataValid == includesSchema(MessageType) /\ Validates(DataText, MessageType)

\* Mutant of ValidateData: what does not validate is left out.
ValidateDropped ==
    /\ stage = "data"
    /\ chunks' = [chunks EXCEPT !.has_data = DataValid]
    /\ Continues("callback")

\* Validator::validate(); any failure of it becomes a flag.
ValidateData ==
    /\ stage = "data"
    /\ chunks' = [chunks EXCEPT !.has_data = TRUE, !.invalid_data = ~DataValid]
    /\ Continues("callback")

-----------------------------------------------------------------------------
(* The callbacks.                                                          *)

Gets(doc, field, type) == Includes(doc, field) /\ doc.fields[field] = type

\* ParsedChunks::data is an empty object unless the data is valid JSON.
Data == IF chunks.has_data /\ ~chunks.invalid_data /\ chunks.data_type = "Json"
        THEN Text[DataText] ELSE Object(<<>>)

\* processMessage() reads the envelope, the connector's callbacks the data too.
ReadsEnvelope ==
    /\ Gets(Envelope, "message_type", "String") /\ Gets(Envelope, "id", "String")
    /\ Gets(Envelope, "sender", "String")
          \/ (protocol = "v2" /\ ~Includes(Envelope, "sender"))

associateResponseCallback == Gets(Data, "success", "Bool") /\ Gets(Data, "id", "String")
TTLMessageCallback        == Gets(Data, "id", "String")
errorMessageCallbackV1    == Gets(Data, "description", "String")
\* Mutant of errorMessageCallbackV2: the description is taken to be there.
ErrorUnchecked            == Data.type = "String"
errorMessageCallbackV2    ==
    chunks.has_data /\ ~chunks.invalid_data => Data.type = "String"

\* Does the connector's callback find what it reads, or does it throw?
LibraryCallback ==
    CASE MessageType = "associate_response" -> associateResponseCallback
      [] MessageType = "ttl_expired"        -> TTLMessageCallback
      [] MessageType = "error_message"      ->
            IF protocol = "v1" THEN errorMessageCallbackV1 ELSE errorMessageCallbackV2

ExecuteCallback ==
    /\ stage = "callback"
    /\ Ends(CASE ~ReadsEnvelope -> "thrown"
              [] ReadsEnvelope /\ MessageType \notin DOMAIN callbacks -> "unhandled"
              [] ReadsEnvelope /\ MessageType \in DOMAIN callbacks ->
                    IF callbacks[MessageType] = Library /\ ~LibraryCallback
                    THEN "thrown" ELSE callbacks[MessageType])

\* processMessage() has returned, or onMessage() caught what it threw.
Return ==
    /\ stage' = "idle" /\ incoming' = NoMessage /\ chunks' = NoChunks
    /\ outcome' = "none" /\ known' = {}
    /\ UNCHANGED <<protocol, registry>>

processMessage == ParseEnvelope \/ ContentType \/ ValidateData \/ ExecuteCallback

-----------------------------------------------------------------------------
(* What the connectors send.                                               *)

toText(p, doc) == CHOOSE text \in DOMAIN Documents[p] : Documents[p][text] = doc
toString(doc)  == toText(protocol, doc)

\* createEnvelope() of v1.
createEnvelope(type, destination_report) ==
    LET fields == {"id", "message_type", "targets", "expires", "sender"} \cup
                      (IF destination_report THEN {"destination_report"} ELSE {})
    IN  [Object([f \in fields |-> CASE f = "targets" -> "Array"
                                    [] f = "destination_report" -> "Bool"
                                    [] OTHER -> "String"])
            EXCEPT !.message_type = type]

\* The envelope, data and all, that v2's send() builds.
sendV2(type, type_of_data, data, in_reply_to) ==
    LET fields == {"id", "message_type", "target", "sender", "data"} \cup
                      (IF in_reply_to THEN {"in_reply_to"} ELSE {})
    IN  [Object([f \in fields |-> IF f = "data" THEN type_of_data ELSE "String"])
            EXCEPT !.message_type = type, !.data = data]

\* Mutant of sendErrorData: v1 forgets the description.
ErrorOfNothing ==
    IF protocol = "v1" THEN Object([id |-> "String"]) ELSE Scalar("String")

\* The data of sendError(): v1 wraps the description in an object.
sendErrorData ==
    IF protocol = "v1" THEN Object([id |-> "String", description |-> "String"])
    ELSE Scalar("String")

\* What becomes of these documents on their way is JSON that holds the same.
ASSUME SentAssumption ==
    /\ {createEnvelope("error_message", FALSE),
        Object([id |-> "String", description |-> "String"])}
          \subseteq Range(Documents["v1"])
    /\ {Scalar("String"),
        sendV2("error_message", "String", toText("v2", Scalar("String")), TRUE)}
          \subseteq Range(Documents["v2"])

ErrorMessage ==
    IF protocol = "v1"
    THEN [NoMessage EXCEPT !.envelope = toString(createEnvelope("error_message", FALSE)),
                           !.has_data = TRUE, !.data = toString(sendErrorData)]
    ELSE [NoMessage EXCEPT !.envelope =
             toString(sendV2("error_message", sendErrorData.type,
                             toString(sendErrorData), TRUE))]

-----------------------------------------------------------------------------
(* The inductive invariant, with DispatchTypeOK.                           *)

LibrarySchemas == IF protocol = "v1" THEN LibrarySchemasV1 ELSE LibrarySchemasV2

LibraryNames == IF protocol = "v1"
                THEN {"associate_response", "error_message", "ttl_expired"}
                ELSE {"error_message"}

\* What the connector registers stays what it is; of the threads that register a
\* name, one has it, from the schema on.
RegistryInv ==
    /\ \A n \in DOMAIN LibrarySchemas :
          n \in DOMAIN schemas /\ schemas[n] = LibrarySchemas[n]
    /\ \A n \in LibraryNames : n \in DOMAIN callbacks
    /\ \A n \in DOMAIN callbacks : callbacks[n] = Library <=> n \in LibraryNames
    /\ \A r \in Registrars :
          /\ registering[r] = "schema" =>
                Name(r) \in DOMAIN schemas \ DOMAIN callbacks
          /\ registering[r] = "done" => Name(r) \in DOMAIN callbacks
          /\ registering[r] \in {"schema", "done"} =>
                \A q \in Registrars \ {r} :
                   registering[q] \in {"schema", "done"} => Name(q) # Name(r)

\* What is known of the message at each stage, whoever registers in between.
MessageInv ==
    /\ incoming.has_data \in BOOLEAN
    /\ Len(incoming.debug) \in Nat
    /\ DOMAIN incoming.debug = 1 .. Len(incoming.debug)
    /\ stage = "idle" => incoming = NoMessage /\ known = {}
    /\ known \subseteq DOMAIN callbacks
    /\ stage \notin {"idle", "done"} => LibraryNames \subseteq known
    /\ stage \in {"content_type", "data", "callback"} =>
          Validates(incoming.envelope, "envelope_schema")
    /\ stage \in {"content_type", "data"} => HasData
    /\ stage = "content_type" => protocol = "v1"
    /\ stage = "data" /\ protocol = "v1" =>
          includesSchema(MessageType) /\ getSchemaContentType(MessageType) = "Json"
    /\ stage = "done" =>
          LibraryNames \subseteq known \/ (protocol = "v1" /\ incoming = NoMessage)

\* What is known of the ParsedChunks.
ChunksInv ==
    /\ chunks \in [has_data : BOOLEAN, invalid_data : BOOLEAN,
                   data_type : ContentTypes, num_debug : Nat, num_invalid_debug : Nat]
    /\ stage \in {"idle", "envelope"} => chunks = NoChunks
    /\ stage \in {"content_type", "data"} =>
          ~chunks.has_data /\ ~chunks.invalid_data /\ chunks.data_type = "Json"
    /\ stage = "callback" =>
          /\ chunks.has_data <=> HasData
          /\ ~HasData => ~chunks.invalid_data /\ chunks.data_type = "Json"
          /\ HasData /\ chunks.data_type = "Binary" =>
                /\ protocol = "v1" /\ ~chunks.invalid_data
                /\ includesSchema(MessageType)
                /\ getSchemaContentType(MessageType) = "Binary"
          /\ HasData /\ chunks.data_type = "Json" =>
                /\ protocol = "v1" =>
                      /\ includesSchema(MessageType)
                      /\ getSchemaContentType(MessageType) = "Json"
                /\ includesSchema(MessageType) /\ (protocol = "v1" \/ MessageType \in known)
                      => (chunks.invalid_data <=> ~Validates(DataText, MessageType))

-----------------------------------------------------------------------------
DispatchTypeOK ==
    /\ protocol \in {"v1", "v2"}
    /\ stage \in Stages
    /\ DOMAIN callbacks \subseteq DOMAIN schemas
    /\ \A n \in DOMAIN callbacks : callbacks[n] \in Registrars \cup {Library}
    /\ registering \in [Registrars -> {"not", "schema", "done", "refused"}]
    /\ chunks.num_debug + chunks.num_invalid_debug <= Len(incoming.debug)
    /\ outcome \in {"none", "undeserialized", "thrown", "unhandled", Library}
                      \cup Registrars

\* Threads that register the same name do not mix their entries: one of them has
\* both the schema and the callback, the others are refused, although the two
\* maps are changed one after the other (registerMessageCallback()).
SchemaFitsCallback ==
    \A r \in Registrars :
       registering[r] \in {"done", "schema"} =>
          /\ schemas[Name(r)] = Registration[protocol][r].schema
          /\ registering[r] = "done" => callbacks[Name(r)] = r

\* What a callback is told of the data is true: has_data says that data was sent,
\* invalid_data that it is not what the schema describes, whichever thread
\* registers what in the meantime.  In v2, where a type without a schema is not
\* an error, only for types registered before the message arrived.
FlagsTruthful ==
    stage = "callback" /\ (protocol = "v1" \/ MessageType \in known) =>
        /\ chunks.has_data = HasData
        /\ chunks.has_data /\ chunks.data_type = "Json" =>
              chunks.invalid_data = ~Validates(DataText, MessageType)
        /\ chunks.data_type = "Binary" => ~chunks.invalid_data

WellFormed ==
    /\ Validates(incoming.envelope, "envelope_schema")
    /\ MessageType \in known
    /\ HasData \/ callbacks[MessageType] # Library
    /\ HasData => getSchemaContentType(MessageType) = "Binary"
                     \/ Validates(DataText, MessageType)

\* A message whose envelope and data are what their schemas describe, and whose
\* type was registered when it arrived, reaches that callback, which finds every
\* field that it reads (processMessage() and the connectors' callbacks; the
\* program's own callbacks are taken to return).
WellFormedHandled ==
    stage = "done" /\ WellFormed => outcome = callbacks[MessageType]

\* The error messages one client sends with sendError() are understood by the
\* error callback of another.
ErrorsUnderstood ==
    stage = "done" /\ incoming = ErrorMessage => outcome = Library

\* A message that is an envelope misses its callback for a known reason only.  It
\* is dropped or unhandled if its type had none when it arrived, dropped in v1 if
\* it brings data that no schema describes; and only a callback of the v1
\* connector throws, given no data or data that is not valid.  (The comment of
\* processMessage() calls the drop unexpected, and the asserts of these callbacks
\* take the data for granted; both happen.)
FailuresExplained ==
    stage = "done" /\ Validates(incoming.envelope, "envelope_schema") =>
        /\ outcome \in {"undeserialized", "unhandled"} => MessageType \notin known
        /\ outcome = "undeserialized" => protocol = "v1" /\ HasData
        /\ outcome = "thrown" =>
              /\ protocol = "v1" /\ MessageType \in LibraryNames
              /\ ~(HasData /\ Validates(DataText, MessageType))
=============================================================================
