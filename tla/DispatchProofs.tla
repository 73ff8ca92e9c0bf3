--------------------------- MODULE DispatchProofs ---------------------------
(***************************************************************************)
(* Lemmas about Dispatch, for ExchangeProofs: what a document that is      *)
(* valid has, what every step of Dispatch preserves, and why a message     *)
(* that is well-formed reaches its callback.                               *)
(*                                                                         *)
(* The maps only grow (Grows): what was registered when a message arrived  *)
(* is what its type is validated and dispatched by, whoever registers in   *)
(* between.                                                                *)
(***************************************************************************)
EXTENDS Dispatch, FiniteSetTheorems, TLAPS

-----------------------------------------------------------------------------
(* Schemas.                                                                *)

\* Of the type tests only those of Any and Double take other types.
LEMMA MatchesExact ==
    ASSUME NEW type, NEW constraint, constraint \notin {"Any", "Double"},
           Matches(type, constraint)
    PROVE  type = constraint
  BY DEF Matches

\* What a document that is valid has, of the fields its schema describes.
LEMMA FieldsOfValid ==
    ASSUME NEW fields, NEW doc, validateJsonContainer(doc, Describe(fields))
    PROVE  /\ doc.type = "Object"
           /\ \A f \in fields :
                 /\ f[3] => Includes(doc, f[1])
                 /\ Includes(doc, f[1]) /\ f[2] \notin {"Any", "Double"} =>
                       doc.fields[f[1]] = f[2]
<1>1. Describes(Describe(fields), doc)
  BY DEF validateJsonContainer
<1>2. Describe(fields).type = "Object"
  BY DEF Describe, Schema
<1>3. doc.type = "Object"
  BY <1>1, <1>2, MatchesExact DEF Describes
<1>4. ASSUME NEW f \in fields
      PROVE  <<f[1], f[2]>> \in Describe(fields).properties
             /\ (f[3] => f[1] \in Describe(fields).required)
  BY DEF Describe, Schema
<1>5. ASSUME NEW f \in fields, Includes(doc, f[1]), f[2] \notin {"Any", "Double"}
      PROVE  doc.fields[f[1]] = f[2]
  <2> DEFINE p == <<f[1], f[2]>>
  <2>1. p \in Describe(fields).properties /\ p[1] = f[1] /\ p[2] = f[2]
    BY <1>4
  <2>2. Matches(doc.fields[p[1]], p[2])
    BY <1>1, <1>3, <1>5, <2>1 DEF Describes
  <2> QED BY <1>5, <2>1, <2>2, MatchesExact
<1>6. ASSUME NEW f \in fields, f[3] PROVE Includes(doc, f[1])
  BY <1>1, <1>3, <1>4, <1>6 DEF Describes
<1> QED BY <1>3, <1>5, <1>6

\* One of these fields has its type, if the schema requires it or it is there.
LEMMA FieldGot ==
    ASSUME NEW fields, NEW doc, validateJsonContainer(doc, Describe(fields)),
           NEW name, NEW type, type \notin {"Any", "Double"}, NEW required,
           <<name, type, required>> \in fields
    PROVE  required \/ Includes(doc, name) => Gets(doc, name, type)
<1> DEFINE f == <<name, type, required>>
<1>1. f \in fields /\ f[1] = name /\ f[2] = type /\ f[3] = required
  OBVIOUS
<1> HIDE DEF f
<1> QED BY <1>1, FieldsOfValid DEF Gets

\* A document that has what the fields ask for is valid.
LEMMA ValidByFields ==
    ASSUME NEW fields, NEW doc, doc.type = "Object",
           \A f \in fields :
              /\ f[3] => Includes(doc, f[1])
              /\ Includes(doc, f[1]) => f[2] \in {"Any", doc.fields[f[1]]}
    PROVE  validateJsonContainer(doc, Describe(fields))
<1> DEFINE s == Describe(fields)
<1>1. /\ s.type = "Object" /\ s.subschemas = {}
      /\ s.properties = {<<f[1], f[2]>> : f \in fields}
      /\ s.required = {f[1] : f \in {g \in fields : g[3]}}
  BY DEF Describe, Schema
<1>2. ASSUME NEW p \in s.properties, Includes(doc, p[1])
      PROVE  Matches(doc.fields[p[1]], p[2])
  <2>1. PICK f \in fields : p = <<f[1], f[2]>>
    BY <1>1
  <2> QED BY <1>2, <2>1 DEF Matches
<1>3. ASSUME NEW n \in s.required PROVE Includes(doc, n)
  BY <1>1
<1> HIDE DEF s
<1>4. Describes(s, doc)
  BY <1>1, <1>2, <1>3 DEF Describes, Matches
<1>5. validateJsonContainer(doc, s)
  BY <1>1, <1>4 DEF validateJsonContainer
<1> QED BY <1>5 DEF s

\* The schema of the envelope describes all that processMessage() reads.
LEMMA EnvelopeV1 ==
    ASSUME NEW doc,
           validateJsonContainer(doc, LibrarySchemasV1["envelope_schema"])
    PROVE  /\ Gets(doc, "message_type", "String") /\ Gets(doc, "id", "String")
           /\ Gets(doc, "sender", "String")
<1> DEFINE fields ==
      {<<"id", "String", TRUE>>, <<"message_type", "String", TRUE>>,
       <<"expires", "String", TRUE>>, <<"targets", "Array", TRUE>>,
       <<"sender", "String", TRUE>>,
       <<"destination_report", "Bool", FALSE>>,
       <<"in-reply-to", "String", FALSE>>}
<1>1. validateJsonContainer(doc, Describe(fields))
  BY DEF LibrarySchemasV1, EnvelopeSchemaV1
<1>2. /\ <<"id", "String", TRUE>> \in fields
      /\ <<"message_type", "String", TRUE>> \in fields
      /\ <<"sender", "String", TRUE>> \in fields
  OBVIOUS
<1> HIDE DEF fields
<1> QED BY <1>1, <1>2, FieldGot DEF Gets

\* Of v2 too, where the sender is optional.
LEMMA EnvelopeV2 ==
    ASSUME NEW doc,
           validateJsonContainer(doc, LibrarySchemasV2["envelope_schema"])
    PROVE  /\ Gets(doc, "message_type", "String") /\ Gets(doc, "id", "String")
           /\ Includes(doc, "sender") => Gets(doc, "sender", "String")
<1> DEFINE fields ==
      {<<"id", "String", TRUE>>, <<"message_type", "String", TRUE>>,
       <<"target", "String", FALSE>>, <<"sender", "String", FALSE>>,
       <<"in_reply_to", "String", FALSE>>, <<"data", "Any", FALSE>>}
<1>1. validateJsonContainer(doc, Describe(fields))
  BY DEF LibrarySchemasV2
<1>2. /\ <<"id", "String", TRUE>> \in fields
      /\ <<"message_type", "String", TRUE>> \in fields
      /\ <<"sender", "String", FALSE>> \in fields
  OBVIOUS
<1> HIDE DEF fields
<1> QED BY <1>1, <1>2, FieldGot DEF Gets

\* The schemas of the connectors' own messages describe what their callbacks read.
LEMMA LibraryFields ==
    /\ \A doc : validateJsonContainer(doc, LibrarySchemasV1["associate_response"])
                  => Gets(doc, "success", "Bool") /\ Gets(doc, "id", "String")
    /\ \A doc : validateJsonContainer(doc, LibrarySchemasV1["ttl_expired"])
                  => Gets(doc, "id", "String")
    /\ \A doc : validateJsonContainer(doc, LibrarySchemasV1["error_message"])
                  => Gets(doc, "description", "String")
    /\ \A doc : validateJsonContainer(doc, LibrarySchemasV2["error_message"])
                  => doc.type = "String"
<1>1. ASSUME NEW doc,
             validateJsonContainer(doc, LibrarySchemasV1["associate_response"])
      PROVE  Gets(doc, "success", "Bool") /\ Gets(doc, "id", "String")
  <2> DEFINE fields ==
        {<<"id", "String", TRUE>>, <<"success", "Bool", TRUE>>,
         <<"reason", "String", FALSE>>}
  <2>1. validateJsonContainer(doc, Describe(fields))
    BY <1>1 DEF LibrarySchemasV1
  <2>2. /\ <<"id", "String", TRUE>> \in fields
        /\ <<"success", "Bool", TRUE>> \in fields
    OBVIOUS
  <2> HIDE DEF fields
  <2> QED BY <2>1, <2>2, FieldGot DEF Gets
<1>2. ASSUME NEW doc,
             validateJsonContainer(doc, LibrarySchemasV1["ttl_expired"])
      PROVE  Gets(doc, "id", "String")
  <2> DEFINE fields == {<<"id", "String", TRUE>>}
  <2>1. validateJsonContainer(doc, Describe(fields))
    BY <1>2 DEF LibrarySchemasV1
  <2>2. <<"id", "String", TRUE>> \in fields
    OBVIOUS
  <2> HIDE DEF fields
  <2> QED BY <2>1, <2>2, FieldGot
<1>3. ASSUME NEW doc,
             validateJsonContainer(doc, LibrarySchemasV1["error_message"])
      PROVE  Gets(doc, "description", "String")
  <2> DEFINE fields ==
        {<<"description", "String", TRUE>>, <<"id", "String", FALSE>>}
  <2>1. validateJsonContainer(doc, Describe(fields))
    BY <1>3 DEF LibrarySchemasV1
  <2>2. <<"description", "String", TRUE>> \in fields
    OBVIOUS
  <2> HIDE DEF fields
  <2> QED BY <2>1, <2>2, FieldGot DEF Gets
<1>4. ASSUME NEW doc,
             validateJsonContainer(doc, LibrarySchemasV2["error_message"])
      PROVE  doc.type = "String"
  BY <1>4, MatchesExact DEF LibrarySchemasV2, Schema, validateJsonContainer,
     Describes
<1> QED BY <1>1, <1>2, <1>3, <1>4

\* All of them are schemas of JSON data.
LEMMA LibraryContent ==
    /\ LibraryNames \subseteq DOMAIN LibrarySchemas
    /\ "envelope_schema" \in DOMAIN LibrarySchemas \ LibraryNames
    /\ \A n \in LibraryNames : LibrarySchemas[n].content_type = "Json"
<1>1. \A fields : Describe(fields).content_type = "Json"
  BY DEF Describe, Schema
<1>2. Schema("Json", "String").content_type = "Json"
  BY DEF Schema
<1> QED BY <1>1, <1>2 DEF LibraryNames, LibrarySchemas, LibrarySchemasV1,
   LibrarySchemasV2

-----------------------------------------------------------------------------
(* The registry.                                                           *)

\* The steps of Dispatch, as Exchange composes them.
DispatchStep ==
    \/ Register
    \/ /\ Receive(incoming')
       /\ incoming'.has_data \in BOOLEAN
       /\ Len(incoming'.debug) \in Nat
       /\ DOMAIN incoming'.debug = 1 .. Len(incoming'.debug)
    \/ processMessage
    \/ stage = "idle" /\ protocol = "v1" /\ Ends("undeserialized")
    \/ stage = "done" /\ Return
    \/ UNCHANGED dispatchVars

\* What was registered stays registered.
Grows ==
    /\ protocol' = protocol
    /\ \A n \in DOMAIN schemas :
          n \in DOMAIN schemas' /\ schemas'[n] = schemas[n]
    /\ \A n \in DOMAIN callbacks :
          n \in DOMAIN callbacks' /\ callbacks'[n] = callbacks[n]

\* Only Register changes the registry.
LEMMA RegistryKept ==
    ASSUME DispatchStep, ~Register PROVE UNCHANGED <<protocol, registry>>
  BY DEF DispatchStep, Receive, processMessage, ParseEnvelope, ContentType,
     ValidateData, ExecuteCallback, Ends, Continues, Return, dispatchVars,
     registry

\* What is registered stays registered.
LEMMA RegistryGrows == Register => Grows
  BY DEF Register, registerSchema, insertCallback, Insert, Grows

\* Registering keeps what is registered, and each name to one thread.
LEMMA RegistryNext ==
    ASSUME DispatchTypeOK, RegistryInv, SchemaFitsCallback, DispatchStep
    PROVE  Grows /\ RegistryInv' /\ SchemaFitsCallback'
<1> USE DEF Name
<1>1. CASE ~Register
  BY <1>1, RegistryKept DEF registry, Grows, RegistryInv, SchemaFitsCallback,
     LibrarySchemas, LibraryNames
<1>2. ASSUME NEW r \in Registrars, registerSchema(r)
      PROVE  Grows /\ RegistryInv' /\ SchemaFitsCallback'
  <2>1. CASE includesSchema(Name(r))
    <3>1. /\ registering' = [registering EXCEPT ![r] = "refused"]
          /\ UNCHANGED <<protocol, schemas, callbacks>>
      BY <1>2, <2>1 DEF registerSchema
    <3> QED BY <3>1 DEF Grows, RegistryInv, SchemaFitsCallback, DispatchTypeOK,
            LibrarySchemas, LibraryNames
  <2>2. CASE ~includesSchema(Name(r))
    <3>1. /\ registering' = [registering EXCEPT ![r] = "schema"]
          /\ schemas' = Insert(schemas, Name(r), Registration[protocol][r].schema)
          /\ UNCHANGED <<protocol, callbacks>>
      BY <1>2, <2>2 DEF registerSchema
    <3>2. /\ DOMAIN schemas' = DOMAIN schemas \cup {Name(r)}
          /\ \A n \in DOMAIN schemas : schemas'[n] = schemas[n]
          /\ schemas'[Name(r)] = Registration[protocol][r].schema
      BY <2>2, <3>1 DEF includesSchema, Insert
    <3>3. \A q \in Registrars : registering[q] \in {"schema", "done"} =>
             Name(q) \in DOMAIN schemas /\ Name(q) # Name(r)
      BY <2>2 DEF includesSchema, RegistryInv, DispatchTypeOK
    <3>4. \A q \in Registrars :
             registering'[q] = IF q = r THEN "schema" ELSE registering[q]
      BY <3>1 DEF DispatchTypeOK
    <3>5. Name(r) \notin DOMAIN callbacks
      BY <2>2 DEF includesSchema, DispatchTypeOK
    <3>6. Grows
      BY <3>1, <3>2 DEF Grows
    <3>7. RegistryInv'
      BY <3>1, <3>2, <3>3, <3>4, <3>5 DEF RegistryInv, LibrarySchemas,
         LibraryNames
    <3>8. SchemaFitsCallback'
      BY <3>1, <3>2, <3>3, <3>4 DEF SchemaFitsCallback
    <3> QED BY <3>6, <3>7, <3>8
  <2> QED BY <2>1, <2>2
<1>3. ASSUME NEW r \in Registrars, insertCallback(r)
      PROVE  Grows /\ RegistryInv' /\ SchemaFitsCallback'
  <2>1. /\ registering[r] = "schema"
        /\ registering' = [registering EXCEPT ![r] = "done"]
        /\ callbacks' = Insert(callbacks, Name(r), r)
        /\ UNCHANGED <<protocol, schemas>>
    BY <1>3 DEF insertCallback
  <2>2. Name(r) \in DOMAIN schemas \ DOMAIN callbacks
    BY <2>1 DEF RegistryInv
  <2>3. /\ DOMAIN callbacks' = DOMAIN callbacks \cup {Name(r)}
        /\ \A n \in DOMAIN callbacks : callbacks'[n] = callbacks[n]
        /\ callbacks'[Name(r)] = r
    BY <2>1, <2>2 DEF Insert
  <2>4. \A q \in Registrars :
           registering'[q] = IF q = r THEN "done" ELSE registering[q]
    BY <2>1 DEF DispatchTypeOK
  <2>5. \A q \in Registrars \ {r} : registering[q] \in {"schema", "done"} =>
           Name(q) # Name(r)
    BY <2>1 DEF RegistryInv
  <2>6. r # Library
    BY LibraryAssumption
  <2>7. Grows
    BY <2>1, <2>3 DEF Grows
  <2>8. RegistryInv'
    BY <2>1, <2>2, <2>3, <2>4, <2>5, <2>6 DEF RegistryInv, LibrarySchemas,
       LibraryNames
  <2>9. SchemaFitsCallback'
    BY <2>1, <2>3, <2>4, <2>5 DEF SchemaFitsCallback, RegistryInv
  <2> QED BY <2>7, <2>8, <2>9
<1> QED BY <1>1, <1>2, <1>3 DEF Register

-----------------------------------------------------------------------------
(* The message.                                                            *)

\* The debug chunks of a message are valid or not, and as many as they are.
LEMMA DebugCount ==
    ASSUME Len(incoming.debug) \in Nat,
           DOMAIN incoming.debug = 1 .. Len(incoming.debug)
    PROVE  Cardinality(ValidDebug) \in 0 .. Len(incoming.debug)
<1>1. /\ IsFiniteSet(1 .. Len(incoming.debug))
      /\ Cardinality(1 .. Len(incoming.debug)) = Len(incoming.debug)
  BY FS_Interval
<1>2. ValidDebug \subseteq 1 .. Len(incoming.debug)
  BY DEF ValidDebug
<1>3. /\ IsFiniteSet(ValidDebug)
      /\ Cardinality(ValidDebug) <= Cardinality(1 .. Len(incoming.debug))
  BY <1>1, <1>2, FS_Subset
<1>4. Cardinality(ValidDebug) \in Nat
  BY <1>3, FS_CardinalityType
<1> QED BY <1>1, <1>3, <1>4

\* Every step preserves the types.
LEMMA TypeNext ==
    ASSUME DispatchTypeOK, RegistryInv, MessageInv, ChunksInv, DispatchStep
    PROVE  DispatchTypeOK'
<1> USE DEF DispatchTypeOK, Stages
<1>1. CASE Register
  <2>1. ASSUME NEW r \in Registrars, registerSchema(r) PROVE DispatchTypeOK'
    <3>1. /\ registering' \in
               [Registrars -> {"not", "schema", "done", "refused"}]
          /\ DOMAIN schemas \subseteq DOMAIN schemas'
      BY <2>1 DEF registerSchema, Insert
    <3> QED BY <2>1, <3>1 DEF registerSchema
  <2>2. ASSUME NEW r \in Registrars, insertCallback(r) PROVE DispatchTypeOK'
    <3>1. registering' \in [Registrars -> {"not", "schema", "done", "refused"}]
      BY <2>2 DEF insertCallback
    <3>2. /\ DOMAIN callbacks' \subseteq DOMAIN schemas'
          /\ \A n \in DOMAIN callbacks' :
                callbacks'[n] \in Registrars \cup {Library}
      BY <2>2 DEF insertCallback, Insert, RegistryInv
    <3> QED BY <2>2, <3>1, <3>2 DEF insertCallback
  <2> QED BY <1>1, <2>1, <2>2 DEF Register
<1>2. ASSUME Receive(incoming'), Len(incoming'.debug) \in Nat
      PROVE  DispatchTypeOK'
  <2>1. chunks = NoChunks
    BY <1>2 DEF Receive, ChunksInv
  <2> QED BY <1>2, <2>1 DEF Receive, registry, NoChunks
<1>3. CASE ParseEnvelope
  <2>1. CASE Validates(incoming.envelope, "envelope_schema")
    <3>1. chunks' = DebugParsed /\ stage' \in {"callback", "content_type", "data"}
      BY <1>3, <2>1 DEF ParseEnvelope, Continues, Validates
    <3>2. /\ chunks'.num_debug = Cardinality(ValidDebug)
          /\ chunks'.num_invalid_debug
               = Len(incoming.debug) - Cardinality(ValidDebug)
      BY <3>1 DEF DebugParsed, ChunksInv
    <3>3. chunks'.num_debug + chunks'.num_invalid_debug <= Len(incoming.debug)
      BY <3>2, DebugCount DEF MessageInv
    <3> QED BY <1>3, <2>1, <3>1, <3>3 DEF ParseEnvelope, Continues, Validates,
            registry
  <2>2. CASE ~Validates(incoming.envelope, "envelope_schema")
    BY <1>3, <2>2 DEF ParseEnvelope, Ends, registry
  <2> QED BY <2>1, <2>2
<1>4. CASE ContentType
  <2>1. /\ chunks'.num_debug = chunks.num_debug
        /\ chunks'.num_invalid_debug = chunks.num_invalid_debug
    BY <1>4 DEF ContentType, Ends, ChunksInv
  <2> QED BY <1>4, <2>1 DEF ContentType, Ends, Continues, registry
<1>5. CASE ValidateData
  <2>1. /\ chunks'.num_debug = chunks.num_debug
        /\ chunks'.num_invalid_debug = chunks.num_invalid_debug
    BY <1>5 DEF ValidateData, ChunksInv
  <2> QED BY <1>5, <2>1 DEF ValidateData, Continues, registry
<1>6. CASE ExecuteCallback
  <2>1. outcome' \in {"thrown", "unhandled", Library} \cup Registrars
    BY <1>6 DEF ExecuteCallback, Ends
  <2> QED BY <1>6, <2>1 DEF ExecuteCallback, Ends, registry
<1>7. CASE stage = "idle" /\ protocol = "v1" /\ Ends("undeserialized")
  BY <1>7 DEF Ends, registry
<1>8. CASE Return
  BY <1>8 DEF Return, NoMessage, NoChunks, registry
<1>9. CASE UNCHANGED dispatchVars
  BY <1>9 DEF dispatchVars, registry
<1> QED BY <1>1, <1>2, <1>3, <1>4, <1>5, <1>6, <1>7, <1>8, <1>9
   DEF DispatchStep, processMessage

\* What is known of a message at one stage is known at the next one: what it
\* depends on is registered, hence stays.
LEMMA MessageNext ==
    ASSUME DispatchTypeOK, RegistryInv, MessageInv, DispatchStep
    PROVE  MessageInv'
<1> USE DEF MessageInv, DispatchTypeOK, Envelope, MessageType, HasData, Text,
   includesSchema, getSchemaContentType, Validates, Parses, LibraryNames
<1>1. "envelope_schema" \in DOMAIN schemas /\ known \subseteq DOMAIN schemas
  BY LibraryContent DEF RegistryInv
<1>2. CASE Register
  <2>1. Grows /\ UNCHANGED <<incoming, stage, known>>
    BY <1>2, RegistryGrows DEF Register, registerSchema, insertCallback
  <2> QED BY <1>1, <2>1 DEF Grows
<1>3. ASSUME Receive(incoming'), incoming'.has_data \in BOOLEAN,
             Len(incoming'.debug) \in Nat,
             DOMAIN incoming'.debug = 1 .. Len(incoming'.debug)
      PROVE  MessageInv'
  BY <1>3 DEF Receive, registry, RegistryInv
<1>4. CASE ParseEnvelope
  BY <1>4 DEF ParseEnvelope, Ends, Continues, registry
<1>5. CASE ContentType
  BY <1>5 DEF ContentType, Ends, Continues, registry
<1>6. CASE ValidateData
  BY <1>6 DEF ValidateData, Continues, registry
<1>7. CASE ExecuteCallback
  BY <1>7 DEF ExecuteCallback, Ends, registry
<1>8. CASE stage = "idle" /\ protocol = "v1" /\ Ends("undeserialized")
  BY <1>8 DEF Ends, registry
<1>9. CASE Return
  BY <1>9 DEF Return, NoMessage, registry
<1>10. CASE UNCHANGED dispatchVars
  BY <1>10 DEF dispatchVars, registry
<1> QED BY <1>2, <1>3, <1>4, <1>5, <1>6, <1>7, <1>8, <1>9, <1>10
   DEF DispatchStep, processMessage

\* What is known of the chunks stays so too.
LEMMA ChunksNext ==
    ASSUME DispatchTypeOK, RegistryInv, MessageInv, ChunksInv, DispatchStep
    PROVE  ChunksInv'
<1> USE DEF Envelope, MessageType, HasData, DataText, Text, includesSchema,
   getSchemaContentType, Validates, Parses, ContentTypes
<1>1. known \subseteq DOMAIN schemas
  BY DEF MessageInv, DispatchTypeOK
<1>2. CASE Register
  <2>1. Grows /\ UNCHANGED <<incoming, stage, chunks, known>>
    BY <1>2, RegistryGrows DEF Register, registerSchema, insertCallback
  <2> QED BY <1>1, <2>1 DEF Grows, ChunksInv
<1>3. CASE Receive(incoming')
  BY <1>3 DEF Receive, ChunksInv
<1>4. CASE ParseEnvelope
  <2>1. chunks = NoChunks
    BY <1>4 DEF ParseEnvelope, ChunksInv
  <2>2. CASE Validates(incoming.envelope, "envelope_schema")
    <3>1. Cardinality(ValidDebug) \in 0 .. Len(incoming.debug)
      BY DebugCount DEF MessageInv
    <3>2. Len(incoming.debug) - Cardinality(ValidDebug) \in Nat
      BY <3>1 DEF MessageInv
    <3>3. chunks' = DebugParsed
      BY <1>4, <2>2 DEF ParseEnvelope
    <3>4. chunks' = [has_data |-> FALSE, invalid_data |-> FALSE,
                     data_type |-> "Json",
                     num_debug |-> Cardinality(ValidDebug),
                     num_invalid_debug |->
                        Len(incoming.debug) - Cardinality(ValidDebug)]
      BY <2>1, <3>3 DEF DebugParsed, NoChunks
    <3>5. Cardinality(ValidDebug) \in Nat
      BY <3>1 DEF MessageInv
    <3>6. /\ chunks' \in [has_data : BOOLEAN, invalid_data : BOOLEAN,
                          data_type : ContentTypes, num_debug : Nat,
                          num_invalid_debug : Nat]
          /\ ~chunks'.has_data /\ ~chunks'.invalid_data
          /\ chunks'.data_type = "Json"
      BY <3>2, <3>4, <3>5
    <3>7. stage' = IF ~HasData THEN "callback"
                   ELSE IF protocol = "v1" THEN "content_type" ELSE "data"
      BY <1>4, <2>2 DEF ParseEnvelope, Continues
    <3>8. UNCHANGED <<protocol, schemas, incoming, known>>
      BY <1>4 DEF ParseEnvelope, Continues, Ends, registry
    <3> QED BY <3>6, <3>7, <3>8 DEF ChunksInv
  <2>3. CASE ~Validates(incoming.envelope, "envelope_schema")
    BY <1>4, <2>3 DEF ParseEnvelope, Ends, ChunksInv
  <2> QED BY <2>2, <2>3
<1>5. CASE ContentType
  <2>1. CASE ~includesSchema(MessageType)
    BY <1>5, <2>1 DEF ContentType, Ends, ChunksInv
  <2>2. CASE getSchemaContentType(MessageType) = "Json" /\ stage' # "done"
    BY <1>5, <2>2 DEF ContentType, Ends, Continues, ChunksInv
  <2>3. CASE getSchemaContentType(MessageType) = "Binary" /\ stage' # "done"
    BY <1>5, <2>3 DEF ContentType, Ends, Continues, ChunksInv, MessageInv,
       registry
  <2> QED BY <1>5, <2>1, <2>2, <2>3 DEF ContentType, Continues
<1>6. CASE ValidateData
  <2>1. /\ stage = "data" /\ stage' = "callback" /\ HasData
        /\ chunks' = [chunks EXCEPT !.has_data = TRUE, !.invalid_data = ~DataValid]
        /\ UNCHANGED <<protocol, schemas, incoming, known>>
    BY <1>6 DEF ValidateData, Continues, registry, MessageInv
  <2>2. /\ chunks \in [has_data : BOOLEAN, invalid_data : BOOLEAN,
                       data_type : ContentTypes, num_debug : Nat,
                       num_invalid_debug : Nat]
        /\ chunks.data_type = "Json"
    BY <2>1 DEF ChunksInv
  <2>3. DataValid \in BOOLEAN
    BY DEF DataValid
  <2>4. chunks' \in [has_data : BOOLEAN, invalid_data : BOOLEAN,
                     data_type : ContentTypes, num_debug : Nat,
                     num_invalid_debug : Nat]
    BY <2>1, <2>2, <2>3
  <2>5. /\ chunks'.has_data = TRUE /\ chunks'.data_type = "Json"
        /\ chunks'.invalid_data = ~DataValid
    BY <2>1, <2>2
  <2>6. protocol = "v1" =>
          /\ includesSchema(MessageType)
          /\ getSchemaContentType(MessageType) = "Json"
    BY <2>1 DEF MessageInv
  <2>7. includesSchema(MessageType) =>
          (DataValid <=> Validates(DataText, MessageType))
    BY DEF DataValid
  <2> QED BY <2>1, <2>4, <2>5, <2>6, <2>7 DEF ChunksInv
<1>7. CASE ExecuteCallback
  BY <1>7 DEF ExecuteCallback, Ends, ChunksInv
<1>8. CASE stage = "idle" /\ protocol = "v1" /\ Ends("undeserialized")
  BY <1>8 DEF Ends, ChunksInv
<1>9. CASE Return
  BY <1>9 DEF Return, NoChunks, ChunksInv
<1>10. CASE UNCHANGED dispatchVars
  BY <1>10 DEF dispatchVars, registry, ChunksInv
<1> QED BY <1>2, <1>3, <1>4, <1>5, <1>6, <1>7, <1>8, <1>9, <1>10
   DEF DispatchStep, processMessage

\* A callback is told the truth of the data.
LEMMA Truthful ==
    ASSUME DispatchTypeOK, MessageInv, ChunksInv PROVE FlagsTruthful
<1>1. known \subseteq DOMAIN schemas
  BY DEF MessageInv, DispatchTypeOK
<1>2. chunks.has_data \in BOOLEAN /\ chunks.invalid_data \in BOOLEAN
      /\ chunks.data_type \in {"Json", "Binary"}
  BY DEF ChunksInv, ContentTypes
<1>3. HasData \in BOOLEAN
  <2>1. CASE protocol = "v1"
    BY <2>1 DEF HasData, MessageInv
  <2>2. CASE protocol # "v1"
    <3>1. Includes(Envelope, "data") \in BOOLEAN
      BY DEF Includes
    <3> QED BY <2>2, <3>1 DEF HasData
  <2> QED BY <2>1, <2>2
<1>4. Validates(DataText, MessageType) \in BOOLEAN
  BY DEF Validates
<1> QED BY <1>1, <1>2, <1>3, <1>4 DEF ChunksInv, FlagsTruthful, includesSchema

-----------------------------------------------------------------------------
(* The callbacks.                                                          *)

\* processMessage() finds in an envelope that is valid what it reads.
LEMMA EnvelopeRead ==
    ASSUME DispatchTypeOK, RegistryInv,
           Validates(incoming.envelope, "envelope_schema")
    PROVE  ReadsEnvelope
<1>1. validateJsonContainer(Envelope, schemas["envelope_schema"])
  BY DEF Validates, Envelope
<1>2. schemas["envelope_schema"] = LibrarySchemas["envelope_schema"]
  BY LibraryContent DEF RegistryInv
<1>3. CASE protocol = "v1"
  BY <1>1, <1>2, <1>3, EnvelopeV1 DEF LibrarySchemas, ReadsEnvelope
<1>4. CASE protocol = "v2"
  <2>1. validateJsonContainer(Envelope, LibrarySchemasV2["envelope_schema"])
    BY <1>1, <1>2, <1>4 DEF LibrarySchemas
  <2> QED BY <1>4, <2>1, EnvelopeV2 DEF ReadsEnvelope
<1> QED BY <1>3, <1>4 DEF DispatchTypeOK

\* The connector's callbacks find in data that is valid what they read.
LEMMA LibraryRead ==
    ASSUME DispatchTypeOK, RegistryInv, MessageInv, ChunksInv,
           stage = "callback", WellFormed, callbacks[MessageType] = Library
    PROVE  LibraryCallback
<1>1. MessageType \in LibraryNames /\ MessageType \in DOMAIN schemas
  BY DEF WellFormed, MessageInv, RegistryInv, DispatchTypeOK
<1>2. /\ schemas[MessageType] = LibrarySchemas[MessageType]
      /\ schemas[MessageType].content_type = "Json"
  BY <1>1, LibraryContent DEF RegistryInv
<1>3. HasData /\ Validates(DataText, MessageType)
  BY <1>2 DEF WellFormed, getSchemaContentType
<1>4. chunks.has_data /\ ~chunks.invalid_data /\ chunks.data_type = "Json"
  BY <1>1, <1>2, <1>3 DEF ChunksInv, ContentTypes, includesSchema,
     getSchemaContentType, WellFormed
<1>5. Data = Text[DataText]
  BY <1>4 DEF Data
<1>6. validateJsonContainer(Data, LibrarySchemas[MessageType])
  BY <1>2, <1>3, <1>5 DEF Validates
<1>7. CASE protocol = "v1"
  <2>1. MessageType \in {"associate_response", "error_message", "ttl_expired"}
    BY <1>1, <1>7 DEF LibraryNames
  <2>2. validateJsonContainer(Data, LibrarySchemasV1[MessageType])
    BY <1>6, <1>7 DEF LibrarySchemas
  <2> QED BY <1>7, <2>1, <2>2, LibraryFields DEF LibraryCallback,
          associateResponseCallback, TTLMessageCallback, errorMessageCallbackV1
<1>8. CASE protocol = "v2"
  <2>1. MessageType = "error_message"
    BY <1>1, <1>8 DEF LibraryNames
  <2>2. Data.type = "String"
    BY <1>6, <1>8, <2>1, LibraryFields DEF LibrarySchemas
  <2> QED BY <1>8, <2>1, <2>2 DEF LibraryCallback, errorMessageCallbackV2
<1> QED BY <1>7, <1>8 DEF DispatchTypeOK

\* Whether a message is well-formed does not change while its callback is chosen
\* and after: what it depends on is registered.
LEMMA WellFormedKept ==
    ASSUME DispatchTypeOK, RegistryInv, MessageInv, Grows,
           UNCHANGED <<incoming, known>>
    PROVE  /\ WellFormed' => WellFormed
           /\ MessageType' = MessageType
           /\ MessageType \in known =>
                 callbacks'[MessageType] = callbacks[MessageType]
<1>1. /\ "envelope_schema" \in DOMAIN schemas
      /\ known \subseteq DOMAIN callbacks /\ known \subseteq DOMAIN schemas
  BY LibraryContent DEF RegistryInv, MessageInv, DispatchTypeOK
<1> QED BY <1>1 DEF Grows, WellFormed, MessageType, Envelope, HasData, DataText,
           Text, Validates, Parses, getSchemaContentType

\* A message that is well-formed and registered reaches its callback.
LEMMA HandledNext ==
    ASSUME DispatchTypeOK, RegistryInv, SchemaFitsCallback, MessageInv, ChunksInv,
           WellFormedHandled, DispatchStep
    PROVE  WellFormedHandled'
<1>1. Grows
  BY RegistryNext
<1>2. SUFFICES ASSUME stage' = "done", WellFormed'
               PROVE  outcome' = callbacks'[MessageType']
  BY DEF WellFormedHandled
<1>3. CASE stage = "done"
  <2>1. UNCHANGED <<incoming, known, outcome>>
    BY <1>2, <1>3 DEF DispatchStep, Register, registerSchema, insertCallback,
       Receive, processMessage, ParseEnvelope, ContentType, ValidateData,
       ExecuteCallback, Ends, Continues, Return, dispatchVars
  <2>2. WellFormed /\ MessageType' = MessageType
        /\ callbacks'[MessageType] = callbacks[MessageType]
    BY <1>1, <1>2, <2>1, WellFormedKept DEF WellFormed
  <2> QED BY <1>3, <2>1, <2>2 DEF WellFormedHandled
<1>4. CASE stage # "done"
  <2>1. UNCHANGED <<incoming, known>>
    BY <1>2, <1>4 DEF DispatchStep, Register, registerSchema, insertCallback,
       Receive, processMessage, ParseEnvelope, ContentType, ValidateData,
       ExecuteCallback, Ends, Continues, Return, dispatchVars
  <2>2. WellFormed /\ MessageType' = MessageType
        /\ callbacks'[MessageType] = callbacks[MessageType]
    BY <1>1, <1>2, <2>1, WellFormedKept DEF WellFormed
  <2>3. /\ Validates(incoming.envelope, "envelope_schema")
        /\ MessageType \in known /\ includesSchema(MessageType)
        /\ MessageType \in DOMAIN callbacks
    BY <2>2 DEF WellFormed, MessageInv, DispatchTypeOK, includesSchema
  <2>4. stage # "idle" \/ ~Ends("undeserialized")
    <3>1. stage = "idle" => incoming = NoMessage /\ known = {}
      BY DEF MessageInv
    <3> QED BY <2>3, <3>1
  <2>5. ExecuteCallback
    BY <1>2, <1>4, <2>3, <2>4 DEF DispatchStep, Register, registerSchema,
       insertCallback, Receive, processMessage, ParseEnvelope, ContentType,
       ValidateData, Continues, Return, dispatchVars, Validates
  <2>6. ReadsEnvelope
    BY <2>3, EnvelopeRead
  <2>7. stage = "callback"
    BY <2>5 DEF ExecuteCallback
  <2>8. callbacks[MessageType] = Library => LibraryCallback
    BY <2>2, <2>7, LibraryRead
  <2>9. outcome' = callbacks[MessageType]
    BY <2>3, <2>5, <2>6, <2>8 DEF ExecuteCallback, Ends
  <2> QED BY <2>2, <2>9
<1> QED BY <1>3, <1>4

\* A callback that throws is one of the v1 connector, not given what it reads.
LEMMA ThrownExplained ==
    ASSUME DispatchTypeOK, RegistryInv, MessageInv, ChunksInv, stage = "callback",
           MessageType \in DOMAIN callbacks, callbacks[MessageType] = Library,
           ~LibraryCallback
    PROVE  /\ protocol = "v1" /\ MessageType \in LibraryNames
           /\ ~(HasData /\ Validates(DataText, MessageType))
<1>1. /\ MessageType \in LibraryNames /\ MessageType \in known
      /\ Validates(incoming.envelope, "envelope_schema")
  BY DEF RegistryInv, MessageInv
<1>2. ~(HasData /\ Validates(DataText, MessageType))
  BY <1>1, LibraryRead DEF WellFormed
<1>3. protocol # "v2"
  <2> SUFFICES ASSUME protocol = "v2" PROVE FALSE
    OBVIOUS
  <2>1. MessageType = "error_message"
    BY <1>1 DEF LibraryNames
  <2>2. chunks.has_data /\ ~chunks.invalid_data
    BY <2>1 DEF LibraryCallback, errorMessageCallbackV2
  <2>3. HasData /\ chunks.data_type = "Json"
    BY <2>2 DEF ChunksInv, ContentTypes
  <2>4. includesSchema(MessageType)
    BY <1>1 DEF MessageInv, DispatchTypeOK, includesSchema
  <2>5. Validates(DataText, MessageType)
    BY <1>1, <2>2, <2>3, <2>4 DEF ChunksInv
  <2> QED BY <1>2, <2>3, <2>5
<1> QED BY <1>1, <1>2, <1>3 DEF DispatchTypeOK

\* How a message ends explains itself when it ends, and stays so.
LEMMA ExplainedNext ==
    ASSUME DispatchTypeOK, RegistryInv, SchemaFitsCallback, MessageInv, ChunksInv,
           FailuresExplained, DispatchStep
    PROVE  FailuresExplained'
<1>1. Grows
  BY RegistryNext
<1>2. SUFFICES ASSUME stage' = "done",
                      Validates(incoming.envelope, "envelope_schema")'
               PROVE  FailuresExplained'
  BY DEF FailuresExplained
<1>3. /\ "envelope_schema" \in DOMAIN schemas /\ LibraryNames \subseteq DOMAIN schemas
      /\ protocol \in {"v1", "v2"} /\ known \subseteq DOMAIN schemas
  BY LibraryContent DEF RegistryInv, DispatchTypeOK, MessageInv
<1>4. ~(stage = "idle" /\ protocol = "v1" /\ Ends("undeserialized"))
  <2> SUFFICES ASSUME stage = "idle", protocol = "v1", Ends("undeserialized")
               PROVE  FALSE
    OBVIOUS
  <2>1. incoming' = NoMessage /\ protocol' = "v1"
    BY DEF Ends, MessageInv
  <2>2. NoText \in DOMAIN Documents["v1"]
    BY <1>2, <2>1 DEF Validates, Parses, Text, NoMessage
  <2> QED BY <2>2, EmptyAssumption
<1>5. /\ UNCHANGED <<protocol, incoming, known>>
      /\ stage = "done" => outcome' = outcome
  BY <1>1, <1>2, <1>4 DEF DispatchStep, Register, registerSchema, insertCallback,
     Receive, processMessage, ParseEnvelope, ContentType, ValidateData,
     ExecuteCallback, Ends, Continues, Return, dispatchVars, Grows
<1>6. /\ Validates(incoming.envelope, "envelope_schema")
      /\ UNCHANGED <<MessageType, HasData, DataText, LibraryNames>>
  BY <1>1, <1>2, <1>3, <1>5 DEF Validates, Parses, Text, Grows, MessageType,
     Envelope, HasData, DataText, LibraryNames
<1>7. MessageType \in LibraryNames =>
         Validates(DataText, MessageType)' = Validates(DataText, MessageType)
  BY <1>1, <1>3, <1>5, <1>6 DEF Validates, Parses, Text, Grows
<1> DEFINE Explained ==
      /\ outcome' \in {"undeserialized", "unhandled"} => MessageType \notin known
      /\ outcome' = "undeserialized" => protocol = "v1" /\ HasData
      /\ outcome' = "thrown" =>
            /\ protocol = "v1" /\ MessageType \in LibraryNames
            /\ ~(HasData /\ Validates(DataText, MessageType))
<1>8. Explained
  <2>1. CASE stage = "done"
    BY <1>5, <1>6, <2>1 DEF FailuresExplained
  <2>2. CASE stage = "content_type" /\ ContentType
    <3>1. ~includesSchema(MessageType) /\ outcome' = "undeserialized"
      BY <1>2, <2>2 DEF ContentType, Ends, Continues
    <3> QED BY <1>3, <2>2, <3>1 DEF includesSchema, MessageInv
  <2>3. CASE stage = "callback" /\ ExecuteCallback
    <3>1. ReadsEnvelope
      BY <1>6, EnvelopeRead
    <3>2. CASE MessageType \notin DOMAIN callbacks
      <4>1. outcome' = "unhandled"
        BY <2>3, <3>1, <3>2 DEF ExecuteCallback, Ends
      <4> QED BY <3>2, <4>1 DEF MessageInv
    <3>3. CASE /\ MessageType \in DOMAIN callbacks
               /\ callbacks[MessageType] = Library /\ ~LibraryCallback
      <4>1. outcome' = "thrown"
        BY <2>3, <3>1, <3>3 DEF ExecuteCallback, Ends
      <4> QED BY <2>3, <3>3, <4>1, ThrownExplained
    <3>4. CASE /\ MessageType \in DOMAIN callbacks
               /\ ~(callbacks[MessageType] = Library /\ ~LibraryCallback)
      <4>1. outcome' = callbacks[MessageType]
        BY <2>3, <3>1, <3>4 DEF ExecuteCallback, Ends
      <4>2. callbacks[MessageType] \in Registrars \cup {Library}
        BY <3>4 DEF DispatchTypeOK
      <4> QED BY <4>1, <4>2, OutcomeAssumption
    <3> QED BY <3>2, <3>3, <3>4
  <2> QED
    BY <1>2, <1>4, <1>6, <2>1, <2>2, <2>3 DEF DispatchStep, Register, registerSchema,
       insertCallback, Receive, processMessage, ParseEnvelope, ContentType,
       ValidateData, ExecuteCallback, Continues, Return, dispatchVars, Validates
<1> QED BY <1>5, <1>6, <1>7, <1>8 DEF FailuresExplained

-----------------------------------------------------------------------------
(* What one client sends to another.                                       *)

\* A text that is sent is JSON for what it was made from.
LEMMA SentText ==
    ASSUME NEW p, NEW doc \in Range(Documents[p])
    PROVE  /\ toText(p, doc) \in DOMAIN Documents[p]
           /\ Documents[p][toText(p, doc)] = doc
<1>1. \E text \in DOMAIN Documents[p] : Documents[p][text] = doc
  BY DEF Range
<1> QED BY <1>1 DEF toText

\* The envelope of an error message is one, and its data what v1 asks of them.
LEMMA ErrorDocumentsV1 ==
    /\ validateJsonContainer(createEnvelope("error_message", FALSE),
                             LibrarySchemasV1["envelope_schema"])
    /\ validateJsonContainer(Object([id |-> "String", description |-> "String"]),
                             LibrarySchemasV1["error_message"])
<1>1. validateJsonContainer(createEnvelope("error_message", FALSE),
                            LibrarySchemasV1["envelope_schema"])
  <2> DEFINE fields ==
        {<<"id", "String", TRUE>>, <<"message_type", "String", TRUE>>,
         <<"expires", "String", TRUE>>, <<"targets", "Array", TRUE>>,
         <<"sender", "String", TRUE>>,
         <<"destination_report", "Bool", FALSE>>,
         <<"in-reply-to", "String", FALSE>>}
      doc == createEnvelope("error_message", FALSE)
  <2>1. /\ doc.type = "Object"
        /\ DOMAIN doc.fields
             = {"id", "message_type", "targets", "expires", "sender"}
        /\ doc.fields["id"] = "String" /\ doc.fields["message_type"] = "String"
        /\ doc.fields["expires"] = "String" /\ doc.fields["sender"] = "String"
        /\ doc.fields["targets"] = "Array"
    BY DEF createEnvelope, Object, Scalar
  <2> HIDE DEF doc
  <2>2. ASSUME NEW f \in fields
        PROVE  /\ f[3] => Includes(doc, f[1])
               /\ Includes(doc, f[1]) => f[2] \in {"Any", doc.fields[f[1]]}
    <3>1. CASE f = <<"id", "String", TRUE>>
      BY <2>1, <3>1 DEF Includes
    <3>2. CASE f = <<"message_type", "String", TRUE>>
      BY <2>1, <3>2 DEF Includes
    <3>3. CASE f = <<"expires", "String", TRUE>>
      BY <2>1, <3>3 DEF Includes
    <3>4. CASE f = <<"targets", "Array", TRUE>>
      BY <2>1, <3>4 DEF Includes
    <3>5. CASE f = <<"sender", "String", TRUE>>
      BY <2>1, <3>5 DEF Includes
    <3>6. CASE f = <<"destination_report", "Bool", FALSE>>
      BY <2>1, <3>6 DEF Includes
    <3>7. CASE f = <<"in-reply-to", "String", FALSE>>
      BY <2>1, <3>7 DEF Includes
    <3> QED BY <3>1, <3>2, <3>3, <3>4, <3>5, <3>6, <3>7
  <2> HIDE DEF fields
  <2>3. validateJsonContainer(doc, Describe(fields))
    BY <2>1, <2>2, ValidByFields
  <2> QED BY <2>3 DEF fields, doc, LibrarySchemasV1, EnvelopeSchemaV1
<1>2. validateJsonContainer(Object([id |-> "String", description |-> "String"]),
                            LibrarySchemasV1["error_message"])
  <2> DEFINE fields ==
        {<<"description", "String", TRUE>>, <<"id", "String", FALSE>>}
      doc == Object([id |-> "String", description |-> "String"])
  <2>1. /\ doc.type = "Object" /\ DOMAIN doc.fields = {"id", "description"}
        /\ doc.fields["id"] = "String" /\ doc.fields["description"] = "String"
    BY DEF Object, Scalar
  <2> HIDE DEF doc
  <2>2. ASSUME NEW f \in fields
        PROVE  /\ f[3] => Includes(doc, f[1])
               /\ Includes(doc, f[1]) => f[2] \in {"Any", doc.fields[f[1]]}
    <3>1. CASE f = <<"description", "String", TRUE>>
      BY <2>1, <3>1 DEF Includes
    <3>2. CASE f = <<"id", "String", FALSE>>
      BY <2>1, <3>2 DEF Includes
    <3> QED BY <3>1, <3>2
  <2> HIDE DEF fields
  <2>3. validateJsonContainer(doc, Describe(fields))
    BY <2>1, <2>2, ValidByFields
  <2> QED BY <2>3 DEF fields, doc, LibrarySchemasV1
<1> QED BY <1>1, <1>2

\* So are the two of v2.
LEMMA ErrorDocumentsV2 ==
    ASSUME NEW text
    PROVE  /\ validateJsonContainer(
                  sendV2("error_message", "String", text, TRUE),
                  LibrarySchemasV2["envelope_schema"])
           /\ validateJsonContainer(Scalar("String"),
                                    LibrarySchemasV2["error_message"])
<1>1. validateJsonContainer(sendV2("error_message", "String", text, TRUE),
                            LibrarySchemasV2["envelope_schema"])
  <2> DEFINE fields ==
        {<<"id", "String", TRUE>>, <<"message_type", "String", TRUE>>,
         <<"target", "String", FALSE>>, <<"sender", "String", FALSE>>,
         <<"in_reply_to", "String", FALSE>>, <<"data", "Any", FALSE>>}
      doc == sendV2("error_message", "String", text, TRUE)
  <2>1. /\ doc.type = "Object"
        /\ DOMAIN doc.fields = {"id", "message_type", "target", "sender", "data",
                                "in_reply_to"}
        /\ \A f \in DOMAIN doc.fields : doc.fields[f] = "String"
    BY DEF sendV2, Object, Scalar
  <2> HIDE DEF doc
  <2>2. ASSUME NEW f \in fields
        PROVE  /\ f[3] => Includes(doc, f[1])
               /\ Includes(doc, f[1]) => f[2] \in {"Any", doc.fields[f[1]]}
    <3>1. CASE f = <<"id", "String", TRUE>>
      BY <2>1, <3>1 DEF Includes
    <3>2. CASE f = <<"message_type", "String", TRUE>>
      BY <2>1, <3>2 DEF Includes
    <3>3. CASE f = <<"target", "String", FALSE>>
      BY <2>1, <3>3 DEF Includes
    <3>4. CASE f = <<"sender", "String", FALSE>>
      BY <2>1, <3>4 DEF Includes
    <3>5. CASE f = <<"in_reply_to", "String", FALSE>>
      BY <2>1, <3>5 DEF Includes
    <3>6. CASE f = <<"data", "Any", FALSE>>
      BY <2>1, <3>6 DEF Includes
    <3> QED BY <3>1, <3>2, <3>3, <3>4, <3>5, <3>6
  <2> HIDE DEF fields
  <2>3. validateJsonContainer(doc, Describe(fields))
    BY <2>1, <2>2, ValidByFields
  <2> QED BY <2>3 DEF fields, doc, LibrarySchemasV2
<1>2. validateJsonContainer(Scalar("String"), LibrarySchemasV2["error_message"])
  BY DEF Scalar, LibrarySchemasV2, Schema, validateJsonContainer, Describes,
     Matches
<1> QED BY <1>1, <1>2

\* An error message is well-formed, and so reaches the error callback.
LEMMA Understood ==
    ASSUME DispatchTypeOK, RegistryInv, MessageInv, WellFormedHandled
    PROVE  ErrorsUnderstood
<1> SUFFICES ASSUME stage = "done", incoming = ErrorMessage
             PROVE  outcome = Library
  BY DEF ErrorsUnderstood
<1>1. /\ "envelope_schema" \in DOMAIN schemas
      /\ schemas["envelope_schema"] = LibrarySchemas["envelope_schema"]
      /\ "error_message" \in LibraryNames
      /\ schemas["error_message"] = LibrarySchemas["error_message"]
      /\ callbacks["error_message"] = Library
  BY LibraryContent DEF RegistryInv, LibraryNames
<1>2. CASE protocol = "v1"
  <2> DEFINE e == createEnvelope("error_message", FALSE)
             d == Object([id |-> "String", description |-> "String"])
  <2>1. /\ Text = Documents["v1"] /\ incoming.has_data = TRUE
        /\ incoming.envelope = toText("v1", e) /\ incoming.data = toText("v1", d)
    BY <1>2 DEF ErrorMessage, sendErrorData, toString, NoMessage, Text
  <2>2. /\ incoming.envelope \in DOMAIN Text /\ Text[incoming.envelope] = e
        /\ incoming.data \in DOMAIN Text /\ Text[incoming.data] = d
    BY <2>1, SentText, SentAssumption
  <2>3. /\ validateJsonContainer(e, LibrarySchemas["envelope_schema"])
        /\ validateJsonContainer(d, LibrarySchemas["error_message"])
    BY <1>2, ErrorDocumentsV1 DEF LibrarySchemas
  <2>4. MessageType = "error_message"
    BY <2>2 DEF MessageType, Envelope, createEnvelope, Object, Scalar
  <2>5. HasData /\ DataText = incoming.data
    BY <1>2, <2>1 DEF HasData, DataText
  <2>6. /\ Validates(incoming.envelope, "envelope_schema")
        /\ Validates(DataText, MessageType)
    BY <1>1, <2>2, <2>3, <2>4, <2>5 DEF Validates, Parses
  <2>7. LibraryNames \subseteq known
    BY <2>1 DEF MessageInv, NoMessage
  <2>8. WellFormed
    BY <1>1, <2>4, <2>5, <2>6, <2>7 DEF WellFormed
  <2> QED BY <1>1, <2>4, <2>8 DEF WellFormedHandled
<1>3. CASE protocol = "v2"
  <2> DEFINE t == toText("v2", Scalar("String"))
             e == sendV2("error_message", "String", t, TRUE)
  <2>1. Text = Documents["v2"] /\ incoming.envelope = toText("v2", e)
    BY <1>3 DEF ErrorMessage, sendErrorData, toString, NoMessage, Text, Scalar
  <2>2. /\ incoming.envelope \in DOMAIN Text /\ Text[incoming.envelope] = e
        /\ t \in DOMAIN Text /\ Text[t] = Scalar("String")
    BY <2>1, SentText, SentAssumption
  <2>3. /\ validateJsonContainer(e, LibrarySchemas["envelope_schema"])
        /\ validateJsonContainer(Scalar("String"),
                                 LibrarySchemas["error_message"])
    BY <1>3, ErrorDocumentsV2 DEF LibrarySchemas
  <2>4. e.message_type = "error_message" /\ e.data = t /\ Includes(e, "data")
    BY DEF sendV2, Object, Scalar, Includes
  <2>5. MessageType = "error_message" /\ HasData /\ DataText = t
    BY <1>3, <2>2, <2>4 DEF MessageType, HasData, DataText, Envelope
  <2>6. /\ Validates(incoming.envelope, "envelope_schema")
        /\ Validates(DataText, MessageType)
    BY <1>1, <2>2, <2>3, <2>5 DEF Validates, Parses
  <2>7. LibraryNames \subseteq known
    BY <1>3 DEF MessageInv
  <2>8. WellFormed
    BY <1>1, <2>5, <2>6, <2>7 DEF WellFormed
  <2> QED BY <1>1, <2>5, <2>8 DEF WellFormedHandled
<1> QED BY <1>2, <1>3 DEF DispatchTypeOK

-----------------------------------------------------------------------------
\* The connectors start with their own schemas and callbacks, and no message.
LEMMA DispatchStart ==
    DispatchInit => /\ DispatchTypeOK /\ RegistryInv /\ SchemaFitsCallback
                    /\ MessageInv /\ ChunksInv /\ WellFormedHandled
                    /\ FailuresExplained
<1> SUFFICES ASSUME DispatchInit
             PROVE  /\ DispatchTypeOK /\ RegistryInv /\ SchemaFitsCallback
                    /\ MessageInv /\ ChunksInv /\ WellFormedHandled
                    /\ FailuresExplained
  OBVIOUS
<1>1. /\ registering = [r \in Registrars |-> "not"]
      /\ incoming = NoMessage /\ stage = "idle" /\ chunks = NoChunks
      /\ outcome = "none" /\ known = {}
  BY DEF DispatchInit
<1>2. /\ protocol \in {"v1", "v2"} /\ schemas = LibrarySchemas
      /\ callbacks = [n \in LibraryNames |-> Library]
  BY DEF DispatchInit, ConnectorV1, ConnectorV2, LibrarySchemas, LibraryNames
<1>3. \A r \in Registrars : registering[r] = "not"
  BY <1>1
<1>4. DOMAIN callbacks = LibraryNames /\ \A n \in LibraryNames : callbacks[n] = Library
  BY <1>2
<1>5. /\ incoming.has_data = FALSE /\ incoming.debug = <<>>
      /\ Len(incoming.debug) = 0 /\ DOMAIN incoming.debug = 1 .. 0
  BY <1>1 DEF NoMessage
<1>6. chunks.num_debug = 0 /\ chunks.num_invalid_debug = 0
  BY <1>1 DEF NoChunks
<1>7. RegistryInv /\ SchemaFitsCallback
  BY <1>2, <1>3, <1>4, LibraryContent DEF RegistryInv, SchemaFitsCallback
<1>8. MessageInv
  BY <1>1, <1>5 DEF MessageInv
<1>9. ChunksInv
  <2>1. NoChunks \in [has_data : BOOLEAN, invalid_data : BOOLEAN,
                       data_type : ContentTypes, num_debug : Nat, num_invalid_debug : Nat]
    BY DEF NoChunks, ContentTypes
  <2>2. stage = "idle" /\ chunks = NoChunks
    BY <1>1
  <2> QED BY <2>1, <2>2 DEF ChunksInv
<1>10. DispatchTypeOK
  <2>1. registering \in [Registrars -> {"not", "schema", "done", "refused"}]
    BY <1>1
  <2>2. DOMAIN callbacks \subseteq DOMAIN schemas
    BY <1>2, <1>4, LibraryContent
  <2>3. chunks.num_debug + chunks.num_invalid_debug <= Len(incoming.debug)
    BY <1>5, <1>6
  <2> QED BY <1>1, <1>2, <1>4, <2>1, <2>2, <2>3 DEF DispatchTypeOK, Stages
<1>11. WellFormedHandled /\ FailuresExplained
  BY <1>1 DEF WellFormedHandled, FailuresExplained
<1> QED BY <1>7, <1>8, <1>9, <1>10, <1>11

=============================================================================
