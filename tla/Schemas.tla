------------------------------ MODULE Schemas ------------------------------
(***************************************************************************)
(* JSON documents and the schemas messages are held against: Schema and    *)
(* the validation of the Validator (lib/src/validator/), and the schemas   *)
(* of both protocols (lib/src/protocol/v1/schemas.cc, v2/schemas.cc).      *)
(*                                                                         *)
(* A document keeps what a schema can tell apart: its JSON type, the type  *)
(* of each of its fields, and, where the code follows them, the items of   *)
(* its arrays, the name in its "message_type" and the text of its "data".  *)
(***************************************************************************)
EXTENDS Naturals, Sequences, SequencesExt

JsonTypes       == {"Object", "Array", "String", "Int", "Bool", "Double", "Null"}
TypeConstraints == JsonTypes \cup {"Any"}
ContentTypes    == {"Json", "Binary"}

NoText == <<>>     \* no text, or an empty one: no JSON either

Scalar(type) ==
    [type |-> type, fields |-> <<>>, items |-> <<>>, message_type |-> "", data |-> NoText]
Object(fields) == [Scalar("Object") EXCEPT !.fields = fields]

Includes(doc, field) == field \in DOMAIN doc.fields

\* What an array holds; of an array that is not told apart, nothing.
Items(doc, field) ==
    IF doc.fields[field] = "Array" /\ field \in DOMAIN doc.items
    THEN doc.items[field] ELSE {}

-----------------------------------------------------------------------------
(* Schema.                                                                 *)

Schema(content_type, type) ==
    [content_type |-> content_type, type |-> type,
     properties |-> {}, required |-> {}, subschemas |-> {}, parsed |-> FALSE]

\* The constructor that parses a JSON schema.
ParsedSchema(properties, required) ==
    [Schema("Json", "Object") EXCEPT
        !.properties = properties, !.required = required, !.parsed = TRUE]

checkAddConstraint(s) == ~s.parsed /\ s.type = "Object"

\* A call that throws changes nothing; constraints on one field add up.
addConstraint(s, field, type, required) ==
    IF ~checkAddConstraint(s) THEN s
    ELSE [s EXCEPT !.properties = @ \cup {<<field, type>>},
                   !.required = IF required THEN @ \cup {field} ELSE @]

\* The sub-schema of a field holds for every item of an array, and for any
\* other value; it is copied as it is at the call.
addSubschema(s, field, sub_schema, required) ==
    IF ~checkAddConstraint(s) THEN s
    ELSE [s EXCEPT !.subschemas = @ \cup {<<field, sub_schema>>},
                   !.required = IF required THEN @ \cup {field} ELSE @]

\* The type tests valijson makes through RapidJsonValue: an integer is a number.
Matches(type, constraint) ==
    \/ constraint \in {"Any", type}
    \/ constraint = "Double" /\ type = "Int"

\* A document that is not an object has no properties to be constrained.
Describes(s, doc) ==
    /\ Matches(doc.type, s.type)
    /\ doc.type = "Object" =>
          /\ \A p \in s.properties :
                Includes(doc, p[1]) => Matches(doc.fields[p[1]], p[2])
          /\ \A f \in s.required : Includes(doc, f)

\* Arrays within the items of an array are not followed.
validateJsonContainer(doc, s) ==
    /\ Describes(s, doc)
    /\ doc.type = "Object" =>
          \A sub \in s.subschemas : Includes(doc, sub[1]) =>
              \A item \in Items(doc, sub[1]) : Describes(sub[2], item)

\* The schema of an object with these fields, each <<name, type, required?>>: a
\* new one, to which a call of addConstraint() adds each, in any order.
Describe(fields) ==
    [Schema("Json", "Object") EXCEPT
        !.properties = {<<f[1], f[2]>> : f \in fields},
        !.required = {f[1] : f \in {g \in fields : g[3]}}]

-----------------------------------------------------------------------------
(* The schemas of PCP v1, by name.                                         *)

\* Mutant of EnvelopeSchemaV1: the sender is optional, as in v2.
EnvelopeNoSender ==
    Describe({<<"id", "String", TRUE>>, <<"message_type", "String", TRUE>>,
              <<"expires", "String", TRUE>>, <<"targets", "Array", TRUE>>,
              <<"sender", "String", FALSE>>,
              <<"destination_report", "Bool", FALSE>>,
              <<"in-reply-to", "String", FALSE>>})

EnvelopeSchemaV1 ==
    Describe({<<"id", "String", TRUE>>, <<"message_type", "String", TRUE>>,
              <<"expires", "String", TRUE>>, <<"targets", "Array", TRUE>>,
              <<"sender", "String", TRUE>>,
              <<"destination_report", "Bool", FALSE>>,
              <<"in-reply-to", "String", FALSE>>})

\* Those the v1 Connector registers.
LibrarySchemasV1 ==
    [envelope_schema |-> EnvelopeSchemaV1,
     associate_response |-> Describe(
        {<<"id", "String", TRUE>>, <<"success", "Bool", TRUE>>,
         <<"reason", "String", FALSE>>}),
     error_message |-> Describe(
        {<<"description", "String", TRUE>>, <<"id", "String", FALSE>>}),
     ttl_expired |-> Describe({<<"id", "String", TRUE>>}),
     debug_schema |-> Describe({<<"hops", "Array", TRUE>>}),
     debug_item_schema |-> Describe(
        {<<"server", "String", TRUE>>, <<"time", "String", TRUE>>,
         <<"stage", "String", FALSE>>})]

\* Those the v2 Connector registers.
LibrarySchemasV2 ==
    [envelope_schema |-> Describe(
        {<<"id", "String", TRUE>>, <<"message_type", "String", TRUE>>,
         <<"target", "String", FALSE>>, <<"sender", "String", FALSE>>,
         <<"in_reply_to", "String", FALSE>>, <<"data", "Any", FALSE>>}),
     error_message |-> Schema("Json", "String")]

\* Those a program may register: neither connector does so itself.
OfferedSchemasV1 ==
    [inventory_request |-> Describe({<<"query", "String", TRUE>>}),
     inventory_response |-> Describe({<<"uris", "Array", TRUE>>}),
     destination_report |-> Describe(
        {<<"id", "String", TRUE>>, <<"targets", "Array", TRUE>>}),
     version_error |-> Describe(
        {<<"id", "String", TRUE>>, <<"target", "String", TRUE>>,
         <<"reason", "String", TRUE>>})]

OfferedSchemasV2 ==
    [inventory_request |-> Describe(
        {<<"query", "Array", TRUE>>, <<"subscribe", "Bool", FALSE>>}),
     inventory_response |-> Describe({<<"uris", "Array", TRUE>>})]
=============================================================================
