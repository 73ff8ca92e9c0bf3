----------------------------- MODULE MCExchange -----------------------------
(***************************************************************************)
(* A small instance of Exchange: texts of one byte, of which the tables    *)
(* below say what they hold.  Two threads register the same name, one for  *)
(* JSON and one for binary data.                                           *)
(***************************************************************************)
EXTENDS Exchange

CONSTANTS r1, r2

Table(docs) == [t \in {<<k>> : k \in DOMAIN docs} |-> docs[t[1]]]

Hop(fields) == Object([f \in fields |-> "String"])

\* An object of one field, an array of these items.
ArrayOf(field, items) ==
    [Object([f \in {field} |-> "Array"]) EXCEPT !.items = [f \in {field} |-> items]]

DocumentsV1 == Table(
    << createEnvelope("inventory_request", TRUE),
       createEnvelope("error_message", FALSE),
       createEnvelope("associate_response", FALSE),
       [Object([id |-> "String", message_type |-> "String",
                targets |-> "Array", expires |-> "String"])      \* no sender
           EXCEPT !.message_type = "error_message"],
       createEnvelope("unknown", FALSE),
       Object([id |-> "String", success |-> "Bool"]),
       Object([id |-> "String", description |-> "String"]),
       Object([id |-> "String"]),
       Object([query |-> "String"]),
       ArrayOf("hops", {Hop({"server", "time"})}),
       ArrayOf("hops", {Hop({"server", "time"}), Hop({"server"})}),
       createEnvelope("ttl_expired", FALSE) >>)

DocumentsV2 == Table(
    << sendV2("error_message", "String", <<8>>, TRUE),
       sendV2("inventory_request", "Object", <<9>>, FALSE),
       sendV2("inventory_request", "String", <<8>>, FALSE),
       sendV2("error_message", "Object", <<9>>, TRUE),
       [Object([id |-> "String", message_type |-> "String"])
           EXCEPT !.message_type = "error_message"],
       [Object([message_type |-> "String"]) EXCEPT !.message_type = "unknown"],
       sendV2("unknown", "Null", <<10>>, FALSE),
       Scalar("String"),
       ArrayOf("query", {Scalar("String")}),
       Scalar("Null"),
       ArrayOf("query", {Scalar("String"), Scalar("Int")}),
       sendV2("inventory_request", "Object", <<11>>, FALSE) >>)

MCDocuments == [v1 |-> DocumentsV1, v2 |-> DocumentsV2]

\* The v1 schema of r1 is parsed from JSON; a constraint added later is refused.
\* Its v2 schema asks that what "query" holds be strings.
MCRegistration ==
    LET Parsed(s) == addConstraint(ParsedSchema(s.properties, s.required),
                                   "limit", "Int", TRUE)
        Of(schema) ==
            [r \in {r1, r2} |->
                [name |-> "inventory_request",
                 schema |-> IF r = r1 THEN schema ELSE Schema("Binary", "Object")]]
    IN  [v1 |-> Of(Parsed(OfferedSchemasV1.inventory_request)),
         v2 |-> Of(addSubschema(OfferedSchemasV2.inventory_request, "query",
                                Schema("Json", "String"), TRUE))]

MCEnvelopes  == {<<k>> : k \in {1, 2, 3, 4, 5, 12}}
MCDataTexts  == {<<>>, <<6>>, <<7>>, <<9>>}
MCDebugTexts == {<<10>>, <<11>>}
MCTextsV2    == {<<k>> : k \in 1..13}
=============================================================================
