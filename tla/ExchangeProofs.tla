---------------------------- MODULE ExchangeProofs ---------------------------
(***************************************************************************)
(* Proofs about Exchange, from those of its parts: every step of Exchange  *)
(* is one of DispatchProofs and one of MessageV1Proofs, and the steps      *)
(* that bring the parts together keep them in line.                        *)
(***************************************************************************)
EXTENDS Exchange, DispatchProofs, RoundTripProofs

\* The connector's own schemas and callbacks are there from the start.
LEMMA Start == Init => IndInv
<1> SUFFICES ASSUME Init PROVE IndInv
  OBVIOUS
<1>1. WireTypeOK /\ ParseInv
  BY WireStart DEF Init
<1>2. DispatchInit
  BY DEF Init
<1>3. DispatchTypeOK /\ RegistryInv /\ SchemaFitsCallback /\ MessageInv /\ ChunksInv
      /\ WellFormedHandled /\ FailuresExplained
  BY <1>2, DispatchStart
<1>4. stage = "idle" /\ step = "idle"
  BY DEF Init, DispatchInit, WireInit
<1>5. SentInv /\ ReadInv
  BY <1>4 DEF SentInv, ReadInv
<1> QED BY <1>1, <1>3, <1>4, <1>5 DEF IndInv, TypeOK, LinkInv

\* A chunk that is made from one of the texts declares its size.
LEMMA ChunkComplete ==
    ASSUME NEW type \in {ENVELOPE, DATA, DEBUG}, NEW text \in Seq(Octets),
           Len(text) < SizeLimit
    PROVE  Chunk(type, text) \in ChunkSet /\ Complete(Chunk(type, text), type)
           /\ Chunk(type, text).size = Len(text)
<1>1. Len(text) % SizeLimit = Len(text)
  <2> DEFINE n == Len(text)
  <2>1. n \in Nat /\ n < SizeLimit
    OBVIOUS
  <2> HIDE DEF n
  <2>2. n % SizeLimit = n
    BY <2>1, Sizes
  <2> QED BY <2>2 DEF n
<1>2. type % TypeMask = type
  BY FormatAssumption DEF ENVELOPE, DATA, DEBUG
<1> QED BY <1>1, <1>2, ChunkMade DEF Chunk, Complete, TypeOf

\* The chunks of a message are chunks, and what is delivered is a message.
LEMMA StepsOfParts ==
    ASSUME IndInv, [Next]_vars PROVE DispatchStep /\ WireStep
<1>1. WireTypeOK /\ LinkInv /\ DispatchTypeOK
  BY DEF IndInv, TypeOK
<1>2. ASSUME UNCHANGED wireVars PROVE WireStep
  BY <1>2 DEF WireStep
<1>3. ASSUME UNCHANGED dispatchVars PROVE DispatchStep
  BY <1>3 DEF DispatchStep
<1>4. CASE Create
  <2>1. PICK e \in Envelopes, c \in {NoChunk} \cup {Chunk(DATA, d) : d \in DataTexts} :
           Construct(Chunk(ENVELOPE, e), c)
    BY <1>4 DEF Create
  <2> DEFINE p == Chunk(ENVELOPE, e)
  <2>2. p \in ChunkSet /\ Complete(p, ENVELOPE) /\ p.size <= SizeLimit - 1 - HeaderSize
    <3>1. e \in Seq(Octets) /\ Len(e) <= SizeLimit - 1 - HeaderSize
      BY TextsAssumption, SizesAssumption
    <3>2. Len(e) < SizeLimit
      <4> DEFINE n == Len(e)
      <4>1. n \in Nat /\ n <= SizeLimit - 1 - HeaderSize
        BY <3>1
      <4> HIDE DEF n
      <4>2. n < SizeLimit
        BY <4>1, Sizes
      <4> QED BY <4>2 DEF n
    <3>3. p \in ChunkSet /\ Complete(p, ENVELOPE) /\ p.size = Len(e)
      BY <3>1, <3>2, ChunkComplete
    <3> HIDE DEF p
    <3> QED BY <3>1, <3>3
  <2>3. \A d \in DataTexts : Chunk(DATA, d) \in ChunkSet /\ Complete(Chunk(DATA, d), DATA)
    BY ChunkComplete, TextsAssumption, SizesAssumption
  <2>4. c \in ChunkSet /\ (c # NoChunk => Complete(c, DATA))
    BY <2>3, Sizes
  <2> HIDE DEF p
  <2>5. WireStep
    BY <2>1, <2>2, <2>4 DEF WireStep, CompleteParts, p
  <2> QED BY <1>3, <1>4, <2>5 DEF Create
<1>5. CASE SetData
  <2>1. PICK d \in DataTexts : setDataChunk(Chunk(DATA, d))
    BY <1>5 DEF SetData
  <2>2. Chunk(DATA, d) \in ChunkSet /\ Complete(Chunk(DATA, d), DATA)
    BY ChunkComplete, TextsAssumption, SizesAssumption
  <2> QED BY <1>3, <1>5, <2>1, <2>2 DEF SetData, WireStep
<1>6. CASE AddDebug
  <2>1. PICK d \in DebugTexts : addDebugChunk(Chunk(DEBUG, d))
    BY <1>6 DEF AddDebug
  <2>2. Chunk(DEBUG, d) \in ChunkSet /\ Complete(Chunk(DEBUG, d), DEBUG)
    BY ChunkComplete, TextsAssumption, SizesAssumption
  <2> QED BY <1>3, <1>6, <2>1, <2>2 DEF AddDebug, WireStep
<1>7. CASE Transfer \/ ParseBytes
  BY <1>3, <1>7 DEF Transfer, ParseBytes, WireStep
<1>8. CASE DeliverV1
  <2> DEFINE l == msg.debug
             t == [i \in DOMAIN l |-> l[i].content]
             m == [envelope |-> msg.envelope.content, has_data |-> hasData(msg),
                   data |-> msg.data.content, debug |-> t]
  <2>1. Receive(m) /\ UNCHANGED wireVars
    BY <1>8 DEF DeliverV1
  <2>2. l \in Seq(ChunkSet)
    BY <1>1 DEF WireTypeOK
  <2>3. Len(l) \in Nat /\ DOMAIN l = 1 .. Len(l)
    BY <2>2
  <2>4. DOMAIN t = 1 .. Len(l)
    BY <2>3
  <2>5. Len(t) = Len(l)
    <3>1. \A i \in 1 .. Len(l) : l[i] \in ChunkSet
      BY <2>2
    <3>2. t \in [1 .. Len(l) -> Seq(Octets)]
      BY <2>3, <3>1 DEF ChunkSet
    <3> HIDE DEF t
    <3> QED BY <2>3, <3>2
  <2>6. m.has_data \in BOOLEAN /\ m.debug = t
    BY DEF hasData
  <2> HIDE DEF l, t, m
  <2>7. incoming' = m
    BY <2>1 DEF Receive
  <2>8. Receive(incoming') /\ incoming'.has_data \in BOOLEAN
        /\ Len(incoming'.debug) \in Nat
        /\ DOMAIN incoming'.debug = 1 .. Len(incoming'.debug)
    BY <2>1, <2>3, <2>4, <2>5, <2>6, <2>7
  <2> QED BY <1>2, <2>1, <2>8 DEF DispatchStep
<1>9. CASE DeserializationError
  <2>1. stage = "idle" /\ Ends("undeserialized") /\ step = "invalid" /\ UNCHANGED wireVars
    BY <1>9 DEF DeserializationError
  <2>2. protocol = "v1"
    BY <1>1, <2>1 DEF LinkInv, DispatchTypeOK
  <2> QED BY <1>2, <2>1, <2>2 DEF DispatchStep
<1>10. CASE DeliverV2
  <2>1. PICK text \in TextsV2 : Receive([NoMessage EXCEPT !.envelope = text])
    BY <1>10 DEF DeliverV2
  <2> DEFINE m == [NoMessage EXCEPT !.envelope = text]
  <2>2. m.has_data = FALSE /\ m.debug = <<>>
    BY DEF NoMessage
  <2>3. incoming' = m /\ Receive(m)
    BY <2>1 DEF Receive
  <2> HIDE DEF m
  <2>4. Len(<<>>) = 0 /\ DOMAIN <<>> = 1 .. 0
    OBVIOUS
  <2>5. Receive(incoming') /\ incoming'.has_data \in BOOLEAN
        /\ Len(incoming'.debug) \in Nat
        /\ DOMAIN incoming'.debug = 1 .. Len(incoming'.debug)
    BY <2>2, <2>3, <2>4
  <2> QED BY <1>2, <1>10, <2>5 DEF DeliverV2, DispatchStep
<1>11. CASE Process
  BY <1>2, <1>11 DEF Process, DispatchStep
<1>12. CASE Finish
  BY <1>12 DEF Finish, DispatchStep, WireStep
<1>13. CASE Registering
  BY <1>2, <1>13 DEF Registering, DispatchStep
<1>14. CASE UNCHANGED vars
  BY <1>2, <1>3, <1>14 DEF vars
<1> QED
  BY <1>4, <1>5, <1>6, <1>7, <1>8, <1>9, <1>10, <1>11, <1>12, <1>13, <1>14
  DEF Next, Receiver

\* While a message is processed its bytes stay, and v2 has none of its own.
Linked ==
    /\ stage \notin {"idle", "done"} =>
          step = (IF protocol = "v1" THEN "parsed" ELSE "idle")
    /\ LinkInv

\* The steps that bring the two parts together keep them so.
LEMMA LinkNext ==
    ASSUME DispatchTypeOK, Linked, [Next]_vars, protocol' = protocol
    PROVE  Linked'
<1>1. protocol \in {"v1", "v2"}
  BY DEF DispatchTypeOK
<1>2. ASSUME UNCHANGED <<stage, step>> PROVE Linked'
  BY <1>2 DEF Linked, LinkInv
<1>3. ASSUME step \in {"built", "header", "chunks"}, UNCHANGED stage PROVE Linked'
  BY <1>1, <1>3 DEF Linked, LinkInv
<1>4. CASE Create
  <2>1. protocol = "v1" /\ stage = "idle" /\ UNCHANGED stage
    BY <1>4 DEF Create, Ready, dispatchVars
  <2> QED BY <2>1 DEF Linked, LinkInv
<1>5. CASE SetData
  BY <1>3, <1>5 DEF SetData, setDataChunk, dispatchVars
<1>6. CASE AddDebug
  BY <1>3, <1>6 DEF AddDebug, addDebugChunk, dispatchVars
<1>7. CASE Transfer
  BY <1>3, <1>7 DEF Transfer, Send, Damage, dispatchVars
<1>8. CASE ParseBytes
  BY <1>3, <1>8 DEF ParseBytes, Parse, ParseHeader, ParseChunk, ParseEnds, dispatchVars
<1>9. CASE DeliverV1
  <2>1. step = "parsed" /\ step' = step
    BY <1>9 DEF DeliverV1, wireVars
  <2>2. protocol = "v1"
    BY <1>1, <2>1 DEF Linked, LinkInv
  <2> QED BY <2>1, <2>2 DEF Linked, LinkInv
<1>10. CASE DeserializationError
  <2>1. stage' = "done" /\ step' = step
    BY <1>10 DEF DeserializationError, Ends, wireVars
  <2> QED BY <2>1 DEF Linked, LinkInv
<1>11. CASE DeliverV2
  <2>1. protocol = "v2" /\ step = "idle" /\ step' = step
    BY <1>11 DEF DeliverV2, Ready, wireVars
  <2> QED BY <2>1 DEF Linked, LinkInv
<1>12. CASE Process
  <2>1. stage \notin {"idle", "done"} /\ step' = step
    BY <1>12 DEF Process, processMessage, ParseEnvelope, ContentType, ValidateData,
       ExecuteCallback, wireVars
  <2> QED BY <2>1 DEF Linked, LinkInv
<1>13. CASE Finish
  BY <1>13 DEF Finish, Return, Forget, Linked, LinkInv
<1>14. CASE Registering
  BY <1>2, <1>14 DEF Registering, Register, registerSchema, insertCallback, wireVars
<1>15. CASE UNCHANGED vars
  BY <1>2, <1>15 DEF vars, dispatchVars, wireVars
<1> QED
  BY <1>4, <1>5, <1>6, <1>7, <1>8, <1>9, <1>10, <1>11, <1>12, <1>13, <1>14, <1>15
  DEF Next, Receiver

\* Every step preserves the invariant.
LEMMA InductiveStep == IndInv /\ [Next]_vars => IndInv'
<1> SUFFICES ASSUME IndInv, [Next]_vars PROVE IndInv'
  OBVIOUS
<1>1. /\ DispatchTypeOK /\ RegistryInv /\ SchemaFitsCallback /\ MessageInv /\ ChunksInv
      /\ WellFormedHandled /\ FailuresExplained
      /\ WireTypeOK /\ ParseInv /\ SentInv /\ ReadInv /\ Linked
  BY DEF IndInv, TypeOK, Linked
<1>2. DispatchStep /\ WireStep
  BY StepsOfParts
<1>3. Grows /\ RegistryInv' /\ SchemaFitsCallback'
  BY <1>1, <1>2, RegistryNext
<1>4. DispatchTypeOK'
  BY <1>1, <1>2, TypeNext
<1>5. MessageInv' /\ ChunksInv'
  BY <1>1, <1>2, MessageNext, ChunksNext
<1>6. WellFormedHandled' /\ FailuresExplained'
  BY <1>1, <1>2, HandledNext, ExplainedNext
<1>7. WireTypeOK' /\ ParseInv'
  BY <1>1, <1>2, WireNext
<1>8. Linked'
  BY <1>1, <1>3, LinkNext DEF Grows
<1>9. SentInv' /\ ReadInv'
  BY <1>1, <1>2, SentNext, ReadNext
<1> QED BY <1>3, <1>4, <1>5, <1>6, <1>7, <1>8, <1>9 DEF IndInv, TypeOK, Linked

\* The strengthened invariant holds, however many threads register, whatever the
\* texts are and hold, and however wide a byte and a size are.
THEOREM Invariance == Spec => []IndInv
BY Start, InductiveStep, PTL DEF Spec

\* The maps, the message in process and the bytes are what they should be, and a
\* message is processed while its chunks are there (processMessage(), parseMessage()).
THEOREM TypeCorrect == Spec => []TypeOK
BY Invariance, PTL DEF IndInv

\* Threads that register a name at the same time do not mix their schema and
\* their callback (registerMessageCallback()).
THEOREM Fits == Spec => []SchemaFitsCallback
BY Invariance, PTL DEF IndInv

\* A callback is told the truth about the data, whatever is registered while the
\* message is processed (getParsedChunks()).
THEOREM Truth == Spec => []FlagsTruthful
<1>1. IndInv => FlagsTruthful
  BY Truthful DEF IndInv, TypeOK
<1> QED BY <1>1, Invariance, PTL

\* A well-formed message of a type that was registered when it arrived reaches its
\* callback, which finds every field that it reads (processMessage()).
THEOREM Handled == Spec => []WellFormedHandled
BY Invariance, PTL DEF IndInv

\* A message with an envelope that misses its callback does so for one of the known
\* reasons, whatever is registered meanwhile (processMessage()).
THEOREM Explained == Spec => []FailuresExplained
BY Invariance, PTL DEF IndInv

\* An error message that one client sends is understood by the other (sendError(),
\* errorMessageCallback()).
THEOREM Errors == Spec => []ErrorsUnderstood
<1>1. IndInv => ErrorsUnderstood
  BY Understood DEF IndInv, TypeOK
<1> QED BY <1>1, Invariance, PTL

\* The parser reads no byte past the end, whatever was damaged (parseMessage()).
THEOREM Bounded == Spec => []InBounds
<1>1. IndInv => InBounds
  BY ParsedRight DEF IndInv, TypeOK
<1> QED BY <1>1, Invariance, PTL

\* What it makes of the bytes is a message whose chunks are valid and give as many
\* bytes again (parseMessage(), getSerialized()).
THEOREM Parsed == Spec => []ParsedWellFormed
<1>1. IndInv => ParsedWellFormed
  BY ParsedRight DEF IndInv, TypeOK
<1> QED BY <1>1, Invariance, PTL

\* A message that nothing damaged is not refused, and arrives as it was sent but for
\* an empty last chunk (parseMessage(), getSerialized()).
THEOREM RoundTrips == Spec => []RoundTrip
<1>1. IndInv => RoundTrip
  BY ReadRight DEF IndInv, TypeOK
<1> QED BY <1>1, Invariance, PTL

=============================================================================
