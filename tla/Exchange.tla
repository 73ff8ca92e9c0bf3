------------------------------ MODULE Exchange ------------------------------
(***************************************************************************)
(* A client that sends messages, a broker that passes them on or sends its *)
(* own, and a client that receives them: MessageV1 gives Dispatch the      *)
(* chunks of v1 messages.  In v2 a message is one JSON text, in a text     *)
(* frame.  Serialization, transport and parsing touch nothing that a       *)
(* thread calling registerMessageCallback() reads or writes, so these      *)
(* threads take their steps before and after.                              *)
(***************************************************************************)
EXTENDS Dispatch, MessageV1

CONSTANTS
    Envelopes, DataTexts, DebugTexts,   \* the texts of v1 messages, by chunk
    TextsV2                         \* those of v2 messages

ASSUME TextsAssumption ==
    \A text \in Envelopes \cup DataTexts \cup DebugTexts : text \in Seq(Octets)

\* No text is longer than a size can tell, as size_t is no wider.
ASSUME SizesAssumption ==
    /\ \A text \in Envelopes : Len(text) <= SizeLimit - 1 - HeaderSize
    /\ \A text \in DataTexts \cup DebugTexts : Len(text) < SizeLimit

vars == <<dispatchVars, wireVars>>

Init == DispatchInit /\ WireInit

Ready == stage = "idle" /\ step = "idle"

\* A v1 message is made from its chunks: sendMessage(), or the broker.
Create ==
    /\ protocol = "v1" /\ Ready
    /\ \E e \in Envelopes,
          c \in {NoChunk} \cup {Chunk(DATA, d) : d \in DataTexts} :
             Construct(Chunk(ENVELOPE, e), c)
    /\ UNCHANGED dispatchVars

SetData ==
    /\ \E d \in DataTexts : setDataChunk(Chunk(DATA, d))
    /\ UNCHANGED dispatchVars

AddDebug ==
    /\ sent.debug = <<>>        \* the bound on debug chunks
    /\ \E d \in DebugTexts : addDebugChunk(Chunk(DEBUG, d))
    /\ UNCHANGED dispatchVars

Transfer == (Send \/ Damage) /\ UNCHANGED dispatchVars

ParseBytes == Parse /\ UNCHANGED dispatchVars

\* onMessage() of a v1 connector: the message could be deserialized, or not.
DeliverV1 ==
    /\ step = "parsed"
    /\ Receive([envelope |-> msg.envelope.content,
                has_data |-> hasData(msg), data |-> msg.data.content,
                debug |-> [i \in DOMAIN msg.debug |-> msg.debug[i].content]])
    /\ UNCHANGED wireVars

DeserializationError ==
    /\ step = "invalid" /\ stage = "idle"
    /\ Ends("undeserialized")
    /\ UNCHANGED wireVars

DeliverV2 ==
    /\ protocol = "v2" /\ Ready
    /\ \E text \in TextsV2 : Receive([NoMessage EXCEPT !.envelope = text])
    /\ UNCHANGED wireVars

Process == processMessage /\ UNCHANGED wireVars

Finish == stage = "done" /\ Return /\ Forget

Registering == step \in {"idle", "parsed"} /\ Register /\ UNCHANGED wireVars

\* The thread of the event loop.
Receiver == ParseBytes \/ DeliverV1 \/ DeserializationError \/ Process \/ Finish

Next == Create \/ SetData \/ AddDebug \/ Transfer \/ Receiver \/ DeliverV2 \/ Registering

Spec     == Init /\ [][Next]_vars
FairSpec == Spec /\ WF_vars(Receiver)

-----------------------------------------------------------------------------
TypeOK ==
    /\ DispatchTypeOK /\ WireTypeOK
    /\ stage \notin {"idle", "done"} =>
          step = (IF protocol = "v1" THEN "parsed" ELSE "idle")

\* v2 messages are not made of chunks.
LinkInv == protocol = "v2" => step = "idle"

\* The inductive invariant.
IndInv ==
    /\ TypeOK /\ LinkInv
    /\ RegistryInv /\ SchemaFitsCallback       \* who has registered what
    /\ MessageInv /\ ChunksInv                 \* the message being processed
    /\ WellFormedHandled /\ FailuresExplained  \* how it ended
    /\ ParseInv /\ SentInv /\ ReadInv          \* and the bytes it came in

\* Whatever its bytes are, a message that arrives is disposed of, and the event
\* loop is free for the next one: the loop of parseMessage() ends.
Processed == step = "header" \/ stage = "envelope" ~> Ready
=============================================================================
