----------------------------- MODULE MessageV1 -----------------------------
(***************************************************************************)
(* The PCP v1 message format (lib/src/protocol/v1/message.cc, chunks.cc,   *)
(* serialization.hpp): a version byte and a list of chunks, each with a    *)
(* descriptor byte, a size in network order and that many bytes.  A sender *)
(* builds a message and serializes it, the bytes may be damaged on their   *)
(* way, and Message::parseMessage() reads them in one pass, here one       *)
(* action per chunk.                                                       *)
(*                                                                         *)
(* A byte is a number below Base (256), a size has SizeWidth (4) of them,  *)
(* and size_t is no wider than a size, as on 32-bit systems.               *)
(***************************************************************************)
EXTENDS Naturals, Sequences, SequencesExt

CONSTANTS
    Base, SizeWidth,
    TypeMask,       \* a chunk's type is its descriptor modulo this
    Noise           \* the bytes that damage can put in a message

ASSUME FormatAssumption ==
    /\ Base \in Nat /\ SizeWidth \in Nat \ {0}
    /\ TypeMask \in Nat /\ TypeMask > 3 /\ Base >= TypeMask
    /\ Noise \subseteq 0 .. Base - 1

VARIABLES
    sent,       \* the message the sender builds
    buffer,     \* its bytes, as they arrive
    damaged,    \* were they changed on the way?
    next,       \* where the parser is in the buffer
    left,       \* still_to_parse
    msg,        \* the members of the Message under construction
    step        \* building, parsing the header or the chunks, or the result

wireVars == <<sent, buffer, damaged, next, left, msg, step>>

ENVELOPE == 1
DATA     == 2
DEBUG    == 3
VERSION  == 1      \* SUPPORTED_VERSIONS

\* Base to the n-th.
Power[n \in Nat] == IF n = 0 THEN 1 ELSE Base * Power[n - 1]

SizeLimit  == Power[SizeWidth]
MetaSize   == 1 + SizeWidth            \* CHUNK_METADATA_SIZE
HeaderSize == 1 + MetaSize             \* with VERSION_FIELD_SIZE
TypeOf(descriptor) == descriptor % TypeMask

\* serialize<uint32_t> and deserialize<uint32_t>
Number(n) == [i \in 1..SizeWidth |-> (n \div Power[SizeWidth - i]) % Base]
Value(bytes) ==
    LET v[n \in 0 .. Len(bytes)] ==
            IF n = 0 THEN 0 ELSE v[n - 1] * Base + bytes[n]
    IN  v[Len(bytes)]

Chunk(descriptor, content) ==
    [descriptor |-> descriptor, size |-> Len(content) % SizeLimit,
     content |-> content]

NoChunk == Chunk(0, <<>>)

validateChunk(c) ==
    /\ TypeOf(c.descriptor) \in {ENVELOPE, DATA, DEBUG}
    /\ c.size = Len(c.content) % SizeLimit

validateVersion(v) == v = VERSION

hasData(m) == m.data.descriptor # 0

serializeOn(c) == <<c.descriptor>> \o Number(c.size) \o c.content

Chunks(m) == (IF hasData(m) THEN <<m.data>> ELSE <<>>) \o m.debug

Serialized(chunk_list) ==
    LET b[n \in 0 .. Len(chunk_list)] ==
            IF n = 0 THEN <<>> ELSE b[n - 1] \o serializeOn(chunk_list[n])
    IN  b[Len(chunk_list)]

getSerialized(m) ==
    <<m.version>> \o serializeOn(m.envelope)
        \o (IF hasData(m) THEN serializeOn(m.data) ELSE <<>>) \o Serialized(m.debug)

Blank == [version |-> 0, envelope |-> NoChunk, data |-> NoChunk, debug |-> <<>>]

WireInit ==
    /\ sent = Blank /\ msg = Blank
    /\ buffer = <<>> /\ damaged = FALSE
    /\ next = 0 /\ left = 0
    /\ step = "idle"

-----------------------------------------------------------------------------
(* The sender.                                                             *)

\* The constructors from chunks; c is NoChunk without data.
Construct(e, c) ==
    /\ step = "idle"
    /\ validateChunk(e) /\ (c # NoChunk => validateChunk(c))
    /\ sent' = [Blank EXCEPT !.version = VERSION, !.envelope = e, !.data = c]
    /\ step' = "built"
    /\ UNCHANGED <<buffer, damaged, next, left, msg>>

\* A data chunk that was there is replaced.
setDataChunk(c) ==
    /\ step = "built" /\ validateChunk(c)
    /\ sent' = [sent EXCEPT !.data = c]
    /\ UNCHANGED <<buffer, damaged, next, left, msg, step>>

addDebugChunk(c) ==
    /\ step = "built" /\ validateChunk(c)
    /\ sent' = [sent EXCEPT !.debug = Append(@, c)]
    /\ UNCHANGED <<buffer, damaged, next, left, msg, step>>

\* Mutant of Send: the data chunk goes last.
SendDataLast ==
    /\ step = "built"
    /\ buffer' = getSerialized([sent EXCEPT !.data = NoChunk])
                     \o (IF hasData(sent) THEN serializeOn(sent.data) ELSE <<>>)
    /\ next' = 1
    /\ step' = "header"
    /\ UNCHANGED <<sent, damaged, left, msg>>

Send ==
    /\ step = "built"
    /\ buffer' = getSerialized(sent)
    /\ next' = 1
    /\ step' = "header"
    /\ UNCHANGED <<sent, damaged, left, msg>>

\* Any one change of the bytes on their way.
Damage ==
    /\ step = "header" /\ ~damaged
    /\ \/ \E n \in 0 .. Len(buffer) - 1 : buffer' = SubSeq(buffer, 1, n)
       \/ \E b \in Noise :
             \/ buffer' = Append(buffer, b)
             \/ \E i \in DOMAIN buffer : buffer' = [buffer EXCEPT ![i] = b]
    /\ damaged' = TRUE
    /\ UNCHANGED <<sent, next, left, msg, step>>

-----------------------------------------------------------------------------
(* parseMessage().                                                         *)

Wrap(n) == n % SizeLimit

\* n bytes from a position; past the end there are none (see InBounds).
Bytes(from, n) ==
    SubSeq(buffer, from, IF from + n - 1 <= Len(buffer) THEN from + n - 1
                         ELSE Len(buffer))

EnvelopeSize == Value(Bytes(3, SizeWidth))

\* Mutant of HeaderValid: no test against the width of size_t.
HeaderUnguarded ==
    /\ Len(buffer) >= HeaderSize
    /\ validateVersion(buffer[1])
    /\ TypeOf(buffer[2]) = ENVELOPE
    /\ Len(buffer) >= Wrap(HeaderSize + EnvelopeSize)

\* A version that is supported, an envelope, and all of its bytes.
HeaderValid ==
    /\ Len(buffer) >= HeaderSize
    /\ validateVersion(buffer[1])
    /\ TypeOf(buffer[2]) = ENVELOPE
    /\ EnvelopeSize <= SizeLimit - 1 - HeaderSize
    /\ Len(buffer) >= Wrap(HeaderSize + EnvelopeSize)

ParseHeader ==
    /\ step = "header"
    /\ \/ ~HeaderValid /\ step' = "invalid" /\ UNCHANGED <<next, left, msg>>
       \/ /\ HeaderValid /\ step' = "chunks"
          /\ left' = Len(buffer) - Wrap(HeaderSize + EnvelopeSize)
          /\ next' = next + HeaderSize + EnvelopeSize
          /\ msg' = [Blank EXCEPT
                        !.version = buffer[1],
                        !.envelope =
                            [descriptor |-> buffer[2], size |-> EnvelopeSize,
                             content |-> Bytes(1 + HeaderSize, EnvelopeSize)]]
    /\ UNCHANGED <<sent, buffer, damaged>>

\* The chunk the parser is at.
ChunkType == TypeOf(buffer[next])
ChunkSize == Value(Bytes(next + 1, SizeWidth))
ChunkRead == [descriptor |-> buffer[next], size |-> ChunkSize,
              content |-> Bytes(next + MetaSize, ChunkSize)]

\* Mutant of ChunkValid: a second data chunk replaces the first.
ChunkValidAnyData ==
    /\ ChunkType \in {DATA, DEBUG}
    /\ ChunkSize <= left - MetaSize

\* Data or debug, all of its bytes are there, and no data chunk came before.
ChunkValid ==
    /\ ChunkType \in {DATA, DEBUG}
    /\ ChunkSize <= left - MetaSize
    /\ ChunkType = DATA => ~hasData(msg)

\* Mutant of ParseChunk: a chunk that is not complete is waited for.
ParseChunkPatient ==
    /\ step = "chunks" /\ left > MetaSize
    /\ \/ ~ChunkValid /\ UNCHANGED <<next, left, msg, step>>
       \/ /\ ChunkValid
          /\ msg' = IF ChunkType = DATA THEN [msg EXCEPT !.data = ChunkRead]
                    ELSE [msg EXCEPT !.debug = Append(@, ChunkRead)]
          /\ left' = left - (MetaSize + ChunkSize)
          /\ next' = next + MetaSize + ChunkSize
          /\ UNCHANGED step
    /\ UNCHANGED <<sent, buffer, damaged>>

ParseChunk ==
    /\ step = "chunks" /\ left > MetaSize
    /\ \/ ~ChunkValid /\ step' = "invalid" /\ UNCHANGED <<next, left, msg>>
       \/ /\ ChunkValid
          /\ msg' = IF ChunkType = DATA THEN [msg EXCEPT !.data = ChunkRead]
                    ELSE [msg EXCEPT !.debug = Append(@, ChunkRead)]
          /\ left' = left - (MetaSize + ChunkSize)
          /\ next' = next + MetaSize + ChunkSize
          /\ UNCHANGED step
    /\ UNCHANGED <<sent, buffer, damaged>>

\* Up to MetaSize bytes that are left over are ignored.
ParseEnds ==
    /\ step = "chunks" /\ left <= MetaSize
    /\ step' = "parsed"
    /\ UNCHANGED <<sent, buffer, damaged, next, left, msg>>

Parse == ParseHeader \/ ParseChunk \/ ParseEnds

\* The next message.
Forget ==
    /\ sent' = Blank /\ msg' = Blank
    /\ buffer' = <<>> /\ damaged' = FALSE
    /\ next' = 0 /\ left' = 0
    /\ step' = "idle"

-----------------------------------------------------------------------------
(* The inductive invariant.                                                *)

Octets   == 0 .. Base - 1
ChunkSet == [descriptor : Octets, size : Nat, content : Seq(Octets)]

WireTypeOK ==
    /\ {sent, msg} \subseteq
          [version : Octets, envelope : ChunkSet, data : ChunkSet, debug : Seq(ChunkSet)]
    /\ buffer \in Seq(Octets) /\ damaged \in BOOLEAN
    /\ {next, left} \subseteq Nat
    /\ step \in {"idle", "built", "header", "chunks", "invalid", "parsed"}

\* The parser starts at the version, and is then between two chunks: those it has
\* read are valid and make up the buffer with what is left.
ParseInv ==
    /\ step = "header" => next = 1
    /\ step \in {"chunks", "parsed"} =>
          /\ next + left = Len(buffer) + 1
          /\ validateChunk(msg.envelope)
          /\ TypeOf(msg.envelope.descriptor) = ENVELOPE
          /\ hasData(msg) =>
                validateChunk(msg.data) /\ TypeOf(msg.data.descriptor) = DATA
          /\ \A i \in DOMAIN msg.debug : validateChunk(msg.debug[i])
          /\ Len(getSerialized(msg)) + left = Len(buffer)
    /\ step = "parsed" => left <= MetaSize

\* A chunk that the size it declares is not too narrow for.
Complete(c, type) ==
    TypeOf(c.descriptor) = type /\ c.size = Len(c.content) /\ c.size < SizeLimit

\* What the sender builds.
SentInv ==
    step # "idle" =>
       /\ sent.version = VERSION
       /\ Complete(sent.envelope, ENVELOPE)
       /\ sent.envelope.size <= SizeLimit - 1 - HeaderSize
       /\ IF hasData(sent) THEN Complete(sent.data, DATA) ELSE sent.data = NoChunk
       /\ \A i \in DOMAIN sent.debug : Complete(sent.debug[i], DEBUG)

\* What the parser has read of it, when nothing was changed: the first chunks, and
\* a last one only if it is not empty.
ReadInv ==
    ~damaged =>
       /\ step # "invalid"
       /\ step \in {"header", "chunks", "parsed"} => buffer = getSerialized(sent)
       /\ step \in {"chunks", "parsed"} =>
             /\ msg.version = sent.version /\ msg.envelope = sent.envelope
             /\ \/ msg.data = NoChunk /\ msg.debug = <<>>
                \/ /\ msg.data = sent.data /\ Len(msg.debug) <= Len(sent.debug)
                   /\ msg.debug = SubSeq(sent.debug, 1, Len(msg.debug))
             /\ msg.data = sent.data /\ msg.debug = sent.debug /\ Chunks(sent) # <<>> =>
                   Last(Chunks(sent)).content # <<>>

-----------------------------------------------------------------------------
\* The parser never reads past the end of the buffer, whatever the bytes are and
\* however sizes wrap: what it has read and what it believes is left always make
\* up the buffer (parseMessage() dereferences iterators without a test).
InBounds ==
    step \in {"chunks", "parsed"} => next + left = Len(buffer) + 1

\* What is parsed is a message the constructors would accept too, and its chunks
\* are the buffer: serialized again, they give as many bytes, but for those
\* ignored at the end.
ParsedWellFormed ==
    step = "parsed" =>
        /\ validateChunk(msg.envelope)
        /\ \A i \in DOMAIN Chunks(msg) : validateChunk(Chunks(msg)[i])
        /\ TypeOf(msg.envelope.descriptor) = ENVELOPE
        /\ hasData(msg) => TypeOf(msg.data.descriptor) = DATA
        /\ Len(getSerialized(msg)) + left = Len(buffer)
        /\ left <= MetaSize

\* What the receiver makes of an undamaged message: a last chunk that is empty is
\* ignored, like any rest of MetaSize bytes.
Survives(m) ==
    LET cs == Chunks(m)
        kept == IF cs # <<>> /\ Last(cs).content = <<>> THEN Front(cs) ELSE cs
    IN  [m EXCEPT
            !.data = IF hasData(m) /\ kept # <<>> THEN m.data ELSE NoChunk,
            !.debug = IF hasData(m)
                      THEN IF kept = <<>> THEN <<>> ELSE Tail(kept)
                      ELSE kept]

\* An undamaged message arrives as it was sent, but for an empty last chunk.
RoundTrip ==
    ~damaged =>
        /\ step # "invalid"
        /\ step = "parsed" => msg = Survives(sent)
=============================================================================
